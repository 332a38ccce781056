SPECIFICATION Spec
CONSTANTS
    on = on
    off = off
    odd = odd
    w1 = w1
    w2 = w2
    Workers = {w1, w2}
    NumSettings = 2
    Outputs = {on, off}
    Values = {on, off}
    Null = Null
    Convert <- MCConvert
    NullAnswers = FALSE
    LocalChanges = TRUE
    MaxDisturbances = 2
    MaxLate = 1
SYMMETRY WorkerSymmetry
INVARIANTS
    TypeOK
    NoBadAccess
PROPERTY SettledStays
