SPECIFICATION Spec
CONSTANTS
    on = on
    off = off
    odd = odd
    w1 = w1
    w2 = w2
    Workers = {w1}
    NumSettings = 1
    Outputs = {on, off}
    Values = {on, off}
    Null = Null
    Convert <- MCConvert
    NullAnswers = TRUE
    LocalChanges = FALSE
    MaxDisturbances = 1
    MaxLate = 0
INVARIANT CallbackOnlyAfterSuccess
