SPECIFICATION FairSpec
CONSTANTS
    on = on
    off = off
    odd = odd
    w1 = w1
    w2 = w2
    Workers = {w1, w2}
    NumSettings = 1
    Outputs = {on, off, odd}
    Values = {on, off}
    Null = Null
    Convert <- MCConvert
    NullAnswers = TRUE
    LocalChanges = TRUE
    MaxDisturbances = 3
    MaxLate = 1
PROPERTY Converges
