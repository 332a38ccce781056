SPECIFICATION FairSpec
CONSTANTS
    Workers = {w1}
    Picea = Picea
    Faults = {"log"}
    EarlyMidnight = FALSE
    MaxTransfers = 0
PROPERTY FailureEndsProcess
