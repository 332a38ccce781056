SPECIFICATION FairSpec
CONSTANTS
    Workers = {w1}
    Picea = Picea
    Faults = {}
    EarlyMidnight = TRUE
    MaxTransfers = 0
PROPERTY RestartCompletes
