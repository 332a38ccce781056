SPECIFICATION FairSpec
CONSTANTS
    MaxConns = 4
    MaxWorkers = 3
    QueueSize = 2
    Faults = {"thread", "memory", "master", "spurious"}
INVARIANTS
    TypeOK
    OneKeeper
    NoLostWakeup
    PoolGrows
    NoThreadOutlivesContext
PROPERTIES
    HttpServerRefinement
    QueueRefinement
    Served
    StopCompletes
