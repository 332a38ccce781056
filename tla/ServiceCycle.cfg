SPECIFICATION FairSpec
CONSTANTS
    Workers = {w1, w2, w3}
    Picea = Picea
    Faults = {"config", "log", "data", "bind", "kill"}
    EarlyMidnight = FALSE
    MaxTransfers = 3
INVARIANTS
    TypeOK
    CallbackNeverDangles
    CurlAlive
    NewCycleQuiescent
    NoStaleConnection
    StopHonoured
    StopBoundsWork
PROPERTIES
    SessionRefinement
    HttpServerRefinement
    RestartCompletes
    PollerEndRestarts
