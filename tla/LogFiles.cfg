SPECIFICATION Spec
CONSTANTS
    Main = "main"
    Poller = "poller"
    Workers = {"w1"}
    MaxAge = 1
    Faults = {"directory", "open", "remove", "data", "kill"}
    MaxLines = 1
    MaxMainLines = 4
    MaxFaults = 2
CHECK_DEADLOCK FALSE
INVARIANTS LinesWhole FreshLinesStay
PROPERTY FatalEndsProcess
