SPECIFICATION Spec
CONSTANTS
    NumStreams = 1
    Reverse = FALSE
    Paced = FALSE
    Proto = "tcp"
    CtrlCap = 5
    DataCap = 1
    MaxTicks = 1
    MaxSessions = 1
    Faults = {"refused", "shortRead", "deadline", "slow"}
INVARIANTS
    NoPanic
    ExchangeSafe
CHECK_DEADLOCK FALSE
