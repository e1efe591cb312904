SPECIFICATION Spec
CONSTANTS
    NumStreams = 1
    Reverse = FALSE
    Paced = FALSE
    Proto = "kcp"
    CtrlCap = 5
    DataCap = 1
    MaxTicks = 0
    MaxSessions = 2
    Faults = {"crash"}
PROPERTIES
    ListenErrorReturned
CHECK_DEADLOCK FALSE
