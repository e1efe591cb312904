SPECIFICATION Spec
CONSTANTS
    NumStreams = 1
    Reverse = TRUE
    Paced = FALSE
    Proto = "tcp"
    CtrlCap = 5
    DataCap = 1
    MaxTicks = 0
    MaxSessions = 2
    Faults = {}
INVARIANTS
    OneHandler
PROPERTIES
    InPhases
CHECK_DEADLOCK FALSE
