SPECIFICATION Spec
CONSTANTS
    NumStreams = 1
    Reverse = FALSE
    Paced = FALSE
    Proto = "tcp"
    CtrlCap = 5
    DataCap = 1
    MaxTicks = 0
    MaxSessions = 2
    Faults = {}
PROPERTIES
    ClientEndsFirst
CHECK_DEADLOCK FALSE
