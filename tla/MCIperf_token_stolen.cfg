SPECIFICATION FairSpec
CONSTANTS
    NumStreams = 1
    Reverse = FALSE
    Paced = FALSE
    Proto = "tcp"
    CtrlCap = 5
    DataCap = 1
    MaxTicks = 1
    MaxSessions = 1
    Faults = {}
PROPERTIES
    TimerEndsTest
CHECK_DEADLOCK FALSE
