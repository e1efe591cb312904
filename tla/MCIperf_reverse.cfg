SPECIFICATION FairSpec
CONSTANTS
    NumStreams = 2
    Reverse = TRUE
    Paced = TRUE
    Proto = "rudp"
    CtrlCap = 5
    DataCap = 1
    MaxTicks = 0
    MaxSessions = 1
    Faults = {}
INVARIANTS
    ResultsFinal
PROPERTIES
    InPhases
    StreamsEnd
