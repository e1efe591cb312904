SPECIFICATION FairSpec
CONSTANTS
    NumStreams = 2
    Reverse = FALSE
    Paced = FALSE
    Proto = "tcp"
    CtrlCap = 5
    DataCap = 1
    MaxTicks = 0
    MaxSessions = 1
    Faults = {}
INVARIANTS
    TypeOK
    Framing
    OwnShare
PROPERTIES
    EndHeard
    InPhases
    ClientTerminates
    ServerReturns
    StreamsEnd
