SPECIFICATION FairSpec
CONSTANTS
    NumStreams = 2
    Reverse = FALSE
    Paced = FALSE
    Proto = "tcp"
    CtrlCap = 5
    DataCap = 1
    MaxTicks = 0
    MaxSessions = 1
    Faults = {"crash", "serverCrash", "refused", "shortRead"}
INVARIANTS
    Framing
    OneHandler
PROPERTIES
    ClientTerminates
    ServerRecovers
CHECK_DEADLOCK FALSE
