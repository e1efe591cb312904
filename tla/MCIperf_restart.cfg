SPECIFICATION Spec
CONSTANTS
    NumStreams = 1
    Reverse = FALSE
    Paced = FALSE
    Proto = "rudp"
    CtrlCap = 2
    DataCap = 1
    MaxTicks = 0
    MaxSessions = 2
    Faults = {"crash", "refused", "shortRead", "deadline", "slow"}
INVARIANTS
    Framing
    HandlerInv
    QueuedIsSent
    OwnShare
CHECK_DEADLOCK FALSE
