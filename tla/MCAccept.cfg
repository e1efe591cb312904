SPECIFICATION FairSpec
CONSTANTS
    Clients = {1, 2, 3}
    NumStreams = 2
INVARIANTS
    TypeOK
    OneTest
    IndexMatches
PROPERTIES
    Served
CHECK_DEADLOCK FALSE
