SPECIFICATION Spec
CONSTANTS
    NumStreams = 2
    Sizes = {1}
    MaxBlocks = 1
    MaxTicks = 1
    MaxRetrans = 1
    Word = 8
INVARIANTS
    TypeOK
    TotalWithinCredited
    IntervalWithinBytes
    IntervalsAccount
    RetransTelescopes
    ToldWithinABlock
PROPERTIES
    OwnCountKept
CHECK_DEADLOCK FALSE
