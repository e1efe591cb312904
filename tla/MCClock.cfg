SPECIFICATION Spec
CONSTANTS
    Second = 12
    PacingTime = 3
    SendPeriod = 2
    Margin = 15
    DefaultBlk = 3
    Word = 1048576
    MaxDur = 60
    MaxBlk = 100000
    Options <- MCOptions
    Late = 2
INVARIANTS
    TestAsAsked
    PanicsOnlyIf
    OneResultPerInterval
    NeverFaster
    NeverSlower
CHECK_DEADLOCK FALSE
