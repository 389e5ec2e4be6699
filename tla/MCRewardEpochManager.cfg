SPECIFICATION Spec
CONSTANTS
    FirstRound = 1
    EpochLength = 1
    InitialEpoch = 0
    MaxEpoch = 3
    MaxRound = 3
    MaxDelay = 0
    TimelyIndexer = TRUE
    Calls = {c1, c2}
    RangeCalls = {r1}
    NoHint = NoHint
SYMMETRY Symmetry
CONSTRAINT RangeAlone
INVARIANTS
    TypeOK
    ListContiguous
    RightEpoch
    RangesRight
CHECK_DEADLOCK FALSE

