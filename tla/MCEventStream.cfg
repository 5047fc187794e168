SPECIFICATION FairSpec
CONSTANTS
    MaxPosted = 3
    MaxSeen = 2
    DefaultLimit = 2
    Limits = {0, 1}
    MaxRepeats = 1
    MaxQuirks = 2
CHECK_DEADLOCK FALSE
INVARIANTS
    StreamInv
    EachOnceUntilCut
    CloseWakes
PROPERTIES
    HandsOutTheLog
