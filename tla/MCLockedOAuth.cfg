SPECIFICATION LockedFairSpec
CONSTANTS
    Task = {t1, t2}
    Free = Free
    MaxTokens = 3
    MaxCrashes = 1
INVARIANTS
    LockedInv
    RotationReported
PROPERTIES
    EventuallySaved
