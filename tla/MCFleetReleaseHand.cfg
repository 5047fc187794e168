SPECIFICATION Spec
CONSTANTS
    Targets <- TwoTargets
    Stamped <- OneStamped
    MaxVersion = 1
    MaxRevision = 2
    MaxForeign = 0
    MaxByHand = 1
INVARIANTS
    NothingNewUnderATag
