SPECIFICATION Spec
CONSTANTS
    Targets <- TwoTargets
    Stamped <- OneStamped
    MaxVersion = 2
    MaxRevision = 2
    MaxForeign = 1
    MaxByHand = 1
INVARIANTS
    FleetInv
    TagIsStamp
    NewOnlyByHand
    ReleasesAreTagged
PROPERTIES
    ReleaseIsWhole
