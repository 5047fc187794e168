SPECIFICATION Spec
CONSTANTS
    Task = {t1, t2, t3}
    MaxTokens = 3
SYMMETRY TaskSymmetry
INVARIANTS
    TsInv
    HoldsTheGrant
    RevokedGone
PROPERTIES
    ForcedIsAnother
