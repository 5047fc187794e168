SPECIFICATION Spec
CONSTANTS
    Task = {t1, t2}
    Free = Free
    MaxTokens = 2
    MaxRetries = 2
SYMMETRY TaskSymmetry
INVARIANTS
    CacheInv
    FetchInv
    NoResendOfRefused
PROPERTIES
    NewestWins
    Linearizes
