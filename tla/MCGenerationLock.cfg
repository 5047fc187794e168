SPECIFICATION GenSpec
CONSTANTS
    Path <- MCPath
    Publications <- MCPublications
    MaxRefreshes = 1
    MaxMishaps = 1
INVARIANTS
    LockResolves
