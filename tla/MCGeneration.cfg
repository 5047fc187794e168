SPECIFICATION GenSpec
CONSTANTS
    Path <- MCPath
    Publications <- MCPublications
    MaxRefreshes = 1
    MaxMishaps = 1
INVARIANTS
    TreeInv
PROPERTIES
    TreeIsEmitted
    
    NamesStay
    LockSettles
    MinorKeepsReads
    FilesPartition
