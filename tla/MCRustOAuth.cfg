SPECIFICATION FairSpec
CONSTANTS
    Task = {t1, t2}
    Free = Free
    MaxTokens = 3
INVARIANTS
    OAuthInv
    RestartResumes
PROPERTIES
    RevokeIsFinal
    EveryCallReturns
