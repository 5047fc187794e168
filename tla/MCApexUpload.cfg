SPECIFICATION Spec
CONSTANTS
    MaxTotal = 7
    PartSizes = {0, 2, 3, 6, 8}
    MaxRetries = 1
    CalloutLimit = 12
CHECK_DEADLOCK FALSE
INVARIANTS
    UploadInv
    Settled
    FundedSendLives
