SPECIFICATION Spec
CONSTANTS
    Task = {g1, g2}
    Free = Free
    MaxTokens = 2
    MaxRetries = 2
INVARIANTS
    NoResendOfRefused
