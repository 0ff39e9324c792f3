SPECIFICATION Spec
CONSTANTS
    Browsers = {b1, b2}
    People = {alice, bob}
    None = None
    COOLDOWN = 1
    MAX_AGE = 1
    SEEN = 1
    MaxTime = 4
    MaxStarts = 2
    MaxTokens = 1
    MaxKeys = 2
INVARIANTS
    OwnSignIn
    ConnectedByItself
    GenuineVerifies
SYMMETRY Symmetric
CHECK_DEADLOCK FALSE
