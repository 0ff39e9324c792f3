SPECIFICATION Spec
CONSTANTS
    Browsers = {desk, phone}
    Native = {phone}
    Requests = {r1, r2}
    None = None
    freeAttempts = 1
    baseDelay = 1
    maxDelay = 1
    Window = 1
    STEP_UP_WINDOW = 1
    SESSION_ABSOLUTE = 2
    MaxTime = 2
    MaxRequests = 3
    MaxPasswords = 1
INVARIANTS
    TypeOK
    FreshIffProved
    
    DoneOnce
PROPERTIES
    CodeSpentOnce
    GuessesSpaced
SYMMETRY Symmetric
CHECK_DEADLOCK FALSE
