SPECIFICATION Spec
CONSTANTS
    Kids = {k1, k2, k3}
    NoKid = NoKid
    Consumers = {c1}
    Operators = {o1, o2}
    Overlap = 2
    CacheTTL = 1
    TokenTTL = 1
    RestartWindow = 1
    ForceChoices = {FALSE}
    MaxTime = 5
SYMMETRY Symmetry
INVARIANTS
    LiveTokensPublished
    ConsumersVerify
    OwnTokensVerify
    CurrentKeyStays
CHECK_DEADLOCK FALSE
