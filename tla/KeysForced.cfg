SPECIFICATION Spec
CONSTANTS
    Kids = {k1, k2, k3}
    NoKid = NoKid
    Consumers = {c1}
    Operators = {o1}
    Overlap = 2
    CacheTTL = 1
    TokenTTL = 1
    RestartWindow = 1
    ForceChoices = {TRUE, FALSE}
    MaxTime = 3
SYMMETRY Symmetry
INVARIANTS
    OneCurrentKey
CHECK_DEADLOCK FALSE
