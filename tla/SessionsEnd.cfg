SPECIFICATION Spec
CONSTANTS
    Sids = {s1, s2}
    Apps = {app}
    Slow = {}
    Requests = {r1}
    Handlers = {h1}
    Person = Person
    None = None
    ATTEMPTS = 2
INVARIANTS
    TypeOK
    RevokedMeansGone
    ToldMeansEnded
PROPERTIES
    
    EveryErrandEnds
CHECK_DEADLOCK FALSE
