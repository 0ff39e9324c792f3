SPECIFICATION Spec
CONSTANTS
    Ids = {u1, u2}
    Emails = {e1, e2}
    Factors = {f1, f2}
    Codes = {f1}
    InviteIds = {i1}
    Tasks = {t1, t2}
    Nobody = Nobody
    MaxTasks = 4
SYMMETRY Symmetry
INVARIANTS
    ClaimedOnce
    OwnerRemains
    InviteSpentOnce
    PurgedOnRequest
CHECK_DEADLOCK FALSE
