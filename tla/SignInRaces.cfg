SPECIFICATION Spec
CONSTANTS
    Accounts = {a1, a2}
    Nobody = Nobody
    Uids = {u1}
    Requests = {r1, r2}
    ApprovalIds = {p1}
    Phones = {a1, a2}
    MAX_APPROVALS_PER_SIGN_IN = 5
    NoChallenge = NoChallenge
    MaxRequests = 6
    MaxChanges = 0
SYMMETRY Symmetry
INVARIANTS
    CredentialsAreTheirOwn
    FactorAskedUnlessExcused
    PhoneApprovedLogin
CHECK_DEADLOCK FALSE
