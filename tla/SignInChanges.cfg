SPECIFICATION Spec
CONSTANTS
    Accounts = {a1}
    Nobody = Nobody
    Uids = {u1}
    Requests = {r1, r2}
    ApprovalIds = {}
    Phones = {}
    MAX_APPROVALS_PER_SIGN_IN = 5
    NoChallenge = NoChallenge
    MaxRequests = 4
    MaxChanges = 2
SYMMETRY Symmetry
INVARIANTS
    DeviceTrustFollowsFactor
CHECK_DEADLOCK FALSE
