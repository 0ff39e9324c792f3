SPECIFICATION Spec
CONSTANTS
    Users = {u1}
    Clients = {app, native}
    Native = native
    Managed = {app}
    Groups = {g1}
    Roles = {role}
    Families = {f1}
    Requests = {r1}
    Admins = {a1, a2}
    None = None
    MaxChanges = 2
INVARIANTS
    TypeOK
    RevocationReaches
    RolesDeclared
 
SYMMETRY Symmetric
CHECK_DEADLOCK FALSE
