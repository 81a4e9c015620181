SPECIFICATION Spec
CONSTANTS
    User = {u1}
    Role <- MCRole
    RoleAdmin = "admin"
    Allowed <- MCAllowed
    Request = {r1, r2}
    AccessTtl = 2
    RefreshTtl = 4
    MaxWait = 1
    MaxTime = 5
    MaxLogins = 1
    MaxMints = 4
SYMMETRY
    Symmetry
INVARIANTS
    TypeOK
    AuthorityIsRecent
    LoginIsOnRecord
CHECK_DEADLOCK FALSE
