SPECIFICATION Spec
CONSTANTS
    admin = admin
    user = user
    other = other
    a1 = a1
    a2 = a2
    User = {admin, user, other}
    Account = {a1, a2}
    AccountOf <- MCAccountOf
    RoleOf <- MCRoleOf
    Email = {short, long}
    TooLong = {long}
    Unknown = Unknown
    None = None
    Request = {r1, r2, r3}
    Faults <- AllFaults
SYMMETRY Symmetry
INVARIANTS
    AccessStaysInAccount
    AuditTellsTheTruth
    InvitationsAreFound
CHECK_DEADLOCK FALSE
