SPECIFICATION Spec
CONSTANTS
    r1 = r1
    r2 = r2
    r3 = r3
    r4 = r4
    admin = admin
    user = user
    other = other
    ghost = ghost
    a1 = a1
    a2 = a2
    n1 = n1
    n2 = n2
    n3 = n3
    n4 = n4
    TooLong = {n4}
    short = short
    good = good
    secret = secret
    User <- MCUser
    Account <- MCAccount
    AccountOf <- MCAccountOf
    RoleOf <- MCRoleOf
    CertName <- MCName
    Password <- MCPassword
    Strong <- MCStrong
    Unknown = Unknown
    None = None
    Request <- ChainRequest
    Sends <- ChainSends
    Faults <- AllFaults
INVARIANTS
    ChainsEndInARoot
    SignedWithSignatorysKey
    AnswersStayInAccount
    FullChainIsComplete
    AuditTellsTheTruth
PROPERTY
    ImplementsTree
CHECK_DEADLOCK FALSE
