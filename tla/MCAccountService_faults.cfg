SPECIFICATION Spec
CONSTANTS
    Request = {r1, r2, r3}
    AccountName = {n1, n2, n3}
    Email = {e1, e2}
    short = short
    good = good
    other = other
    Password <- MCPassword
    Strong <- MCStrong
    None = None
    TooLong = {n3}
    Faults <- AllFaults
SYMMETRY Symmetry
INVARIANTS
    OneAdminPerAccountName
    OneSignupSucceeds
    TokenNamesStoredUser
    AuditTellsTheTruth
PROPERTIES
    ImplementsRegistry
    LoginAcceptsWhoSignedUp
CHECK_DEADLOCK FALSE
