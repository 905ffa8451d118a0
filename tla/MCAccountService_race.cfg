SPECIFICATION Spec
CONSTANTS
    Request = {r1, r2, r3}
    AccountName = {n1, n2}
    Email = {e1, e2}
    short = short
    good = good
    other = other
    Password <- MCPassword
    Strong <- MCStrong
    None = None
    TooLong = {}
    Faults <- NoFaults
SYMMETRY Symmetry
INVARIANT
    SettledAccountHasAdmin
CHECK_DEADLOCK FALSE
