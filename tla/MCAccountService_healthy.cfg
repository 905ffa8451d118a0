SPECIFICATION FairSpec
CONSTANTS
    Request = {r1, r2, r3}
    AccountName = {n1, n2}
    Email = {e1, e2, e3}
    short = short
    good = good
    other = other
    Password <- OnePassword
    Strong <- OnePassword
    None = None
    TooLong = {e3}
    Faults <- NoFaults
INVARIANTS
    AdminLostOnlyToDuplicate
    AnsweredIsAudited
PROPERTIES
    FailureMeansRival
    EveryRequestAnswered
CHECK_DEADLOCK FALSE
