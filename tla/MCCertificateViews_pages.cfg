SPECIFICATION Spec
CONSTANTS
    None = None
    a = a
    b = b
    root = root
    intermediate = intermediate
    leaf = leaf
    p = p
    q = q
    Account = {a, b}
    Certificate <- MCCertificate
    Authority <- MCAuthority
    RootCA = {root}
    AccountOf <- MCAccountOf
    Admin = {a}
    Password = {p, q}
    PasswordOf <- MCPasswordOf
    KeySize = {2048}
    Year = {1}
    Call = {c1, c2}
SYMMETRY Symmetry
INVARIANTS
    CompleteSearchIsSubmitted
PROPERTIES
    OnlyTypeChangesHideSignatory
    OnlyLateAnswersAccuse
    OnlyLateAnswersShowForeign
