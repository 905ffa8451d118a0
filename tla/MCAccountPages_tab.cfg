SPECIFICATION PagesFairSpec
CONSTANTS
    User = {u1, u2}
    Call = {c1, c2, c3}
    Invitation = {i1}
    ErrorInfo = {e1, e2}
    None = None
INVARIANTS
    PagesTypeOK
    TokenMatchesStorage
PROPERTIES
    OnlyLateAnswersDiverge
    NoErrorIsCutShort
    OnlyOldRoutersPartPageFromUrl
    SessionRestored
