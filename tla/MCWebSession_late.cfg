SPECIFICATION Spec
CONSTANTS
    User = {u1, u2}
    Call = {c1, c2}
    None = None
SYMMETRY Symmetry
INVARIANT
    ShownUserHasSession
