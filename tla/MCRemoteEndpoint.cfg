SPECIFICATION Spec
CONSTANTS
    Phone = {p1, p2}
    None = None
    Request = {q1, q2}
    Changing = {c1}
    MaxDrops = 1
INVARIANTS
    RevokedActsNoMore
    HoldCountsAreTrue
    MacKeepsTheVoice
SYMMETRY Symmetry
CHECK_DEADLOCK FALSE
