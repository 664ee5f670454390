SPECIFICATION Spec
CONSTANTS
    w1 = w1
    w2 = w2
    Workers = {w1, w2}
    MaxCalls = 2
    p1 = p1
    p2 = p2
    p3 = p3
    PhotoIds = {p1, p2, p3}
    MinPhotos = 1
    MaxPhotos = 2
    Up = {"u1"}
    Down = {}
SYMMETRY Interchangeable
CHECK_DEADLOCK FALSE
INVARIANTS
    LiveWasApproved
