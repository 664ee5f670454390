SPECIFICATION Spec
CONSTANTS
    Providers = {p1, p2}
    Credits = {c1, c2, c3}
    Settlements = {s1, s2}
    Admins = {a1, a2}
    References = {t1, t2}
    NoSettlement = NoSettlement
    NoReference = NoReference
SYMMETRY Interchangeable
CHECK_DEADLOCK FALSE
INVARIANTS
    TypeOK
    StampedIsCounted
    CountedIsStamped
    AuditAgrees
