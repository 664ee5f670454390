SPECIFICATION Spec
CONSTANTS
    Providers = {p1}
    Credits = {c1, c2}
    Settlements = {s1, s2}
    Admins = {a1, a2}
    References = {t1}
    NoSettlement = NoSettlement
    NoReference = NoReference
SYMMETRY Interchangeable
CHECK_DEADLOCK FALSE
INVARIANTS
    SettlementsMatchRows
