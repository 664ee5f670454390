SPECIFICATION Spec
CONSTANTS
    t1 = t1
    t2 = t2
    s1 = s1
    Tabs = {t1, t2}
    Staff = {s1}
    Workers = {t1, t2, s1}
    MaxCalls = 3
    MaxAttempts = 1
SYMMETRY Interchangeable
CHECK_DEADLOCK FALSE
INVARIANTS
    TypeOK
    SessionsCutOff
    OneResetEach
    
PROPERTIES
    AccountStands
