SPECIFICATION Spec
CONSTANTS
    Workers = {w1}
    Bookings = {b1, b2}
    Extensions = {e1}
    Units = {u1}
    Modes = {"instant"}
    Windows <- OneWindow
    MaxTime = 4
    RentalRate = 4
    ServiceRate = 1
    Deposit = 1
    RefundPcts = {50}
    MaxOverlaps = 0
    MaxFailures = 0
    MaxCompletions = 1
    MaxReleased = 1
    u1 = u1
SYMMETRY Interchangeable
CHECK_DEADLOCK FALSE
INVARIANTS
    BackstopAvailable
