SPECIFICATION Spec
CONSTANTS
    Workers = {w1, w2}
    Bookings = {b1}
    Extensions = {e1}
    Units = {u1}
    Modes = {"request"}
    Windows <- OneWindow
    MaxTime = 4
    RentalRate = 4
    ServiceRate = 1
    Deposit = 1
    RefundPcts = {50}
    MaxOverlaps = 1
    MaxFailures = 0
    MaxCompletions = 1
    MaxReleased = 1
    u1 = u1
SYMMETRY Interchangeable
CHECK_DEADLOCK FALSE
INVARIANTS
    ChargedOnce
