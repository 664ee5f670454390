SPECIFICATION Spec
CONSTANTS
    Workers = {w1}
    Bookings = {b1, b2}
    Extensions = {e1}
    Units = {u1}
    Modes = {"instant", "request"}
    Windows <- Adjacent
    MaxTime = 3
    RentalRate = 4
    ServiceRate = 1
    Deposit = 1
    RefundPcts = {50}
    MaxOverlaps = 0
    MaxFailures = 0
    MaxCompletions = 2
    MaxReleased = 2
    u1 = u1
SYMMETRY Interchangeable
CHECK_DEADLOCK FALSE
INVARIANTS
    NoOverlap
    StatusFitsStage
    DisputedWhileUnresolved
    DepositSettledOnce
    OneRenterHoldsTheItem
    HistoryMatchesRow
    CompletionsCounted
PROPERTIES
    StagesMoveForward
    CompletionSettles
