SPECIFICATION Spec
CONSTANTS
    Keys = {k1, k2}
    k1 = k1
    k2 = k2
    Tries <- OneRetry
    Wanted <- TwoOverlapping
    MaxSlot = 4
    MaxAssets = 1
    Offers <- TwoOffers
    Buffer = 1
    Blockable <- LaterBlock
    MaxUpsets = 2
    SlotsPerDay = 2
    CommissionBps = 1500
CHECK_DEADLOCK FALSE
INVARIANTS
    TypeOK
    ChargedOncePerKey
    AnswersAgree
    QuantityNeverOversold
    RefundWithinCharge
PROPERTIES
    ImplementsCalendar
    EveryRequestAnswered
