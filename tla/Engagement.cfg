SPECIFICATION Spec
CONSTANTS
    w1 = w1
    w2 = w2
    Workers = {w1, w2}
    MaxCalls = 2
    m1 = m1
    MsgIds = {m1}
    e1 = e1
    EventIds = {e1}
    MaxAnswers = 2
CHECK_DEADLOCK FALSE
INVARIANTS
    TypeOK
    ToldOrLost
PROPERTIES
    MessagesStay
    ToldInTheEnd
