SPECIFICATION Spec
CONSTANTS
    Threads = {t1, t2}
    Packets = {a, b}
    Binary = {b}
    Acked = {a, b}
    None = none
    MaxDrops = 1
    MaxEvents = 1
    MaxAnswers = 2
INVARIANTS
    TypeOK
    SentOnce
    SentInOrder
    NoneLost
    CalledOnce
    AnswersFindCallbacks
CHECK_DEADLOCK FALSE
