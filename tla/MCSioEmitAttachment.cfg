SPECIFICATION Spec
CONSTANTS
    Threads = {t1}
    Packets = {b}
    Binary = {b}
    Acked = {}
    None = none
    MaxDrops = 0
    MaxEvents = 1
    MaxAnswers = 0
INVARIANTS
    AttachmentFollows
CHECK_DEADLOCK FALSE
