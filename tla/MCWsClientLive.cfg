SPECIFICATION LiveSpec
CONSTANTS
    Threads = {t1, t2}
    Conns = {c1, c2}
    None = none
    Main = t1
    Second = c2
PROPERTIES
    CallsReturn
    CloseIsAnswered
    ClosedThreadEnds
CHECK_DEADLOCK FALSE
