SPECIFICATION Spec
CONSTANTS
    Threads = {t1}
    Conns = {c1, c2}
    None = none
INVARIANTS
    NoOrphan
    IInv
PROPERTIES
    KeepsContract
CHECK_DEADLOCK FALSE
