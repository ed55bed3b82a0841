SPECIFICATION LifecycleSpec
CONSTANTS
    \* SioPlugin
    Comps = {c1, c2}
    Natives = {n1, n2}
    Ids = {i}
    None = None
    \* SioLatent
    Targets = {t1, t2}
    Uuids = {u}
    Requests = {q}
    NoRequest = NoRequest
    MaxActions = 2
INVARIANTS
    FlagFollows
    SharedIsLive
    ContinueLive
PROPERTIES
    ShutdownEnds
    ApplyReturns
CHECK_DEADLOCK FALSE
