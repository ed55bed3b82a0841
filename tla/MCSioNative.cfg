SPECIFICATION NativeSpec
CONSTANTS
    Auths = {a1, a2}
    Urls = {p1, p2, q}
    TlsUrls = {q}
    Events = {e}
    None = none
    Slots = {1}
    MaxVersion = 1
    MaxQueue = 2
SYMMETRY Symmetry
INVARIANTS
    ConnectedHasLink
    ComponentFollows
    SetAuthStays
    UnboundStays
CHECK_DEADLOCK FALSE
