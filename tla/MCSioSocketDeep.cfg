SPECIFICATION Spec
CONSTANTS
    Nsps = {root}
    Root = root
    MaxPackets = 3
INVARIANTS
    JoinIsWatched
    SettledAgreement
PROPERTIES
    RejectionHolds
