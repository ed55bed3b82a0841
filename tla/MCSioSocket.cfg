SPECIFICATION FairSpec
CONSTANTS
    Nsps = {root, chat}
    Root = root
    MaxPackets = 1
INVARIANTS
    TypeOK
    ConnectedNeedsLink
PROPERTIES
    LeaveCompletes
