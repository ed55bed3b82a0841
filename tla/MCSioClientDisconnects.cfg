SPECIFICATION FairSpec
CONSTANTS
    Threads = {t1, t2}
    Attempts = 2
    MaxPosted = 2
PROPERTIES
    CloseDisconnects
