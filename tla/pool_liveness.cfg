CONSTANTS
    Threads = {t1, t2}
    Capacity = 1
    Pages = {2, 3}
    Existing = {2, 3}
    kNumShards = 2
    Ops = {"read", "write", "delete", "shutdown"}
    MaxGuards = 1
    MaxEpoch = 1
    MaxWrites = 2
    Faults = TRUE
    Racy = TRUE
    None = None
SPECIFICATION FairSpec
INVARIANTS
    DeletedPageNotCached
PROPERTIES
    WaitersWake
    JoinTerminates
