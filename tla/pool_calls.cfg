CONSTANTS
    Threads = {t1, t2}
    Capacity = 2
    Pages = {2, 3}
    Existing = {2}
    kNumShards = 2
    Ops = {"read", "write", "new", "delete", "flush", "flushall", "shutdown"}
    MaxGuards = 1
    MaxEpoch = 1
    MaxWrites = 2
    Faults = TRUE
    Racy = FALSE
    None = None
SPECIFICATION Spec
SYMMETRY Symmetry
INVARIANTS
    PinsMatchHolders
    FramesHaveOneHome
    AssertionsHold
    NeverAborts
    FlushWritesLivePage
    ShutdownSavesAll
