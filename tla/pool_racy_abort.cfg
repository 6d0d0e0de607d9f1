CONSTANTS
    Threads = {t1, t2}
    Capacity = 2
    Pages = {2}
    Existing = {2}
    kNumShards = 1
    Ops = {"read", "new", "delete"}
    MaxGuards = 1
    MaxEpoch = 1
    MaxWrites = 2
    Faults = FALSE
    Racy = TRUE
    None = None
SPECIFICATION Spec
SYMMETRY Symmetry
INVARIANT NeverAborts
