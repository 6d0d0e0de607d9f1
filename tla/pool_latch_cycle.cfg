CONSTANTS
    Threads = {t1, t2}
    Capacity = 2
    Pages = {2, 3, 4}
    Existing = {2, 3, 4}
    kNumShards = 2
    Ops = {"write"}
    MaxGuards = 2
    MaxEpoch = 2
    MaxWrites = 6
    Faults = FALSE
    Racy = FALSE
    None = None
SPECIFICATION Spec
SYMMETRY Symmetry
INVARIANT NoLatchCycle
