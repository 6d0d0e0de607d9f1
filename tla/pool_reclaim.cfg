CONSTANTS
    Threads = {t1, t2}
    Capacity = 2
    Pages = {2, 3, 4}
    Existing = {2, 3, 4}
    kNumShards = 2
    Ops = {"read", "write"}
    MaxGuards = 1
    MaxEpoch = 2
    MaxWrites = 2
    Faults = FALSE
    Racy = FALSE
    None = None
SPECIFICATION Spec
SYMMETRY Symmetry
INVARIANTS
    TypeOK
    MappingAgrees
    NoLostCandidate
    GuardsSeeLatest
    NoLostWrite
    PinFixesIdentity
