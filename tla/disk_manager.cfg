\* Two threads, three allocatable pages, page writes that may be short.
CONSTANTS
    Threads = {t1, t2}
    NoThread = NoThread
    MaxPages = 5
    ShortWrites = TRUE
SPECIFICATION Spec
SYMMETRY Symmetry
INVARIANTS
    Inductive
    PersistedHeadIsFree
    FreelistIsChain
    OwnedPagesAreLive
    NoFalseCorruption
PROPERTIES
    PublishedPageIsStamped
    ImplementsAllocator
