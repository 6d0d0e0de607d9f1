SPECIFICATION Spec
CONSTANTS
    Threads = {t1}
    NoThread = NoThread
    MaxPages = 4
    ShortWrites = FALSE
PROPERTY
    DeallocateReturnsPage
