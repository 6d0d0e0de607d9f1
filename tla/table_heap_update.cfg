CONSTANTS
    PAGE_BODY_SIZE = 7
    HEAP_SUB_HEADER_SIZE = 1
    SLOT_SIZE = 1
    MAX_TUPLE_SIZE = 2
    Threads = {t1, t2}
    Scanners = {}
    PageIds = {p1, p2, p3}
    INSERT_PROBE_LIMIT = 1
    COMPACT_THRESHOLD = 2
    Lengths = {1, 2}
    Tuples <- MCTuples
    MaxCalls = 5
    Faults = FALSE
    Racy = TRUE
    None = None
SPECIFICATION Spec
SYMMETRY Symmetry
INVARIANT NoRowDuplicated
