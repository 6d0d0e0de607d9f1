\* Room for two of the longest tuples, or for three of one byte.
CONSTANTS
    PAGE_BODY_SIZE = 7
    HEAP_SUB_HEADER_SIZE = 1
    SLOT_SIZE = 1
    MAX_TUPLE_SIZE = 2
    Contents = {a, b}
    Tuples <- MCTuples
    SlotIds = {1, 2, 3, 4}
    NDEBUG = FALSE
SPECIFICATION Spec
SYMMETRY Symmetry
INVARIANTS
    CheckInvariants
PROPERTY
    ImplementsSlotPage
