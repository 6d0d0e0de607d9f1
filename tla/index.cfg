CONSTANTS
    INT64_MIN = 0
    INVALID_PAGE <- MCNone
    NODE_CAPACITY = 4
    Pages = {2, 3, 4, 5, 6, 7, 8, 9, 10, 11, 12, 13, 14}
    MaxKey = 7
    Keys <- MCKeys
    Rids <- MCRids
    NoRid = 0
    Fanouts <- MCFanouts
    Intervals <- MCIntervals
    MaxLeaks = 1
SPECIFICATION Spec
CONSTRAINT LeakBound
VIEW View
INVARIANTS
    TypeOK
    TreeIsSound
    PagesHaveOneHome
    NoPageLatchedTwice
    FrameBudget
    AssertionsHold
PROPERTIES
    ErrorChangesNothing
    IsOrderedIndex
