CONSTANTS
    Capacity = 3
    kMaxUsageCount = 3
    NoFrame = NoFrame
SPECIFICATION FairSpec
INVARIANTS
    CountAgrees
    Inductive
PROPERTIES
    EvictReturns
    ImplementsCandidateSet
