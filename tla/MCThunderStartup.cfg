SPECIFICATION FairSpec
CONSTANTS
    NumThreads = 2
    PartitionCounts <- OneOrTwo
    BatchSize = 2
    Permits = 1
    MaxBacklog = 4
    MaxProduced = 1
    MaxPanics = 1
CHECK_DEADLOCK FALSE
INVARIANTS
    SignalsAccount
    FinalizedAfterCatchUp
PROPERTIES
    ServesAfterCatchUp
