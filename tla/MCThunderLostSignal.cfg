SPECIFICATION Spec
CONSTANTS
    NumThreads = 2
    PartitionCounts <- OneEach
    BatchSize = 2
    Permits = 1
    MaxBacklog = 2
    MaxProduced = 1
    MaxPanics = 1
INVARIANTS
    CaughtUpIsSignalled
