CONSTANTS
    p1 = p1
    p2 = p2
    x = x
    Posts <- MCPosts
    Payloads <- MCPayloads
    Arrivals <- MCArrivals
    MaxAttempts = 1
    MaxExpiries = 1
    LosingAnswers = {"kafka"}
CHECK_DEADLOCK FALSE
SPECIFICATION Spec
INVARIANTS OnlyEligiblePublished PublishedPerWindow SuccessAccountsForPlans
PROPERTIES EveryExecutionEnds
