SPECIFICATION Spec
CONSTANTS
    World <- MCWorld
    Limits <- MCLimits
    DefaultSpacing <- MCSpacing
    MinPostsForAds = 2
    MinRequestedGap = 2
    ResultSize = 2
    WhoToFollowPosition = 1
    PromptsPosition = 0
    Past <- ScrollPast
    Requests <- ScrollRequests
    Scenarios <- ScrollScenarios
INVARIANTS NothingRepeats AskedForOnly BestOfConversation
    KeepsNewestHistory CachedFromOneRequest ModulesRest
CHECK_DEADLOCK FALSE
