SPECIFICATION Spec
CONSTANTS
    World <- FeedWorld
    Limits <- FeedLimits
    DefaultSpacing <- FeedSpacing
    MinPostsForAds = 5
    MinRequestedGap = 3
    ResultSize = 12
    WhoToFollowPosition = 3
    PromptsPosition = 0
    Past <- ScrollPast
    Requests <- FeedRequests
    Scenarios <- FeedScenarios
INVARIANTS AdsSafe AdSpacing NoClashBesideAds FeedKeepsPosts
PROPERTIES EveryRequestAnswered EffectsEnd
CHECK_DEADLOCK FALSE
