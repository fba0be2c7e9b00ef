SPECIFICATION Spec
CONSTANTS
    energy = energy
    markets = markets
    Topics = {energy, markets}
    Interests <- TwoAgents
    MaxSteps = 2
    UseLLM = TRUE
    MaxPosts = 1
    NoId = NoId
    MaxId = 5
    MaxTicks = 2
    MaxScenarios = 1
    MaxKept = 1
INVARIANTS
    EverythingResolves
PROPERTIES
    ComparisonBranchesLive
