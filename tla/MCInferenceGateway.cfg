SPECIFICATION GatewayFairSpec
CONSTANTS
    Model = {coding, reasoning}
    TokenBudget = 1
    MaxTokens = 1
    HourLimit = 1
    MaxDispatches = 2
    MaxRequests = 2
    MaxFailures = 2
INVARIANTS
    OneModelLoaded
PROPERTIES
    DispatchedComesBack
CHECK_DEADLOCK FALSE
