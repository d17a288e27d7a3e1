SPECIFICATION SteadySpec
CONSTANTS
    Pods = {1, 2, 3, 4}
    Nodes = {1, 2}
    NodeOf <- MCNodeOf
    MaxPrefix = 3
    Scale = 10
    Requests = {r1}
    Keys = {0, 3, 4}
    NodeHash = TRUE
    Role = "trial"
    NodeStats <- MCStats
    LocalNode = 1
    LocationTTL = 1
    ProbeTTL = 1
    IgnoreTTL = 1
    EndpointsTTL = 2
    MaxTicks = 1
PROPERTY UnavailableJustified
