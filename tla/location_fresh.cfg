SPECIFICATION Spec
CONSTANTS
    Pods = {1, 2}
    Nodes = {1, 2}
    NodeOf <- MCNodeOf
    MaxPrefix = 3
    Scale = 10
    Requests = {r1, r2}
    Keys = {0}
    NodeHash = FALSE
    Role = "none"
    NodeStats <- MCStats
    LocalNode = 0
    LocationTTL = 1
    ProbeTTL = 1
    IgnoreTTL = 1
    EndpointsTTL = 1
    MaxTicks = 1
INVARIANT TypeOK
PROPERTY NeverLongDead
