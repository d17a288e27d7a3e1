SPECIFICATION Spec
CONSTANTS
    c1 = c1
    c2 = c2
    n1 = n1
    Clients = {c1, c2}
    Nested = {n1}
    Caller <- MCCaller
    Profiles <- MCProfiles
    Secured = TRUE
    Pods <- MCPods
    Statuses = {101, 206, 302}
    MaxTotal = 1
    MaxHops = 1
    MaxWrites = 1
INVARIANTS
    TypeOK
    HeldWhileServing
    RecordedAsSent
    BodiesClosed
    RightTarget
PROPERTIES
    RefusedForOthers
    GoneRequestsEnd
    RequestEnds
