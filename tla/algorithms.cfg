SPECIFICATION Spec
CONSTANTS
    Pods = {1, 2, 3, 4, 5, 6}
    Nodes = {1, 2, 3}
    NodeOf <- MCNodeOf
    MaxPrefix = 10
    Scale = 20
    Mods = {"hls", "vtt"}
    HexWords = {"08ada"}
    MaxOrigin = 3
    MaxModPath = 3
    MaxURL = 12
    BadNumber = BadNumber
    NoToken = NoToken
    MaxLines = 5
INVARIANTS
    EvenPartition
    ExclusionStaysOnNode
    ChainPeelsMods
    
