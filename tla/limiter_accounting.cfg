SPECIFICATION Spec
CONSTANTS
    Requests = {r1, r2, r3}
    Sessions = {s1}
    Addrs = {a1, a2, a3}
    Subnets = {}
    NoIP = NoIP
    Null = Null
    f1 = f1
    f2 = f2
    h = h
    Files = {f1, f2}
    SizeOf <- MCSizeOf
    HashOf <- MCHashOf
    ModSizes <- MCModSizes
    Capacity = 1
    LightFiles = {}
    BigFileThreshold = 3
    MaxPerPath = 1
    MaxBigFilesPerHash = 1
    MaxTotal = 2
    MaxIPs = 0
    Window = 1
SYMMETRY MCSymmetry
INVARIANTS
    SlotAccounting
    BigCapPerState
    NoSessionLeak
    LightOnlyByService
PROPERTIES
    RefusalsJustified
