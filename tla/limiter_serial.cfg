SPECIFICATION SerialSpec
CONSTANTS
    Requests = {r1, r2, r3, r4}
    Sessions = {s1}
    Addrs = {a1}
    Subnets = {i1, i2}
    NoIP = NoIP
    Null = Null
    f1 = f1
    f2 = f2
    h = h
    Files = {f1, f2}
    SizeOf <- MCSizeOf
    HashOf <- MCHashOf
    ModSizes <- MCModSizes
    Capacity = 1
    LightFiles = {}
    BigFileThreshold = 3
    MaxPerPath = 2
    MaxBigFilesPerHash = 1
    MaxTotal = 3
    MaxIPs = 1
    Window = 0
SYMMETRY MCSymmetry
INVARIANTS
    TypeOK
    IPCapPerState
    RequestLimits
    BigFilesLimit

