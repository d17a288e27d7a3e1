SPECIFICATION Spec
CONSTANTS
    Adders = {p1, p2}
    Closer = main
    BatchSize = 2
    MaxRecords = 3
    Reliable = FALSE
    Replicated = TRUE
    Sharded = TRUE
CHECK_DEADLOCK FALSE
INVARIANTS
    TypeOK
    BatchBound
    NoDuplicateRows
    NothingLost
PROPERTY StoresCatchUp
