SPECIFICATION Spec
CONSTANTS
    Adders = {p1, p2}
    Closer = main
    BatchSize = 2
    MaxRecords = 3
    Reliable = TRUE
    Replicated = FALSE
    Sharded = FALSE
CHECK_DEADLOCK FALSE
PROPERTY StoreResolved
