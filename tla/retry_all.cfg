SPECIFICATION Spec
CONSTANTS
    Size = 4
    Ranges <- MCAllRanges
    MaxRetries = 2
CHECK_DEADLOCK FALSE
INVARIANTS
    TypeOK
    Contiguous
    EOFMeansComplete
    CompleteNeverFails
PROPERTY StreamEnds
