SPECIFICATION PromptSpec
CONSTANTS
    b1 = b1
    b2 = b2
    w1 = w1
    w2 = w2
    Buckets = {b1, b2}
    Waiters = {w1, w2}
    BucketOf <- MCTwoBuckets
    Rate = 1
    Capacity = 2
    Counts = {3}
    Timeout = 1
PROPERTIES
    IdealSpec
    WaitReturns
