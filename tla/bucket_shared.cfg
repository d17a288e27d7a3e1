SPECIFICATION Spec
CONSTANTS
    b1 = b1
    b2 = b2
    w1 = w1
    w2 = w2
    Buckets = {b1}
    Waiters = {w1, w2}
    BucketOf <- MCOneBucket
    Rate = 1
    Capacity = 2
    Counts = {1, 3}
    Timeout = 1
INVARIANTS
    TypeOK
    OneProber
    TokensConserved
    LocalBounded
