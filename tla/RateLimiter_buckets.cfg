SPECIFICATION Spec
CONSTANTS
    IPs = {ip1, ip2}
    Requests = {r1, r2}
    Rate = 1
    Burst = 2
    CleanupAfter = 3
    CleanupEvery = 2
    MaxStall = 1
    MaxTime = 6
    None = None
INVARIANTS
    OneBucket
PROPERTIES
    ImplementsTokenBuckets
CHECK_DEADLOCK FALSE
