SPECIFICATION Spec
CONSTANTS
    i1 = i1
    i2 = i2
    daily = daily
    hourly = hourly
    None = None
    Instances = {i1, i2}
    Defs = {daily}
    Overlap = {daily}
    Persistent = {daily}
    HashKey <- Distinct
    UseLeader = TRUE
    QueueSize = 1
    Concurrency = 1
    PoolSize = 2
    MaxTime = 1
    Period <- EveryTime
    MaxShutdowns = 1
    Interruptible = {i1, i2}
    MaxLosses = 1
    MaxErrors = 1
    MaxCloses = 1
SYMMETRY Symmetry
INVARIANTS
    OneEnqueuer
    LeadershipGivenUp
    
CHECK_DEADLOCK FALSE
