SPECIFICATION Spec
CONSTANTS
    i1 = i1
    i2 = i2
    daily = daily
    hourly = hourly
    None = None
    Instances = {i1, i2}
    Defs = {daily}
    Overlap = {}
    Persistent = {}
    HashKey <- Distinct
    UseLeader = TRUE
    QueueSize = 1
    Concurrency = 1
    PoolSize = 2
    MaxTime = 1
    Period <- EveryTime
    MaxShutdowns = 0
    Interruptible = {}
    MaxLosses = 0
    MaxErrors = 0
    MaxCloses = 0
INVARIANTS
    FiredOnce
CHECK_DEADLOCK FALSE
