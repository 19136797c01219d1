SPECIFICATION FairSpec
CONSTANTS
    i1 = i1
    i2 = i2
    daily = daily
    hourly = hourly
    None = None
    Instances = {i1}
    Defs = {daily, hourly}
    Overlap = {daily}
    Persistent = {daily}
    HashKey <- Distinct
    UseLeader = TRUE
    QueueSize = 1
    Concurrency = 1
    PoolSize = 2
    MaxTime = 2
    Period <- Every
    MaxShutdowns = 1
    Interruptible = {}
    MaxLosses = 0
    MaxErrors = 0
    MaxCloses = 1
INVARIANTS
    TicksDontOverlap
    QuietAfterShutdown
PROPERTIES
    ShutdownEnds
CHECK_DEADLOCK FALSE
