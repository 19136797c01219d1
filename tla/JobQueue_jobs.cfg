SPECIFICATION FairSpec
CONSTANTS
    j1 = j1
    j2 = j2
    j3 = j3
    j4 = j4
    NoJob = NoJob
    Jobs = {j1, j2, j3, j4}
    Persistent = {j4}
    Cancellable = {j1, j2}
    HasBackend = TRUE
    Concurrency = 2
    QueueSize = 1
    Panics = {j1}
    MaxShutdowns = 2
INVARIANTS
    EnqueueAnswers
PROPERTIES
    QuietAfterShutdown
    JobsExecuted
    ShutdownEnds
CHECK_DEADLOCK FALSE
