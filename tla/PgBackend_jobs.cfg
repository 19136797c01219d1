SPECIFICATION FairSpec
CONSTANTS
    w1 = w1
    w2 = w2
    mail = mail
    default = default
    None = None
    Workers = {w1, w2}
    Queues = {mail, default}
    WorkerQueues <- MCWorkerQueues
    Priorities = {0, 1}
    MaxAttempts = 2
    MaxJobs = 2
    MaxTime = 2
    MaxCrashes = 1
    MaxLostAcks = 1
    MaxRetries = 1
INVARIANTS
    AttemptBudget
    LockedWhileRunning
    SingleRunner
    JobsKept
    StatsComplete
PROPERTIES
    JobsSettle
    CompletedIsFinal
    ImplementsJobTable
CHECK_DEADLOCK FALSE
