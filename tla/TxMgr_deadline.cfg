SPECIFICATION Spec
CONSTANTS
    Writes = {w1, w2}
    MaxDepth = 2
    MaxSavepoints = 2
    MaxErrors = 0
    NestedDeadlines = TRUE
INVARIANTS
    FailedLeavesNoTrace
CHECK_DEADLOCK FALSE
