SPECIFICATION Spec
CONSTANTS
    Writes = {w1, w2, w3}
    MaxDepth = 3
    MaxSavepoints = 4
    MaxErrors = 2
    NestedDeadlines = TRUE
INVARIANTS
    LogMatchesCalls
PROPERTIES
    ImplementsNestedTx
CHECK_DEADLOCK FALSE
