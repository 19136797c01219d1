SPECIFICATION FairSpec
CONSTANTS
    N = 3
    Starters = {1, 3}
    Stoppers = {1, 2, 3}
    Clients = {r1, r2}
    UseDb = TRUE
INVARIANTS
    HooksCalled
    DatabaseClosedLast
PROPERTIES
    ProcessEnds
CHECK_DEADLOCK FALSE
