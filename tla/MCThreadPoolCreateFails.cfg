SPECIFICATION Spec
CONSTANTS
    Callers = {c1}
    NumThreads = 2
    MaxQueueSizes = {}
    TaskLimit = 1
    Nested = FALSE
    Throwing = FALSE
    CreateMayFail = TRUE
INVARIANTS JoinsStartedThreads
CHECK_DEADLOCK FALSE
