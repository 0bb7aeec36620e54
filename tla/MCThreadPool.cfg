SPECIFICATION Spec
CONSTANTS
    Callers = {c1, c2}
    NumThreads = 2
    MaxQueueSizes = {1, 2}
    TaskLimit = 3
    Nested = TRUE
    Throwing = TRUE
    CreateMayFail = FALSE
INVARIANTS
    NoWakeupLost NobodyBlockedAfterStop QuietAfterStop
PROPERTIES
    ImplementsExecutor StopReturns AcceptedTasksRun RunReturns
\* Every task has been offered and stop() has returned, or is never called.
CHECK_DEADLOCK FALSE
