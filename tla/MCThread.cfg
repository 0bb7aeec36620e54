SPECIFICATION SpecLocals
CONSTANTS
    Objects = {o1, o2}
    main = main
INVARIANTS NoDanglingAccess ReclaimedOnce InstanceAlive TestsAreDestroyed
PROPERTIES CallsReturn
\* The process is over, or every thread waits for the program.
CHECK_DEADLOCK FALSE
