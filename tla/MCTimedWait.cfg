SPECIFICATION Spec
CONSTANTS
    kNanoSecondsPerSecond = 4
    Waits = {1, 3, 4, 10, 12}
    LastCall = 30
    MaxTime = 60
INVARIANT FalseMeansWoken
CHECK_DEADLOCK FALSE
