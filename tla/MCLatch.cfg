SPECIFICATION SpecWalk
CONSTANTS
    Threads = {t1, t2, t3, t4}
    NoThread = NoThread
    Count = 2
    MaxDowns = 4
    SpuriousLimit = 2
INVARIANTS HolderIsExact NobodyLeftBehind
PROPERTIES ImplementsLatch WaitersPass
\* All the calls were made and every thread has passed the latch.
CHECK_DEADLOCK FALSE
