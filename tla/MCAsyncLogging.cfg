SPECIFICATION Spec
CONSTANTS
    kLargeBuffer = 3
    LineLengths = {1, 2}
    DropThreshold = 2
    NoBuffer = NoBuffer
    CreateMayFail = TRUE
    LineLimit = 7
INVARIANTS
    AssertionsHold BuffersFit NothingLost CrashLosesTheNewest
PROPERTIES
    GapsAnnounced CallsReturn LinesGetWritten
\* stop() has returned and nobody appends any more, or pthread_create failed.
CHECK_DEADLOCK FALSE
