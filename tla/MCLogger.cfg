SPECIFICATION Spec
CONSTANTS
    kSmallBuffer = 16
    kMaxNumericSize = 5
    Threads = {t1, t2}
    MainThread = t1
    Zones = {8}
    NoZone = NoZone
    Pieces <- MCPieces
    PartLength = 1
    Line = 12
    NoMessage = NoMessage
    Writers = {t1}
    MaxAsked = 18
    MaxTime = 2
    MaxTid = 3
INVARIANTS MessageShowsItsTime MessageShowsItsThread ShortMessagesAreExact
\* The process may have ended with a FATAL message.
CHECK_DEADLOCK FALSE
