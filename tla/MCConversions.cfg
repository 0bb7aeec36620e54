SPECIFICATION SpecWalk
CONSTANTS
    Zones <- MCZones
    Clock <- MCClock
    FirstYear = 1900
    FirstWeekDay = 1
    LastYear = 2500
    Bytes = {0, 1, 255}
    MaxLength = 3
    Words = {"(", ")", "Threads:", "3", "x"}
    Numbers = {"3", "7"}
INVARIANTS DateIsRight FieldsAreRight LocalRoundTrip OrderIsTotal NamesDoNotConfuse
\* The clock has reached its last time, the calendar its last day.
CHECK_DEADLOCK FALSE
