SPECIFICATION Spec
CONSTANTS
    Zones <- MCZones
    Clock <- MCClock
INVARIANTS UtcTestPasses
\* The clock has reached its last time.
CHECK_DEADLOCK FALSE
