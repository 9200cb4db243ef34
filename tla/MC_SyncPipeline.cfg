SPECIFICATION FairSpec
CONSTANTS
    RidLess <- MCRidLess
    MaxChanges = 1
    MaxClock = 2
    MaxFaults = 1
    MaxClicks = 1
    Retention = 0
INVARIANTS
    HandedOverOnce
    ChangesOnce
PROPERTIES
    HistoryStaysQuiet
    Converges
CHECK_DEADLOCK FALSE
