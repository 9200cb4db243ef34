SPECIFICATION FairSpec
CONSTANTS
    Subs = {s1}
    Crons = {2}
    Cycle = 2
    Grace = 1
    MaxLag = 4
    MaxDue = 1
    MaxFaults = 1
    None = None
INVARIANTS
    RowsFollow
    FiredOnce
PROPERTIES
    CatchesUp
    CommandsEnd
CHECK_DEADLOCK FALSE
