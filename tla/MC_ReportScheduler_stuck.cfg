SPECIFICATION FairSpec
CONSTANTS
    Subs = {s1}
    Crons = {1}
    Cycle = 1
    Grace = 1
    MaxLag = 3
    MaxDue = 1
    MaxFaults = 0
    None = None
PROPERTY MissedOnly
CHECK_DEADLOCK FALSE
