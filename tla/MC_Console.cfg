SPECIFICATION Spec
CONSTANTS
    Release <- MCRelease
    RidLess <- MCRidLess
    Worlds <- MCWorlds
    Requests <- MCRequests
    AlertRequests <- MCAlertRequests
    CallThreshold = 2
    ScanDepth = 2
    FrequencyWindow = 4
    FrequencyThreshold = 1
    MediumFrom = 2
    HighFrom = 5
    AlertWindow = 4
    ChangeWindow = 2
    RelatedWindow = 2
    IncidentWindow = 2
    Start = 6
    MaxClock = 8
    MaxMoves = 1
    MaxUser = 1
    MaxRestarts = 1
INVARIANTS
    ConfigChangeReachesUsers
    SuggestedRollbackFits
    AlertsFindTheirCause
    CorrelationIsMutual
    CallsAttach
    BuildsReachPods
    FrequentTargetsAreTagged
    HealthIsCurrent
    ViewsShowDependents
    ReportsTellOfTrouble
CHECK_DEADLOCK FALSE
