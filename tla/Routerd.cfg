SPECIFICATION Spec
CONSTANTS
    Daemons <- MCDaemons
    Ips = {"x", "y"}
    Leases <- MCLeases
    SourceBased = FALSE
    DscpIdMax = 2
    Period = 1
    Stale = 2
    MaxTime = 4
    MaxFaults = 1
    None = None
    Failed = Failed
INVARIANTS TypeOK IdsUnambiguous IdsBacked LeasesHeld PlanesAgree MarksHold
PROPERTIES OutageKeepsRoutes
CHECK_DEADLOCK FALSE
