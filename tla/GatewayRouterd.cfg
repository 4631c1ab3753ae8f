SPECIFICATION GwSpec
CONSTANTS
    Daemons <- MCDaemons
    Ips = {"x"}
    Leases <- MCLeases
    SourceBased = FALSE
    DscpIdMax = 2
    Period = 1
    Stale = 2
    GwLate = 0
    MaxTime = 4
    MaxFaults = 1
    None = None
    Failed = Failed
INVARIANTS IdsUnambiguous ListedIsRecent OwnRoutesRecent
PROPERTIES WithdrawnForCause
CHECK_DEADLOCK FALSE
