SPECIFICATION FairSpec
CONSTANTS
    Hosts = {h1, h2}
    Ips = {1, 2}
    Stale = 1
    MaxFaults = 1
    None = None
    Failed = Failed
PROPERTIES
    HeldPoolSurvives
    StalePruned
    PoolAppears
    PoolStays
