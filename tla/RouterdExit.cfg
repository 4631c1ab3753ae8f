SPECIFICATION LifeSpec
CONSTANTS
    Addrs = {5}
    Gateways = {"g1", "g2"}
    Ifaces = {"i1"}
    Marks = {1, 2}
    Goals <- LifeGoals
    Configs <- LifeConfigs
    None = None
    MaxGen = 2
    MaxEvents = 4
INVARIANT CleanExit
CHECK_DEADLOCK FALSE
