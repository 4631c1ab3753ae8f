SPECIFICATION LifeFairSpec
CONSTANTS
    Addrs = {5}
    Gateways = {"g1", "g2"}
    Ifaces = {"i1"}
    Marks = {1, 2}
    Goals <- LifeGoals
    Configs <- LifeConfigs
    None = None
    MaxGen = 2
    MaxEvents = 4
INVARIANTS OneRulePerTable NeverMixed StartsClean
PROPERTIES ServesGoal
CHECK_DEADLOCK FALSE
