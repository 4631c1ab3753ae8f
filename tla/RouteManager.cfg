SPECIFICATION Spec
CONSTANTS
    Addrs <- MCAddrs
    Gateways = {"g1", "g2"}
    Ifaces = {"i1", "i2"}
    Marks = {1, 2}
    Goals <- MCGoals
    None = None
    MaxGen = 2
    MaxEvents = 4
INVARIANTS TypeOK OneRulePerTable NeverMixed PassInv
PROPERTIES ImplementsSteering NoFlap
