SPECIFICATION DriftSpec
CONSTANTS
    Addrs = {5, 254}
    Gateways = {"g1"}
    Ifaces = {"i1", "i2"}
    Marks = {1, 2}
    Leases <- MCLeases
    IfaceOrder <- MCIfaceOrder
    Files <- MCFiles
    RivalGoals <- MCRivalGoals
    None = None
    MaxGen = 2
    MaxEvents = 3
INVARIANTS NoLeftovers
PROPERTIES Converges
CHECK_DEADLOCK FALSE
