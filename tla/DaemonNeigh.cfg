SPECIFICATION FairSpec
CONSTANTS
    Ifaces = {e1}
    Ips = {a}
    Gateways = {g}
    Macs = {m1, m2}
    DscpMode = FALSE
    ArpSize = 1
    DscpSize = 1
    MaxGen = 2
    MaxLeft = 0
    Threads = 2
    MaxOrphans = 2
    None = None
PROPERTIES
    EventuallyAdvertised
    PinHeals
