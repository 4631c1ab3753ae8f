SPECIFICATION Spec
CONSTANTS
    Ifaces = {e1, e2}
    Ips = {a, b}
    Gateways = {g, h}
    Macs = {}
    DscpMode = TRUE
    ArpSize = 2
    DscpSize = 1
    MaxGen = 2
    MaxLeft = 1
    Threads = 1
    MaxOrphans = 0
    None = None
SYMMETRY Symmetry
INVARIANTS
    TypeOK
    NothingLeaks
    AdvertisedIsAnswered
    RefresherServesLease
PROPERTIES
    ImplementsAdvertising
