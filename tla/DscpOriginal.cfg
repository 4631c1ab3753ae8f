SPECIFICATION Spec
CONSTANTS
    f = f
    Daemons = {1, 2}
    Flows = {f}
    Home <- HomeOne
    Rest <- SumAtEdge
    ClientTos = {1, 4, 9}
    ServerTos = {0}
    MaxWire = 1
    None = None
PROPERTY OriginalAlwaysRestored
