CONSTANTS
    Self = self
    h1 = h1
    h2 = h2
    Hops = {h1, h2}
    Orders = {o}
    Capacity <- MCCapacity
    ReaderSets <- ApiOnly
    Loads <- ReportsOnly
    Measured <- MCMeasured
    Window = 1
    MinTolerance = 1
    PingTimeout = 2
    MaxTime = 2
    MaxPings = 2
    MaxOther = 3
    MaxDups = 1

SPECIFICATION Spec

PROPERTY ReportsReachEngine
CHECK_DEADLOCK FALSE
