CONSTANTS
    Self = self
    h1 = h1
    h2 = h2
    Hops = {h1, h2}
    Orders = {o}
    Capacity <- MCCapacity
    ReaderSets <- WatchtowerOnly
    Loads <- MCLoads
    Measured <- MCMeasured
    Window = 1
    MinTolerance = 1
    PingTimeout = 2
    MaxTime = 2
    MaxPings = 2
    MaxOther = 3
    MaxDups = 1

SPECIFICATION Spec

INVARIANTS
    ObservationsSound
PROPERTIES
    EventuallyDrained
CHECK_DEADLOCK FALSE
