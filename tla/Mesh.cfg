SPECIFICATION MeshSpec
CONSTANTS
    n1 = n1
    n2 = n2
    n3 = n3
    n4 = n4
    alice = alice
    Nodes <- FourNodes
    MeshNodes <- FourNodes
    PeersOf <- Ring
    Orders <- TwoOrders
    HopLimits = {1, 4}
    FlagThreshold = 3
    MaxLate = 1
    MaxProbes = 1
    Subjects = {n4}
    Observers = {n1}
    Watchtowers = {n3}
    Registries <- AtStart
    Keys <- ApiObserver
    MinReporters = 2
    Threshold = 2
    Window = 2
    Stakes = {1}
    MaxTime = 3
    MaxReports = 3
    MaxChanges = 1
INVARIANTS
    FloodsSound
    FlaggedByQuorum
    VotesTogether
    AgreementFlags
PROPERTIES
    FloodsDeliver
CHECK_DEADLOCK FALSE
