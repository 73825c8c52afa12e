CONSTANTS
    a = a
    b = b
    c = c
    x = x
    y = y
    Nodes = {b, c}
    Origin = a
    Earlier = {x, y}
    Submissions <- MCSubmissions
    Arrivals <- MCArrivals
    Arrived <- MCArrived
    Withheld <- MCWithheld
    Unmeasured = Unmeasured
    TieBreakKey <- MCTieBreakKey
    AmbiguityWindow = 2
    MinReporters = 2
    Capacity = 1
    MaxFaults = 1

SPECIFICATION Spec

INVARIANTS
    SequenceByEvidence
    ConfirmedAgree
PROPERTIES
    NoOrderLost
    EventuallyApplied
CHECK_DEADLOCK FALSE
