CONSTANTS
    MaxOrders = 3
    Payloads <- MCPayloads
    Takers <- MCTakers
    Evidenced <- MCEvidenced
    HotWindow = 1
    MaxFailures = 1
    MaxRestarts = 1
SPECIFICATION Spec
INVARIANTS
    LogsTrue
    ReadersServed
PROPERTIES
    AppendOnly
    SharedMatchesPermanent
    EventuallyTrimmed
CHECK_DEADLOCK FALSE
