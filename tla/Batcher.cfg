SPECIFICATION BatcherSpec
CONSTANTS
    alice = alice
    bob = bob
    eth = eth
    other = other
    Traders = {alice, bob}
    Movements <- MCMovements
    Listed = {eth}
    LedgerMax = 3
    Confirmations = 1
    MaxHeight = 4
    MaxReorgs = 1
    MaxFailures = 2
    MaxRestarts = 2
    TradeSets <- MCTradeSets
    Synced <- MCSynced
    SyncedTo = 4
    Nodes = {1, 2}
    MaxChunk = 2
    FieldSize = 101
INVARIANTS
    LedgerTrue
    ReportedVerify
    TradesTraced
PROPERTIES
    EventuallyCaughtUp
CHECK_DEADLOCK FALSE
