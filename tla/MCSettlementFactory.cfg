SPECIFICATION Spec
CONSTANTS
    alice = alice
    bob = bob
    tok = tok
    h1 = h1
    h2 = h2
    n1 = n1
    Traders = {alice, bob}
    Tokens = {tok}
    TradeHashes = {h1, h2}
    AssignedNodes = {n1}
    Nodes = {n1}
    Operators = {o1}
    NoOperator = none
    MinStake = 2
    Stakes = {4}
    SlashAmounts = {}
    MaxListed = 1
    Deposits = {2}
    MaxHoldings = 4
    MaxTime = 4
    TradeEntries <- MCTradeEntries
    SwapAmounts = {0, 1}
    MaxBatch = 2
INVARIANTS
    SettledExclusive
    LockedIsOpenTrades
    EscrowSolvent
    RegistrySound
PROPERTIES
    KeepsPromise
CHECK_DEADLOCK FALSE
