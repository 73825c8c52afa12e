SPECIFICATION StartSpec
CONSTANTS
    a1 = a1
    b1 = b1
    a2 = a2
    b2 = b2
    alice = alice
    bob = bob
    Orders = {a1, b1, a2, b2}
    Traders = {alice, bob}
    TraderOf <- MCTraderOf
    NonceOf <- MCNonceOf
    Crossing <- MCCrossing
    Value <- MCValue
    Evidence <- MCEvidence
    Own <- MCCrossing
    MaxChunk = 2
    Setups <- AllSetups
    Environments <- AllEnvironments
INVARIANTS
    CheckpointsTrue
    ConfirmationsRecoverable
    StateRecoverable
    SequencedOnce
    TradesTracked
    BootSound
PROPERTIES
    EventuallySettled
CHECK_DEADLOCK FALSE
