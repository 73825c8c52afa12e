SPECIFICATION Spec
CONSTANTS
    alice = alice
    bob = bob
    carol = carol
    n1 = n1
    n2 = n2
    n3 = n3
    Unassigned = unassigned
    Prices = {1, 2}
    MaxPrice = 3
    MaxNotional = 8
    Offers <- MCOffers
    NodeLists <- MCNodeLists
    MaxOrders = 4
    MaxChanges = 1
INVARIANTS
    BookSound
    FairAssignment
PROPERTIES
    PriceTimePriority
CHECK_DEADLOCK FALSE
