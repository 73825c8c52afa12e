SPECIFICATION Spec
CONSTANTS
    Setups <- SmallSetups
    Agents = {a, b}
    Prices <- ThreePrices
    Offers <- AgentOffers
    StepDuration = 2
    MaxHops = 7
    MaxCancels = 1
SYMMETRY Interchangeable
INVARIANTS
    BooksSound
PROPERTIES
    CancelledTradesNoMore
CHECK_DEADLOCK FALSE
