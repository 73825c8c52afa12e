CONSTANTS
    Starts <- StartSet
    Stakes = {10}
    Amounts = {3, 20}
    Bonds <- BondSet
    StakeUnit = 1
    Window = 2
    MaxReports = 2
    Vesting = 3
    MaxTime = 3
    MaxOps = 4
SPECIFICATION Spec
INVARIANTS
    StandingEarned
    PoolTrue
PROPERTIES
    LeaveForfeitsBroken
CHECK_DEADLOCK FALSE
