SPECIFICATION BookSpec
CONSTANTS
    alice = alice
    bob = bob
    Users <- TwoUsers
    OrderIds = {1, 2, 3, 4}
    OrderKeys <- FourOrders
    NumOutcomes = 2
    QuoteScale = 1
    EndDate = 1
    MaxTime = 0
    MaxSlot = 0
    MaxOrderAge = 10
    ChallengePeriod = 1
    MaxGlobalOI = 8000
    InitialUsdc = 10000
    InitialCollateral = 10000
    InitialLiquidity = 6000
    OutcomeIds = {0}
    Prices = {4000, 8000}
    Quantities = {10000}
    Leverages = {2}
    Amounts = {10000}
    Bonds = {}
INVARIANTS
    Backing
CHECK_DEADLOCK FALSE
