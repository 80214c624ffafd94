SPECIFICATION BookSpec
CONSTANTS
    alice = alice
    bob = bob
    Users <- TwoUsers
    OrderIds = {1, 2, 3}
    OrderKeys <- ThreeOrders
    NumOutcomes = 2
    QuoteScale = 1
    EndDate = 1
    MaxTime = 1
    MaxSlot = 0
    MaxOrderAge = 10
    ChallengePeriod = 1
    MaxGlobalOI = 0
    InitialUsdc = 20000
    InitialCollateral = 10000
    InitialLiquidity = 0
    OutcomeIds = {0}
    Prices = {4000, 8000}
    Quantities = {10001, 20000}
    Leverages = {1}
    Amounts = {10000}
    Bonds = {}
INVARIANTS
    SellCustody
    SpotBacking
    LiveBuyFunded
    HistoryExact
CHECK_DEADLOCK FALSE
