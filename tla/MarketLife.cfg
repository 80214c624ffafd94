SPECIFICATION LifeSpec
CONSTANTS
    alice = alice
    bob = bob
    Users <- TwoUsers
    OrderIds = {1, 2}
    OrderKeys <- TwoOrders
    NumOutcomes = 2
    QuoteScale = 1
    EndDate = 1
    MaxTime = 1
    MaxSlot = 2
    MaxOrderAge = 10
    ChallengePeriod = 0
    MaxGlobalOI = 0
    InitialUsdc = 14000
    InitialCollateral = 10000
    InitialLiquidity = 0
    OutcomeIds = {0, 1}
    Prices = {4000, 8000}
    Quantities = {10000}
    Leverages = {1}
    Amounts = {10000}
    Bonds = {500}
INVARIANTS
    SetsBalanced
    RedemptionCovered
CHECK_DEADLOCK FALSE
