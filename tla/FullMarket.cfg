SPECIFICATION Spec
CONSTANTS
    alice = alice
    bob = bob
    Users <- TwoUsers
    OrderIds = {1, 2}
    OrderKeys <- TwoOrders
    NumOutcomes = 2
    QuoteScale = 1
    EndDate = 1
    MaxTime = 0
    MaxSlot = 1
    MaxOrderAge = 10
    ChallengePeriod = 0
    MaxGlobalOI = 8000
    InitialUsdc = 100
    InitialCollateral = 100
    InitialLiquidity = 80
    OutcomeIds = {0}
    Prices = {8000}
    Quantities = {100}
    Leverages = {10}
    Amounts = {100}
    Bonds = {5}
INVARIANTS
    TypeOK
    UsdcConserved
CHECK_DEADLOCK FALSE
