SPECIFICATION ClaimSpec
CONSTANTS
    alice = alice
    bob = bob
    Users <- TwoUsers
    OrderIds = {1, 2}
    OrderKeys <- OneEach
    Roles <- SpotPair
    NumOutcomes = 2
    QuoteScale = 1
    EndDate = 1
    MaxTime = 0
    MaxSlot = 0
    MaxOrderAge = 10
    ChallengePeriod = 0
    MaxGlobalOI = 40000
    InitialUsdc = 20000
    InitialCollateral = 10000
    InitialLiquidity = 20000
    OutcomeIds = {0}
    Prices = {4000}
    Quantities = {10000}
    Leverages = {1}
    Amounts = {10000}
    Bonds = {}
INVARIANTS
    InvalidMarketRefunds
CHECK_DEADLOCK FALSE
