SPECIFICATION FairKeeperSpec
CONSTANTS
    alice = alice
    bob = bob
    request = request
    Users <- TwoUsers
    OrderIds = {1, 2}
    OrderKeys <- Keys
    NumOutcomes = 2
    QuoteScale = 1
    EndDate = 1
    MaxTime = 0
    MaxSlot = 0
    MaxOrderAge = 10
    ChallengePeriod = 1
    MaxGlobalOI = 0
    InitialUsdc = 2
    InitialCollateral = 0
    InitialLiquidity = 0
    OutcomeIds = {0}
    Prices = {5000}
    Quantities = {2}
    Leverages = {1}
    Amounts = {2}
    Bonds = {}
    Intent <- EvenPlan
    Requests <- Req
    Fickle = {}
    Repeated <- Req
    MaxFaults = 1
PROPERTIES
    SellerPaid
CHECK_DEADLOCK FALSE
