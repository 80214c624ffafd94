SPECIFICATION MCSpec
CONSTANTS
    QuoteScale = 1
    MaxQuantity = 9
    LimitPrices = {1, 3333, 5000, 6667, 9999, 10000}
    Entries = {1, 25, 500, 2500, 5000, 7777, 10000}
    Step = 25
    Runs = {1, 2}
    Terms <- SomeTerms
    Marks <- SomeMarks
    MaxMoves = 1
    MaxFaults = 1
    Traders = {1}
    BookPrices = {4000, 4150}
    Amounts = {1000, 1001}
    Lots = {2000}
    Leverages = {1, 3, 10}
    MaxRows = 3
    PageOrders = {o1}
    MaxPageFaults = 3
    MarketOutcomes = {0, 1}
    MaxCalls = 3
    MaxPanelFaults = 1
    MaxTrades = 2
    MaxUpdates = 2
    MaxRowFaults = 1
    Wallets = {1, 2}
    MaxMatches = 2
    MaxSwitches = 2
    MaxFailures = 1
INVARIANTS
    EscrowPaysFills
    FeeShape
    NotLiquidatableInProfit
    ExecutorAgrees
    LiquidationPriceTrue
    BuySpendsItsAmount
    QuotedAskIsTaken
    CancelsAreReal
    DebtsCollected
    RowsFollowTrades
PROPERTIES
    PositionsNeverRegress
    LateOrdersDropped
CHECK_DEADLOCK FALSE
