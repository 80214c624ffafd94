SPECIFICATION MarketOrdersSpec
CONSTANTS
    QuoteScale = 1
    Traders = {1, 2}
    BookPrices = {4000}
    Amounts = {1000}
    Lots = {2000}
    Leverages = {1}
    MaxRows = 3
INVARIANTS
    MarketSellsAtBuyersPrice
CHECK_DEADLOCK FALSE
