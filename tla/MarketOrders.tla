---------------------------- MODULE MarketOrders ----------------------------
(***************************************************************************)
(* Market orders, from the page to the match.  There is none on chain: the *)
(* page (placeMarketOrder of useSpaceProgram.ts) reads the backend's book, *)
(* places a limit order at a price of its choice and posts it as a         *)
(* `market' row, which the backend matches by rules of its own             *)
(* (module OrderBook) while other traders' orders come and go.  A row has  *)
(* here the price of its order on chain too (`chain'), which differs if a  *)
(* client posts no price.  A pair settles at once: module Keeper has the   *)
(* steps in between.                                                       *)
(***************************************************************************)
EXTENDS OrderBook, SpaceMath

CONSTANTS
    Traders,        \* each places one market order
    BookPrices,    \* prices of the other orders
    Amounts,        \* quote amounts a buyer gives
    Lots,           \* sizes of the other orders and of market sells
    Leverages,
    MaxRows         \* bound on the rows

ASSUME MarketOrdersAssumption ==
    /\ BookPrices \subseteq 1..BASIS_POINTS - 1
    /\ Amounts \subseteq Nat \ {0} /\ Lots \subseteq Nat \ {0}
    /\ Leverages \subseteq 1..MAX_LEVERAGE
    /\ MaxRows \in Nat

VARIABLES
    book,       \* the rows, oldest first
    buyer,      \* the page of each trader: where it is, what it read, what it placed
    sales,      \* the matches settled on chain
    lastFilled  \* the row filled last, 0 for none

marketorders == <<book, buyer, sales, lastFilled>>

MaxSlippage == 500      \* maxSlippageBps, 5 % unless the trader changes it
HighestPrice == 9900
LowestPrice == 100

Row(side, type, price, chain, size) ==
    [side |-> side, type |-> type, token |-> "yes", price |-> price, chain |-> chain,
     size |-> size, filled |-> 0, status |-> "open", avg |-> 0]

Idle == [at |-> "idle", bid |-> 0, ask |-> 0, side |-> "none", amount |-> 0, leverage |-> 1,
         price |-> 0, quantity |-> 0, row |-> 0]

MarketOrdersInit ==
    /\ book = <<>>
    /\ buyer = [t \in Traders |-> Idle]
    /\ sales = {}
    /\ lastFilled = 0

-----------------------------------------------------------------------------
(* The other traders' limit orders, and API clients that name no price.    *)

PlaceLimit(side, price, lot) ==
    /\ Len(book) < MaxRows
    /\ book' = Append(book, Row(side, "limit", price, price, lot))
    /\ UNCHANGED <<buyer, sales, lastFilled>>

\* POST /orders/market with no price: the backend chooses the row's.
PostUnpriced(side, chain, lot) ==
    /\ Len(book) < MaxRows
    /\ book' = Append(book, Row(side, "market", OrderPrice(book, side, "yes", lastFilled), chain, lot))
    /\ UNCHANGED <<buyer, sales, lastFilled>>

CancelLimit(i) ==
    /\ book[i].type = "limit" /\ book[i].status = "open"
    /\ book' = [book EXCEPT ![i].status = "cancelled"]
    /\ UNCHANGED <<buyer, sales, lastFilled>>

-----------------------------------------------------------------------------
(* placeMarketOrder.                                                       *)

\* GET /orderbook: best bid and ask, 0 for none; a request that fails reads
\* as an empty book.
FetchOrderBook(t) ==
    /\ buyer[t].at = "idle"
    /\ \/ buyer' = [buyer EXCEPT ![t].at = "place", ![t].bid = BestOf(book, "buy", "yes"),
                                 ![t].ask = BestOf(book, "sell", "yes")]
       \/ buyer' = [buyer EXCEPT ![t].at = "place"]
    /\ UNCHANGED <<book, sales, lastFilled>>

\* With no seller: the best bid or the market's price, and the slippage on top.
BuyPrice(seen, mark) ==
    LET current == IF seen.bid > 0 THEN seen.bid ELSE mark
    IN  IF seen.ask > 0 THEN seen.ask
        ELSE Lesser(HighestPrice, current + BpsOf(current, MaxSlippage))

\* (A mutant: at the price with the slippage.)
SharesAtSlippage(amount, leverage, price) ==
    (amount * leverage * BASIS_POINTS)
        \div ((price + BpsOf(price, MaxSlippage)) * QuoteScale)

\* The share units that `amount' buys with this leverage.
SharesFor(amount, leverage, price) ==
    (amount * leverage * BASIS_POINTS) \div (price * QuoteScale)

\* The order a page has placed.
Tracks(b, side, amount, leverage, price, quantity) ==
    [b EXCEPT !.at = "track", !.side = side, !.amount = amount, !.leverage = leverage,
              !.price = price, !.quantity = quantity]

PlaceBuyMarketOrder(t, amount, leverage) ==
    /\ buyer[t].at = "place"
    /\ LET price == BuyPrice(buyer[t], 5000)
           quantity == SharesFor(amount, leverage, price)
       IN  /\ quantity > 0
           /\ buyer' = [buyer EXCEPT ![t] = Tracks(@, "buy", amount, leverage, price, quantity)]
    /\ UNCHANGED <<book, sales, lastFilled>>

\* A sale takes any price: its order is at the lowest one.
PlaceSellMarketOrder(t, lot) ==
    /\ buyer[t].at = "place"
    /\ buyer' = [buyer EXCEPT ![t] = Tracks(@, "sell", 0, 1, LowestPrice, lot)]
    /\ UNCHANGED <<book, sales, lastFilled>>

\* POST /orders/market, with the price of the order placed.
PostMarketOrder(t) ==
    /\ buyer[t].at = "track" /\ Len(book) < MaxRows
    /\ book' = Append(book, Row(buyer[t].side, "market", buyer[t].price, buyer[t].price,
                                buyer[t].quantity))
    /\ buyer' = [buyer EXCEPT ![t].at = "placed", ![t].row = Len(book) + 1]
    /\ UNCHANGED <<sales, lastFilled>>

-----------------------------------------------------------------------------
(* matchOrders and the keeper.                                             *)

\* The keeper takes the limit order's price on chain if one of the two is a
\* market order, else the price of the match.
KeeperPrice(m) ==
    LET b == book[m.buy]  s == book[m.sell] IN
    CASE b.type = "limit" /\ s.type = "market" -> b.chain
      [] b.type = "market" /\ s.type = "limit" -> s.chain
      [] OTHER -> m.price

\* validate_match: both limits hold.
Accepted(m) == KeeperPrice(m) \in book[m.sell].chain..book[m.buy].chain

Taken(r, size, price) ==
    [r EXCEPT !.filled = @ + size,
              !.status = IF r.filled + size = r.size THEN "filled" ELSE "partially_filled",
              !.avg = price]

Settle(m) ==
    LET size == Lesser(RemainingSize(book[m.buy]), RemainingSize(book[m.sell]))
        price == KeeperPrice(m)
    IN  /\ Accepted(m)
        /\ book' = [book EXCEPT ![m.buy] = Taken(@, size, price), ![m.sell] = Taken(@, size, price)]
        /\ sales' = sales \cup {[buy |-> m.buy, sell |-> m.sell, price |-> price]}
        /\ lastFilled' = m.buy
        /\ UNCHANGED buyer

MarketOrdersNext ==
    \/ \E side \in {"buy", "sell"}, p \in BookPrices, lot \in Lots :
          PlaceLimit(side, p, lot) \/ PostUnpriced(side, p, lot)
    \/ \E i \in DOMAIN book : CancelLimit(i)
    \/ \E t \in Traders :
        \/ FetchOrderBook(t)
        \/ \E a \in Amounts, l \in Leverages : PlaceBuyMarketOrder(t, a, l)
        \/ \E lot \in Lots : PlaceSellMarketOrder(t, lot)
        \/ PostMarketOrder(t)
    \/ \E i \in DOMAIN MatchOrders(book) : Settle(MatchOrders(book)[i])

MarketOrdersSpec == MarketOrdersInit /\ [][MarketOrdersNext]_marketorders

-----------------------------------------------------------------------------
\* A market buy never asks for more margin than the amount the trader gave, at
\* any leverage, and buys all of it but less than one share unit, whatever the
\* book the page read (useSpaceProgram.ts 971-985 and place_buy_order's margin).
BuySpendsItsAmount ==
    \A t \in Traders :
        buyer[t].side = "buy" =>
            LET b == buyer[t] IN
            /\ RequiredMargin(b.quantity, b.price, b.leverage) <= b.amount
            /\ (b.quantity + 1) * b.price * QuoteScale > b.amount * b.leverage * BASIS_POINTS

\* While an ask at or below the price the page chose still rests, the backend
\* pairs the waiting market buy with an order that the program lets it buy from
\* ("Order matches immediately since there's a seller at this price",
\* useSpaceProgram.ts 1021), however the book changed meanwhile.  An order whose
\* client named no price can be in the way: its row's price is not its own.
QuotedAskIsTaken ==
    \A t \in Traders :
        /\ buyer[t].row > 0 /\ buyer[t].side = "buy"
        /\ book[buyer[t].row].status \in OpenStatuses
        /\ \A i \in DOMAIN book : book[i].chain = book[i].price
        /\ \E i \in Listed(book, "sell", "yes") : book[i].price <= buyer[t].price
        => \E n \in DOMAIN MatchOrders(book) :
              LET m == MatchOrders(book)[n] IN
              m.buy = buyer[t].row /\ Accepted(m)

\* Refuted: "Each partial fill executes at the buyer's price, so both sides are
\* protected" (useSpaceProgram.ts 1107, of a market sell): a trader who sells to
\* another one's market buy gets what the buyer's order offers.
MarketSellsAtBuyersPrice ==
    \A s \in sales, t, u \in Traders :
        s.sell = buyer[t].row /\ s.buy = buyer[u].row => s.price = book[s.buy].chain
=============================================================================
