----------------------------- MODULE OrderBook -----------------------------
(***************************************************************************)
(* The backend's order book: orderBookService.ts over the rows of the      *)
(* `orders' table of one market and outcome.  A row is a record with the   *)
(* fields side, type, token, price, size, filled, status and avg (its      *)
(* average fill price, 0 for null); rows come as a sequence, oldest first, *)
(* so that the position stands for createdAt.                              *)
(***************************************************************************)
EXTENDS Integers, SequencesExt, FiniteSetsExt

OpenStatuses == {"open", "partially_filled", "pending"}

RemainingSize(r) == r.size - r.filled

Rows(book, side) == {i \in DOMAIN book : book[i].side = side /\ book[i].status \in OpenStatuses}

\* (A mutant: every side sorted by falling price.)
BetterFalling(book, i, j) ==
    book[i].price > book[j].price \/ (book[i].price = book[j].price /\ i < j)

\* ORDER BY price, best first, then createdAt.
Better(book, i, j) ==
    \/ book[i].side = "buy" /\ book[i].price > book[j].price
    \/ book[i].side = "sell" /\ book[i].price < book[j].price
    \/ book[i].price = book[j].price /\ i < j

\* The rows of S, every one better than those that follow it.
Sorted(book, S) ==
    CHOOSE f \in [1..Cardinality(S) -> S] :
        \A m, n \in 1..Cardinality(S) : m < n => Better(book, f[m], f[n])

(***************************************************************************)
(* matchOrders.                                                            *)
(***************************************************************************)
\* MARKET_ORDER_SLIPPAGE, 5 %, of a price in basis points.
Slippage(price) == price \div 20

CanMatch(b, s) ==
    CASE b.type = "market" /\ s.type = "market" -> TRUE
      [] b.type = "market" /\ s.type = "limit" ->
            s.price <= (LET most == b.price + Slippage(b.price)
                        IN  IF most < 10000 THEN most ELSE 10000)
      [] b.type = "limit" /\ s.type = "market" -> b.price >= s.price - Slippage(s.price)
      [] OTHER -> b.price >= s.price

\* The maker's price: the sell order's, unless only the sell is a market order.
MatchPrice(b, s) == IF s.type = "market" /\ b.type = "limit" THEN b.price ELSE s.price

\* The sell orders that may be matched with the buy order i.
Partners(book, i) ==
    {j \in Rows(book, "sell") : /\ RemainingSize(book[j]) > 0
                                /\ book[j].token = book[i].token
                                /\ CanMatch(book[i], book[j])}

\* Every buy order takes the first of them and looks no further; nothing is
\* set aside, so one sell order may be given to several buy orders.
MatchOrders(book) ==
    LET buys == Sorted(book, {i \in Rows(book, "buy") :
                                RemainingSize(book[i]) > 0 /\ Partners(book, i) # {}})
    IN  [n \in DOMAIN buys |->
            LET i == buys[n]
                j == Sorted(book, Partners(book, i))[1]
            IN  [buy |-> i, sell |-> j, price |-> MatchPrice(book[i], book[j])]]

(***************************************************************************)
(* getOrderBook and getMarketPrice, with token = "any" for no filter.      *)
(***************************************************************************)
Listed(book, side, token) ==
    {i \in Rows(book, side) : /\ book[i].type = "limit"
                              /\ token \in {"any", book[i].token}
                              /\ RemainingSize(book[i]) > 0}

\* aggregateByPrice: the levels of one side, price |-> size.
Levels(book, side, token) ==
    LET listed == Listed(book, side, token) IN
    [p \in {book[i].price : i \in listed} |->
        MapThenSumSet(LAMBDA i : RemainingSize(book[i]), {i \in listed : book[i].price = p})]

\* The average fill price of the last order filled (`last', 0 for none), or
\* the price of a buy order that has none.
LastPrice(book, last) ==
    IF last = 0 THEN 0
    ELSE IF book[last].avg > 0 THEN book[last].avg
    ELSE IF book[last].side = "buy" THEN book[last].price ELSE 0

BestOf(book, side, token) ==
    LET levels == DOMAIN Levels(book, side, token) IN
    IF levels = {} THEN 0 ELSE IF side = "buy" THEN Max(levels) ELSE Min(levels)

MarketPrice(book, token, last) ==
    LET bid == BestOf(book, "buy", token)
        ask == BestOf(book, "sell", token)
    IN  CASE bid > 0 /\ ask > 0 -> (bid + ask) \div 2
          [] bid > 0 /\ ask = 0 -> bid
          [] bid = 0 /\ ask > 0 -> ask
          [] OTHER -> IF LastPrice(book, last) > 0 THEN LastPrice(book, last) ELSE 5000

\* placeOrder: the price of a market order that names none.
OrderPrice(book, side, token, last) ==
    LET facing == BestOf(book, IF side = "buy" THEN "sell" ELSE "buy", token)
    IN  IF facing > 0 THEN facing ELSE MarketPrice(book, token, last)
=============================================================================
