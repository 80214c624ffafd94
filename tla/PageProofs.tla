----------------------------- MODULE PageProofs -----------------------------
(***************************************************************************)
(* What the pages show and do, and what they and the backend compute, for  *)
(* any number of wallets, orders, trades, tabs and failures: the portfolio *)
(* of a trader, the orders that a trader places and cancels, the markets   *)
(* that admins make and resolve, the debts a redemption takes; the fills   *)
(* of an order, fees and liquidation tests over all prices; the order book *)
(* with market orders; and the rows of positions.                          *)
(***************************************************************************)
EXTENDS FillArithmetic, FeeCurve, Liquidator, MarketOrders, Redemption, PositionRows,
        Portfolio, TradingPage, Markets, OrderBookProofs, SequenceTheorems

-----------------------------------------------------------------------------
(***************************************************************************)
(* Positions: there is one fetch at a time, and nothing newer than what it *)
(* brings is shown of its wallet.                                          *)
(***************************************************************************)
Requested == [for : Wallets, got : Int, cancelled : BOOLEAN]
Shown == [of : Wallets \cup {0}, seen : Nat]

\* What an answered request brings is no older than what is shown.
NoOlder(r) ==
    r.got # -1 => /\ r.got \in 0..rows[r.for]
                  /\ positions.of = r.for => positions.seen <= r.got

PositionsInv ==
    /\ wallet \in Wallets \cup {0} /\ rows \in [Wallets -> Nat]
    /\ positions \in Shown
    /\ positions.of = 0 => positions.seen = 0
    /\ positions.of # 0 => positions.seen <= rows[positions.of]
    /\ \A t \in timers : t.for \in Wallets
    /\ fetchInFlight \subseteq Requested
    /\ \A r, s \in fetchInFlight : r = s
    /\ \A r \in fetchInFlight : NoOlder(r)

\* fetchPositions adds a request that nothing has answered, if there is none.
LEMMA FetchOne ==
    ASSUME PositionsInv, NEW w \in Wallets \cup {0}, fetchInFlight' = Fetch(w),
           UNCHANGED <<rows, positions>>
    PROVE  /\ (fetchInFlight \subseteq Requested)'
           /\ (\A r, s \in fetchInFlight : r = s)'
           /\ (\A r \in fetchInFlight : NoOlder(r))'
  <1>1. CASE w = 0 \/ fetchInFlight # {}
    <2>1. UNCHANGED fetchInFlight
      BY <1>1 DEF Fetch
    <2> QED
      BY <2>1 DEF PositionsInv, NoOlder
  <1>2. CASE w # 0 /\ fetchInFlight = {}
    <2>1. fetchInFlight' = {Request(w)} /\ w \in Wallets
      BY <1>2 DEF Fetch
    <2>2. Request(w) \in Requested /\ Request(w).got = -1
      BY <2>1 DEF Request, Requested
    <2> QED
      BY <2>1, <2>2 DEF NoOlder
  <1> QED
    BY <1>1, <1>2

\* Every step keeps the invariant and never goes back.
LEMMA PositionsStep ==
    ASSUME PositionsInv, [PortfolioNext]_portfolio
    PROVE  /\ PositionsInv'
           /\ positions'.of = positions.of => positions'.seen >= positions.seen
  <1> DEFINE Goal == /\ PositionsInv'
                     /\ positions'.of = positions.of => positions'.seen >= positions.seen
  <1>1. /\ 0 \notin Wallets /\ Nothing \in Shown /\ Nothing.of = 0 /\ Nothing.seen = 0
        /\ positions \in Shown /\ positions.seen \in Nat
    BY PortfolioAssumption DEF Nothing, Shown, PositionsInv
  <1>2. CASE UNCHANGED <<wallet, rows, positions, fetchInFlight, timers>>
    BY <1>1, <1>2 DEF PositionsInv, NoOlder
  <1>3. ASSUME NEW w \in Wallets \cup {0}, SwitchWallet(w)
        PROVE  Goal
    <2>1. /\ wallet' = w /\ fetchInFlight' = Fetch(w) /\ UNCHANGED <<rows, timers>>
          /\ positions' = IF w = 0 THEN Nothing ELSE positions
      BY <1>3 DEF SwitchWallet
    <2>2. CASE w = 0
      <3>1. positions' = Nothing /\ UNCHANGED fetchInFlight
        BY <2>1, <2>2 DEF Fetch
      <3>2. \A r \in fetchInFlight : r.for # 0
        BY <1>1 DEF PositionsInv, Requested
      <3> QED
        BY <1>1, <2>1, <3>1, <3>2 DEF PositionsInv, NoOlder
    <2>3. CASE w # 0
      BY <1>1, <2>1, <2>3, FetchOne DEF PositionsInv
    <2> QED
      BY <2>2, <2>3
  <1>4. ASSUME NEW r \in fetchInFlight, AnswerPositions(r)
        PROVE  Goal
    <2> DEFINE new == [r EXCEPT !.got = rows[r.for]]
    <2>1. fetchInFlight = {r} /\ r \in Requested /\ r.for \in Wallets /\ rows[r.for] \in Nat
      BY DEF PositionsInv, Requested
    <2>2. fetchInFlight' = {new} /\ UNCHANGED <<wallet, rows, positions, timers>>
      BY <1>4, <2>1 DEF AnswerPositions
    <2>3. new \in Requested /\ new.for = r.for /\ new.got = rows[r.for]
      BY <2>1 DEF Requested
    <2> HIDE DEF new
    <2>4. positions.of = r.for => positions.seen <= rows[r.for]
      BY <1>1, <2>1 DEF PositionsInv
    <2>5. /\ new.got \in 0..rows'[new.for]
          /\ positions'.of = new.for => positions'.seen <= new.got
      BY <2>1, <2>2, <2>3, <2>4
    <2>6. (\A s \in fetchInFlight : NoOlder(s))'
      BY <2>2, <2>5 DEF NoOlder
    <2>7. /\ (fetchInFlight \subseteq Requested)'
          /\ (\A s, u \in fetchInFlight : s = u)'
      BY <2>2, <2>3
    <2> QED
      BY <1>1, <2>2, <2>6, <2>7 DEF PositionsInv
  <1>5. ASSUME NEW r \in fetchInFlight, PositionsArrive(r)
        PROVE  Goal
    <2> DEFINE new == [of |-> r.for, seen |-> r.got]
    <2>1. /\ fetchInFlight = {r} /\ r \in Requested /\ r.for \in Wallets /\ rows[r.for] \in Nat
          /\ r.got \in 0..rows[r.for]
          /\ positions.of = r.for => positions.seen <= r.got
      BY <1>5 DEF PositionsInv, Requested, NoOlder, PositionsArrive
    <2>2. fetchInFlight' = {} /\ positions' = new /\ UNCHANGED <<wallet, rows, timers>>
      BY <1>5, <2>1 DEF PositionsArrive
    <2>3. new \in Shown /\ new.of = r.for /\ new.seen = r.got /\ r.for # 0
      BY <1>1, <2>1 DEF Shown
    <2> HIDE DEF new
    <2> QED
      BY <1>1, <2>1, <2>2, <2>3 DEF PositionsInv
  <1>6. ASSUME NEW r \in fetchInFlight, PositionsFail(r)
        PROVE  Goal
    <2>1. fetchInFlight' = fetchInFlight \ {r} /\ UNCHANGED <<wallet, rows, positions, timers>>
      BY <1>6 DEF PositionsFail
    <2> QED
      BY <1>1, <2>1 DEF PositionsInv, NoOlder
  <1>7. ASSUME NEW t \in timers, TimerFires(t)
        PROVE  Goal
    <2>1. /\ fetchInFlight' = Fetch(t.for) /\ UNCHANGED <<wallet, rows, positions>>
          /\ \A u \in timers' : u \in timers \/ (u.for = wallet /\ wallet # 0)
      BY <1>7 DEF TimerFires
    <2>2. t.for \in Wallets
      BY DEF PositionsInv
    <2> QED
      BY <1>1, <2>1, <2>2, FetchOne DEF PositionsInv
  <1>8. CASE Refetch
    <2>1. fetchInFlight' = Fetch(wallet) /\ UNCHANGED <<wallet, rows, positions, timers>>
      BY <1>8 DEF Refetch
    <2> QED
      BY <1>1, <2>1, FetchOne DEF PositionsInv
  <1>9. CASE PositionsRefresh
    <2>1. /\ UNCHANGED <<wallet, rows, positions, fetchInFlight>>
          /\ \A u \in timers' : u \in timers \/ (u.for = wallet /\ wallet # 0)
      BY <1>9 DEF PositionsRefresh
    <2> QED
      BY <1>1, <2>1 DEF PositionsInv, NoOlder
  <1>10. ASSUME NEW w \in Wallets, Match(w)
         PROVE  Goal
    <2>1. /\ rows' = [rows EXCEPT ![w] = @ + 1] /\ UNCHANGED <<wallet, positions, fetchInFlight>>
          /\ \A u \in timers' : u \in timers \/ u.for = w
      BY <1>10 DEF Match, positionsVars
    <2>2. rows' \in [Wallets -> Nat] /\ \A v \in Wallets : rows[v] <= rows'[v]
      BY <2>1 DEF PositionsInv
    <2>3. positions.of # 0 => positions.seen <= rows'[positions.of]
      BY <1>1, <2>2 DEF PositionsInv, Shown
    <2>4. \A r \in fetchInFlight : NoOlder(r)'
      <3> SUFFICES ASSUME NEW r \in fetchInFlight, r.got # -1
                   PROVE  r.got \in 0..rows'[r.for] /\ (positions.of = r.for => positions.seen <= r.got)
        BY <2>1 DEF NoOlder
      <3>1. /\ r.got \in 0..rows[r.for] /\ r.for \in Wallets
            /\ positions.of = r.for => positions.seen <= r.got
        BY DEF PositionsInv, NoOlder, Requested
      <3> QED
        BY <2>2, <3>1 DEF PositionsInv
    <2> QED
      BY <1>1, <2>1, <2>2, <2>3, <2>4 DEF PositionsInv
  <1>11. CASE \E r \in requests : AnswerOrders(r) \/ OrdersArrive(r) \/ OrdersFail(r)
    BY <1>2, <1>11 DEF AnswerOrders, OrdersArrive, OrdersFail, positionsVars
  <1>12. CASE UNCHANGED portfolio
    BY <1>2, <1>12 DEF portfolio
  <1> QED
    BY <1>3, <1>4, <1>5, <1>6, <1>7, <1>8, <1>9, <1>10, <1>11, <1>12 DEF PortfolioNext

\* The positions shown never go back to an older state of the same wallet.
THEOREM PositionsGoOn == PortfolioSpec => PositionsNeverRegress
  <1>1. PortfolioInit => PositionsInv
    BY PortfolioAssumption DEF PortfolioInit, PositionsInv, Nothing, Shown
  <1>2. PositionsInv /\ [PortfolioNext]_portfolio
          => PositionsInv' /\ [positions'.of = positions.of => positions'.seen >= positions.seen]_positions
    BY PositionsStep
  <1> QED
    BY <1>1, <1>2, PTL DEF PortfolioSpec, PositionsNeverRegress

-----------------------------------------------------------------------------
(***************************************************************************)
(* Orders: a request that counts is of the wallet that is connected.       *)
(***************************************************************************)
OrdersInv ==
    /\ wallet \in Wallets \cup {0} /\ rows \in [Wallets -> Nat]
    /\ DOMAIN orders = {"of", "seen"}
    /\ \A r \in requests : /\ DOMAIN r = {"for", "got", "cancelled"}
                           /\ r.cancelled \in BOOLEAN
                           /\ ~r.cancelled => r.for = wallet

LEMMA OrdersStep ==
    ASSUME OrdersInv, [PortfolioNext]_portfolio
    PROVE  OrdersInv' /\ (orders' # orders => orders'.of \in {0, wallet'})
  <1> DEFINE Goal == OrdersInv' /\ (orders' # orders => orders'.of \in {0, wallet'})
  <1>1. \A w : /\ DOMAIN Request(w) = {"for", "got", "cancelled"}
               /\ Request(w).for = w /\ Request(w).cancelled = FALSE
    BY DEF Request
  <1>2. CASE UNCHANGED <<wallet, rows, orders, requests>>
    BY <1>2 DEF OrdersInv
  <1>3. ASSUME NEW w \in Wallets \cup {0}, SwitchWallet(w)
        PROVE  Goal
    <2>1. /\ wallet' = w /\ UNCHANGED rows
          /\ orders' = IF w = 0 THEN Nothing ELSE orders
          /\ requests' \subseteq CancelRequests \cup {Request(w)}
      BY <1>3 DEF SwitchWallet
    <2>2. \A r \in CancelRequests : /\ DOMAIN r = {"for", "got", "cancelled"}
                                    /\ r.cancelled = TRUE
      BY DEF CancelRequests, OrdersInv
    <2>3. DOMAIN Nothing = {"of", "seen"} /\ Nothing.of = 0
      BY DEF Nothing
    <2> QED
      BY <1>1, <2>1, <2>2, <2>3 DEF OrdersInv
  <1>4. ASSUME NEW r \in requests, AnswerOrders(r)
        PROVE  Goal
    <2> DEFINE new == [r EXCEPT !.got = rows[r.for]]
    <2>1. /\ requests' = (requests \ {r}) \cup {new} /\ UNCHANGED <<wallet, rows, orders>>
      BY <1>4 DEF AnswerOrders
    <2>2. /\ DOMAIN new = {"for", "got", "cancelled"}
          /\ new.for = r.for /\ new.cancelled = r.cancelled
      BY DEF OrdersInv
    <2> HIDE DEF new
    <2> QED
      BY <2>1, <2>2 DEF OrdersInv
  <1>5. ASSUME NEW r \in requests, OrdersArrive(r)
        PROVE  Goal
    <2> DEFINE new == [of |-> r.for, seen |-> r.got]
    <2>1. /\ requests' = requests \ {r} /\ UNCHANGED <<wallet, rows>>
          /\ orders' = orders \/ (orders' = new /\ ~r.cancelled)
      BY <1>5 DEF OrdersArrive
    <2>2. DOMAIN new = {"of", "seen"} /\ new.of = r.for
      OBVIOUS
    <2> HIDE DEF new
    <2> QED
      BY <2>1, <2>2 DEF OrdersInv
  <1>6. ASSUME NEW r \in requests, OrdersFail(r)
        PROVE  Goal
    <2>1. requests' = requests \ {r} /\ UNCHANGED <<wallet, rows, orders>>
      BY <1>6 DEF OrdersFail
    <2> QED
      BY <2>1 DEF OrdersInv
  <1>7. ASSUME NEW w \in Wallets, Match(w)
        PROVE  Goal
    <2> DEFINE new == [orders EXCEPT !.seen = rows[w] + 1]
    <2>1. /\ rows' = [rows EXCEPT ![w] = @ + 1] /\ UNCHANGED wallet
          /\ \/ UNCHANGED <<orders, requests>>
             \/ w = wallet /\ orders.of = w /\ orders' = new /\ UNCHANGED requests
             \/ w = wallet /\ UNCHANGED orders /\ requests' \subseteq requests \cup {Request(w)}
      BY <1>7 DEF Match, ordersVars
    <2>2. rows' \in [Wallets -> Nat]
      BY <2>1 DEF OrdersInv
    <2>3. DOMAIN new = {"of", "seen"} /\ new.of = orders.of
      BY DEF OrdersInv
    <2> HIDE DEF new
    <2> QED
      BY <1>1, <2>1, <2>2, <2>3 DEF OrdersInv
  <1>8. CASE \/ \E r \in fetchInFlight : AnswerPositions(r) \/ PositionsArrive(r) \/ PositionsFail(r)
             \/ \E t \in timers : TimerFires(t)
             \/ Refetch
             \/ PositionsRefresh
    BY <1>2, <1>8 DEF AnswerPositions, PositionsArrive, PositionsFail, TimerFires, Refetch,
                      PositionsRefresh, ordersVars
  <1>9. CASE UNCHANGED portfolio
    BY <1>2, <1>9 DEF portfolio
  <1> QED
    BY <1>3, <1>4, <1>5, <1>6, <1>7, <1>8, <1>9 DEF PortfolioNext

\* An answer that arrives after its wallet is gone is not shown as the orders
\* of the next one.
THEOREM LateOrdersAreDropped == PortfolioSpec => LateOrdersDropped
  <1>1. PortfolioInit => OrdersInv
    BY PortfolioAssumption DEF PortfolioInit, OrdersInv, Nothing
  <1>2. OrdersInv /\ [PortfolioNext]_portfolio
          => OrdersInv' /\ [orders'.of \in {0, wallet'}]_orders
    BY OrdersStep
  <1> QED
    BY <1>1, <1>2, PTL DEF PortfolioSpec, LateOrdersDropped

-----------------------------------------------------------------------------
(***************************************************************************)
(* The orders that a trader places and cancels.                            *)
(***************************************************************************)
OrderFields == {"kind", "status", "filled", "escrow", "matched", "taken"}

\* An order has no more in escrow than its trades leave: of a sell order, those
\* whose buyer half has run count.
Covered(p) ==
    /\ DOMAIN p = OrderFields
    /\ p.escrow \in Nat /\ p.filled \in Nat /\ p.matched \in Nat /\ p.taken \in Nat
    /\ p.kind \in Buys /\ p.escrow > 0 => p.escrow + p.filled <= Units
    /\ p.kind \notin Buys => p.escrow + p.filled + p.taken <= Units
    /\ p.status = "none" => p.matched = 0 /\ p.taken = 0

\* It is not one that the page could read and that is over with something left
\* in escrow: it is live, or it has nothing.
Released(o) == o \in unfound \/ pending[o].escrow = 0

\* What a trader's order looks like, wherever its handlers are: before its
\* transaction is sent there is nothing of it, and what is over or cancelled
\* holds nothing.
OrderInv(o) ==
    /\ DOMAIN placing[o] = {"at", "kind"} /\ DOMAIN cancelling[o] = {"at", "as"}
    /\ DOMAIN listed[o] = {"status", "filled"}
    /\ Covered(pending[o])
    /\ placing[o].at \in {"none", "send"} =>
          listed[o].status = "none" /\ cancelling[o].at = "none" /\ pending[o] = NoPending
    /\ cancelling[o].at = "send" /\ o \notin unfound => cancelling[o].as = pending[o].kind
    /\ LiveOrder(o) \/ Released(o)
    /\ \/ cancelling[o].at = "delete"
       \/ listed[o].status = "cancelled"
       \/ pending[o].status = "Cancelled"
       \/ placing[o].at = "returned"
       => Released(o)

TradingInv ==
    /\ placing = [o \in PageOrders |-> placing[o]]
    /\ cancelling = [o \in PageOrders |-> cancelling[o]]
    /\ pending = [o \in PageOrders |-> pending[o]]
    /\ listed = [o \in PageOrders |-> listed[o]]
    /\ \A o \in PageOrders : OrderInv(o)

\* A step touches one order, at most.
Touches(o) ==
    /\ placing' = [placing EXCEPT ![o] = placing'[o]]
    /\ cancelling' = [cancelling EXCEPT ![o] = cancelling'[o]]
    /\ pending' = [pending EXCEPT ![o] = pending'[o]]
    /\ listed' = [listed EXCEPT ![o] = listed'[o]]
    /\ unfound' = unfound \/ unfound' = unfound \cup {o}

\* What is given back or matched leaves the trades as they are.
LEMMA SameTrades ==
    ASSUME NEW p, NEW q, Covered(p), DOMAIN q = OrderFields,
           q.kind = p.kind, q.filled = p.filled, q.taken = p.taken,
           q.matched \in Nat, q.escrow \in Nat, q.escrow <= p.escrow,
           q.status # "none"
    PROVE  Covered(q)
  BY DEF Covered, Units

LEMMA OneOrder ==
    ASSUME TradingInv, NEW o \in PageOrders, Touches(o), OrderInv(o)'
    PROVE  TradingInv'
  <1>1. \A p \in PageOrders : p # o => OrderInv(p)'
    BY DEF TradingInv, Touches, OrderInv, LiveOrder, Released
  <1> QED
    BY <1>1 DEF TradingInv, Touches

\* The handler that places the order.
LEMMA PlacingStep ==
    ASSUME TradingInv, NEW o \in PageOrders, NEW kind,
           \/ HandlePlaceOrder(o, kind) \/ SendOrder(o, kind) \/ TrackOrder(o)
           \/ AskForMatch(o) \/ WatchClose(o) \/ WithdrawClose(o)
    PROVE  TradingInv'
  <1>1. OrderInv(o)
    BY DEF TradingInv
  <1>2. CASE HandlePlaceOrder(o, kind)
    <2>1. Touches(o)
      BY <1>2 DEF HandlePlaceOrder, Touches, TradingInv
    <2>2. OrderInv(o)'
      BY <1>1, <1>2 DEF HandlePlaceOrder, TradingInv, OrderInv, LiveOrder, Released
    <2> QED
      BY <2>1, <2>2, OneOrder
  <1>3. CASE SendOrder(o, kind)
    <2> DEFINE new == Placed(kind)
    <2>1. /\ placing[o].at = "send" /\ UNCHANGED <<cancelling, listed, unfound>>
          /\ \/ Placing(o, "post") /\ pending' = [pending EXCEPT ![o] = new]
             \/ /\ Placing(o, "failed")
                /\ pending' = pending \/ pending' = [pending EXCEPT ![o] = new]
      BY <1>3 DEF SendOrder, Placed
    <2>2. Covered(new) /\ new.status = "Open"
      BY DEF Placed, Covered, OrderFields, Units
    <2> HIDE DEF new
    <2>3. Touches(o)
      BY <2>1 DEF Touches, TradingInv, Placing
    <2>4. \/ UNCHANGED pending
          \/ pending'[o] = new
      BY <2>1 DEF TradingInv
    <2>5. /\ DOMAIN placing'[o] = {"at", "kind"} /\ placing'[o].at \in {"post", "failed"}
      BY <1>1, <2>1 DEF Placing, TradingInv, OrderInv
    <2>6. OrderInv(o)'
      BY <1>1, <2>1, <2>2, <2>4, <2>5 DEF OrderInv, LiveOrder, Released
    <2> QED
      BY <2>3, <2>6, OneOrder
  <1>4. CASE TrackOrder(o)
    <2> DEFINE new == [status |-> "open", filled |-> 0]
    <2>1. /\ placing[o].at = "post" /\ Placing(o, "match") /\ UNCHANGED <<cancelling, pending, unfound>>
          /\ listed' = listed \/ listed' = [listed EXCEPT ![o] = new]
      BY <1>4 DEF TrackOrder
    <2>2. DOMAIN new = {"status", "filled"} /\ new.status = "open"
      OBVIOUS
    <2> HIDE DEF new
    <2>3. Touches(o)
      BY <2>1 DEF Touches, TradingInv, Placing
    <2>4. /\ DOMAIN placing'[o] = {"at", "kind"} /\ placing'[o].at = "match"
      BY <1>1, <2>1 DEF Placing, TradingInv, OrderInv
    <2>5. listed'[o] = listed[o] \/ listed'[o] = new
      BY <2>1 DEF TradingInv
    <2>6. OrderInv(o)'
      BY <1>1, <2>1, <2>2, <2>4, <2>5 DEF OrderInv, LiveOrder, Released
    <2> QED
      BY <2>3, <2>6, OneOrder
  <1>5. CASE AskForMatch(o) \/ WatchClose(o)
    <2>1. PICK at \in {"watch", "done", "withdraw"} :
            Placing(o, at) /\ UNCHANGED <<cancelling, pending, listed, unfound>>
      BY <1>5 DEF AskForMatch, WatchClose
    <2>2. Touches(o)
      BY <2>1 DEF Touches, TradingInv, Placing
    <2>3. /\ DOMAIN placing'[o] = {"at", "kind"} /\ placing'[o].at = at
      BY <1>1, <2>1 DEF Placing, TradingInv, OrderInv
    <2>4. OrderInv(o)'
      BY <1>1, <2>1, <2>3 DEF OrderInv, LiveOrder, Released
    <2> QED
      BY <2>2, <2>4, OneOrder
  <1>6. CASE WithdrawClose(o)
    <2> DEFINE new == [pending[o] EXCEPT !.status = "Cancelled", !.escrow = @ - pending[o].escrow]
    <2>1. /\ placing[o].at = "withdraw" /\ UNCHANGED <<cancelling, listed, unfound>>
          /\ \/ Placing(o, "returned") /\ pending' = Cancelled(o, pending[o].escrow)
             \/ /\ Placing(o, "failed")
                /\ pending' = pending \/ pending' = Cancelled(o, pending[o].escrow)
      BY <1>6 DEF WithdrawClose
    <2>2. Cancelled(o, pending[o].escrow) = [pending EXCEPT ![o] = new]
      BY DEF Cancelled, TradingInv
    <2>3. Covered(new) /\ new.escrow = 0 /\ new.status = "Cancelled" /\ new.kind = pending[o].kind
      <3>1. Covered(pending[o]) /\ pending[o].escrow \in Nat /\ pending[o].matched \in Nat
        BY <1>1 DEF OrderInv, Covered
      <3>2. /\ DOMAIN new = OrderFields /\ new.escrow = 0 /\ new.status = "Cancelled"
            /\ new.kind = pending[o].kind /\ new.filled = pending[o].filled
            /\ new.taken = pending[o].taken /\ new.matched = pending[o].matched
        BY <3>1 DEF Covered, OrderFields
      <3> HIDE DEF new
      <3> QED
        BY <3>1, <3>2, SameTrades
    <2> HIDE DEF new
    <2>4. Touches(o)
      BY <2>1, <2>2 DEF Touches, TradingInv, Placing
    <2>5. /\ DOMAIN placing'[o] = {"at", "kind"}
          /\ \/ placing'[o].at = "returned" /\ pending'[o] = new
             \/ placing'[o].at = "failed" /\ pending'[o] = new
             \/ placing'[o].at = "failed" /\ pending'[o] = pending[o]
      BY <1>1, <2>1, <2>2 DEF Placing, TradingInv, OrderInv
    <2>6. OrderInv(o)'
      BY <1>1, <2>1, <2>3, <2>5 DEF OrderInv, LiveOrder, Released
    <2> QED
      BY <2>4, <2>6, OneOrder
  <1> QED
    BY <1>2, <1>3, <1>4, <1>5, <1>6

\* The handler that cancels it: what it deletes from the book trades no more.
LEMMA CancellingStep ==
    ASSUME TradingInv, NEW o \in PageOrders, NEW kind,
           \/ HandleCancelOrder(o) \/ InspectEscrow(o) \/ SendCancel(o, kind) \/ DeleteListing(o)
    PROVE  TradingInv'
  <1>1. OrderInv(o)
    BY DEF TradingInv
  <1>2. CASE HandleCancelOrder(o)
    <2>1. /\ Cancelling(o, "look") /\ UNCHANGED <<placing, pending, listed, unfound>>
          /\ listed[o].status # "none"
      BY <1>2 DEF HandleCancelOrder
    <2>2. Touches(o)
      BY <2>1 DEF Touches, TradingInv, Cancelling
    <2>3. DOMAIN cancelling'[o] = {"at", "as"} /\ cancelling'[o].at = "look"
      BY <1>1, <2>1 DEF Cancelling, TradingInv, OrderInv
    <2>4. OrderInv(o)'
      BY <1>1, <2>1, <2>3 DEF OrderInv, LiveOrder, Released
    <2> QED
      BY <2>2, <2>4, OneOrder
  <1>3. CASE InspectEscrow(o)
    <2> DEFINE sends(as) == [cancelling EXCEPT ![o] = [at |-> "send", as |-> as]]
    <2>1. /\ cancelling[o].at = "look" /\ UNCHANGED <<placing, pending, listed>>
          /\ \/ cancelling' = sends(pending[o].kind) /\ unfound' = unfound
             \/ cancelling' = sends("yesSell") /\ unfound' = unfound \cup {o}
             \/ Cancelling(o, "delete") /\ unfound' = unfound \cup {o}
             \/ Cancelling(o, "none") /\ unfound' = unfound
      BY <1>3 DEF InspectEscrow
    <2>2. Touches(o)
      BY <2>1 DEF Touches, TradingInv, Cancelling
    <2>3. /\ DOMAIN cancelling'[o] = {"at", "as"}
          /\ \/ cancelling'[o].at = "none" /\ unfound' = unfound
             \/ cancelling'[o].at = "send" /\ cancelling'[o].as = pending[o].kind /\ unfound' = unfound
             \/ unfound' = unfound \cup {o}
      BY <1>1, <2>1 DEF Cancelling, TradingInv, OrderInv
    <2>4. OrderInv(o)'
      BY <1>1, <2>1, <2>3 DEF OrderInv, LiveOrder, Released
    <2> QED
      BY <2>2, <2>4, OneOrder
  <1>4. CASE SendCancel(o, kind)
    <2> DEFINE given == IF kind = pending[o].kind THEN pending[o].escrow ELSE 0
               new == [pending[o] EXCEPT !.status = "Cancelled", !.escrow = @ - given]
    <2>1. /\ cancelling[o] = [at |-> "send", as |-> kind] /\ UNCHANGED <<placing, listed, unfound>>
          /\ \/ pending' = Cancelled(o, given) /\ Cancelling(o, "delete")
             \/ (pending' = pending \/ pending' = Cancelled(o, given)) /\ Cancelling(o, "none")
             \/ pending' = pending /\ ~LiveOrder(o) /\ Cancelling(o, "delete")
      BY <1>4 DEF SendCancel
    <2>2. Cancelled(o, given) = [pending EXCEPT ![o] = new]
      BY DEF Cancelled, TradingInv
    <2>3. /\ Covered(new) /\ new.kind = pending[o].kind
          /\ o \notin unfound => new.escrow = 0
      <3>1. /\ Covered(pending[o]) /\ pending[o].escrow \in Nat /\ pending[o].matched \in Nat
            /\ given \in {0, pending[o].escrow} /\ (o \notin unfound => given = pending[o].escrow)
        BY <1>1, <2>1 DEF OrderInv, Covered
      <3> HIDE DEF given
      <3>2. /\ DOMAIN new = OrderFields /\ new.escrow = pending[o].escrow - given
            /\ new.kind = pending[o].kind /\ new.filled = pending[o].filled /\ new.status = "Cancelled"
            /\ new.taken = pending[o].taken /\ new.matched = pending[o].matched
        BY <3>1 DEF Covered, OrderFields
      <3> HIDE DEF new
      <3>3. new.escrow \in Nat /\ new.escrow <= pending[o].escrow
        BY <3>1, <3>2
      <3> QED
        BY <3>1, <3>2, <3>3, SameTrades
    <2> HIDE DEF given, new
    <2>4. Touches(o)
      BY <2>1, <2>2 DEF Touches, TradingInv, Cancelling
    <2>5. /\ DOMAIN cancelling'[o] = {"at", "as"} /\ cancelling[o].at = "send"
          /\ \/ cancelling'[o].at = "delete" /\ pending'[o] = new
             \/ cancelling'[o].at = "none" /\ pending'[o] = new
             \/ cancelling'[o].at = "none" /\ pending'[o] = pending[o]
             \/ cancelling'[o].at = "delete" /\ pending'[o] = pending[o] /\ ~LiveOrder(o)
      BY <1>1, <2>1, <2>2 DEF Cancelling, TradingInv, OrderInv
    <2>6. OrderInv(o)'
      BY <1>1, <2>1, <2>3, <2>5 DEF OrderInv, LiveOrder, Released
    <2> QED
      BY <2>4, <2>6, OneOrder
  <1>5. CASE DeleteListing(o)
    <2> DEFINE new == [listed[o] EXCEPT !.status = "cancelled"]
    <2>1. /\ cancelling[o].at = "delete" /\ Cancelling(o, "none") /\ UNCHANGED <<placing, pending, unfound>>
          /\ listed' = listed \/ listed' = [listed EXCEPT ![o] = new]
      BY <1>5 DEF DeleteListing
    <2>2. DOMAIN new = {"status", "filled"} /\ new.status = "cancelled"
      BY <1>1 DEF OrderInv
    <2> HIDE DEF new
    <2>3. Touches(o)
      BY <2>1 DEF Touches, TradingInv, Cancelling
    <2>4. /\ DOMAIN cancelling'[o] = {"at", "as"} /\ cancelling'[o].at = "none"
          /\ listed'[o] = listed[o] \/ listed'[o] = new
      BY <1>1, <2>1 DEF Cancelling, TradingInv, OrderInv
    <2>5. OrderInv(o)'
      BY <1>1, <2>1, <2>2, <2>4 DEF OrderInv, LiveOrder, Released
    <2> QED
      BY <2>3, <2>5, OneOrder
  <1> QED
    BY <1>2, <1>3, <1>4, <1>5

\* The halves of a match take from an escrow what they fill, and whatever they
\* do to the status of the order, nothing comes back.
LEMMA HalfKeeps ==
    ASSUME TradingInv, NEW o \in PageOrders, NEW new,
           UNCHANGED <<placing, cancelling, listed, unfound>>, pending' = [pending EXCEPT ![o] = new],
           Covered(new), new.kind = pending[o].kind, new.escrow <= pending[o].escrow,
           pending[o].status # "none",
           \/ new.status = pending[o].status
           \/ new.status = "PartiallyFilled"
           \/ new.status = "Filled" /\ new.escrow = 0
    PROVE  TradingInv'
  <1>1. OrderInv(o) /\ pending'[o] = new
    BY DEF TradingInv
  <1>2. Touches(o)
    BY DEF Touches, TradingInv
  <1>3. Released(o) => Released(o)'
    BY <1>1 DEF Released, OrderInv, Covered
  <1>4. pending[o] # NoPending
    BY DEF NoPending, Placed
  <1>5. (LiveOrder(o) \/ Released(o))'
    BY <1>1, <1>3 DEF OrderInv, LiveOrder, Released
  <1>6. pending'[o].status = "Cancelled" => pending[o].status = "Cancelled"
    BY <1>1
  <1>7. OrderInv(o)'
    BY <1>1, <1>3, <1>4, <1>5, <1>6 DEF OrderInv
  <1> QED
    BY <1>2, <1>7, OneOrder

\* There is no match of an order that is not on chain.
LEMMA KeeperStep ==
    ASSUME TradingInv, NEW o \in PageOrders,
           KeeperValidates(o) \/ BuyerHalf(o) \/ SellerHalf(o) \/ KeeperRecords(o)
    PROVE  TradingInv'
  <1>1. OrderInv(o) /\ Covered(pending[o])
    BY DEF TradingInv, OrderInv
  <1>2. CASE KeeperValidates(o)
    <2> DEFINE new == [pending[o] EXCEPT !.matched = @ + 1]
    <2>1. /\ LiveOrder(o) /\ UNCHANGED <<placing, cancelling, listed, unfound>>
          /\ pending' = [pending EXCEPT ![o] = new]
      BY <1>2 DEF KeeperValidates, TradingInv
    <2>2. /\ Covered(new) /\ new.kind = pending[o].kind /\ new.escrow = pending[o].escrow
          /\ new.status = pending[o].status
      <3>1. LiveOrder(o) /\ pending[o].escrow \in Nat /\ pending[o].matched \in Nat
        BY <1>1, <2>1 DEF Covered
      <3>2. /\ DOMAIN new = OrderFields /\ new.escrow = pending[o].escrow
            /\ new.kind = pending[o].kind /\ new.filled = pending[o].filled
            /\ new.status = pending[o].status
            /\ new.taken = pending[o].taken /\ new.matched = pending[o].matched + 1
        BY <1>1 DEF Covered, OrderFields
      <3> HIDE DEF new
      <3> QED
        BY <1>1, <3>1, <3>2, SameTrades DEF LiveOrder
    <2> HIDE DEF new
    <2>3. new.escrow <= pending[o].escrow
      BY <1>1, <2>2 DEF Covered
    <2> QED
      BY <2>1, <2>2, <2>3, HalfKeeps DEF LiveOrder
  <1>3. CASE BuyerHalf(o)
    <2> DEFINE done == [pending[o] EXCEPT !.matched = @ - 1, !.taken = @ + 1]
               after == [done EXCEPT !.escrow = IF @ > 0 THEN @ - 1 ELSE 0]
               new == IF pending[o].kind \in Buys THEN Filled(after) ELSE after
    <2>1. /\ UNCHANGED <<placing, cancelling, listed, unfound>> /\ pending' = [pending EXCEPT ![o] = new]
          /\ pending[o].matched > 0 /\ (pending[o].escrow > 0 \/ pending[o].kind = "leveraged")
      BY <1>3 DEF BuyerHalf, TradingInv
    <2>2. Covered(after) \/ pending[o].kind \in Buys
      BY <1>1, <2>1 DEF Covered, OrderFields, Buys
    <2>3. /\ Covered(new) /\ new.kind = pending[o].kind /\ new.escrow <= pending[o].escrow
          /\ \/ new.status = pending[o].status
             \/ new.status = "PartiallyFilled"
             \/ new.status = "Filled" /\ new.escrow = 0
      <3>1. CASE pending[o].kind \in Buys
        BY <1>1, <2>1, <3>1 DEF Covered, OrderFields, Filled, FillState, Units
      <3>2. CASE pending[o].kind \notin Buys
        BY <1>1, <2>1, <2>2, <3>2 DEF Covered, OrderFields
      <3> QED
        BY <3>1, <3>2
    <2>4. pending[o].status # "none"
      BY <1>1, <2>1 DEF OrderInv, Covered
    <2> HIDE DEF new
    <2> QED
      BY <2>1, <2>3, <2>4, HalfKeeps
  <1>4. CASE SellerHalf(o)
    <2> DEFINE done == [pending[o] EXCEPT !.taken = @ - 1]
               new == IF pending[o].kind \in Buys THEN done ELSE Filled(done)
    <2>1. /\ UNCHANGED <<placing, cancelling, listed, unfound>> /\ pending' = [pending EXCEPT ![o] = new]
          /\ pending[o].taken > 0
      BY <1>4 DEF SellerHalf, TradingInv
    <2>2. /\ Covered(new) /\ new.kind = pending[o].kind /\ new.escrow <= pending[o].escrow
          /\ \/ new.status = pending[o].status
             \/ new.status = "PartiallyFilled"
             \/ new.status = "Filled" /\ new.escrow = 0
      <3>1. CASE pending[o].kind \in Buys
        BY <1>1, <2>1, <3>1 DEF Covered, OrderFields
      <3>2. CASE pending[o].kind \notin Buys
        BY <1>1, <2>1, <3>2 DEF Covered, OrderFields, Filled, FillState, Units
      <3> QED
        BY <3>1, <3>2
    <2>3. pending[o].status # "none"
      BY <1>1, <2>1 DEF OrderInv, Covered
    <2> HIDE DEF new
    <2> QED
      BY <2>1, <2>2, <2>3, HalfKeeps
  <1>5. CASE KeeperRecords(o)
    <2> DEFINE new == [listed[o] EXCEPT !.filled = @ + 1,
                         !.status = IF listed[o].filled + 1 >= Units THEN "filled" ELSE "partially_filled"]
    <2>1. /\ listed[o].status # "none" /\ UNCHANGED <<placing, cancelling, pending, unfound>>
          /\ listed' = [listed EXCEPT ![o] = new]
      BY <1>5 DEF KeeperRecords, TradingInv
    <2>2. DOMAIN new = {"status", "filled"} /\ new.status \in {"filled", "partially_filled"}
      BY <1>1 DEF OrderInv
    <2> HIDE DEF new
    <2>3. Touches(o)
      BY <2>1 DEF Touches, TradingInv
    <2>4. listed'[o] = new
      BY <2>1 DEF TradingInv
    <2>5. OrderInv(o)'
      BY <1>1, <2>1, <2>2, <2>4 DEF OrderInv, LiveOrder, Released
    <2> QED
      BY <2>3, <2>5, OneOrder
  <1> QED
    BY <1>2, <1>3, <1>4, <1>5

\* Whatever fails, and whichever halves of matches run around a cancellation,
\* what the page has cancelled or withdrawn, or is cancelled on chain, holds
\* nothing, unless the page could not read it.
THEOREM CancelsStayReal == TradingSpec => []CancelsAreReal
  <1>1. TradingInit => TradingInv
    <2>1. /\ Covered(NoPending) /\ NoPending.escrow = 0 /\ NoPending.status = "none"
          /\ DOMAIN NoListing = {"status", "filled"} /\ NoListing.status = "none"
      BY DEF Covered, OrderFields, NoPending, Placed, NoListing, Buys, Units
    <2> QED
      BY <2>1 DEF TradingInit, TradingInv, OrderInv, Released
  <1>2. TradingInv /\ [TradingNext]_tradingpage => TradingInv'
    <2> SUFFICES ASSUME TradingInv, [TradingNext]_tradingpage PROVE TradingInv'
      OBVIOUS
    <2>1. CASE UNCHANGED tradingpage
      BY <2>1 DEF tradingpage, TradingInv, OrderInv, LiveOrder, Released
    <2> QED
      BY <2>1, PlacingStep, CancellingStep, KeeperStep
         DEF TradingNext, PlaceBuyOrder, PlaceYesLimitSellOrder, PlaceNoLimitSellOrder,
             CloseLeveragedPosition, CancelBuyOrder, CancelYesSellOrder, CancelNoSellOrder
  <1>3. TradingInv => CancelsAreReal
    BY DEF TradingInv, OrderInv, CancelsAreReal, Released
  <1> QED
    BY <1>1, <1>2, <1>3, PTL DEF TradingSpec

-----------------------------------------------------------------------------
(***************************************************************************)
(* The markets that admins make and resolve: what is said of one, or is    *)
(* about to be said, is true already or was.                               *)
(***************************************************************************)
Behind(said) ==
    /\ Progress(said.status) <= Progress(deed.status)
    /\ said.outcome \in {"none", deed.outcome}

\* What a page tells the backend once its transaction has landed.
Told(t) ==
    CASE tabs[t].op = "vaults" -> 2 [] tabs[t].op = "resolve" -> 3
      [] tabs[t].op = "challenge" -> 4 [] tabs[t].op = "finalize" -> 5

Statuses == {"none", "Core", "Active", "Resolving", "Disputed", "Finalized", "Invalid"}

IsSaid(said) == DOMAIN said = {"status", "outcome"} /\ said.status \in Statuses

IsDeed(d) == DOMAIN d = {"status", "outcome", "period"} /\ d.status \in Statuses

Tells == {"vaults", "resolve", "challenge", "finalize"}

MarketsInv ==
    /\ IsDeed(deed)
    /\ deed.status \in {"none", "Core", "Active"} => deed.outcome = "none"
    /\ IsSaid(shelf) /\ Behind(shelf) /\ IsSaid(list) /\ Behind(list)
    /\ readers = [r \in ListReaders |-> readers[r]]
    /\ \A r \in ListReaders : IsSaid(readers[r].copy) /\ Behind(readers[r].copy)
    /\ tabs = [t \in AdminTabs |-> tabs[t]]
    /\ \A t \in AdminTabs :
          /\ DOMAIN tabs[t] = {"at", "op", "outcome"}
          /\ tabs[t].at = "tell" =>
                /\ tabs[t].op \in Tells /\ Told(t) <= Progress(deed.status)
                /\ tabs[t].op = "resolve" => tabs[t].outcome = deed.outcome

\* The market goes on, and gets its outcome once.
Grows == /\ IsDeed(deed') /\ Progress(deed.status) <= Progress(deed'.status)
         /\ deed'.outcome = deed.outcome \/ deed.status = "Active"
         /\ deed'.status \in {"none", "Core", "Active"} => deed'.outcome = "none"

\* How far along the statuses are.
LEMMA ProgressValues ==
    /\ Progress("none") = 0 /\ Progress("Core") = 1 /\ Progress("Active") = 2
    /\ Progress("Resolving") = 3 /\ Progress("Disputed") = 4
    /\ Progress("Finalized") = 5 /\ Progress("Invalid") = 6
    /\ \A s \in Statuses : Progress(s) \in 0..6
  BY DEF Progress, Statuses

\* What was behind stays behind.
LEMMA BehindStays ==
    ASSUME IsDeed(deed), Grows, deed.status = "Active" => deed.outcome = "none", NEW said, IsSaid(said), Behind(said)
    PROVE  Progress(said.status) <= Progress(deed'.status) /\ said.outcome \in {"none", deed'.outcome}
  BY ProgressValues DEF Grows, Behind, IsDeed, IsSaid

\* What tab t may say after its step.
Truthful(t) ==
    /\ DOMAIN tabs[t] = {"at", "op", "outcome"}
    /\ tabs[t].at = "tell" =>
          /\ tabs[t].op \in Tells /\ Told(t) <= Progress(deed.status)
          /\ tabs[t].op = "resolve" => tabs[t].outcome = deed.outcome

\* A step of one tab with the market.
LEMMA TabKeeps ==
    ASSUME MarketsInv, NEW t \in AdminTabs, Grows, UNCHANGED Backend,
           tabs' = [tabs EXCEPT ![t] = tabs'[t]], Truthful(t)'
    PROVE  MarketsInv'
  <1>1. IsDeed(deed)
    BY DEF MarketsInv
  <1>2. UNCHANGED <<shelf, list, readers>>
    BY DEF Backend
  <1>3. /\ Behind(shelf)' /\ Behind(list)'
        /\ \A r \in ListReaders : Behind(readers[r].copy)'
    BY <1>1, <1>2, BehindStays DEF MarketsInv, Behind
  <1>4. ASSUME NEW u \in AdminTabs, u # t
        PROVE  Truthful(u)'
    <2>1. tabs'[u] = tabs[u]
      BY <1>4 DEF MarketsInv
    <2>2. Truthful(u)
      BY DEF MarketsInv, Truthful
    <2>3. tabs[u].at = "tell" => Told(u) \in {2, 3, 4, 5} /\ Told(u)' = Told(u)
      BY <2>1, <2>2 DEF Truthful, Told, Tells
    <2>4. Progress(deed.status) \in 0..6 /\ Progress(deed'.status) \in 0..6
      BY <1>1, ProgressValues DEF IsDeed, Grows
    <2>5. tabs[u].at = "tell" => Told(u)' <= Progress(deed'.status)
      BY <2>2, <2>3, <2>4 DEF Truthful, Grows
    <2>6. tabs[u].at = "tell" /\ tabs[u].op = "resolve" => tabs[u].outcome = deed'.outcome
      <3> SUFFICES ASSUME tabs[u].at = "tell", tabs[u].op = "resolve"
                   PROVE  tabs[u].outcome = deed'.outcome
        OBVIOUS
      <3>1. tabs[u].outcome = deed.outcome /\ Told(u) = 3
        BY <2>2 DEF Truthful, Told
      <3>2. deed.status \notin {"none", "Core", "Active"}
        BY <2>2, <3>1, ProgressValues DEF Truthful
      <3> QED
        BY <3>1, <3>2 DEF Grows
    <2> QED
      BY <2>1, <2>2, <2>5, <2>6 DEF Truthful
  <1>5. \A u \in AdminTabs : Truthful(u)'
    BY <1>4
  <1>6. /\ IsDeed(deed)' /\ (deed.status \in {"none", "Core", "Active"} => deed.outcome = "none")'
        /\ (tabs = [u \in AdminTabs |-> tabs[u]])'
    BY DEF Grows, MarketsInv
  <1>7. /\ (IsSaid(shelf) /\ IsSaid(list) /\ readers = [r \in ListReaders |-> readers[r]])'
        /\ (\A r \in ListReaders : IsSaid(readers[r].copy))'
    BY <1>2 DEF MarketsInv, IsSaid
  <1> QED
    BY <1>3, <1>5, <1>6, <1>7 DEF MarketsInv, Truthful

\* A transaction that lands, or not, and the tab that goes on or gives up.
LEMMA TransactionKeeps ==
    ASSUME MarketsInv, NEW t \in AdminTabs, Grows, UNCHANGED Backend,
           tabs' = [tabs EXCEPT ![t] = NoTab]
    PROVE  MarketsInv'
  <1>1. DOMAIN NoTab = {"at", "op", "outcome"} /\ NoTab.at = "idle"
    BY DEF NoTab
  <1>2. tabs'[t] = NoTab
    BY DEF MarketsInv
  <1> QED
    BY <1>1, <1>2, TabKeeps DEF Truthful

\* A market left as it is.
LEMMA SameGrows == MarketsInv /\ UNCHANGED deed => Grows
  BY ProgressValues DEF MarketsInv, Grows, IsDeed

\* The transaction of tab t has landed, and the tab goes on to tell of it.
LEMMA TellingKeeps ==
    ASSUME MarketsInv, NEW t \in AdminTabs, Grows, UNCHANGED Backend,
           tabs' = [tabs EXCEPT ![t] = Telling(t)], tabs[t].op \in Tells,
           Told(t) <= Progress(deed'.status),
           tabs[t].op = "resolve" => tabs[t].outcome = deed'.outcome
    PROVE  MarketsInv'
  <1> DEFINE new == Telling(t)
  <1>1. /\ DOMAIN new = {"at", "op", "outcome"} /\ new.at = "tell"
        /\ new.op = tabs[t].op /\ new.outcome = tabs[t].outcome
    BY DEF Telling, MarketsInv
  <1> HIDE DEF new
  <1>2. tabs'[t] = new
    BY DEF MarketsInv, new
  <1>3. Told(t)' = Told(t)
    BY <1>1, <1>2 DEF Told
  <1> QED
    BY <1>1, <1>2, <1>3, TabKeeps DEF Truthful

\* createMarket, its first transaction and its second.
LEMMA CreateKeeps ==
    ASSUME MarketsInv, NEW t \in AdminTabs, CreateCore(t) \/ CreateVaults(t)
    PROVE  MarketsInv'
  <1> DEFINE core == [deed EXCEPT !.status = "Core"]
             active == [deed EXCEPT !.status = "Active"]
             vaults == [tabs[t] EXCEPT !.op = "vaults"]
  <1>1. /\ IsDeed(core) /\ core.status = "Core" /\ core.outcome = deed.outcome
        /\ IsDeed(active) /\ active.status = "Active" /\ active.outcome = deed.outcome
        /\ DOMAIN vaults = {"at", "op", "outcome"} /\ vaults.at = tabs[t].at
    BY DEF MarketsInv, IsDeed, Statuses
  <1> HIDE DEF core, active, vaults
  <1>2. deed' = core /\ deed.status = "none" => Grows
    BY <1>1, ProgressValues DEF Grows, MarketsInv
  <1>3. deed' = active /\ deed.status = "Core" => Grows
    BY <1>1, ProgressValues DEF Grows, MarketsInv
  <1>4. CASE CreateCore(t)
    <2>1. /\ UNCHANGED Backend /\ tabs[t].at = "send"
          /\ UNCHANGED deed \/ (deed' = core /\ deed.status = "none")
          /\ tabs' = [tabs EXCEPT ![t] = vaults] \/ tabs' = [tabs EXCEPT ![t] = NoTab]
      BY <1>4 DEF CreateCore, Transaction, core, vaults
    <2>2. Grows
      BY <1>2, <2>1, SameGrows
    <2>3. ASSUME tabs' = [tabs EXCEPT ![t] = vaults] PROVE MarketsInv'
      <3>1. tabs'[t] = vaults
        BY <2>3 DEF MarketsInv
      <3> QED
        BY <1>1, <2>1, <2>2, <2>3, <3>1, TabKeeps DEF Truthful
    <2> QED
      BY <2>1, <2>2, <2>3, TransactionKeeps
  <1>5. CASE CreateVaults(t)
    <2>1. /\ UNCHANGED Backend /\ tabs[t].op = "vaults"
          /\ \/ deed' = active /\ deed.status = "Core" /\ tabs' = [tabs EXCEPT ![t] = Telling(t)]
             \/ /\ UNCHANGED deed \/ (deed' = active /\ deed.status = "Core")
                /\ tabs' = [tabs EXCEPT ![t] = NoTab]
      BY <1>5 DEF CreateVaults, Transaction, active
    <2>2. Grows
      BY <1>3, <2>1, SameGrows
    <2>3. "vaults" \in Tells /\ Told(t) = 2
      BY <2>1 DEF Tells, Told
    <2> QED
      BY <1>1, <2>1, <2>2, <2>3, TransactionKeeps, TellingKeeps, ProgressValues
  <1> QED
    BY <1>4, <1>5

\* The oracle's answer, its challenge, its end, and the market that is invalid.
LEMMA ResolvingKeeps ==
    ASSUME MarketsInv, NEW t \in AdminTabs,
           ResolveMarket(t) \/ ChallengeMarket(t) \/ Finalize(t) \/ Invalidates(t)
    PROVE  MarketsInv'
  <1> DEFINE resolving == [status |-> "Resolving", outcome |-> tabs[t].outcome, period |-> TRUE]
             to(s) == [deed EXCEPT !.status = s]
  <1>1. /\ IsDeed(resolving) /\ resolving.status = "Resolving" /\ resolving.outcome = tabs[t].outcome
        /\ \A s \in Statuses : IsDeed(to(s)) /\ to(s).status = s /\ to(s).outcome = deed.outcome
        /\ {"Disputed", "Finalized", "Invalid"} \subseteq Statuses
    BY DEF MarketsInv, IsDeed, Statuses
  <1> HIDE DEF resolving, to
  <1>2. deed' = resolving /\ deed.status = "Active" => Grows
    BY <1>1, ProgressValues DEF Grows, MarketsInv
  <1>3. \A s \in {"Disputed", "Finalized", "Invalid"} :
          deed' = to(s) /\ Progress(deed.status) <= Progress(s) => Grows
    BY <1>1 DEF Grows
  <1>4. Progress(deed.status) <= Progress("Invalid")
    BY ProgressValues DEF MarketsInv, IsDeed
  <1>5. CASE ResolveMarket(t)
    <2>1. /\ UNCHANGED Backend /\ tabs[t].op = "resolve"
          /\ \/ /\ deed' = resolving /\ deed.status = "Active"
                /\ tabs' = [tabs EXCEPT ![t] = Telling(t)]
             \/ /\ UNCHANGED deed \/ (deed' = resolving /\ deed.status = "Active")
                /\ tabs' = [tabs EXCEPT ![t] = NoTab]
      BY <1>5 DEF ResolveMarket, Transaction, resolving
    <2>2. Grows
      BY <1>2, <2>1, SameGrows
    <2>3. "resolve" \in Tells /\ Told(t) = 3
      BY <2>1 DEF Tells, Told
    <2> QED
      BY <1>1, <2>1, <2>2, <2>3, TransactionKeeps, TellingKeeps, ProgressValues
  <1>6. CASE ChallengeMarket(t)
    <2>1. /\ UNCHANGED Backend /\ tabs[t].op = "challenge"
          /\ \/ /\ deed' = to("Disputed") /\ deed.status = "Resolving"
                /\ tabs' = [tabs EXCEPT ![t] = Telling(t)]
             \/ /\ UNCHANGED deed \/ (deed' = to("Disputed") /\ deed.status = "Resolving")
                /\ tabs' = [tabs EXCEPT ![t] = NoTab]
      BY <1>6 DEF ChallengeMarket, Transaction, to
    <2>2. Grows
      BY <1>3, <2>1, SameGrows, ProgressValues
    <2>3. "challenge" \in Tells /\ Told(t) = 4 /\ tabs[t].op # "resolve"
      BY <2>1 DEF Tells, Told
    <2> QED
      BY <1>1, <2>1, <2>2, <2>3, TransactionKeeps, TellingKeeps, ProgressValues
  <1>7. CASE Finalize(t)
    <2>1. /\ UNCHANGED Backend /\ tabs[t].op = "finalize"
          /\ \/ /\ deed' = to("Finalized") /\ deed.status \in {"Resolving", "Disputed"}
                /\ tabs' = [tabs EXCEPT ![t] = Telling(t)]
             \/ /\ \/ UNCHANGED deed
                   \/ deed' = to("Finalized") /\ deed.status \in {"Resolving", "Disputed"}
                /\ tabs' = [tabs EXCEPT ![t] = NoTab]
      BY <1>7 DEF Finalize, Transaction, to
    <2>2. Grows
      BY <1>3, <2>1, SameGrows, ProgressValues
    <2>3. "finalize" \in Tells /\ Told(t) = 5 /\ tabs[t].op # "resolve"
      BY <2>1 DEF Tells, Told
    <2> QED
      BY <1>1, <2>1, <2>2, <2>3, TransactionKeeps, TellingKeeps, ProgressValues
  <1>8. CASE Invalidates(t)
    <2>1. /\ UNCHANGED Backend /\ tabs' = [tabs EXCEPT ![t] = NoTab]
          /\ UNCHANGED deed \/ deed' = to("Invalid")
      BY <1>8 DEF Invalidates, Transaction, to
    <2>2. Grows
      BY <1>3, <1>4, <2>1, SameGrows
    <2> QED
      BY <2>1, <2>2, TransactionKeeps
  <1> QED
    BY <1>5, <1>6, <1>7, <1>8

\* A button pressed, and the end of a challenge period.
LEMMA PressKeeps ==
    ASSUME MarketsInv, NEW t \in AdminTabs, NEW op, NEW outcome, Press(t, op, outcome)
    PROVE  MarketsInv'
  <1> DEFINE new == [at |-> "send", op |-> op, outcome |-> outcome]
  <1>1. tabs' = [tabs EXCEPT ![t] = new] /\ UNCHANGED <<deed, Backend>>
    BY DEF Press
  <1>2. DOMAIN new = {"at", "op", "outcome"} /\ new.at = "send"
    OBVIOUS
  <1> HIDE DEF new
  <1>3. tabs'[t] = new
    BY <1>1 DEF MarketsInv
  <1> QED
    BY <1>1, <1>2, <1>3, SameGrows, TabKeeps DEF Truthful

\* What is stored or read keeps behind, while the market and the tabs stay.
LEMMA SaidKeeps ==
    ASSUME MarketsInv, UNCHANGED <<deed, tabs>>,
           shelf' = shelf \/ (IsSaid(shelf') /\ Behind(shelf')),
           list' = list \/ (IsSaid(list') /\ Behind(list')),
           readers' = [r \in ListReaders |-> readers'[r]],
           \A r \in ListReaders : readers'[r].copy = readers[r].copy
                \/ (IsSaid(readers'[r].copy) /\ Behind(readers'[r].copy))
    PROVE  MarketsInv'
  BY DEF MarketsInv, Behind, Told

\* POST /markets and PATCH /markets/:address/status.
LEMMA SavesKeep ==
    ASSUME MarketsInv, NEW t \in AdminTabs, PostMarket(t) \/ PatchStatus(t)
    PROVE  MarketsInv'
  <1>1. /\ IsSaid(shelf) /\ Behind(shelf) /\ IsDeed(deed) /\ shelf.outcome \in {"none", deed.outcome}
        /\ Progress(deed.status) \in 0..6
    BY ProgressValues DEF MarketsInv, Behind, IsDeed
  <1>2. tabs[t].at = "tell" => /\ tabs[t].op \in Tells /\ Told(t) <= Progress(deed.status)
                               /\ tabs[t].op = "resolve" => tabs[t].outcome = deed.outcome
    BY DEF MarketsInv
  <1>3. ASSUME PostMarket(t)
        PROVE  IsSaid(Stored) /\ Behind(Stored)
    <2>1. tabs[t].at = "tell" /\ Told(t) = 2
      BY <1>3 DEF PostMarket, Saves, Told
    <2> DEFINE new == [status |-> "Active", outcome |-> "none"]
    <2>2. IsSaid(new) /\ new.status = "Active" /\ new.outcome = "none"
      BY DEF IsSaid, Statuses
    <2> HIDE DEF new
    <2>3. Stored = shelf \/ Stored = new
      BY DEF Stored, new
    <2> QED
      BY <1>1, <1>2, <2>1, <2>2, <2>3, ProgressValues DEF Behind
  <1>4. ASSUME PatchStatus(t), shelf # None
        PROVE  /\ IsSaid(Updated(tabs[t].op, tabs[t].outcome))
               /\ Behind(Updated(tabs[t].op, tabs[t].outcome))
    <2>1. tabs[t].at = "tell" /\ tabs[t].op \in {"resolve", "challenge", "finalize"}
      BY <1>2, <1>4 DEF PatchStatus, Saves, Tells
    <2> DEFINE resolving == [status |-> "Resolving", outcome |-> tabs[t].outcome]
               new(s) == [shelf EXCEPT !.status = s]
    <2>2. /\ IsSaid(resolving) /\ resolving.status = "Resolving"
          /\ resolving.outcome = tabs[t].outcome
          /\ \A s \in Statuses : IsSaid(new(s)) /\ new(s).status = s /\ new(s).outcome = shelf.outcome
          /\ "Disputed" \in Statuses /\ "Finalized" \in Statuses
      BY <1>1 DEF IsSaid, Statuses
    <2> DEFINE told == Updated(tabs[t].op, tabs[t].outcome)
    <2>3. \/ told = resolving /\ Told(t) = 3 /\ tabs[t].op = "resolve"
          \/ told = new("Disputed") /\ Told(t) = 4
          \/ told = new("Finalized") /\ Told(t) = 5
      BY <1>4, <2>1 DEF Updated, Told
    <2> HIDE DEF told, resolving, new
    <2>4. IsSaid(told) /\ Behind(told)
      BY <1>1, <1>2, <2>1, <2>2, <2>3, ProgressValues DEF Behind
    <2> QED
      BY <2>4 DEF told
  <1>5. ASSUME PatchStatus(t), shelf = None
        PROVE  Updated(tabs[t].op, tabs[t].outcome) = shelf
    BY <1>5 DEF Updated
  <1>6. /\ shelf' = shelf \/ (IsSaid(shelf') /\ Behind(shelf'))
        /\ tabs' = [tabs EXCEPT ![t] = NoTab] /\ UNCHANGED <<deed, list, readers>>
    BY <1>3, <1>4, <1>5 DEF PostMarket, PatchStatus, Saves
  <1>7. DOMAIN NoTab = {"at", "op", "outcome"} /\ NoTab.at = "idle"
    BY DEF NoTab
  <1>8. (IsSaid(shelf) /\ Behind(shelf))'
    BY <1>1, <1>6 DEF Behind, IsSaid
  <1>9. \A u \in AdminTabs : u # t => tabs'[u] = tabs[u] /\ Told(u)' = Told(u)
    BY <1>6 DEF MarketsInv, Told
  <1>10. /\ tabs' = [u \in AdminTabs |-> tabs'[u]] /\ tabs'[t] = NoTab
    BY <1>6 DEF MarketsInv
  <1> QED
    BY <1>6, <1>7, <1>8, <1>9, <1>10 DEF MarketsInv, Behind

\* A reader's step.
LEMMA ReadersKeep ==
    ASSUME MarketsInv, NEW r \in ListReaders,
           GetMarkets(r) \/ QueryRows(r) \/ StoreList(r) \/ LoadMarkets(r)
    PROVE  MarketsInv'
  <1>1. /\ IsSaid(None) /\ Behind(None)
        /\ IsSaid(shelf) /\ Behind(shelf) /\ IsSaid(list) /\ Behind(list)
        /\ IsSaid(readers[r].copy) /\ Behind(readers[r].copy)
    <2>1. None.status = "none" /\ None.outcome = "none" /\ DOMAIN None = {"status", "outcome"}
      BY DEF None
    <2> QED
      BY <2>1, ProgressValues DEF IsSaid, Behind, MarketsInv, IsDeed, Statuses
  <1> DEFINE live == [status |-> deed.status, outcome |-> deed.outcome]
  <1>2. IsSaid(live) /\ Behind(live)
    <2>1. DOMAIN live = {"status", "outcome"} /\ live.status = deed.status /\ live.outcome = deed.outcome
      OBVIOUS
    <2> HIDE DEF live
    <2> QED
      BY <2>1, ProgressValues DEF IsSaid, Behind, MarketsInv, IsDeed
  <1> HIDE DEF live
  <1>3. PICK at, copy :
          /\ Reads(r, at, copy) /\ copy \in {None, shelf, list, readers[r].copy, live}
          /\ UNCHANGED <<deed, shelf, tabs>> /\ list' \in {list, readers[r].copy}
    BY DEF GetMarkets, QueryRows, StoreList, LoadMarkets, live
  <1>4. /\ readers' = [q \in ListReaders |-> readers'[q]]
        /\ readers'[r].copy = copy /\ \A q \in ListReaders : q # r => readers'[q] = readers[q]
    BY <1>3 DEF Reads, MarketsInv
  <1> QED
    BY <1>1, <1>2, <1>3, <1>4, SaidKeeps

\* No row, no cached list and no page says that a market is further than it is,
\* or names an outcome that was not resolved.
THEOREM ListingKept == MarketsSpec => []ListingNeverAhead
  <1>1. MarketsInit => MarketsInv
    <2> SUFFICES ASSUME MarketsInit PROVE MarketsInv
      OBVIOUS
    <2>1. None.status = "none" /\ None.outcome = "none" /\ DOMAIN None = {"status", "outcome"}
      BY DEF None
    <2>2. IsDeed(deed) /\ deed.status = "none" /\ deed.outcome = "none"
      BY DEF MarketsInit, IsDeed, Statuses
    <2>3. IsSaid(None) /\ Behind(None)
      BY <2>1, <2>2, ProgressValues DEF IsSaid, Behind, Statuses
    <2>4. DOMAIN NoTab = {"at", "op", "outcome"} /\ NoTab.at = "idle"
      BY DEF NoTab
    <2> QED
      BY <2>2, <2>3, <2>4 DEF MarketsInit, MarketsInv
  <1>2. MarketsInv /\ [MarketsNext]_markets => MarketsInv'
    <2> SUFFICES ASSUME MarketsInv, [MarketsNext]_markets PROVE MarketsInv'
      OBVIOUS
    <2>1. CASE UNCHANGED <<deed, shelf, list, readers, tabs>>
      BY <2>1, SaidKeeps DEF MarketsInv
    <2>2. CASE InitializeConfig \/ InitializeOracleRegistry \/ PauseProtocol
      BY <2>1, <2>2 DEF InitializeConfig, InitializeOracleRegistry, PauseProtocol, SetUp, Backend
    <2>3. CASE PeriodEnds
      <3> DEFINE new == [deed EXCEPT !.period = FALSE]
      <3>1. deed' = new /\ UNCHANGED <<Backend, tabs>>
        BY <2>3 DEF PeriodEnds
      <3>2. IsDeed(new) /\ new.status = deed.status /\ new.outcome = deed.outcome
        BY DEF MarketsInv, IsDeed
      <3> HIDE DEF new
      <3> QED
        BY <3>1, <3>2 DEF MarketsInv, Behind, Told, Backend
    <2>4. CASE FindKeys \/ DeleteKeys \/ Expires
      <3>1. IsSaid(None) /\ Behind(None)
        <4>1. None.status = "none" /\ None.outcome = "none" /\ DOMAIN None = {"status", "outcome"}
          BY DEF None
        <4> QED
          BY <4>1, ProgressValues DEF IsSaid, Behind, MarketsInv, IsDeed, Statuses
      <3>2. UNCHANGED <<deed, shelf, readers, tabs>> /\ list' \in {list, None}
        BY <2>4 DEF FindKeys, DeleteKeys, Expires
      <3> QED
        BY <3>1, <3>2, SaidKeeps DEF MarketsInv
    <2>5. CASE UNCHANGED markets
      BY <2>1, <2>5 DEF markets
    <2> QED
      BY <2>2, <2>3, <2>4, <2>5, PressKeeps, CreateKeeps, ResolvingKeeps, SavesKeep, ReadersKeep
         DEF MarketsNext
  <1>3. MarketsInv => ListingNeverAhead
    BY DEF MarketsInv, Behind, ListingNeverAhead
  <1> QED
    BY <1>1, <1>2, <1>3, PTL DEF MarketsSpec

-----------------------------------------------------------------------------
(***************************************************************************)
(* Redemptions.  The first transaction of a redemption takes the debt of   *)
(* every leveraged position that the page has found, of whatever outcome,  *)
(* so that the transactions after it need none of them.                    *)
(***************************************************************************)
Settled(t) == deducted[t] > 0 \/ t \in unread

JobKeeps ==
    /\ job.at = "positions" => job.first
    /\ job.at = "redeem" /\ job.first => leveraged \subseteq job.with \cup unread
    /\ job.at = "record" \/ (job.at = "redeem" /\ ~job.first) => \A t \in leveraged : Settled(t)

RedemptionInv ==
    /\ DOMAIN job = {"at", "todo", "first", "with", "burned", "token"}
    /\ leveraged \subseteq Tokens
    /\ deducted \in [Tokens -> Nat]
    /\ JobKeeps
    /\ DebtsCollected

\* A call that has not begun.
LEMMA NoJobIs ==
    NoJob.at = "idle" /\ DOMAIN NoJob = {"at", "todo", "first", "with", "burned", "token"}
  BY DEF NoJob

\* A step that pays nothing and leaves no call before or within a redemption,
\* but for the record of one that has been made.
LEMMA CallMoves ==
    ASSUME RedemptionInv, leveraged' \subseteq leveraged, UNCHANGED <<deducted, paid, unread>>,
           DOMAIN job' = {"at", "todo", "first", "with", "burned", "token"},
           job' = job \/ job'.at \notin {"positions", "redeem", "record"}
    PROVE  RedemptionInv'
  <1>1. \A t \in leveraged' : t \in leveraged /\ (Settled(t)' <=> Settled(t))
    BY DEF Settled
  <1>2. DebtsCollected'
    BY DEF RedemptionInv, DebtsCollected
  <1>3. JobKeeps'
    <2>1. CASE job' = job
      BY <2>1, <1>1 DEF RedemptionInv, JobKeeps
    <2>2. CASE job'.at \notin {"positions", "redeem", "record"}
      BY <2>2 DEF JobKeeps
    <2> QED
      BY <2>1, <2>2
  <1> QED
    BY <1>2, <1>3 DEF RedemptionInv

\* What the page reads before a redemption.
LEMMA ReadsKeep ==
    ASSUME RedemptionInv, ReadBalances \/ ReadPositions
    PROVE  RedemptionInv'
  <1>1. UNCHANGED <<leveraged, deducted, paid>>
    BY DEF ReadBalances, ReadPositions, Assets, Accounting
  <1>2. CASE ReadBalances
    <2>1. PICK missed \in SUBSET held :
            job' = IF Final /\ \E t \in held \ missed : Wins(t)
                   THEN [job EXCEPT !.at = "positions", !.todo = {t[1] : t \in held \ missed},
                                    !.burned = held \ missed, !.first = TRUE]
                   ELSE [job EXCEPT !.at = "error"]
      BY <1>2 DEF ReadBalances
    <2>2. /\ DOMAIN job' = {"at", "todo", "first", "with", "burned", "token"}
          /\ (job'.at = "positions" /\ job'.first) \/ job'.at = "error"
      BY <2>1 DEF RedemptionInv
    <2>3. unread' = unread
      BY <1>2 DEF ReadBalances
    <2>4. JobKeeps'
      BY <2>2 DEF JobKeeps
    <2> QED
      BY <1>1, <2>2, <2>3, <2>4 DEF RedemptionInv, DebtsCollected
  <1>3. CASE ReadPositions
    <2>1. PICK found \in SUBSET leveraged :
            /\ job' = [job EXCEPT !.at = "redeem", !.with = found]
            /\ unread \subseteq unread' /\ leveraged \subseteq found \cup unread'
      BY <1>3 DEF ReadPositions
    <2>2. /\ DOMAIN job' = {"at", "todo", "first", "with", "burned", "token"}
          /\ job'.at = "redeem" /\ job'.first = job.first /\ job'.with = found
      BY <2>1 DEF RedemptionInv
    <2>3. job.first
      BY <1>3 DEF ReadPositions, RedemptionInv, JobKeeps
    <2>4. JobKeeps'
      BY <1>1, <2>1, <2>2, <2>3 DEF JobKeeps
    <2> QED
      BY <1>1, <2>1, <2>2, <2>4 DEF RedemptionInv, DebtsCollected
  <1> QED
    BY <1>2, <1>3

\* A transaction of a redemption, whether the page sees it land or not.
LEMMA RedeemKeeps ==
    ASSUME RedemptionInv, job.at = "redeem", UNCHANGED <<leveraged, unread>>,
           deducted' = [t \in Tokens |-> deducted[t] + IF t \in PositionsPassed \cap leveraged THEN 1 ELSE 0],
           DOMAIN job' = {"at", "todo", "first", "with", "burned", "token"},
           job'.at \in {"record", "error"}
    PROVE  RedemptionInv'
  <1>1. PICK passed : passed = PositionsPassed
    OBVIOUS
  <1>2. deducted' = [t \in Tokens |-> deducted[t] + IF t \in passed \cap leveraged THEN 1 ELSE 0]
    BY <1>1
  <1>3. deducted' \in [Tokens -> Nat] /\ \A t \in Tokens : deducted'[t] >= deducted[t]
    BY <1>2 DEF RedemptionInv
  <1>4. ASSUME NEW t \in leveraged
        PROVE  deducted'[t] > 0 \/ t \in unread
    <2>1. t \in Tokens /\ deducted[t] \in Nat
      BY DEF RedemptionInv
    <2>2. CASE job.first
      <3>1. t \in passed \/ t \in unread
        BY <1>1, <2>2 DEF RedemptionInv, JobKeeps, PositionsPassed
      <3> QED
        BY <1>2, <2>1, <3>1
    <2>3. CASE ~job.first
      BY <1>3, <2>1, <2>3 DEF RedemptionInv, JobKeeps, Settled
    <2> QED
      BY <2>2, <2>3
  <1>6. JobKeeps'
    BY <1>4 DEF JobKeeps, Settled
  <1>7. DebtsCollected'
    BY <1>4 DEF DebtsCollected
  <1>8. leveraged' \subseteq Tokens
    BY DEF RedemptionInv
  <1> QED
    BY <1>3, <1>6, <1>7, <1>8 DEF RedemptionInv

\* The record of a transaction, after which the next one begins.
LEMMA RecordKeeps ==
    ASSUME RedemptionInv, RecordRedemption
    PROVE  RedemptionInv'
  <1>1. job.at = "record" /\ UNCHANGED <<leveraged, deducted, paid, unread>>
    BY DEF RecordRedemption, Assets
  <1>2. PICK rest, next : job' = [job EXCEPT !.todo = rest, !.first = FALSE, !.at = next]
    BY DEF RecordRedemption
  <1>3. /\ DOMAIN job' = {"at", "todo", "first", "with", "burned", "token"} /\ job'.first = FALSE
    BY <1>2 DEF RedemptionInv
  <1>4. job'.at \in {"redeemed", "redeem"}
    BY DEF RecordRedemption, RedemptionInv
  <1>5. JobKeeps'
    BY <1>1, <1>3, <1>4 DEF RedemptionInv, JobKeeps, Settled
  <1> QED
    BY <1>1, <1>3, <1>5 DEF RedemptionInv, DebtsCollected

\* The debt of a leveraged position that was paid out has been taken, for any
\* market, any holdings and any order of calls and failures.
THEOREM DebtsTaken == RedemptionSpec => []DebtsCollected
  <1>1. RedemptionInit => RedemptionInv
    <2> SUFFICES ASSUME RedemptionInit PROVE RedemptionInv
      OBVIOUS
    <2>1. leveraged \subseteq Tokens
      BY DEF RedemptionInit
    <2> QED
      BY <2>1, NoJobIs DEF RedemptionInit, RedemptionInv, JobKeeps, DebtsCollected
  <1>2. RedemptionInv /\ [RedemptionNext]_redemption => RedemptionInv'
    <2> SUFFICES ASSUME RedemptionInv, [RedemptionNext]_redemption PROVE RedemptionInv'
      OBVIOUS
    <2>1. DOMAIN job = {"at", "todo", "first", "with", "burned", "token"}
      BY DEF RedemptionInv
    <2>2. CASE UNCHANGED <<leveraged, deducted, paid, unread, job>>
      BY <2>1, <2>2, CallMoves
    <2>3. ASSUME NEW wallet1, Changes(wallet1) PROVE RedemptionInv'
      BY <2>2, <2>3 DEF Changes, Accounting
    <2>4. CASE Advances \/ OrderReturns
      BY <2>2, <2>4 DEF Advances, OrderReturns, Accounting
    <2>5. CASE HandleRedeem \/ HandleSettleLeveraged \/ SettleMarketPosition
      <3>1. UNCHANGED <<leveraged, deducted, paid, unread>>
        BY <2>5 DEF HandleRedeem, HandleSettleLeveraged, SettleMarketPosition, Assets, Accounting
      <3>2. \/ job' = [NoJob EXCEPT !.at = "balances"]
            \/ \E t : job' = [NoJob EXCEPT !.at = "close", !.token = t]
        BY <2>5 DEF HandleRedeem, HandleSettleLeveraged, SettleMarketPosition,
                    SettleLeveragedPosition, StartRedeem
      <3>3. /\ DOMAIN job' = {"at", "todo", "first", "with", "burned", "token"}
            /\ job'.at \notin {"positions", "redeem", "record"}
        BY <3>2, NoJobIs
      <3> QED
        BY <3>1, <3>3, CallMoves
    <2>6. CASE RedeemOutcome
      <3>1. job.at = "redeem" /\ UNCHANGED <<leveraged, unread>>
        BY <2>6 DEF RedeemOutcome
      <3>2. CASE RedeemWith(NextOutcome, PositionsPassed) /\ (JobAt("record") \/ JobFails)
        <4>1. deducted' = [t \in Tokens |-> deducted[t] + IF t \in PositionsPassed \cap leveraged THEN 1 ELSE 0]
          BY <3>2 DEF RedeemWith
        <4>2. /\ DOMAIN job' = {"at", "todo", "first", "with", "burned", "token"}
              /\ job'.at \in {"record", "error"}
          BY <2>1, <3>2 DEF JobAt, JobFails
        <4> QED
          BY <3>1, <4>1, <4>2, RedeemKeeps
      <3>3. CASE JobFails /\ UNCHANGED <<paid, deducted>>
        <4>1. DOMAIN job' = {"at", "todo", "first", "with", "burned", "token"} /\ job'.at = "error"
          BY <2>1, <3>3 DEF JobFails
        <4> QED
          BY <3>1, <3>3, <4>1, CallMoves
      <3> QED
        BY <2>6, <3>2, <3>3 DEF RedeemOutcome
    <2>7. CASE CloseLoser
      <3>1. /\ leveraged' \subseteq leveraged /\ UNCHANGED <<deducted, paid, unread>>
            /\ JobAt("closed") \/ JobFails
        BY <2>7 DEF CloseLoser, Accounting
      <3>2. /\ DOMAIN job' = {"at", "todo", "first", "with", "burned", "token"}
            /\ job'.at \notin {"positions", "redeem", "record"}
        BY <2>1, <3>1 DEF JobAt, JobFails
      <3> QED
        BY <3>1, <3>2, CallMoves
    <2>8. CASE JobEnds
      BY <2>8, NoJobIs, CallMoves DEF JobEnds, Assets, Accounting
    <2> QED
      BY <2>2, <2>3, <2>4, <2>5, <2>6, <2>7, <2>8, ReadsKeep, RecordKeeps
         DEF RedemptionNext, redemption, ClosePosition, MintShares, BurnShares, RedeemShares
  <1>3. RedemptionInv => DebtsCollected
    BY DEF RedemptionInv
  <1> QED
    BY <1>1, <1>2, <1>3, PTL DEF RedemptionSpec

-----------------------------------------------------------------------------
(***************************************************************************)
(* The rounding of a buy order: what its fills have used stays in          *)
(* proportion to what they have filled, rounded down.                      *)
(***************************************************************************)
FillInv ==
    /\ quantity \in Nat \ {0} /\ price \in LimitPrices /\ Margin \in Nat
    /\ filled \in 0..quantity /\ used \in Nat
    /\ used * quantity <= filled * Margin
    /\ shortfall \in 0..QuoteScale

\* The program's constants, as numbers between nothing and the whole.
LEMMA Points ==
    /\ BASIS_POINTS \in Nat \ {0} /\ MAX_LEVERAGE \in Nat \ {0}
    /\ INITIAL_MARGIN_BPS \in 0..BASIS_POINTS /\ LIQUIDATION_STEP_BPS \in 0..BASIS_POINTS
  <1>1. /\ BASIS_POINTS \in Nat \ {0} /\ MAX_LEVERAGE \in Nat \ {0}
        /\ INITIAL_MARGIN_BPS \in Nat /\ INITIAL_MARGIN_BPS <= BASIS_POINTS
        /\ LIQUIDATION_STEP_BPS \in Nat /\ LIQUIDATION_STEP_BPS <= BASIS_POINTS
    BY DEF BASIS_POINTS, MAX_LEVERAGE, INITIAL_MARGIN_BPS, LIQUIDATION_STEP_BPS
  <1> QED
    BY <1>1

\* A quotient times its divisor is no more than the dividend, and less than one
\* divisor short of it.
LEMMA DivTimes ==
    ASSUME NEW n \in Nat, NEW b \in Nat \ {0}
    PROVE  /\ n \div b \in Nat
           /\ (n \div b) * b <= n
           /\ n < ((n \div b) + 1) * b
  OBVIOUS

\* A quotient grows with its dividend.
LEMMA DivMono ==
    ASSUME NEW m \in Nat, NEW n \in Nat, NEW b \in Nat \ {0}, m <= n
    PROVE  m \div b <= n \div b
  OBVIOUS

\* The margin of an order without leverage is its value at the limit price.
LEMMA SpotMargin ==
    ASSUME NEW q \in Nat, NEW p \in Nat
    PROVE  RequiredMargin(q, p, 1) = QuoteValue(q, p)
  <1> DEFINE notional == QuoteValue(q, p)
  <1>1. notional \in Nat
    BY QuoteValueNat
  <1>2. BpsOf(notional, INITIAL_MARGIN_BPS) \in Nat /\ BpsOf(notional, INITIAL_MARGIN_BPS) <= notional
    BY <1>1, BpsOfBounds, Points
  <1>3. notional \div 1 = notional
    BY <1>1
  <1> HIDE DEF notional
  <1>4. Greater(notional \div 1, BpsOf(notional, INITIAL_MARGIN_BPS)) = notional
    BY <1>1, <1>2, <1>3 DEF Greater
  <1> QED
    BY <1>4 DEF RequiredMargin, notional

\* A part of an order, at the limit price or below, costs at most one step of the
\* quote scale more than its share of the margin.
LEMMA PartCost ==
    ASSUME NEW Q \in Nat \ {0}, NEW q \in 1..Q, NEW limit \in 1..BASIS_POINTS, NEW p \in 1..limit
    PROVE  QuoteValue(q, p) <= MarginUsed(q, QuoteValue(Q, limit), Q) + QuoteScale
  <1> DEFINE B == BASIS_POINTS
             v == (q * p) \div B
             V == (Q * limit) \div B
  <1>0. B \in Nat \ {0} /\ QuoteScale \in Nat \ {0} /\ q \in Nat \ {0} /\ p \in Nat /\ limit \in Nat
    BY QuoteScaleAssumption DEF BASIS_POINTS
  <1>1. q * p \in Nat /\ Q * limit \in Nat /\ q * p <= q * limit
    BY <1>0
  <1>2. v \in Nat /\ V \in Nat /\ v * B <= q * p /\ Q * limit < (V + 1) * B
    BY <1>0, <1>1, DivTimes
  <1> HIDE DEF v, V
  <1>3. v * B <= q * limit
    <2>1. v * B \in Nat /\ q * limit \in Nat
      BY <1>0, <1>2
    <2> QED
      BY <1>1, <1>2, <2>1
  <1>4. (v * Q) * B < (q * (V + 1)) * B
    <2>1. (v * B) * Q <= (q * limit) * Q
      BY <1>0, <1>2, <1>3, TimesMono
    <2>2. (Q * limit) * q < ((V + 1) * B) * q
      BY <1>0, <1>1, <1>2
    <2>3. (v * B) * Q = (v * Q) * B /\ (q * limit) * Q = (Q * limit) * q
      BY <1>0, <1>2
    <2>4. ((V + 1) * B) * q = (q * (V + 1)) * B
      BY <1>0, <1>2
    <2> QED
      BY <1>0, <1>2, <2>1, <2>2, <2>3, <2>4
  <1>5. v * Q < q * (V + 1)
    BY <1>0, <1>2, <1>4
  <1>6. (v - 1) * Q <= q * V
    BY <1>0, <1>2, <1>5
  <1>7. ((v - 1) * QuoteScale) * Q <= q * (V * QuoteScale)
    BY <1>0, <1>2, <1>6
  <1>8. MarginUsed(q, V * QuoteScale, Q) \in Nat /\ (v - 1) * QuoteScale <= MarginUsed(q, V * QuoteScale, Q)
    <2>1. V * QuoteScale \in Nat /\ q * (V * QuoteScale) \in Nat
      BY <1>0, <1>2
    <2>2. CASE v = 0
      <3>1. MarginUsed(q, V * QuoteScale, Q) \in Nat
        BY <2>1, <1>0, MarginUsedNat
      <3>2. (v - 1) * QuoteScale <= 0
        BY <2>2, <1>0
      <3>3. (v - 1) * QuoteScale \in Int
        BY <2>2, <1>0
      <3> QED
        BY <3>1, <3>2, <3>3
    <2>3. CASE v > 0
      <3>1. (v - 1) * QuoteScale \in Nat
        BY <1>0, <1>2, <2>3
      <3>2. (((v - 1) * QuoteScale) * Q) \div Q = (v - 1) * QuoteScale
        BY <3>1
      <3>3. (((v - 1) * QuoteScale) * Q) \div Q <= (q * (V * QuoteScale)) \div Q
        BY <3>1, <2>1, <1>7, DivMono
      <3> QED
        BY <2>1, <3>1, <3>2, <3>3, <1>0, MarginUsedNat DEF MarginUsed
    <2> QED
      BY <1>2, <2>2, <2>3
  <1>9. QuoteValue(q, p) = v * QuoteScale /\ QuoteValue(Q, limit) = V * QuoteScale
    BY DEF QuoteValue, v, V
  <1> QED
    BY <1>0, <1>2, <1>8, <1>9

\* One fill keeps the proportion, and its escrow misses at most one step of the scale.
LEMMA FillKeeps ==
    ASSUME FillInv, [Fill]_walk
    PROVE  FillInv'
  <1>1. CASE UNCHANGED walk
    <2>1. UNCHANGED <<quantity, price, filled, used, shortfall>> /\ Margin' = Margin
      BY <1>1 DEF walk, Margin
    <2> QED
      BY <2>1 DEF FillInv
  <1>2. CASE Fill
    <2>1. PICK q \in 1..(quantity - filled), p \in LimitPrices :
            LET available == Lesser(Margin - used, MarginUsed(q, Margin, quantity))
                value == QuoteValue(q, p)
            IN  /\ p <= price
                /\ filled' = filled + q
                /\ used' = used + available
                /\ shortfall' = SatSub(value, available)
                /\ UNCHANGED <<quantity, price>>
      BY <1>2 DEF Fill
    <2> DEFINE share == MarginUsed(q, Margin, quantity)
               available == Lesser(Margin - used, share)
    <2>2. quantity \in Nat \ {0} /\ Margin \in Nat /\ used \in Nat /\ filled \in 0..quantity
          /\ used * quantity <= filled * Margin /\ price \in LimitPrices
      BY DEF FillInv
    <2>3. q \in Nat \ {0} /\ filled + q \in 0..quantity /\ q \in 1..quantity
      BY <2>2
    <2>4. p \in 1..price /\ price \in 1..BASIS_POINTS /\ p \in Nat /\ price \in Nat
      BY <2>1, <2>2, FillAssumption, Points
    <2>5. q * Margin \in Nat /\ share \in Nat /\ share * quantity <= q * Margin
      BY <2>2, <2>3, DivTimes DEF MarginUsed
    <2>6. used + share <= Margin
      <3>1. (used + share) * quantity <= (filled + q) * Margin
        BY <2>2, <2>3, <2>5
      <3>2. (filled + q) * Margin <= quantity * Margin
        BY <2>2, <2>3
      <3>3. (used + share) * quantity <= Margin * quantity
        BY <2>2, <2>3, <2>5, <3>1, <3>2
      <3> QED
        BY <2>2, <2>5, <3>3, TimesMono
    <2>7. available = share
      BY <2>2, <2>5, <2>6 DEF Lesser
    <2>8. QuoteValue(q, p) \in Nat /\ QuoteValue(q, p) <= share + QuoteScale
      BY <2>2, <2>3, <2>4, QuoteValueNat, PartCost, SpotMargin DEF Margin
    <2>9. SatSub(QuoteValue(q, p), share) \in 0..QuoteScale
      BY <2>5, <2>8, QuoteScaleAssumption DEF SatSub
    <2>10. Margin' = Margin
      BY <2>1 DEF Margin
    <2>11. used' = used + share /\ filled' = filled + q
      BY <2>1, <2>7
    <2>12. (used + share) * quantity <= (filled + q) * Margin
      BY <2>2, <2>3, <2>5
    <2>13. shortfall' \in 0..QuoteScale
      BY <2>1, <2>7, <2>9
    <2> HIDE DEF share, available
    <2> QED
      BY <2>1, <2>2, <2>3, <2>5, <2>10, <2>11, <2>12, <2>13 DEF FillInv
  <1> QED
    BY <1>1, <1>2

\* Spot orders of every size and price, split into fills in every way: the escrow
\* covers each fill but one step of the quote token's scale, and what is left of
\* it covers the rest of the order.
THEOREM EscrowIsEnough == FillSpec => []EscrowPaysFills
  <1>1. FillInit => FillInv
    <2> SUFFICES ASSUME FillInit PROVE FillInv
      OBVIOUS
    <2>1. quantity \in Nat \ {0} /\ price \in LimitPrices /\ price \in Nat
      BY FillAssumption, Points DEF FillInit
    <2>2. Margin \in Nat
      BY <2>1, RequiredMarginNat DEF Margin
    <2> QED
      BY <2>1, <2>2, QuoteScaleAssumption DEF FillInit, FillInv
  <1>2. FillInv /\ [Fill]_walk => FillInv'
    BY FillKeeps
  <1>3. FillInv => EscrowPaysFills
    <2> SUFFICES ASSUME FillInv PROVE EscrowPaysFills
      OBVIOUS
    <2> DEFINE left == MarginUsed(quantity - filled, Margin, quantity)
    <2>1. quantity \in Nat \ {0} /\ Margin \in Nat /\ used \in Nat /\ filled \in 0..quantity
          /\ used * quantity <= filled * Margin /\ shortfall <= QuoteScale
      BY QuoteScaleAssumption DEF FillInv
    <2>2. (quantity - filled) * Margin \in Nat
      BY <2>1
    <2>3. left \in Nat /\ left * quantity <= (quantity - filled) * Margin
      BY <2>1, <2>2, DivTimes DEF MarginUsed
    <2>4. (used + left) * quantity <= Margin * quantity
      BY <2>1, <2>3
    <2>5. used + left <= Margin
      BY <2>1, <2>3, <2>4, TimesMono
    <2> QED
      BY <2>1, <2>5 DEF EscrowPaysFills
  <1> QED
    BY <1>1, <1>2, <1>3, PTL DEF FillSpec

-----------------------------------------------------------------------------
(***************************************************************************)
(* The fees and the liquidation test over every price.                     *)
(***************************************************************************)
CurveInv ==
    /\ mark \in 0..BASIS_POINTS /\ entry \in Entries /\ leverage \in 1..MAX_LEVERAGE
    /\ mark > 0 => mark >= Step

\* The invariant of the walk over the prices.
LEMMA CurveKeeps == CurveInit => CurveInv
  BY Points DEF CurveInit, CurveInv

\* Every step keeps it.
LEMMA CurveMoves == CurveInv /\ [PriceMoves]_curve => CurveInv'
  BY FeeCurveAssumption, Points DEF CurveInv, PriceMoves, curve

\* A tenth of a sum is no more than a tenth of one part and the other part whole.
LEMMA TenthOfSum ==
    ASSUME NEW n \in Nat, NEW d \in Nat
    PROVE  /\ BpsOf(n + d, MAINTENANCE_MARGIN_BPS) <= BpsOf(n, INITIAL_MARGIN_BPS) + d
           /\ BpsOf(n + d, MAINTENANCE_MARGIN_BPS) \in Nat
           /\ BpsOf(n, INITIAL_MARGIN_BPS) \in Nat
  BY DEF BpsOf, BASIS_POINTS, MAINTENANCE_MARGIN_BPS, INITIAL_MARGIN_BPS

\* Value grows with the price.
LEMMA ValueGrows ==
    ASSUME NEW n \in Nat, NEW low \in Nat, NEW high \in Nat, low <= high
    PROVE  QuoteValue(n, low) <= QuoteValue(n, high)
  <1>1. n * low \in Nat /\ n * high \in Nat /\ n * low <= n * high
    OBVIOUS
  <1>2. (n * low) \div BASIS_POINTS <= (n * high) \div BASIS_POINTS
    BY <1>1, DivMono DEF BASIS_POINTS
  <1>3. (n * low) \div BASIS_POINTS \in Nat /\ (n * high) \div BASIS_POINTS \in Nat
    BY <1>1, DivNat DEF BASIS_POINTS
  <1> QED
    BY <1>2, <1>3, QuoteScaleAssumption, TimesMono DEF QuoteValue

\* A position at a price it has gained from, with the margin its order had to
\* bring, is not liquidatable, of whatever size.
LEMMA GainsAreSafe ==
    ASSUME NEW n \in Nat, NEW low \in Nat, NEW high \in Nat, low <= high,
           NEW l \in Nat \ {0}
    PROVE  ~Liquidatable([shares |-> n, avg_entry_price |-> low,
                          collateral |-> RequiredMargin(n, low, l)], high)
  <1> DEFINE value == QuoteValue(n, high)
             cost0 == QuoteValue(n, low)
             margin == RequiredMargin(n, low, l)
  <1>1. value \in Nat /\ cost0 \in Nat /\ cost0 <= value /\ margin \in Nat
    BY QuoteValueNat, ValueGrows, RequiredMarginNat
  <1>2. margin >= BpsOf(cost0, INITIAL_MARGIN_BPS)
    <2>1. PICK a, b : a = cost0 \div l /\ b = BpsOf(cost0, INITIAL_MARGIN_BPS)
      OBVIOUS
    <2>2. a \in Nat
      BY <1>1, <2>1, DivNat
    <2>3. b \in Nat
      BY <1>1, <2>1, Points, BpsOfBounds
    <2>4. margin = Greater(a, b)
      BY <2>1 DEF RequiredMargin
    <2> QED
      BY <2>1, <2>2, <2>3, <2>4 DEF Greater
  <1> HIDE DEF value, cost0, margin
  <1>3. PICK d : d = value - cost0
    OBVIOUS
  <1>4. d \in Nat /\ cost0 + d = value
    BY <1>1, <1>3
  <1>5. /\ BpsOf(value, MAINTENANCE_MARGIN_BPS) <= BpsOf(cost0, INITIAL_MARGIN_BPS) + d
        /\ BpsOf(value, MAINTENANCE_MARGIN_BPS) \in Nat
        /\ BpsOf(cost0, INITIAL_MARGIN_BPS) \in Nat
    BY <1>1, <1>4, TenthOfSum
  <1>6. ~(Equity(margin, value, cost0) < BpsOf(value, MAINTENANCE_MARGIN_BPS))
    BY <1>1, <1>2, <1>3, <1>5 DEF Equity, Greater
  <1> QED
    BY <1>6 DEF Liquidatable, value, cost0, margin

\* At every entry price and leverage and every mark that the position gained
\* from: liquidate_position refuses it.
THEOREM ProfitIsSafe == CurveSpec => []NotLiquidatableInProfit
  <1>1. CurveInv => NotLiquidatableInProfit
    <2> SUFFICES ASSUME CurveInv, mark >= entry PROVE ~Liquidatable(Opened, mark)
      BY DEF NotLiquidatableInProfit
    <2>1. entry \in Nat /\ mark \in Nat /\ leverage \in Nat \ {0}
      BY FeeCurveAssumption, Points DEF CurveInv
    <2> QED
      BY <2>1, GainsAreSafe DEF Opened
  <1> QED
    BY <1>1, CurveKeeps, CurveMoves, PTL DEF CurveSpec

\* The buy fee of a price of x percent.
BuyRate(x) == 2 + (198 * (100 - Lesser((x * 100 + 3 * x * x) \div 100, 100))) \div 100

\* It falls, from 200 basis points to 2.
LEMMA BuyRateFalls ==
    ASSUME NEW x \in Nat, NEW y \in Nat, x <= y, y <= 100
    PROVE  /\ BuyRate(x) \in Nat /\ BuyRate(y) \in Nat
           /\ BuyRate(y) <= BuyRate(x) /\ 2 <= BuyRate(x) /\ BuyRate(x) <= 200
  <1>1. x * x \in Nat /\ y * y \in Nat /\ x * x <= y * y
    OBVIOUS
  <1>2. 3 * x * x = 3 * (x * x) /\ 3 * y * y = 3 * (y * y)
    OBVIOUS
  <1>3. PICK i : i = x * 100 + 3 * x * x
    OBVIOUS
  <1>4. PICK j : j = y * 100 + 3 * y * y
    OBVIOUS
  <1>5. i \in Nat /\ j \in Nat /\ i <= j
    BY <1>1, <1>2, <1>3, <1>4
  <1>6. PICK a : a = Lesser(i \div 100, 100)
    OBVIOUS
  <1>7. PICK b : b = Lesser(j \div 100, 100)
    OBVIOUS
  <1>8. a \in Nat /\ b \in Nat /\ a <= b /\ b <= 100
    BY <1>5, <1>6, <1>7 DEF Lesser
  <1>9. /\ (198 * (100 - b)) \div 100 <= (198 * (100 - a)) \div 100
        /\ (198 * (100 - a)) \div 100 <= 198
        /\ (198 * (100 - a)) \div 100 \in Nat /\ (198 * (100 - b)) \div 100 \in Nat
    BY <1>8
  <1>10. BuyRate(x) = 2 + (198 * (100 - a)) \div 100 /\ BuyRate(y) = 2 + (198 * (100 - b)) \div 100
    BY <1>3, <1>4, <1>6, <1>7 DEF BuyRate
  <1> QED
    BY <1>8, <1>9, <1>10

\* The fee of a price is that of its whole percents.
LEMMA BuyFeeIs ==
    ASSUME NEW p \in 0..BASIS_POINTS
    PROVE  p \div 100 \in Nat /\ p \div 100 <= 100 /\ BuyFee(p) = BuyRate(p \div 100)
  <1>1. Lesser(p, BASIS_POINTS) = p
    BY DEF Lesser, BASIS_POINTS
  <1>2. p \div 100 \in Nat /\ p \div 100 <= 100
    <2>1. p \in Nat /\ p <= 10000
      BY DEF BASIS_POINTS
    <2> QED
      BY <2>1
  <1>3. BUY_FEE_MIN_BPS = 2 /\ BUY_FEE_MAX_BPS - BUY_FEE_MIN_BPS = 198
    BY DEF BUY_FEE_MIN_BPS, BUY_FEE_MAX_BPS
  <1> QED
    BY <1>1, <1>2, <1>3 DEF BuyFee, BuyRate

\* Buying: a higher price never costs a higher rate, and the rate is in its range.
LEMMA BuyFeeFalls ==
    ASSUME NEW low \in 0..BASIS_POINTS, NEW high \in 0..BASIS_POINTS, low <= high
    PROVE  /\ BuyFee(high) <= BuyFee(low)
           /\ BuyFee(low) \in BUY_FEE_MIN_BPS..BUY_FEE_MAX_BPS
  <1>1. low \div 100 <= high \div 100
    BY DEF BASIS_POINTS
  <1>2. /\ BuyFee(high) = BuyRate(high \div 100) /\ high \div 100 \in Nat /\ high \div 100 <= 100
        /\ BuyFee(low) = BuyRate(low \div 100) /\ low \div 100 \in Nat
    BY BuyFeeIs
  <1>3. /\ BuyFee(low) \in Nat /\ BuyFee(high) \in Nat
        /\ BuyFee(high) <= BuyFee(low) /\ 2 <= BuyFee(low) /\ BuyFee(low) <= 200
    BY <1>1, <1>2, BuyRateFalls
  <1> QED
    BY <1>3 DEF BUY_FEE_MIN_BPS, BUY_FEE_MAX_BPS

\* How far a price is from 50 %.
FromEven(p) == IF p > 5000 THEN p - 5000 ELSE 5000 - p

\* What integer arithmetic leaves of the bell curve of the sell fee: 100, 99 or 98
\* basis points, by the distance from 50 % alone.
LEMMA SellFeeIs ==
    ASSUME NEW p \in 0..BASIS_POINTS
    PROVE  LET x == ((FromEven(p) * FromEven(p)) \div 62500) \div 200
           IN  x \in 0..2 /\ SellFee(p) = 2 + (98 * (100 - x)) \div 100
  <1> DEFINE d == FromEven(p)
             x == ((d * d) \div 62500) \div 200
  <1>1. d \in Nat /\ d <= 5000 /\ Lesser(p, BASIS_POINTS) = p
    BY DEF FromEven, Lesser, BASIS_POINTS
  <1>2. x \in 0..2
    <2> HIDE DEF d
    <2>1. d * d \in Nat /\ d * d <= 5000 * d /\ 5000 * d <= 25000000
      BY <1>1
    <2>2. PICK s : s = d * d
      OBVIOUS
    <2>3. s \in Nat /\ s <= 25000000
      BY <1>1, <2>1, <2>2
    <2>4. s \div 62500 \in Nat /\ s \div 62500 <= 400
      BY <2>3
    <2> QED
      BY <2>2, <2>4
  <1> HIDE DEF x
  <1>3. Lesser(x, 200) = x /\ SatSub(100, x) = 100 - x /\ x < 50
        /\ Lesser(100 - x, 100) = 100 - x
    BY <1>2 DEF Lesser, SatSub
  <1>4. (x * x) \div 100 = 0
    <2>1. x = 0 \/ x = 1 \/ x = 2
      BY <1>2
    <2> QED
      BY <2>1
  <1>5. SellFee(p) =
          LET gaussian == IF x < 50 THEN SatSub(100, x) + 0 \div 200
                                    ELSE SatSub(100, x) + SatSub(0 \div 200, ((0 * x) \div 100) \div 600)
          IN  2 + (98 * Lesser(gaussian, 100)) \div 100
    <2>1. (SELL_FEE_SIGMA * SELL_FEE_SIGMA) \div 100 = 62500
      BY DEF SELL_FEE_SIGMA
    <2>2. SELL_FEE_PEAK_BPS - SELL_FEE_MIN_BPS = 98 /\ SELL_FEE_MIN_BPS = 2
      BY DEF SELL_FEE_PEAK_BPS, SELL_FEE_MIN_BPS
    <2>3. Lesser(((d * d) \div ((SELL_FEE_SIGMA * SELL_FEE_SIGMA) \div 100)) \div 200, 200) = x
      BY <2>1, <1>3 DEF x
    <2> QED
      BY <1>1, <1>4, <2>2, <2>3 DEF SellFee, FromEven
  <1>6. 0 \div 200 = 0
    OBVIOUS
  <1>7. SellFee(p) = 2 + (98 * (100 - x)) \div 100
    BY <1>2, <1>3, <1>5, <1>6
  <1> QED
    BY <1>2, <1>7 DEF x

\* Selling: dearest at 50 %, and always within its range.
LEMMA SellFeeRises ==
    ASSUME NEW low \in 0..BASIS_POINTS, NEW high \in 0..BASIS_POINTS,
           FromEven(high) <= FromEven(low)
    PROVE  /\ SellFee(low) <= SellFee(high)
           /\ SellFee(low) \in SELL_FEE_MIN_BPS..SELL_FEE_PEAK_BPS
  <1> DEFINE X(p) == ((FromEven(p) * FromEven(p)) \div 62500) \div 200
  <1>1. FromEven(low) \in Nat /\ FromEven(high) \in Nat
    BY DEF FromEven, BASIS_POINTS
  <1>2. FromEven(high) * FromEven(high) \in Nat /\ FromEven(low) * FromEven(low) \in Nat
        /\ FromEven(high) * FromEven(high) <= FromEven(low) * FromEven(low)
    BY <1>1
  <1>3. X(high) <= X(low)
    <2>1. /\ (FromEven(high) * FromEven(high)) \div 62500 <= (FromEven(low) * FromEven(low)) \div 62500
          /\ (FromEven(high) * FromEven(high)) \div 62500 \in Nat
          /\ (FromEven(low) * FromEven(low)) \div 62500 \in Nat
      BY <1>2, DivMono, DivNat
    <2> QED
      BY <2>1, DivMono
  <1>4. /\ X(high) \in 0..2 /\ SellFee(high) = 2 + (98 * (100 - X(high))) \div 100
        /\ X(low) \in 0..2 /\ SellFee(low) = 2 + (98 * (100 - X(low))) \div 100
    BY SellFeeIs
  <1> HIDE DEF X
  <1> QED
    BY <1>3, <1>4 DEF SELL_FEE_MIN_BPS, SELL_FEE_PEAK_BPS

\* Every price and every step between two marks: the fees have the shape that
\* their comments draw and stay in their ranges.
THEOREM FeesInShape == CurveSpec => []FeeShape
  <1>1. CurveInv => FeeShape
    <2> SUFFICES ASSUME CurveInv, mark > 0 PROVE FeeShape
      BY DEF FeeShape
    <2> DEFINE before == mark - Step
    <2>1. mark \in 0..BASIS_POINTS /\ before \in 0..BASIS_POINTS /\ before <= mark
          /\ BASIS_POINTS - mark \in 0..BASIS_POINTS
      BY FeeCurveAssumption DEF CurveInv, BASIS_POINTS
    <2>2. FromEven(BASIS_POINTS - mark) = FromEven(mark)
      BY <2>1 DEF FromEven, BASIS_POINTS
    <2>3. mark <= 5000 => FromEven(mark) <= FromEven(before)
      <3>1. mark \in Nat /\ Step \in Nat /\ before \in Nat
        BY <2>1, FeeCurveAssumption DEF BASIS_POINTS
      <3> QED
        BY <3>1 DEF FromEven
    <2> HIDE DEF before
    <2>4. BuyFee(mark) <= BuyFee(before)
          /\ {BuyFee(mark), BuyFee(before)} \subseteq BUY_FEE_MIN_BPS..BUY_FEE_MAX_BPS
      BY <2>1, BuyFeeFalls
    <2>5. SellFee(mark) = SellFee(BASIS_POINTS - mark)
      BY <2>1, <2>2, SellFeeIs
    <2>6. mark <= 5000 => SellFee(before) <= SellFee(mark)
      BY <2>1, <2>3, SellFeeRises
    <2>7. SellFee(mark) \in SELL_FEE_MIN_BPS..SELL_FEE_PEAK_BPS
      <3>1. FromEven(mark) <= FromEven(mark)
        BY <2>1 DEF FromEven, BASIS_POINTS
      <3> QED
        BY <2>1, <3>1, SellFeeRises
    <2> QED
      BY <2>4, <2>5, <2>6, <2>7 DEF FeeShape, before
  <1> QED
    BY <1>1, CurveKeeps, CurveMoves, PTL DEF CurveSpec

-----------------------------------------------------------------------------
(***************************************************************************)
(* Liquidations: the account stays a position of natural numbers, and on   *)
(* such an account the tests of the executor, the position service and the *)
(* program are a few roundings apart.                                      *)
(***************************************************************************)
Stakes == [token : {"YES", "NO"}, shares : Nat, avg_entry_price : 1..BASIS_POINTS,
           collateral : Nat]

StakeInv == lastPrice \in 0..BASIS_POINTS /\ stake \in Stakes

\* A position opens with natural numbers.
LEMMA StakeOpens == LiquidatorInit => StakeInv
  <1> SUFFICES ASSUME LiquidatorInit PROVE StakeInv
    OBVIOUS
  <1>1. PICK t \in Terms, token \in {"YES", "NO"} : stake = Opening(t, token)
    BY DEF LiquidatorInit
  <1>2. t[1] \in Nat /\ t[2] \in 1..BASIS_POINTS /\ t[2] \in Nat /\ t[3] \in Nat \ {0}
    BY LiquidatorAssumption, Points
  <1>3. RequiredMargin(t[1], t[2], t[3]) \in Nat
    BY <1>2, RequiredMarginNat
  <1> QED
    BY <1>1, <1>2, <1>3, LiquidatorAssumption DEF StakeInv, Stakes, Opening, LiquidatorInit

\* A liquidation takes a quarter of the shares and no more than the collateral.
LEMMA StakeKeeps == StakeInv /\ [LiquidatorNext]_liquidator => StakeInv'
  <1> SUFFICES ASSUME StakeInv, [LiquidatorNext]_liquidator PROVE StakeInv'
    OBVIOUS
  <1>1. CASE UNCHANGED <<lastPrice, stake>>
    BY <1>1 DEF StakeInv
  <1>2. ASSUME NEW p \in Marks, MarkMoves(p) PROVE StakeInv'
    BY <1>2, LiquidatorAssumption DEF StakeInv, MarkMoves
  <1>3. ASSUME NEW r \in Runs, Send(r) PROVE StakeInv'
    <2>1. CASE UNCHANGED stake
      BY <1>3, <2>1 DEF Send, StakeInv
    <2>2. CASE stake' = [stake EXCEPT !.shares = @ - Quarter(stake),
                                      !.collateral = SatSub(@, Seized(stake))]
      <3>1. stake.shares \in Nat /\ stake.collateral \in Nat /\ stake.avg_entry_price \in Nat
        BY Points DEF StakeInv, Stakes
      <3>2. Quarter(stake) \in Nat /\ Quarter(stake) <= stake.shares
        BY <3>1, BpsOfBounds, Points DEF Quarter
      <3>3. Seized(stake) \in Nat
        <4>1. QuoteValue(Quarter(stake), stake.avg_entry_price) \in Nat
              /\ QuoteValue(stake.shares, stake.avg_entry_price) \in Nat
          BY <3>1, <3>2, QuoteValueNat
        <4>2. Greater(1, QuoteValue(stake.shares, stake.avg_entry_price)) \in Nat \ {0}
          BY <4>1 DEF Greater
        <4>3. stake.collateral * QuoteValue(Quarter(stake), stake.avg_entry_price) \in Nat
          BY <3>1, <4>1, TimesNat
        <4> QED
          BY <4>2, <4>3, DivNat DEF Seized
      <3>4. SatSub(stake.collateral, Seized(stake)) \in Nat
        BY <3>1, <3>3, SatSubNat
      <3>5. stake.shares - Quarter(stake) \in Nat
        BY <3>1, <3>2
      <3> QED
        BY <1>3, <2>2, <3>4, <3>5 DEF Send, StakeInv, Stakes
    <2> QED
      BY <1>3, <2>1, <2>2 DEF Send, Lands
  <1>4. LiquidatorNext => \/ UNCHANGED <<lastPrice, stake>>
                          \/ \E p \in Marks : MarkMoves(p)
                          \/ \E r \in Runs : Send(r)
    BY DEF LiquidatorNext, CheckAndQueue, Initialize, FetchPosition, CheckStatus, Verify,
           EnsureTokenAccount, CallFails
  <1> QED
    BY <1>1, <1>2, <1>3, <1>4 DEF liquidator

\* The two tests on a YES position of a market in USDC.
LEMMA TestsAgree ==
    ASSUME QuoteScale = 1, NEW s \in Nat, NEW e \in Nat, NEW c \in Nat, NEW m \in Nat
    PROVE  LET exact == Greater(0, c * Fine + 10 * s * (m - e))
               margin == exact - s * m
               value == QuoteValue(s, m)
               due == Equity(c, value, QuoteValue(s, e)) < BpsOf(value, 1000)
           IN  (exact < s * m) = due \/ margin \in -3 * Fine .. Fine
  <1> DEFINE B == 10000
  <1>1. PICK sm, se : sm = s * m /\ se = s * e
    OBVIOUS
  <1>2. sm \in Nat /\ se \in Nat /\ 10 * s * (m - e) = 10 * sm - 10 * se
    BY <1>1
  <1>3. PICK v, n : v = sm \div B /\ n = se \div B
    OBVIOUS
  <1>4. /\ v \in Nat /\ v * B <= sm /\ sm < (v + 1) * B
        /\ n \in Nat /\ n * B <= se /\ se < (n + 1) * B
    BY <1>2, <1>3
  <1>5. QuoteValue(s, m) = v /\ QuoteValue(s, e) = n
    BY <1>1, <1>3, <1>4 DEF QuoteValue, BASIS_POINTS
  <1>6. PICK k : k = BpsOf(v, 1000)
    OBVIOUS
  <1>7. k \in Nat /\ 10 * k <= v /\ v < 10 * k + 10
    BY <1>4, <1>6 DEF BpsOf, BASIS_POINTS
  <1>8. PICK exact : exact = Greater(0, c * Fine + 10 * s * (m - e))
    OBVIOUS
  <1>9. exact = Greater(0, 10 * B * c + 10 * sm - 10 * se)
    BY <1>2, <1>8 DEF Fine, BASIS_POINTS
  <1>10. PICK equity : equity = Equity(c, v, n)
    OBVIOUS
  <1>11. (exact < sm) = (equity < k) \/ (-300000 <= exact - sm /\ exact - sm <= 100000)
    <2>1. CASE 10 * B * c + 10 * sm - 10 * se <= 0
      <3>1. exact = 0
        BY <1>2, <1>9, <2>1 DEF Greater
      <3>2. equity = 0
        BY <1>2, <1>4, <1>10, <2>1 DEF Equity, Greater
      <3>3. CASE k = 0
        BY <1>2, <1>4, <1>7, <3>1, <3>3
      <3>4. CASE k > 0
        BY <1>2, <1>4, <1>7, <3>1, <3>2, <3>4
      <3> QED
        BY <1>7, <3>3, <3>4
    <2>2. CASE 10 * B * c + 10 * sm - 10 * se > 0
      <3>1. exact = 10 * B * c + 10 * sm - 10 * se
        BY <1>2, <1>9, <2>2 DEF Greater
      <3>2. equity = c + v - n /\ c + v - n >= 0
        BY <1>2, <1>4, <1>10, <2>2 DEF Equity, Greater
      <3>3. CASE equity < k
        BY <1>2, <1>4, <1>7, <3>1, <3>2, <3>3
      <3>4. CASE equity >= k /\ exact < sm
        BY <1>2, <1>4, <1>7, <3>1, <3>2, <3>4
      <3>5. equity \in Int /\ exact \in Int
        BY <1>2, <1>4, <3>1, <3>2
      <3> QED
        BY <1>2, <1>7, <3>3, <3>4, <3>5
    <2> QED
      BY <1>2, <2>1, <2>2
  <1>12. exact \in Int
    BY <1>2, <1>9 DEF Greater
  <1>13. Fine = 100000
    BY DEF Fine, BASIS_POINTS
  <1>14. (exact < sm) = (equity < k) \/ exact - sm \in -3 * Fine .. Fine
    <2>1. Fine \in Nat /\ ((exact < sm) = (equity < k)
                           \/ (-3 * Fine <= exact - sm /\ exact - sm <= Fine))
      BY <1>11, <1>13
    <2> QED
      BY <1>2, <1>12, <2>1
  <1> QED
    BY <1>1, <1>5, <1>6, <1>8, <1>10, <1>14

\* In a market in USDC the executor sends what the program accepts, but for a
\* few base units at the threshold, whatever the position, its entry and the mark.
THEOREM ExecutorsAgree ==
    ASSUME QuoteScale = 1
    PROVE  LiquidatorSpec => []ExecutorAgrees
  <1>1. StakeInv => ExecutorAgrees
    <2> SUFFICES ASSUME StakeInv, stake.token = "YES" PROVE ExecutorAgrees
      BY DEF ExecutorAgrees
    <2>1. PICK s, e, c, m : s = stake.shares /\ e = stake.avg_entry_price
                            /\ c = stake.collateral /\ m = lastPrice
      OBVIOUS
    <2>2. s \in Nat /\ e \in Nat /\ c \in Nat /\ m \in Nat
      BY <2>1, Points DEF StakeInv, Stakes
    <2>3. FineEquity(stake, lastPrice) = Greater(0, c * Fine + 10 * s * (m - e))
      BY <2>1 DEF FineEquity
    <2>4. FineMaintenance(stake, lastPrice) = s * m
      BY <2>1 DEF FineMaintenance
    <2>5. DueOnChain(stake, lastPrice) =
            (Equity(c, QuoteValue(s, m), QuoteValue(s, e)) < BpsOf(QuoteValue(s, m), 1000))
      BY <2>1 DEF DueOnChain, TokenPrice, Liquidatable, MAINTENANCE_MARGIN_BPS
    <2>6. IsLiquidatable(stake, lastPrice) = (Greater(0, c * Fine + 10 * s * (m - e)) < s * m)
      BY <2>3, <2>4 DEF IsLiquidatable
    <2> QED
      BY <2>2, <2>3, <2>4, <2>5, <2>6, TestsAgree DEF ExecutorAgrees
  <1> QED
    BY <1>1, StakeOpens, StakeKeeps, PTL DEF LiquidatorSpec

\* A truncated value in the quote token: one step of the scale short at most.
LEMMA ValueBounds ==
    ASSUME NEW s \in Nat, NEW m \in Nat
    PROVE  /\ QuoteValue(s, m) \in Nat /\ s * m * QuoteScale \in Nat
           /\ QuoteValue(s, m) * BASIS_POINTS <= s * m * QuoteScale
           /\ s * m * QuoteScale < (QuoteValue(s, m) + QuoteScale) * BASIS_POINTS
  <1>1. PICK i : i = s * m
    OBVIOUS
  <1>2. i \in Nat
    BY <1>1
  <1>3. PICK v : v = i \div BASIS_POINTS
    OBVIOUS
  <1>4. v \in Nat /\ v * BASIS_POINTS <= i /\ i < (v + 1) * BASIS_POINTS
    BY <1>2, <1>3, Points, DivTimes
  <1>5. QuoteValue(s, m) = v * QuoteScale
    BY <1>1, <1>3 DEF QuoteValue
  <1>6. /\ (v * BASIS_POINTS) * QuoteScale <= i * QuoteScale
        /\ i * QuoteScale < ((v + 1) * BASIS_POINTS) * QuoteScale
    BY <1>2, <1>4, Points, QuoteScaleAssumption
  <1>7. /\ (v * BASIS_POINTS) * QuoteScale = (v * QuoteScale) * BASIS_POINTS
        /\ ((v + 1) * BASIS_POINTS) * QuoteScale = (v * QuoteScale + QuoteScale) * BASIS_POINTS
    BY <1>4, Points, QuoteScaleAssumption
  <1> QED
    BY <1>1, <1>2, <1>4, <1>5, <1>6, <1>7, QuoteScaleAssumption

\* The maintenance margin is a tenth, rounded down.
LEMMA Tenth ==
    ASSUME NEW v \in Nat
    PROVE  /\ BpsOf(v, MAINTENANCE_MARGIN_BPS) \in Nat
           /\ 10 * BpsOf(v, MAINTENANCE_MARGIN_BPS) <= v
           /\ v < 10 * BpsOf(v, MAINTENANCE_MARGIN_BPS) + 10
  BY DEF BpsOf, BASIS_POINTS, MAINTENANCE_MARGIN_BPS

\* The price shown is a quotient: what a price above it and one below it mean.
LEMMA ShownPrice ==
    ASSUME NEW pos \in Stakes, pos.shares > 0, NEW m \in 0..BASIS_POINTS
    PROVE  LET debt == SatSub(pos.avg_entry_price * pos.shares * QuoteScale,
                              pos.collateral * BASIS_POINTS)
               whole == 9 * pos.shares * QuoteScale
           IN  /\ m > LiquidationPrice(pos) => 10 * debt < whole * m
               /\ m < LiquidationPrice(pos) => whole * (m + 1) <= 10 * debt
  <1>1. PICK d : d = SatSub(pos.avg_entry_price * pos.shares * QuoteScale,
                            pos.collateral * BASIS_POINTS)
    OBVIOUS
  <1>2. PICK w : w = 9 * pos.shares * QuoteScale
    OBVIOUS
  <1>3. pos.shares \in Nat \ {0} /\ pos.collateral \in Nat /\ pos.avg_entry_price \in Nat
    BY Points DEF Stakes
  <1>4. d \in Nat
    <2>1. pos.avg_entry_price * pos.shares \in Nat
      BY <1>3
    <2>2. pos.avg_entry_price * pos.shares * QuoteScale \in Nat /\ pos.collateral * BASIS_POINTS \in Nat
      BY <1>3, <2>1, Points, QuoteScaleAssumption
    <2> QED
      BY <1>1, <2>2, SatSubNat
  <1>5. w \in Nat \ {0}
    BY <1>2, <1>3, QuoteScaleAssumption
  <1>6. PICK l : l = (10 * d) \div w
    OBVIOUS
  <1>7. l \in Nat /\ l * w <= 10 * d /\ 10 * d < (l + 1) * w
    BY <1>4, <1>5, <1>6, DivTimes
  <1>8. LiquidationPrice(pos) = Lesser(l, BASIS_POINTS)
    BY <1>1, <1>2, <1>6 DEF LiquidationPrice
  <1>9. m \in Nat /\ m <= BASIS_POINTS
    BY Points
  <1>10. ASSUME m > LiquidationPrice(pos) PROVE 10 * d < w * m
    <2>1. l + 1 <= m
      BY <1>7, <1>8, <1>9, <1>10, Points DEF Lesser
    <2>2. (l + 1) * w <= m * w
      BY <1>5, <1>7, <1>9, <2>1, TimesMono
    <2> QED
      BY <1>4, <1>5, <1>7, <1>9, <2>2
  <1>11. ASSUME m < LiquidationPrice(pos) PROVE w * (m + 1) <= 10 * d
    <2>1. m + 1 <= l
      BY <1>7, <1>8, <1>9, <1>11, Points DEF Lesser
    <2>2. (m + 1) * w <= l * w
      BY <1>5, <1>7, <1>9, <2>1, TimesMono
    <2> QED
      BY <1>4, <1>5, <1>7, <1>9, <2>2
  <1> QED
    BY <1>1, <1>2, <1>10, <1>11

\* Every position and every mark, of either token and in either quote token: the
\* price shown to the owner is where liquidations begin, but for three steps.
THEOREM ShownPriceIsTrue == LiquidatorSpec => []LiquidationPriceTrue
  <1>1. StakeInv => LiquidationPriceTrue
    <2> SUFFICES ASSUME StakeInv, stake.shares > 0 PROVE LiquidationPriceTrue
      BY DEF LiquidationPriceTrue
    <2>1. PICK s, e, c, m : s = stake.shares /\ e = stake.avg_entry_price
                            /\ c = stake.collateral /\ m = lastPrice
      OBVIOUS
    <2>2. s \in Nat \ {0} /\ e \in Nat /\ c \in Nat /\ m \in Nat
      BY <2>1, Points DEF StakeInv, Stakes
    <2>3. PICK v, n, k : v = QuoteValue(s, m) /\ n = QuoteValue(s, e)
                         /\ k = BpsOf(v, MAINTENANCE_MARGIN_BPS)
      OBVIOUS
    <2>4. PICK gain, spent : gain = s * m * QuoteScale /\ spent = s * e * QuoteScale
      OBVIOUS
    <2>5. /\ v \in Nat /\ gain \in Nat /\ v * BASIS_POINTS <= gain
          /\ gain < (v + QuoteScale) * BASIS_POINTS
          /\ n \in Nat /\ spent \in Nat /\ n * BASIS_POINTS <= spent
          /\ spent < (n + QuoteScale) * BASIS_POINTS
      BY <2>2, <2>3, <2>4, ValueBounds
    <2>6. k \in Nat /\ 10 * k <= v /\ v < 10 * k + 10
      BY <2>3, <2>5, Tenth
    <2>7. PICK debt, whole : debt = SatSub(e * s * QuoteScale, c * BASIS_POINTS)
                             /\ whole = 9 * s * QuoteScale
      OBVIOUS
    <2>8. /\ m > LiquidationPrice(stake) => 10 * debt < whole * m
          /\ m < LiquidationPrice(stake) => whole * (m + 1) <= 10 * debt
      BY <2>1, <2>7, ShownPrice DEF StakeInv
    <2>9. e * s * QuoteScale = spent
      BY <2>2, <2>4, QuoteScaleAssumption
    <2>10. whole * m = 9 * gain /\ whole * (m + 1) = 9 * gain + whole
      BY <2>2, <2>4, <2>7, QuoteScaleAssumption
    <2>11. whole \in Nat /\ QuoteScale \in Nat \ {0}
      BY <2>2, <2>7, QuoteScaleAssumption
    <2>12. PICK equity : equity = Equity(c, v, n)
      OBVIOUS
    <2>13. PICK B : B = BASIS_POINTS
      OBVIOUS
    <2>14. B \in Nat \ {0} /\ B >= 10
      BY <2>13 DEF BASIS_POINTS
    <2>15. c * B \in Nat /\ v * B \in Nat /\ n * B \in Nat /\ QuoteScale * B \in Nat \ {0} /\ k * B \in Nat
      BY <2>2, <2>5, <2>6, <2>11, <2>14
    <2>16. /\ (v + QuoteScale) * B = v * B + QuoteScale * B
           /\ (n + QuoteScale) * B = n * B + QuoteScale * B
      BY <2>5, <2>11, <2>14
    <2>17. 10 * (k * B) <= v * B /\ v * B < 10 * (k * B) + 10 * B
      BY <2>5, <2>6, <2>14
    <2>18. ASSUME m > LiquidationPrice(stake) PROVE equity - k > -3 * QuoteScale
      <3>1. 10 * spent - 10 * (c * B) < 9 * gain
        BY <2>5, <2>7, <2>8, <2>9, <2>10, <2>13, <2>15, <2>18 DEF SatSub
      <3>2. c * B + v * B - n * B - k * B + QuoteScale * B > 0
        BY <2>5, <2>13, <2>15, <2>16, <2>17, <3>1
      <3>3. (c + v - n - k + QuoteScale) * B > 0
        BY <2>2, <2>5, <2>6, <2>11, <2>14, <3>2
      <3>4. c + v - n - k + QuoteScale > 0
        BY <2>2, <2>5, <2>6, <2>11, <2>14, <3>3
      <3>5. equity >= c + v - n /\ equity \in Nat
        BY <2>2, <2>5, <2>12 DEF Equity, Greater
      <3> QED
        BY <2>2, <2>5, <2>6, <2>11, <3>4, <3>5
    <2>19. ASSUME m < LiquidationPrice(stake) PROVE equity - k < 3 * QuoteScale
      <3>1. CASE c + v - n <= 0
        BY <2>2, <2>5, <2>6, <2>11, <2>12, <3>1 DEF Equity, Greater
      <3>2. CASE c + v - n > 0
        <4>1. equity = c + v - n
          BY <2>2, <2>5, <2>12, <3>2 DEF Equity, Greater
        <4>2. debt > 0 => 10 * (c * B) <= 10 * spent - 9 * gain
          BY <2>5, <2>7, <2>8, <2>9, <2>10, <2>11, <2>13, <2>15, <2>19 DEF SatSub
        <4>3. debt > 0
          <5>1. whole > 0 /\ debt \in Nat
            BY <2>2, <2>5, <2>7, <2>9, <2>11, <2>13, <2>15, SatSubNat
          <5>2. 9 * gain + whole <= 10 * debt
            BY <2>8, <2>10, <2>19
          <5> QED
            BY <2>5, <2>11, <5>1, <5>2
        <4>4. c * B + v * B - n * B - k * B < 2 * (QuoteScale * B)
          <5>1. QuoteScale * B >= B
            BY <2>11, <2>14
          <5> QED
            BY <2>5, <2>13, <2>14, <2>15, <2>16, <2>17, <4>2, <4>3, <5>1
        <4>5. (c + v - n - k) * B < (2 * QuoteScale) * B
          BY <2>2, <2>5, <2>6, <2>11, <2>14, <4>4
        <4>6. c + v - n - k < 2 * QuoteScale
          BY <2>2, <2>5, <2>6, <2>11, <2>14, <4>5
        <4> QED
          BY <2>2, <2>5, <2>6, <2>11, <4>1, <4>6
      <3> QED
        BY <2>2, <2>5, <3>1, <3>2
    <2> QED
      BY <2>1, <2>3, <2>12, <2>18, <2>19 DEF LiquidationPriceTrue
  <1> QED
    BY <1>1, StakeOpens, StakeKeeps, PTL DEF LiquidatorSpec

-----------------------------------------------------------------------------
(***************************************************************************)
(* Market orders.  An open row has something left; a row that a page       *)
(* posted stays the order that the page placed.                            *)
(***************************************************************************)
Quoted == 1..(BASIS_POINTS - 1)
MaybeQuoted == 0..(BASIS_POINTS - 1)

BookRows ==
    [side : {"buy", "sell"}, type : {"limit", "market"}, token : {"yes"}, price : Quoted,
     chain : Quoted, size : Nat \ {0}, filled : Nat,
     status : {"open", "partially_filled", "filled", "cancelled"}, avg : MaybeQuoted]

LiveRows == {r \in BookRows : r.status \in OpenStatuses => r.filled < r.size}

Buyers ==
    [at : {"idle", "place", "track", "placed"}, bid : MaybeQuoted, ask : MaybeQuoted,
     side : {"none", "buy", "sell"}, amount : Nat, leverage : 1..MAX_LEVERAGE,
     price : MaybeQuoted, quantity : Nat, row : Nat]

\* What the page of a buyer decided.
Affords(b) ==
    /\ RequiredMargin(b.quantity, b.price, b.leverage) <= b.amount
    /\ (b.quantity + 1) * b.price * QuoteScale > b.amount * b.leverage * BASIS_POINTS

BuyerInv(b, rs) ==
    /\ b.at \in {"idle", "place"} => b.side = "none"
    /\ b.at # "placed" => b.row = 0
    /\ b.at \in {"track", "placed"} => b.side # "none" /\ b.price \in Quoted /\ b.quantity > 0
    /\ b.side = "buy" => Affords(b)
    /\ b.row > 0 => LET r == rs[b.row] IN
                    /\ b.row \in 1..Len(rs) /\ r.side = b.side /\ r.type = "market"
                    /\ r.price = b.price /\ r.chain = b.price

MarketInv ==
    /\ book \in Seq(LiveRows) /\ lastFilled \in 0..Len(book)
    /\ buyer \in [Traders -> Buyers]
    /\ \A t \in Traders : BuyerInv(buyer[t], book)

\* Prices are numbers.
LEMMA QuotedNat ==
    /\ BASIS_POINTS \in Nat \ {0}
    /\ \A p \in Quoted : p \in Nat \ {0} /\ p <= BASIS_POINTS /\ p \in MaybeQuoted
    /\ \A p \in MaybeQuoted : p \in Nat /\ (p > 0 => p \in Quoted)
  BY Points DEF Quoted, MaybeQuoted

\* The rows of a book.
LEMMA RowFields ==
    ASSUME NEW rs \in Seq(LiveRows), NEW i \in 1..Len(rs)
    PROVE  /\ rs[i] \in LiveRows /\ rs[i].price \in Quoted /\ rs[i].chain \in Quoted
           /\ rs[i].size \in Nat \ {0} /\ rs[i].filled \in Nat /\ rs[i].avg \in MaybeQuoted
           /\ rs[i].side \in {"buy", "sell"} /\ rs[i].type \in {"limit", "market"}
           /\ rs[i].token = "yes"
           /\ rs[i].status \in OpenStatuses => RemainingSize(rs[i]) \in Nat \ {0}
  <1>1. rs[i] \in LiveRows
    BY ElementOfSeq
  <1>2. PICK r \in LiveRows : r = rs[i]
    BY <1>1
  <1>3. /\ r.price \in Quoted /\ r.chain \in Quoted
        /\ r.size \in Nat \ {0} /\ r.filled \in Nat /\ r.avg \in MaybeQuoted
        /\ r.side \in {"buy", "sell"} /\ r.type \in {"limit", "market"} /\ r.token = "yes"
        /\ r.status \in OpenStatuses => r.filled < r.size
    BY DEF LiveRows, BookRows
  <1> QED
    BY <1>2, <1>3 DEF RemainingSize

\* The book has prices.
LEMMA LivePriced ==
    ASSUME NEW rs \in Seq(LiveRows)
    PROVE  Priced(rs)
  <1>1. DOMAIN rs = 1..Len(rs) /\ Len(rs) \in Nat
    BY LenProperties
  <1>2. \A i \in 1..Len(rs) : rs[i].price \in Int
    BY RowFields, QuotedNat
  <1> QED
    BY <1>1, <1>2 DEF Priced

\* The best bid or ask, 0 for none.
LEMMA BestIsQuoted ==
    ASSUME NEW rs \in Seq(LiveRows), NEW side \in {"buy", "sell"}
    PROVE  BestOf(rs, side, "yes") \in MaybeQuoted
  <1>1. PICK levels : levels = DOMAIN Levels(rs, side, "yes")
    OBVIOUS
  <1>2. levels = {rs[i].price : i \in Listed(rs, side, "yes")}
    BY <1>1 DEF Levels
  <1>3. levels \subseteq Quoted
    <2>1. \A i \in Listed(rs, side, "yes") : i \in 1..Len(rs)
      BY LenProperties DEF Listed, Rows
    <2> QED
      BY <1>2, <2>1, RowFields
  <1>4. CASE levels = {}
    <2>1. BestOf(rs, side, "yes") = 0
      BY <1>1, <1>4 DEF BestOf
    <2> QED
      BY <2>1, Points DEF MaybeQuoted
  <1>5. CASE levels # {} /\ side = "buy"
    <2>1. PICK T : T = {BASIS_POINTS - p : p \in levels}
      OBVIOUS
    <2>2. T \in SUBSET Nat /\ T # {}
      BY <1>3, <1>5, <2>1, QuotedNat
    <2>3. PICK n \in T : \A m \in T : n <= m
      BY <2>2, LeastNumber
    <2>4. PICK p \in levels : n = BASIS_POINTS - p
      BY <2>1
    <2>5. \A o \in levels : p >= o
      BY <1>3, <2>1, <2>3, <2>4, QuotedNat
    <2>6. Max(levels) \in levels
      BY <2>5 DEF Max
    <2> QED
      BY <1>1, <1>3, <1>5, <2>6, QuotedNat DEF BestOf
  <1>6. CASE levels # {} /\ side = "sell"
    <2>1. levels \in SUBSET Nat
      BY <1>3, QuotedNat
    <2>2. PICK n \in levels : \A m \in levels : n <= m
      BY <1>6, <2>1, LeastNumber
    <2>3. Min(levels) \in levels
      BY <2>2 DEF Min
    <2> QED
      BY <1>1, <1>3, <1>6, <2>3, QuotedNat DEF BestOf
  <1> QED
    BY <1>4, <1>5, <1>6

\* The price that the backend gives an order without one.
LEMMA OrderPriceQuoted ==
    ASSUME NEW rs \in Seq(LiveRows), NEW side \in {"buy", "sell"}, NEW last \in 0..Len(rs)
    PROVE  OrderPrice(rs, side, "yes", last) \in Quoted
  <1>1. PICK bid, ask : bid = BestOf(rs, "buy", "yes") /\ ask = BestOf(rs, "sell", "yes")
    OBVIOUS
  <1>2. bid \in MaybeQuoted /\ ask \in MaybeQuoted
    BY <1>1, BestIsQuoted
  <1>3. LastPrice(rs, last) \in MaybeQuoted
    <2>1. CASE last = 0
      BY <2>1, Points DEF LastPrice, MaybeQuoted
    <2>2. CASE last # 0
      <3>1. last \in 1..Len(rs)
        BY <2>2, LenProperties
      <3>2. rs[last].avg \in MaybeQuoted /\ rs[last].price \in MaybeQuoted
        BY <3>1, RowFields, QuotedNat
      <3>3. 0 \in MaybeQuoted
        BY Points DEF MaybeQuoted
      <3> QED
        BY <2>2, <3>2, <3>3 DEF LastPrice
    <2> QED
      BY <2>1, <2>2
  <1>4. 5000 \in Quoted
    BY DEF Quoted, BASIS_POINTS
  <1>5. MarketPrice(rs, "yes", last) \in Quoted
    <2>1. CASE bid > 0 /\ ask > 0
      <3>1. bid \in Quoted /\ ask \in Quoted
        BY <1>2, <2>1, QuotedNat
      <3>2. (bid + ask) \div 2 \in Quoted
        BY <3>1, Points DEF Quoted
      <3> QED
        BY <1>1, <2>1, <3>2 DEF MarketPrice
    <2>2. CASE bid > 0 /\ ask = 0
      BY <1>1, <1>2, <2>2, QuotedNat DEF MarketPrice
    <2>3. CASE bid = 0 /\ ask > 0
      BY <1>1, <1>2, <2>3, QuotedNat DEF MarketPrice
    <2>4. CASE bid = 0 /\ ask = 0
      BY <1>1, <1>3, <1>4, <2>4, QuotedNat DEF MarketPrice
    <2> QED
      BY <1>2, <2>1, <2>2, <2>3, <2>4, QuotedNat
  <1> QED
    BY <1>1, <1>2, <1>5, QuotedNat DEF OrderPrice

\* The quantity the page asks for costs no more than the amount given.
LEMMA Affordable ==
    ASSUME NEW a \in Nat \ {0}, NEW l \in 1..MAX_LEVERAGE, NEW p \in Quoted
    PROVE  LET q == SharesFor(a, l, p)
           IN  /\ q \in Nat
               /\ RequiredMargin(q, p, l) <= a
               /\ (q + 1) * p * QuoteScale > a * l * BASIS_POINTS
  <1>1. PICK B : B = BASIS_POINTS
    OBVIOUS
  <1>2. B \in Nat \ {0} /\ l \in Nat \ {0} /\ p \in Nat \ {0} /\ QuoteScale \in Nat \ {0}
    BY <1>1, Points, QuotedNat, QuoteScaleAssumption
  <1>3. PICK x, d : x = (a * l) * B /\ d = p * QuoteScale
    OBVIOUS
  <1>4. x \in Nat /\ d \in Nat \ {0} /\ a * l \in Nat
    <2>1. a * l \in Nat
      BY <1>2
    <2> QED
      BY <1>2, <1>3, <2>1
  <1>5. PICK q : q = x \div d
    OBVIOUS
  <1>6. q \in Nat /\ q * d <= x /\ x < (q + 1) * d
    BY <1>4, <1>5, DivTimes
  <1>7. SharesFor(a, l, p) = q
    BY <1>1, <1>3, <1>5 DEF SharesFor
  <1>8. (q + 1) * p * QuoteScale > a * l * B
    BY <1>2, <1>3, <1>6
  <1>9. PICK n : n = QuoteValue(q, p)
    OBVIOUS
  <1>10. n \in Nat /\ n * B <= x
    <2>1. n \in Nat /\ n * B <= q * p * QuoteScale
      BY <1>1, <1>2, <1>6, <1>9, ValueBounds
    <2>2. q * p * QuoteScale = q * d
      BY <1>2, <1>3, <1>6
    <2> QED
      BY <1>2, <1>4, <1>6, <2>1, <2>2
  <1>11. n <= a * l
    BY <1>2, <1>3, <1>4, <1>10, TimesMono
  <1>12. n \div l \in Nat /\ n \div l <= a
    BY <1>2, <1>10, <1>11, DivNat, DivBound
  <1>13. PICK k : k = BpsOf(n, INITIAL_MARGIN_BPS)
    OBVIOUS
  <1>14. k \in Nat /\ 10 * k <= n
    BY <1>10, <1>13, Tenth DEF INITIAL_MARGIN_BPS, MAINTENANCE_MARGIN_BPS
  <1>15. k <= a
    <2>1. l <= 10
      BY DEF MAX_LEVERAGE
    <2>2. a * l <= a * 10
      BY <1>2, <2>1
    <2> QED
      BY <1>4, <1>10, <1>11, <1>14, <2>2
  <1>16. RequiredMargin(q, p, l) <= a
    BY <1>9, <1>12, <1>13, <1>14, <1>15 DEF RequiredMargin, Greater
  <1> QED
    BY <1>1, <1>6, <1>7, <1>8, <1>16

\* What a page has seen gives it a price.
LEMMA BuyPriceQuoted ==
    ASSUME NEW b \in Buyers
    PROVE  BuyPrice(b, 5000) \in Quoted
  <1>1. b.bid \in MaybeQuoted /\ b.ask \in MaybeQuoted
    BY DEF Buyers
  <1>2. PICK c : c = IF b.bid > 0 THEN b.bid ELSE 5000
    OBVIOUS
  <1>3. c \in Nat \ {0}
    BY <1>1, <1>2, QuotedNat
  <1>4. PICK s : s = c + BpsOf(c, MaxSlippage)
    OBVIOUS
  <1>5. s \in Nat \ {0}
    BY <1>3, <1>4 DEF BpsOf, MaxSlippage, BASIS_POINTS
  <1>6. HighestPrice \in Nat \ {0} /\ HighestPrice <= BASIS_POINTS - 1
    BY DEF HighestPrice, BASIS_POINTS
  <1>7. Lesser(HighestPrice, s) \in Quoted
    BY <1>5, <1>6, Points DEF Lesser, Quoted
  <1> QED
    BY <1>1, <1>2, <1>4, <1>7, QuotedNat DEF BuyPrice

\* The book grows by one live row; what the pages know of it stays.
LEMMA RowAdded ==
    ASSUME MarketInv, NEW r \in LiveRows, book' = Append(book, r)
    PROVE  /\ (book \in Seq(LiveRows))' /\ Len(book') = Len(book) + 1 /\ Len(book) \in Nat
           /\ book'[Len(book) + 1] = r
           /\ \A b : BuyerInv(b, book) => BuyerInv(b, book')
           /\ lastFilled \in 0..Len(book')
  <1>1. book \in Seq(LiveRows) /\ lastFilled \in 0..Len(book) /\ Len(book) \in Nat
    BY LenProperties DEF MarketInv
  <1>2. /\ book' \in Seq(LiveRows) /\ Len(book') = Len(book) + 1
        /\ \A i \in 1..Len(book) : book'[i] = book[i]
        /\ book'[Len(book) + 1] = r
    BY <1>1, AppendProperties
  <1>3. \A i \in 1..Len(book) : i \in 1..Len(book')
    BY <1>1, <1>2
  <1>4. \A b : BuyerInv(b, book) => BuyerInv(b, book')
    BY <1>2, <1>3 DEF BuyerInv
  <1> QED
    BY <1>1, <1>2, <1>4

\* Two books of the same rows, but for what happens to orders.
SameOrders(rs, new) ==
    /\ Len(new) = Len(rs)
    /\ \A i \in 1..Len(rs) : /\ new[i].side = rs[i].side /\ new[i].type = rs[i].type
                             /\ new[i].price = rs[i].price /\ new[i].chain = rs[i].chain

\* A row changes its status or is filled: the orders stay what they are.
LEMMA RowChanged ==
    ASSUME NEW rs \in Seq(LiveRows), NEW i \in 1..Len(rs), NEW r \in LiveRows,
           r.side = rs[i].side, r.type = rs[i].type, r.price = rs[i].price,
           r.chain = rs[i].chain
    PROVE  /\ [rs EXCEPT ![i] = r] \in Seq(LiveRows)
           /\ Len([rs EXCEPT ![i] = r]) = Len(rs)
           /\ \A j \in 1..Len(rs) : [rs EXCEPT ![i] = r][j] = IF j = i THEN r ELSE rs[j]
           /\ SameOrders(rs, [rs EXCEPT ![i] = r])
  <1>1. PICK new : new = [rs EXCEPT ![i] = r]
    OBVIOUS
  <1>2. /\ new \in Seq(LiveRows) /\ Len(new) = Len(rs)
        /\ \A j \in 1..Len(rs) : new[j] = IF j = i THEN r ELSE rs[j]
    BY <1>1, ExceptSeq
  <1>3. SameOrders(rs, new)
    BY <1>2 DEF SameOrders
  <1> QED
    BY <1>1, <1>2, <1>3

\* With the same orders the pages know what they knew.
LEMMA OrdersStay ==
    ASSUME MarketInv, SameOrders(book, book'), (book \in Seq(LiveRows))', UNCHANGED buyer,
           lastFilled' \in 0..Len(book)
    PROVE  MarketInv'
  <1>1. \A b : BuyerInv(b, book) => BuyerInv(b, book')
    BY DEF BuyerInv, SameOrders
  <1> QED
    BY <1>1 DEF MarketInv, SameOrders

\* A new row.
LEMMA NewRow ==
    ASSUME NEW side \in {"buy", "sell"}, NEW type \in {"limit", "market"}, NEW p \in Quoted,
           NEW c \in Quoted, NEW size \in Nat \ {0}
    PROVE  Row(side, type, p, c, size) \in LiveRows
  <1>1. PICK r : r = Row(side, type, p, c, size)
    OBVIOUS
  <1>2. r \in BookRows
    BY <1>1, Points DEF Row, BookRows, MaybeQuoted
  <1>3. r.filled < r.size
    BY <1>1 DEF Row
  <1> QED
    BY <1>1, <1>2, <1>3 DEF LiveRows

\* Every buy order with something left and a partner is matched once, with the
\* best of its partners; nothing else is.
LEMMA MatchesAre ==
    ASSUME NEW rs \in Seq(LiveRows)
    PROVE  MatchedBest(rs)
  <1>1. Priced(rs)
    BY LivePriced
  <1> QED
    BY <1>1, MatchesFound

\* A settled match fills both rows and leaves both orders what they are.
LEMMA SettleKeeps ==
    ASSUME MarketInv, NEW n \in DOMAIN MatchOrders(book), Settle(MatchOrders(book)[n])
    PROVE  MarketInv'
  <1>1. PICK m : m = MatchOrders(book)[n]
    OBVIOUS
  <1>2. book \in Seq(LiveRows) /\ DOMAIN book = 1..Len(book) /\ Len(book) \in Nat
    BY LenProperties DEF MarketInv
  <1>3. /\ m.buy \in Rows(book, "buy") /\ RemainingSize(book[m.buy]) > 0
        /\ m.sell \in Partners(book, m.buy) /\ m.price = MatchPrice(book[m.buy], book[m.sell])
    BY <1>1, <1>2, MatchesAre DEF MatchedBest
  <1>4. PICK i, j : i = m.buy /\ j = m.sell
    OBVIOUS
  <1>5. /\ i \in 1..Len(book) /\ j \in 1..Len(book) /\ i # j
        /\ book[i].status \in OpenStatuses /\ book[j].status \in OpenStatuses
    BY <1>2, <1>3, <1>4 DEF Partners, Rows
  <1>6. PICK price0 : price0 = KeeperPrice(m)
    OBVIOUS
  <1>7. price0 \in Quoted
    <2>1. /\ book[i].price \in Quoted /\ book[i].chain \in Quoted
          /\ book[j].price \in Quoted /\ book[j].chain \in Quoted
      BY <1>2, <1>5, RowFields
    <2> QED
      BY <1>3, <1>4, <1>6, <2>1 DEF KeeperPrice, MatchPrice
  <1>8. PICK size : size = Lesser(RemainingSize(book[i]), RemainingSize(book[j]))
    OBVIOUS
  <1>9. /\ size \in Nat \ {0}
        /\ size <= RemainingSize(book[i]) /\ size <= RemainingSize(book[j])
    <2>1. RemainingSize(book[i]) \in Nat \ {0} /\ RemainingSize(book[j]) \in Nat \ {0}
      BY <1>2, <1>5, RowFields
    <2> QED
      BY <1>8, <2>1 DEF Lesser
  <1>10. \A k \in {i, j} : LET r == Taken(book[k], size, price0) IN
           /\ r \in LiveRows /\ r.side = book[k].side /\ r.type = book[k].type
           /\ r.price = book[k].price /\ r.chain = book[k].chain
    <2> SUFFICES ASSUME NEW k \in {i, j}
                 PROVE  LET r == Taken(book[k], size, price0) IN
                        /\ r \in LiveRows /\ r.side = book[k].side /\ r.type = book[k].type
                        /\ r.price = book[k].price /\ r.chain = book[k].chain
      OBVIOUS
    <2>1. PICK o : o = book[k]
      OBVIOUS
    <2>2. k \in 1..Len(book) /\ o \in LiveRows /\ o.status \in OpenStatuses /\ size <= RemainingSize(o)
      BY <1>2, <1>5, <1>9, <2>1, RowFields
    <2>3. o \in BookRows /\ o.filled \in Nat /\ o.size \in Nat \ {0} /\ o.filled + size <= o.size
      BY <1>9, <2>2 DEF LiveRows, BookRows, RemainingSize
    <2>4. PICK r : r = Taken(o, size, price0)
      OBVIOUS
    <2>5. /\ r \in BookRows /\ r.filled = o.filled + size /\ r.size = o.size
          /\ r.status = IF o.filled + size = o.size THEN "filled" ELSE "partially_filled"
          /\ r.side = o.side /\ r.type = o.type /\ r.price = o.price /\ r.chain = o.chain
      <3>1. PICK left : left = IF o.filled + size = o.size THEN "filled" ELSE "partially_filled"
        OBVIOUS
      <3>2. PICK total : total = o.filled + size
        OBVIOUS
      <3>3. left \in {"open", "partially_filled", "filled", "cancelled"}
            /\ total \in Nat /\ price0 \in MaybeQuoted
        BY <1>7, <1>9, <2>3, <3>1, <3>2, QuotedNat
      <3>4. r = [o EXCEPT !.filled = total, !.status = left, !.avg = price0]
        BY <2>4, <3>1, <3>2 DEF Taken
      <3>5. r \in BookRows /\ r.filled = total /\ r.size = o.size /\ r.status = left
            /\ r.side = o.side /\ r.type = o.type /\ r.price = o.price /\ r.chain = o.chain
        BY <2>3, <3>3, <3>4 DEF BookRows
      <3> QED
        BY <3>1, <3>2, <3>5
    <2>6. r.status \in OpenStatuses => r.filled < r.size
      BY <1>9, <2>3, <2>5 DEF OpenStatuses
    <2> QED
      BY <2>1, <2>4, <2>5, <2>6 DEF LiveRows
  <1>11. PICK ri, rj : ri = Taken(book[i], size, price0) /\ rj = Taken(book[j], size, price0)
    OBVIOUS
  <1>12. PICK one : one = [book EXCEPT ![i] = ri]
    OBVIOUS
  <1>13. /\ one \in Seq(LiveRows) /\ Len(one) = Len(book) /\ SameOrders(book, one)
         /\ one[j] = book[j]
    <2>1. /\ ri \in LiveRows /\ ri.side = book[i].side /\ ri.type = book[i].type
          /\ ri.price = book[i].price /\ ri.chain = book[i].chain
      BY <1>10, <1>11
    <2> QED
      BY <1>2, <1>5, <1>12, <2>1, RowChanged
  <1>14. book' = [one EXCEPT ![j] = rj]
    <2>1. book' = [book EXCEPT ![i] = Taken(@, size, price0), ![j] = Taken(@, size, price0)]
      BY <1>1, <1>4, <1>6, <1>8 DEF Settle
    <2> QED
      BY <1>2, <1>5, <1>11, <1>12, <2>1
  <1>15. book' \in Seq(LiveRows) /\ SameOrders(one, book')
    BY <1>5, <1>10, <1>11, <1>13, <1>14, RowChanged
  <1>16. SameOrders(book, book')
    BY <1>13, <1>15 DEF SameOrders
  <1>17. lastFilled' \in 0..Len(book) /\ UNCHANGED buyer
    BY <1>1, <1>2, <1>4, <1>5 DEF Settle
  <1> QED
    BY <1>15, <1>16, <1>17, OrdersStay

\* The other traders' orders keep the invariant.
LEMMA OthersKeep ==
    ASSUME MarketInv, NEW side \in {"buy", "sell"}, NEW p \in BookPrices, NEW lot \in Lots,
           PlaceLimit(side, p, lot) \/ PostUnpriced(side, p, lot)
    PROVE  MarketInv'
  <1>1. p \in Quoted /\ lot \in Nat \ {0}
    BY MarketOrdersAssumption DEF Quoted
  <1>2. PICK o : o = OrderPrice(book, side, "yes", lastFilled)
    OBVIOUS
  <1>3. o \in Quoted
    BY <1>2, OrderPriceQuoted DEF MarketInv
  <1>4. \/ book' = Append(book, Row(side, "limit", p, p, lot))
        \/ book' = Append(book, Row(side, "market", o, p, lot))
    BY <1>2 DEF PlaceLimit, PostUnpriced
  <1>5. PICK r \in LiveRows : book' = Append(book, r)
    <2>1. Row(side, "limit", p, p, lot) \in LiveRows /\ Row(side, "market", o, p, lot) \in LiveRows
      BY <1>1, <1>3, NewRow
    <2> QED
      BY <1>4, <2>1
  <1>6. UNCHANGED <<buyer, lastFilled>>
    BY DEF PlaceLimit, PostUnpriced
  <1> QED
    BY <1>5, <1>6, RowAdded DEF MarketInv

\* A cancelled order is not live.
LEMMA CancelKeeps ==
    ASSUME MarketInv, NEW i \in DOMAIN book, CancelLimit(i)
    PROVE  MarketInv'
  <1>1. book \in Seq(LiveRows) /\ DOMAIN book = 1..Len(book) /\ i \in 1..Len(book)
    BY LenProperties DEF MarketInv
  <1>2. PICK o : o = book[i]
    OBVIOUS
  <1>3. o \in BookRows
    BY <1>1, <1>2, RowFields DEF LiveRows
  <1>4. PICK r : r = [o EXCEPT !.status = "cancelled"]
    OBVIOUS
  <1>5. /\ r \in BookRows /\ r.status = "cancelled"
        /\ r.side = o.side /\ r.type = o.type /\ r.price = o.price /\ r.chain = o.chain
    BY <1>3, <1>4 DEF BookRows
  <1>6. r \in LiveRows
    BY <1>5 DEF LiveRows, OpenStatuses
  <1>7. book' = [book EXCEPT ![i] = r]
    BY <1>1, <1>2, <1>4 DEF CancelLimit
  <1>8. book' \in Seq(LiveRows) /\ SameOrders(book, book')
    BY <1>1, <1>2, <1>5, <1>6, <1>7, RowChanged
  <1>9. UNCHANGED <<buyer, lastFilled>>
    BY DEF CancelLimit
  <1> QED
    BY <1>8, <1>9, OrdersStay DEF MarketInv

\* A page changes nothing but its own record.
LEMMA PageMoves ==
    ASSUME MarketInv, UNCHANGED <<book, lastFilled>>, NEW t \in Traders, NEW b \in Buyers,
           buyer' = [buyer EXCEPT ![t] = b], BuyerInv(b, book)
    PROVE  MarketInv'
  BY DEF MarketInv

\* What a page reads and decides keeps the invariant.
LEMMA DecisionsKeep ==
    ASSUME MarketInv, NEW t \in Traders,
           \/ FetchOrderBook(t)
           \/ \E a \in Amounts, l \in Leverages : PlaceBuyMarketOrder(t, a, l)
           \/ \E lot \in Lots : PlaceSellMarketOrder(t, lot)
    PROVE  MarketInv'
  <1>1. PICK o : o = buyer[t]
    OBVIOUS
  <1>2. /\ o \in Buyers /\ BuyerInv(o, book) /\ buyer \in [Traders -> Buyers]
        /\ book \in Seq(LiveRows)
    BY <1>1 DEF MarketInv
  <1>3. UNCHANGED <<book, lastFilled>>
    BY DEF FetchOrderBook, PlaceBuyMarketOrder, PlaceSellMarketOrder
  <1>4. CASE FetchOrderBook(t)
    <2>1. PICK bid, ask : bid = BestOf(book, "buy", "yes") /\ ask = BestOf(book, "sell", "yes")
      OBVIOUS
    <2>2. bid \in MaybeQuoted /\ ask \in MaybeQuoted
      BY <1>2, <2>1, BestIsQuoted
    <2>3. o.at = "idle"
      BY <1>1, <1>4 DEF FetchOrderBook
    <2>4. PICK b : /\ b = [o EXCEPT !.at = "place", !.bid = bid, !.ask = ask]
                      \/ b = [o EXCEPT !.at = "place"]
                   /\ buyer' = [buyer EXCEPT ![t] = b]
      BY <1>1, <1>2, <1>4, <2>1 DEF FetchOrderBook
    <2>5. /\ b \in Buyers /\ b.at = "place"
          /\ b.side = o.side /\ b.row = o.row /\ b.price = o.price /\ b.quantity = o.quantity
      BY <1>2, <2>2, <2>4 DEF Buyers
    <2>6. BuyerInv(b, book)
      BY <1>2, <2>3, <2>5 DEF BuyerInv, Buyers
    <2> QED
      BY <1>3, <2>4, <2>5, <2>6, PageMoves
  <1>5. CASE \E a \in Amounts, l \in Leverages : PlaceBuyMarketOrder(t, a, l)
    <2>1. PICK a \in Amounts, l \in Leverages : PlaceBuyMarketOrder(t, a, l)
      BY <1>5
    <2>2. a \in Nat \ {0} /\ l \in 1..MAX_LEVERAGE
      BY MarketOrdersAssumption
    <2>3. PICK p, q : p = BuyPrice(o, 5000) /\ q = SharesFor(a, l, p)
      OBVIOUS
    <2>4. p \in Quoted /\ p \in MaybeQuoted
      BY <1>2, <2>3, BuyPriceQuoted, QuotedNat
    <2>5. q \in Nat /\ RequiredMargin(q, p, l) <= a
          /\ (q + 1) * p * QuoteScale > a * l * BASIS_POINTS
      BY <2>2, <2>3, <2>4, Affordable
    <2>6. o.at = "place" /\ q > 0
      BY <1>1, <2>1, <2>3 DEF PlaceBuyMarketOrder
    <2>7. PICK b : b = Tracks(o, "buy", a, l, p, q)
      OBVIOUS
    <2>8. buyer' = [buyer EXCEPT ![t] = b]
      BY <1>1, <1>2, <2>1, <2>3, <2>7 DEF PlaceBuyMarketOrder
    <2>9. /\ b \in Buyers /\ b.at = "track" /\ b.side = "buy" /\ b.amount = a /\ b.leverage = l
          /\ b.price = p /\ b.quantity = q /\ b.row = o.row
      BY <1>2, <2>2, <2>4, <2>5, <2>7 DEF Buyers, Tracks
    <2>10. Affords(b)
      BY <2>5, <2>9 DEF Affords
    <2>11. b.row = 0
      BY <1>2, <2>6, <2>9 DEF BuyerInv
    <2>12. BuyerInv(b, book)
      BY <2>4, <2>6, <2>9, <2>10, <2>11 DEF BuyerInv
    <2> QED
      BY <1>3, <2>8, <2>9, <2>12, PageMoves
  <1>6. CASE \E lot \in Lots : PlaceSellMarketOrder(t, lot)
    <2>1. PICK lot \in Lots : PlaceSellMarketOrder(t, lot)
      BY <1>6
    <2>2. lot \in Nat \ {0}
      BY MarketOrdersAssumption
    <2>3. LowestPrice \in Quoted /\ LowestPrice \in MaybeQuoted
      <3>1. LowestPrice \in Nat \ {0} /\ LowestPrice <= BASIS_POINTS - 1
        BY DEF LowestPrice, BASIS_POINTS
      <3> QED
        BY <3>1, Points DEF Quoted, MaybeQuoted
    <2>4. o.at = "place"
      BY <1>1, <2>1 DEF PlaceSellMarketOrder
    <2>5. PICK b : b = Tracks(o, "sell", 0, 1, LowestPrice, lot)
      OBVIOUS
    <2>6. buyer' = [buyer EXCEPT ![t] = b]
      BY <1>1, <1>2, <2>1, <2>5 DEF PlaceSellMarketOrder
    <2>7. /\ b \in Buyers /\ b.at = "track" /\ b.side = "sell"
          /\ b.price = LowestPrice /\ b.quantity = lot /\ b.row = o.row
      <3>1. 1 \in 1..MAX_LEVERAGE
        BY Points
      <3>2. PICK low, one : low = LowestPrice /\ one = 1
        OBVIOUS
      <3>3. b = Tracks(o, "sell", 0, one, low, lot) /\ one \in 1..MAX_LEVERAGE /\ low \in MaybeQuoted
        BY <2>3, <2>5, <3>1, <3>2
      <3> QED
        BY <1>2, <2>2, <3>2, <3>3 DEF Buyers, Tracks
    <2>8. BuyerInv(b, book)
      BY <1>2, <2>2, <2>3, <2>4, <2>7 DEF BuyerInv
    <2> QED
      BY <1>3, <2>6, <2>7, <2>8, PageMoves
  <1> QED
    BY <1>4, <1>5, <1>6

\* The row that a page posts is the order that it placed.
LEMMA PostKeeps ==
    ASSUME MarketInv, NEW t \in Traders, PostMarketOrder(t)
    PROVE  MarketInv'
  <1>1. PICK o : o = buyer[t]
    OBVIOUS
  <1>2. /\ o \in Buyers /\ BuyerInv(o, book) /\ buyer \in [Traders -> Buyers]
        /\ book \in Seq(LiveRows) /\ o.at = "track"
    BY <1>1 DEF MarketInv, PostMarketOrder
  <1>3. o.side \in {"buy", "sell"} /\ o.price \in Quoted /\ o.quantity \in Nat \ {0} /\ o.row = 0
    BY <1>2 DEF BuyerInv, Buyers
  <1>4. PICK r : r = Row(o.side, "market", o.price, o.price, o.quantity)
    OBVIOUS
  <1>5. r \in LiveRows /\ r.side = o.side /\ r.type = "market" /\ r.price = o.price /\ r.chain = o.price
    BY <1>3, <1>4, NewRow DEF Row
  <1>6. book' = Append(book, r)
    BY <1>1, <1>4 DEF PostMarketOrder
  <1>7. /\ (book \in Seq(LiveRows))' /\ Len(book') = Len(book) + 1 /\ Len(book) \in Nat
        /\ book'[Len(book) + 1] = r
        /\ \A b : BuyerInv(b, book) => BuyerInv(b, book')
        /\ lastFilled \in 0..Len(book')
    BY <1>5, <1>6, RowAdded
  <1>14. PICK new : new = Len(book) + 1
    OBVIOUS
  <1>15. new \in Nat
    BY <1>7, <1>14
  <1>8. PICK b : b = [o EXCEPT !.at = "placed", !.row = new]
    OBVIOUS
  <1>9. buyer' = [buyer EXCEPT ![t] = b] /\ UNCHANGED lastFilled
    BY <1>1, <1>2, <1>8, <1>14 DEF PostMarketOrder, Buyers
  <1>10. /\ b \in Buyers /\ b.at = "placed" /\ b.row = new /\ b.side = o.side
         /\ b.price = o.price /\ b.quantity = o.quantity /\ b.amount = o.amount
         /\ b.leverage = o.leverage
    BY <1>2, <1>8, <1>15 DEF Buyers
  <1>11. BuyerInv(b, book')
    <2>1. new \in 1..Len(book') /\ book'[new] = r
      BY <1>7, <1>14
    <2> QED
      BY <1>2, <1>3, <1>5, <1>10, <2>1 DEF BuyerInv, Affords
  <1>12. \A u \in Traders : BuyerInv(buyer'[u], book')
    <2>1. \A u \in Traders : buyer'[u] = IF u = t THEN b ELSE buyer[u]
      BY <1>2, <1>9
    <2> QED
      BY <1>7, <1>11, <2>1 DEF MarketInv
  <1>13. buyer' \in [Traders -> Buyers]
    BY <1>2, <1>9, <1>10
  <1> QED
    BY <1>7, <1>9, <1>12, <1>13 DEF MarketInv

\* It is an invariant.
LEMMA MarketStep ==
    ASSUME MarketInv, [MarketOrdersNext]_marketorders
    PROVE  MarketInv'
  <1>1. CASE UNCHANGED marketorders
    BY <1>1 DEF marketorders, MarketInv
  <1>2. CASE MarketOrdersNext
    BY <1>2, OthersKeep, CancelKeeps, DecisionsKeep, PostKeeps, SettleKeeps DEF MarketOrdersNext
  <1> QED
    BY <1>1, <1>2

\* At first there are no rows.
LEMMA MarketStarts == MarketOrdersInit => MarketInv
  <1> SUFFICES ASSUME MarketOrdersInit PROVE MarketInv
    OBVIOUS
  <1>1. book \in Seq(LiveRows) /\ lastFilled \in 0..Len(book)
    BY EmptySeq DEF MarketOrdersInit
  <1>2. Idle \in Buyers
    BY Points DEF Idle, Buyers, MaybeQuoted
  <1>3. BuyerInv(Idle, book)
    BY DEF BuyerInv, Idle
  <1>4. \A t \in Traders : buyer[t] = Idle
    BY DEF MarketOrdersInit
  <1>5. buyer \in [Traders -> Buyers]
    BY <1>2 DEF MarketOrdersInit
  <1> QED
    BY <1>1, <1>3, <1>4, <1>5 DEF MarketInv

\* A buy with what is left, whose limit meets an ask, is paired with an order
\* that the program accepts, when every row tells its order's price.
LEMMA AskIsTaken ==
    ASSUME NEW rs \in Seq(LiveRows), NEW i \in Rows(rs, "buy"), rs[i].type = "market",
           \A k \in DOMAIN rs : rs[k].chain = rs[k].price,
           NEW ask \in Listed(rs, "sell", "yes"), rs[ask].price <= rs[i].price
    PROVE  \E n \in DOMAIN MatchOrders(rs) :
             LET m == MatchOrders(rs)[n] IN
             /\ m.buy = i /\ m.sell \in Rows(rs, "sell")
             /\ rs[m.sell].price <= rs[i].price
             /\ m.price = rs[m.sell].price
  <1>1. DOMAIN rs = 1..Len(rs)
    BY LenProperties
  <1>2. /\ i \in 1..Len(rs) /\ ask \in 1..Len(rs) /\ ask \in Rows(rs, "sell")
        /\ rs[ask].type = "limit" /\ RemainingSize(rs[ask]) > 0
        /\ rs[i].status \in OpenStatuses
    BY <1>1 DEF Rows, Listed
  <1>3. /\ rs[i].token = "yes" /\ rs[ask].token = "yes"
        /\ RemainingSize(rs[i]) \in Nat \ {0}
        /\ rs[i].price \in Nat \ {0} /\ rs[ask].price \in Nat \ {0}
        /\ rs[ask].price <= BASIS_POINTS
    BY <1>2, RowFields, QuotedNat
  <1>4. CanMatch(rs[i], rs[ask])
    <2>1. PICK s : s = Slippage(rs[i].price)
      OBVIOUS
    <2>2. s \in Nat
      BY <1>3, <2>1 DEF Slippage
    <2>3. rs[ask].price <= 10000
      BY <1>3 DEF BASIS_POINTS
    <2> QED
      BY <1>2, <1>3, <2>1, <2>2, <2>3 DEF CanMatch
  <1>5. ask \in Partners(rs, i)
    BY <1>2, <1>3, <1>4 DEF Partners
  <1>6. PICK n \in DOMAIN MatchOrders(rs) : MatchOrders(rs)[n].buy = i
    BY <1>3, <1>5, MatchesAre DEF MatchedBest
  <1>7. PICK m : m = MatchOrders(rs)[n]
    OBVIOUS
  <1>8. /\ m.buy = i /\ m.sell \in Partners(rs, i) /\ m.price = MatchPrice(rs[i], rs[m.sell])
        /\ ask = m.sell \/ Better(rs, m.sell, ask)
    BY <1>5, <1>6, <1>7, MatchesAre DEF MatchedBest
  <1>9. m.sell \in Rows(rs, "sell") /\ m.sell \in 1..Len(rs) /\ rs[m.sell].side = "sell"
    BY <1>1, <1>8 DEF Partners, Rows
  <1>10. rs[m.sell].price \in Nat
    BY <1>9, RowFields, QuotedNat
  <1>11. rs[m.sell].price <= rs[ask].price
    BY <1>3, <1>8, <1>9, <1>10 DEF Better
  <1>12. m.price = rs[m.sell].price
    BY <1>2, <1>8 DEF MatchPrice
  <1> QED
    BY <1>3, <1>6, <1>7, <1>8, <1>9, <1>10, <1>11, <1>12

\* Whatever the book that a page reads, whatever the amount and the leverage: the
\* order it places is paid by what the trader gave.
THEOREM BuysAreAffordable == MarketOrdersSpec => []BuySpendsItsAmount
  <1>1. MarketInv => BuySpendsItsAmount
    BY DEF MarketInv, BuyerInv, Affords, BuySpendsItsAmount
  <1> QED
    BY <1>1, MarketStarts, MarketStep, PTL DEF MarketOrdersSpec

\* Whatever other traders do between the page's reading and the matching: while
\* an ask the page could pay rests, the waiting buy is given one it may buy from.
THEOREM AsksAreTaken == MarketOrdersSpec => []QuotedAskIsTaken
  <1>1. MarketInv => QuotedAskIsTaken
    <2> SUFFICES ASSUME MarketInv, NEW t \in Traders,
                        buyer[t].row > 0, buyer[t].side = "buy",
                        book[buyer[t].row].status \in OpenStatuses,
                        \A i \in DOMAIN book : book[i].chain = book[i].price,
                        NEW ask \in Listed(book, "sell", "yes"),
                        book[ask].price <= buyer[t].price
                 PROVE  \E n \in DOMAIN MatchOrders(book) :
                          LET m == MatchOrders(book)[n] IN
                          m.buy = buyer[t].row /\ Accepted(m)
      BY DEF QuotedAskIsTaken
    <2>1. PICK i : i = buyer[t].row
      OBVIOUS
    <2>2. book \in Seq(LiveRows) /\ DOMAIN book = 1..Len(book)
      BY LenProperties DEF MarketInv
    <2>3. /\ i \in 1..Len(book) /\ book[i].side = "buy" /\ book[i].type = "market"
          /\ book[i].price = buyer[t].price /\ book[i].status \in OpenStatuses
      BY <2>1 DEF MarketInv, BuyerInv
    <2>4. i \in Rows(book, "buy")
      BY <2>2, <2>3 DEF Rows
    <2>5. PICK n \in DOMAIN MatchOrders(book) :
            LET m == MatchOrders(book)[n] IN
            /\ m.buy = i /\ m.sell \in Rows(book, "sell")
            /\ book[m.sell].price <= book[i].price
            /\ m.price = book[m.sell].price
      BY <2>2, <2>3, <2>4, AskIsTaken
    <2>6. PICK m : m = MatchOrders(book)[n]
      OBVIOUS
    <2>7. /\ m.buy = i /\ m.sell \in Rows(book, "sell") /\ m.price = book[m.sell].price
          /\ book[m.sell].price <= book[i].price
      BY <2>5, <2>6
    <2>8. m.sell \in 1..Len(book)
      BY <2>2, <2>7 DEF Rows
    <2>9. /\ book[i].chain = book[i].price /\ book[m.sell].chain = book[m.sell].price
          /\ book[i].price \in Nat /\ book[m.sell].price \in Nat
      BY <2>2, <2>3, <2>8, RowFields, QuotedNat
    <2>10. KeeperPrice(m) = book[m.sell].price
      BY <2>3, <2>7, <2>9 DEF KeeperPrice
    <2>11. Accepted(m)
      BY <2>7, <2>9, <2>10 DEF Accepted
    <2> QED
      BY <2>1, <2>6, <2>7, <2>11
  <1> QED
    BY <1>1, MarketStarts, MarketStep, PTL DEF MarketOrdersSpec
-----------------------------------------------------------------------------
(***************************************************************************)
(* Position rows: a row and the updates under way account together for     *)
(* what was bought and not sold.                                           *)
(***************************************************************************)
RowEntries == [known : BOOLEAN, shares : Nat, open : BOOLEAN]
RowUpdates ==
    [do : Jobs, of : Types, at : {"read", "add", "create", "reduce", "verify", "close", "open", "closed",
                              "gone"},
     copy : RowEntries, stale : BOOLEAN, n : Nat]

JobStages(do) ==
    CASE do = "buy" -> {"read", "add", "create"}
      [] do = "sell" -> {"read", "reduce"}
      [] do = "sync" -> {"read", "open", "closed", "gone"}
      [] OTHER -> {"read", "verify", "close"}

\* The trades that the updates of a kind are about, each trade having one update.
TradesOf(jobs, do, p) == {u.n : u \in {v \in jobs : v.do = do /\ v.of = p}}
TradesDiffer(jobs) ==
    \A u, v \in jobs : u.do \in {"buy", "sell"} /\ u.do = v.do /\ u.of = v.of /\ u.n = v.n => u = v

\* What an update that is not stale holds is what the row says.
UpToDate(u, line) ==
    /\ u.at \in {"add", "create", "reduce", "open", "closed"} => u.copy.shares = line.shares
    /\ u.at \in {"create", "close", "closed", "gone"} => line.shares = 0
    /\ u.at = "add" => line.shares > 0

\* The shares of the row, what is to be added and what is to be taken off.
Balanced(p, line, jobs) ==
    line.shares + Cardinality(TradesOf(jobs, "buy", p)) = owned[p] + Cardinality(TradesOf(jobs, "sell", p))

RowAccounted(p) ==
    /\ Balanced(p, entries[p], updates)
    /\ entries[p].open <=> entries[p].shares > 0
    /\ \A u \in updates : u.of = p /\ ~u.stale => UpToDate(u, entries[p])

JobInOrder(u) ==
    /\ u.at \in JobStages(u.do)
    /\ u.at = "reduce" => u.copy.shares > 0
    /\ u.do = "buy" => u.n < trades
    /\ u.do = "sell" => u.n <= trades
    /\ u.do = "sell" /\ u.n = trades => u.of = "leveraged" /\ closing = 0

AccountsInv ==
    /\ bought \in [Types -> Nat] /\ owned \in [Types -> Nat] /\ closing \in {0, 1} /\ trades \in Nat
    /\ owned["spot"] <= bought["spot"]
    /\ final => closing = 0 /\ \A p \in Types : owned[p] = 0
    /\ ~final => bought["leveraged"] + closing = owned["leveraged"]

UpdatesInv ==
    /\ updates \subseteq RowUpdates
    /\ \A u \in updates : JobInOrder(u)
    /\ TradesDiffer(updates)

RowsInv ==
    /\ AccountsInv /\ UpdatesInv
    /\ entries \in [Types -> RowEntries]
    /\ \A p \in Types \ (blurred \cup legacy) : RowAccounted(p)

\* One job after it may have become stale.
Staled(v, p, kinds) == IF v.of = p /\ v.at # "read" /\ v.do \in kinds THEN [v EXCEPT !.stale = TRUE] ELSE v

\* Updates become stale one by one.
LEMMA StaleIs ==
    ASSUME NEW p, NEW jobs, NEW kinds
    PROVE  Stale(p, jobs, kinds) = {Staled(v, p, kinds) : v \in jobs}
  BY DEF Stale, Staled

\* Becoming stale changes nothing else of an update.
LEMMA StaledKeeps ==
    ASSUME NEW v \in RowUpdates, NEW p, NEW kinds
    PROVE  LET w == Staled(v, p, kinds) IN
           /\ w \in RowUpdates
           /\ w.do = v.do /\ w.of = v.of /\ w.at = v.at /\ w.copy = v.copy /\ w.n = v.n
           /\ w.stale = (v.stale \/ (v.of = p /\ v.at # "read" /\ v.do \in kinds))
  <1>1. CASE v.of = p /\ v.at # "read" /\ v.do \in kinds
    <2>1. Staled(v, p, kinds) = [v EXCEPT !.stale = TRUE]
      BY <1>1 DEF Staled
    <2> QED
      BY <1>1, <2>1 DEF RowUpdates
  <1>2. CASE ~(v.of = p /\ v.at # "read" /\ v.do \in kinds)
    <2>1. Staled(v, p, kinds) = v
      BY <1>2 DEF Staled
    <2> QED
      BY <1>2, <2>1 DEF RowUpdates
  <1> QED
    BY <1>1, <1>2

\* Updates that become stale are the same updates, about the same trades.
LEMMA StaleJobs ==
    ASSUME NEW p, NEW jobs \in SUBSET RowUpdates, NEW kinds
    PROVE  /\ Stale(p, jobs, kinds) \subseteq RowUpdates
           /\ \A w \in Stale(p, jobs, kinds) :
                \E v \in jobs : /\ w.do = v.do /\ w.of = v.of /\ w.at = v.at /\ w.copy = v.copy /\ w.n = v.n
                                /\ w.stale = (v.stale \/ (v.of = p /\ v.at # "read" /\ v.do \in kinds))
           /\ TradesDiffer(jobs) => TradesDiffer(Stale(p, jobs, kinds))
           /\ \A do, q : TradesOf(Stale(p, jobs, kinds), do, q) = TradesOf(jobs, do, q)
  <1> DEFINE made == Stale(p, jobs, kinds)
  <1>1. \A v \in jobs : Staled(v, p, kinds) \in made
    BY StaleIs
  <1>2. \A w \in made : \E v \in jobs : w = Staled(v, p, kinds)
    BY StaleIs
  <1>3. \A v \in jobs : LET w == Staled(v, p, kinds) IN
           /\ w \in RowUpdates
           /\ w.do = v.do /\ w.of = v.of /\ w.at = v.at /\ w.copy = v.copy /\ w.n = v.n
           /\ w.stale = (v.stale \/ (v.of = p /\ v.at # "read" /\ v.do \in kinds))
    BY StaledKeeps
  <1> HIDE DEF made
  <1>4. made \subseteq RowUpdates
    BY <1>2, <1>3
  <1>5. \A w \in made :
                \E v \in jobs : /\ w.do = v.do /\ w.of = v.of /\ w.at = v.at /\ w.copy = v.copy /\ w.n = v.n
                                /\ w.stale = (v.stale \/ (v.of = p /\ v.at # "read" /\ v.do \in kinds))
    BY <1>2, <1>3
  <1>6. ASSUME TradesDiffer(jobs) PROVE TradesDiffer(made)
    <2> SUFFICES ASSUME NEW u \in made, NEW v \in made,
                        u.do \in {"buy", "sell"}, u.do = v.do, u.of = v.of, u.n = v.n
                 PROVE  u = v
      BY DEF TradesDiffer
    <2>1. PICK x \in jobs : u = Staled(x, p, kinds)
      BY <1>2
    <2>2. PICK y \in jobs : v = Staled(y, p, kinds)
      BY <1>2
    <2>3. x.do = u.do /\ x.of = u.of /\ x.n = u.n /\ y.do = v.do /\ y.of = v.of /\ y.n = v.n
      BY <1>3, <2>1, <2>2
    <2>4. x = y
      BY <1>6, <2>3 DEF TradesDiffer
    <2> QED
      BY <2>1, <2>2, <2>4
  <1>7. \A do, q : TradesOf(made, do, q) = TradesOf(jobs, do, q)
    <2> SUFFICES ASSUME NEW do, NEW q PROVE TradesOf(made, do, q) = TradesOf(jobs, do, q)
      OBVIOUS
    <2>1. ASSUME NEW k \in TradesOf(made, do, q) PROVE k \in TradesOf(jobs, do, q)
      <3>1. PICK u \in made : u.do = do /\ u.of = q /\ u.n = k
        BY <2>1 DEF TradesOf
      <3> QED
        BY <1>5, <3>1 DEF TradesOf
    <2>2. ASSUME NEW k \in TradesOf(jobs, do, q) PROVE k \in TradesOf(made, do, q)
      <3>1. PICK u \in jobs : u.do = do /\ u.of = q /\ u.n = k
        BY <2>2 DEF TradesOf
      <3> QED
        BY <1>1, <1>3, <3>1 DEF TradesOf
    <2> QED
      BY <2>1, <2>2
  <1> QED
    BY <1>4, <1>5, <1>6, <1>7 DEF made

\* An update that ends takes its own trade off, and no other.
LEMMA TradesWithout ==
    ASSUME NEW jobs, NEW u \in jobs, NEW do, NEW q, TradesDiffer(jobs)
    PROVE  /\ TradesDiffer(jobs \ {u})
           /\ u.do # do \/ u.of # q => TradesOf(jobs \ {u}, do, q) = TradesOf(jobs, do, q)
           /\ u.do = do /\ u.of = q /\ do \in {"buy", "sell"}
                => u.n \in TradesOf(jobs, do, q) /\ TradesOf(jobs \ {u}, do, q) = TradesOf(jobs, do, q) \ {u.n}
  <1>1. TradesDiffer(jobs \ {u})
    BY DEF TradesDiffer
  <1>2. ASSUME u.do # do \/ u.of # q PROVE TradesOf(jobs \ {u}, do, q) = TradesOf(jobs, do, q)
    BY <1>2 DEF TradesOf
  <1>3. ASSUME u.do = do, u.of = q, do \in {"buy", "sell"}
        PROVE  u.n \in TradesOf(jobs, do, q) /\ TradesOf(jobs \ {u}, do, q) = TradesOf(jobs, do, q) \ {u.n}
    <2>1. u.n \in TradesOf(jobs, do, q)
      BY <1>3 DEF TradesOf
    <2>2. ASSUME NEW v \in jobs, v.do = do, v.of = q, v.n = u.n PROVE v = u
      BY <1>3, <2>2 DEF TradesDiffer
    <2>3. ASSUME NEW k \in TradesOf(jobs \ {u}, do, q) PROVE k \in TradesOf(jobs, do, q) \ {u.n}
      <3>1. PICK v \in jobs \ {u} : v.do = do /\ v.of = q /\ v.n = k
        BY <2>3 DEF TradesOf
      <3> QED
        BY <2>2, <3>1 DEF TradesOf
    <2>4. ASSUME NEW k \in TradesOf(jobs, do, q) \ {u.n} PROVE k \in TradesOf(jobs \ {u}, do, q)
      <3>1. PICK v \in jobs : v.do = do /\ v.of = q /\ v.n = k
        BY <2>4 DEF TradesOf
      <3>2. v # u
        BY <2>4, <3>1
      <3> QED
        BY <3>1, <3>2 DEF TradesOf
    <2> QED
      BY <2>1, <2>3, <2>4
  <1> QED
    BY <1>1, <1>2, <1>3

\* An update that moves on keeps its trade.
LEMMA TradesMoved ==
    ASSUME NEW jobs, NEW u \in jobs, NEW w, w.do = u.do, w.of = u.of, w.n = u.n, TradesDiffer(jobs)
    PROVE  /\ TradesDiffer((jobs \ {u}) \cup {w})
           /\ \A do, q : TradesOf((jobs \ {u}) \cup {w}, do, q) = TradesOf(jobs, do, q)
  <1>1. TradesDiffer((jobs \ {u}) \cup {w})
    BY DEF TradesDiffer
  <1>2. ASSUME NEW do, NEW q PROVE TradesOf((jobs \ {u}) \cup {w}, do, q) = TradesOf(jobs, do, q)
    BY DEF TradesOf
  <1> QED
    BY <1>1, <1>2

\* A new update adds its trade.
LEMMA TradesWith ==
    ASSUME NEW jobs, NEW w, TradesDiffer(jobs), NEW do, NEW q,
           w.do \notin {"buy", "sell"} \/ w.n \notin TradesOf(jobs, w.do, w.of)
    PROVE  /\ TradesDiffer(jobs \cup {w})
           /\ w.do = do /\ w.of = q => TradesOf(jobs \cup {w}, do, q) = TradesOf(jobs, do, q) \cup {w.n}
           /\ w.do # do \/ w.of # q => TradesOf(jobs \cup {w}, do, q) = TradesOf(jobs, do, q)
  <1>1. TradesDiffer(jobs \cup {w})
    BY DEF TradesDiffer, TradesOf
  <1>2. ASSUME w.do = do, w.of = q
        PROVE  TradesOf(jobs \cup {w}, do, q) = TradesOf(jobs, do, q) \cup {w.n}
    BY <1>2 DEF TradesOf
  <1>3. ASSUME w.do # do \/ w.of # q
        PROVE  TradesOf(jobs \cup {w}, do, q) = TradesOf(jobs, do, q)
    BY <1>3 DEF TradesOf
  <1> QED
    BY <1>1, <1>2, <1>3

\* There are finitely many trades.
LEMMA TradesFinite ==
    ASSUME AccountsInv, UpdatesInv, NEW do \in {"buy", "sell"}, NEW q
    PROVE  /\ IsFiniteSet(TradesOf(updates, do, q))
           /\ Cardinality(TradesOf(updates, do, q)) \in Nat
           /\ \A k \in TradesOf(updates, do, q) : k \in Nat /\ k <= trades
  <1>1. ASSUME NEW k \in TradesOf(updates, do, q) PROVE k \in Nat /\ k <= trades
    <2>1. PICK u \in updates : u.do = do /\ u.n = k
      BY <1>1 DEF TradesOf
    <2>2. u \in RowUpdates /\ JobInOrder(u) /\ trades \in Nat
      BY <2>1 DEF UpdatesInv, AccountsInv
    <2>3. u.n \in Nat
      BY <2>2 DEF RowUpdates
    <2>4. u.n <= trades
      BY <2>1, <2>2, <2>3 DEF JobInOrder
    <2> QED
      BY <2>1, <2>3, <2>4
  <1>2. TradesOf(updates, do, q) \subseteq 0..trades
    BY <1>1 DEF AccountsInv
  <1>3. IsFiniteSet(0..trades)
    BY FS_Interval DEF AccountsInv
  <1> QED
    BY <1>1, <1>2, <1>3, FS_Subset, FS_CardinalityType

\* An update in order stays so.
LEMMA InOrderKept ==
    ASSUME AccountsInv, NEW v \in RowUpdates, JobInOrder(v), trades' \in Nat,
           \/ trades' > trades
           \/ trades' = trades /\ (closing = 0 => closing' = 0),
           NEW w, w.do = v.do, w.of = v.of, w.n = v.n, w.at = v.at, w.copy = v.copy
    PROVE  JobInOrder(w)'
  <1>1. v.n \in Nat /\ trades \in Nat
    BY DEF RowUpdates, AccountsInv
  <1>2. w.at \in JobStages(w.do) /\ (w.at = "reduce" => w.copy.shares > 0)
    BY DEF JobInOrder
  <1>3. /\ w.do = "buy" => w.n < trades'
        /\ w.do = "sell" => w.n <= trades'
        /\ w.do = "sell" /\ w.n = trades' => w.of = "leveraged" /\ closing' = 0
    BY <1>1 DEF JobInOrder
  <1> QED
    BY <1>2, <1>3 DEF JobInOrder

\* The updates after a write of a row.
LEMMA JobsWritten ==
    ASSUME AccountsInv, UpdatesInv, NEW jobs \in SUBSET updates, NEW p, NEW kinds,
           updates' = Stale(p, jobs, kinds), TradesDiffer(jobs), trades' \in Nat,
           \/ trades' > trades
           \/ trades' = trades /\ (closing = 0 => closing' = 0)
    PROVE  /\ UpdatesInv'
           /\ \A do, q : TradesOf(updates', do, q) = TradesOf(jobs, do, q)
           /\ \A w \in updates' :
                \E v \in jobs : /\ w.do = v.do /\ w.of = v.of /\ w.at = v.at /\ w.copy = v.copy /\ w.n = v.n
                                /\ w.stale = (v.stale \/ (v.of = p /\ v.at # "read" /\ v.do \in kinds))
  <1>1. jobs \in SUBSET RowUpdates
    BY DEF UpdatesInv
  <1>2. /\ updates' \subseteq RowUpdates /\ TradesDiffer(updates')
        /\ \A do, q : TradesOf(updates', do, q) = TradesOf(jobs, do, q)
        /\ \A w \in updates' :
                \E v \in jobs : /\ w.do = v.do /\ w.of = v.of /\ w.at = v.at /\ w.copy = v.copy /\ w.n = v.n
                                /\ w.stale = (v.stale \/ (v.of = p /\ v.at # "read" /\ v.do \in kinds))
    BY <1>1, StaleJobs
  <1>3. ASSUME NEW w \in updates' PROVE JobInOrder(w)'
    <2>1. PICK v \in jobs : w.do = v.do /\ w.of = v.of /\ w.at = v.at /\ w.copy = v.copy /\ w.n = v.n
      BY <1>2
    <2>2. v \in RowUpdates /\ JobInOrder(v)
      BY <1>1 DEF UpdatesInv
    <2> QED
      BY <2>1, <2>2, InOrderKept
  <1>4. UpdatesInv'
    BY <1>2, <1>3 DEF UpdatesInv, TradesDiffer
  <1> QED
    BY <1>2, <1>4

\* A row that nobody writes, of trades that nobody settles, stays accounted for.
LEMMA RowUntouched ==
    ASSUME NEW q \in Types, RowAccounted(q), entries'[q] = entries[q], owned'[q] = owned[q],
           TradesOf(updates', "buy", q) = TradesOf(updates, "buy", q),
           TradesOf(updates', "sell", q) = TradesOf(updates, "sell", q),
           \A w \in updates' : w.of = q /\ ~w.stale => UpToDate(w, entries[q])
    PROVE  RowAccounted(q)'
  <1>1. Balanced(q, entries[q], updates)'
    BY DEF RowAccounted, Balanced, TradesOf
  <1>2. (entries[q].open <=> entries[q].shares > 0)'
    BY DEF RowAccounted
  <1>3. (\A w \in updates : w.of = q /\ ~w.stale => UpToDate(w, entries[q]))'
    BY DEF UpToDate
  <1> QED
    BY <1>1, <1>2, <1>3 DEF RowAccounted

\* A reading, or a row just read, says nothing of the row that could be wrong.
LEMMA ReadingsHold ==
    ASSUME NEW w, NEW line, w.at \in {"read", "verify"}
    PROVE  UpToDate(w, line)
  BY DEF UpToDate

\* What has become stale in a row's other updates, others' rows being left alone.
LEMMA OthersUpToDate ==
    ASSUME UpdatesInv, NEW q, NEW line,
           \A v \in updates : v.of = q /\ ~v.stale => UpToDate(v, line),
           NEW w, NEW v \in updates, w.of = v.of, w.at = v.at, w.copy = v.copy, v.stale => w.stale
    PROVE  w.of = q /\ ~w.stale => UpToDate(w, line)
  <1>1. v.stale \in BOOLEAN
    BY DEF UpdatesInv, RowUpdates
  <1>2. ASSUME w.of = q, ~w.stale PROVE UpToDate(w, line)
    <2>1. UpToDate(v, line)
      BY <1>1, <1>2
    <2> QED
      BY <2>1 DEF UpToDate
  <1> QED
    BY <1>2

\* An update writes its row: the row must balance without it.
LEMMA RowWritten ==
    ASSUME RowsInv, NEW u \in updates, NEW line \in RowEntries,
           entries' = [entries EXCEPT ![u.of] = line],
           updates' = Stale(u.of, updates \ {u}, Jobs),
           UNCHANGED <<OnChain, trades>>, blurred \subseteq blurred',
           u.of \notin blurred' \cup legacy
             => Balanced(u.of, line, updates \ {u}) /\ (line.open <=> line.shares > 0)
    PROVE  RowsInv'
  <1> DEFINE jobs == updates \ {u}
  <1>1. AccountsInv /\ AccountsInv'
    BY DEF RowsInv, AccountsInv, OnChain
  <1>2. /\ UpdatesInv /\ jobs \in SUBSET updates /\ TradesDiffer(updates)
        /\ u \in RowUpdates /\ trades' = trades /\ closing' = closing /\ trades \in Nat
    BY DEF RowsInv, UpdatesInv, AccountsInv, OnChain
  <1>3. u.of \in Types /\ entries \in [Types -> RowEntries]
    BY <1>2 DEF RowUpdates, RowsInv
  <1>4. /\ TradesDiffer(jobs)
        /\ \A q : q # u.of => /\ TradesOf(jobs, "buy", q) = TradesOf(updates, "buy", q)
                              /\ TradesOf(jobs, "sell", q) = TradesOf(updates, "sell", q)
    BY <1>2, TradesWithout
  <1>5. /\ UpdatesInv'
        /\ \A do, q : TradesOf(updates', do, q) = TradesOf(jobs, do, q)
        /\ \A w \in updates' :
             \E v \in jobs : /\ w.do = v.do /\ w.of = v.of /\ w.at = v.at /\ w.copy = v.copy /\ w.n = v.n
                             /\ w.stale = (v.stale \/ (v.of = u.of /\ v.at # "read" /\ v.do \in Jobs))
    BY <1>1, <1>2, <1>4, JobsWritten
  <1> HIDE DEF jobs
  <1>6. entries' \in [Types -> RowEntries]
    BY <1>3
  <1>7. ASSUME NEW q \in Types \ (blurred \cup legacy)' PROVE RowAccounted(q)'
    <2>1. q \notin blurred \cup legacy
      BY DEF OnChain
    <2>2. RowAccounted(q) /\ q \in Types
      BY <2>1 DEF RowsInv
    <2>3. CASE q # u.of
      <3>1. /\ entries'[q] = entries[q] /\ owned'[q] = owned[q]
            /\ TradesOf(updates', "buy", q) = TradesOf(updates, "buy", q)
            /\ TradesOf(updates', "sell", q) = TradesOf(updates, "sell", q)
        BY <1>3, <1>4, <1>5, <2>3 DEF OnChain
      <3>2. \A v \in updates : v.of = q /\ ~v.stale => UpToDate(v, entries[q])
        BY <2>2 DEF RowAccounted
      <3>3. \A w \in updates' : w.of = q /\ ~w.stale => UpToDate(w, entries[q])
        <4> SUFFICES ASSUME NEW w \in updates' PROVE w.of = q /\ ~w.stale => UpToDate(w, entries[q])
          OBVIOUS
        <4>1. PICK v \in updates : w.of = v.of /\ w.at = v.at /\ w.copy = v.copy /\ (v.stale => w.stale)
          BY <1>2, <1>5
        <4> QED
          BY <1>2, <3>2, <4>1, OthersUpToDate
      <3> QED
        BY <2>2, <3>1, <3>3, RowUntouched
    <2>4. CASE q = u.of
      <3>1. entries'[q] = line
        BY <1>3, <2>4
      <3>2. Balanced(q, line, jobs) /\ (line.open <=> line.shares > 0)
        BY <2>1, <2>4 DEF jobs, OnChain
      <3>3. Balanced(q, entries[q], updates)'
        BY <1>5, <3>1, <3>2 DEF Balanced, OnChain
      <3>4. ASSUME NEW w \in updates', w.of = q, ~w.stale PROVE UpToDate(w, line)
        <4>1. PICK v \in jobs : /\ w.of = v.of /\ w.at = v.at
                                /\ w.stale = (v.stale \/ (v.of = u.of /\ v.at # "read" /\ v.do \in Jobs))
          BY <1>5, <3>4
        <4>2. v.do \in Jobs
          BY <1>2 DEF UpdatesInv, RowUpdates
        <4>3. w.at = "read"
          BY <2>4, <3>4, <4>1, <4>2
        <4> QED
          BY <4>3, ReadingsHold
      <3>5. (\A w \in updates : w.of = q /\ ~w.stale => UpToDate(w, entries[q]))'
        BY <3>1, <3>4 DEF UpToDate
      <3> QED
        BY <3>1, <3>2, <3>3, <3>5 DEF RowAccounted
    <2> QED
      BY <2>3, <2>4
  <1> QED
    BY <1>1, <1>5, <1>6, <1>7 DEF RowsInv

\* The rows being left alone, they are accounted for while what is to be added
\* and taken off changes with what is owned, and what is read is what they say.
LEMMA RowsCarried ==
    ASSUME RowsInv, AccountsInv', UpdatesInv', UNCHANGED <<entries, legacy>>, blurred \subseteq blurred',
           \A q \in Types \ (blurred' \cup legacy) :
             Balanced(q, entries[q], updates) => Balanced(q, entries[q], updates)',
           \A w \in updates' :
             \/ w.at \in {"read", "verify"}
             \/ w.of \notin blurred' \cup legacy /\ Balanced(w.of, entries[w.of], updates)
                  /\ (entries[w.of].open <=> entries[w.of].shares > 0)
                    => UpToDate(w, entries[w.of])
             \/ \E v \in updates : w.of = v.of /\ w.at = v.at /\ w.copy = v.copy /\ (v.stale => w.stale)
    PROVE  RowsInv'
  <1>1. entries' \in [Types -> RowEntries]
    BY DEF RowsInv
  <1>2. ASSUME NEW q \in Types \ (blurred \cup legacy)' PROVE RowAccounted(q)'
    <2>1. q \in Types \ (blurred' \cup legacy) /\ q \notin blurred \cup legacy
      OBVIOUS
    <2>2. RowAccounted(q)
      BY <2>1 DEF RowsInv
    <2>3. Balanced(q, entries[q], updates) /\ (entries[q].open <=> entries[q].shares > 0)
      BY <2>2 DEF RowAccounted
    <2>4. Balanced(q, entries[q], updates)'
      BY <2>1, <2>3
    <2>5. ASSUME NEW w \in updates', w.of = q, ~w.stale PROVE UpToDate(w, entries[q])
      <3>1. CASE w.at \in {"read", "verify"}
        BY <3>1, ReadingsHold
      <3>2. CASE w.of \notin blurred' \cup legacy /\ Balanced(w.of, entries[w.of], updates)
                  /\ (entries[w.of].open <=> entries[w.of].shares > 0)
                    => UpToDate(w, entries[w.of])
        BY <2>1, <2>3, <2>5, <3>2
      <3>3. ASSUME NEW v \in updates, w.of = v.of, w.at = v.at, w.copy = v.copy, v.stale => w.stale
            PROVE  UpToDate(w, entries[q])
        <4>1. UpdatesInv /\ \A x \in updates : x.of = q /\ ~x.stale => UpToDate(x, entries[q])
          BY <2>2 DEF RowAccounted, RowsInv
        <4>2. v.stale \in BOOLEAN /\ (~v.stale)
          BY <2>5, <3>3, <4>1 DEF UpdatesInv, RowUpdates
        <4>3. UpToDate(v, entries[q])
          BY <2>5, <3>3, <4>1, <4>2
        <4> QED
          BY <3>3, <4>3 DEF UpToDate
      <3> QED
        BY <3>1, <3>2, <3>3
    <2>6. (\A w \in updates : w.of = q /\ ~w.stale => UpToDate(w, entries[q]))'
      BY <2>5 DEF UpToDate
    <2>7. (entries[q].open <=> entries[q].shares > 0)'
      BY <2>3
    <2> QED
      BY <2>4, <2>6, <2>7 DEF RowAccounted
  <1> QED
    BY <1>1, <1>2 DEF RowsInv

\* The stages of the updates.
LEMMA StagesAre ==
    ASSUME NEW do \in Jobs, NEW at \in JobStages(do)
    PROVE  at \in {"read", "add", "create", "reduce", "verify", "close", "open", "closed", "gone"}
  <1>1. CASE do = "buy"
    BY <1>1 DEF JobStages
  <1>2. CASE do = "sell"
    BY <1>2 DEF JobStages
  <1>3. CASE do = "sync"
    BY <1>3 DEF JobStages
  <1>4. CASE do \in {"view", "cleanup"}
    BY <1>4 DEF JobStages
  <1> QED
    BY <1>1, <1>2, <1>3, <1>4 DEF Jobs

\* What an update holds after a reading.
ReadAs(u, at) == [u EXCEPT !.at = at, !.copy = entries[u.of]]

\* An update reads its row, and settles nothing.
LEMMA RowRead ==
    ASSUME RowsInv, NEW u \in updates, NEW at \in JobStages(u.do), Moves(u, at, entries[u.of]),
           UNCHANGED <<OnChain, entries, trades>>, blurred \subseteq blurred',
           at = "reduce" => entries[u.of].shares > 0,
           u.of \notin blurred' \cup legacy /\ Balanced(u.of, entries[u.of], updates)
             /\ (entries[u.of].open <=> entries[u.of].shares > 0)
               => UpToDate(ReadAs(u, at), entries[u.of])
    PROVE  RowsInv'
  <1>1. PICK w : w = ReadAs(u, at)
    OBVIOUS
  <1>2. /\ AccountsInv /\ UpdatesInv /\ u \in RowUpdates /\ u.of \in Types /\ u.do \in Jobs
        /\ entries[u.of] \in RowEntries /\ updates \subseteq RowUpdates /\ TradesDiffer(updates)
    BY DEF RowsInv, UpdatesInv, RowUpdates
  <1>3. at \in {"read", "add", "create", "reduce", "verify", "close", "open", "closed", "gone"}
    BY <1>2, StagesAre
  <1>4. /\ w \in RowUpdates /\ w.do = u.do /\ w.of = u.of /\ w.n = u.n
        /\ w.at = at /\ w.copy = entries[u.of]
    BY <1>1, <1>2, <1>3 DEF ReadAs, RowUpdates
  <1>5. updates' = (updates \ {u}) \cup {w}
    BY <1>1 DEF Moves, ReadAs
  <1>6. TradesDiffer(updates') /\ \A do, q : TradesOf(updates', do, q) = TradesOf(updates, do, q)
    BY <1>2, <1>4, <1>5, TradesMoved
  <1>7. AccountsInv'
    BY <1>2 DEF AccountsInv, OnChain
  <1>8. UpdatesInv'
    <2>1. JobInOrder(w)'
      BY <1>2, <1>4 DEF JobInOrder, OnChain, UpdatesInv
    <2>2. ASSUME NEW v \in updates PROVE JobInOrder(v)'
      BY <1>2 DEF JobInOrder, OnChain, UpdatesInv
    <2> QED
      BY <1>2, <1>4, <1>5, <1>6, <2>1, <2>2 DEF UpdatesInv, TradesDiffer
  <1>9. ASSUME NEW q \in Types, Balanced(q, entries[q], updates) PROVE Balanced(q, entries[q], updates)'
    BY <1>6, <1>9 DEF Balanced, OnChain
  <1>10. ASSUME NEW v \in updates' PROVE
             \/ v.at \in {"read", "verify"}
             \/ v.of \notin blurred' \cup legacy /\ Balanced(v.of, entries[v.of], updates)
                  /\ (entries[v.of].open <=> entries[v.of].shares > 0)
                    => UpToDate(v, entries[v.of])
             \/ \E x \in updates : v.of = x.of /\ v.at = x.at /\ v.copy = x.copy /\ (x.stale => v.stale)
    BY <1>1, <1>4, <1>5
  <1> QED
    BY <1>7, <1>8, <1>9, <1>10, RowsCarried DEF OnChain

\* An update that ends leaves nothing to settle, or its row is no longer followed.
LEMMA RowLeft ==
    ASSUME RowsInv, NEW u \in updates, Ends(u),
           UNCHANGED <<OnChain, entries, trades>>, blurred \subseteq blurred',
           u.do \in {"buy", "sell"} => u.of \in blurred'
    PROVE  RowsInv'
  <1>1. AccountsInv /\ AccountsInv' /\ UpdatesInv /\ TradesDiffer(updates) /\ updates' = updates \ {u}
    BY DEF RowsInv, UpdatesInv, AccountsInv, OnChain, Ends
  <1>2. UpdatesInv'
    BY <1>1, TradesWithout DEF UpdatesInv, JobInOrder, OnChain, TradesDiffer
  <1>3. ASSUME NEW q \in Types \ (blurred' \cup legacy), Balanced(q, entries[q], updates)
        PROVE  Balanced(q, entries[q], updates)'
    <2>1. /\ TradesOf(updates', "buy", q) = TradesOf(updates, "buy", q)
          /\ TradesOf(updates', "sell", q) = TradesOf(updates, "sell", q)
      BY <1>1, <1>3, TradesWithout
    <2> QED
      BY <1>3, <2>1 DEF Balanced, OnChain
  <1> QED
    BY <1>1, <1>2, <1>3, RowsCarried DEF OnChain

\* A new update reads first.
LEMMA UpdateIs ==
    ASSUME NEW do \in Jobs, NEW p \in Types, trades \in Nat
    PROVE  /\ Update(do, p) \in RowUpdates
           /\ Update(do, p).do = do /\ Update(do, p).of = p /\ Update(do, p).n = trades
           /\ Update(do, p).at = "read" /\ ~Update(do, p).stale
           /\ "read" \in JobStages(do)
  <1>1. NoEntry \in RowEntries
    BY DEF NoEntry, RowEntries
  <1>2. "read" \in JobStages(do)
    BY DEF JobStages, Jobs
  <1> QED
    BY <1>1, <1>2 DEF Update, RowUpdates

\* An update that settles nothing begins.
LEMMA JobBegins ==
    ASSUME RowsInv, NEW do \in {"view", "cleanup", "sync"}, NEW p \in Types, Begins(do, p),
           UNCHANGED <<OnChain, entries, blurred, trades, rowFaults>>
    PROVE  RowsInv'
  <1>1. PICK w : w = Update(do, p)
    OBVIOUS
  <1>2. /\ AccountsInv /\ AccountsInv' /\ UpdatesInv /\ TradesDiffer(updates) /\ trades \in Nat
        /\ updates' = updates \cup {w}
    BY <1>1 DEF RowsInv, UpdatesInv, AccountsInv, OnChain, Begins
  <1>3. w \in RowUpdates /\ w.do = do /\ w.of = p /\ w.at = "read" /\ "read" \in JobStages(do)
    BY <1>1, <1>2, UpdateIs DEF Jobs
  <1>4. /\ TradesDiffer(updates')
        /\ \A q : /\ TradesOf(updates', "buy", q) = TradesOf(updates, "buy", q)
                  /\ TradesOf(updates', "sell", q) = TradesOf(updates, "sell", q)
    <2>1. w.do \notin {"buy", "sell"} /\ TradesDiffer(updates)
      BY <1>2, <1>3
    <2>2. TradesDiffer(updates \cup {w})
      BY <2>1 DEF TradesDiffer
    <2>3. ASSUME NEW q, NEW kind \in {"buy", "sell"}
          PROVE  TradesOf(updates \cup {w}, kind, q) = TradesOf(updates, kind, q)
      BY <2>1 DEF TradesOf
    <2> QED
      BY <1>2, <2>2, <2>3
  <1>5. UpdatesInv'
    <2>1. JobInOrder(w)'
      BY <1>3 DEF JobInOrder
    <2>2. ASSUME NEW v \in updates PROVE JobInOrder(v)'
      BY <1>2 DEF JobInOrder, OnChain, UpdatesInv
    <2> QED
      BY <1>2, <1>3, <1>4, <2>1, <2>2 DEF UpdatesInv, TradesDiffer
  <1>6. ASSUME NEW q \in Types, Balanced(q, entries[q], updates) PROVE Balanced(q, entries[q], updates)'
    BY <1>4, <1>6 DEF Balanced, OnChain
  <1> QED
    BY <1>2, <1>3, <1>5, <1>6, RowsCarried DEF OnChain

\* A trade settles: no update is about it yet, and one begins.
LEMMA TradeBegins ==
    ASSUME AccountsInv, UpdatesInv, NEW jobs \in SUBSET RowUpdates, TradesDiffer(jobs),
           \A kind, q : TradesOf(jobs, kind, q) = TradesOf(updates, kind, q),
           \A v \in jobs : \E x \in updates :
             v.do = x.do /\ v.of = x.of /\ v.at = x.at /\ v.copy = x.copy /\ v.n = x.n,
           NEW do \in {"buy", "sell"}, NEW p \in Types, updates' = jobs \cup {Update(do, p)},
           do = "sell" => p = "spot" \/ closing = 1,
           trades' \in Nat,
           \/ trades' > trades
           \/ trades' = trades /\ do = "sell" /\ p = "leveraged" /\ closing = 1 /\ closing' = 0
    PROVE  /\ UpdatesInv'
           /\ Cardinality(TradesOf(updates', do, p)) = Cardinality(TradesOf(updates, do, p)) + 1
           /\ \A kind, q : kind # do \/ q # p => TradesOf(updates', kind, q) = TradesOf(updates, kind, q)
  <1>1. PICK w : w = Update(do, p)
    OBVIOUS
  <1>2. trades \in Nat /\ closing \in {0, 1} /\ do \in Jobs
    BY DEF AccountsInv, Jobs
  <1>3. /\ w \in RowUpdates /\ w.do = do /\ w.of = p /\ w.at = "read" /\ w.n = trades
        /\ "read" \in JobStages(do)
    BY <1>1, <1>2, UpdateIs
  <1>4. ASSUME NEW v \in updates, v.do = do, v.of = p PROVE v.n # trades
    <2>1. JobInOrder(v) /\ v \in RowUpdates
      BY DEF UpdatesInv
    <2> QED
      BY <1>2, <1>4, <2>1 DEF JobInOrder, RowUpdates
  <1>5. trades \notin TradesOf(updates, do, p)
    BY <1>4 DEF TradesOf
  <1>6. updates' = jobs \cup {w}
    BY <1>1
  <1>7. TradesDiffer(updates')
    BY <1>3, <1>5, <1>6 DEF TradesDiffer, TradesOf
  <1>8. TradesOf(updates', do, p) = TradesOf(updates, do, p) \cup {trades}
    <2>1. TradesOf(jobs \cup {w}, do, p) = TradesOf(jobs, do, p) \cup {trades}
      BY <1>3 DEF TradesOf
    <2> QED
      BY <1>6, <2>1
  <1>9. ASSUME NEW kind, NEW q, kind # do \/ q # p
        PROVE  TradesOf(updates', kind, q) = TradesOf(updates, kind, q)
    <2>1. TradesOf(jobs \cup {w}, kind, q) = TradesOf(jobs, kind, q)
      BY <1>3, <1>9 DEF TradesOf
    <2> QED
      BY <1>6, <2>1
  <1>10. Cardinality(TradesOf(updates', do, p)) = Cardinality(TradesOf(updates, do, p)) + 1
    <2>1. IsFiniteSet(TradesOf(updates, do, p))
      BY TradesFinite
    <2> QED
      BY <1>5, <1>8, <2>1, FS_AddElement
  <1>11. ASSUME NEW v \in updates' PROVE JobInOrder(v)'
    <2>1. CASE v = w
      BY <1>2, <1>3, <2>1 DEF JobInOrder
    <2>2. CASE v \in jobs
      <3>1. PICK x \in updates : v.do = x.do /\ v.of = x.of /\ v.at = x.at /\ v.copy = x.copy /\ v.n = x.n
        BY <2>2
      <3>2. x \in RowUpdates /\ JobInOrder(x)
        BY DEF UpdatesInv
      <3> QED
        BY <1>2, <3>1, <3>2, InOrderKept
    <2> QED
      BY <1>6, <2>1, <2>2
  <1>12. UpdatesInv'
    BY <1>3, <1>6, <1>7, <1>11 DEF UpdatesInv, TradesDiffer
  <1> QED
    BY <1>9, <1>10, <1>12

\* A purchase: the keeper has its share to add.
LEMMA KeepsOnBuy == ASSUME RowsInv, NEW p \in Types, Buy(p) PROVE RowsInv'
  <1>1. /\ AccountsInv /\ UpdatesInv /\ TradesDiffer(updates) /\ updates \in SUBSET RowUpdates
        /\ ~final /\ trades \in Nat /\ trades' = trades + 1
        /\ bought' = [bought EXCEPT ![p] = @ + 1] /\ owned' = [owned EXCEPT ![p] = @ + 1]
        /\ UNCHANGED <<closing, legacy, final, entries, blurred>>
        /\ bought \in [Types -> Nat] /\ owned \in [Types -> Nat]
    BY DEF RowsInv, UpdatesInv, AccountsInv, Buy, Happens
  <1>2. PICK jobs : jobs = Stale(p, updates, {"sync"})
    OBVIOUS
  <1>3. /\ jobs \in SUBSET RowUpdates /\ TradesDiffer(jobs)
        /\ \A kind, q : TradesOf(jobs, kind, q) = TradesOf(updates, kind, q)
        /\ \A v \in jobs : \E x \in updates :
             v.do = x.do /\ v.of = x.of /\ v.at = x.at /\ v.copy = x.copy /\ v.n = x.n /\ (x.stale => v.stale)
    <2>1. PICK kinds : kinds = {"sync"}
      OBVIOUS
    <2>2. jobs = Stale(p, updates, kinds) /\ updates \in SUBSET RowUpdates
      BY <1>1, <1>2, <2>1
    <2>3. /\ jobs \subseteq RowUpdates
          /\ \A w \in jobs :
               \E v \in updates : /\ w.do = v.do /\ w.of = v.of /\ w.at = v.at /\ w.copy = v.copy /\ w.n = v.n
                                 /\ w.stale = (v.stale \/ (v.of = p /\ v.at # "read" /\ v.do \in kinds))
          /\ TradesDiffer(updates) => TradesDiffer(jobs)
          /\ \A do, q : TradesOf(jobs, do, q) = TradesOf(updates, do, q)
      BY <2>2, StaleJobs
    <2> QED
      BY <1>1, <2>3
  <1>4. updates' = jobs \cup {Update("buy", p)}
    BY <1>2 DEF Buy
  <1>5. /\ UpdatesInv'
        /\ Cardinality(TradesOf(updates', "buy", p)) = Cardinality(TradesOf(updates, "buy", p)) + 1
        /\ \A kind, q : kind # "buy" \/ q # p => TradesOf(updates', kind, q) = TradesOf(updates, kind, q)
    <2>1. trades' > trades /\ trades' \in Nat
      BY <1>1
    <2>2. \A v \in jobs : \E x \in updates :
             v.do = x.do /\ v.of = x.of /\ v.at = x.at /\ v.copy = x.copy /\ v.n = x.n
      BY <1>3
    <2> QED
      BY <1>1, <1>3, <1>4, <2>1, <2>2, TradeBegins
  <1>6. AccountsInv'
    BY <1>1 DEF AccountsInv, Types
  <1>7. ASSUME NEW q \in Types, Balanced(q, entries[q], updates) PROVE Balanced(q, entries[q], updates)'
    <2>1. CASE q # p
      BY <1>1, <1>5, <1>7, <2>1 DEF Balanced
    <2>2. CASE q = p
      <3>1. /\ Cardinality(TradesOf(updates, "buy", q)) \in Nat /\ Cardinality(TradesOf(updates, "sell", q)) \in Nat
            /\ entries[q].shares \in Nat
        BY <1>1, TradesFinite DEF RowsInv, RowEntries
      <3>2. /\ owned'[q] = owned[q] + 1 /\ owned[q] \in Nat
            /\ TradesOf(updates', "sell", q) = TradesOf(updates, "sell", q)
        BY <1>1, <1>5, <2>2
      <3> QED
        BY <1>1, <1>5, <1>7, <2>2, <3>1, <3>2 DEF Balanced
    <2> QED
      BY <2>1, <2>2
  <1>8. \A w \in updates' : \/ w.at \in {"read", "verify"}
                            \/ \E v \in updates : w.of = v.of /\ w.at = v.at /\ w.copy = v.copy /\ (v.stale => w.stale)
    <2>1. Update("buy", p).at = "read"
      BY DEF Update
    <2> QED
      BY <1>3, <1>4, <2>1
  <1> QED
    BY <1>1, <1>5, <1>6, <1>7, <1>8, RowsCarried

\* A sale of one share, of either type.
LEMMA KeepsOnSale ==
    ASSUME RowsInv, NEW p \in Types, Begins("sell", p), AccountsInv',
           p = "spot" \/ closing = 1, trades' \in Nat,
           trades' > trades \/ (trades' = trades /\ p = "leveraged" /\ closing = 1 /\ closing' = 0),
           owned[p] > 0, owned' = [owned EXCEPT ![p] = @ - 1],
           UNCHANGED <<legacy, entries, blurred>>
    PROVE  RowsInv'
  <1>1. /\ AccountsInv /\ UpdatesInv /\ TradesDiffer(updates) /\ updates \in SUBSET RowUpdates
        /\ owned \in [Types -> Nat]
    BY DEF RowsInv, UpdatesInv, AccountsInv
  <1>2. updates' = updates \cup {Update("sell", p)}
    BY DEF Begins
  <1>3. /\ UpdatesInv'
        /\ Cardinality(TradesOf(updates', "sell", p)) = Cardinality(TradesOf(updates, "sell", p)) + 1
        /\ \A kind, q : kind # "sell" \/ q # p => TradesOf(updates', kind, q) = TradesOf(updates, kind, q)
    BY <1>1, <1>2, TradeBegins
  <1>4. ASSUME NEW q \in Types, Balanced(q, entries[q], updates) PROVE Balanced(q, entries[q], updates)'
    <2>1. CASE q # p
      BY <1>1, <1>3, <1>4, <2>1 DEF Balanced
    <2>2. CASE q = p
      <3>1. /\ Cardinality(TradesOf(updates, "buy", q)) \in Nat /\ Cardinality(TradesOf(updates, "sell", q)) \in Nat
            /\ entries[q].shares \in Nat
        BY <1>1, TradesFinite DEF RowsInv, RowEntries
      <3>2. /\ owned'[q] = owned[q] - 1 /\ owned[q] \in Nat
            /\ TradesOf(updates', "buy", q) = TradesOf(updates, "buy", q)
        BY <1>1, <1>3, <2>2
      <3> QED
        BY <1>1, <1>3, <1>4, <2>2, <3>1, <3>2 DEF Balanced
    <2> QED
      BY <2>1, <2>2
  <1>5. \A w \in updates' : \/ w.at \in {"read", "verify"}
                            \/ \E v \in updates : w.of = v.of /\ w.at = v.at /\ w.copy = v.copy /\ (v.stale => w.stale)
    <2>1. Update("sell", p).at = "read"
      BY DEF Update
    <2> QED
      BY <1>2, <2>1
  <1> QED
    BY <1>1, <1>3, <1>4, <1>5, RowsCarried

\* A sale from the wallet.
LEMMA KeepsOnSellSpot == ASSUME RowsInv, SellSpot PROVE RowsInv'
  <1>1. /\ AccountsInv /\ owned["spot"] > 0 /\ ~final /\ trades' = trades + 1 /\ Begins("sell", "spot")
        /\ owned' = [owned EXCEPT !["spot"] = @ - 1] /\ "spot" \in Types
        /\ UNCHANGED <<bought, closing, legacy, final, entries, blurred>>
    BY DEF RowsInv, SellSpot, Happens, Types
  <1>2. AccountsInv' /\ trades' \in Nat /\ trades' > trades
    BY <1>1 DEF AccountsInv, Types
  <1>3. PICK p \in Types : p = "spot"
    BY <1>1
  <1>4. /\ Begins("sell", p) /\ owned[p] > 0 /\ owned' = [owned EXCEPT ![p] = @ - 1]
        /\ p = "spot" \/ closing = 1
        /\ trades' > trades \/ (trades' = trades /\ p = "leveraged" /\ closing = 1 /\ closing' = 0)
    BY <1>1, <1>2, <1>3
  <1> QED
    BY <1>1, <1>2, <1>4, KeepsOnSale

\* The order that closes the leveraged position fills.
LEMMA KeepsOnFillClose == ASSUME RowsInv, FillClose PROVE RowsInv'
  <1>1. /\ AccountsInv /\ closing = 1 /\ closing' = 0 /\ Begins("sell", "leveraged")
        /\ owned' = [owned EXCEPT !["leveraged"] = @ - 1] /\ "leveraged" \in Types
        /\ UNCHANGED <<bought, legacy, final, entries, blurred, trades>>
    BY DEF RowsInv, FillClose, Types
  <1>2. trades \in Nat /\ ~final /\ bought["leveraged"] \in Nat
    BY <1>1 DEF AccountsInv, Types
  <1>3. owned["leveraged"] > 0
    BY <1>1, <1>2 DEF AccountsInv
  <1>4. AccountsInv'
    BY <1>1, <1>2, <1>3 DEF AccountsInv, Types
  <1> QED
    BY <1>1, <1>2, <1>3, <1>4, KeepsOnSale

\* The account changes, and readings of it are stale; the row and its updates are
\* left alone, and either nothing was sold or the row is no longer followed.
LEMMA KeepsOnAccount ==
    ASSUME RowsInv, AccountsInv', NEW p \in Types, NEW kinds,
           updates' = Stale(p, updates, kinds), trades' \in Nat,
           trades' > trades \/ (trades' = trades /\ closing' = 0),
           \A q \in Types : owned'[q] = owned[q] \/ q \in blurred',
           blurred \subseteq blurred', UNCHANGED <<legacy, entries>>
    PROVE  RowsInv'
  <1>1. AccountsInv /\ UpdatesInv /\ TradesDiffer(updates)
    BY DEF RowsInv, UpdatesInv
  <1>2. PICK jobs : jobs = updates
    OBVIOUS
  <1>3. /\ jobs \in SUBSET updates /\ TradesDiffer(jobs) /\ updates' = Stale(p, jobs, kinds)
        /\ trades' > trades \/ (trades' = trades /\ (closing = 0 => closing' = 0))
    BY <1>1, <1>2
  <1>4. /\ UpdatesInv'
        /\ \A do, q : TradesOf(updates', do, q) = TradesOf(jobs, do, q)
        /\ \A w \in updates' :
             \E v \in jobs : /\ w.do = v.do /\ w.of = v.of /\ w.at = v.at /\ w.copy = v.copy /\ w.n = v.n
                             /\ w.stale = (v.stale \/ (v.of = p /\ v.at # "read" /\ v.do \in kinds))
    BY <1>1, <1>3, JobsWritten
  <1>5. ASSUME NEW q \in Types \ (blurred' \cup legacy), Balanced(q, entries[q], updates)
        PROVE  Balanced(q, entries[q], updates)'
    <2>1. /\ TradesOf(updates', "buy", q) = TradesOf(updates, "buy", q)
          /\ TradesOf(updates', "sell", q) = TradesOf(updates, "sell", q)
      BY <1>2, <1>4
    <2> QED
      BY <1>5, <2>1 DEF Balanced
  <1>6. \A w \in updates' : \E v \in updates : w.of = v.of /\ w.at = v.at /\ w.copy = v.copy /\ (v.stale => w.stale)
    BY <1>2, <1>4
  <1> QED
    BY <1>4, <1>5, <1>6, RowsCarried

\* The order that closes the leveraged position is placed.
LEMMA KeepsOnPlaceClose == ASSUME RowsInv, PlaceClose PROVE RowsInv'
  <1>1. /\ AccountsInv /\ closing = 0 /\ closing' = 1 /\ bought["leveraged"] > 0 /\ ~final
        /\ bought' = [bought EXCEPT !["leveraged"] = @ - 1] /\ "leveraged" \in Types
        /\ trades' = trades + 1 /\ updates' = Stale("leveraged", updates, {"sync"})
        /\ UNCHANGED <<owned, legacy, final, entries, blurred>>
    BY DEF RowsInv, PlaceClose, Happens, Types
  <1>2. AccountsInv' /\ trades \in Nat
    BY <1>1 DEF AccountsInv, Types
  <1> QED
    BY <1>1, <1>2, KeepsOnAccount

\* It is cancelled.
LEMMA KeepsOnCancelClose == ASSUME RowsInv, CancelClose PROVE RowsInv'
  <1>1. /\ AccountsInv /\ closing = 1 /\ closing' = 0
        /\ bought' = [bought EXCEPT !["leveraged"] = @ + 1] /\ "leveraged" \in Types
        /\ updates' = Stale("leveraged", updates, {"sync"})
        /\ UNCHANGED <<owned, legacy, final, entries, blurred, trades>>
    BY DEF RowsInv, CancelClose, Types
  <1>2. AccountsInv' /\ trades \in Nat
    BY <1>1 DEF AccountsInv, Types
  <1> QED
    BY <1>1, <1>2, KeepsOnAccount

\* An account is closed without a trade, and its row is followed no more.
LEMMA KeepsOnCloseOnChain == ASSUME RowsInv, NEW p \in Types, CloseOnChain(p) PROVE RowsInv'
  <1>1. /\ AccountsInv /\ UpdatesInv /\ closing = 0 /\ ~final /\ trades' = trades + 1
        /\ bought' = [bought EXCEPT ![p] = 0] /\ owned' = [owned EXCEPT ![p] = 0]
        /\ blurred' = blurred \cup {p}
        /\ UNCHANGED <<closing, legacy, final, entries, updates>>
    BY DEF RowsInv, CloseOnChain, Happens
  <1>2. AccountsInv' /\ trades \in Nat
    BY <1>1 DEF AccountsInv, Types
  <1>3. UpdatesInv'
    <2>1. ASSUME NEW v \in updates PROVE JobInOrder(v)'
      <3>1. v \in RowUpdates /\ JobInOrder(v)
        BY <1>1 DEF UpdatesInv
      <3> QED
        BY <1>1, <1>2, <3>1, InOrderKept
    <2> QED
      BY <1>1, <2>1 DEF UpdatesInv, TradesDiffer
  <1>4. ASSUME NEW q \in Types \ (blurred' \cup legacy), Balanced(q, entries[q], updates)
        PROVE  Balanced(q, entries[q], updates)'
    <2>1. owned'[q] = owned[q]
      BY <1>1 DEF AccountsInv
    <2> QED
      BY <1>1, <1>4, <2>1 DEF Balanced
  <1>5. \A w \in updates' : \E v \in updates : w.of = v.of /\ w.at = v.at /\ w.copy = v.copy /\ (v.stale => w.stale)
    BY <1>1
  <1> QED
    BY <1>1, <1>2, <1>3, <1>4, <1>5, RowsCarried

\* What is left to add and to take off when an update has ended.
LEMMA TradeEnds ==
    ASSUME RowsInv, NEW u \in updates
    PROVE  LET added(jobs) == Cardinality(TradesOf(jobs, "buy", u.of))
               taken(jobs) == Cardinality(TradesOf(jobs, "sell", u.of))
           IN  /\ added(updates) \in Nat /\ taken(updates) \in Nat
               /\ added(updates \ {u}) \in Nat /\ taken(updates \ {u}) \in Nat
               /\ added(updates) = added(updates \ {u}) + (IF u.do = "buy" THEN 1 ELSE 0)
               /\ taken(updates) = taken(updates \ {u}) + (IF u.do = "sell" THEN 1 ELSE 0)
  <1>1. AccountsInv /\ UpdatesInv /\ TradesDiffer(updates)
    BY DEF RowsInv, UpdatesInv
  <1>2. ASSUME NEW do \in {"buy", "sell"}
        PROVE  /\ Cardinality(TradesOf(updates, do, u.of)) \in Nat
               /\ Cardinality(TradesOf(updates \ {u}, do, u.of)) \in Nat
               /\ Cardinality(TradesOf(updates, do, u.of))
                    = Cardinality(TradesOf(updates \ {u}, do, u.of)) + (IF u.do = do THEN 1 ELSE 0)
    <2>1. PICK S, T : S = TradesOf(updates, do, u.of) /\ T = TradesOf(updates \ {u}, do, u.of)
      OBVIOUS
    <2>2. IsFiniteSet(S) /\ Cardinality(S) \in Nat
      BY <1>1, <2>1, TradesFinite
    <2>3. CASE u.do = do
      <3>1. u.n \in S /\ T = S \ {u.n}
        <4>1. /\ u.n \in TradesOf(updates, do, u.of)
              /\ TradesOf(updates \ {u}, do, u.of) = TradesOf(updates, do, u.of) \ {u.n}
          BY <1>1, <2>3, TradesWithout
        <4> QED
          BY <2>1, <4>1
      <3>2. IsFiniteSet(T) /\ u.n \notin T /\ S = T \cup {u.n}
        BY <2>2, <3>1, FS_Subset
      <3>3. Cardinality(T) \in Nat /\ Cardinality(S) = Cardinality(T) + 1
        BY <3>2, FS_AddElement, FS_CardinalityType
      <3> QED
        BY <2>1, <2>2, <2>3, <3>3
    <2>4. CASE u.do # do
      <3>1. TradesOf(updates \ {u}, do, u.of) = TradesOf(updates, do, u.of)
        BY <1>1, <2>4, TradesWithout
      <3>2. T = S
        BY <2>1, <3>1
      <3> QED
        BY <2>1, <2>2, <2>4, <3>2
    <2> QED
      BY <2>3, <2>4
  <1> QED
    BY <1>2

\* A row that has got what an update was to add or to take off balances without it.
LEMMA BalancedAfter ==
    ASSUME RowsInv, NEW u \in updates, NEW line \in RowEntries, Balanced(u.of, entries[u.of], updates),
           \/ u.do = "buy" /\ line.shares = entries[u.of].shares + 1
           \/ u.do = "sell" /\ line.shares = entries[u.of].shares - 1
           \/ u.do \notin {"buy", "sell"} /\ line.shares = entries[u.of].shares
    PROVE  Balanced(u.of, line, updates \ {u})
  <1>1. PICK b, s, c, t : /\ b = Cardinality(TradesOf(updates, "buy", u.of))
                          /\ s = Cardinality(TradesOf(updates, "sell", u.of))
                          /\ c = Cardinality(TradesOf(updates \ {u}, "buy", u.of))
                          /\ t = Cardinality(TradesOf(updates \ {u}, "sell", u.of))
    OBVIOUS
  <1>2. /\ b \in Nat /\ s \in Nat /\ c \in Nat /\ t \in Nat
        /\ b = c + (IF u.do = "buy" THEN 1 ELSE 0)
        /\ s = t + (IF u.do = "sell" THEN 1 ELSE 0)
    BY <1>1, TradeEnds
  <1>3. /\ u.of \in Types /\ owned[u.of] \in Nat /\ entries[u.of].shares \in Nat /\ line.shares \in Nat
    BY DEF RowsInv, AccountsInv, UpdatesInv, RowUpdates, RowEntries
  <1>4. entries[u.of].shares + b = owned[u.of] + s
    BY <1>1 DEF Balanced
  <1>5. line.shares + c = owned[u.of] + t
    <2>1. CASE u.do = "buy" /\ line.shares = entries[u.of].shares + 1
      BY <1>2, <1>3, <1>4, <2>1
    <2>2. CASE u.do = "sell" /\ line.shares = entries[u.of].shares - 1
      <3>1. b = c /\ s = t + 1
        BY <1>2, <2>2
      <3>2. PICK e, o, x : e = entries[u.of].shares /\ o = owned[u.of] /\ x = line.shares
        OBVIOUS
      <3>3. e \in Nat /\ o \in Nat /\ x = e - 1 /\ e + c = o + (t + 1)
        BY <1>3, <1>4, <2>2, <3>1, <3>2
      <3>4. x + c = o + t
        BY <1>2, <3>3
      <3> QED
        BY <3>2, <3>4
    <2>3. CASE u.do \notin {"buy", "sell"} /\ line.shares = entries[u.of].shares
      BY <1>2, <1>3, <1>4, <2>3
    <2> QED
      BY <2>1, <2>2, <2>3
  <1> QED
    BY <1>1, <1>5 DEF Balanced

\* A closed row has no shares.
LEMMA ClosedIs ==
    ASSUME NEW e \in RowEntries
    PROVE  Closed(e) \in RowEntries /\ Closed(e).shares = 0 /\ Closed(e).open = FALSE
  <1>1. Closed(e) \in RowEntries
    BY DEF Closed, RowEntries
  <1>2. Closed(e).shares = 0 /\ Closed(e).open = FALSE
    BY DEF Closed, RowEntries
  <1> QED
    BY <1>1, <1>2

\* With nothing unsettled, the row says what is owned, and so does the account.
LEMMA NothingUnsettled ==
    ASSUME RowsInv, NEW p \in Types, ~Unsettled(p)
    PROVE  /\ TradesOf(updates, "buy", p) = {} /\ TradesOf(updates, "sell", p) = {}
           /\ \A line \in RowEntries : Balanced(p, line, updates) <=> line.shares = owned[p]
           /\ bought[p] = 0 => owned[p] = 0
  <1>1. TradesOf(updates, "buy", p) = {} /\ TradesOf(updates, "sell", p) = {}
    BY DEF Unsettled, TradesOf
  <1>2. Cardinality({}) = 0
    BY FS_EmptySet
  <1>3. ASSUME NEW line \in RowEntries PROVE Balanced(p, line, updates) <=> line.shares = owned[p]
    <2>1. line.shares \in Nat /\ owned[p] \in Nat
      BY DEF RowEntries, RowsInv, AccountsInv
    <2> QED
      BY <1>1, <1>2, <2>1 DEF Balanced
  <1>4. bought[p] = 0 => owned[p] = 0
    BY DEF RowsInv, AccountsInv, Unsettled, Types
  <1> QED
    BY <1>1, <1>3, <1>4

\* A write that fails is missed by the row.
LEMMA RowUnwritten ==
    ASSUME RowsInv, NEW u \in updates, updates' = Stale(u.of, updates \ {u}, Jobs),
           UNCHANGED <<OnChain, entries, trades>>, blurred' = blurred \cup {u.of}
    PROVE  RowsInv'
  <1>0. /\ AccountsInv /\ UpdatesInv /\ TradesDiffer(updates) /\ UNCHANGED <<OnChain, trades>>
        /\ blurred' = blurred \cup {u.of} /\ entries' = entries
    BY DEF RowsInv, UpdatesInv
  <1>1. PICK jobs : jobs = updates \ {u}
    OBVIOUS
  <1>2. /\ jobs \in SUBSET updates /\ TradesDiffer(jobs) /\ updates' = Stale(u.of, jobs, Jobs)
        /\ trades' = trades /\ closing' = closing /\ trades' \in Nat
        /\ AccountsInv' /\ owned' = owned /\ legacy' = legacy
    <2>1. jobs \in SUBSET updates /\ TradesDiffer(jobs) /\ updates' = Stale(u.of, jobs, Jobs)
      BY <1>0, <1>1, TradesWithout
    <2>2. UNCHANGED <<bought, owned, closing, legacy, final, trades>>
      BY <1>0 DEF OnChain
    <2> QED
      BY <1>0, <2>1, <2>2 DEF AccountsInv
  <1>3. /\ UpdatesInv'
        /\ \A do, q : TradesOf(updates', do, q) = TradesOf(jobs, do, q)
        /\ \A w \in updates' :
              \E v \in jobs : /\ w.do = v.do /\ w.of = v.of /\ w.at = v.at /\ w.copy = v.copy /\ w.n = v.n
                              /\ w.stale = (v.stale \/ (v.of = u.of /\ v.at # "read" /\ v.do \in Jobs))
    BY <1>0, <1>2, JobsWritten
  <1>4. ASSUME NEW q \in Types \ (blurred' \cup legacy), Balanced(q, entries[q], updates)
        PROVE  Balanced(q, entries[q], updates)'
    <2>1. q # u.of
      BY <1>4
    <2>2. /\ TradesOf(jobs, "buy", q) = TradesOf(updates, "buy", q)
          /\ TradesOf(jobs, "sell", q) = TradesOf(updates, "sell", q)
      BY <1>0, <1>1, <2>1, TradesWithout
    <2>3. /\ TradesOf(updates', "buy", q) = TradesOf(updates, "buy", q)
          /\ TradesOf(updates', "sell", q) = TradesOf(updates, "sell", q)
      BY <1>3, <2>2
    <2> QED
      BY <1>2, <1>4, <2>3 DEF Balanced
  <1>5. \A w \in updates' : \E v \in updates : w.of = v.of /\ w.at = v.at /\ w.copy = v.copy /\ (v.stale => w.stale)
    BY <1>2, <1>3
  <1> QED
    BY <1>2, <1>3, <1>4, <1>5, RowsCarried

\* A write keeps the rows accounted for, when it is right in a row that is followed.
LEMMA WriteKeeps ==
    ASSUME RowsInv, NEW u \in updates, NEW line \in RowEntries, Writes(u, line),
           RowAccounted(u.of) /\ ~u.stale /\ ~(u.do = "sync" /\ Unsettled(u.of))
             => Balanced(u.of, line, updates \ {u}) /\ (line.open <=> line.shares > 0)
    PROVE  RowsInv'
  <1>1. /\ AccountsInv /\ UpdatesInv /\ u \in RowUpdates /\ u.of \in Types /\ TradesDiffer(updates)
        /\ u.stale \in BOOLEAN
    BY DEF RowsInv, UpdatesInv, RowUpdates
  <1>2. UNCHANGED <<OnChain, trades>> /\ updates' = Stale(u.of, updates \ {u}, Jobs)
    BY DEF Writes
  <1>3. CASE /\ entries' = [entries EXCEPT ![u.of] = line]
             /\ blurred' = IF u.stale \/ (u.do = "sync" /\ Unsettled(u.of)) THEN blurred \cup {u.of} ELSE blurred
    <2>1. blurred \subseteq blurred'
      BY <1>3
    <2>2. ASSUME u.of \notin blurred' \cup legacy
          PROVE  Balanced(u.of, line, updates \ {u}) /\ (line.open <=> line.shares > 0)
      <3>1. ~u.stale /\ ~(u.do = "sync" /\ Unsettled(u.of)) /\ u.of \notin blurred \cup legacy
        BY <1>3, <2>2
      <3>2. RowAccounted(u.of)
        BY <1>1, <3>1 DEF RowsInv
      <3> QED
        BY <3>1, <3>2
    <2> QED
      BY <1>2, <1>3, <2>1, <2>2, RowWritten
  <1>4. CASE blurred' = blurred \cup {u.of} /\ UNCHANGED entries
    BY <1>2, <1>4, RowUnwritten
  <1> QED
    BY <1>3, <1>4 DEF Writes

\* The keeper adds what was bought.
LEMMA KeepsOnAdd == ASSUME RowsInv, NEW u \in updates, AddShares(u) \/ CreateEntry(u) PROVE RowsInv'
  <1>1. /\ u \in RowUpdates /\ u.of \in Types /\ u.copy.shares \in Nat /\ u.do = "buy"
        /\ entries[u.of] \in RowEntries /\ owned[u.of] \in Nat
    BY DEF RowsInv, AccountsInv, UpdatesInv, RowUpdates, RowEntries, AddShares, CreateEntry
  <1>2. PICK line : line = IF u.at = "add" THEN [entries[u.of] EXCEPT !.shares = u.copy.shares + 1]
                                             ELSE [known |-> TRUE, shares |-> 1, open |-> TRUE]
    OBVIOUS
  <1>3. /\ u.at \in {"add", "create"} /\ Writes(u, line)
    BY <1>2 DEF AddShares, CreateEntry
  <1>4. /\ line \in RowEntries
        /\ u.at = "add" => line.shares = u.copy.shares + 1 /\ line.open = entries[u.of].open
        /\ u.at = "create" => line.shares = 1 /\ line.open = TRUE
    <2>1. CASE u.at = "add"
      <3>1. line = [entries[u.of] EXCEPT !.shares = u.copy.shares + 1]
        BY <1>2, <2>1
      <3> QED
        BY <1>1, <2>1, <3>1 DEF RowEntries
    <2>2. CASE u.at = "create"
      <3>1. line = [known |-> TRUE, shares |-> 1, open |-> TRUE]
        BY <1>2, <2>2
      <3> QED
        BY <2>2, <3>1 DEF RowEntries
    <2> QED
      BY <1>3, <2>1, <2>2
  <1>5. ASSUME RowAccounted(u.of), ~u.stale
        PROVE  Balanced(u.of, line, updates \ {u}) /\ (line.open <=> line.shares > 0)
    <2>1. /\ UpToDate(u, entries[u.of]) /\ Balanced(u.of, entries[u.of], updates)
          /\ entries[u.of].open <=> entries[u.of].shares > 0
      BY <1>1, <1>5 DEF RowAccounted
    <2>2. /\ line.shares = entries[u.of].shares + 1 /\ line.open /\ entries[u.of].shares \in Nat
      BY <1>1, <1>3, <1>4, <2>1 DEF UpToDate, RowEntries
    <2>3. Balanced(u.of, line, updates \ {u})
      BY <1>1, <1>4, <2>1, <2>2, BalancedAfter
    <2>4. line.shares > 0
      BY <2>2
    <2> QED
      BY <2>2, <2>3, <2>4
  <1> QED
    BY <1>3, <1>4, <1>5, WriteKeeps

\* The keeper takes off what was sold.
LEMMA KeepsOnReduce == ASSUME RowsInv, NEW u \in updates, ReduceSeller(u) PROVE RowsInv'
  <1>1. /\ u \in RowUpdates /\ u.of \in Types /\ u.copy.shares \in Nat /\ u.do = "sell" /\ u.at = "reduce"
        /\ entries[u.of] \in RowEntries /\ owned[u.of] \in Nat /\ JobInOrder(u)
    BY DEF RowsInv, AccountsInv, UpdatesInv, RowUpdates, RowEntries, ReduceSeller
  <1>2. u.copy.shares > 0
    BY <1>1 DEF JobInOrder
  <1>3. PICK line : line = IF u.copy.shares = 1 THEN Closed(entries[u.of])
                             ELSE [entries[u.of] EXCEPT !.shares = u.copy.shares - 1]
    OBVIOUS
  <1>4. Writes(u, line)
    BY <1>3 DEF ReduceSeller
  <1>5. /\ line \in RowEntries /\ line.shares = u.copy.shares - 1
        /\ u.copy.shares = 1 => line.open = FALSE
        /\ u.copy.shares # 1 => line.open = entries[u.of].open
    <2>1. CASE u.copy.shares = 1
      <3>1. line = Closed(entries[u.of])
        BY <1>3, <2>1
      <3> QED
        <4>1. PICK e \in RowEntries : e = entries[u.of]
          BY <1>1
        <4>2. line \in RowEntries /\ line.shares = 0 /\ line.open = FALSE
          BY <3>1, <4>1, ClosedIs
        <4> QED
          BY <2>1, <4>2
    <2>2. CASE u.copy.shares # 1
      <3>1. line = [entries[u.of] EXCEPT !.shares = u.copy.shares - 1]
        BY <1>3, <2>2
      <3>2. u.copy.shares - 1 \in Nat
        BY <1>1, <1>2
      <3> QED
        BY <1>1, <2>2, <3>1, <3>2 DEF RowEntries
    <2> QED
      BY <2>1, <2>2
  <1>6. ASSUME RowAccounted(u.of), ~u.stale
        PROVE  Balanced(u.of, line, updates \ {u}) /\ (line.open <=> line.shares > 0)
    <2>1. /\ UpToDate(u, entries[u.of]) /\ Balanced(u.of, entries[u.of], updates)
          /\ entries[u.of].open <=> entries[u.of].shares > 0
      BY <1>1, <1>6 DEF RowAccounted
    <2>2. line.shares = entries[u.of].shares - 1 /\ entries[u.of].shares \in Nat /\ line.shares \in Nat
      BY <1>1, <1>5, <2>1 DEF UpToDate, RowEntries
    <2>3. line.open <=> line.shares > 0
      <3>1. CASE u.copy.shares = 1
        BY <1>5, <3>1
      <3>2. CASE u.copy.shares # 1
        <4>1. entries[u.of].shares > 0 /\ line.shares > 0
          BY <1>1, <1>2, <1>5, <2>1, <2>2, <3>2 DEF UpToDate
        <4> QED
          BY <1>5, <2>1, <3>2, <4>1
      <3> QED
        BY <3>1, <3>2
    <2>4. Balanced(u.of, line, updates \ {u})
      BY <1>1, <1>5, <2>1, <2>2, BalancedAfter
    <2> QED
      BY <2>3, <2>4
  <1> QED
    BY <1>4, <1>5, <1>6, WriteKeeps

\* Closing what is empty.
LEMMA KeepsOnCloseEmpty == ASSUME RowsInv, NEW u \in updates, CloseEmpty(u) PROVE RowsInv'
  <1>1. /\ u \in RowUpdates /\ u.of \in Types /\ u.at = "close" /\ u.do \in Jobs
        /\ entries[u.of] \in RowEntries /\ owned[u.of] \in Nat /\ JobInOrder(u)
    BY DEF RowsInv, AccountsInv, UpdatesInv, RowUpdates, CloseEmpty
  <1>2. u.do \notin {"buy", "sell"}
    BY <1>1 DEF JobInOrder, JobStages
  <1>3. PICK line : line = [entries[u.of] EXCEPT !.open = FALSE]
    OBVIOUS
  <1>4. Writes(u, line)
    BY <1>3 DEF CloseEmpty
  <1>5. line \in RowEntries /\ line.shares = entries[u.of].shares /\ line.open = FALSE
    BY <1>1, <1>3 DEF RowEntries
  <1>6. ASSUME RowAccounted(u.of), ~u.stale
        PROVE  Balanced(u.of, line, updates \ {u}) /\ (line.open <=> line.shares > 0)
    <2>1. UpToDate(u, entries[u.of]) /\ Balanced(u.of, entries[u.of], updates)
      BY <1>1, <1>6 DEF RowAccounted
    <2>2. line.shares = 0
      BY <1>1, <1>5, <2>1 DEF UpToDate
    <2>3. Balanced(u.of, line, updates \ {u})
      BY <1>2, <1>5, <2>1, BalancedAfter
    <2> QED
      BY <1>5, <2>2, <2>3
  <1> QED
    BY <1>4, <1>5, <1>6, WriteKeeps

\* A reading of the account writes a row that is there.
LEMMA KeepsOnSync == ASSUME RowsInv, NEW u \in updates, SyncEntry(u) PROVE RowsInv'
  <1>1. /\ u \in RowUpdates /\ u.of \in Types /\ u.at \in {"open", "closed"} /\ u.do = "sync"
        /\ u.copy.shares \in Nat
        /\ entries[u.of] \in RowEntries /\ owned[u.of] \in Nat
    BY DEF RowsInv, AccountsInv, UpdatesInv, RowUpdates, RowEntries, SyncEntry
  <1>2. PICK line : line = [entries[u.of] EXCEPT !.open = u.at = "open" /\ u.copy.shares > 0]
    OBVIOUS
  <1>3. Writes(u, line)
    BY <1>2 DEF SyncEntry
  <1>4. /\ line \in RowEntries /\ line.shares = entries[u.of].shares
        /\ u.at = "open" /\ u.copy.shares > 0 => line.open = TRUE
        /\ ~(u.at = "open" /\ u.copy.shares > 0) => line.open = FALSE
    <2>1. CASE u.at = "open" /\ u.copy.shares > 0
      <3>1. line = [entries[u.of] EXCEPT !.open = TRUE]
        BY <1>2, <2>1, Zenon
      <3> QED
        BY <1>1, <2>1, <3>1 DEF RowEntries
    <2>2. CASE ~(u.at = "open" /\ u.copy.shares > 0)
      <3>1. line = [entries[u.of] EXCEPT !.open = FALSE]
        BY <1>2, <2>2, Zenon
      <3> QED
        BY <1>1, <2>2, <3>1 DEF RowEntries
    <2> QED
      BY <2>1, <2>2
  <1>5. ASSUME RowAccounted(u.of), ~u.stale
        PROVE  Balanced(u.of, line, updates \ {u}) /\ (line.open <=> line.shares > 0)
    <2>1. UpToDate(u, entries[u.of]) /\ Balanced(u.of, entries[u.of], updates)
      BY <1>1, <1>5 DEF RowAccounted
    <2>2. line.open <=> line.shares > 0
      BY <1>1, <1>4, <2>1 DEF UpToDate
    <2> QED
      BY <1>1, <1>4, <2>1, <2>2, BalancedAfter
  <1> QED
    BY <1>3, <1>4, <1>5, WriteKeeps

\* An account that was not read closes its row, which is followed no more.
LEMMA KeepsOnUnread == ASSUME RowsInv, NEW u \in updates, CloseUnread(u) PROVE RowsInv'
  <1>1. /\ u \in RowUpdates /\ u.of \in Types /\ u.at = "gone" /\ u.do = "sync"
        /\ entries[u.of] \in RowEntries
    BY DEF RowsInv, UpdatesInv, RowUpdates, CloseUnread
  <1>2. PICK line : line = Closed(entries[u.of])
    OBVIOUS
  <1>3. line \in RowEntries /\ line.shares = 0 /\ line.open = FALSE
    BY <1>1, <1>2, ClosedIs
  <1>4. CASE Writes(u, line)
    <2>1. ASSUME RowAccounted(u.of), ~u.stale
          PROVE  Balanced(u.of, line, updates \ {u}) /\ (line.open <=> line.shares > 0)
      <3>1. entries[u.of].shares = 0 /\ Balanced(u.of, entries[u.of], updates)
        BY <1>1, <2>1 DEF RowAccounted, UpToDate
      <3> QED
        BY <1>1, <1>3, <3>1, BalancedAfter
    <2> QED
      BY <1>3, <1>4, <2>1, WriteKeeps
  <1>5. CASE Ends(u) /\ UNCHANGED <<OnChain, entries, blurred, trades>>
    BY <1>1, <1>5, RowLeft
  <1> QED
    BY <1>2, <1>4, <1>5 DEF CloseUnread

\* The keeper, and the readings, begin with what the row says.
LEMMA KeepsOnRead ==
    ASSUME RowsInv, NEW u \in updates, ReadBuyer(u) \/ ReadSeller(u) \/ ReadOpen(u) \/ ReadAccount(u)
    PROVE  RowsInv'
  <1>1. /\ UpdatesInv /\ u \in RowUpdates /\ u.of \in Types /\ u.do \in Jobs
        /\ entries[u.of] \in RowEntries /\ entries[u.of].shares \in Nat
    BY DEF RowsInv, UpdatesInv, RowUpdates, RowEntries
  <1>2. PICK e : e = entries[u.of]
    OBVIOUS
  <1>3. ASSUME NEW at
        PROVE  /\ ReadAs(u, at).at \in {at, u.at} /\ (at \in JobStages(u.do) => ReadAs(u, at).at = at)
               /\ ReadAs(u, at).copy = entries[u.of]
    BY <1>1 DEF ReadAs, RowUpdates
  <1>4. CASE ReadBuyer(u)
    <2>1. PICK at : at = IF entries[u.of].open /\ entries[u.of].shares > 0 THEN "add" ELSE "create"
      OBVIOUS
    <2>2. /\ at \in {"add", "create"} /\ at \in JobStages(u.do)
          /\ at = "add" => entries[u.of].shares > 0
          /\ (entries[u.of].open <=> entries[u.of].shares > 0) /\ at = "create" => entries[u.of].shares = 0
      BY <1>1, <1>4, <2>1 DEF ReadBuyer, JobStages
    <2>3. /\ Moves(u, at, entries[u.of]) /\ UNCHANGED <<OnChain, entries, blurred, trades>>
      BY <1>4, <2>1 DEF ReadBuyer
    <2>4. (entries[u.of].open <=> entries[u.of].shares > 0) => UpToDate(ReadAs(u, at), entries[u.of])
      BY <1>3, <2>2 DEF UpToDate
    <2> QED
      BY <2>2, <2>3, <2>4, RowRead
  <1>5. CASE ReadSeller(u)
    <2>1. CASE entries[u.of].open /\ entries[u.of].shares > 0
      <3>1. /\ Moves(u, "reduce", entries[u.of]) /\ UNCHANGED <<OnChain, entries, blurred, trades>>
            /\ "reduce" \in JobStages(u.do)
        BY <1>5, <2>1 DEF ReadSeller, JobStages
      <3>2. UpToDate(ReadAs(u, "reduce"), entries[u.of])
        BY <1>3, <3>1 DEF UpToDate
      <3> QED
        BY <2>1, <3>1, <3>2, RowRead
    <2>2. CASE ~(entries[u.of].open /\ entries[u.of].shares > 0)
      <3>1. Ends(u) /\ blurred' = blurred \cup {u.of} /\ UNCHANGED <<OnChain, entries, trades>>
        BY <1>5, <2>2 DEF ReadSeller
      <3> QED
        BY <3>1, RowLeft
    <2> QED
      BY <2>1, <2>2
  <1>6. CASE ReadOpen(u)
    <2>1. u.do \in {"view", "cleanup"} /\ UNCHANGED <<OnChain, entries, blurred, trades>>
      BY <1>6 DEF ReadOpen
    <2>2. CASE Ends(u)
      BY <2>1, <2>2, RowLeft
    <2>3. ASSUME NEW at \in {"close", "verify"}, Moves(u, at, entries[u.of]),
                 at = "close" => entries[u.of].shares = 0
          PROVE  RowsInv'
      <3>1. at \in JobStages(u.do)
        BY <2>1 DEF JobStages
      <3>2. UpToDate(ReadAs(u, at), entries[u.of])
        BY <1>3, <2>3, <3>1 DEF UpToDate
      <3> QED
        BY <2>1, <2>3, <3>1, <3>2, RowRead
    <2>4. \/ Ends(u) \/ Moves(u, "verify", entries[u.of])
          \/ Moves(u, "close", entries[u.of]) /\ entries[u.of].shares = 0
      BY <1>6 DEF ReadOpen
    <2> QED
      BY <2>2, <2>3, <2>4
  <1>7. CASE ReadAccount(u)
    <2>1. PICK at : at = IF bought[u.of] > 0 THEN "open" ELSE "closed"
      OBVIOUS
    <2>0. CASE Moves(u, "gone", entries[u.of]) /\ blurred' = blurred \cup {u.of}
      <3>1. "gone" \in JobStages(u.do) /\ UNCHANGED <<OnChain, entries, trades>>
        BY <1>7 DEF ReadAccount, JobStages
      <3> QED
        BY <2>0, <3>1, RowRead
    <2> SUFFICES ASSUME ~(Moves(u, "gone", entries[u.of]) /\ blurred' = blurred \cup {u.of})
                 PROVE  RowsInv'
      BY <2>0
    <2>2. /\ Moves(u, at, entries[u.of]) /\ UNCHANGED <<OnChain, entries, trades>> /\ u.do = "sync"
          /\ blurred' = IF Unsettled(u.of) THEN blurred \cup {u.of} ELSE blurred
      BY <1>7, <2>1 DEF ReadAccount
    <2>3. /\ at \in {"open", "closed"} /\ at \in JobStages(u.do) /\ blurred \subseteq blurred'
      BY <2>1, <2>2 DEF JobStages
    <2>4. ASSUME u.of \notin blurred' \cup legacy, Balanced(u.of, entries[u.of], updates)
          PROVE  UpToDate(ReadAs(u, at), entries[u.of])
      <3>1. ~Unsettled(u.of)
        BY <2>2, <2>4
      <3>2. entries[u.of].shares = owned[u.of] /\ (bought[u.of] = 0 => owned[u.of] = 0)
        BY <1>1, <2>4, <3>1, NothingUnsettled
      <3>3. bought[u.of] \in Nat
        BY <1>1 DEF RowsInv, AccountsInv
      <3>4. at = "closed" => entries[u.of].shares = 0
        BY <2>1, <3>2, <3>3
      <3> QED
        BY <1>3, <2>3, <3>4 DEF UpToDate
    <2> QED
      BY <2>2, <2>3, <2>4, RowRead
  <1> QED
    BY <1>4, <1>5, <1>6, <1>7

\* A row that has been set to what is owned, its other updates being stale.
LEMMA RowSet ==
    ASSUME NEW q \in Types, Balanced(q, entries[q], updates)', (entries[q].open <=> entries[q].shares > 0)',
           \A w \in updates' : w.of = q => w.at = "read" \/ w.stale \/ (w.at = "close" /\ entries'[q].shares = 0)
    PROVE  RowAccounted(q)'
  <1>1. ASSUME NEW w \in updates', w.of = q, ~w.stale PROVE UpToDate(w, entries[q])'
    BY <1>1 DEF UpToDate
  <1> QED
    BY <1>1 DEF RowAccounted

\* After all of a row's updates have become stale.
LEMMA AllStale ==
    ASSUME AccountsInv, UpdatesInv, NEW jobs \in SUBSET updates, NEW p, updates' = Stale(p, jobs, Jobs),
           TradesDiffer(jobs), UNCHANGED <<trades, closing>>
    PROVE  /\ UpdatesInv'
           /\ \A do, q : TradesOf(updates', do, q) = TradesOf(jobs, do, q)
           /\ \A w \in updates' : w.of = p => w.at = "read" \/ w.stale
           /\ \A w \in updates' : \E v \in jobs : w.of = v.of /\ w.at = v.at /\ w.copy = v.copy /\ (v.stale => w.stale)
  <1>1. trades' \in Nat /\ trades' = trades /\ (closing = 0 => closing' = 0)
    BY DEF AccountsInv
  <1>2. /\ UpdatesInv'
        /\ \A do, q : TradesOf(updates', do, q) = TradesOf(jobs, do, q)
        /\ \A w \in updates' :
              \E v \in jobs : /\ w.do = v.do /\ w.of = v.of /\ w.at = v.at /\ w.copy = v.copy /\ w.n = v.n
                              /\ w.stale = (v.stale \/ (v.of = p /\ v.at # "read" /\ v.do \in Jobs))
    BY <1>1, JobsWritten
  <1>3. ASSUME NEW w \in updates', w.of = p PROVE w.at = "read" \/ w.stale
    <2>1. PICK v \in jobs : /\ w.of = v.of /\ w.at = v.at
                            /\ w.stale = (v.stale \/ (v.of = p /\ v.at # "read" /\ v.do \in Jobs))
      BY <1>2
    <2>2. v.do \in Jobs
      BY DEF UpdatesInv, RowUpdates
    <2> QED
      BY <1>3, <2>1, <2>2
  <1> QED
    BY <1>2, <1>3

\* A reading of the account that finds no row.
LEMMA KeepsOnNewEntry == ASSUME RowsInv, NEW u \in updates, SyncNewEntry(u) PROVE RowsInv'
  <1>1. /\ UNCHANGED <<OnChain, trades>> /\ blurred' = blurred \cup {u.of}
        /\ updates' = Stale(u.of, updates \ {u}, Jobs)
        /\ u.of \in Types /\ bought[u.of] \in Nat
    BY DEF SyncNewEntry, RowsInv, AccountsInv, UpdatesInv, RowUpdates
  <1>2. CASE UNCHANGED entries
    BY <1>1, <1>2, RowUnwritten
  <1>3. CASE ~UNCHANGED entries
    <2>1. PICK line : line = [known |-> TRUE, shares |-> bought[u.of], open |-> u.at = "open"]
      OBVIOUS
    <2>2. entries' = [entries EXCEPT ![u.of] = line]
      BY <1>3, <2>1 DEF SyncNewEntry
    <2>3. line \in RowEntries
      BY <1>1, <2>1 DEF RowEntries
    <2>4. blurred \subseteq blurred' /\ u.of \in blurred'
      BY <1>1
    <2> QED
      BY <1>1, <2>2, <2>3, <2>4, RowWritten
  <1> QED
    BY <1>2, <1>3

\* The script that fills rows in sets a row to its account.
LEMMA KeepsOnBackfill == ASSUME RowsInv, NEW p \in Types, BackfillPositions(p) PROVE RowsInv'
  <1>1. /\ AccountsInv /\ UpdatesInv /\ TradesDiffer(updates) /\ entries \in [Types -> RowEntries]
        /\ UNCHANGED <<bought, owned, closing, legacy, final, trades>>
        /\ bought[p] \in Nat /\ bought[p] > 0 /\ updates' = Stale(p, updates, Jobs)
        /\ blurred' = IF bought[p] # owned[p] \/ Unsettled(p) THEN blurred \cup {p} ELSE blurred
    BY DEF RowsInv, AccountsInv, UpdatesInv, BackfillPositions, OnChain
  <1>2. PICK line : line = [known |-> TRUE, shares |-> bought[p], open |-> TRUE]
    OBVIOUS
  <1>3. /\ line \in RowEntries /\ line.shares = bought[p] /\ line.open = TRUE
        /\ entries' = [entries EXCEPT ![p] = line]
    BY <1>1, <1>2 DEF BackfillPositions, RowEntries
  <1>4. AccountsInv'
    BY <1>1 DEF AccountsInv
  <1>5. PICK jobs : jobs = updates
    OBVIOUS
  <1>6. /\ UpdatesInv'
        /\ \A do, q : TradesOf(updates', do, q) = TradesOf(jobs, do, q)
        /\ \A w \in updates' : w.of = p => w.at = "read" \/ w.stale
        /\ \A w \in updates' : \E v \in jobs : w.of = v.of /\ w.at = v.at /\ w.copy = v.copy /\ (v.stale => w.stale)
    BY <1>1, <1>5, AllStale
  <1>7. ASSUME NEW q \in Types \ (blurred \cup legacy)' PROVE RowAccounted(q)'
    <2>1. q \notin blurred \cup legacy /\ RowAccounted(q)
      BY <1>1, <1>7 DEF RowsInv
    <2>2. CASE q = p
      <3>1. ~Unsettled(p) /\ bought[p] = owned[p]
        BY <1>1, <1>7, <2>2
      <3>2. Balanced(p, line, updates)
        BY <1>3, <3>1, NothingUnsettled
      <3>3. Balanced(q, entries[q], updates)' /\ entries'[q] = line
        BY <1>1, <1>3, <1>5, <1>6, <2>2, <3>2 DEF Balanced
      <3>4. (entries[q].open <=> entries[q].shares > 0)'
        BY <1>1, <1>3, <3>3
      <3> QED
        BY <1>6, <2>2, <3>3, <3>4, RowSet
    <2>3. CASE q # p
      <3>1. /\ entries'[q] = entries[q] /\ owned'[q] = owned[q]
            /\ TradesOf(updates', "buy", q) = TradesOf(updates, "buy", q)
            /\ TradesOf(updates', "sell", q) = TradesOf(updates, "sell", q)
        BY <1>1, <1>3, <1>5, <1>6, <2>3
      <3>2. ASSUME NEW w \in updates' PROVE w.of = q /\ ~w.stale => UpToDate(w, entries[q])
        <4>1. PICK v \in updates : w.of = v.of /\ w.at = v.at /\ w.copy = v.copy /\ (v.stale => w.stale)
          BY <1>5, <1>6
        <4>2. \A x \in updates : x.of = q /\ ~x.stale => UpToDate(x, entries[q])
          BY <2>1 DEF RowAccounted
        <4> QED
          BY <1>1, <4>1, <4>2, OthersUpToDate
      <3> QED
        BY <2>1, <3>1, <3>2, RowUntouched
    <2> QED
      BY <2>2, <2>3
  <1>8. entries' \in [Types -> RowEntries]
    BY <1>1, <1>3
  <1> QED
    BY <1>4, <1>6, <1>7, <1>8 DEF RowsInv

\* A reading of the account that finds nothing closes the row.
LEMMA KeepsOnVerify == ASSUME RowsInv, NEW u \in updates, VerifyOnChain(u) PROVE RowsInv'
  <1>1. /\ AccountsInv /\ UpdatesInv /\ TradesDiffer(updates) /\ entries \in [Types -> RowEntries]
        /\ UNCHANGED <<bought, owned, closing, legacy, final, trades>> /\ UNCHANGED <<OnChain, trades>>
        /\ u \in RowUpdates /\ u.of \in Types /\ u.do \in Jobs /\ u.at = "verify" /\ JobInOrder(u)
    BY DEF RowsInv, UpdatesInv, RowUpdates, VerifyOnChain, OnChain
  <1>2. u.do \in {"view", "cleanup"}
    BY <1>1 DEF JobInOrder, JobStages, Jobs
  <1>3. CASE Ends(u) /\ UNCHANGED <<entries, blurred>>
    BY <1>1, <1>2, <1>3, RowLeft
  <1>4. CASE /\ Found(u) = 0
             /\ entries' = [entries EXCEPT ![u.of] = Closed(@)]
             /\ updates' = Stale(u.of, updates \ {u}, Jobs) \cup {[u EXCEPT !.at = "close"]}
             /\ blurred' = IF u.stale \/ Unsettled(u.of) THEN blurred \cup {u.of} ELSE blurred
    <2>1. PICK w, mid, jobs : w = [u EXCEPT !.at = "close"] /\ mid = Stale(u.of, jobs, Jobs) /\ jobs = updates \ {u}
      OBVIOUS
    <2>2. /\ w \in RowUpdates /\ w.do = u.do /\ w.of = u.of /\ w.n = u.n /\ w.at = "close"
          /\ updates' = mid \cup {w}
      BY <1>1, <1>4, <2>1 DEF RowUpdates
    <2>3. /\ jobs \in SUBSET RowUpdates /\ jobs \in SUBSET updates /\ TradesDiffer(jobs)
          /\ \A q : /\ TradesOf(jobs, "buy", q) = TradesOf(updates, "buy", q)
                    /\ TradesOf(jobs, "sell", q) = TradesOf(updates, "sell", q)
      <3>1. /\ jobs \in SUBSET RowUpdates /\ jobs \in SUBSET updates /\ u.do # "buy" /\ u.do # "sell"
        BY <1>1, <1>2, <2>1 DEF UpdatesInv
      <3> QED
        BY <1>1, <2>1, <3>1, TradesWithout
    <2>4. /\ mid \subseteq RowUpdates /\ TradesDiffer(mid)
          /\ \A do, q : TradesOf(mid, do, q) = TradesOf(jobs, do, q)
          /\ \A x \in mid :
               \E v \in jobs : /\ x.do = v.do /\ x.of = v.of /\ x.at = v.at /\ x.copy = v.copy /\ x.n = v.n
                               /\ x.stale = (v.stale \/ (v.of = u.of /\ v.at # "read" /\ v.do \in Jobs))
      <3>1. jobs \in SUBSET RowUpdates /\ TradesDiffer(jobs) /\ mid = Stale(u.of, jobs, Jobs)
        BY <2>1, <2>3
      <3> QED
        BY <3>1, StaleJobs
    <2>5. /\ TradesDiffer(updates')
          /\ \A q : /\ TradesOf(updates', "buy", q) = TradesOf(updates, "buy", q)
                    /\ TradesOf(updates', "sell", q) = TradesOf(updates, "sell", q)
      <3>1. w.do \notin {"buy", "sell"}
        BY <1>2, <2>2
      <3>2. TradesDiffer(mid \cup {w})
        BY <2>4, <3>1 DEF TradesDiffer
      <3>3. ASSUME NEW q, NEW kind \in {"buy", "sell"} PROVE TradesOf(mid \cup {w}, kind, q) = TradesOf(mid, kind, q)
        BY <3>1 DEF TradesOf
      <3> QED
        BY <2>2, <2>3, <2>4, <3>2, <3>3
    <2>6. UpdatesInv'
      <3>1. JobInOrder(w)'
        BY <1>2, <2>2 DEF JobInOrder, JobStages
      <3>2. ASSUME NEW x \in mid PROVE JobInOrder(x)'
        <4>1. PICK v \in jobs : x.do = v.do /\ x.of = v.of /\ x.at = v.at /\ x.copy = v.copy /\ x.n = v.n
          BY <2>4
        <4>2. v \in RowUpdates /\ JobInOrder(v)
          BY <1>1, <2>3 DEF UpdatesInv
        <4>3. trades' \in Nat /\ trades' = trades /\ (closing = 0 => closing' = 0)
          BY <1>1 DEF AccountsInv
        <4> QED
          BY <1>1, <4>1, <4>2, <4>3, InOrderKept
      <3> QED
        BY <2>2, <2>4, <2>5, <3>1, <3>2 DEF UpdatesInv, TradesDiffer
    <2>7. AccountsInv'
      BY <1>1 DEF AccountsInv
    <2>8. PICK line \in RowEntries : line = Closed(entries[u.of]) /\ line.shares = 0 /\ line.open = FALSE
      <3>1. PICK e \in RowEntries : e = entries[u.of]
        BY <1>1
      <3> QED
        BY <3>1, ClosedIs
    <2>9. entries' = [entries EXCEPT ![u.of] = line] /\ entries' \in [Types -> RowEntries]
      BY <1>1, <1>4, <2>8
    <2>10. ASSUME NEW q \in Types \ (blurred \cup legacy)' PROVE RowAccounted(q)'
      <3>1. q \notin blurred \cup legacy /\ RowAccounted(q)
        BY <1>1, <1>4, <2>10 DEF RowsInv
      <3>2. CASE q = u.of
        <4>1. ~u.stale /\ ~Unsettled(q) /\ q \notin legacy
          BY <1>4, <2>10, <3>1, <3>2
        <4>2. bought[q] = 0
          BY <1>4, <3>2, <4>1 DEF Found
        <4>3. owned[q] = 0 /\ \A x \in RowEntries : Balanced(q, x, updates) <=> x.shares = owned[q]
          BY <4>1, <4>2, NothingUnsettled
        <4>4. Balanced(q, line, updates) /\ entries'[q] = line
          BY <1>1, <2>8, <2>9, <3>2, <4>3
        <4>5. Balanced(q, entries[q], updates)'
          BY <1>1, <2>5, <4>4 DEF Balanced
        <4>6. (entries[q].open <=> entries[q].shares > 0)'
          BY <2>8, <4>4
        <4>7. ASSUME NEW x \in updates', x.of = q
              PROVE  x.at = "read" \/ x.stale \/ (x.at = "close" /\ entries'[q].shares = 0)
          <5>1. CASE x = w
            BY <2>2, <2>8, <4>4, <5>1
          <5>2. CASE x \in mid
            <6>1. PICK v \in jobs : /\ x.of = v.of /\ x.at = v.at
                                    /\ x.stale = (v.stale \/ (v.of = u.of /\ v.at # "read" /\ v.do \in Jobs))
              BY <2>4, <5>2
            <6>2. v.do \in Jobs
              BY <2>3 DEF RowUpdates
            <6> QED
              BY <3>2, <4>7, <6>1, <6>2
          <5> QED
            BY <2>2, <5>1, <5>2
        <4> QED
          BY <4>5, <4>6, <4>7, RowSet
      <3>3. CASE q # u.of
        <4>1. /\ entries'[q] = entries[q] /\ owned'[q] = owned[q]
              /\ TradesOf(updates', "buy", q) = TradesOf(updates, "buy", q)
              /\ TradesOf(updates', "sell", q) = TradesOf(updates, "sell", q)
          BY <1>1, <2>5, <2>9, <3>3
        <4>2. ASSUME NEW x \in updates' PROVE x.of = q /\ ~x.stale => UpToDate(x, entries[q])
          <5>1. CASE x = w
            BY <2>2, <3>3, <5>1
          <5>2. CASE x \in mid
            <6>1. PICK v \in updates : x.of = v.of /\ x.at = v.at /\ x.copy = v.copy /\ (v.stale => x.stale)
              BY <2>3, <2>4, <5>2
            <6>2. \A y \in updates : y.of = q /\ ~y.stale => UpToDate(y, entries[q])
              BY <3>1 DEF RowAccounted
            <6> QED
              BY <1>1, <6>1, <6>2, OthersUpToDate
          <5> QED
            BY <2>2, <5>1, <5>2
        <4> QED
          BY <3>1, <4>1, <4>2, RowUntouched
      <3> QED
        BY <3>2, <3>3
    <2> QED
      BY <2>6, <2>7, <2>9, <2>10 DEF RowsInv
  <1> QED
    BY <1>3, <1>4 DEF VerifyOnChain

\* A redemption sets all rows.
LEMMA KeepsOnRedeem == ASSUME RowsInv, Redeem PROVE RowsInv'
  <1>1. /\ AccountsInv /\ UpdatesInv /\ TradesDiffer(updates) /\ entries \in [Types -> RowEntries]
        /\ closing = 0 /\ trades' = trades + 1 /\ final' = TRUE /\ owned' = [p \in Types |-> 0]
        /\ UNCHANGED <<bought, closing, legacy>>
        /\ \A u \in updates : u.do \notin {"buy", "sell"}
    BY DEF RowsInv, UpdatesInv, Redeem, Happens
  <1>2. AccountsInv' /\ trades' > trades /\ trades' \in Nat
    BY <1>1 DEF AccountsInv, Types
  <1>3. PICK jobs, mid : /\ jobs = updates /\ mid = Stale("leveraged", jobs, Jobs)
                         /\ updates' = Stale("spot", mid, Jobs)
    BY DEF Redeem
  <1>4. /\ mid \in SUBSET RowUpdates /\ TradesDiffer(mid)
        /\ \A w \in mid :
              \E v \in jobs : /\ w.do = v.do /\ w.of = v.of /\ w.at = v.at /\ w.copy = v.copy /\ w.n = v.n
                              /\ w.stale = (v.stale \/ (v.of = "leveraged" /\ v.at # "read" /\ v.do \in Jobs))
    <2>1. jobs \in SUBSET RowUpdates /\ TradesDiffer(jobs)
      BY <1>1, <1>3 DEF UpdatesInv
    <2> QED
      BY <1>3, <2>1, StaleJobs
  <1>5. /\ updates' \subseteq RowUpdates /\ TradesDiffer(updates')
        /\ \A w \in updates' :
              \E v \in mid : /\ w.do = v.do /\ w.of = v.of /\ w.at = v.at /\ w.copy = v.copy /\ w.n = v.n
                             /\ w.stale = (v.stale \/ (v.of = "spot" /\ v.at # "read" /\ v.do \in Jobs))
    BY <1>3, <1>4, StaleJobs
  <1>6. ASSUME NEW w \in updates'
        PROVE  /\ \E x \in updates : w.do = x.do /\ w.of = x.of /\ w.at = x.at /\ w.copy = x.copy /\ w.n = x.n
               /\ w.at = "read" \/ w.stale
    <2>1. PICK v \in mid : /\ w.do = v.do /\ w.of = v.of /\ w.at = v.at /\ w.copy = v.copy /\ w.n = v.n
                           /\ w.stale = (v.stale \/ (v.of = "spot" /\ v.at # "read" /\ v.do \in Jobs))
      BY <1>5
    <2>2. PICK x \in updates : /\ v.do = x.do /\ v.of = x.of /\ v.at = x.at /\ v.copy = x.copy /\ v.n = x.n
                           /\ v.stale = (x.stale \/ (x.of = "leveraged" /\ x.at # "read" /\ x.do \in Jobs))
      BY <1>3, <1>4
    <2>3. x.do \in Jobs /\ x.of \in {"spot", "leveraged"}
      BY <1>1 DEF UpdatesInv, RowUpdates, Types
    <2>4. w.at = "read" \/ w.stale
      BY <2>1, <2>2, <2>3
    <2> QED
      BY <2>1, <2>2, <2>4
  <1>7. UpdatesInv'
    <2>1. ASSUME NEW w \in updates' PROVE JobInOrder(w)'
      <3>1. PICK x \in updates : w.do = x.do /\ w.of = x.of /\ w.at = x.at /\ w.copy = x.copy /\ w.n = x.n
        BY <1>6
      <3>2. x \in RowUpdates /\ JobInOrder(x)
        BY <1>1 DEF UpdatesInv
      <3> QED
        BY <1>1, <1>2, <3>1, <3>2, InOrderKept
    <2> QED
      BY <1>5, <2>1 DEF UpdatesInv, TradesDiffer
  <1>8. CASE entries' = [p \in Types |-> Closed(entries[p])]
    <2>1. ASSUME NEW p \in Types
          PROVE  entries'[p] \in RowEntries /\ entries'[p].shares = 0 /\ entries'[p].open = FALSE
      <3>1. PICK e \in RowEntries : e = entries[p]
        BY <1>1
      <3> QED
        BY <1>8, <3>1, ClosedIs
    <2>2. entries' \in [Types -> RowEntries]
      BY <1>8, <2>1
    <2>3. ASSUME NEW q \in Types PROVE RowAccounted(q)'
      <3>1. /\ TradesOf(updates', "buy", q) = {} /\ TradesOf(updates', "sell", q) = {}
        BY <1>1, <1>6 DEF TradesOf
      <3>2. owned'[q] = 0 /\ Cardinality({}) = 0
        BY <1>1, FS_EmptySet
      <3>3. Balanced(q, entries[q], updates)'
        BY <2>1, <3>1, <3>2 DEF Balanced
      <3>4. (entries[q].open <=> entries[q].shares > 0)'
        <4>1. entries'[q].shares = 0 /\ entries'[q].open = FALSE
          BY <2>1
        <4> QED
          BY <4>1
      <3>5. \A w \in updates' : w.of = q => w.at = "read" \/ w.stale \/ (w.at = "close" /\ entries'[q].shares = 0)
        BY <1>6
      <3> QED
        BY <3>3, <3>4, <3>5, RowSet
    <2> QED
      BY <1>2, <1>7, <2>2, <2>3 DEF RowsInv
  <1>9. CASE blurred' = Types /\ UNCHANGED entries
    BY <1>1, <1>2, <1>7, <1>9 DEF RowsInv
  <1> QED
    BY <1>8, <1>9 DEF Redeem

\* No trade, no row.
LEMMA RowsStart == PositionsInit => RowsInv
  <1> SUFFICES ASSUME PositionsInit PROVE RowsInv
    OBVIOUS
  <1>1. AccountsInv
    BY DEF PositionsInit, AccountsInv, Types
  <1>2. UpdatesInv
    BY DEF PositionsInit, UpdatesInv, TradesDiffer
  <1>3. NoEntry \in RowEntries /\ NoEntry.shares = 0 /\ NoEntry.open = FALSE
    BY DEF NoEntry, RowEntries
  <1>4. ASSUME NEW p \in Types PROVE RowAccounted(p)
    <2>1. /\ updates = {} /\ entries[p] = NoEntry /\ owned[p] = 0 /\ Cardinality({}) = 0
          /\ TradesOf(updates, "buy", p) = {} /\ TradesOf(updates, "sell", p) = {}
      BY <1>4, FS_EmptySet DEF PositionsInit, TradesOf
    <2>2. Balanced(p, entries[p], updates)
      BY <1>3, <2>1 DEF Balanced
    <2> QED
      BY <1>3, <2>1, <2>2 DEF RowAccounted
  <1> QED
    BY <1>1, <1>2, <1>3, <1>4 DEF RowsInv, PositionsInit

\* Every step keeps the rows accounted for.
LEMMA RowsStep == ASSUME RowsInv, [PositionsNext]_positionrows PROVE RowsInv'
  <1>1. CASE UNCHANGED positionrows
    BY <1>1 DEF positionrows, RowsInv, AccountsInv, UpdatesInv, RowAccounted, Balanced, UpToDate,
                JobInOrder, TradesDiffer, TradesOf
  <1>2. ASSUME NEW p \in Types,
               Buy(p) \/ CloseOnChain(p) \/ GetPositions(p) \/ CleanupClosedPositions(p) \/ BackfillPositions(p)
        PROVE  RowsInv'
    <2>1. CASE GetPositions(p) \/ CleanupClosedPositions(p)
      BY <2>1, JobBegins DEF GetPositions, CleanupClosedPositions
    <2> QED
      BY <1>2, <2>1, KeepsOnBuy, KeepsOnCloseOnChain, KeepsOnBackfill
  <1>3. CASE SyncPosition
    <2>1. "leveraged" \in Types
      BY DEF Types
    <2> QED
      BY <1>3, <2>1, JobBegins DEF SyncPosition
  <1>4. CASE SellSpot \/ PlaceClose \/ FillClose \/ CancelClose \/ Redeem
    BY <1>4, KeepsOnSellSpot, KeepsOnPlaceClose, KeepsOnFillClose, KeepsOnCancelClose, KeepsOnRedeem
  <1>5. ASSUME NEW u \in updates,
               \/ ReadBuyer(u) \/ AddShares(u) \/ CreateEntry(u)
               \/ ReadSeller(u) \/ ReduceSeller(u)
               \/ ReadOpen(u) \/ VerifyOnChain(u) \/ CloseEmpty(u)
               \/ ReadAccount(u) \/ CloseUnread(u) \/ SyncEntry(u) \/ SyncNewEntry(u)
        PROVE  RowsInv'
    BY <1>5, KeepsOnRead, KeepsOnAdd, KeepsOnReduce, KeepsOnVerify, KeepsOnCloseEmpty, KeepsOnUnread, KeepsOnSync,
       KeepsOnNewEntry
  <1> QED
    BY <1>1, <1>2, <1>3, <1>4, <1>5 DEF PositionsNext

\* However trades, readings, scripts, failures and redemptions follow each other,
\* a row that is followed says what was bought and not sold, once the updates
\* that are about it have ended.
THEOREM RowsFollow == RowsSpec => []RowsFollowTrades
  <1>1. RowsInv => RowsFollowTrades
    <2> SUFFICES ASSUME RowsInv, NEW p \in Types \ (blurred \cup legacy), \A u \in updates : u.of # p
                 PROVE  entries[p].shares = owned[p] /\ entries[p].open = (owned[p] > 0)
      BY DEF RowsFollowTrades, Follows
    <2>1. RowAccounted(p) /\ entries[p] \in RowEntries /\ owned[p] \in Nat
      BY DEF RowsInv, AccountsInv
    <2>2. /\ TradesOf(updates, "buy", p) = {} /\ TradesOf(updates, "sell", p) = {} /\ Cardinality({}) = 0
      BY FS_EmptySet DEF TradesOf
    <2>3. entries[p].shares = owned[p]
      BY <2>1, <2>2 DEF RowAccounted, Balanced, RowEntries
    <2>4. entries[p].open \in BOOLEAN /\ (entries[p].open <=> owned[p] > 0)
      BY <2>1, <2>3 DEF RowAccounted, RowEntries
    <2> QED
      BY <2>3, <2>4
  <1> QED
    BY <1>1, RowsStart, RowsStep, PTL DEF RowsSpec
=============================================================================
