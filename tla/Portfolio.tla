------------------------------ MODULE Portfolio ------------------------------
(***************************************************************************)
(* What a page shows of a wallet: its positions (PositionsContext.tsx,     *)
(* shared by all panels) and its orders (useUserOrdersWebSocket.ts).  Both *)
(* are read by requests whose answers may come late, and refreshed by the  *)
(* keeper's pushes.  The wallet may be switched at any time; 0 is none.    *)
(* The rows of a wallet are a version number, which every match raises.    *)
(***************************************************************************)
EXTENDS Integers, FiniteSets

CONSTANTS
    Wallets,        \* positive numbers
    MaxMatches,     \* bound on the changes of a wallet's rows
    MaxSwitches,    \* bound on the changes of wallet
    MaxFailures     \* bound on the requests that fail

ASSUME PortfolioAssumption ==
    Wallets \subseteq Nat \ {0} /\ {MaxMatches, MaxSwitches, MaxFailures} \subseteq Nat

VARIABLES
    wallet,         \* the connected wallet
    rows,           \* the version of each wallet's rows in the backend
    positions,      \* the positions shown: whose, of which version
    fetchInFlight,  \* fetchInFlightRef: the request for positions under way, if any
    timers,         \* the delayed fetches, with the wallet their closures hold
    orders,         \* the orders shown
    hasFetched,     \* and whether they need no fetch
    requests,       \* requests for orders under way
    switches, failures

portfolio == <<wallet, rows, positions, fetchInFlight, timers, orders, hasFetched, requests,
               switches, failures>>

Nothing == [of |-> 0, seen |-> 0]
Request(w) == [for |-> w, got |-> -1, cancelled |-> FALSE]

PortfolioInit ==
    /\ wallet = 0
    /\ rows = [w \in Wallets |-> 0]
    /\ positions = Nothing /\ fetchInFlight = {} /\ timers = {}
    /\ orders = Nothing /\ hasFetched = FALSE /\ requests = {}
    /\ switches = 0 /\ failures = 0

positionsVars == <<positions, fetchInFlight, timers>>
ordersVars == <<orders, hasFetched, requests>>

-----------------------------------------------------------------------------
\* (A mutant: a request of its own for every call.)
FetchAnew(w) == IF w = 0 THEN fetchInFlight ELSE fetchInFlight \cup {Request(w)}

\* fetchPositions(force = true): a fetch under way, for whichever wallet, is joined.
Fetch(w) == IF w = 0 \/ fetchInFlight # {} THEN fetchInFlight ELSE {Request(w)}

\* (A mutant: a request is never told that its wallet is gone.)
CancelNone == requests

\* The cleanup of the effect that fetches orders.
CancelRequests == {[r EXCEPT !.cancelled = TRUE] : r \in requests}

\* The wallet changes, and the effects of both hooks run: positions are cleared
\* or fetched, orders are cleared, or fetched unless they have been.
SwitchWallet(w) ==
    /\ switches < MaxSwitches /\ switches' = switches + 1
    /\ w # wallet /\ wallet' = w
    /\ positions' = IF w = 0 THEN Nothing ELSE positions
    /\ fetchInFlight' = Fetch(w)
    /\ orders' = IF w = 0 THEN Nothing ELSE orders
    /\ hasFetched' = (hasFetched /\ w # 0)
    /\ requests' = CancelRequests \cup (IF w = 0 \/ hasFetched THEN {} ELSE {Request(w)})
    /\ UNCHANGED <<rows, timers, failures>>

-----------------------------------------------------------------------------
(* Positions.                                                              *)

\* The backend reads the rows, and later the page gets the answer.
AnswerPositions(r) ==
    /\ r.got = -1
    /\ fetchInFlight' = (fetchInFlight \ {r}) \cup {[r EXCEPT !.got = rows[r.for]]}
    /\ UNCHANGED <<wallet, rows, positions, timers, ordersVars, switches, failures>>

PositionsArrive(r) ==
    /\ r.got # -1
    /\ positions' = [of |-> r.for, seen |-> r.got]
    /\ fetchInFlight' = fetchInFlight \ {r}
    /\ UNCHANGED <<wallet, rows, timers, ordersVars, switches, failures>>

PositionsFail(r) ==
    /\ failures < MaxFailures /\ failures' = failures + 1
    /\ fetchInFlight' = fetchInFlight \ {r}
    /\ UNCHANGED <<wallet, rows, positions, timers, ordersVars, switches>>

\* A delayed fetch.  The one of a push also raises the event that starts another.
TimerFires(t) ==
    /\ t \in timers
    /\ fetchInFlight' = Fetch(t.for)
    /\ timers' = (timers \ {t}) \cup (IF t.on = "push" /\ wallet # 0
                                      THEN {[on |-> "refresh", for |-> wallet]} ELSE {})
    /\ UNCHANGED <<wallet, rows, positions, ordersVars, switches, failures>>

\* refetch() of a panel, and the event a panel raises after a trade.
Refetch ==
    /\ fetchInFlight' = Fetch(wallet)
    /\ UNCHANGED <<wallet, rows, positions, timers, ordersVars, switches, failures>>

PositionsRefresh ==
    /\ wallet # 0
    /\ timers' = timers \cup {[on |-> "refresh", for |-> wallet]}
    /\ UNCHANGED <<wallet, rows, positions, fetchInFlight, ordersVars, switches, failures>>

-----------------------------------------------------------------------------
(* Orders.                                                                 *)

AnswerOrders(r) ==
    /\ r \in requests /\ r.got = -1
    /\ requests' = (requests \ {r}) \cup {[r EXCEPT !.got = rows[r.for]]}
    /\ UNCHANGED <<wallet, rows, positionsVars, orders, hasFetched, switches, failures>>

\* An answer counts unless its effect was cleaned up.
OrdersArrive(r) ==
    /\ r \in requests /\ r.got # -1
    /\ requests' = requests \ {r}
    /\ IF r.cancelled THEN UNCHANGED <<orders, hasFetched>>
       ELSE orders' = [of |-> r.for, seen |-> r.got] /\ hasFetched' = TRUE
    /\ UNCHANGED <<wallet, rows, positionsVars, switches, failures>>

OrdersFail(r) ==
    /\ failures < MaxFailures /\ failures' = failures + 1
    /\ r \in requests /\ requests' = requests \ {r}
    /\ hasFetched' = (hasFetched \/ ~r.cancelled)
    /\ UNCHANGED <<wallet, rows, positionsVars, orders, switches>>

-----------------------------------------------------------------------------
\* The keeper settles a match of w and pushes order_update and position_update
\* (`refetch'), or the page is not subscribed and misses them.  An order that
\* the list does not have makes the hook fetch again, unless it is fetching.
Match(w) ==
    /\ rows[w] < MaxMatches
    /\ rows' = [rows EXCEPT ![w] = @ + 1]
    /\ \/ UNCHANGED <<positionsVars, ordersVars>>
       \/ /\ w = wallet
          /\ timers' = timers \cup {[on |-> "push", for |-> w]}
          /\ IF orders.of = w
             THEN orders' = [orders EXCEPT !.seen = rows[w] + 1] /\ UNCHANGED <<hasFetched, requests>>
             ELSE /\ hasFetched' = FALSE
                  /\ requests' = IF hasFetched THEN requests \cup {Request(w)} ELSE requests
                  /\ UNCHANGED orders
          /\ UNCHANGED <<positions, fetchInFlight>>
    /\ UNCHANGED <<wallet, switches, failures>>

PortfolioNext ==
    \/ \E w \in Wallets \cup {0} : SwitchWallet(w)
    \/ \E r \in fetchInFlight : AnswerPositions(r) \/ PositionsArrive(r) \/ PositionsFail(r)
    \/ \E t \in timers : TimerFires(t)
    \/ Refetch
    \/ PositionsRefresh
    \/ \E r \in requests : AnswerOrders(r) \/ OrdersArrive(r) \/ OrdersFail(r)
    \/ \E w \in Wallets : Match(w)

PortfolioSpec == PortfolioInit /\ [][PortfolioNext]_portfolio

-----------------------------------------------------------------------------
\* The positions shown never go back to an older state of the same wallet,
\* however its fetches, pushes, timers and wallet switches interleave: fetches
\* never overlap (PositionsContext.tsx 89-92).
PositionsNeverRegress ==
    [][positions'.of = positions.of => positions'.seen >= positions.seen]_positions

\* An answer that arrives after its wallet is gone is not shown as the orders of
\* the next one (useUserOrdersWebSocket.ts 62-93).
LateOrdersDropped == [][orders'.of \in {0, wallet'}]_orders
=============================================================================
