------------------------------- MODULE Keeper -------------------------------
(***************************************************************************)
(* The order keeper of the backend, composed with the program it drives:   *)
(* routes/orders.ts and orderService.ts (an order's row), websocket        *)
(* server.ts and routes/orderbook.ts (what sets a pass off),               *)
(* orderMatchingService.ts (a pass over the book) and                      *)
(* orderKeeperService.executeMatch (the three transactions of a match and  *)
(* the record of its fill).  Every await ends a step, but reads that       *)
(* follow each other with nothing in between make one step.                *)
(*                                                                         *)
(* A pass is one call of matchMarketOrders.  Placing order k sets off the  *)
(* pass named k, once, in the service instance of the WebSocket server; a  *)
(* request to POST /orderbook/:market/:outcome/match starts a pass named   *)
(* after the request in the instance of that route.                        *)
(***************************************************************************)
EXTENDS SpaceCore, OrderBook

CONSTANTS
    Intent,         \* what the owner of each order key places, one order per key
    Fickle,         \* the orders that their owner may cancel (bound)
    Requests,       \* requests to match the book
    Repeated,       \* those that are made again and again (bound: the others, once)
    MaxFaults       \* bound: how many calls fail or crashes happen

ASSUME KeeperAssumption ==
    /\ MaxFaults \in Nat
    /\ Intent \in [OrderKeys -> [side : {"Buy", "Sell"}, token : {"yes", "no"},
                                 outcome : OutcomeIds, price : Prices,
                                 quantity : Quantities, leverage : Leverages]]
    /\ Fickle \subseteq OrderKeys
    /\ Requests \cap OrderKeys = {} /\ Repeated \subseteq Requests

VARIABLES
    rows,           \* the `orders' table, oldest row first
    pass,           \* the passes
    executing,      \* OrderKeeperService.executingMatches of each instance
    placing,        \* rows whose placeOrder has not returned
    volume,         \* markets.totalVolume
    records,        \* history: how often the fill of each match was recorded
    faults          \* how many faults have happened

backend == <<rows, pass, executing, placing, volume, records, faults>>
kvars == <<vars, backend>>

Passes == OrderKeys \cup Requests
Instances == {"websocket", "route"}
InstanceOf(w) == IF w \in Requests THEN "route" ELSE "websocket"

StatusOf(filled, size) == IF filled >= size THEN "filled" ELSE "partially_filled"

RowOf(k) == {i \in DOMAIN rows : rows[i].key = k}

\* The fields of a row that the client copies from the order it placed.
NewRow(k) ==
    [key |-> k, side |-> IF order[k].side = "Buy" THEN "buy" ELSE "sell",
     type |-> IF order[k].order_type = "Limit" THEN "limit" ELSE "market",
     token |-> Intent[k].token, price |-> order[k].price, size |-> order[k].quantity,
     filled |-> 0, avg |-> 0, status |-> "open"]

\* `seen' is what the pass has read of the buy and the sell row.
Idle == [pc |-> "idle", queue |-> <<>>, size |-> 0, seen |-> <<>>]

KeeperInit ==
    /\ Init
    /\ rows = <<>>
    /\ pass = [w \in Passes |-> Idle]
    /\ executing = [i \in Instances |-> {}]
    /\ placing = {}
    /\ volume = 0
    /\ records = [m \in Matches |-> 0]
    /\ faults = 0

-----------------------------------------------------------------------------
(***************************************************************************)
(* The users: they place and cancel on the chain, then tell the backend.   *)
(***************************************************************************)
OnChain(k) ==
    LET i == Intent[k] IN
    \/ i.side = "Buy" /\ PlaceBuyOrder(k, i.outcome, i.price, i.quantity, i.leverage)
    \/ i.side = "Sell" /\ i.token = "yes" /\ PlaceYesLimitSellOrder(k, i.outcome, i.price, i.quantity)
    \/ i.side = "Sell" /\ i.token = "no" /\ PlaceNoLimitSellOrder(k, i.outcome, i.price, i.quantity)

\* (Bounds: sets are minted and burned before the first order is placed; orders
\* are placed and posted in the order of their ids; a behaviour has faults or
\* cancellations, not both.)
Earlier(k) == {j \in OrderKeys : OrderId(j) < OrderId(k)}

UserSteps ==
    /\ \/ (\A k \in OrderKeys : order[k].status = "Absent") /\ SetSteps
       \/ faults = 0 /\ \E k \in Fickle : CancelOrder(k) \/ CancelSellOrder(k) \/ CancelNoSellOrder(k)
       \/ Tick
       \/ \E k \in OrderKeys : (\A j \in Earlier(k) : order[j].status # "Absent") /\ OnChain(k)
    /\ UNCHANGED backend

\* POST /orders/limit or /orders/market.  The row is created and, 50 ms and
\* another 100 ms later, `order_placed' starts a pass.
PostOrder(k) ==
    /\ order[k].status # "Absent" /\ RowOf(k) = {} /\ \A j \in Earlier(k) : RowOf(j) # {}
    /\ rows' = Append(rows, NewRow(k))
    /\ pass' = [pass EXCEPT ![k].pc = "due"]
    /\ placing' = placing \cup {Len(rows) + 1}
    /\ UNCHANGED <<vars, executing, volume, records, faults>>

\* The end of placeOrder: the row is read again and its status follows `filled'.
SettlePlacement(i) ==
    /\ i \in placing
    /\ placing' = placing \ {i}
    /\ rows' = [rows EXCEPT ![i].status = IF rows[i].filled = 0 THEN @
                                          ELSE StatusOf(rows[i].filled, rows[i].size)]
    /\ UNCHANGED <<vars, pass, executing, volume, records, faults>>

\* DELETE /orders/:id, once the order is cancelled on the chain.  (The read of
\* the row and its save are one step.)
CancelRow(i) ==
    /\ order[rows[i].key].status = "Cancelled"
    /\ rows[i].status \notin {"filled", "cancelled"}
    /\ rows' = [rows EXCEPT ![i].status = "cancelled"]
    /\ UNCHANGED <<vars, pass, executing, placing, volume, records, faults>>

RequestMatch(w) ==
    /\ w \in Requests /\ pass[w].pc = "idle"
    /\ pass' = [pass EXCEPT ![w].pc = "due"]
    /\ UNCHANGED <<vars, rows, executing, placing, volume, records, faults>>

-----------------------------------------------------------------------------
(***************************************************************************)
(* A pass.                                                                 *)
(***************************************************************************)
Match(w) == Head(pass[w].queue)
BuyRow(w) == rows[Match(w).buy]
SellRow(w) == rows[Match(w).sell]
MatchKey(w) == <<Match(w).buy, Match(w).sell>>
Pair(w) == Match(w).pair
Stage(w) == matchState[Pair(w)].stage

Inside == {"inspect", "validate", "escrow", "buyer", "check", "seller",
           "read", "saveBuy", "saveSell"}

At(w, pc) == pass[w].pc = pc
Goto(w, pc) == pass' = [pass EXCEPT ![w].pc = pc]

\* On to the next match of the queue, or the end of the pass.
Skip(w) ==
    pass' = [pass EXCEPT ![w] =
               IF Len(@.queue) > 1 THEN [Idle EXCEPT !.pc = "refresh", !.queue = Tail(pass[w].queue)]
               ELSE [Idle EXCEPT !.pc = IF w \in Repeated THEN "idle" ELSE "done"]]

\* executeMatch returns, by its end, an early return or an exception: the
\* `finally' releases the key, which names the two rows.
Release(w) == executing' = [executing EXCEPT ![InstanceOf(w)] = @ \ {MatchKey(w)}]
Return(w) == Skip(w) /\ Release(w)

\* What matchOrders finds in the rows as they are, with the ids of the orders,
\* which name the MatchState and never change.
Found ==
    LET found == MatchOrders(rows)
        IdOf(i) == OrderId(rows[i].key)
    IN  [n \in DOMAIN found |->
            LET m == found[n]
            IN  [buy |-> m.buy, sell |-> m.sell, price |-> m.price,
                 pair |-> <<IdOf(m.buy), IdOf(m.sell)>>]]

FindMatches(w) ==
    /\ At(w, "due")
    /\ \E found \in {Found} :
         /\ found # <<>>
         /\ pass' = [pass EXCEPT ![w] = [Idle EXCEPT !.queue = found, !.pc = "refresh"]]
    /\ UNCHANGED <<vars, rows, executing, placing, volume, records, faults>>

FindNone(w) ==
    /\ At(w, "due")
    /\ Found = <<>>
    /\ pass' = [pass EXCEPT ![w] = [Idle EXCEPT !.pc = IF w \in Repeated THEN "idle" ELSE "done"]]
    /\ UNCHANGED <<vars, rows, executing, placing, volume, records, faults>>

\* The rows are read again; a filled one ends the match.
Refresh(w) ==
    /\ At(w, "refresh")
    /\ IF "filled" \in {BuyRow(w).status, SellRow(w).status}
       THEN Skip(w)
       ELSE pass' = [pass EXCEPT ![w].pc = "size",
                                 ![w].seen = <<BuyRow(w), SellRow(w)>>]
    /\ UNCHANGED <<vars, rows, executing, placing, volume, records, faults>>

\* An order that is Filled on the chain has its row set to filled.
Synced(i) ==
    IF order[rows[i].key].status = "Filled"
    THEN [rows[i] EXCEPT !.status = "filled", !.filled = rows[i].size]
    ELSE rows[i]

SyncRows(w) ==
    LET b == Match(w).buy
        s == Match(w).sell
    IN  rows' = [rows EXCEPT ![b] = Synced(b), ![s] = Synced(s)]

FilledOnChain(w) ==
    "Filled" \in {order[BuyRow(w).key].status, order[SellRow(w).key].status}

\* Nothing is left to fill, of the rows as they were read or by `size'.
NothingLeft(w, size) == size <= 0 \/ \E i \in 1..2 : RemainingSize(pass[w].seen[i]) <= 0

\* (A mutant: the key is taken without a look at who holds it.)
EnterAnyway(w, size) ==
    IF NothingLeft(w, size) THEN Skip(w) /\ UNCHANGED executing
    ELSE /\ pass' = [pass EXCEPT ![w].pc = "inspect", ![w].size = size, ![w].seen = <<>>]
         /\ executing' = [executing EXCEPT ![InstanceOf(w)] = @ \cup {MatchKey(w)}]

\* matchMarketOrders goes on with `size', and executeMatch takes the key unless
\* it is taken or nothing is left to fill.
Enter(w, size) ==
    IF NothingLeft(w, size) \/ MatchKey(w) \in executing[InstanceOf(w)]
    THEN Skip(w) /\ UNCHANGED executing
    ELSE /\ pass' = [pass EXCEPT ![w].pc = "inspect", ![w].size = size, ![w].seen = <<>>]
         /\ executing' = [executing EXCEPT ![InstanceOf(w)] = @ \cup {MatchKey(w)}]

\* What the chain says is left to fill counts.
SizeFromChain(w) ==
    /\ At(w, "size")
    /\ IF FilledOnChain(w)
       THEN SyncRows(w) /\ Skip(w) /\ UNCHANGED executing
       ELSE /\ Enter(w, Lesser(Remaining(BuyRow(w).key), Remaining(SellRow(w).key)))
            /\ UNCHANGED rows
    /\ UNCHANGED <<vars, placing, volume, records, faults>>

-----------------------------------------------------------------------------
(***************************************************************************)
(* executeMatch, with the key taken.                                       *)
(***************************************************************************)
\* The accounts of the orders and of the match are read.
Inspect(w) ==
    /\ At(w, "inspect")
    /\ IF Stage(w) # "Executed" /\ FilledOnChain(w)
       THEN SyncRows(w) /\ Return(w)
       ELSE /\ \/ Stage(w) = "Executed" /\ Return(w)
               \/ /\ Stage(w) = "Absent"
                  /\ ~(Live(BuyRow(w).key) /\ Live(SellRow(w).key))
                  /\ Return(w)
               \/ /\ Stage(w) = "Absent"
                  /\ Live(BuyRow(w).key) /\ Live(SellRow(w).key)
                  /\ Goto(w, "validate") /\ UNCHANGED executing
               \/ /\ Stage(w) \in {"Validated", "BuyExecuted"}
                  /\ Goto(w, "escrow") /\ UNCHANGED executing
            /\ UNCHANGED rows
    /\ UNCHANGED <<vars, placing, volume, records, faults>>

\* Step 1.
TxValidate(w) == ValidateMatch(BuyRow(w).key, SellRow(w).key, Match(w).price, pass[w].size)

Validate(w) ==
    /\ At(w, "validate")
    /\ TxValidate(w)
    /\ Goto(w, "escrow")
    /\ UNCHANGED <<rows, executing, placing, volume, records, faults>>

\* `already in use' goes on with the match another validated.
ValidateRejected(w) ==
    /\ At(w, "validate")
    /\ ~ENABLED TxValidate(w)
    /\ IF Stage(w) = "Absent" THEN Return(w) ELSE Goto(w, "escrow") /\ UNCHANGED executing
    /\ UNCHANGED <<vars, rows, placing, volume, records, faults>>

\* (A mutant: a buyer half that is done is taken for a match that is done.)
EscrowSkipsSeller(w) ==
    /\ At(w, "escrow")
    /\ Goto(w, IF Stage(w) = "Validated" THEN "buyer" ELSE "read")
    /\ UNCHANGED <<vars, rows, executing, placing, volume, records, faults>>

\* The token is the row's or that of the escrow account; its escrow exists.
\* Has the buyer half been executed?
Escrow(w) ==
    /\ At(w, "escrow")
    /\ Goto(w, IF Stage(w) = "Validated" THEN "buyer" ELSE "check")
    /\ UNCHANGED <<vars, rows, executing, placing, volume, records, faults>>

\* Step 2.
IsNoTrade(w) == SellRow(w).token = "no" \/ order[SellRow(w).key].token_type = "NO"

\* The accounts sent are those of the rows' orders, and the program takes none
\* but those of its match.
TxBuyer(w) ==
    /\ BuyKey(Pair(w)) = BuyRow(w).key /\ SellKey(Pair(w)) = SellRow(w).key
    /\ IF IsNoTrade(w) THEN ExecuteNoBuyerMatch(Pair(w)) ELSE ExecuteYesBuyerMatch(Pair(w))

\* (A mutant: the match ends with its buyer half.)
BuyerOnly(w) ==
    /\ At(w, "buyer")
    /\ TxBuyer(w)
    /\ Return(w)
    /\ UNCHANGED <<rows, placing, volume, records, faults>>

Buyer(w) ==
    /\ At(w, "buyer")
    /\ TxBuyer(w)
    /\ Goto(w, "check")
    /\ UNCHANGED <<rows, executing, placing, volume, records, faults>>

\* The program answers InvalidOrder to a half that has been executed, by another,
\* and to no other: then the row's status is made to follow its fill and the match
\* goes on to the check.  Any other error, of a match still Validated, ends it.
BuyerRejected(w) ==
    /\ At(w, "buyer")
    /\ ~ENABLED TxBuyer(w)
    /\ IF Stage(w) = "Validated"
       THEN Return(w) /\ UNCHANGED rows
       ELSE /\ rows' = [rows EXCEPT ![Match(w).buy].status =
                           StatusOf(BuyRow(w).filled, BuyRow(w).size)]
            /\ Goto(w, "check") /\ UNCHANGED executing
    /\ UNCHANGED <<vars, placing, volume, records, faults>>

\* Step 3.  The last look before the seller half: only a match that waits for
\* it, of a sell order that is not Filled, goes on.
Check(w) ==
    /\ At(w, "check")
    /\ IF Stage(w) # "BuyExecuted" \/ order[SellRow(w).key].status = "Filled"
       THEN Return(w)
       ELSE Goto(w, "seller") /\ UNCHANGED executing
    /\ UNCHANGED <<vars, rows, placing, volume, records, faults>>

\* It looks at the sell order's accounts alone.
TxSeller(w) == SellKey(Pair(w)) = SellRow(w).key /\ ExecuteSellerMatch(Pair(w))

Seller(w) ==
    /\ At(w, "seller")
    /\ TxSeller(w)
    /\ Goto(w, "read")
    /\ UNCHANGED <<rows, executing, placing, volume, records, faults>>

\* (A mutant: InvalidOrder is taken for a success, as it is after the buyer half.)
SellerAssumed(w) ==
    /\ At(w, "seller")
    /\ ~ENABLED TxSeller(w)
    /\ IF Stage(w) = "Executed" THEN Goto(w, "read") /\ UNCHANGED executing ELSE Return(w)
    /\ UNCHANGED <<vars, rows, placing, volume, records, faults>>

SellerRejected(w) ==
    /\ At(w, "seller")
    /\ ~ENABLED TxSeller(w)
    /\ Return(w)
    /\ UNCHANGED <<vars, rows, placing, volume, records, faults>>

-----------------------------------------------------------------------------
(***************************************************************************)
(* The record of the fill: both rows are read, changed and saved one after *)
(* the other; the market's volume is then raised in one SQL statement.     *)
(* Sequelize saves the fields that differ from what was read.  (The        *)
(* positions, trade counts and points that follow are in Positions and     *)
(* Referrals; they are rows of other tables.)                              *)
(***************************************************************************)
ReadRows(w) ==
    /\ At(w, "read")
    /\ pass' = [pass EXCEPT ![w].pc = "saveBuy", ![w].seen = <<BuyRow(w), SellRow(w)>>]
    /\ UNCHANGED <<vars, rows, executing, placing, volume, records, faults>>

Price(w) == matchState[Pair(w)].match_price

\* Math.round of the weighted average.
AvgFillPrice(r, size, price) ==
    LET total == r.filled + size IN
    IF r.filled = 0 THEN price
    ELSE (2 * (r.avg * r.filled + price * size) + total) \div (2 * total)

Saved(w, i, old) ==
    LET filled == old.filled + pass[w].size
        status == StatusOf(filled, old.size)
    IN  [rows[i] EXCEPT !.filled = filled,
                        !.avg = AvgFillPrice(old, pass[w].size, Price(w)),
                        !.status = IF status = old.status THEN @ ELSE status]

SaveBuy(w) ==
    /\ At(w, "saveBuy")
    /\ rows' = [rows EXCEPT ![Match(w).buy] = Saved(w, Match(w).buy, pass[w].seen[1])]
    /\ Goto(w, "saveSell")
    /\ records' = [records EXCEPT ![Pair(w)] = @ + 1]
    /\ UNCHANGED <<vars, executing, placing, volume, faults>>

SaveSell(w) ==
    /\ At(w, "saveSell")
    /\ rows' = [rows EXCEPT ![Match(w).sell] = Saved(w, Match(w).sell, pass[w].seen[2])]
    /\ volume' = volume + QuoteValue(pass[w].size, Price(w))
    /\ Return(w)
    /\ UNCHANGED <<vars, placing, records, faults>>

-----------------------------------------------------------------------------
(***************************************************************************)
(* What goes wrong.                                                        *)
(***************************************************************************)
Fault ==
    /\ faults < MaxFaults
    /\ \A k \in Fickle : order[k].status # "Cancelled"
    /\ faults' = faults + 1

\* The chain cannot be read: the rows say what is left.
SizeFromRows(w) ==
    /\ Fault
    /\ At(w, "size")
    /\ Enter(w, Lesser(RemainingSize(pass[w].seen[1]), RemainingSize(pass[w].seen[2])))
    /\ UNCHANGED <<vars, rows, placing, volume, records>>

\* The RPC node does not know an order's account, or the sell order's escrow,
\* yet: the row is cancelled.
AccountUnseen(w, i) ==
    /\ Fault
    /\ \/ At(w, "inspect") /\ i \in {Match(w).buy, Match(w).sell}
       \/ At(w, "escrow") /\ i = Match(w).sell
    /\ rows' = [rows EXCEPT ![i].status = "cancelled"]
    /\ Return(w)
    /\ UNCHANGED <<vars, placing, volume, records>>

\* A call to the chain or the database fails.
CallFails(w) ==
    /\ Fault
    /\ pass[w].pc \in Inside
    /\ Return(w)
    /\ UNCHANGED <<vars, rows, placing, volume, records>>

\* A transaction lands but its confirmation is not seen.
LandsUnseen(w) ==
    /\ Fault
    /\ \/ At(w, "validate") /\ TxValidate(w)
       \/ At(w, "buyer") /\ TxBuyer(w)
       \/ At(w, "seller") /\ TxSeller(w)
    /\ Return(w)
    /\ UNCHANGED <<rows, placing, volume, records>>

\* The process dies with everything in its memory, and starts again.
Crash ==
    /\ Fault
    /\ pass' = [w \in Passes |-> [Idle EXCEPT !.pc =
                   IF w \in Repeated \/ pass[w].pc = "idle" THEN "idle" ELSE "done"]]
    /\ executing' = [i \in Instances |-> {}]
    /\ placing' = {}
    /\ UNCHANGED <<vars, rows, volume, records>>

-----------------------------------------------------------------------------
PassStep(w) ==
    \/ FindMatches(w) \/ FindNone(w) \/ Refresh(w) \/ SizeFromChain(w) \/ Inspect(w)
    \/ Validate(w) \/ ValidateRejected(w) \/ Escrow(w)
    \/ Buyer(w) \/ BuyerRejected(w)
    \/ Check(w) \/ Seller(w) \/ SellerRejected(w)
    \/ ReadRows(w) \/ SaveBuy(w) \/ SaveSell(w)

Faults ==
    \/ \E w \in Passes : \/ SizeFromRows(w) \/ CallFails(w) \/ LandsUnseen(w)
                        \/ \E i \in DOMAIN rows : AccountUnseen(w, i)
    \/ Crash

KeeperNext ==
    \/ UserSteps
    \/ \E k \in OrderKeys : PostOrder(k)
    \/ \E i \in DOMAIN rows : SettlePlacement(i) \/ CancelRow(i)
    \/ \E w \in Requests : RequestMatch(w)
    \/ \E w \in Passes : PassStep(w)
    \/ Faults

KeeperSpec == KeeperInit /\ [][KeeperNext]_kvars

\* The event loop runs every continuation, and every call returns or fails;
\* users owe nothing, and requests come again and again.
FairKeeperSpec ==
    /\ KeeperSpec
    /\ \A w \in Passes : WF_kvars(PassStep(w))
    /\ \A w \in Requests : WF_kvars(RequestMatch(w))

-----------------------------------------------------------------------------
\* Two passes of one instance never execute the same match at once, whatever
\* failed before: executeMatch releases the key of a match on every way out,
\* and only its own.
OnePassPerMatch ==
    \A v, w \in Passes :
        /\ v # w /\ InstanceOf(v) = InstanceOf(w)
        /\ pass[v].pc \in Inside /\ pass[w].pc \in Inside
        => MatchKey(v) # MatchKey(w)

\* No row says that an order was filled before the chain does, although rows
\* are written by passes, placements and cancellations that read the chain
\* and the rows long before.
RowsFollowChain ==
    \A i \in DOMAIN rows : rows[i].filled > 0 => order[rows[i].key].filled_quantity > 0

\* The abstract specification, of the stages on chain and what was recorded.
Ledger == INSTANCE Settlement WITH
            Pairs <- Matches, stage <- [m \in Matches |-> matchState[m].stage]

\* Every match goes through its stages once and is recorded at most once, when
\* both its halves are done, for any number of passes, instances and crashes.
SettlesOnce == Ledger!Spec

\* The orders' owners mean to trade with each other.
Opposed == {m \in Matches : \E b, s \in OrderKeys :
                /\ m = <<OrderId(b), OrderId(s)>>
                /\ Intent[b].side = "Buy" /\ Intent[s].side = "Sell"}

\* A trade whose buyer half is done gets its seller half, unless a call fails.
SellerPaidUnlessFault ==
    \A m \in Opposed :
        matchState[m].stage = "BuyExecuted" ~>
            (matchState[m].stage = "Executed" \/ faults > 0)

\* (Refuted.)  Step 3 follows step 2 whatever fails, since matches are retried.
SellerPaid ==
    \A m \in Opposed :
        matchState[m].stage = "BuyExecuted" ~> matchState[m].stage = "Executed"
=============================================================================
