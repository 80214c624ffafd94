----------------------------- MODULE BookProofs -----------------------------
(***************************************************************************)
(* The inductive invariant of SpaceCore.  TypeOK and SellCustody are not   *)
(* inductive by themselves: a step of a match touches the two orders that  *)
(* its MatchState names, and nothing in TypeOK says that these exist or    *)
(* that they are a buy and a sell order.  OrdersReal and MatchesRefer add  *)
(* that.                                                                   *)
(***************************************************************************)
EXTENDS SpaceCore, MathProofs

\* An account that was never created is empty, and an order has a quantity.
OrdersReal ==
    \A k \in OrderKeys :
        IF order[k].status = "Absent"
        THEN order[k] = AbsentOrder /\ shareEscrow[k] = 0 /\ pendingFill[k] = 0
        ELSE order[k].quantity > 0

\* A MatchState names an existing buy order and an existing sell order.
MatchesRefer ==
    \A m \in Matches : matchState[m].stage # "Absent" =>
        /\ matchState[m].fill_quantity > 0
        /\ BuyKey(m) \in OrderKeys /\ SellKey(m) \in OrderKeys
        /\ order[BuyKey(m)].status # "Absent" /\ order[BuyKey(m)].side = "Buy"
        /\ order[SellKey(m)].status # "Absent" /\ order[SellKey(m)].side = "Sell"

BookInv == OrdersReal /\ MatchesRefer /\ SellCustody

\* The part of TypeOK that BookInv talks about.
BookTypeOK ==
    /\ order \in [OrderKeys -> PendingOrder]
    /\ shareEscrow \in [OrderKeys -> Nat]
    /\ pendingFill \in [OrderKeys -> Int]
    /\ matchState \in [Matches -> MatchState]

-----------------------------------------------------------------------------
\* Instructions that touch neither orders, share escrows nor matches.
LEMMA BookUntouched ==
    ASSUME BookInv, UNCHANGED <<book, shareEscrow, pendingFill>>
    PROVE  BookInv'
  BY DEF BookInv, OrdersReal, MatchesRefer, SellCustody, BuyKey, SellKey, book

\* Placing an order: a fresh account takes a quantity, and a sell order puts
\* exactly that quantity in escrow.
LEMMA OrderPlaced ==
    ASSUME BookTypeOK, BookInv,
           NEW k \in OrderKeys, order[k].status = "Absent",
           NEW o \in PendingOrder, o.status = "Open", o.filled_quantity = 0, o.quantity > 0,
           order' = [order EXCEPT ![k] = o],
           o.side = "Sell" => shareEscrow' = [shareEscrow EXCEPT ![k] = @ + o.quantity],
           o.side = "Buy" => UNCHANGED shareEscrow,
           UNCHANGED <<matchState, pendingFill>>
    PROVE  BookInv'
  <1>1. OrdersReal'
    BY DEF BookTypeOK, BookInv, OrdersReal, PendingOrder
  <1>2. MatchesRefer'
    BY DEF BookTypeOK, BookInv, MatchesRefer, BuyKey, SellKey, PendingOrder
  <1>3. SellCustody'
    BY DEF BookTypeOK, BookInv, OrdersReal, SellCustody, PendingOrder
  <1> QED
    BY <1>1, <1>2, <1>3 DEF BookInv

\* Cancelling: the order ends, and some of its escrow may go back.
LEMMA OrderCancelled ==
    ASSUME BookTypeOK, BookInv,
           NEW k \in OrderKeys, Live(k),
           NEW back \in Nat, back <= shareEscrow[k],
           order' = [order EXCEPT ![k].status = "Cancelled"],
           shareEscrow' = [shareEscrow EXCEPT ![k] = @ - back],
           UNCHANGED <<matchState, pendingFill>>
    PROVE  BookInv'
  <1>1. OrdersReal'
    BY DEF BookTypeOK, BookInv, OrdersReal, PendingOrder, Live
  <1>2. MatchesRefer'
    BY DEF BookTypeOK, BookInv, MatchesRefer, BuyKey, SellKey, PendingOrder
  <1>3. SellCustody'
    BY DEF BookTypeOK, BookInv, SellCustody, PendingOrder
  <1> QED
    BY <1>1, <1>2, <1>3 DEF BookInv

\* Matching: the new MatchState names two orders that may still fill.
LEMMA MatchValidated ==
    ASSUME BookTypeOK, BookInv,
           NEW b \in OrderKeys, NEW s \in OrderKeys, NEW p \in Nat, NEW q \in Nat,
           ValidateMatch(b, s, p, q)
    PROVE  BookInv'
  <1> DEFINE m == <<OrderId(b), OrderId(s)>>
  <1>1. m \in Matches /\ b = <<Owner(b), OrderId(b)>> /\ s = <<Owner(s), OrderId(s)>>
    BY SpaceAssumption DEF Matches, Owner, OrderId
  <1>2. UNCHANGED <<order, shareEscrow, pendingFill>>
    BY DEF ValidateMatch, escrows, history
  <1>3. OrdersReal' /\ SellCustody'
    BY <1>2 DEF BookInv, OrdersReal, SellCustody
  <1>4. MatchesRefer'
    <2>1. matchState'[m].fill_quantity > 0
      BY <1>1 DEF ValidateMatch, BookTypeOK, FillQuantity
    <2>2. BuyKey(m)' = b /\ SellKey(m)' = s
      BY <1>1 DEF ValidateMatch, BookTypeOK, BuyKey, SellKey
    <2>3. /\ order[b].status # "Absent" /\ order[b].side = "Buy"
          /\ order[s].status # "Absent" /\ order[s].side = "Sell"
      BY DEF ValidateMatch, Live, Crossing
    <2>4. ASSUME NEW n \in Matches, n # m
          PROVE  matchState'[n] = matchState[n]
      BY <2>4 DEF ValidateMatch, BookTypeOK
    <2> QED
      BY <1>2, <2>1, <2>2, <2>3, <2>4 DEF BookInv, MatchesRefer, BuyKey, SellKey
  <1> QED
    BY <1>3, <1>4 DEF BookInv

\* What a step of a match keeps: the orders that MatchStates name stay what
\* they are.
LEMMA MatchAdvanced ==
    ASSUME BookTypeOK, BookInv, BookTypeOK',
           NEW m \in Matches, matchState[m].stage # "Absent",
           NEW stage \in MatchStage, matchState' = Advanced(m, stage),
           \A k \in OrderKeys : /\ order'[k].side = order[k].side
                                /\ order[k].status # "Absent" => order'[k].status # "Absent"
    PROVE  MatchesRefer'
  <1> SUFFICES ASSUME NEW n \in Matches, matchState'[n].stage # "Absent"
               PROVE  /\ matchState'[n].fill_quantity > 0
                      /\ BuyKey(n)' \in OrderKeys /\ SellKey(n)' \in OrderKeys
                      /\ order'[BuyKey(n)'].status # "Absent" /\ order'[BuyKey(n)'].side = "Buy"
                      /\ order'[SellKey(n)'].status # "Absent" /\ order'[SellKey(n)'].side = "Sell"
    BY DEF MatchesRefer
  <1>1. matchState[n].stage # "Absent"
    BY DEF BookTypeOK, Advanced
  <1>2. /\ matchState'[n].fill_quantity = matchState[n].fill_quantity
        /\ BuyKey(n)' = BuyKey(n) /\ SellKey(n)' = SellKey(n)
    BY DEF BookTypeOK, Advanced, BuyKey, SellKey, MatchState
  <1> QED
    BY <1>1, <1>2 DEF BookInv, MatchesRefer

\* The buyer half moves a fill from the escrow of the sell order to the buyer
\* and counts it as sold.
LEMMA BuyerMatched ==
    ASSUME BookTypeOK, BookInv, BookTypeOK',
           NEW m \in Matches, NEW t \in TokenTypes, ExecuteBuyerMatch(m, t)
    PROVE  BookInv'
  <1> DEFINE b == BuyKey(m)
             s == SellKey(m)
             fill == matchState[m].fill_quantity
  <1>1. matchState[m].stage = "Validated" /\ matchState' = Advanced(m, "BuyExecuted")
    BY DEF ExecuteBuyerMatch
  <1>2. /\ b \in OrderKeys /\ order[b].status # "Absent" /\ order[b].side = "Buy"
        /\ s \in OrderKeys /\ order[s].status # "Absent" /\ order[s].side = "Sell"
        /\ fill \in Nat /\ fill > 0
    BY <1>1 DEF BookInv, MatchesRefer, BookTypeOK, MatchState
  <1>3. /\ shareEscrow' = [shareEscrow EXCEPT ![s] = @ - fill]
        /\ pendingFill' = [pendingFill EXCEPT ![s] = @ + fill]
        /\ order' = [order EXCEPT ![b] = Filled(b, fill)]
    BY DEF ExecuteBuyerMatch
  <1> HIDE DEF b, s, fill
  <1>4. /\ order'[b].side = "Buy" /\ order'[b].status \in {"Filled", "PartiallyFilled"}
        /\ order'[b].quantity = order[b].quantity
    BY <1>2, <1>3 DEF BookTypeOK, PendingOrder, Filled, StatusAfterFill
  <1>5. \A k \in OrderKeys : k # b => order'[k] = order[k]
    BY <1>2, <1>3 DEF BookTypeOK
  <1>6. OrdersReal'
    BY <1>2, <1>3, <1>4, <1>5 DEF BookInv, OrdersReal, BookTypeOK
  <1>7. MatchesRefer'
    <2>1. "BuyExecuted" \in MatchStage /\ matchState[m].stage # "Absent"
      BY <1>1 DEF MatchStage
    <2>2. \A k \in OrderKeys : /\ order'[k].side = order[k].side
                               /\ order[k].status # "Absent" => order'[k].status # "Absent"
      BY <1>2, <1>4, <1>5
    <2> QED
      BY <1>1, <2>1, <2>2, MatchAdvanced
  <1>8. SellCustody'
    <2> SUFFICES ASSUME NEW k \in OrderKeys, order'[k].side = "Sell"
                 PROVE  LET sold == pendingFill'[k] + order'[k].filled_quantity IN
                        /\ sold <= order'[k].quantity
                        /\ shareEscrow'[k] + sold <= order'[k].quantity
                        /\ order'[k].status = "Open" => shareEscrow'[k] + sold = order'[k].quantity
      BY DEF SellCustody
    <2>1. k # b /\ order'[k] = order[k]
      BY <1>4, <1>5
    <2>2. /\ order[k].filled_quantity \in Nat /\ order[k].quantity \in Nat
          /\ shareEscrow[k] \in Nat /\ shareEscrow'[k] \in Nat /\ pendingFill[k] \in Int
      BY DEF BookTypeOK, PendingOrder
    <2>3. shareEscrow'[k] + pendingFill'[k] = shareEscrow[k] + pendingFill[k]
      BY <1>2, <1>3, <2>2 DEF BookTypeOK
    <2>4. pendingFill'[k] \in Int
      BY DEF BookTypeOK
    <2> QED
      BY <2>1, <2>2, <2>3, <2>4 DEF BookInv, SellCustody
  <1> QED
    BY <1>6, <1>7, <1>8 DEF BookInv

\* The seller half turns a pending fill of the sell order into a filled one.
LEMMA SellerMatched ==
    ASSUME BookTypeOK, BookInv, BookTypeOK',
           NEW m \in Matches, ExecuteSellerMatch(m)
    PROVE  BookInv'
  <1> DEFINE s == SellKey(m)
             fill == matchState[m].fill_quantity
  <1>1. matchState[m].stage = "BuyExecuted" /\ matchState' = Advanced(m, "Executed")
    BY DEF ExecuteSellerMatch
  <1>2. /\ s \in OrderKeys /\ order[s].status # "Absent" /\ order[s].side = "Sell"
        /\ fill \in Nat
    BY <1>1 DEF BookInv, MatchesRefer, BookTypeOK, MatchState
  <1>3. /\ UNCHANGED shareEscrow
        /\ pendingFill' = [pendingFill EXCEPT ![s] = @ - fill]
        /\ order' = [order EXCEPT ![s] = [Filled(s, fill) EXCEPT
                        !.borrowed_amount_to_repay = SatSub(@, DebtPayment(m))]]
    BY DEF ExecuteSellerMatch, escrows
  <1> HIDE DEF s, fill
  <1>4. /\ order'[s].side = "Sell" /\ order'[s].status \in {"Filled", "PartiallyFilled"}
        /\ order'[s].quantity = order[s].quantity
        /\ order'[s].filled_quantity = order[s].filled_quantity + fill
    BY <1>2, <1>3 DEF BookTypeOK, PendingOrder, Filled, StatusAfterFill
  <1>5. \A k \in OrderKeys : k # s => order'[k] = order[k]
    BY <1>2, <1>3 DEF BookTypeOK
  <1>6. OrdersReal'
    BY <1>2, <1>3, <1>4, <1>5 DEF BookInv, OrdersReal, BookTypeOK
  <1>7. MatchesRefer'
    <2>1. "Executed" \in MatchStage /\ matchState[m].stage # "Absent"
      BY <1>1 DEF MatchStage
    <2>2. \A k \in OrderKeys : /\ order'[k].side = order[k].side
                               /\ order[k].status # "Absent" => order'[k].status # "Absent"
      BY <1>2, <1>4, <1>5
    <2> QED
      BY <1>1, <2>1, <2>2, MatchAdvanced
  <1>8. SellCustody'
    BY <1>2, <1>3, <1>4, <1>5 DEF BookInv, SellCustody, BookTypeOK, PendingOrder
  <1> QED
    BY <1>6, <1>7, <1>8 DEF BookInv

-----------------------------------------------------------------------------
(***************************************************************************)
(* TypeOK, action by action: every amount stays a natural number, so no    *)
(* u64 of the program underflows.                                          *)
(***************************************************************************)
\* The inputs of the actions.
LEMMA InputTypes ==
    /\ \A n \in Prices \cup Quantities \cup Leverages \cup Amounts \cup Bonds : n \in Nat
    /\ \A k \in OrderKeys : Owner(k) \in Users /\ OrderId(k) \in OrderIds
    /\ \A o \in OutcomeIds : o < NumOutcomes => o \in Outcomes
    /\ Outcomes \subseteq Nat
  BY InputAssumption, SpaceAssumption DEF Owner, OrderId, Outcomes

\* Adding to one entry of a table of amounts, whether or not it has that entry.
LEMMA Increased ==
    ASSUME NEW S, NEW f \in [S -> Nat], NEW h, NEW n \in Nat
    PROVE  [f EXCEPT ![h] = @ + n] \in [S -> Nat]
  <1>1. \A x \in S : f[x] + n \in Nat
    OBVIOUS
  <1>2. [f EXCEPT ![h] = @ + n] = [x \in S |-> IF x = h THEN f[x] + n ELSE f[x]]
    OBVIOUS
  <1> QED
    BY <1>1, <1>2

\* Opening the market.
LEMMA InitType == Init => TypeOK
  <1> SUFFICES ASSUME Init PROVE TypeOK
    OBVIOUS
  <1>1. AbsentOrder \in PendingOrder /\ EmptyPosition \in Position
    BY SpaceAssumption DEF AbsentOrder, PendingOrder, OrderStatus, Outcomes, EmptyPosition, Position
  <1>2. AbsentMatch \in MatchState
    BY SpaceAssumption DEF AbsentMatch, MatchState, MatchStage, Outcomes
  <1>3. OpenMarket \in Market
    BY SpaceAssumption DEF OpenMarket, Market, MarketStatus, NoOutcome
  <1> QED
    BY <1>1, <1>2, <1>3, SpaceAssumption DEF Init, TypeOK, Vaults

-----------------------------------------------------------------------------
\* shares.rs.
\* Adding to, or taking from, both tokens of a set.
LEMMA SetsChangeType ==
    ASSUME wallet \in [Users \X Outcomes \X TokenTypes -> Nat],
           NEW u \in Users, NEW o \in Outcomes, NEW n \in Int,
           \A t \in TokenTypes : wallet[<<u, o, t>>] + n >= 0
    PROVE  SetsChange(u, o, n) \in [Users \X Outcomes \X TokenTypes -> Nat]
  <1>1. \A t \in TokenTypes : wallet[<<u, o, t>>] + n \in Nat
    OBVIOUS
  <1>2. wallet[<<u, o, "YES">>] + n \in Nat /\ wallet[<<u, o, "NO">>] + n \in Nat
    BY <1>1 DEF TokenTypes
  <1>3. [wallet EXCEPT ![<<u, o, "YES">>] = @ + n] \in [Users \X Outcomes \X TokenTypes -> Nat]
    BY <1>2
  <1> QED
    BY <1>2, <1>3 DEF SetsChange

\* mint_shares.
LEMMA MintType ==
    ASSUME TypeOK, NEW u \in Users, NEW o \in OutcomeIds, NEW n \in Amounts, MintShares(u, o, n)
    PROVE  TypeOK'
  <1> DEFINE quote == n * QuoteScale
  <1>1. n \in Nat /\ quote \in Nat /\ o \in Outcomes
    BY InputTypes, QuoteScaleAssumption, TimesNat DEF MintShares
  <1> HIDE DEF quote
  <1>2. /\ usdc[u] >= quote
        /\ usdc' = [usdc EXCEPT ![u] = @ - quote]
        /\ vault' = [vault EXCEPT !.market = @ + quote]
        /\ wallet' = SetsChange(u, o, n)
        /\ market' = [market EXCEPT !.total_minted = @ + quote]
        /\ netMinted' = netMinted + quote
        /\ UNCHANGED <<escrows, book, clock, owed, pendingFill, position>>
    BY DEF MintShares, quote
  <1>3. usdc' \in [Users -> Nat]
    BY <1>1, <1>2 DEF TypeOK
  <1>4. wallet' \in [Users \X Outcomes \X TokenTypes -> Nat]
    <2>1. n \in Int /\ \A t \in TokenTypes : wallet[<<u, o, t>>] + n >= 0
      BY <1>1 DEF TypeOK
    <2> QED
      BY <1>1, <1>2, <2>1, SetsChangeType DEF TypeOK
  <1>5. vault' \in Vaults
    <2>1. vault \in Vaults
      BY DEF TypeOK
    <2> QED
      BY <1>1, <1>2, <2>1 DEF Vaults
  <1>6. market' \in Market
    BY <1>1, <1>2 DEF TypeOK, Market
  <1>7. netMinted' \in Int
    BY <1>1, <1>2 DEF TypeOK
  <1> QED
    BY <1>2, <1>3, <1>4, <1>5, <1>6, <1>7 DEF TypeOK, escrows, book, clock

\* burn_shares takes no more than the user and the vault have.
LEMMA BurnType ==
    ASSUME TypeOK, NEW u \in Users, NEW o \in OutcomeIds, NEW n \in Amounts, BurnShares(u, o, n)
    PROVE  TypeOK'
  <1> DEFINE quote == n * QuoteScale
  <1>1. n \in Nat /\ quote \in Nat /\ o \in Outcomes
    BY InputTypes, QuoteScaleAssumption, TimesNat DEF BurnShares
  <1> HIDE DEF quote
  <1>2. /\ \A t \in TokenTypes : wallet[<<u, o, t>>] >= n
        /\ vault.market >= quote
        /\ usdc' = [usdc EXCEPT ![u] = @ + quote]
        /\ vault' = [vault EXCEPT !.market = @ - quote]
        /\ wallet' = SetsChange(u, o, -n)
        /\ market' = [market EXCEPT !.total_minted = SatSub(@, quote)]
        /\ netMinted' = netMinted - quote
        /\ UNCHANGED <<escrows, book, clock, owed, pendingFill, position>>
    BY DEF BurnShares, quote
  <1>3. usdc' \in [Users -> Nat]
    BY <1>1, <1>2 DEF TypeOK
  <1>4. wallet' \in [Users \X Outcomes \X TokenTypes -> Nat]
    <2>1. -n \in Int /\ \A t \in TokenTypes : wallet[<<u, o, t>>] + (-n) >= 0
      BY <1>1, <1>2 DEF TypeOK
    <2> QED
      BY <1>1, <1>2, <2>1, SetsChangeType DEF TypeOK
  <1>5. vault' \in Vaults
    BY <1>1, <1>2 DEF TypeOK, Vaults
  <1>6. market' \in Market
    <2>1. market \in Market /\ SatSub(market.total_minted, quote) \in Nat
      BY <1>1, SatSubNat DEF TypeOK, Market
    <2> QED
      BY <1>2, <2>1 DEF Market
  <1>7. netMinted' \in Int
    BY <1>1, <1>2 DEF TypeOK
  <1> QED
    BY <1>2, <1>3, <1>4, <1>5, <1>6, <1>7 DEF TypeOK, escrows, book, clock

\* The passing of time.
LEMMA TickType ==
    ASSUME TypeOK, Tick
    PROVE  TypeOK'
  <1>1. now' \in Nat /\ slot' \in Nat
    BY DEF Tick, TypeOK
  <1> QED
    BY <1>1 DEF Tick, TypeOK, tokens, escrows, book, history

-----------------------------------------------------------------------------
\* orders.rs.
LEMMA NewOrderType ==
    ASSUME TypeOK
    PROVE  /\ NewOrder \in PendingOrder
           /\ NewOrder.status = "Open" /\ NewOrder.filled_quantity = 0
  <1>1. now \in Nat /\ 0 \in Outcomes
    BY SpaceAssumption DEF TypeOK, Outcomes
  <1> QED
    BY <1>1 DEF NewOrder, AbsentOrder, PendingOrder, OrderStatus

\* place_buy_order: the user pays a margin it has.
LEMMA PlaceBuyType ==
    ASSUME TypeOK, NEW k \in OrderKeys, NEW o \in OutcomeIds, NEW p \in Prices,
           NEW q \in Quantities, NEW lev \in Leverages, PlaceBuyOrder(k, o, p, q, lev)
    PROVE  TypeOK'
  <1> DEFINE margin == RequiredMargin(q, p, lev)
             new == [NewOrder EXCEPT !.side = "Buy", !.outcome_id = o, !.price = p,
                                     !.quantity = q, !.margin = margin, !.leverage = lev]
  <1>1. /\ p \in Nat /\ q \in Nat /\ lev \in Nat \ {0} /\ o \in Outcomes
        /\ Owner(k) \in Users
    <2>1. lev \in 1..MAX_LEVERAGE
      BY DEF PlaceBuyOrder
    <2> QED
      BY <2>1, InputTypes DEF PlaceBuyOrder, MAX_LEVERAGE
  <1>2. margin \in Nat
    BY <1>1, RequiredMarginNat
  <1>3. /\ usdc[Owner(k)] >= margin
        /\ usdc' = [usdc EXCEPT ![Owner(k)] = @ - margin]
        /\ orderEscrow' = [orderEscrow EXCEPT ![k] = @ + margin]
        /\ order' = [order EXCEPT ![k] = new]
        /\ UNCHANGED <<wallet, vault, market, shareEscrow, matchState, position, clock, history>>
    BY DEF PlaceBuyOrder
  <1>4. new \in PendingOrder
    BY <1>1, <1>2, NewOrderType DEF PendingOrder
  <1> HIDE DEF margin, new
  <1>5. usdc' \in [Users -> Nat] /\ orderEscrow' \in [OrderKeys -> Nat]
    BY <1>1, <1>2, <1>3 DEF TypeOK
  <1>6. order' \in [OrderKeys -> PendingOrder]
    BY <1>3, <1>4 DEF TypeOK
  <1> QED
    BY <1>3, <1>5, <1>6 DEF TypeOK, clock, history

\* place_yes_limit_sell_order and place_no_limit_sell_order.
LEMMA PlaceSellType ==
    ASSUME TypeOK, NEW k \in OrderKeys, NEW o \in OutcomeIds, NEW t \in TokenTypes,
           NEW p \in Prices, NEW q \in Quantities, PlaceLimitSellOrder(k, o, t, p, q)
    PROVE  TypeOK'
  <1> DEFINE new == [NewOrder EXCEPT !.side = "Sell", !.outcome_id = o, !.token_type = t,
                                     !.price = p, !.quantity = q]
  <1>1. p \in Nat /\ q \in Nat /\ o \in Outcomes /\ Owner(k) \in Users
    BY InputTypes DEF PlaceLimitSellOrder
  <1>2. /\ wallet[<<Owner(k), o, t>>] >= q
        /\ wallet' = [wallet EXCEPT ![<<Owner(k), o, t>>] = @ - q]
        /\ shareEscrow' = [shareEscrow EXCEPT ![k] = @ + q]
        /\ order' = [order EXCEPT ![k] = new]
        /\ UNCHANGED <<usdc, vault, market, orderEscrow, matchState, position, clock, history>>
    BY DEF PlaceLimitSellOrder
  <1>3. new \in PendingOrder
    BY <1>1, NewOrderType DEF PendingOrder
  <1> HIDE DEF new
  <1>4. wallet' \in [Users \X Outcomes \X TokenTypes -> Nat]
    BY <1>1, <1>2 DEF TypeOK
  <1>5. shareEscrow' \in [OrderKeys -> Nat]
    BY <1>1, <1>2 DEF TypeOK
  <1>6. order' \in [OrderKeys -> PendingOrder]
    BY <1>2, <1>3 DEF TypeOK
  <1> QED
    BY <1>2, <1>4, <1>5, <1>6 DEF TypeOK, clock, history

\* Setting the status leaves an order an order.
LEMMA CancelledType ==
    ASSUME TypeOK, NEW k \in OrderKeys, order' = [order EXCEPT ![k].status = "Cancelled"]
    PROVE  order' \in [OrderKeys -> PendingOrder]
  <1>1. order \in [OrderKeys -> PendingOrder]
    BY DEF TypeOK
  <1>2. [order[k] EXCEPT !.status = "Cancelled"] \in PendingOrder
    BY <1>1 DEF PendingOrder, OrderStatus
  <1> HIDE DEF PendingOrder
  <1> QED
    BY <1>1, <1>2

\* cancel_order returns no more than the escrow holds.
LEMMA CancelBuyType ==
    ASSUME TypeOK, NEW k \in OrderKeys, CancelOrder(k)
    PROVE  TypeOK'
  <1> DEFINE back == Lesser(orderEscrow[k], order[k].margin)
  <1>1. back \in Nat /\ back <= orderEscrow[k] /\ Owner(k) \in Users
    BY InputTypes DEF TypeOK, PendingOrder, Lesser
  <1>2. /\ orderEscrow' = [orderEscrow EXCEPT ![k] = @ - back]
        /\ usdc' = [usdc EXCEPT ![Owner(k)] = @ + back]
        /\ order' = [order EXCEPT ![k].status = "Cancelled"]
        /\ UNCHANGED <<wallet, vault, market, shareEscrow, matchState, position, clock, history>>
    BY DEF CancelOrder
  <1> HIDE DEF back
  <1>3. usdc' \in [Users -> Nat] /\ orderEscrow' \in [OrderKeys -> Nat]
    BY <1>1, <1>2 DEF TypeOK
  <1>4. order' \in [OrderKeys -> PendingOrder]
    BY <1>2, CancelledType
  <1> QED
    BY <1>2, <1>3, <1>4 DEF TypeOK, clock, history

\* A position that a cancelled close gives back to.
LEMMA RestoredType ==
    ASSUME NEW pos \in Position, NEW o \in PendingOrder
    PROVE  RestoredPosition(pos, o) \in Position
  <1> DEFINE unfilled == SatSub(o.quantity, o.filled_quantity)
             ratio == RatioBps(unfilled, o.quantity)
             collateral == BpsOf(o.collateral_to_return, ratio)
             borrowed == BpsOf(o.borrowed_amount_to_repay, ratio)
  <1>1. o.quantity \in Nat /\ unfilled \in Nat
    BY SatSubNat DEF PendingOrder
  <1>2. ratio \in Nat
    BY <1>1, RatioNat
  <1>3. RestoredPosition(pos, o) =
          [pos EXCEPT !.shares = @ + unfilled, !.collateral = @ + collateral,
                      !.borrowed_amount = @ + borrowed]
    BY DEF RestoredPosition
  <1> HIDE DEF unfilled, ratio
  <1>4. collateral \in Nat /\ borrowed \in Nat
    BY <1>2, BpsOfNat DEF PendingOrder
  <1> HIDE DEF collateral, borrowed
  <1> DEFINE moreShares == pos.shares + unfilled
             moreCollateral == pos.collateral + collateral
             moreDebt == pos.borrowed_amount + borrowed
  <1>5. moreShares \in Nat /\ moreCollateral \in Nat /\ moreDebt \in Nat
    BY <1>1, <1>4 DEF Position
  <1>6. RestoredPosition(pos, o) =
          [pos EXCEPT !.shares = moreShares, !.collateral = moreCollateral,
                      !.borrowed_amount = moreDebt]
    BY <1>3
  <1> HIDE DEF moreShares, moreCollateral, moreDebt
  <1> QED
    BY <1>5, <1>6 DEF Position

\* cancel_sell_order and cancel_no_sell_order.
LEMMA CancelSideType ==
    ASSUME TypeOK, NEW k \in OrderKeys, NEW t \in TokenTypes, CancelSide(k, t)
    PROVE  TypeOK'
  <1> DEFINE o == order[k]
             back == ReturnedShares(k, t)
             home == <<Owner(k), o.outcome_id, o.token_type>>
             pos == <<Owner(k), o.outcome_id, o.token_type, "Leveraged">>
  <1>1. back \in Nat /\ back <= shareEscrow[k] /\ o \in PendingOrder
    BY DEF TypeOK, ReturnedShares
  <1>2. /\ wallet' = [wallet EXCEPT ![home] = @ + back]
        /\ shareEscrow' = [shareEscrow EXCEPT ![k] = @ - back]
        /\ position' = IF o.is_leveraged_close
                       THEN [position EXCEPT ![pos] = RestoredPosition(@, o)] ELSE position
        /\ order' = [order EXCEPT ![k].status = "Cancelled"]
        /\ UNCHANGED <<usdc, vault, market, orderEscrow, matchState, clock, history>>
    BY DEF CancelSide
  <1> HIDE DEF back, home, pos
  <1>3. wallet' \in [Users \X Outcomes \X TokenTypes -> Nat]
    <2> DEFINE S == Users \X Outcomes \X TokenTypes
    <2>1. wallet \in [S -> Nat]
      BY DEF TypeOK
    <2>2. wallet' = [wallet EXCEPT ![home] = @ + back]
      BY <1>2
    <2>3. back \in Nat
      BY <1>1
    <2> HIDE DEF S
    <2>4. wallet' \in [S -> Nat]
      BY <2>1, <2>2, <2>3, Increased, Zenon
    <2> QED
      BY <2>4 DEF S
  <1>4. shareEscrow' \in [OrderKeys -> Nat]
    BY <1>1, <1>2 DEF TypeOK
  <1>5. position' \in [Users \X Outcomes \X TokenTypes \X PositionTypes -> Position]
    <2> DEFINE S == Users \X Outcomes \X TokenTypes \X PositionTypes
    <2>1. position \in [S -> Position]
      BY DEF TypeOK
    <2> HIDE DEF S
    <2>2. \A p \in S : position[p] \in Position /\ RestoredPosition(position[p], o) \in Position
      BY <1>1, <2>1, RestoredType
    <2>3. position' \in [S -> Position]
      BY <1>2, <2>1, <2>2
    <2> QED
      BY <2>3 DEF S
  <1>6. order' \in [OrderKeys -> PendingOrder]
    BY <1>2, CancelledType
  <1> QED
    BY <1>2, <1>3, <1>4, <1>5, <1>6 DEF TypeOK, clock, history

-----------------------------------------------------------------------------
(***************************************************************************)
(* TypeOK through the three steps of a match.  BookInv tells that the      *)
(* orders a MatchState names exist and have a quantity to divide by.       *)
(***************************************************************************)
\* TypeOK contains what BookInv needs of the types.
LEMMA BookTypes == TypeOK => BookTypeOK
  BY DEF TypeOK, BookTypeOK, Matches

\* validate_match: a fill is positive before it is a natural number.
LEMMA ValidateType ==
    ASSUME TypeOK, NEW b \in OrderKeys, NEW s \in OrderKeys, NEW p \in Nat, NEW q \in Nat,
           ValidateMatch(b, s, p, q)
    PROVE  TypeOK'
  <1> DEFINE fill == FillQuantity(b, s, q)
             new == [stage |-> "Validated", buy_order_user |-> Owner(b),
                     sell_order_user |-> Owner(s), outcome_id |-> order[b].outcome_id,
                     match_price |-> p, fill_quantity |-> fill,
                     trade_value |-> QuoteValue(fill, p), sell_is_maker |-> SellIsMaker(b, s)]
  <1>1. /\ fill > 0
        /\ matchState' = [matchState EXCEPT ![<<OrderId(b), OrderId(s)>>] = new]
        /\ UNCHANGED <<tokens, escrows, order, clock, history, vault, market, position>>
    BY DEF ValidateMatch
  <1>2. fill \in Nat /\ p \in Nat /\ order[b].outcome_id \in Outcomes
    <2>1. fill \in Int
      BY DEF FillQuantity, Lesser, Remaining, TypeOK, PendingOrder
    <2> QED
      BY <1>1, <2>1 DEF TypeOK, PendingOrder
  <1>3. SellIsMaker(b, s) \in BOOLEAN
    BY DEF SellIsMaker
  <1> HIDE DEF fill
  <1>4. QuoteValue(fill, p) \in Nat
    BY <1>2, QuoteValueNat
  <1>5. Owner(b) \in Users /\ Owner(s) \in Users
    BY InputTypes
  <1>6. new \in MatchState
    BY <1>2, <1>3, <1>4, <1>5 DEF MatchState, MatchStage
  <1> HIDE DEF new
  <1>7. matchState' \in [OrderIds \X OrderIds -> MatchState]
    BY <1>1, <1>6 DEF TypeOK
  <1> QED
    BY <1>1, <1>7 DEF TypeOK, tokens, escrows, clock, history

\* What a match that is under way refers to.
LEMMA MatchTypes ==
    ASSUME TypeOK, BookInv, NEW m \in Matches, matchState[m].stage # "Absent"
    PROVE  /\ matchState[m] \in MatchState
           /\ BuyKey(m) \in OrderKeys /\ order[BuyKey(m)] \in PendingOrder
           /\ order[BuyKey(m)].quantity > 0 /\ order[BuyKey(m)].side = "Buy"
           /\ SellKey(m) \in OrderKeys /\ order[SellKey(m)] \in PendingOrder
           /\ order[SellKey(m)].quantity > 0 /\ order[SellKey(m)].side = "Sell"
           /\ matchState[m].fill_quantity > 0
           /\ Owner(BuyKey(m)) \in Users /\ Owner(SellKey(m)) \in Users
  <1>1. BookTypeOK
    BY BookTypes
  <1>2. /\ matchState[m].fill_quantity > 0
        /\ BuyKey(m) \in OrderKeys /\ order[BuyKey(m)].status # "Absent"
        /\ SellKey(m) \in OrderKeys /\ order[SellKey(m)].status # "Absent"
        /\ order[BuyKey(m)].side = "Buy" /\ order[SellKey(m)].side = "Sell"
    BY DEF BookInv, MatchesRefer
  <1>3. order[BuyKey(m)].quantity > 0 /\ order[SellKey(m)].quantity > 0
    BY <1>2 DEF BookInv, OrdersReal
  <1> QED
    BY <1>1, <1>2, <1>3, InputTypes DEF BookTypeOK

\* The margin a fill takes is in the escrow; what is missing is borrowed.
LEMMA BuyerAmounts ==
    ASSUME TypeOK, BookInv, NEW m \in Matches, matchState[m].stage # "Absent"
    PROVE  /\ AvailableMargin(m) \in Nat /\ AvailableMargin(m) <= orderEscrow[BuyKey(m)]
           /\ BorrowedAmount(m) \in Nat
           /\ AvailableMargin(m) + BorrowedAmount(m) >= matchState[m].trade_value
  <1> DEFINE b == BuyKey(m)
             share == MarginUsed(matchState[m].fill_quantity, order[b].margin, order[b].quantity)
  <1>1. /\ b \in OrderKeys /\ matchState[m].trade_value \in Nat
        /\ matchState[m].fill_quantity \in Nat
        /\ order[b].margin \in Nat /\ order[b].quantity \in Nat \ {0}
    BY MatchTypes DEF MatchState, PendingOrder
  <1>2. share \in Nat /\ orderEscrow[b] \in Nat
    BY <1>1, MarginUsedNat DEF TypeOK
  <1>3. AvailableMargin(m) = Lesser(orderEscrow[b], share)
    BY DEF AvailableMargin
  <1> HIDE DEF b, share
  <1>4. AvailableMargin(m) \in Nat /\ AvailableMargin(m) <= orderEscrow[b]
    BY <1>2, <1>3 DEF Lesser
  <1>5. BorrowedAmount(m) = SatSub(matchState[m].trade_value, AvailableMargin(m))
    BY DEF BorrowedAmount
  <1>6. /\ BorrowedAmount(m) \in Nat
        /\ AvailableMargin(m) + BorrowedAmount(m) >= matchState[m].trade_value
    BY <1>1, <1>4, <1>5 DEF SatSub
  <1> QED
    BY <1>4, <1>6 DEF b

\* A position after a fill: the average entry price divides by a positive
\* number of shares.
LEMMA PositionAfterBuyType ==
    ASSUME TypeOK, BookInv, NEW m \in Matches, matchState[m].stage # "Absent",
           NEW pos \in Position
    PROVE  PositionAfterBuy(pos, m) \in Position
  <1> DEFINE fill == matchState[m].fill_quantity
             price == matchState[m].match_price
             entry == IF pos.shares = 0 THEN price
                      ELSE (pos.shares * pos.avg_entry_price + fill * price)
                             \div (pos.shares + fill)
             lev == IF pos.shares = 0 THEN order[BuyKey(m)].leverage ELSE pos.leverage
             shares == pos.shares + fill
             collateral == pos.collateral + AvailableMargin(m)
             debt == pos.borrowed_amount + BorrowedAmount(m)
  <1>1. /\ fill \in Nat /\ fill > 0 /\ price \in Nat
        /\ order[BuyKey(m)].leverage \in Nat
        /\ pos.shares \in Nat /\ pos.avg_entry_price \in Nat /\ pos.leverage \in Nat
        /\ pos.collateral \in Nat /\ pos.borrowed_amount \in Nat
    BY MatchTypes DEF MatchState, PendingOrder, Position
  <1>2. PositionAfterBuy(pos, m) =
          [pos EXCEPT !.avg_entry_price = entry, !.leverage = lev, !.shares = shares,
                      !.collateral = collateral, !.borrowed_amount = debt]
    BY DEF PositionAfterBuy
  <1> HIDE DEF fill, price
  <1>3. entry \in Nat
    <2>1. pos.shares * pos.avg_entry_price \in Nat /\ fill * price \in Nat
      BY <1>1, TimesNat
    <2>2. pos.shares * pos.avg_entry_price + fill * price \in Nat
      BY <2>1
    <2>3. pos.shares + fill \in Nat \ {0}
      BY <1>1
    <2>4. (pos.shares * pos.avg_entry_price + fill * price) \div (pos.shares + fill) \in Nat
      BY <2>2, <2>3, DivNat
    <2> QED
      BY <1>1, <2>4
  <1>4. lev \in Nat /\ shares \in Nat
    BY <1>1
  <1>5. collateral \in Nat /\ debt \in Nat
    BY <1>1, BuyerAmounts
  <1> HIDE DEF entry, lev, shares, collateral, debt
  <1> QED
    BY <1>2, <1>3, <1>4, <1>5 DEF Position

\* An order after a fill.
LEMMA FilledType ==
    ASSUME NEW k \in OrderKeys, order[k] \in PendingOrder, NEW fill \in Nat
    PROVE  Filled(k, fill) \in PendingOrder
  <1> DEFINE filled == order[k].filled_quantity + fill
             status == StatusAfterFill(filled, order[k].quantity)
  <1>1. filled \in Nat /\ status \in OrderStatus
    BY DEF PendingOrder, StatusAfterFill, OrderStatus
  <1>2. Filled(k, fill) = [order[k] EXCEPT !.filled_quantity = filled, !.status = status]
    BY DEF Filled
  <1> HIDE DEF filled, status
  <1> QED
    BY <1>1, <1>2 DEF PendingOrder

\* The vaults after a buyer half: the liquidity vault lends what it has.
LEMMA VaultAfterBuyType ==
    ASSUME TypeOK, BookInv, NEW m \in Matches, matchState[m].stage # "Absent",
           order[BuyKey(m)].leverage > 1 => vault.liquidity >= BorrowedAmount(m)
    PROVE  VaultAfterBuy(m) \in Vaults
  <1>1. AvailableMargin(m) \in Nat /\ BorrowedAmount(m) \in Nat
    BY BuyerAmounts
  <1>2. vault \in Vaults
    BY DEF TypeOK
  <1>3. CASE order[BuyKey(m)].leverage > 1
    <2> DEFINE margin == vault.margin + AvailableMargin(m)
               mkt == vault.market + BorrowedAmount(m)
               liquidity == vault.liquidity - BorrowedAmount(m)
    <2>1. margin \in Nat /\ mkt \in Nat /\ liquidity \in Nat
      BY <1>1, <1>2, <1>3 DEF Vaults
    <2>2. VaultAfterBuy(m) =
            [vault EXCEPT !.margin = margin, !.market = mkt, !.liquidity = liquidity]
      BY <1>3 DEF VaultAfterBuy
    <2> HIDE DEF margin, mkt, liquidity
    <2> QED
      BY <1>2, <2>1, <2>2 DEF Vaults
  <1>4. CASE ~(order[BuyKey(m)].leverage > 1)
    <2> DEFINE mkt == vault.market + AvailableMargin(m)
    <2>1. mkt \in Nat
      BY <1>1, <1>2 DEF Vaults
    <2>2. VaultAfterBuy(m) = [vault EXCEPT !.market = mkt]
      BY <1>4 DEF VaultAfterBuy
    <2> HIDE DEF mkt
    <2> QED
      BY <1>2, <2>1, <2>2 DEF Vaults
  <1> QED
    BY <1>3, <1>4

\* execute_yes_buyer_match and execute_no_buyer_match: escrows and the liquidity
\* vault pay what they hold.
LEMMA BuyerType ==
    ASSUME TypeOK, BookInv, NEW m \in Matches, NEW t \in TokenTypes, ExecuteBuyerMatch(m, t)
    PROVE  TypeOK'
  <1> DEFINE b == BuyKey(m)
             s == SellKey(m)
             x == matchState[m]
             pos == <<Owner(b), x.outcome_id, t, PositionType(order[b].leverage)>>
             notional == QuoteValue(x.fill_quantity, x.match_price)
             filled == Filled(b, x.fill_quantity)
  <1>1. /\ x.stage = "Validated" /\ x.stage # "Absent"
        /\ shareEscrow[s] >= x.fill_quantity
        /\ order[b].leverage > 1 => vault.liquidity >= BorrowedAmount(m)
        /\ shareEscrow' = [shareEscrow EXCEPT ![s] = @ - x.fill_quantity]
        /\ wallet' = [wallet EXCEPT ![<<Owner(b), x.outcome_id, t>>] = @ + x.fill_quantity]
        /\ orderEscrow' = [orderEscrow EXCEPT ![b] = @ - AvailableMargin(m)]
        /\ vault' = VaultAfterBuy(m)
        /\ position' = [position EXCEPT ![pos] = PositionAfterBuy(@, m)]
        /\ market' = IF order[b].leverage > 1
                     THEN [market EXCEPT !.total_leverage_provided = @ + notional]
                     ELSE market
        /\ order' = [order EXCEPT ![b] = filled]
        /\ matchState' = Advanced(m, "BuyExecuted")
        /\ owed' = owed + x.trade_value
        /\ pendingFill' = [pendingFill EXCEPT ![s] = @ + x.fill_quantity]
        /\ UNCHANGED <<usdc, clock, netMinted>>
    BY DEF ExecuteBuyerMatch, SellerDelivers, BuyerCanSettle
  <1>2. /\ x \in MatchState /\ x.fill_quantity \in Nat /\ x.match_price \in Nat
        /\ x.trade_value \in Nat
        /\ b \in OrderKeys /\ s \in OrderKeys /\ order[b] \in PendingOrder
    BY <1>1, MatchTypes DEF MatchState
  <1>3. filled \in PendingOrder /\ notional \in Nat
    BY <1>2, FilledType, QuoteValueNat
  <1>4. AvailableMargin(m) \in Nat /\ AvailableMargin(m) <= orderEscrow[b]
    BY <1>1, BuyerAmounts
  <1>5. vault' \in Vaults
    BY <1>1, VaultAfterBuyType
  <1>6. market' \in Market
    <2>1. market \in Market
      BY DEF TypeOK
    <2> HIDE DEF b, x, notional
    <2> QED
      BY <1>1, <1>3, <2>1 DEF Market
  <1>7. position' \in [Users \X Outcomes \X TokenTypes \X PositionTypes -> Position]
    <2> DEFINE S == Users \X Outcomes \X TokenTypes \X PositionTypes
    <2>1. position \in [S -> Position]
      BY DEF TypeOK
    <2> HIDE DEF S
    <2>2. \A p \in S : position[p] \in Position /\ PositionAfterBuy(position[p], m) \in Position
      BY <1>1, <2>1, PositionAfterBuyType
    <2> HIDE DEF pos
    <2>3. position' \in [S -> Position]
      BY <1>1, <2>1, <2>2
    <2> QED
      BY <2>3 DEF S
  <1>8. wallet' \in [Users \X Outcomes \X TokenTypes -> Nat]
    <2>1. wallet \in [Users \X Outcomes \X TokenTypes -> Nat]
      BY DEF TypeOK
    <2> QED
      BY <1>1, <1>2, <2>1, Increased, Zenon
  <1>9. matchState' \in [OrderIds \X OrderIds -> MatchState]
    BY <1>1, <1>2 DEF TypeOK, Advanced, MatchState, MatchStage
  <1> HIDE DEF b, s, x, filled
  <1>10. shareEscrow' \in [OrderKeys -> Nat] /\ orderEscrow' \in [OrderKeys -> Nat]
    BY <1>1, <1>2, <1>4 DEF TypeOK
  <1>11. order' \in [OrderKeys -> PendingOrder]
    BY <1>1, <1>3 DEF TypeOK
  <1>12. owed' \in Int /\ pendingFill' \in [OrderKeys -> Int]
    BY <1>1, <1>2 DEF TypeOK
  <1> QED
    BY <1>1, <1>5, <1>6, <1>7, <1>8, <1>9, <1>10, <1>11, <1>12 DEF TypeOK, clock

\* A seller is paid at most the trade value, and pays off at most the payment.
LEMMA SellerAmounts ==
    ASSUME TypeOK, BookInv, NEW m \in Matches, matchState[m].stage # "Absent"
    PROVE  /\ SellerPayment(m) \in Nat /\ SellerPayment(m) <= matchState[m].trade_value
           /\ DebtPayment(m) \in Nat /\ DebtPayment(m) <= SellerPayment(m)
  <1> DEFINE x == matchState[m]
             o == order[SellKey(m)]
             fee == IF x.sell_is_maker THEN MAKER_FEE_BPS ELSE DynamicFee(x.match_price, "Sell")
             ratio == RatioBps(x.fill_quantity, o.quantity)
  <1>1. /\ x.trade_value \in Nat /\ x.match_price \in Nat /\ x.fill_quantity \in Nat
        /\ o.quantity \in Nat /\ o.borrowed_amount_to_repay \in Nat
    BY MatchTypes DEF MatchState, PendingOrder
  <1>2. fee \in Nat
    BY <1>1, SellFeeNat DEF DynamicFee, MAKER_FEE_BPS
  <1>3. SellerPayment(m) = SatSub(x.trade_value, BpsOf(x.trade_value, fee))
    BY DEF SellerPayment
  <1> HIDE DEF fee
  <1>4. SellerPayment(m) \in Nat /\ SellerPayment(m) <= x.trade_value
    BY <1>1, <1>2, <1>3, BpsOfNat, SatSubNat
  <1>5. ratio \in Nat
    BY <1>1, RatioNat
  <1>6. DebtPayment(m) = IF o.is_leveraged_close
                         THEN Lesser(BpsOf(o.borrowed_amount_to_repay, ratio), SellerPayment(m))
                         ELSE 0
    BY DEF DebtPayment
  <1> HIDE DEF ratio
  <1>7. BpsOf(o.borrowed_amount_to_repay, ratio) \in Nat
    BY <1>1, <1>5, BpsOfNat
  <1> HIDE DEF o
  <1>8. DebtPayment(m) \in Nat /\ DebtPayment(m) <= SellerPayment(m)
    BY <1>4, <1>6, <1>7 DEF Lesser
  <1> QED
    BY <1>4, <1>8

\* execute_seller_match: the market vault is tested before it pays.
LEMMA SellerType ==
    ASSUME TypeOK, BookInv, NEW m \in Matches, ExecuteSellerMatch(m)
    PROVE  TypeOK'
  <1> DEFINE s == SellKey(m)
             x == matchState[m]
             notional == QuoteValue(x.fill_quantity, x.match_price)
             paid == Filled(s, x.fill_quantity)
             debt == SatSub(order[s].borrowed_amount_to_repay, DebtPayment(m))
             interest == IF order[s].is_leveraged_close
                         THEN SatSub(market.total_leverage_provided, notional)
                         ELSE market.total_leverage_provided
             gain == SellerPayment(m) - DebtPayment(m)
  <1>1. /\ x.stage = "BuyExecuted" /\ x.stage # "Absent"
        /\ vault.market >= SellerPayment(m)
        /\ vault' = [vault EXCEPT !.market = @ - SellerPayment(m),
                                  !.liquidity = @ + DebtPayment(m)]
        /\ usdc' = [usdc EXCEPT ![Owner(s)] = @ + gain]
        /\ market' = MarketAfterSell(m)
        /\ matchState' = Advanced(m, "Executed")
        /\ owed' = owed - x.trade_value
        /\ pendingFill' = [pendingFill EXCEPT ![s] = @ - x.fill_quantity]
        /\ UNCHANGED <<wallet, escrows, clock, netMinted, position>>
    BY DEF ExecuteSellerMatch
  <1>2. order' = [order EXCEPT ![s] = [paid EXCEPT !.borrowed_amount_to_repay =
                                          SatSub(@, DebtPayment(m))]]
    BY DEF ExecuteSellerMatch
  <1>3. /\ x \in MatchState /\ x.fill_quantity \in Nat /\ x.match_price \in Nat
        /\ x.trade_value \in Nat
        /\ s \in OrderKeys /\ order[s] \in PendingOrder
        /\ order[s].borrowed_amount_to_repay \in Nat
    BY <1>1, MatchTypes DEF MatchState, PendingOrder
  <1>4. /\ SellerPayment(m) \in Nat /\ DebtPayment(m) \in Nat
        /\ gain \in Nat
    BY <1>1, SellerAmounts
  <1>5. market' \in Market
    <2>1. market \in Market /\ market.total_leverage_provided \in Nat
          /\ market.last_price \in [Outcomes -> Nat]
      BY DEF TypeOK, Market
    <2>2. notional \in Nat
      BY <1>3, QuoteValueNat
    <2>3. interest \in Nat
      BY <2>1, <2>2, SatSubNat
    <2> DEFINE prices == [market.last_price EXCEPT ![x.outcome_id] = x.match_price]
    <2>4. prices \in [Outcomes -> Nat]
      BY <1>3, <2>1
    <2>5. market' = [market EXCEPT !.last_price = prices, !.total_leverage_provided = interest]
      BY <1>1 DEF MarketAfterSell
    <2> HIDE DEF prices, interest
    <2> QED
      BY <2>1, <2>3, <2>4, <2>5 DEF Market
  <1>6. order' \in [OrderKeys -> PendingOrder]
    <2>1. paid \in PendingOrder /\ paid.borrowed_amount_to_repay \in Nat
      BY <1>3, FilledType DEF PendingOrder
    <2> HIDE DEF paid
    <2> DEFINE left == SatSub(paid.borrowed_amount_to_repay, DebtPayment(m))
    <2>2. left \in Nat
      BY <1>4, <2>1, SatSubNat
    <2>3. order' = [order EXCEPT ![s] = [paid EXCEPT !.borrowed_amount_to_repay = left]]
      BY <1>2
    <2> HIDE DEF left
    <2>4. [paid EXCEPT !.borrowed_amount_to_repay = left] \in PendingOrder
      BY <2>1, <2>2 DEF PendingOrder
    <2> QED
      BY <2>3, <2>4 DEF TypeOK
  <1>7. matchState' \in [OrderIds \X OrderIds -> MatchState]
    BY <1>1, <1>3 DEF TypeOK, Advanced, MatchState, MatchStage
  <1>8. Owner(s) \in Users
    BY <1>3, InputTypes
  <1> HIDE DEF s, x, gain
  <1>9. usdc' \in [Users -> Nat]
    BY <1>1, <1>4, <1>8 DEF TypeOK
  <1>10. vault' \in Vaults
    <2>1. vault \in Vaults
      BY DEF TypeOK
    <2> DEFINE mkt == vault.market - SellerPayment(m)
               liquidity == vault.liquidity + DebtPayment(m)
    <2>2. mkt \in Nat /\ liquidity \in Nat
      BY <1>1, <1>4, <2>1 DEF Vaults
    <2>3. vault' = [vault EXCEPT !.market = mkt, !.liquidity = liquidity]
      BY <1>1
    <2> HIDE DEF mkt, liquidity
    <2> QED
      BY <2>1, <2>2, <2>3 DEF Vaults
  <1>11. owed' \in Int /\ pendingFill' \in [OrderKeys -> Int]
    BY <1>1, <1>3 DEF TypeOK
  <1> QED
    BY <1>1, <1>5, <1>6, <1>7, <1>9, <1>10, <1>11 DEF TypeOK, clock, escrows
=============================================================================
