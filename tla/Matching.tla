------------------------------ MODULE Matching ------------------------------
(***************************************************************************)
(* matching.rs: a keeper matches a buy order with a sell order in three    *)
(* transactions, validate_match, execute_{yes,no}_buyer_match and          *)
(* execute_seller_match.  Anything may happen between two of them.  The    *)
(* MatchState account is keyed by the two order ids, created once and      *)
(* never closed.                                                           *)
(***************************************************************************)
EXTENDS SpaceState

BuyKey(m) == <<matchState[m].buy_order_user, m[1]>>
SellKey(m) == <<matchState[m].sell_order_user, m[2]>>

Remaining(k) == order[k].quantity - order[k].filled_quantity

Fresh(k) == now - order[k].created_at < MaxOrderAge

Crossing(b, s, match_price) ==
    /\ order[b].side = "Buy" /\ order[s].side = "Sell"
    /\ order[b].outcome_id = order[s].outcome_id
    /\ order[s].price <= match_price /\ match_price <= order[b].price

FillQuantity(b, s, match_quantity) ==
    Lesser(match_quantity, Lesser(Remaining(b), Remaining(s)))

SellIsMaker(b, s) ==
    LET buy_is_maker == \/ order[b].created_at < order[s].created_at
                        \/ order[b].order_type = "Limit"
    IN  \/ order[s].created_at < order[b].created_at
        \/ order[s].order_type = "Limit" /\ ~buy_is_maker

ValidateMatch(b, s, match_price, match_quantity) ==
    LET m == <<OrderId(b), OrderId(s)>>
        fill == FillQuantity(b, s, match_quantity)
    IN
    /\ matchState[m].stage = "Absent"
    /\ Trading
    /\ Fresh(b) /\ Fresh(s)
    /\ Live(b) /\ Live(s)
    /\ Crossing(b, s, match_price)
    /\ fill > 0
    /\ matchState' = [matchState EXCEPT ![m] =
          [stage |-> "Validated", buy_order_user |-> Owner(b), sell_order_user |-> Owner(s),
           outcome_id |-> order[b].outcome_id, match_price |-> match_price,
           fill_quantity |-> fill, trade_value |-> QuoteValue(fill, match_price),
           sell_is_maker |-> SellIsMaker(b, s)]]
    /\ UNCHANGED <<tokens, escrows, order, clock, history, vault, market, position>>

(***************************************************************************)
(* The buyer half.  The order's margin pays what it can; what is missing   *)
(* is borrowed.                                                            *)
(***************************************************************************)
\* (A mutant: a fill takes all that the escrow holds.)
WholeEscrow(m) == orderEscrow[BuyKey(m)]

AvailableMargin(m) ==
    LET b == BuyKey(m) IN
    Lesser(orderEscrow[b],
           MarginUsed(matchState[m].fill_quantity, order[b].margin, order[b].quantity))

\* (A mutant: the loan ignores that the escrow may hold less than its share.)
BorrowedBesideShare(m) ==
    LET b == BuyKey(m) IN
    SatSub(matchState[m].trade_value,
           MarginUsed(matchState[m].fill_quantity, order[b].margin, order[b].quantity))

BorrowedAmount(m) == SatSub(matchState[m].trade_value, AvailableMargin(m))

PositionType(leverage) == IF leverage = 1 THEN "Spot" ELSE "Leveraged"

\* (A mutant: the market vault is credited with the whole trade value.)
VaultCreditedTwice(m) ==
    IF order[BuyKey(m)].leverage > 1
    THEN [vault EXCEPT !.margin = @ + AvailableMargin(m),
                       !.market = @ + matchState[m].trade_value,
                       !.liquidity = @ - BorrowedAmount(m)]
    ELSE [vault EXCEPT !.market = @ + AvailableMargin(m)]

\* A spot order pays into the market vault; a leveraged one pays its margin
\* into the margin vault and the market vault gets the borrowed rest.
VaultAfterBuy(m) ==
    IF order[BuyKey(m)].leverage > 1
    THEN [vault EXCEPT !.margin = @ + AvailableMargin(m),
                       !.market = @ + BorrowedAmount(m),
                       !.liquidity = @ - BorrowedAmount(m)]
    ELSE [vault EXCEPT !.market = @ + AvailableMargin(m)]

PositionAfterBuy(pos, m) ==
    LET fill == matchState[m].fill_quantity
        price == matchState[m].match_price
    IN  [pos EXCEPT
           !.avg_entry_price =
               IF pos.shares = 0 THEN price
               ELSE (pos.shares * @ + fill * price) \div (pos.shares + fill),
           !.leverage = IF pos.shares = 0 THEN order[BuyKey(m)].leverage ELSE @,
           !.shares = @ + fill,
           !.collateral = @ + AvailableMargin(m),
           !.borrowed_amount = @ + BorrowedAmount(m)]

StatusAfterFill(filled, quantity) ==
    IF filled >= quantity THEN "Filled" ELSE "PartiallyFilled"

Filled(k, fill) ==
    [order[k] EXCEPT !.filled_quantity = @ + fill,
                     !.status = StatusAfterFill(order[k].filled_quantity + fill,
                                                order[k].quantity)]

\* A spot position never has debt.
SpotInvariants(pos) == pos.borrowed_amount = 0 /\ pos.leverage = 1

\* (A mutant: the debt of a spot position is not looked at.)
LenderCanSettle(m, pos) ==
    order[BuyKey(m)].leverage > 1 => vault.liquidity >= BorrowedAmount(m)

BuyerCanSettle(m, pos) ==
    IF order[BuyKey(m)].leverage > 1
    THEN vault.liquidity >= BorrowedAmount(m)
    ELSE SpotInvariants(PositionAfterBuy(position[pos], m))

\* (A mutant: the order is looked at, which other matches have yet to update.)
OrderDelivers(m, t) ==
    order[SellKey(m)].token_type = t /\ Remaining(SellKey(m)) >= matchState[m].fill_quantity

\* The sell order's escrow of the token exists and holds the shares.
SellerDelivers(m, t) ==
    order[SellKey(m)].token_type = t /\ shareEscrow[SellKey(m)] >= matchState[m].fill_quantity

\* (A mutant: the seller half forgets to set its flags.)
HalfAdvanced(m, stage) ==
    IF stage = "Executed" THEN matchState ELSE [matchState EXCEPT ![m].stage = stage]

Advanced(m, stage) == [matchState EXCEPT ![m].stage = stage]

ExecuteBuyerMatch(m, t) ==
    LET b == BuyKey(m)
        s == SellKey(m)
        fill == matchState[m].fill_quantity
        o == matchState[m].outcome_id
        lev == order[b].leverage
        pos == <<Owner(b), o, t, PositionType(lev)>>
    IN
    /\ matchState[m].stage = "Validated"
    /\ SellerDelivers(m, t)
    /\ BuyerCanSettle(m, pos)
    /\ shareEscrow' = [shareEscrow EXCEPT ![s] = @ - fill]
    /\ wallet' = [wallet EXCEPT ![<<Owner(b), o, t>>] = @ + fill]
    /\ orderEscrow' = [orderEscrow EXCEPT ![b] = @ - AvailableMargin(m)]
    /\ vault' = VaultAfterBuy(m)
    /\ position' = [position EXCEPT ![pos] = PositionAfterBuy(@, m)]
    /\ market' = IF lev > 1
                 THEN [market EXCEPT !.total_leverage_provided =
                                         @ + QuoteValue(fill, matchState[m].match_price)]
                 ELSE market
    /\ order' = [order EXCEPT ![b] = Filled(b, fill)]
    /\ matchState' = Advanced(m, "BuyExecuted")
    /\ owed' = owed + matchState[m].trade_value
    /\ pendingFill' = [pendingFill EXCEPT ![s] = @ + fill]
    /\ UNCHANGED <<usdc, clock, netMinted>>

ExecuteYesBuyerMatch(m) == ExecuteBuyerMatch(m, "YES")
ExecuteNoBuyerMatch(m) == ExecuteBuyerMatch(m, "NO")

(***************************************************************************)
(* The seller half.  The market vault pays the trade value less the fee;   *)
(* of the proceeds of a leveraged close, debt is served first.             *)
(***************************************************************************)
SellerPayment(m) ==
    LET fee == IF matchState[m].sell_is_maker THEN MAKER_FEE_BPS
               ELSE DynamicFee(matchState[m].match_price, "Sell")
    IN  SatSub(matchState[m].trade_value, BpsOf(matchState[m].trade_value, fee))

DebtPayment(m) ==
    LET o == order[SellKey(m)]
        fill_ratio == RatioBps(matchState[m].fill_quantity, o.quantity)
    IN  IF o.is_leveraged_close
        THEN Lesser(BpsOf(o.borrowed_amount_to_repay, fill_ratio), SellerPayment(m))
        ELSE 0

MarketAfterSell(m) ==
    LET x == matchState[m] IN
    [market EXCEPT
       !.last_price[x.outcome_id] = x.match_price,
       !.total_leverage_provided =
           IF order[SellKey(m)].is_leveraged_close
           THEN SatSub(@, QuoteValue(x.fill_quantity, x.match_price)) ELSE @]

ExecuteSellerMatch(m) ==
    LET s == SellKey(m)
        fill == matchState[m].fill_quantity
    IN
    /\ matchState[m].stage = "BuyExecuted"
    /\ vault.market >= SellerPayment(m)
    /\ vault' = [vault EXCEPT !.market = @ - SellerPayment(m),
                              !.liquidity = @ + DebtPayment(m)]
    /\ usdc' = [usdc EXCEPT ![Owner(s)] = @ + (SellerPayment(m) - DebtPayment(m))]
    /\ order' = [order EXCEPT ![s] = [Filled(s, fill) EXCEPT
                                         !.borrowed_amount_to_repay = SatSub(@, DebtPayment(m))]]
    /\ market' = MarketAfterSell(m)
    /\ matchState' = Advanced(m, "Executed")
    /\ owed' = owed - matchState[m].trade_value
    /\ pendingFill' = [pendingFill EXCEPT ![s] = @ - fill]
    /\ UNCHANGED <<wallet, escrows, clock, netMinted, position>>
=============================================================================
