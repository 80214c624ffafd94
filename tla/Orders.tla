------------------------------- MODULE Orders -------------------------------
(***************************************************************************)
(* orders.rs: placing and cancelling orders.  An order account is created  *)
(* once and never closed, so a <<user, order id>> pair serves one order.   *)
(***************************************************************************)
EXTENDS SpaceState

NewOrder == [AbsentOrder EXCEPT !.status = "Open", !.created_at = now]

\* The open-interest cap is tested when a leveraged order is placed; the
\* interest itself is added when the order fills.
WithinOICap(notional, leverage) ==
    leverage > 1 => market.total_leverage_provided + notional <= MaxGlobalOI

PlaceBuyOrder(k, outcome_id, price, quantity, leverage) ==
    LET u == Owner(k)
        margin == RequiredMargin(quantity, price, leverage)
    IN
    /\ order[k].status = "Absent"
    /\ price \in 1..BASIS_POINTS
    /\ leverage \in 1..MAX_LEVERAGE
    /\ quantity > 0
    /\ WithinOICap(QuoteValue(quantity, price), leverage)
    /\ Trading
    /\ outcome_id < NumOutcomes
    /\ margin > 0
    /\ usdc[u] >= margin
    /\ usdc' = [usdc EXCEPT ![u] = @ - margin]
    /\ orderEscrow' = [orderEscrow EXCEPT ![k] = @ + margin]
    /\ order' = [order EXCEPT ![k] =
                   [NewOrder EXCEPT !.side = "Buy", !.outcome_id = outcome_id,
                                    !.price = price, !.quantity = quantity,
                                    !.margin = margin, !.leverage = leverage]]
    /\ UNCHANGED <<wallet, vault, market, shareEscrow, matchState, position, clock, history>>

(***************************************************************************)
(* What place_yes_limit_sell_order and place_no_limit_sell_order let a     *)
(* user offer: the shares of the spot position when there are any, else    *)
(* the token account.  Shares of a leveraged position stop the sale only   *)
(* when the transaction names that position, and it need not.              *)
(***************************************************************************)
AvailableToSell(u, o, t) ==
    IF position[<<u, o, t, "Spot">>].shares > 0 THEN position[<<u, o, t, "Spot">>].shares
    ELSE wallet[<<u, o, t>>]

SpotSellable(p) == p.borrowed_amount = 0 /\ p.leverage = 1

PlaceLimitSellOrder(k, outcome_id, t, price, quantity) ==
    LET u == Owner(k) IN
    /\ order[k].status = "Absent"
    /\ price \in 1..BASIS_POINTS
    /\ quantity > 0
    /\ Trading
    /\ outcome_id < NumOutcomes
    /\ SpotSellable(position[<<u, outcome_id, t, "Spot">>])
    /\ AvailableToSell(u, outcome_id, t) >= quantity
    /\ wallet[<<u, outcome_id, t>>] >= quantity
    /\ wallet' = [wallet EXCEPT ![<<u, outcome_id, t>>] = @ - quantity]
    /\ shareEscrow' = [shareEscrow EXCEPT ![k] = @ + quantity]
    /\ order' = [order EXCEPT ![k] =
                   [NewOrder EXCEPT !.side = "Sell", !.outcome_id = outcome_id,
                                    !.token_type = t, !.price = price,
                                    !.quantity = quantity]]
    /\ UNCHANGED <<usdc, vault, market, orderEscrow, matchState, position, clock, history>>

PlaceYesLimitSellOrder(k, outcome_id, price, quantity) ==
    PlaceLimitSellOrder(k, outcome_id, "YES", price, quantity)

PlaceNoLimitSellOrder(k, outcome_id, price, quantity) ==
    PlaceLimitSellOrder(k, outcome_id, "NO", price, quantity)

CancelOrder(k) ==
    LET return_margin == Lesser(orderEscrow[k], order[k].margin) IN
    /\ Live(k)
    /\ order[k].side = "Buy"     \* only a buy order has an order_escrow account
    /\ orderEscrow' = [orderEscrow EXCEPT ![k] = @ - return_margin]
    /\ usdc' = [usdc EXCEPT ![Owner(k)] = @ + return_margin]
    /\ order' = [order EXCEPT ![k].status = "Cancelled"]
    /\ UNCHANGED <<wallet, vault, market, shareEscrow, matchState, position, clock, history>>

(***************************************************************************)
(* cancel_sell_order takes t = "YES", cancel_no_sell_order t = "NO".  Each *)
(* returns what is in the escrow of its own token: nothing, when the order *)
(* was placed with the other token and that escrow was never created.      *)
(***************************************************************************)
ReturnedShares(k, t) == IF order[k].token_type = t THEN shareEscrow[k] ELSE 0

\* The position a leveraged close took from, given back what is not filled.
RestoredPosition(pos, o) ==
    LET unfilled == SatSub(o.quantity, o.filled_quantity)
        restore_ratio == RatioBps(unfilled, o.quantity)
    IN  [pos EXCEPT !.shares = @ + unfilled,
                    !.collateral = @ + BpsOf(o.collateral_to_return, restore_ratio),
                    !.borrowed_amount = @ + BpsOf(o.borrowed_amount_to_repay, restore_ratio)]

CancelSide(k, t) ==
    LET o == order[k]
        u == Owner(k)
        home == <<u, o.outcome_id, o.token_type>>
    IN
    /\ Live(k)
    /\ o.side = "Sell"
    /\ wallet' = [wallet EXCEPT ![home] = @ + ReturnedShares(k, t)]
    /\ shareEscrow' = [shareEscrow EXCEPT ![k] = @ - ReturnedShares(k, t)]
    /\ position' = IF o.is_leveraged_close
                   THEN [position EXCEPT ![<<u, o.outcome_id, o.token_type, "Leveraged">>]
                                             = RestoredPosition(@, o)]
                   ELSE position
    /\ order' = [order EXCEPT ![k].status = "Cancelled"]
    /\ UNCHANGED <<usdc, vault, market, orderEscrow, matchState, clock, history>>

CancelSellOrder(k) == CancelSide(k, "YES")
CancelNoSellOrder(k) == CancelSide(k, "NO")
=============================================================================
