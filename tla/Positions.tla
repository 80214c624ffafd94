----------------------------- MODULE Positions ------------------------------
(***************************************************************************)
(* positions.rs and liquidation.rs: leaving a position.  A leveraged one   *)
(* is sold through the book on an Active market (close_leveraged_position  *)
(* places the sell order); close_position settles a spot position, or any  *)
(* position of a Finalized market, against the vaults.                     *)
(***************************************************************************)
EXTENDS Orders

CloseLeveragedPosition(k, outcome_id, t, shares_to_close, min_price) ==
    LET u == Owner(k)
        pos == position[<<u, outcome_id, t, "Leveraged">>]
        shares == Lesser(shares_to_close, Lesser(pos.shares, wallet[<<u, outcome_id, t>>]))
        close_ratio == RatioBps(shares, pos.shares)
        debt == BpsOf(pos.borrowed_amount, close_ratio)
        collateral == BpsOf(pos.collateral, close_ratio)
    IN
    /\ order[k].status = "Absent"
    /\ market.status = "Active"
    /\ pos.borrowed_amount > 0
    /\ shares > 0
    /\ wallet' = [wallet EXCEPT ![<<u, outcome_id, t>>] = @ - shares]
    /\ shareEscrow' = [shareEscrow EXCEPT ![k] = @ + shares]
    /\ order' = [order EXCEPT ![k] =
          [NewOrder EXCEPT !.side = "Sell", !.outcome_id = outcome_id, !.token_type = t,
                           !.order_type = "Market", !.price = min_price, !.quantity = shares,
                           !.leverage = pos.leverage, !.is_leveraged_close = TRUE,
                           !.borrowed_amount_to_repay = debt,
                           !.collateral_to_return = collateral]]
    /\ position' = [position EXCEPT ![<<u, outcome_id, t, "Leveraged">>] =
          [pos EXCEPT !.shares = SatSub(@, shares), !.collateral = SatSub(@, collateral),
                      !.borrowed_amount = SatSub(@, debt)]]
    /\ UNCHANGED <<usdc, vault, market, orderEscrow, matchState, clock, history>>

(***************************************************************************)
(* The price at which a position is marked: the resolution decides once    *)
(* the market is Finalized; before that it is the outcome's last price,    *)
(* inverted for NO.                                                        *)
(***************************************************************************)
MarketMark(o, t) ==
    IF t = "NO" THEN SatSub(BASIS_POINTS, market.last_price[o]) ELSE market.last_price[o]

SettlementMark(o, t) ==
    IF (o = market.resolved_outcome) = (t = "YES") THEN BASIS_POINTS ELSE 0

MarkPrice(o, t) ==
    IF market.status = "Finalized" /\ market.resolved_outcome # NoOutcome
    THEN SettlementMark(o, t) ELSE MarketMark(o, t)

(***************************************************************************)
(* close_position.  `burned' of the position's shares are burned.  Closing *)
(* a part scales every amount by close_ratio.  The leveraged branch takes  *)
(* its collateral and its debt from the position already reduced and from  *)
(* the debt already scaled, and scales both once more.                     *)
(***************************************************************************)
Settlement(pos, burned, price) ==
    LET part == burned < pos.shares
        close_ratio == RatioBps(burned, pos.shares)
        Scaled(x) == BpsOf(x, close_ratio)
        value == QuoteValue(pos.shares, price)
        entry == QuoteValue(pos.shares, pos.avg_entry_price)
        debt == Scaled(pos.borrowed_amount)
        collateral == Scaled(pos.collateral)
        debtDue == IF part THEN Scaled(debt) ELSE debt
        margin == IF part THEN Scaled(pos.collateral - collateral) ELSE collateral
        shortfall == SatSub(debtDue, Scaled(value))
    IN  [repaid |-> Lesser(Scaled(value), debtDue),
         shortfall |-> shortfall,
         equity |-> Equity(collateral, Scaled(value), Scaled(entry)),
         payout |-> SatSub(Equity(margin, Scaled(value), Scaled(entry)), shortfall),
         rest |-> IF part THEN [pos EXCEPT !.shares = @ - burned,
                                           !.collateral = @ - collateral,
                                           !.borrowed_amount = @ - debt]
                  ELSE [pos EXCEPT !.shares = 0, !.collateral = 0, !.borrowed_amount = 0]]

\* (A mutant: the margin vault's part of the debt is not taken from it.)
CloseUnpaid(u, s) ==
    LET covered == Lesser(s.shortfall, vault.margin)
        paid == Lesser(s.payout, vault.margin)
    IN
    /\ vault.market >= s.repaid
    /\ vault.margin >= covered + paid
    /\ vault' = [vault EXCEPT !.market = @ - s.repaid,
                              !.liquidity = @ + s.repaid + covered,
                              !.margin = @ - paid]
    /\ usdc' = [usdc EXCEPT ![u] = @ + paid]

\* Leveraged: the debt is repaid from the market vault, then from the margin
\* vault, which also pays the user; each as far as the balance goes that it had
\* at first, so that the two together may be too much for it.
CloseLeveraged(u, s) ==
    LET covered == Lesser(s.shortfall, vault.margin)
        paid == Lesser(s.payout, vault.margin)
    IN
    /\ vault.market >= s.repaid
    /\ vault.margin >= covered + paid
    /\ vault' = [vault EXCEPT !.market = @ - s.repaid,
                              !.liquidity = @ + s.repaid + covered,
                              !.margin = @ - covered - paid]
    /\ usdc' = [usdc EXCEPT ![u] = @ + paid]

CloseSpot(u, s) ==
    /\ vault.market >= s.equity
    /\ vault' = [vault EXCEPT !.market = @ - s.equity]
    /\ usdc' = [usdc EXCEPT ![u] = @ + s.equity]

ClosePosition(u, outcome_id, t, type) ==
    LET pos == position[<<u, outcome_id, t, type>>]
        burned == Lesser(wallet[<<u, outcome_id, t>>], pos.shares)
        s == Settlement(pos, burned, MarkPrice(outcome_id, t))
        notional == QuoteValue(burned, pos.avg_entry_price)
    IN
    /\ ~(market.status = "Active" /\ pos.borrowed_amount > 0)
    /\ market.status \in {"Active", "Finalized"}
    /\ pos.shares > 0
    /\ wallet[<<u, outcome_id, t>>] > 0
    /\ IF pos.leverage > 1 THEN CloseLeveraged(u, s) ELSE CloseSpot(u, s)
    /\ wallet' = [wallet EXCEPT ![<<u, outcome_id, t>>] = @ - burned]
    /\ position' = [position EXCEPT ![<<u, outcome_id, t, type>>] = s.rest]
    /\ market' = IF pos.leverage > 1
                 THEN [market EXCEPT !.total_leverage_provided = SatSub(@, notional)]
                 ELSE market
    /\ UNCHANGED <<escrows, book, clock, history>>

(***************************************************************************)
(* liquidate_position seizes a quarter of an under-margined position: the  *)
(* insurance fund and the liquidator are paid, the debt stays.             *)
(***************************************************************************)
LiquidatePosition(liquidator, u, outcome_id, t) ==
    LET pos == position[<<u, outcome_id, t, "Leveraged">>]
        price == MarketMark(outcome_id, t)
        amount == BpsOf(pos.shares, LIQUIDATION_STEP_BPS)
        penalty == BpsOf(QuoteValue(amount, price), LIQUIDATION_PENALTY_BPS)
        reward == penalty \div 2
        notional == QuoteValue(pos.shares, pos.avg_entry_price)
        seized == IF notional > 0
                  THEN (pos.collateral * QuoteValue(amount, pos.avg_entry_price)) \div notional
                  ELSE 0
        left == SatSub(pos.shares, amount)
    IN
    /\ market.status = "Active"
    /\ pos.borrowed_amount > 0
    /\ Liquidatable(pos, price)
    /\ vault.market >= penalty + reward
    /\ vault' = [vault EXCEPT !.market = @ - (penalty + reward),
                              !.insurance = @ + penalty]
    /\ usdc' = [usdc EXCEPT ![liquidator] = @ + reward]
    /\ position' = [position EXCEPT ![<<u, outcome_id, t, "Leveraged">>] =
          [pos EXCEPT !.shares = left,
                      !.collateral = IF left = 0 THEN 0 ELSE SatSub(@, seized)]]
    /\ UNCHANGED <<wallet, escrows, book, clock, history, market>>
=============================================================================
