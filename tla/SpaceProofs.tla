---------------------------- MODULE SpaceProofs -----------------------------
(***************************************************************************)
(* The theorems about the space-core program.                              *)
(***************************************************************************)
EXTENDS BookProofs

-----------------------------------------------------------------------------
(***************************************************************************)
(* TypeOK through the instructions that leave a position, resolve the      *)
(* market or redeem its shares.                                            *)
(***************************************************************************)
\* Every position account of a trading user is a position.
LEMMA PositionHere ==
    ASSUME TypeOK, NEW u \in Users, NEW o \in Outcomes, NEW t \in TokenTypes,
           NEW type \in PositionTypes
    PROVE  position[<<u, o, t, type>>] \in Position
  BY DEF TypeOK

\* Every token account holds a natural number of shares.
LEMMA WalletHere ==
    ASSUME TypeOK, NEW u \in Users, NEW o \in Outcomes, NEW t \in TokenTypes
    PROVE  wallet[<<u, o, t>>] \in Nat
  BY DEF TypeOK

\* The lesser of two amounts is an amount, no more than either.
LEMMA LesserNat ==
    ASSUME NEW a \in Nat, NEW b \in Nat
    PROVE  Lesser(a, b) \in Nat /\ Lesser(a, b) <= a /\ Lesser(a, b) <= b
  BY DEF Lesser

-----------------------------------------------------------------------------
\* close_leveraged_position: the order takes part of the position's debt and
\* collateral, never more than there is.
LEMMA CloseLeveragedType ==
    ASSUME TypeOK, NEW k \in OrderKeys, NEW o \in Outcomes, NEW t \in TokenTypes,
           NEW q \in Quantities, NEW p \in Prices, CloseLeveragedPosition(k, o, t, q, p)
    PROVE  TypeOK'
  <1> DEFINE u == Owner(k)
             pos == position[<<u, o, t, "Leveraged">>]
             shares == Lesser(q, Lesser(pos.shares, wallet[<<u, o, t>>]))
             ratio == RatioBps(shares, pos.shares)
             debt == BpsOf(pos.borrowed_amount, ratio)
             collateral == BpsOf(pos.collateral, ratio)
             new == [NewOrder EXCEPT !.side = "Sell", !.outcome_id = o, !.token_type = t,
                       !.order_type = "Market", !.price = p, !.quantity = shares,
                       !.leverage = pos.leverage, !.is_leveraged_close = TRUE,
                       !.borrowed_amount_to_repay = debt, !.collateral_to_return = collateral]
             rest == [pos EXCEPT !.shares = SatSub(@, shares),
                                 !.collateral = SatSub(@, collateral),
                                 !.borrowed_amount = SatSub(@, debt)]
  <1>1. /\ wallet' = [wallet EXCEPT ![<<u, o, t>>] = @ - shares]
        /\ shareEscrow' = [shareEscrow EXCEPT ![k] = @ + shares]
        /\ order' = [order EXCEPT ![k] = new]
        /\ UNCHANGED <<usdc, vault, market, orderEscrow, matchState, clock, history>>
    BY DEF CloseLeveragedPosition
  <1>0. position' = [position EXCEPT ![<<u, o, t, "Leveraged">>] = rest]
    BY DEF CloseLeveragedPosition
  <1>2. /\ u \in Users /\ q \in Nat /\ p \in Nat /\ "Leveraged" \in PositionTypes
    BY InputTypes DEF PositionTypes
  <1>3. pos \in Position /\ wallet[<<u, o, t>>] \in Nat
    BY <1>2, PositionHere, WalletHere
  <1> HIDE DEF u, pos
  <1>4. /\ pos.shares \in Nat /\ pos.leverage \in Nat /\ pos.collateral \in Nat
        /\ pos.borrowed_amount \in Nat
    BY <1>3 DEF Position
  <1>5. shares \in Nat /\ shares <= wallet[<<u, o, t>>]
    BY <1>2, <1>3, <1>4 DEF Lesser
  <1> HIDE DEF shares
  <1>6. ratio \in Nat
    BY <1>4, <1>5, RatioNat
  <1> HIDE DEF ratio
  <1>7. debt \in Nat /\ collateral \in Nat
    BY <1>4, <1>6, BpsOfNat
  <1> HIDE DEF debt, collateral
  <1>8. new \in PendingOrder
    BY <1>2, <1>4, <1>5, <1>7, NewOrderType DEF PendingOrder
  <1>9. rest \in Position
    <2> DEFINE shares2 == SatSub(pos.shares, shares)
               collateral2 == SatSub(pos.collateral, collateral)
               debt2 == SatSub(pos.borrowed_amount, debt)
    <2>1. shares2 \in Nat /\ collateral2 \in Nat /\ debt2 \in Nat
      BY <1>4, <1>5, <1>7, SatSubNat
    <2>2. rest = [pos EXCEPT !.shares = shares2, !.collateral = collateral2,
                             !.borrowed_amount = debt2]
      OBVIOUS
    <2> HIDE DEF shares2, collateral2, debt2
    <2> QED
      BY <1>3, <2>1, <2>2 DEF Position
  <1> HIDE DEF new, rest
  <1>10. wallet' \in [Users \X Outcomes \X TokenTypes -> Nat]
    BY <1>1, <1>2, <1>3, <1>5 DEF TypeOK
  <1>11. shareEscrow' \in [OrderKeys -> Nat]
    BY <1>1, <1>5 DEF TypeOK
  <1>12. order' \in [OrderKeys -> PendingOrder]
    BY <1>1, <1>8 DEF TypeOK
  <1>13. position' \in [Users \X Outcomes \X TokenTypes \X PositionTypes -> Position]
    BY <1>0, <1>2, <1>9 DEF TypeOK
  <1> QED
    BY <1>1, <1>10, <1>11, <1>12, <1>13 DEF TypeOK, clock, history

-----------------------------------------------------------------------------
\* The price that marks a position.
LEMMA MarkNat ==
    ASSUME TypeOK, NEW o \in Outcomes, NEW t \in TokenTypes
    PROVE  MarketMark(o, t) \in Nat /\ MarkPrice(o, t) \in Nat
  <1>1. market.last_price[o] \in Nat /\ BASIS_POINTS \in Nat
    BY DEF TypeOK, Market, BASIS_POINTS
  <1>2. MarketMark(o, t) \in Nat
    BY <1>1, SatSubNat DEF MarketMark
  <1>3. SettlementMark(o, t) \in Nat
    BY <1>1 DEF SettlementMark
  <1> QED
    BY <1>2, <1>3 DEF MarkPrice

\* Equity is clamped at zero.
LEMMA EquityNat ==
    ASSUME NEW a \in Nat, NEW b \in Nat, NEW c \in Nat
    PROVE  Equity(a, b, c) \in Nat
  BY DEF Equity, Greater

\* What closing `burned' shares of a position pays and leaves.
LEMMA SettlementType ==
    ASSUME NEW pos \in Position, NEW burned \in Nat, burned <= pos.shares, NEW price \in Nat
    PROVE  LET s == Settlement(pos, burned, price)
           IN  /\ s.repaid \in Nat /\ s.shortfall \in Nat /\ s.equity \in Nat
               /\ s.payout \in Nat /\ s.rest \in Position
  <1> DEFINE part == burned < pos.shares
             ratio == RatioBps(burned, pos.shares)
             value == QuoteValue(pos.shares, price)
             entry == QuoteValue(pos.shares, pos.avg_entry_price)
             value2 == BpsOf(value, ratio)
             entry2 == BpsOf(entry, ratio)
             debt == BpsOf(pos.borrowed_amount, ratio)
             collateral == BpsOf(pos.collateral, ratio)
             debtDue == IF part THEN BpsOf(debt, ratio) ELSE debt
             margin == IF part THEN BpsOf(pos.collateral - collateral, ratio) ELSE collateral
             shortfall == SatSub(debtDue, value2)
             rest == IF part THEN [pos EXCEPT !.shares = @ - burned,
                                              !.collateral = @ - collateral,
                                              !.borrowed_amount = @ - debt]
                     ELSE [pos EXCEPT !.shares = 0, !.collateral = 0, !.borrowed_amount = 0]
  <1>1. /\ pos.shares \in Nat /\ pos.avg_entry_price \in Nat /\ pos.collateral \in Nat
        /\ pos.borrowed_amount \in Nat
    BY DEF Position
  <1>2. value \in Nat /\ entry \in Nat
    BY <1>1, QuoteValueNat
  <1>3. ratio \in 0..BASIS_POINTS /\ ratio \in Nat
    BY <1>1, RatioBounds, RatioNat
  <1>4. Settlement(pos, burned, price) =
          [repaid |-> Lesser(value2, debtDue), shortfall |-> shortfall,
           equity |-> Equity(collateral, value2, entry2),
           payout |-> SatSub(Equity(margin, value2, entry2), shortfall), rest |-> rest]
    BY DEF Settlement
  <1> HIDE DEF ratio, value, entry
  <1>5. value2 \in Nat /\ entry2 \in Nat
    BY <1>2, <1>3, BpsOfNat
  <1>6. /\ debt \in Nat /\ debt <= pos.borrowed_amount
        /\ collateral \in Nat /\ collateral <= pos.collateral
    BY <1>1, <1>3, BpsOfBounds
  <1> HIDE DEF value2, entry2, debt, collateral
  <1>7. /\ pos.collateral - collateral \in Nat /\ pos.borrowed_amount - debt \in Nat
        /\ pos.shares - burned \in Nat
    BY <1>1, <1>6
  <1>8. debtDue \in Nat
    BY <1>3, <1>6, BpsOfNat
  <1>9. margin \in Nat
    BY <1>3, <1>6, <1>7, BpsOfNat
  <1>10. rest \in Position
    <2> DEFINE shares2 == pos.shares - burned
               collateral2 == pos.collateral - collateral
               debt2 == pos.borrowed_amount - debt
    <2>1. shares2 \in Nat /\ collateral2 \in Nat /\ debt2 \in Nat
      BY <1>7
    <2>2. rest = IF part THEN [pos EXCEPT !.shares = shares2, !.collateral = collateral2,
                                          !.borrowed_amount = debt2]
                 ELSE [pos EXCEPT !.shares = 0, !.collateral = 0, !.borrowed_amount = 0]
      OBVIOUS
    <2> HIDE DEF shares2, collateral2, debt2, part
    <2> QED
      BY <2>1, <2>2 DEF Position
  <1> HIDE DEF debtDue, margin, rest
  <1>11. shortfall \in Nat /\ Lesser(value2, debtDue) \in Nat
    BY <1>5, <1>8, SatSubNat, LesserNat
  <1> HIDE DEF shortfall
  <1>12. Equity(collateral, value2, entry2) \in Nat /\ Equity(margin, value2, entry2) \in Nat
    BY <1>5, <1>6, <1>9, EquityNat
  <1>13. SatSub(Equity(margin, value2, entry2), shortfall) \in Nat
    BY <1>11, <1>12, SatSubNat
  <1> QED
    BY <1>4, <1>10, <1>11, <1>12, <1>13

\* close_position pays the user and the lender what the vaults hold.
LEMMA ClosePaid ==
    ASSUME TypeOK, NEW u \in Users, NEW s,
           s.repaid \in Nat, s.shortfall \in Nat, s.equity \in Nat, s.payout \in Nat,
           CloseLeveraged(u, s) \/ CloseSpot(u, s)
    PROVE  vault' \in Vaults /\ usdc' \in [Users -> Nat]
  <1>1. /\ vault \in Vaults /\ usdc \in [Users -> Nat]
        /\ vault.market \in Nat /\ vault.margin \in Nat /\ vault.liquidity \in Nat
    BY DEF TypeOK, Vaults
  <1>2. CASE CloseLeveraged(u, s)
    <2> DEFINE covered == Lesser(s.shortfall, vault.margin)
               paid == Lesser(s.payout, vault.margin)
               mkt == vault.market - s.repaid
               liquidity == vault.liquidity + s.repaid + covered
               margin == vault.margin - covered - paid
    <2>1. /\ vault.market >= s.repaid /\ vault.margin >= covered + paid
          /\ vault' = [vault EXCEPT !.market = mkt, !.liquidity = liquidity, !.margin = margin]
          /\ usdc' = [usdc EXCEPT ![u] = @ + paid]
      BY <1>2 DEF CloseLeveraged
    <2>2. covered \in Nat /\ covered <= vault.margin
      BY <1>1, LesserNat
    <2> HIDE DEF covered
    <2>3. paid \in Nat /\ paid <= vault.margin
      BY <1>1, LesserNat
    <2> HIDE DEF paid
    <2>4. mkt \in Nat /\ liquidity \in Nat /\ margin \in Nat
      BY <1>1, <2>1, <2>2, <2>3
    <2> HIDE DEF mkt, liquidity, margin
    <2>5. vault' \in Vaults
      BY <1>1, <2>1, <2>4 DEF Vaults
    <2> QED
      BY <1>1, <2>1, <2>3, <2>5
  <1>3. CASE CloseSpot(u, s)
    <2> DEFINE mkt == vault.market - s.equity
    <2>1. /\ vault.market >= s.equity
          /\ vault' = [vault EXCEPT !.market = mkt]
          /\ usdc' = [usdc EXCEPT ![u] = @ + s.equity]
      BY <1>3 DEF CloseSpot
    <2>2. mkt \in Nat
      BY <1>1, <2>1
    <2> HIDE DEF mkt
    <2>3. vault' \in Vaults
      BY <1>1, <2>1, <2>2 DEF Vaults
    <2> QED
      BY <1>1, <2>1, <2>3
  <1> QED
    BY <1>2, <1>3

\* close_position burns no more shares than the wallet and the position have.
LEMMA CloseType ==
    ASSUME TypeOK, NEW u \in Users, NEW o \in Outcomes, NEW t \in TokenTypes,
           NEW type \in PositionTypes, ClosePosition(u, o, t, type)
    PROVE  TypeOK'
  <1> DEFINE pos == position[<<u, o, t, type>>]
             burned == Lesser(wallet[<<u, o, t>>], pos.shares)
             price == MarkPrice(o, t)
             s == Settlement(pos, burned, price)
             notional == QuoteValue(burned, pos.avg_entry_price)
             interest == SatSub(market.total_leverage_provided, notional)
  <1>1. /\ CloseLeveraged(u, s) \/ CloseSpot(u, s)
        /\ wallet' = [wallet EXCEPT ![<<u, o, t>>] = @ - burned]
        /\ position' = [position EXCEPT ![<<u, o, t, type>>] = s.rest]
        /\ market' = IF pos.leverage > 1
                     THEN [market EXCEPT !.total_leverage_provided = interest] ELSE market
        /\ UNCHANGED <<escrows, book, clock, history>>
    BY DEF ClosePosition
  <1>2. pos \in Position /\ wallet[<<u, o, t>>] \in Nat /\ price \in Nat
    BY PositionHere, WalletHere, MarkNat
  <1> HIDE DEF pos, price
  <1>3. pos.shares \in Nat /\ pos.avg_entry_price \in Nat
    BY <1>2 DEF Position
  <1>4. burned \in Nat /\ burned <= pos.shares /\ burned <= wallet[<<u, o, t>>]
    BY <1>2, <1>3, LesserNat
  <1> HIDE DEF burned
  <1>5. /\ s.repaid \in Nat /\ s.shortfall \in Nat /\ s.equity \in Nat /\ s.payout \in Nat
        /\ s.rest \in Position
    BY <1>2, <1>4, SettlementType
  <1> HIDE DEF s
  <1>6. vault' \in Vaults /\ usdc' \in [Users -> Nat]
    BY <1>1, <1>5, ClosePaid
  <1>7. wallet' \in [Users \X Outcomes \X TokenTypes -> Nat]
    BY <1>1, <1>2, <1>4 DEF TypeOK
  <1>8. position' \in [Users \X Outcomes \X TokenTypes \X PositionTypes -> Position]
    BY <1>1, <1>5 DEF TypeOK
  <1>9. market' \in Market
    <2>1. market \in Market /\ market.total_leverage_provided \in Nat
      BY DEF TypeOK, Market
    <2>2. notional \in Nat
      BY <1>3, <1>4, QuoteValueNat
    <2>3. interest \in Nat
      BY <2>1, <2>2, SatSubNat
    <2> HIDE DEF interest
    <2> QED
      BY <1>1, <2>1, <2>3 DEF Market
  <1> QED
    BY <1>1, <1>6, <1>7, <1>8, <1>9 DEF TypeOK, escrows, book, clock, history

\* liquidate_position: the market vault is tested before it pays.
LEMMA LiquidateType ==
    ASSUME TypeOK, NEW l \in Users, NEW u \in Users, NEW o \in Outcomes, NEW t \in TokenTypes,
           LiquidatePosition(l, u, o, t)
    PROVE  TypeOK'
  <1> DEFINE pos == position[<<u, o, t, "Leveraged">>]
             price == MarketMark(o, t)
             amount == BpsOf(pos.shares, LIQUIDATION_STEP_BPS)
             penalty == BpsOf(QuoteValue(amount, price), LIQUIDATION_PENALTY_BPS)
             reward == penalty \div 2
             notional == QuoteValue(pos.shares, pos.avg_entry_price)
             seized == IF notional > 0
                       THEN (pos.collateral * QuoteValue(amount, pos.avg_entry_price))
                              \div notional
                       ELSE 0
             left == SatSub(pos.shares, amount)
             collateral == IF left = 0 THEN 0 ELSE SatSub(pos.collateral, seized)
             mkt == vault.market - (penalty + reward)
             insurance == vault.insurance + penalty
  <1>1. /\ vault.market >= penalty + reward
        /\ vault' = [vault EXCEPT !.market = mkt, !.insurance = insurance]
        /\ usdc' = [usdc EXCEPT ![l] = @ + reward]
        /\ UNCHANGED <<wallet, escrows, book, clock, history, market>>
    BY DEF LiquidatePosition
  <1>2. position' = [position EXCEPT ![<<u, o, t, "Leveraged">>] =
                        [pos EXCEPT !.shares = left, !.collateral = collateral]]
    BY DEF LiquidatePosition
  <1>3. "Leveraged" \in PositionTypes /\ LIQUIDATION_STEP_BPS \in Nat
          /\ LIQUIDATION_PENALTY_BPS \in Nat
    BY DEF PositionTypes, LIQUIDATION_STEP_BPS, LIQUIDATION_PENALTY_BPS
  <1>4. pos \in Position /\ price \in Nat
    BY <1>3, PositionHere, MarkNat
  <1> HIDE DEF pos, price
  <1>5. pos.shares \in Nat /\ pos.avg_entry_price \in Nat /\ pos.collateral \in Nat
    BY <1>4 DEF Position
  <1>6. amount \in Nat
    BY <1>3, <1>5, BpsOfNat
  <1> HIDE DEF amount
  <1>7. QuoteValue(amount, price) \in Nat /\ QuoteValue(amount, pos.avg_entry_price) \in Nat
        /\ notional \in Nat
    BY <1>4, <1>5, <1>6, QuoteValueNat
  <1>8. penalty \in Nat
    BY <1>3, <1>7, BpsOfNat
  <1> HIDE DEF penalty, notional
  <1>9. reward \in Nat
    BY <1>8, DivNat
  <1>10. seized \in Nat
    <2>1. pos.collateral * QuoteValue(amount, pos.avg_entry_price) \in Nat
      BY <1>5, <1>7, TimesNat
    <2> QED
      BY <1>7, <2>1, DivNat
  <1> HIDE DEF reward, seized
  <1>11. left \in Nat
    BY <1>5, <1>6, SatSubNat
  <1> HIDE DEF left
  <1>12. collateral \in Nat
    BY <1>5, <1>10, SatSubNat
  <1> HIDE DEF collateral
  <1>13. vault' \in Vaults
    <2>1. vault \in Vaults
      BY DEF TypeOK
    <2>2. mkt \in Nat /\ insurance \in Nat
      BY <1>1, <1>8, <1>9, <2>1 DEF Vaults
    <2> HIDE DEF mkt, insurance
    <2> QED
      BY <1>1, <2>1, <2>2 DEF Vaults
  <1>14. usdc' \in [Users -> Nat]
    BY <1>1, <1>9 DEF TypeOK
  <1>15. position' \in [Users \X Outcomes \X TokenTypes \X PositionTypes -> Position]
    <2>1. [pos EXCEPT !.shares = left, !.collateral = collateral] \in Position
      BY <1>4, <1>11, <1>12 DEF Position
    <2> QED
      BY <1>2, <1>3, <2>1 DEF TypeOK
  <1> QED
    BY <1>1, <1>13, <1>14, <1>15 DEF TypeOK, escrows, book, clock, history

-----------------------------------------------------------------------------
\* resolution.rs.
LEMMA ResolveType ==
    ASSUME TypeOK, ResolveSteps
    PROVE  TypeOK'
  <1>1. market \in Market /\ vault \in Vaults /\ usdc \in [Users -> Nat] /\ slot \in Nat
    BY DEF TypeOK
  <1>2. ASSUME NEW o \in OutcomeIds, ResolveOracle(o)
        PROVE  TypeOK'
    <2>1. /\ o \in Outcomes
          /\ market' = [market EXCEPT !.resolved_outcome = o, !.status = "Resolving",
                                      !.resolve_slot = slot]
          /\ UNCHANGED <<tokens, escrows, book, clock, history, vault, position>>
      BY <1>2, InputTypes DEF ResolveOracle
    <2>2. market' \in Market
      BY <1>1, <2>1 DEF Market, MarketStatus
    <2> QED
      BY <2>1, <2>2 DEF TypeOK, tokens, escrows, book, clock, history
  <1>3. CASE FinalizeMarket
    <2>1. /\ market' = [market EXCEPT !.status = "Finalized"]
          /\ UNCHANGED <<tokens, escrows, book, clock, history, vault, position>>
      BY <1>3 DEF FinalizeMarket
    <2>2. market' \in Market
      BY <1>1, <2>1 DEF Market, MarketStatus
    <2> QED
      BY <2>1, <2>2 DEF TypeOK, tokens, escrows, book, clock, history
  <1>4. ASSUME NEW u \in Users, NEW b \in Bonds, ChallengeResolution(u, b)
        PROVE  TypeOK'
    <2>1. /\ usdc[u] >= b
          /\ usdc' = [usdc EXCEPT ![u] = @ - b]
          /\ vault' = [vault EXCEPT !.market = @ + b]
          /\ market' = [market EXCEPT !.status = "Disputed", !.challenged = TRUE]
          /\ UNCHANGED <<wallet, escrows, book, clock, history, position>>
      BY <1>4 DEF ChallengeResolution
    <2>2. b \in Nat
      BY InputTypes
    <2>3. market' \in Market
      BY <1>1, <2>1 DEF Market, MarketStatus
    <2>4. vault' \in Vaults
      BY <1>1, <2>1, <2>2 DEF Vaults
    <2>5. usdc' \in [Users -> Nat]
      BY <1>1, <2>1, <2>2
    <2> QED
      BY <2>1, <2>3, <2>4, <2>5 DEF TypeOK, escrows, book, clock, history
  <1>5. CASE MarkInvalid
    <2>1. /\ market' = [market EXCEPT !.status = "Invalid", !.is_invalid = TRUE]
          /\ UNCHANGED <<tokens, escrows, book, clock, history, vault, position>>
      BY <1>5 DEF MarkInvalid
    <2>2. market' \in Market
      BY <1>1, <2>1 DEF Market, MarketStatus
    <2> QED
      BY <2>1, <2>2 DEF TypeOK, tokens, escrows, book, clock, history
  <1> QED
    BY <1>2, <1>3, <1>4, <1>5 DEF ResolveSteps

\* The debt that a redemption repays.
LEMMA TotalBorrowedNat ==
    ASSUME TypeOK, NEW u \in Users
    PROVE  TotalBorrowed(u) \in Nat
  <1>1. \A o \in 0..9, t \in TokenTypes : Debt(u, o, t) \in Nat
    <2> SUFFICES ASSUME NEW o \in 0..9, NEW t \in TokenTypes
                 PROVE  Debt(u, o, t) \in Nat
      OBVIOUS
    <2>1. CASE o \in Outcomes
      <3>1. position[<<u, o, t, "Leveraged">>] \in Position
        BY <2>1, PositionHere DEF PositionTypes
      <3> QED
        BY <3>1 DEF Debt, Position
    <2>2. CASE o \notin Outcomes
      BY <2>2 DEF Debt
    <2> QED
      BY <2>1, <2>2
  <1>2. \A o \in 0..9 : OutcomeDebt(u, o) \in Nat
    BY <1>1 DEF OutcomeDebt, TokenTypes
  <1> QED
    BY <1>2 DEF TotalBorrowed

\* The vault pays the payout and the debt out of what it holds.
LEMMA RedeemType ==
    ASSUME TypeOK, NEW u \in Users, NEW o \in OutcomeIds, NEW withPositions \in BOOLEAN,
           RedeemShares(u, o, withPositions)
    PROVE  TypeOK'
  <1> DEFINE payout == PayoutShares(u, o) * QuoteScale
             debt == IF withPositions THEN TotalBorrowed(u) ELSE 0
             paid == SatSub(payout, debt)
             mkt == vault.market - debt - paid
             liquidity == vault.liquidity + debt
  <1>1. /\ vault.market >= payout + debt
        /\ vault' = [vault EXCEPT !.market = mkt, !.liquidity = liquidity]
        /\ usdc' = [usdc EXCEPT ![u] = @ + paid]
        /\ wallet' = [wallet EXCEPT ![<<u, o, "YES">>] = 0, ![<<u, o, "NO">>] = 0]
        /\ UNCHANGED <<escrows, book, clock, history, market, position>>
    BY DEF RedeemShares
  <1>2. PayoutShares(u, o) \in Nat
    <2>1. o \in Outcomes
      BY InputTypes DEF RedeemShares
    <2>2. wallet[<<u, o, "YES">>] \in Nat /\ wallet[<<u, o, "NO">>] \in Nat
      BY <2>1, WalletHere DEF TokenTypes
    <2> QED
      BY <2>2 DEF PayoutShares
  <1>3. payout \in Nat /\ debt \in Nat
    BY <1>2, TimesNat, QuoteScaleAssumption, TotalBorrowedNat
  <1> HIDE DEF payout, debt
  <1>4. paid \in Nat /\ paid <= payout
    BY <1>3, SatSubNat
  <1> HIDE DEF paid
  <1>5. vault' \in Vaults
    <2>1. vault \in Vaults
      BY DEF TypeOK
    <2>2. mkt \in Nat /\ liquidity \in Nat
      BY <1>1, <1>3, <1>4, <2>1 DEF Vaults
    <2> HIDE DEF mkt, liquidity
    <2> QED
      BY <1>1, <2>1, <2>2 DEF Vaults
  <1>6. usdc' \in [Users -> Nat]
    BY <1>1, <1>4 DEF TypeOK
  <1>7. wallet' \in [Users \X Outcomes \X TokenTypes -> Nat]
    BY <1>1 DEF TypeOK
  <1> QED
    BY <1>1, <1>5, <1>6, <1>7 DEF TypeOK, escrows, book, clock, history

-----------------------------------------------------------------------------
(***************************************************************************)
(* Everything together.                                                    *)
(***************************************************************************)
\* The inductive invariant of everything the program does.
SpaceInv == TypeOK /\ BookInv

\* A market opens in the invariant.
LEMMA SpaceInit == Init => SpaceInv
  <1> SUFFICES ASSUME Init PROVE SpaceInv
    OBVIOUS
  <1>1. TypeOK
    BY InitType
  <1>2. OrdersReal /\ SellCustody
    BY DEF Init, OrdersReal, SellCustody, AbsentOrder
  <1>3. MatchesRefer
    BY DEF Init, MatchesRefer, AbsentMatch, Matches
  <1> QED
    BY <1>1, <1>2, <1>3 DEF SpaceInv, BookInv

-----------------------------------------------------------------------------
\* mint_shares and burn_shares.
LEMMA SetStepsKeep ==
    ASSUME SpaceInv, SetSteps
    PROVE  SpaceInv'
  <1>1. PICK u \in Users, o \in OutcomeIds, n \in Amounts :
          MintShares(u, o, n) \/ BurnShares(u, o, n)
    BY DEF SetSteps
  <1>2. TypeOK'
    BY <1>1, MintType, BurnType DEF SpaceInv
  <1>3. UNCHANGED <<book, shareEscrow, pendingFill>>
    BY <1>1 DEF MintShares, BurnShares, escrows
  <1> QED
    BY <1>2, <1>3, BookUntouched DEF SpaceInv

\* place_buy_order and the two limit sell instructions.
LEMMA PlaceStepsKeep ==
    ASSUME SpaceInv, PlaceSteps
    PROVE  SpaceInv'
  <1>1. TypeOK /\ BookTypeOK /\ BookInv
    BY BookTypes DEF SpaceInv
  <1>2. ASSUME NEW k \in OrderKeys, NEW o \in OutcomeIds, NEW p \in Prices,
               NEW q \in Quantities, NEW lev \in Leverages, PlaceBuyOrder(k, o, p, q, lev)
        PROVE  SpaceInv'
    <2>1. TypeOK'
      BY <1>1, <1>2, PlaceBuyType
    <2> DEFINE new == [NewOrder EXCEPT !.side = "Buy", !.outcome_id = o, !.price = p,
                         !.quantity = q, !.margin = RequiredMargin(q, p, lev),
                         !.leverage = lev]
    <2>2. /\ order[k].status = "Absent" /\ q > 0
          /\ order' = [order EXCEPT ![k] = new]
          /\ UNCHANGED <<shareEscrow, matchState, pendingFill>>
      BY <1>2 DEF PlaceBuyOrder, history
    <2>3. order'[k] = new /\ order'[k] \in PendingOrder
      BY <1>1, <2>1, <2>2 DEF TypeOK
    <2>4. /\ new.side = "Buy" /\ new.quantity = q
          /\ new.status = "Open" /\ new.filled_quantity = 0
      BY <1>1, NewOrderType DEF PendingOrder
    <2>5. BookInv'
      <3> HIDE DEF new
      <3> QED
        BY <1>1, <2>2, <2>3, <2>4, OrderPlaced
    <2> QED
      BY <2>1, <2>5 DEF SpaceInv
  <1>3. ASSUME NEW k \in OrderKeys, NEW o \in OutcomeIds, NEW p \in Prices,
               NEW q \in Quantities, NEW t \in TokenTypes, PlaceLimitSellOrder(k, o, t, p, q)
        PROVE  SpaceInv'
    <2>1. TypeOK'
      BY <1>1, <1>3, PlaceSellType
    <2> DEFINE new == [NewOrder EXCEPT !.side = "Sell", !.outcome_id = o, !.token_type = t,
                         !.price = p, !.quantity = q]
    <2>2. /\ order[k].status = "Absent" /\ q > 0
          /\ order' = [order EXCEPT ![k] = new]
          /\ shareEscrow' = [shareEscrow EXCEPT ![k] = @ + q]
          /\ UNCHANGED <<matchState, pendingFill>>
      BY <1>3 DEF PlaceLimitSellOrder, history
    <2>3. order'[k] = new /\ order'[k] \in PendingOrder
      BY <1>1, <2>1, <2>2 DEF TypeOK
    <2>4. /\ new.side = "Sell" /\ new.quantity = q
          /\ new.status = "Open" /\ new.filled_quantity = 0
      BY <1>1, NewOrderType DEF PendingOrder
    <2>5. BookInv'
      <3> HIDE DEF new
      <3> QED
        BY <1>1, <2>2, <2>3, <2>4, OrderPlaced
    <2> QED
      BY <2>1, <2>5 DEF SpaceInv
  <1>4. "YES" \in TokenTypes /\ "NO" \in TokenTypes
    BY DEF TokenTypes
  <1> QED
    BY <1>2, <1>3, <1>4 DEF PlaceSteps, PlaceYesLimitSellOrder, PlaceNoLimitSellOrder

\* cancel_order, cancel_sell_order and cancel_no_sell_order.
LEMMA CancelStepsKeep ==
    ASSUME SpaceInv, CancelSteps
    PROVE  SpaceInv'
  <1>1. TypeOK /\ BookTypeOK /\ BookInv
    BY BookTypes DEF SpaceInv
  <1>2. ASSUME NEW k \in OrderKeys, CancelOrder(k)
        PROVE  SpaceInv'
    <2>1. TypeOK'
      BY <1>1, <1>2, CancelBuyType
    <2>2. /\ Live(k) /\ order' = [order EXCEPT ![k].status = "Cancelled"]
          /\ UNCHANGED <<shareEscrow, matchState, pendingFill>>
      BY <1>2 DEF CancelOrder, history
    <2>3. shareEscrow' = [shareEscrow EXCEPT ![k] = @ - 0] /\ 0 <= shareEscrow[k]
      BY <1>1, <2>2 DEF BookTypeOK
    <2>4. BookInv'
      BY <1>1, <2>2, <2>3, OrderCancelled
    <2> QED
      BY <2>1, <2>4 DEF SpaceInv
  <1>3. ASSUME NEW k \in OrderKeys, NEW t \in TokenTypes, CancelSide(k, t)
        PROVE  SpaceInv'
    <2>1. TypeOK'
      BY <1>1, <1>3, CancelSideType
    <2> DEFINE back == ReturnedShares(k, t)
    <2>2. /\ Live(k) /\ order' = [order EXCEPT ![k].status = "Cancelled"]
          /\ shareEscrow' = [shareEscrow EXCEPT ![k] = @ - back]
          /\ UNCHANGED <<matchState, pendingFill>>
      BY <1>3 DEF CancelSide, history
    <2>3. back \in Nat /\ back <= shareEscrow[k]
      BY <1>1 DEF BookTypeOK, ReturnedShares
    <2> HIDE DEF back
    <2>4. BookInv'
      BY <1>1, <2>2, <2>3, OrderCancelled
    <2> QED
      BY <2>1, <2>4 DEF SpaceInv
  <1>4. "YES" \in TokenTypes /\ "NO" \in TokenTypes
    BY DEF TokenTypes
  <1> QED
    BY <1>2, <1>3, <1>4 DEF CancelSteps, CancelSellOrder, CancelNoSellOrder

\* validate_match, whatever price and quantity the keeper asks for.
LEMMA ValidateKeeps ==
    ASSUME SpaceInv, NEW b \in OrderKeys, NEW s \in OrderKeys, NEW p \in Nat, NEW q \in Nat,
           ValidateMatch(b, s, p, q)
    PROVE  SpaceInv'
  <1>1. TypeOK'
    BY ValidateType DEF SpaceInv
  <1>2. BookInv'
    BY BookTypes, MatchValidated DEF SpaceInv
  <1> QED
    BY <1>1, <1>2 DEF SpaceInv

\* validate_match and the two halves of a match.
LEMMA MatchStepsKeep ==
    ASSUME SpaceInv, MatchSteps
    PROVE  SpaceInv'
  <1>1. TypeOK /\ BookTypeOK /\ BookInv
    BY BookTypes DEF SpaceInv
  <1>2. ASSUME NEW b \in OrderKeys, NEW s \in OrderKeys, NEW p \in Prices,
               NEW q \in Quantities, ValidateMatch(b, s, p, q)
        PROVE  SpaceInv'
    BY <1>2, InputTypes, ValidateKeeps
  <1>3. ASSUME NEW m \in Matches, NEW t \in TokenTypes, ExecuteBuyerMatch(m, t)
        PROVE  SpaceInv'
    <2>1. TypeOK' /\ BookTypeOK'
      <3>1. TypeOK'
        BY <1>1, <1>3, BuyerType
      <3> QED
        BY <3>1 DEF TypeOK, BookTypeOK, Matches
    <2>2. BookInv'
      BY <1>1, <1>3, <2>1, BuyerMatched
    <2> QED
      BY <2>1, <2>2 DEF SpaceInv
  <1>4. ASSUME NEW m \in Matches, ExecuteSellerMatch(m)
        PROVE  SpaceInv'
    <2>1. TypeOK' /\ BookTypeOK'
      <3>1. TypeOK'
        BY <1>1, <1>4, SellerType
      <3> QED
        BY <3>1 DEF TypeOK, BookTypeOK, Matches
    <2>2. BookInv'
      BY <1>1, <1>4, <2>1, SellerMatched
    <2> QED
      BY <2>1, <2>2 DEF SpaceInv
  <1>5. "YES" \in TokenTypes /\ "NO" \in TokenTypes
    BY DEF TokenTypes
  <1> QED
    BY <1>2, <1>3, <1>4, <1>5 DEF MatchSteps, ExecuteYesBuyerMatch, ExecuteNoBuyerMatch

\* close_leveraged_position places a sell order of a positive quantity.
LEMMA CloseLeveragedStepsKeep ==
    ASSUME SpaceInv, CloseLeveragedSteps
    PROVE  SpaceInv'
  <1>1. TypeOK /\ BookTypeOK /\ BookInv
    BY BookTypes DEF SpaceInv
  <1>2. PICK k \in OrderKeys, o \in Outcomes, t \in TokenTypes, q \in Quantities, p \in Prices :
          CloseLeveragedPosition(k, o, t, q, p)
    BY DEF CloseLeveragedSteps
  <1>3. TypeOK'
    BY <1>1, <1>2, CloseLeveragedType
  <1> DEFINE pos == position[<<Owner(k), o, t, "Leveraged">>]
             shares == Lesser(q, Lesser(pos.shares, wallet[<<Owner(k), o, t>>]))
             ratio == RatioBps(shares, pos.shares)
             new == [NewOrder EXCEPT !.side = "Sell", !.outcome_id = o, !.token_type = t,
                       !.order_type = "Market", !.price = p, !.quantity = shares,
                       !.leverage = pos.leverage, !.is_leveraged_close = TRUE,
                       !.borrowed_amount_to_repay = BpsOf(pos.borrowed_amount, ratio),
                       !.collateral_to_return = BpsOf(pos.collateral, ratio)]
  <1>4. /\ order[k].status = "Absent" /\ shares > 0
        /\ order' = [order EXCEPT ![k] = new]
        /\ shareEscrow' = [shareEscrow EXCEPT ![k] = @ + shares]
        /\ UNCHANGED <<matchState, pendingFill>>
    BY <1>2 DEF CloseLeveragedPosition, history
  <1> HIDE DEF shares, ratio
  <1>5. order'[k] = new /\ order'[k] \in PendingOrder
    BY <1>1, <1>3, <1>4 DEF TypeOK
  <1>6. /\ new.side = "Sell" /\ new.quantity = shares
        /\ new.status = "Open" /\ new.filled_quantity = 0
    BY <1>1, NewOrderType DEF PendingOrder
  <1>7. BookInv'
    <2> HIDE DEF new
    <2> QED
      BY <1>1, <1>4, <1>5, <1>6, OrderPlaced
  <1> QED
    BY <1>3, <1>7 DEF SpaceInv

\* The instructions that leave the book alone.
LEMMA OtherStepsKeep ==
    ASSUME SpaceInv, Tick \/ SettleSteps \/ ResolveSteps \/ RedeemSteps
    PROVE  SpaceInv'
  <1>1. TypeOK /\ BookInv
    BY DEF SpaceInv
  <1>2. CASE Tick
    <2>1. UNCHANGED <<book, shareEscrow, pendingFill>>
      BY <1>2 DEF Tick, escrows, history
    <2> QED
      BY <1>1, <1>2, <2>1, TickType, BookUntouched DEF SpaceInv
  <1>3. CASE SettleSteps
    <2>1. PICK u \in Users, o \in Outcomes, t \in TokenTypes :
            \/ \E type \in PositionTypes : ClosePosition(u, o, t, type)
            \/ \E l \in Users : LiquidatePosition(l, u, o, t)
      BY <1>3 DEF SettleSteps
    <2>2. UNCHANGED <<book, shareEscrow, pendingFill>>
      BY <2>1 DEF ClosePosition, LiquidatePosition, escrows, history
    <2>3. TypeOK'
      BY <1>1, <2>1, CloseType, LiquidateType
    <2> QED
      BY <1>1, <2>2, <2>3, BookUntouched DEF SpaceInv
  <1>4. CASE ResolveSteps
    <2>1. UNCHANGED <<book, shareEscrow, pendingFill>>
      BY <1>4 DEF ResolveSteps, ResolveOracle, FinalizeMarket, ChallengeResolution, MarkInvalid,
                  escrows, history
    <2> QED
      BY <1>1, <1>4, <2>1, ResolveType, BookUntouched DEF SpaceInv
  <1>5. CASE RedeemSteps
    <2>1. PICK u \in Users, o \in OutcomeIds, withPositions \in BOOLEAN :
            RedeemShares(u, o, withPositions)
      BY <1>5 DEF RedeemSteps
    <2>2. UNCHANGED <<book, shareEscrow, pendingFill>>
      BY <2>1 DEF RedeemShares, escrows, history
    <2>3. TypeOK'
      BY <1>1, <2>1, RedeemType
    <2> QED
      BY <1>1, <2>2, <2>3, BookUntouched DEF SpaceInv
  <1> QED
    BY <1>2, <1>3, <1>4, <1>5

\* Every step of the program keeps the invariant.
LEMMA SpaceStep ==
    ASSUME SpaceInv, [Next]_vars
    PROVE  SpaceInv'
  <1>1. CASE Next
    BY <1>1, SetStepsKeep, PlaceStepsKeep, CancelStepsKeep, MatchStepsKeep,
       CloseLeveragedStepsKeep, OtherStepsKeep DEF Next, LifeNext, BookNext
  <1>2. CASE UNCHANGED vars
    <2>1. TypeOK'
      BY <1>2 DEF SpaceInv, TypeOK, vars, tokens, escrows, book, clock, history
    <2>2. UNCHANGED <<book, shareEscrow, pendingFill>>
      BY <1>2 DEF vars, escrows, history
    <2> QED
      BY <2>1, <2>2, BookUntouched DEF SpaceInv
  <1> QED
    BY <1>1, <1>2

\* The invariant holds in every state of the program.
LEMMA SpaceInvariant == Spec => []SpaceInv
  BY SpaceInit, SpaceStep, PTL DEF Spec

\* Every amount the program keeps is a natural number, whatever the users, the
\* keepers and the resolver do: the guards of the instructions leave no u64
\* subtraction to underflow.
THEOREM TypesKept == Spec => []TypeOK
  <1>1. SpaceInv => TypeOK
    BY DEF SpaceInv
  <1> QED
    BY <1>1, SpaceInvariant, PTL

\* No sell order is ever sold past its quantity, however many matches on it are
\* in flight and whatever is cancelled between their steps.
THEOREM CustodyKept == Spec => []SellCustody
  <1>1. SpaceInv => SellCustody
    BY DEF SpaceInv, BookInv
  <1> QED
    BY <1>1, SpaceInvariant, PTL

-----------------------------------------------------------------------------
(***************************************************************************)
(* Backing.  While the market trades only minting, burning and the two     *)
(* halves of a match move the market and margin vaults.                    *)
(***************************************************************************)
\* Trading on the book alone is part of what the program does.
LEMMA BookInvariant == BookSpec => []SpaceInv
  <1>1. [BookNext]_vars => [Next]_vars
    BY DEF Next, LifeNext
  <1> QED
    BY <1>1, SpaceInit, SpaceStep, PTL DEF BookSpec

\* The steps of BookNext that leave both sides of Backing and of SpotBacking.
LEMMA VaultsUntouched ==
    ASSUME BookNext,
           ~SetSteps,
           \A m \in Matches : /\ ~ExecuteYesBuyerMatch(m) /\ ~ExecuteNoBuyerMatch(m)
                              /\ ~ExecuteSellerMatch(m)
    PROVE  UNCHANGED <<vault, owed, netMinted>>
  <1>1. CASE PlaceSteps
    <2>1. ASSUME NEW k \in OrderKeys, NEW o \in OutcomeIds, NEW p \in Prices,
                 NEW q \in Quantities,
                 \/ \E lev \in Leverages : PlaceBuyOrder(k, o, p, q, lev)
                 \/ PlaceLimitSellOrder(k, o, "YES", p, q)
                 \/ PlaceLimitSellOrder(k, o, "NO", p, q)
          PROVE  UNCHANGED <<vault, owed, netMinted>>
      BY <2>1 DEF PlaceBuyOrder, PlaceLimitSellOrder, history
    <2> QED
      BY <1>1, <2>1 DEF PlaceSteps, PlaceYesLimitSellOrder, PlaceNoLimitSellOrder
  <1>2. CASE CancelSteps
    BY <1>2 DEF CancelSteps, CancelOrder, CancelSellOrder, CancelNoSellOrder, CancelSide, history
  <1>3. CASE MatchSteps
    BY <1>3 DEF MatchSteps, ValidateMatch, history
  <1>4. CASE CloseLeveragedSteps
    BY <1>4 DEF CloseLeveragedSteps, CloseLeveragedPosition, history
  <1>5. CASE Tick
    BY <1>5 DEF Tick, history
  <1> QED
    BY <1>1, <1>2, <1>3, <1>4, <1>5 DEF BookNext

\* Minting and burning move the market vault and the net of minted units alike.
LEMMA SetStepsMove ==
    ASSUME SpaceInv, SetSteps
    PROVE  \E n \in Int : /\ vault' = [vault EXCEPT !.market = @ + n]
                          /\ netMinted' = netMinted + n
                          /\ UNCHANGED owed
  <1>1. PICK u \in Users, o \in OutcomeIds, n \in Amounts :
          MintShares(u, o, n) \/ BurnShares(u, o, n)
    BY DEF SetSteps
  <1> DEFINE quote == n * QuoteScale
  <1>2. quote \in Nat
    BY InputTypes, QuoteScaleAssumption, TimesNat
  <1>3. CASE MintShares(u, o, n)
    <2>1. /\ vault' = [vault EXCEPT !.market = @ + quote]
          /\ netMinted' = netMinted + quote /\ UNCHANGED owed
      BY <1>3 DEF MintShares
    <2> HIDE DEF quote
    <2> QED
      BY <1>2, <2>1
  <1>4. CASE BurnShares(u, o, n)
    <2>1. /\ vault' = [vault EXCEPT !.market = @ - quote]
          /\ netMinted' = netMinted - quote /\ UNCHANGED owed
      BY <1>4 DEF BurnShares
    <2> HIDE DEF quote
    <2>2. vault.market \in Nat /\ netMinted \in Int
      BY DEF SpaceInv, TypeOK, Vaults
    <2>3. vault.market - quote = vault.market + (-quote)
          /\ netMinted - quote = netMinted + (-quote) /\ -quote \in Int
      BY <1>2, <2>2
    <2> QED
      BY <2>1, <2>3
  <1> QED
    BY <1>1, <1>3, <1>4

\* A buyer half puts the trade value into the market and margin vaults; without
\* leverage, into the market vault.
LEMMA BuyerMoves ==
    ASSUME SpaceInv, NEW m \in Matches, NEW t \in TokenTypes, ExecuteBuyerMatch(m, t)
    PROVE  /\ matchState[m].trade_value \in Nat
           /\ owed' = owed + matchState[m].trade_value /\ UNCHANGED netMinted
           /\ vault'.market + vault'.margin
                >= vault.market + vault.margin + matchState[m].trade_value
           /\ order[BuyKey(m)].leverage <= 1
                => vault'.market >= vault.market + matchState[m].trade_value
  <1>1. TypeOK /\ BookInv
    BY DEF SpaceInv
  <1>2. matchState[m].stage # "Absent"
    BY DEF ExecuteBuyerMatch
  <1>3. /\ AvailableMargin(m) \in Nat /\ BorrowedAmount(m) \in Nat
        /\ AvailableMargin(m) + BorrowedAmount(m) >= matchState[m].trade_value
    BY <1>1, <1>2, BuyerAmounts
  <1>4. matchState[m].trade_value \in Nat /\ order[BuyKey(m)].leverage \in Nat
    BY <1>1, <1>2, MatchTypes DEF MatchState, PendingOrder
  <1>5. /\ owed' = owed + matchState[m].trade_value /\ UNCHANGED netMinted
        /\ vault' = VaultAfterBuy(m)
    BY DEF ExecuteBuyerMatch
  <1>6. vault \in Vaults /\ vault.market \in Nat /\ vault.margin \in Nat
    BY <1>1 DEF TypeOK, Vaults
  <1>7. CASE order[BuyKey(m)].leverage > 1
    <2>1. /\ vault'.market = vault.market + BorrowedAmount(m)
          /\ vault'.margin = vault.margin + AvailableMargin(m)
      BY <1>5, <1>6, <1>7 DEF VaultAfterBuy, Vaults
    <2> QED
      BY <1>3, <1>4, <1>5, <1>6, <1>7, <2>1
  <1>8. CASE order[BuyKey(m)].leverage <= 1
    <2>1. /\ vault'.market = vault.market + AvailableMargin(m)
          /\ vault'.margin = vault.margin
      BY <1>4, <1>5, <1>6, <1>8 DEF VaultAfterBuy, Vaults
    <2>2. BorrowedAmount(m) = 0
      <3> DEFINE pos == <<Owner(BuyKey(m)), matchState[m].outcome_id, t,
                          PositionType(order[BuyKey(m)].leverage)>>
      <3>1. SpotInvariants(PositionAfterBuy(position[pos], m))
        BY <1>4, <1>8 DEF ExecuteBuyerMatch, BuyerCanSettle
      <3>2. position[pos] \in Position
        BY <1>1, <1>2, MatchTypes DEF TypeOK, MatchState, PositionType, PositionTypes
      <3> HIDE DEF pos
      <3>3. position[pos].borrowed_amount + BorrowedAmount(m) = 0
        BY <3>1, <3>2 DEF SpotInvariants, PositionAfterBuy, Position
      <3>4. position[pos].borrowed_amount \in Nat
        BY <3>2 DEF Position
      <3> QED
        BY <1>3, <3>3, <3>4
    <2> QED
      BY <1>3, <1>4, <1>5, <1>6, <2>1, <2>2
  <1> QED
    BY <1>4, <1>7, <1>8

\* A seller half takes at most the trade value out of the market vault.
LEMMA SellerMoves ==
    ASSUME SpaceInv, NEW m \in Matches, ExecuteSellerMatch(m)
    PROVE  /\ matchState[m].trade_value \in Nat
           /\ owed' = owed - matchState[m].trade_value /\ UNCHANGED netMinted
           /\ vault'.market >= vault.market - matchState[m].trade_value
           /\ vault'.margin = vault.margin
  <1>1. TypeOK /\ BookInv
    BY DEF SpaceInv
  <1>2. matchState[m].stage # "Absent"
    BY DEF ExecuteSellerMatch
  <1>3. SellerPayment(m) \in Nat /\ SellerPayment(m) <= matchState[m].trade_value
    BY <1>1, <1>2, SellerAmounts
  <1>4. matchState[m].trade_value \in Nat
    BY <1>1, <1>2, MatchTypes DEF MatchState
  <1>5. vault \in Vaults /\ vault.market \in Nat
    BY <1>1 DEF TypeOK, Vaults
  <1>6. /\ owed' = owed - matchState[m].trade_value /\ UNCHANGED netMinted
        /\ vault' = [vault EXCEPT !.market = @ - SellerPayment(m),
                                  !.liquidity = @ + DebtPayment(m)]
    BY DEF ExecuteSellerMatch
  <1>7. vault'.market = vault.market - SellerPayment(m) /\ vault'.margin = vault.margin
    BY <1>5, <1>6 DEF Vaults
  <1> QED
    BY <1>3, <1>4, <1>5, <1>6, <1>7

\* A market opens with its initial collateral in the market vault.
LEMMA BackingInit == Init => Backing /\ SpotBacking
  BY SpaceAssumption DEF Init, Backing, SpotBacking

\* Every step of a trading market keeps the backing.
LEMMA BackingStep ==
    ASSUME SpaceInv, Backing, [BookNext]_vars
    PROVE  Backing'
  <1>1. /\ vault \in Vaults /\ vault.market \in Nat /\ vault.margin \in Nat
        /\ owed \in Int /\ netMinted \in Int /\ InitialCollateral \in Nat
    BY SpaceAssumption DEF SpaceInv, TypeOK, Vaults
  <1>2. CASE UNCHANGED <<vault, owed, netMinted>>
    BY <1>2 DEF Backing
  <1>3. CASE SetSteps
    <2>1. PICK n \in Int : /\ vault' = [vault EXCEPT !.market = @ + n]
                           /\ netMinted' = netMinted + n /\ UNCHANGED owed
      BY <1>3, SetStepsMove
    <2>2. vault'.market = vault.market + n /\ vault'.margin = vault.margin
      BY <1>1, <2>1 DEF Vaults
    <2> QED
      BY <1>1, <2>1, <2>2 DEF Backing
  <1>4. ASSUME NEW m \in Matches, NEW t \in TokenTypes, ExecuteBuyerMatch(m, t)
        PROVE  Backing'
    <2>1. /\ matchState[m].trade_value \in Nat
          /\ owed' = owed + matchState[m].trade_value /\ UNCHANGED netMinted
          /\ vault'.market + vault'.margin
               >= vault.market + vault.margin + matchState[m].trade_value
      BY <1>4, BuyerMoves
    <2>2. vault' \in Vaults
      BY <1>4, BuyerType DEF SpaceInv, TypeOK
    <2>3. vault'.market \in Nat /\ vault'.margin \in Nat
      BY <2>2 DEF Vaults
    <2> QED
      BY <1>1, <2>1, <2>3 DEF Backing
  <1>5. ASSUME NEW m \in Matches, ExecuteSellerMatch(m)
        PROVE  Backing'
    <2>1. /\ matchState[m].trade_value \in Nat
          /\ owed' = owed - matchState[m].trade_value /\ UNCHANGED netMinted
          /\ vault'.market >= vault.market - matchState[m].trade_value
          /\ vault'.margin = vault.margin
      BY <1>5, SellerMoves
    <2>2. vault' \in Vaults
      BY <1>5, SellerType DEF SpaceInv, TypeOK
    <2>3. vault'.market \in Nat
      BY <2>2 DEF Vaults
    <2> QED
      BY <1>1, <2>1, <2>3 DEF Backing
  <1>6. CASE UNCHANGED vars
    BY <1>2, <1>6 DEF vars, history
  <1>7. "YES" \in TokenTypes /\ "NO" \in TokenTypes
    BY DEF TokenTypes
  <1> QED
    BY <1>2, <1>3, <1>4, <1>5, <1>6, <1>7, VaultsUntouched
       DEF ExecuteYesBuyerMatch, ExecuteNoBuyerMatch

\* Whatever is borrowed, the market and margin vaults together cover the initial
\* collateral, every minted set and every trade whose seller half is open.
THEOREM BackingKept == BookSpec => []Backing
  BY BackingInit, BackingStep, BookInvariant, PTL DEF BookSpec

-----------------------------------------------------------------------------
\* In a market whose users never borrow, no buy order has leverage.
NoLeverage == \A k \in OrderKeys : order[k].side = "Buy" => order[k].leverage <= 1

\* Matches and cancellations leave the leverage of an order as it was placed.
LEMMA NoLeverageStep ==
    ASSUME Leverages = {1}, SpaceInv, NoLeverage, [BookNext]_vars
    PROVE  NoLeverage'
  <1>1. order \in [OrderKeys -> PendingOrder]
    BY DEF SpaceInv, TypeOK
  <1>2. CASE UNCHANGED order
    BY <1>2 DEF NoLeverage
  <1>3. ASSUME NEW k \in OrderKeys, NEW new, order' = [order EXCEPT ![k] = new],
               new.side = "Buy" => new.leverage <= 1
        PROVE  NoLeverage'
    BY <1>1, <1>3 DEF NoLeverage
  <1>4. CASE PlaceSteps
    <2>1. SpaceInv => NewOrder \in PendingOrder
      BY NewOrderType DEF SpaceInv
    <2>2. ASSUME NEW k \in OrderKeys, NEW o \in OutcomeIds, NEW p \in Prices,
                 NEW q \in Quantities, NEW lev \in Leverages, PlaceBuyOrder(k, o, p, q, lev)
          PROVE  NoLeverage'
      <3> DEFINE new == [NewOrder EXCEPT !.side = "Buy", !.outcome_id = o, !.price = p,
                           !.quantity = q, !.margin = RequiredMargin(q, p, lev),
                           !.leverage = lev]
      <3>1. order' = [order EXCEPT ![k] = new] /\ lev = 1
        BY <2>2 DEF PlaceBuyOrder
      <3>2. new.leverage = lev
        BY <2>1 DEF PendingOrder
      <3>3. new.leverage <= 1
        BY <3>1, <3>2
      <3> HIDE DEF new
      <3> QED
        BY <1>3, <3>1, <3>3
    <2>3. ASSUME NEW k \in OrderKeys, NEW o \in OutcomeIds, NEW p \in Prices,
                 NEW q \in Quantities, NEW t \in TokenTypes, PlaceLimitSellOrder(k, o, t, p, q)
          PROVE  NoLeverage'
      <3> DEFINE new == [NewOrder EXCEPT !.side = "Sell", !.outcome_id = o, !.token_type = t,
                           !.price = p, !.quantity = q]
      <3>1. order' = [order EXCEPT ![k] = new]
        BY <2>3 DEF PlaceLimitSellOrder
      <3>2. new.side = "Sell"
        BY <2>1 DEF PendingOrder
      <3> HIDE DEF new
      <3> QED
        BY <1>3, <3>1, <3>2
    <2>4. "YES" \in TokenTypes /\ "NO" \in TokenTypes
      BY DEF TokenTypes
    <2> QED
      BY <1>4, <2>2, <2>3, <2>4 DEF PlaceSteps, PlaceYesLimitSellOrder, PlaceNoLimitSellOrder
  <1>5. CASE CancelSteps
    <2>1. PICK k \in OrderKeys : order' = [order EXCEPT ![k].status = "Cancelled"]
      BY <1>5 DEF CancelSteps, CancelOrder, CancelSellOrder, CancelNoSellOrder, CancelSide
    <2> DEFINE new == [order[k] EXCEPT !.status = "Cancelled"]
    <2>2. order' = [order EXCEPT ![k] = new]
      BY <2>1
    <2>3. new.side = order[k].side /\ new.leverage = order[k].leverage
      BY <1>1 DEF PendingOrder
    <2> HIDE DEF new
    <2> QED
      BY <1>3, <2>2, <2>3 DEF NoLeverage
  <1>6. CASE MatchSteps
    <2>1. TypeOK /\ BookInv
      BY DEF SpaceInv
    <2>2. ASSUME NEW b \in OrderKeys, NEW s \in OrderKeys, NEW p \in Prices,
                 NEW q \in Quantities, ValidateMatch(b, s, p, q)
          PROVE  NoLeverage'
      BY <1>2, <2>2 DEF ValidateMatch
    <2>3. ASSUME NEW m \in Matches, NEW t \in TokenTypes, ExecuteBuyerMatch(m, t)
          PROVE  NoLeverage'
      <3> DEFINE b == BuyKey(m)
                 new == Filled(b, matchState[m].fill_quantity)
      <3>1. b \in OrderKeys /\ order' = [order EXCEPT ![b] = new]
        BY <2>1, <2>3, MatchTypes DEF ExecuteBuyerMatch
      <3>2. new.side = order[b].side /\ new.leverage = order[b].leverage
        BY <1>1, <3>1 DEF Filled, PendingOrder
      <3> HIDE DEF b, new
      <3> QED
        BY <1>3, <3>1, <3>2 DEF NoLeverage
    <2>4. ASSUME NEW m \in Matches, ExecuteSellerMatch(m)
          PROVE  NoLeverage'
      <3> DEFINE s == SellKey(m)
                 new == [Filled(s, matchState[m].fill_quantity) EXCEPT
                           !.borrowed_amount_to_repay = SatSub(@, DebtPayment(m))]
      <3>1. s \in OrderKeys /\ order[s].side = "Sell" /\ order' = [order EXCEPT ![s] = new]
        BY <2>1, <2>4, MatchTypes DEF ExecuteSellerMatch
      <3>2. new.side = order[s].side
        BY <1>1, <3>1 DEF Filled, PendingOrder
      <3> HIDE DEF s, new
      <3> QED
        BY <1>3, <3>1, <3>2
    <2>5. "YES" \in TokenTypes /\ "NO" \in TokenTypes
      BY DEF TokenTypes
    <2> QED
      BY <1>6, <2>2, <2>3, <2>4, <2>5 DEF MatchSteps, ExecuteYesBuyerMatch, ExecuteNoBuyerMatch
  <1>7. CASE CloseLeveragedSteps
    <2>1. SpaceInv => NewOrder \in PendingOrder
      BY NewOrderType DEF SpaceInv
    <2>2. PICK k \in OrderKeys, o \in Outcomes, t \in TokenTypes, q \in Quantities, p \in Prices :
            CloseLeveragedPosition(k, o, t, q, p)
      BY <1>7 DEF CloseLeveragedSteps
    <2> DEFINE pos == position[<<Owner(k), o, t, "Leveraged">>]
               shares == Lesser(q, Lesser(pos.shares, wallet[<<Owner(k), o, t>>]))
               ratio == RatioBps(shares, pos.shares)
               new == [NewOrder EXCEPT !.side = "Sell", !.outcome_id = o, !.token_type = t,
                         !.order_type = "Market", !.price = p, !.quantity = shares,
                         !.leverage = pos.leverage, !.is_leveraged_close = TRUE,
                         !.borrowed_amount_to_repay = BpsOf(pos.borrowed_amount, ratio),
                         !.collateral_to_return = BpsOf(pos.collateral, ratio)]
    <2>3. order' = [order EXCEPT ![k] = new]
      BY <2>2 DEF CloseLeveragedPosition
    <2> HIDE DEF shares, ratio
    <2>4. new.side = "Sell"
      BY <2>1 DEF PendingOrder
    <2> HIDE DEF new
    <2> QED
      BY <1>3, <2>3, <2>4
  <1>8. CASE SetSteps \/ Tick \/ UNCHANGED vars
    <2>1. UNCHANGED order
      BY <1>8 DEF SetSteps, MintShares, BurnShares, Tick, vars, book
    <2> QED
      BY <1>2, <2>1
  <1> QED
    BY <1>4, <1>5, <1>6, <1>7, <1>8 DEF BookNext

\* Every step of a market without leverage keeps its backing.
LEMMA SpotBackingStep ==
    ASSUME SpaceInv, NoLeverage, SpotBacking, [BookNext]_vars
    PROVE  SpotBacking'
  <1>1. /\ vault \in Vaults /\ vault.market \in Nat
        /\ owed \in Int /\ netMinted \in Int /\ InitialCollateral \in Nat
    BY SpaceAssumption DEF SpaceInv, TypeOK, Vaults
  <1>2. CASE UNCHANGED <<vault, owed, netMinted>>
    BY <1>2 DEF SpotBacking
  <1>3. CASE SetSteps
    <2>1. PICK n \in Int : /\ vault' = [vault EXCEPT !.market = @ + n]
                           /\ netMinted' = netMinted + n /\ UNCHANGED owed
      BY <1>3, SetStepsMove
    <2>2. vault'.market = vault.market + n
      BY <1>1, <2>1 DEF Vaults
    <2> QED
      BY <1>1, <2>1, <2>2 DEF SpotBacking
  <1>4. ASSUME NEW m \in Matches, NEW t \in TokenTypes, ExecuteBuyerMatch(m, t)
        PROVE  SpotBacking'
    <2>1. order[BuyKey(m)].leverage <= 1
      <3>1. BuyKey(m) \in OrderKeys /\ order[BuyKey(m)].side = "Buy"
        BY <1>4, MatchTypes DEF ExecuteBuyerMatch, SpaceInv
      <3> QED
        BY <3>1 DEF NoLeverage
    <2>2. /\ matchState[m].trade_value \in Nat
          /\ owed' = owed + matchState[m].trade_value /\ UNCHANGED netMinted
          /\ vault'.market >= vault.market + matchState[m].trade_value
      BY <1>4, <2>1, BuyerMoves
    <2>3. vault' \in Vaults
      BY <1>4, BuyerType DEF SpaceInv, TypeOK
    <2>4. vault'.market \in Nat
      BY <2>3 DEF Vaults
    <2> QED
      BY <1>1, <2>2, <2>4 DEF SpotBacking
  <1>5. ASSUME NEW m \in Matches, ExecuteSellerMatch(m)
        PROVE  SpotBacking'
    <2>1. /\ matchState[m].trade_value \in Nat
          /\ owed' = owed - matchState[m].trade_value /\ UNCHANGED netMinted
          /\ vault'.market >= vault.market - matchState[m].trade_value
      BY <1>5, SellerMoves
    <2>2. vault' \in Vaults
      BY <1>5, SellerType DEF SpaceInv, TypeOK
    <2>3. vault'.market \in Nat
      BY <2>2 DEF Vaults
    <2> QED
      BY <1>1, <2>1, <2>3 DEF SpotBacking
  <1>6. CASE UNCHANGED vars
    BY <1>2, <1>6 DEF vars, history
  <1>7. "YES" \in TokenTypes /\ "NO" \in TokenTypes
    BY DEF TokenTypes
  <1> QED
    BY <1>2, <1>3, <1>4, <1>5, <1>6, <1>7, VaultsUntouched
       DEF ExecuteYesBuyerMatch, ExecuteNoBuyerMatch

\* Without leverage the market vault alone covers the initial collateral, every
\* minted set and every trade whose seller half is open.
THEOREM SpotBackingKept ==
    ASSUME Leverages = {1}
    PROVE  BookSpec => []SpotBacking
  <1>1. Init => NoLeverage /\ SpotBacking
    BY BackingInit DEF Init, NoLeverage, AbsentOrder
  <1>2. SpaceInv /\ NoLeverage /\ SpotBacking /\ [BookNext]_vars
          => NoLeverage' /\ SpotBacking'
    BY NoLeverageStep, SpotBackingStep
  <1> QED
    BY <1>1, <1>2, BookInvariant, PTL DEF BookSpec

-----------------------------------------------------------------------------
(***************************************************************************)
(* What a spot buy order has in escrow.  A buyer half may find its order   *)
(* cancelled and its escrow empty: then it fails, for a spot position      *)
(* never has debt, unless the trade is worth nothing.                      *)
(***************************************************************************)
SpotBuy(k) == order[k].side = "Buy" /\ order[k].leverage = 1

\* What is left of the escrow is at least in proportion to what is left to buy.
Proportional(k) ==
    orderEscrow[k] * order[k].quantity >= Remaining(k) * order[k].margin

BuyFunded(k) ==
    /\ order[k].side = "Buy" => orderEscrow[k] <= order[k].margin
    /\ SpotBuy(k) =>
         /\ Live(k) => Remaining(k) >= 0 /\ Proportional(k)
         /\ order[k].status = "Filled" => order[k].filled_quantity >= order[k].quantity
         /\ order[k].status = "Cancelled" => orderEscrow[k] = 0

BuysFunded == \A k \in OrderKeys : BuyFunded(k)

\* No match is of so little that its trade value is truncated to nothing.
MatchesHaveValue == \A m \in Matches : matchState[m].stage # "Absent" => matchState[m].trade_value > 0

\* An order and an escrow that are not touched.
LEMMA FundsStay ==
    ASSUME NEW k \in OrderKeys, BuyFunded(k), order'[k] = order[k], orderEscrow'[k] = orderEscrow[k]
    PROVE  BuyFunded(k)'
  BY DEF BuyFunded, SpotBuy, Live, Remaining, Proportional

\* A step that changes one order, or none.
LEMMA OneOrderMoves ==
    ASSUME SpaceInv, BuysFunded, NEW k \in OrderKeys, NEW new, NEW n,
           order' = [order EXCEPT ![k] = new], orderEscrow' = [orderEscrow EXCEPT ![k] = n],
           BuyFunded(k)'
    PROVE  BuysFunded'
  <1>1. order \in [OrderKeys -> PendingOrder] /\ orderEscrow \in [OrderKeys -> Nat]
    BY DEF SpaceInv, TypeOK
  <1>2. \A j \in OrderKeys \ {k} : order'[j] = order[j] /\ orderEscrow'[j] = orderEscrow[j]
    BY <1>1
  <1>3. \A j \in OrderKeys \ {k} : BuyFunded(j)'
    BY <1>2, FundsStay DEF BuysFunded
  <1> QED
    BY <1>3 DEF BuysFunded

\* An order that sells needs no money.
LEMMA SellsMove ==
    ASSUME SpaceInv, BuysFunded, NEW k \in OrderKeys, NEW new, new.side = "Sell",
           order' = [order EXCEPT ![k] = new], UNCHANGED orderEscrow
    PROVE  BuysFunded'
  <1>1. order \in [OrderKeys -> PendingOrder]
    BY DEF SpaceInv, TypeOK
  <1>2. order'[k].side = "Sell" /\ \A j \in OrderKeys \ {k} : order'[j] = order[j]
    BY <1>1
  <1>3. \A j \in OrderKeys \ {k} : BuyFunded(j)'
    BY <1>2, FundsStay DEF BuysFunded
  <1>4. BuyFunded(k)'
    BY <1>2 DEF BuyFunded, SpotBuy
  <1> QED
    BY <1>3, <1>4 DEF BuysFunded

\* A buy order is placed with all of its margin in escrow.
LEMMA PlacedFunded ==
    ASSUME SpaceInv, BuysFunded, NEW k \in OrderKeys, NEW o \in OutcomeIds, NEW p \in Prices,
           NEW q \in Quantities, NEW lev \in Leverages, PlaceBuyOrder(k, o, p, q, lev)
    PROVE  BuysFunded'
  <1> DEFINE margin == RequiredMargin(q, p, lev)
             new == [NewOrder EXCEPT !.side = "Buy", !.outcome_id = o, !.price = p,
                                     !.quantity = q, !.margin = margin, !.leverage = lev]
  <1>1. /\ order' = [order EXCEPT ![k] = new] /\ order[k].status = "Absent"
        /\ orderEscrow' = [orderEscrow EXCEPT ![k] = @ + margin]
    BY DEF PlaceBuyOrder
  <1>2. orderEscrow[k] = 0
    <2>1. order[k] = AbsentOrder
      BY <1>1 DEF SpaceInv, BookInv, OrdersReal
    <2>2. order[k].side = "Buy" /\ order[k].margin = 0
      BY <2>1 DEF AbsentOrder
    <2>3. orderEscrow[k] \in Nat
      BY DEF SpaceInv, TypeOK
    <2> QED
      BY <2>2, <2>3 DEF BuysFunded, BuyFunded
  <1>3. SpaceInv => NewOrder \in PendingOrder
    BY NewOrderType DEF SpaceInv
  <1>4. /\ new.status = "Open" /\ new.filled_quantity = 0 /\ new.quantity = q /\ new.margin = margin
    <2>1. NewOrder.status = "Open" /\ NewOrder.filled_quantity = 0
      BY DEF NewOrder, AbsentOrder
    <2> QED
      BY <1>3, <2>1 DEF PendingOrder
  <1>5. margin \in Nat /\ q \in Nat
    <2>1. p \in Nat /\ q \in Nat /\ lev \in Nat \ {0}
      BY InputAssumption DEF PlaceBuyOrder
    <2> QED
      BY <2>1, RequiredMarginNat
  <1> HIDE DEF new, margin
  <1>6. order'[k] = new /\ orderEscrow'[k] = 0 + margin
    BY <1>1, <1>2 DEF SpaceInv, TypeOK
  <1>7. BuyFunded(k)'
    <2>1. orderEscrow'[k] = margin
      BY <1>5, <1>6
    <2>2. Remaining(k)' = q
      BY <1>4, <1>5, <1>6 DEF Remaining
    <2>3. margin * q >= q * margin /\ margin <= margin /\ q >= 0
      BY <1>5
    <2> QED
      BY <1>4, <1>6, <2>1, <2>2, <2>3 DEF BuyFunded, Proportional
  <1> QED
    BY <1>1, <1>7, OneOrderMoves

\* A cancelled buy order gets back all that is in its escrow.
LEMMA CancelledFunded ==
    ASSUME SpaceInv, BuysFunded, NEW k \in OrderKeys, CancelOrder(k)
    PROVE  BuysFunded'
  <1> DEFINE back == Lesser(orderEscrow[k], order[k].margin)
             new == [order[k] EXCEPT !.status = "Cancelled"]
  <1>1. order[k] \in PendingOrder /\ orderEscrow[k] \in Nat
    BY DEF SpaceInv, TypeOK
  <1>2. /\ order' = [order EXCEPT ![k] = new] /\ order[k].side = "Buy"
        /\ orderEscrow' = [orderEscrow EXCEPT ![k] = @ - back]
    BY DEF CancelOrder
  <1>3. orderEscrow[k] - back = 0
    BY <1>1, <1>2 DEF BuysFunded, BuyFunded, Lesser
  <1>4. new.status = "Cancelled" /\ new.side = "Buy" /\ new.margin = order[k].margin
    BY <1>1, <1>2 DEF PendingOrder
  <1>5. order[k].margin \in Nat
    BY <1>1 DEF PendingOrder
  <1> HIDE DEF new, back
  <1>6. order'[k] = new /\ orderEscrow'[k] = 0
    BY <1>2, <1>3 DEF SpaceInv, TypeOK
  <1>7. BuyFunded(k)'
    BY <1>4, <1>5, <1>6 DEF BuyFunded, Live
  <1> QED
    BY <1>2, <1>7, OneOrderMoves

\* Amounts that stay in proportion when a part is taken from both.
LEMMA PartTaken ==
    ASSUME NEW e \in Nat, NEW a \in Nat, NEW q \in Nat, NEW r \in Int, NEW f \in Nat, NEW m \in Nat,
           e * q >= r * m, a * q <= f * m
    PROVE  (e - a) * q >= (r - f) * m
  <1>1. (e - a) * q = e * q - a * q /\ (r - f) * m = r * m - f * m
    OBVIOUS
  <1>2. e * q \in Int /\ a * q \in Int /\ r * m \in Int /\ f * m \in Int
    OBVIOUS
  <1> QED
    BY <1>1, <1>2

\* A fill takes no more than its part of the margin, and nothing worth anything
\* from an order whose escrow is empty.
LEMMA BoughtFunded ==
    ASSUME SpaceInv, BuysFunded, MatchesHaveValue,
           NEW m \in Matches, NEW t \in TokenTypes, ExecuteBuyerMatch(m, t),
           NEW b \in OrderKeys, b = BuyKey(m)
    PROVE  BuysFunded'
  <1> DEFINE fill == matchState[m].fill_quantity
             part == MarginUsed(fill, order[b].margin, order[b].quantity)
             taken == AvailableMargin(m)
             new == Filled(b, fill)
             pos == <<Owner(b), matchState[m].outcome_id, t, PositionType(order[b].leverage)>>
  <1>1. /\ matchState[m] \in MatchState /\ b \in OrderKeys /\ order[b] \in PendingOrder
        /\ order[b].quantity > 0 /\ order[b].side = "Buy" /\ fill > 0
    BY MatchTypes DEF SpaceInv, ExecuteBuyerMatch
  <1>2. /\ order[b].margin \in Nat /\ order[b].quantity \in Nat \ {0} /\ order[b].filled_quantity \in Nat
        /\ fill \in Nat \ {0} /\ matchState[m].trade_value \in Nat /\ orderEscrow[b] \in Nat
    BY <1>1 DEF PendingOrder, MatchState, SpaceInv, TypeOK
  <1>3. /\ order' = [order EXCEPT ![b] = new]
        /\ orderEscrow' = [orderEscrow EXCEPT ![b] = @ - taken]
        /\ BuyerCanSettle(m, pos) /\ matchState[m].stage # "Absent"
    BY DEF ExecuteBuyerMatch
  <1>4. /\ new.side = "Buy" /\ new.leverage = order[b].leverage
        /\ new.quantity = order[b].quantity /\ new.margin = order[b].margin
        /\ new.filled_quantity = order[b].filled_quantity + fill
        /\ new.status = StatusAfterFill(order[b].filled_quantity + fill, order[b].quantity)
    BY <1>1 DEF Filled, PendingOrder
  <1>5. part \in Nat /\ part * order[b].quantity <= fill * order[b].margin
    <2>1. fill * order[b].margin \in Nat
      BY <1>2, TimesNat
    <2> QED
      BY <1>2, <2>1 DEF MarginUsed
  <1>6. taken \in Nat /\ taken <= part /\ taken <= orderEscrow[b]
    BY <1>2, <1>5 DEF AvailableMargin, Lesser
  <1>7. order[b].leverage = 1 => taken > 0
    <2> SUFFICES ASSUME order[b].leverage = 1 PROVE taken > 0
      OBVIOUS
    <2>1. SpotInvariants(PositionAfterBuy(position[pos], m))
      BY <1>3 DEF BuyerCanSettle
    <2>2. position[pos] \in Position
      <3>1. Owner(b) \in Users /\ matchState[m].outcome_id \in Outcomes /\ "Spot" \in PositionTypes
        BY <1>1, MatchTypes DEF SpaceInv, ExecuteBuyerMatch, MatchState, PositionTypes
      <3> QED
        BY <3>1 DEF SpaceInv, TypeOK, PositionType
    <2>3. BorrowedAmount(m) \in Nat
      BY <1>2, <1>6, SatSubNat DEF BorrowedAmount
    <2>4. PositionAfterBuy(position[pos], m).borrowed_amount
            = position[pos].borrowed_amount + BorrowedAmount(m)
      BY <2>2 DEF PositionAfterBuy, Position
    <2>5. position[pos].borrowed_amount \in Nat
      BY <2>2 DEF Position
    <2>6. BorrowedAmount(m) = 0
      BY <2>1, <2>3, <2>4, <2>5 DEF SpotInvariants
    <2>7. matchState[m].trade_value > 0
      BY <1>3 DEF MatchesHaveValue
    <2> QED
      BY <1>2, <1>6, <2>6, <2>7 DEF BorrowedAmount, SatSub
  <1>8. BuyFunded(b) /\ (order[b].status = "Open" \/ order[b].status = "PartiallyFilled" \/ order[b].status = "Filled" \/ order[b].status = "Cancelled")
    <2>1. order[b].status # "Absent"
      BY <1>3 DEF SpaceInv, BookInv, MatchesRefer
    <2> QED
      BY <1>1, <2>1 DEF BuysFunded, PendingOrder, OrderStatus
  <1>9. taken * order[b].quantity <= fill * order[b].margin
    <2>1. taken * order[b].quantity <= part * order[b].quantity
      BY <1>2, <1>5, <1>6, TimesMono
    <2>2. taken * order[b].quantity \in Nat /\ part * order[b].quantity \in Nat /\ fill * order[b].margin \in Nat
      BY <1>2, <1>5, <1>6, TimesNat
    <2> QED
      BY <1>5, <2>1, <2>2
  <1> HIDE DEF taken, part, new, pos, fill
  <1>10. order'[b] = new /\ orderEscrow'[b] = orderEscrow[b] - taken
    BY <1>1, <1>3 DEF SpaceInv, TypeOK
  <1>11. orderEscrow'[b] <= order'[b].margin
    BY <1>1, <1>2, <1>4, <1>6, <1>8, <1>10 DEF BuyFunded
  <1>12. order[b].leverage = 1 /\ order[b].status = "Filled" => order'[b].filled_quantity >= order'[b].quantity
    BY <1>1, <1>2, <1>4, <1>8, <1>10 DEF BuyFunded, SpotBuy
  <1>13. order[b].leverage = 1 => order[b].status # "Cancelled"
    BY <1>1, <1>2, <1>6, <1>7, <1>8 DEF BuyFunded, SpotBuy
  <1>14. ASSUME order[b].leverage = 1, order[b].filled_quantity + fill < order[b].quantity
         PROVE  Remaining(b)' >= 0 /\ Proportional(b)'
    <2>1. Live(b)
      BY <1>2, <1>4, <1>8, <1>10, <1>12, <1>13, <1>14 DEF Live
    <2>2. Proportional(b) /\ Remaining(b) \in Int
      BY <1>1, <1>2, <1>8, <1>14, <2>1 DEF BuyFunded, SpotBuy, Remaining
    <2>3. (orderEscrow[b] - taken) * order[b].quantity >= (Remaining(b) - fill) * order[b].margin
      BY <1>2, <1>6, <1>9, <2>2, PartTaken DEF Proportional
    <2>4. Remaining(b)' = Remaining(b) - fill
      BY <1>2, <1>4, <1>10 DEF Remaining
    <2>5. Remaining(b)' >= 0
      BY <1>2, <1>4, <1>10, <1>14 DEF Remaining
    <2> QED
      BY <1>4, <1>10, <2>3, <2>4, <2>5 DEF Proportional
  <1>15. /\ order[b].filled_quantity + fill < order[b].quantity => order'[b].status = "PartiallyFilled"
         /\ order[b].filled_quantity + fill >= order[b].quantity => order'[b].status = "Filled"
    BY <1>2, <1>4, <1>10 DEF StatusAfterFill
  <1>16. order'[b].leverage = order[b].leverage /\ order'[b].side = "Buy"
         /\ order'[b].filled_quantity = order[b].filled_quantity + fill /\ order'[b].quantity = order[b].quantity
    BY <1>4, <1>10
  <1>17. BuyFunded(b)'
    <2>1. CASE order[b].filled_quantity + fill < order[b].quantity
      BY <1>11, <1>14, <1>15, <1>16, <2>1 DEF BuyFunded, SpotBuy
    <2>2. CASE order[b].filled_quantity + fill >= order[b].quantity
      BY <1>11, <1>15, <1>16, <2>2 DEF BuyFunded, SpotBuy, Live
    <2> QED
      BY <1>2, <2>1, <2>2
  <1> QED
    BY <1>1, <1>3, <1>17, OneOrderMoves

\* Every step keeps the buy orders funded.
LEMMA FundedStep ==
    ASSUME SpaceInv, BuysFunded, MatchesHaveValue, [Next]_vars
    PROVE  BuysFunded'
  <1>1. CASE UNCHANGED <<order, orderEscrow>>
    BY <1>1, FundsStay DEF BuysFunded
  <1>2. order \in [OrderKeys -> PendingOrder] /\ NewOrder \in PendingOrder
    BY NewOrderType DEF SpaceInv, TypeOK
  <1>3. CASE PlaceSteps
    <2>1. ASSUME NEW k \in OrderKeys, NEW o \in OutcomeIds, NEW p \in Prices,
                 NEW q \in Quantities, NEW t \in TokenTypes, PlaceLimitSellOrder(k, o, t, p, q)
          PROVE  BuysFunded'
      <3> DEFINE new == [NewOrder EXCEPT !.side = "Sell", !.outcome_id = o, !.token_type = t,
                           !.price = p, !.quantity = q]
      <3>1. order' = [order EXCEPT ![k] = new] /\ UNCHANGED orderEscrow
        BY <2>1 DEF PlaceLimitSellOrder
      <3>2. new.side = "Sell"
        BY <1>2 DEF PendingOrder
      <3> HIDE DEF new
      <3> QED
        BY <3>1, <3>2, SellsMove
    <2>2. "YES" \in TokenTypes /\ "NO" \in TokenTypes
      BY DEF TokenTypes
    <2> QED
      BY <1>3, <2>1, <2>2, PlacedFunded DEF PlaceSteps, PlaceYesLimitSellOrder, PlaceNoLimitSellOrder
  <1>4. CASE CancelSteps
    <2>1. ASSUME NEW k \in OrderKeys, NEW t \in TokenTypes, CancelSide(k, t)
          PROVE  BuysFunded'
      <3> DEFINE new == [order[k] EXCEPT !.status = "Cancelled"]
      <3>1. order' = [order EXCEPT ![k] = new] /\ order[k].side = "Sell" /\ UNCHANGED orderEscrow
        BY <2>1 DEF CancelSide
      <3>2. new.side = "Sell"
        BY <1>2, <3>1 DEF PendingOrder
      <3> HIDE DEF new
      <3> QED
        BY <3>1, <3>2, SellsMove
    <2>2. "YES" \in TokenTypes /\ "NO" \in TokenTypes
      BY DEF TokenTypes
    <2> QED
      BY <1>4, <2>1, <2>2, CancelledFunded DEF CancelSteps, CancelSellOrder, CancelNoSellOrder
  <1>5. CASE MatchSteps
    <2>1. ASSUME NEW m \in Matches, ExecuteSellerMatch(m)
          PROVE  BuysFunded'
      <3> DEFINE s == SellKey(m)
                 new == [Filled(s, matchState[m].fill_quantity) EXCEPT
                           !.borrowed_amount_to_repay = SatSub(@, DebtPayment(m))]
      <3>1. /\ s \in OrderKeys /\ order[s].side = "Sell" /\ order' = [order EXCEPT ![s] = new]
            /\ UNCHANGED orderEscrow
        BY <2>1, MatchTypes DEF ExecuteSellerMatch, SpaceInv, escrows
      <3>2. new.side = "Sell"
        BY <1>2, <3>1 DEF Filled, PendingOrder
      <3> HIDE DEF s, new
      <3> QED
        BY <3>1, <3>2, SellsMove
    <2>2. ASSUME NEW b \in OrderKeys, NEW s \in OrderKeys, NEW p \in Prices,
                 NEW q \in Quantities, ValidateMatch(b, s, p, q)
          PROVE  UNCHANGED <<order, orderEscrow>>
      BY <2>2 DEF ValidateMatch, escrows
    <2>3. "YES" \in TokenTypes /\ "NO" \in TokenTypes
      BY DEF TokenTypes
    <2>4. ASSUME NEW m \in Matches, NEW t \in TokenTypes, ExecuteBuyerMatch(m, t)
          PROVE  BuysFunded'
      <3>1. BuyKey(m) \in OrderKeys
        BY <2>4, MatchTypes DEF ExecuteBuyerMatch, SpaceInv
      <3> QED
        BY <2>4, <3>1, BoughtFunded
    <2> QED
      BY <1>1, <1>5, <2>1, <2>2, <2>3, <2>4
         DEF MatchSteps, ExecuteYesBuyerMatch, ExecuteNoBuyerMatch
  <1>6. CASE CloseLeveragedSteps
    <2>1. PICK k \in OrderKeys, o \in Outcomes, t \in TokenTypes, q \in Quantities, p \in Prices :
            CloseLeveragedPosition(k, o, t, q, p)
      BY <1>6 DEF CloseLeveragedSteps
    <2> DEFINE pos == position[<<Owner(k), o, t, "Leveraged">>]
               shares == Lesser(q, Lesser(pos.shares, wallet[<<Owner(k), o, t>>]))
               ratio == RatioBps(shares, pos.shares)
               new == [NewOrder EXCEPT !.side = "Sell", !.outcome_id = o, !.token_type = t,
                         !.order_type = "Market", !.price = p, !.quantity = shares,
                         !.leverage = pos.leverage, !.is_leveraged_close = TRUE,
                         !.borrowed_amount_to_repay = BpsOf(pos.borrowed_amount, ratio),
                         !.collateral_to_return = BpsOf(pos.collateral, ratio)]
    <2>2. order' = [order EXCEPT ![k] = new] /\ UNCHANGED orderEscrow
      BY <2>1 DEF CloseLeveragedPosition
    <2> HIDE DEF shares, ratio
    <2>3. new.side = "Sell"
      BY <1>2 DEF PendingOrder
    <2> HIDE DEF new
    <2> QED
      BY <2>2, <2>3, SellsMove
  <1>7. CASE SetSteps \/ Tick \/ ResolveSteps \/ RedeemSteps \/ SettleSteps \/ UNCHANGED vars
    <2>1. SetSteps \/ Tick \/ UNCHANGED vars => UNCHANGED <<order, orderEscrow>>
      BY DEF SetSteps, MintShares, BurnShares, Tick, vars, book, escrows
    <2>2. ResolveSteps \/ RedeemSteps => UNCHANGED <<order, orderEscrow>>
      BY DEF ResolveSteps, ResolveOracle, FinalizeMarket, ChallengeResolution, MarkInvalid,
             RedeemSteps, RedeemShares, book, escrows
    <2>3. ASSUME NEW u \in Users, NEW o \in Outcomes, NEW t \in TokenTypes,
                 \/ \E type \in PositionTypes : ClosePosition(u, o, t, type)
                 \/ \E l \in Users : LiquidatePosition(l, u, o, t)
          PROVE  UNCHANGED <<order, orderEscrow>>
      BY <2>3 DEF ClosePosition, LiquidatePosition, book, escrows
    <2>4. UNCHANGED <<order, orderEscrow>>
      BY <1>7, <2>1, <2>2, <2>3 DEF SettleSteps
    <2> QED
      BY <1>1, <2>4
  <1> QED
    BY <1>3, <1>4, <1>5, <1>6, <1>7 DEF Next, LifeNext, BookNext

\* The escrow of a live spot buy order pays for all that it may still buy, in
\* every behaviour of the whole program, however matches overlap and whatever is
\* cancelled between their halves, as long as no match is worth nothing: one
\* that is worth nothing revives a cancelled order whose escrow is empty.
THEOREM BuysStayFunded == Spec /\ []MatchesHaveValue => []LiveBuyFunded
  <1>1. Init => BuysFunded
    <2> SUFFICES ASSUME Init, NEW k \in OrderKeys PROVE BuyFunded(k)
      BY DEF BuysFunded
    <2>1. order[k] = AbsentOrder /\ orderEscrow[k] = 0
      BY DEF Init
    <2> QED
      BY <2>1 DEF BuyFunded, AbsentOrder, Live
  <1>2. SpaceInv /\ BuysFunded /\ MatchesHaveValue /\ [Next]_vars => BuysFunded'
    BY FundedStep
  <1>3. SpaceInv /\ BuysFunded => LiveBuyFunded
    <2> SUFFICES ASSUME SpaceInv, BuysFunded, NEW k \in OrderKeys, Live(k), SpotBuy(k)
                 PROVE  orderEscrow[k] >= MarginUsed(Remaining(k), order[k].margin, order[k].quantity)
      BY DEF LiveBuyFunded, SpotBuy
    <2>1. order[k] \in PendingOrder /\ orderEscrow[k] \in Nat /\ order[k].quantity > 0
      BY DEF SpaceInv, TypeOK, BookInv, OrdersReal, Live
    <2>2. Remaining(k) \in Int /\ order[k].margin \in Nat /\ order[k].quantity \in Nat \ {0}
      BY <2>1 DEF Remaining, PendingOrder
    <2>3. Remaining(k) \in Nat /\ Remaining(k) * order[k].margin <= orderEscrow[k] * order[k].quantity
      BY <2>2 DEF BuysFunded, BuyFunded, Proportional
    <2>4. Remaining(k) * order[k].margin \in Nat
      BY <2>2, <2>3, TimesNat
    <2> QED
      BY <2>1, <2>2, <2>3, <2>4, DivBound DEF MarginUsed
  <1> QED
    BY <1>1, <1>2, <1>3, SpaceInvariant, PTL DEF Spec
=============================================================================
