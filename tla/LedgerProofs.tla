---------------------------- MODULE LedgerProofs ----------------------------
(***************************************************************************)
(* The theorems that add up accounts: money and shares are conserved, the  *)
(* history variables are exact, and a finished spot market can redeem.     *)
(***************************************************************************)
EXTENDS SpaceProofs, SpaceLedger

\* The order accounts are finitely many, as users and order ids are.
LEMMA OrderKeysFinite == IsFiniteSet(OrderKeys) /\ IsFiniteSet(Matches)
  <1>1. IsFiniteSet(Users \X OrderIds) /\ IsFiniteSet(OrderIds \X OrderIds)
    BY LedgerAssumption, FS_Product
  <1> QED
    BY <1>1, SpaceAssumption, FS_Subset DEF Matches

-----------------------------------------------------------------------------
(***************************************************************************)
(* Conservation of the quote token.                                        *)
(***************************************************************************)
InVaults == vault.market + vault.margin + vault.liquidity + vault.insurance

\* The three parts of the total are integers.
LEMMA TotalTypes ==
    ASSUME TypeOK
    PROVE  /\ SumFunctionOnSet(usdc, Users) \in Int
           /\ SumFunctionOnSet(orderEscrow, OrderKeys) \in Int
           /\ vault.market \in Nat /\ vault.margin \in Nat
           /\ vault.liquidity \in Nat /\ vault.insurance \in Nat
  <1>1. \A u \in Users : usdc[u] \in Int
    BY DEF TypeOK
  <1>2. \A k \in OrderKeys : orderEscrow[k] \in Int
    BY DEF TypeOK
  <1> QED
    BY <1>1, <1>2, SumInt, LedgerAssumption, OrderKeysFinite DEF TypeOK, Vaults

\* A user pays or is paid.
LEMMA UserMoves ==
    ASSUME TypeOK, TypeOK', NEW u \in Users, \A v \in Users \ {u} : usdc'[v] = usdc[v]
    PROVE  SumFunctionOnSet(usdc', Users)
             = SumFunctionOnSet(usdc, Users) + (usdc'[u] - usdc[u])
  <1>1. \A v \in Users : usdc[v] \in Int /\ usdc'[v] \in Int
    BY DEF TypeOK
  <1> QED
    BY <1>1, SumChanges, LedgerAssumption

\* The escrow of an order is filled or emptied.
LEMMA EscrowMoves ==
    ASSUME TypeOK, TypeOK', NEW k \in OrderKeys,
           \A j \in OrderKeys \ {k} : orderEscrow'[j] = orderEscrow[j]
    PROVE  SumFunctionOnSet(orderEscrow', OrderKeys)
             = SumFunctionOnSet(orderEscrow, OrderKeys) + (orderEscrow'[k] - orderEscrow[k])
  <1>1. \A j \in OrderKeys : orderEscrow[j] \in Int /\ orderEscrow'[j] \in Int
    BY DEF TypeOK
  <1> QED
    BY <1>1, SumChanges, OrderKeysFinite

\* A user and the vaults pay each other.
LEMMA UserAndVaults ==
    ASSUME TypeOK, TypeOK', NEW u \in Users, NEW n \in Int,
           usdc'[u] = usdc[u] + n, \A v \in Users \ {u} : usdc'[v] = usdc[v],
           InVaults' = InVaults - n, UNCHANGED orderEscrow
    PROVE  TotalUsdc' = TotalUsdc
  <1>1. usdc[u] \in Int
    BY DEF TypeOK
  <1>2. SumFunctionOnSet(usdc', Users) = SumFunctionOnSet(usdc, Users) + n
    BY <1>1, UserMoves, TotalTypes
  <1>3. /\ SumFunctionOnSet(usdc, Users) \in Int
        /\ SumFunctionOnSet(orderEscrow, OrderKeys) \in Int
        /\ vault.market \in Nat /\ vault.margin \in Nat
        /\ vault.liquidity \in Nat /\ vault.insurance \in Nat
        /\ vault'.market \in Nat /\ vault'.margin \in Nat
        /\ vault'.liquidity \in Nat /\ vault'.insurance \in Nat
    BY TotalTypes DEF TypeOK, Vaults
  <1>4. SumFunctionOnSet(orderEscrow', OrderKeys) = SumFunctionOnSet(orderEscrow, OrderKeys)
    OBVIOUS
  <1>5. TotalUsdc' = SumFunctionOnSet(usdc', Users)
                       + SumFunctionOnSet(orderEscrow', OrderKeys) + InVaults'
    BY <1>2, <1>3, <1>4 DEF TotalUsdc, InVaults
  <1>6. TotalUsdc = SumFunctionOnSet(usdc, Users)
                      + SumFunctionOnSet(orderEscrow, OrderKeys) + InVaults
    BY <1>3 DEF TotalUsdc, InVaults
  <1>7. InVaults \in Int
    BY <1>3 DEF InVaults
  <1> QED
    BY <1>2, <1>3, <1>4, <1>5, <1>6, <1>7

\* A user and the escrow of an order pay each other.
LEMMA UserAndEscrow ==
    ASSUME TypeOK, TypeOK', NEW u \in Users, NEW k \in OrderKeys, NEW n \in Int,
           usdc'[u] = usdc[u] + n, \A v \in Users \ {u} : usdc'[v] = usdc[v],
           orderEscrow' = [orderEscrow EXCEPT ![k] = @ - n], UNCHANGED vault
    PROVE  TotalUsdc' = TotalUsdc
  <1>1. /\ orderEscrow'[k] = orderEscrow[k] - n /\ orderEscrow[k] \in Int
        /\ usdc[u] \in Int
        /\ \A j \in OrderKeys \ {k} : orderEscrow'[j] = orderEscrow[j]
    BY DEF TypeOK
  <1>2. /\ SumFunctionOnSet(usdc', Users) = SumFunctionOnSet(usdc, Users) + n
        /\ SumFunctionOnSet(orderEscrow', OrderKeys)
             = SumFunctionOnSet(orderEscrow, OrderKeys) - n
    <2>1. SumFunctionOnSet(usdc', Users) = SumFunctionOnSet(usdc, Users) + n
      BY <1>1, UserMoves, TotalTypes
    <2>2. SumFunctionOnSet(orderEscrow', OrderKeys)
             = SumFunctionOnSet(orderEscrow, OrderKeys) + (orderEscrow'[k] - orderEscrow[k])
      BY <1>1, EscrowMoves
    <2> QED
      BY <1>1, <2>1, <2>2, TotalTypes
  <1> QED
    BY <1>2, TotalTypes DEF TotalUsdc

\* The escrow of an order pays into the vaults.
LEMMA EscrowAndVaults ==
    ASSUME TypeOK, TypeOK', NEW k \in OrderKeys, NEW n \in Int,
           orderEscrow' = [orderEscrow EXCEPT ![k] = @ - n],
           InVaults' = InVaults + n, UNCHANGED usdc
    PROVE  TotalUsdc' = TotalUsdc
  <1>1. /\ orderEscrow'[k] = orderEscrow[k] - n /\ orderEscrow[k] \in Int
        /\ \A j \in OrderKeys \ {k} : orderEscrow'[j] = orderEscrow[j]
    BY DEF TypeOK
  <1>2. SumFunctionOnSet(orderEscrow', OrderKeys)
           = SumFunctionOnSet(orderEscrow, OrderKeys) + (orderEscrow'[k] - orderEscrow[k])
    BY <1>1, EscrowMoves
  <1>3. /\ SumFunctionOnSet(usdc, Users) \in Int
        /\ SumFunctionOnSet(orderEscrow, OrderKeys) \in Int
        /\ vault.market \in Nat /\ vault.margin \in Nat
        /\ vault.liquidity \in Nat /\ vault.insurance \in Nat
        /\ vault'.market \in Nat /\ vault'.margin \in Nat
        /\ vault'.liquidity \in Nat /\ vault'.insurance \in Nat
    BY TotalTypes DEF TypeOK, Vaults
  <1> QED
    BY <1>1, <1>2, <1>3 DEF TotalUsdc, InVaults

\* Minting and burning.
LEMMA SetsConserve ==
    ASSUME SpaceInv, SpaceInv', SetSteps
    PROVE  TotalUsdc' = TotalUsdc
  <1>1. PICK u \in Users, o \in OutcomeIds, n \in Amounts :
          MintShares(u, o, n) \/ BurnShares(u, o, n)
    BY DEF SetSteps
  <1> DEFINE quote == n * QuoteScale
  <1>2. /\ quote \in Int /\ TypeOK /\ TypeOK' /\ vault \in Vaults
        /\ vault.market \in Nat /\ vault.margin \in Nat
        /\ vault.liquidity \in Nat /\ vault.insurance \in Nat
        /\ usdc \in [Users -> Nat]
    BY InputTypes, QuoteScaleAssumption, TimesNat DEF SpaceInv, TypeOK, Vaults
  <1>3. CASE MintShares(u, o, n)
    <2>1. /\ usdc' = [usdc EXCEPT ![u] = @ - quote] /\ UNCHANGED orderEscrow
          /\ vault' = [vault EXCEPT !.market = @ + quote]
      BY <1>3 DEF MintShares, escrows
    <2> HIDE DEF quote
    <2>2. usdc'[u] = usdc[u] + (-quote) /\ \A v \in Users \ {u} : usdc'[v] = usdc[v]
      BY <1>2, <2>1
    <2>3. InVaults' = InVaults - (-quote)
      BY <1>2, <2>1 DEF InVaults, Vaults
    <2> QED
      BY <1>2, <2>1, <2>2, <2>3, UserAndVaults
  <1>4. CASE BurnShares(u, o, n)
    <2>1. /\ usdc' = [usdc EXCEPT ![u] = @ + quote] /\ UNCHANGED orderEscrow
          /\ vault' = [vault EXCEPT !.market = @ - quote]
      BY <1>4 DEF BurnShares, escrows
    <2> HIDE DEF quote
    <2>2. /\ InVaults' = InVaults - quote
          /\ usdc'[u] = usdc[u] + quote /\ \A v \in Users \ {u} : usdc'[v] = usdc[v]
      BY <1>2, <2>1 DEF InVaults, Vaults
    <2> QED
      BY <1>2, <2>1, <2>2, UserAndVaults
  <1> QED
    BY <1>1, <1>3, <1>4

\* Placing an order takes its margin into escrow; cancelling gives it back.
LEMMA PlacingConserves ==
    ASSUME SpaceInv, SpaceInv', PlaceSteps
    PROVE  TotalUsdc' = TotalUsdc
  <1>1. /\ TypeOK /\ TypeOK' /\ usdc \in [Users -> Nat] /\ orderEscrow \in [OrderKeys -> Nat]
    BY DEF SpaceInv, TypeOK
  <1>2. ASSUME NEW k \in OrderKeys, NEW o \in OutcomeIds, NEW p \in Prices,
               NEW q \in Quantities, NEW lev \in Leverages, PlaceBuyOrder(k, o, p, q, lev)
        PROVE  TotalUsdc' = TotalUsdc
    <2> DEFINE u == Owner(k)
               margin == RequiredMargin(q, p, lev)
    <2>1. /\ usdc' = [usdc EXCEPT ![u] = @ - margin]
          /\ orderEscrow' = [orderEscrow EXCEPT ![k] = @ + margin] /\ UNCHANGED vault
          /\ lev \in 1..MAX_LEVERAGE
      BY <1>2 DEF PlaceBuyOrder
    <2>2. margin \in Int /\ u \in Users
      <3>1. p \in Nat /\ q \in Nat /\ lev \in Nat \ {0}
        BY <2>1, InputTypes DEF MAX_LEVERAGE
      <3> QED
        BY <3>1, RequiredMarginNat, InputTypes
    <2> HIDE DEF u, margin
    <2> DEFINE paid == -margin
    <2>3. /\ paid \in Int
          /\ usdc'[u] = usdc[u] + paid /\ \A v \in Users \ {u} : usdc'[v] = usdc[v]
      BY <1>1, <2>1, <2>2
    <2>4. orderEscrow' = [orderEscrow EXCEPT ![k] = @ - paid]
      <3>1. orderEscrow[k] + margin = orderEscrow[k] - paid
        BY <1>1, <2>2
      <3> QED
        BY <2>1, <3>1
    <2> HIDE DEF paid
    <2> QED
      BY <1>1, <2>1, <2>2, <2>3, <2>4, UserAndEscrow
  <1>3. ASSUME NEW k \in OrderKeys, NEW o \in OutcomeIds, NEW p \in Prices,
               NEW q \in Quantities, NEW t \in TokenTypes, PlaceLimitSellOrder(k, o, t, p, q)
        PROVE  TotalUsdc' = TotalUsdc
    BY <1>3 DEF PlaceLimitSellOrder, TotalUsdc
  <1>4. "YES" \in TokenTypes /\ "NO" \in TokenTypes
    BY DEF TokenTypes
  <1> QED
    BY <1>2, <1>3, <1>4 DEF PlaceSteps, PlaceYesLimitSellOrder, PlaceNoLimitSellOrder

LEMMA CancellingConserves ==
    ASSUME SpaceInv, SpaceInv', CancelSteps
    PROVE  TotalUsdc' = TotalUsdc
  <1>1. /\ TypeOK /\ TypeOK' /\ usdc \in [Users -> Nat] /\ orderEscrow \in [OrderKeys -> Nat]
        /\ order \in [OrderKeys -> PendingOrder]
    BY DEF SpaceInv, TypeOK
  <1>2. ASSUME NEW k \in OrderKeys, CancelOrder(k)
        PROVE  TotalUsdc' = TotalUsdc
    <2> DEFINE u == Owner(k)
               back == Lesser(orderEscrow[k], order[k].margin)
    <2>1. /\ usdc' = [usdc EXCEPT ![u] = @ + back]
          /\ orderEscrow' = [orderEscrow EXCEPT ![k] = @ - back] /\ UNCHANGED vault
      BY <1>2 DEF CancelOrder
    <2>2. back \in Int /\ u \in Users
      BY <1>1, InputTypes DEF Lesser, PendingOrder
    <2> HIDE DEF u, back
    <2>3. usdc'[u] = usdc[u] + back /\ \A v \in Users \ {u} : usdc'[v] = usdc[v]
      BY <1>1, <2>1, <2>2
    <2> QED
      BY <1>1, <2>1, <2>2, <2>3, UserAndEscrow
  <1>3. ASSUME NEW k \in OrderKeys, NEW t \in TokenTypes, CancelSide(k, t)
        PROVE  TotalUsdc' = TotalUsdc
    BY <1>3 DEF CancelSide, TotalUsdc
  <1>4. "YES" \in TokenTypes /\ "NO" \in TokenTypes
    BY DEF TokenTypes
  <1> QED
    BY <1>2, <1>3, <1>4 DEF CancelSteps, CancelSellOrder, CancelNoSellOrder

\* The two halves of a match.
LEMMA MatchingConserves ==
    ASSUME SpaceInv, SpaceInv', MatchSteps
    PROVE  TotalUsdc' = TotalUsdc
  <1>1. /\ TypeOK /\ TypeOK' /\ BookInv /\ usdc \in [Users -> Nat] /\ vault \in Vaults
        /\ vault.market \in Nat /\ vault.margin \in Nat
        /\ vault.liquidity \in Nat /\ vault.insurance \in Nat
    BY DEF SpaceInv, TypeOK, Vaults
  <1>2. ASSUME NEW b \in OrderKeys, NEW s \in OrderKeys, NEW p \in Prices,
               NEW q \in Quantities, ValidateMatch(b, s, p, q)
        PROVE  TotalUsdc' = TotalUsdc
    BY <1>2 DEF ValidateMatch, TotalUsdc, tokens, escrows
  <1>3. ASSUME NEW m \in Matches, NEW t \in TokenTypes, ExecuteBuyerMatch(m, t)
        PROVE  TotalUsdc' = TotalUsdc
    <2> DEFINE b == BuyKey(m)
               n == AvailableMargin(m)
               loan == BorrowedAmount(m)
    <2>1. /\ orderEscrow' = [orderEscrow EXCEPT ![b] = @ - n] /\ UNCHANGED usdc
          /\ vault' = VaultAfterBuy(m) /\ matchState[m].stage # "Absent"
      BY <1>3 DEF ExecuteBuyerMatch
    <2>2. n \in Int /\ loan \in Int /\ b \in OrderKeys
      BY <1>1, <2>1, BuyerAmounts, MatchTypes
    <2> HIDE DEF n, loan
    <2>3. InVaults' = InVaults + n
      <3>1. CASE order[b].leverage > 1
        <4>1. vault' = [vault EXCEPT !.margin = @ + n, !.market = @ + loan,
                                     !.liquidity = @ - loan]
          BY <2>1, <3>1 DEF VaultAfterBuy, n, loan
        <4> QED
          BY <1>1, <2>2, <4>1 DEF InVaults, Vaults
      <3>2. CASE ~(order[b].leverage > 1)
        <4>1. vault' = [vault EXCEPT !.market = @ + n]
          BY <2>1, <3>2 DEF VaultAfterBuy, n
        <4> QED
          BY <1>1, <2>2, <4>1 DEF InVaults, Vaults
      <3> QED
        BY <3>1, <3>2
    <2> QED
      BY <1>1, <2>1, <2>2, <2>3, EscrowAndVaults
  <1>4. ASSUME NEW m \in Matches, ExecuteSellerMatch(m)
        PROVE  TotalUsdc' = TotalUsdc
    <2> DEFINE u == Owner(SellKey(m))
               pay == SellerPayment(m)
               debt == DebtPayment(m)
    <2>1. /\ usdc' = [usdc EXCEPT ![u] = @ + (pay - debt)] /\ UNCHANGED orderEscrow
          /\ vault' = [vault EXCEPT !.market = @ - pay, !.liquidity = @ + debt]
          /\ matchState[m].stage # "Absent"
      BY <1>4 DEF ExecuteSellerMatch, escrows
    <2>2. pay \in Int /\ debt \in Int /\ u \in Users
      BY <1>1, <2>1, SellerAmounts, MatchTypes, InputTypes
    <2> HIDE DEF u, pay, debt
    <2>3. /\ usdc'[u] = usdc[u] + (pay - debt) /\ \A v \in Users \ {u} : usdc'[v] = usdc[v]
          /\ InVaults' = InVaults - (pay - debt)
      BY <1>1, <2>1, <2>2 DEF InVaults, Vaults
    <2>4. pay - debt \in Int
      BY <2>2
    <2> QED
      BY <1>1, <2>1, <2>2, <2>3, <2>4, UserAndVaults
  <1>5. "YES" \in TokenTypes /\ "NO" \in TokenTypes
    BY DEF TokenTypes
  <1> QED
    BY <1>2, <1>3, <1>4, <1>5 DEF MatchSteps, ExecuteYesBuyerMatch, ExecuteNoBuyerMatch

\* close_position: the lender and the user are paid out of the vaults.
LEMMA ClosingConserves ==
    ASSUME SpaceInv, SpaceInv', NEW u \in Users, NEW s,
           s.repaid \in Nat, s.shortfall \in Nat, s.equity \in Nat, s.payout \in Nat,
           CloseLeveraged(u, s) \/ CloseSpot(u, s), UNCHANGED orderEscrow
    PROVE  TotalUsdc' = TotalUsdc
  <1>1. /\ TypeOK /\ TypeOK' /\ usdc \in [Users -> Nat] /\ vault \in Vaults
        /\ vault.market \in Nat /\ vault.margin \in Nat
        /\ vault.liquidity \in Nat /\ vault.insurance \in Nat
    BY DEF SpaceInv, TypeOK, Vaults
  <1>2. CASE CloseLeveraged(u, s)
    <2> DEFINE covered == Lesser(s.shortfall, vault.margin)
               paid == Lesser(s.payout, vault.margin)
    <2>1. /\ vault' = [vault EXCEPT !.market = @ - s.repaid,
                                    !.liquidity = @ + s.repaid + covered,
                                    !.margin = @ - covered - paid]
          /\ usdc' = [usdc EXCEPT ![u] = @ + paid]
      BY <1>2 DEF CloseLeveraged
    <2>2. covered \in Nat /\ paid \in Int
      BY <1>1 DEF Lesser
    <2> HIDE DEF covered, paid
    <2>3. /\ usdc'[u] = usdc[u] + paid /\ \A v \in Users \ {u} : usdc'[v] = usdc[v]
          /\ InVaults' = InVaults - paid
      BY <1>1, <2>1, <2>2 DEF InVaults, Vaults
    <2> QED
      BY <1>1, <2>2, <2>3, UserAndVaults
  <1>3. CASE CloseSpot(u, s)
    <2>1. /\ usdc'[u] = usdc[u] + s.equity /\ \A v \in Users \ {u} : usdc'[v] = usdc[v]
          /\ InVaults' = InVaults - s.equity /\ s.equity \in Int
      BY <1>1, <1>3 DEF CloseSpot, InVaults, Vaults
    <2> QED
      BY <1>1, <2>1, UserAndVaults
  <1> QED
    BY <1>2, <1>3

\* close_position and liquidate_position.
LEMMA SettlingConserves ==
    ASSUME SpaceInv, SpaceInv', SettleSteps
    PROVE  TotalUsdc' = TotalUsdc
  <1>1. /\ TypeOK /\ TypeOK' /\ usdc \in [Users -> Nat] /\ vault \in Vaults
        /\ vault.market \in Nat /\ vault.margin \in Nat
        /\ vault.liquidity \in Nat /\ vault.insurance \in Nat
    BY DEF SpaceInv, TypeOK, Vaults
  <1>2. ASSUME NEW u \in Users, NEW o \in Outcomes, NEW t \in TokenTypes,
               NEW type \in PositionTypes, ClosePosition(u, o, t, type)
        PROVE  TotalUsdc' = TotalUsdc
    <2> DEFINE pos == position[<<u, o, t, type>>]
               burned == Lesser(wallet[<<u, o, t>>], pos.shares)
               s == Settlement(pos, burned, MarkPrice(o, t))
    <2>1. (CloseLeveraged(u, s) \/ CloseSpot(u, s)) /\ UNCHANGED orderEscrow
      BY <1>2 DEF ClosePosition, escrows
    <2>2. /\ pos \in Position /\ pos.shares \in Nat /\ wallet[<<u, o, t>>] \in Nat
          /\ MarkPrice(o, t) \in Nat
      BY <1>1, PositionHere, WalletHere, MarkNat DEF Position
    <2> HIDE DEF pos
    <2>3. burned \in Nat /\ burned <= pos.shares
      BY <2>2, LesserNat
    <2> HIDE DEF burned
    <2>4. s.repaid \in Nat /\ s.shortfall \in Nat /\ s.equity \in Nat /\ s.payout \in Nat
      BY <2>2, <2>3, SettlementType
    <2> HIDE DEF s
    <2> QED
      BY <2>1, <2>4, ClosingConserves
  <1>3. ASSUME NEW l \in Users, NEW u \in Users, NEW o \in Outcomes, NEW t \in TokenTypes,
               LiquidatePosition(l, u, o, t)
        PROVE  TotalUsdc' = TotalUsdc
    <2> DEFINE pos == position[<<u, o, t, "Leveraged">>]
               price == MarketMark(o, t)
               amount == BpsOf(pos.shares, LIQUIDATION_STEP_BPS)
               penalty == BpsOf(QuoteValue(amount, price), LIQUIDATION_PENALTY_BPS)
               reward == penalty \div 2
    <2>1. /\ vault' = [vault EXCEPT !.market = @ - (penalty + reward),
                                    !.insurance = @ + penalty]
          /\ usdc' = [usdc EXCEPT ![l] = @ + reward] /\ UNCHANGED orderEscrow
      BY <1>3 DEF LiquidatePosition, escrows
    <2>2. /\ pos.shares \in Nat /\ price \in Nat
          /\ LIQUIDATION_STEP_BPS \in Nat /\ LIQUIDATION_PENALTY_BPS \in Nat
      <3>1. "Leveraged" \in PositionTypes
        BY DEF PositionTypes
      <3>2. pos \in Position /\ price \in Nat
        BY <1>1, <3>1, PositionHere, MarkNat
      <3> QED
        BY <3>2 DEF Position, LIQUIDATION_STEP_BPS, LIQUIDATION_PENALTY_BPS
    <2> HIDE DEF pos, price
    <2>3. amount \in Nat
      BY <2>2, BpsOfNat
    <2> HIDE DEF amount
    <2>4. penalty \in Nat
      BY <2>2, <2>3, QuoteValueNat, BpsOfNat
    <2> HIDE DEF penalty
    <2>5. reward \in Int
      BY <2>4, DivNat
    <2> HIDE DEF reward
    <2>6. /\ usdc'[l] = usdc[l] + reward /\ \A v \in Users \ {l} : usdc'[v] = usdc[v]
          /\ InVaults' = InVaults - reward
      BY <1>1, <2>1, <2>4, <2>5 DEF InVaults, Vaults
    <2> QED
      BY <1>1, <2>1, <2>5, <2>6, UserAndVaults
  <1> QED
    BY <1>2, <1>3 DEF SettleSteps

\* The resolution, whose challenge takes a bond, and redemption.
LEMMA ResolvingConserves ==
    ASSUME SpaceInv, SpaceInv', ResolveSteps \/ RedeemSteps
    PROVE  TotalUsdc' = TotalUsdc
  <1>1. /\ TypeOK /\ TypeOK' /\ usdc \in [Users -> Nat] /\ vault \in Vaults
        /\ vault.market \in Nat /\ vault.margin \in Nat
        /\ vault.liquidity \in Nat /\ vault.insurance \in Nat
    BY DEF SpaceInv, TypeOK, Vaults
  <1>2. ASSUME NEW u \in Users, NEW b \in Bonds, ChallengeResolution(u, b)
        PROVE  TotalUsdc' = TotalUsdc
    <2>1. /\ usdc' = [usdc EXCEPT ![u] = @ - b] /\ vault' = [vault EXCEPT !.market = @ + b]
          /\ UNCHANGED orderEscrow
      BY <1>2 DEF ChallengeResolution, escrows
    <2> DEFINE paid == -b
    <2>2. b \in Nat /\ paid \in Int
      BY InputTypes
    <2>3. /\ usdc'[u] = usdc[u] + paid /\ \A v \in Users \ {u} : usdc'[v] = usdc[v]
          /\ InVaults' = InVaults - paid
      BY <1>1, <2>1, <2>2 DEF InVaults, Vaults
    <2> HIDE DEF paid
    <2> QED
      BY <1>1, <2>1, <2>2, <2>3, UserAndVaults
  <1>3. ASSUME NEW o \in OutcomeIds, ResolveOracle(o) \/ FinalizeMarket \/ MarkInvalid
        PROVE  TotalUsdc' = TotalUsdc
    BY <1>3 DEF ResolveOracle, FinalizeMarket, MarkInvalid, TotalUsdc, tokens, escrows
  <1>4. FinalizeMarket \/ MarkInvalid => TotalUsdc' = TotalUsdc
    BY DEF FinalizeMarket, MarkInvalid, TotalUsdc, tokens, escrows
  <1>5. ASSUME NEW u \in Users, NEW o \in OutcomeIds, NEW withPositions \in BOOLEAN,
               RedeemShares(u, o, withPositions)
        PROVE  TotalUsdc' = TotalUsdc
    <2> DEFINE payout == PayoutShares(u, o) * QuoteScale
               debt == IF withPositions THEN TotalBorrowed(u) ELSE 0
               paid == SatSub(payout, debt)
    <2>1. /\ vault' = [vault EXCEPT !.market = @ - debt - paid, !.liquidity = @ + debt]
          /\ usdc' = [usdc EXCEPT ![u] = @ + paid] /\ UNCHANGED orderEscrow
      BY <1>5 DEF RedeemShares, escrows
    <2>2. debt \in Nat
      BY <1>1, TotalBorrowedNat
    <2>3. payout \in Nat
      <3>1. o \in Outcomes
        BY <1>5, InputTypes DEF RedeemShares
      <3>2. wallet[<<u, o, "YES">>] \in Nat /\ wallet[<<u, o, "NO">>] \in Nat
        BY <1>1, <3>1, WalletHere DEF TokenTypes
      <3> QED
        BY <3>2, TimesNat, QuoteScaleAssumption DEF PayoutShares
    <2> HIDE DEF debt, payout
    <2>4. paid \in Int
      BY <2>2, <2>3, SatSubNat
    <2> HIDE DEF paid
    <2>5. /\ usdc'[u] = usdc[u] + paid /\ \A v \in Users \ {u} : usdc'[v] = usdc[v]
          /\ InVaults' = InVaults - paid
      BY <1>1, <2>1, <2>2, <2>4 DEF InVaults, Vaults
    <2> QED
      BY <1>1, <2>1, <2>4, <2>5, UserAndVaults
  <1> QED
    BY <1>2, <1>3, <1>4, <1>5 DEF ResolveSteps, RedeemSteps

\* Every step of the program keeps the total.
LEMMA ConservingStep ==
    ASSUME SpaceInv, [Next]_vars
    PROVE  TotalUsdc' = TotalUsdc
  <1>1. SpaceInv'
    BY SpaceStep
  <1>2. CASE CloseLeveragedSteps \/ Tick \/ UNCHANGED vars
    <2>1. ASSUME NEW k \in OrderKeys, NEW o \in Outcomes, NEW t \in TokenTypes,
                 NEW q \in Quantities, NEW p \in Prices, CloseLeveragedPosition(k, o, t, q, p)
          PROVE  UNCHANGED usdc /\ UNCHANGED orderEscrow /\ UNCHANGED vault
      BY <2>1 DEF CloseLeveragedPosition
    <2>2. Tick \/ UNCHANGED vars =>
            UNCHANGED usdc /\ UNCHANGED orderEscrow /\ UNCHANGED vault
      BY DEF Tick, vars, tokens, escrows
    <2>3. UNCHANGED usdc /\ UNCHANGED orderEscrow /\ UNCHANGED vault
      BY <1>2, <2>1, <2>2 DEF CloseLeveragedSteps
    <2> QED
      BY <2>3 DEF TotalUsdc
  <1> QED
    BY <1>1, <1>2, SetsConserve, PlacingConserves, CancellingConserves, MatchingConserves,
       SettlingConserves, ResolvingConserves DEF Next, LifeNext, BookNext

\* What the market opens with.
LEMMA OpeningTotal == Init => UsdcConserved
  <1> SUFFICES ASSUME Init PROVE UsdcConserved
    OBVIOUS
  <1>1. InitialUsdc \in Nat /\ InitialCollateral \in Nat /\ InitialLiquidity \in Nat
    BY SpaceAssumption
  <1>2. SumFunctionOnSet(usdc, Users) = Cardinality(Users) * InitialUsdc
    BY <1>1, SumOfEqual, LedgerAssumption DEF Init
  <1>3. SumFunctionOnSet(orderEscrow, OrderKeys) = Cardinality(OrderKeys) * 0
    BY SumOfEqual, OrderKeysFinite DEF Init
  <1>4. Cardinality(Users) \in Nat /\ Cardinality(OrderKeys) \in Nat
    BY LedgerAssumption, OrderKeysFinite, FS_CardinalityType
  <1>5. /\ vault.market = InitialCollateral /\ vault.margin = 0
        /\ vault.liquidity = InitialLiquidity /\ vault.insurance = 0
    BY DEF Init
  <1> DEFINE held == Cardinality(Users) * InitialUsdc
  <1>6. held \in Nat
    BY <1>1, <1>4, TimesNat
  <1>7. SumFunctionOnSet(orderEscrow, OrderKeys) = 0
    BY <1>3, <1>4
  <1> HIDE DEF held
  <1>8. TotalUsdc = held + InitialCollateral + InitialLiquidity
    BY <1>1, <1>2, <1>5, <1>6, <1>7 DEF TotalUsdc, held
  <1> QED
    BY <1>8 DEF UsdcConserved, held

\* No instruction creates or loses a quote unit, for any number of users, of
\* orders and of matches in flight.
THEOREM UsdcKept == Spec => []UsdcConserved
  <1>1. SpaceInv /\ UsdcConserved /\ [Next]_vars => UsdcConserved'
    BY ConservingStep DEF UsdcConserved
  <1> QED
    BY <1>1, OpeningTotal, SpaceInvariant, PTL DEF Spec

-----------------------------------------------------------------------------
(***************************************************************************)
(* The history variables.                                                  *)
(***************************************************************************)
Values == [m \in Matches |-> matchState[m].trade_value]
Fills == [m \in Matches |-> matchState[m].fill_quantity]
OpenOn(k) == {m \in OpenMatches : SellKey(m) = k}

\* The terms of the two sums are integers, over finite sets.
LEMMA HistoryTypes ==
    ASSUME TypeOK
    PROVE  /\ \A m \in Matches : Values[m] \in Int /\ Fills[m] \in Int
           /\ IsFiniteSet(OpenMatches) /\ OpenMatches \subseteq Matches
           /\ \A k \in OrderKeys : IsFiniteSet(OpenOn(k)) /\ OpenOn(k) \subseteq OpenMatches
  <1>1. \A m \in Matches : matchState[m] \in MatchState
    BY DEF TypeOK, Matches
  <1>2. \A m \in Matches : Values[m] \in Int /\ Fills[m] \in Int
    BY <1>1 DEF Values, Fills, MatchState
  <1>3. OpenMatches \subseteq Matches /\ \A k \in OrderKeys : OpenOn(k) \subseteq OpenMatches
    BY DEF OpenMatches, OpenOn
  <1>4. IsFiniteSet(OpenMatches)
    BY <1>3, OrderKeysFinite, FS_Subset
  <1> QED
    BY <1>2, <1>3, <1>4, FS_Subset

\* The same sums, named.
LEMMA HistorySums ==
    HistoryExact <=> /\ owed = SumFunctionOnSet(Values, OpenMatches)
                     /\ \A k \in OrderKeys : pendingFill[k] = SumFunctionOnSet(Fills, OpenOn(k))
  BY DEF HistoryExact, Values, Fills, OpenOn

\* Advancing a match changes its stage and nothing else of any MatchState.
LEMMA AdvancedMatch ==
    ASSUME TypeOK, NEW m \in Matches, NEW stage \in MatchStage,
           matchState' = Advanced(m, stage)
    PROVE  /\ matchState'[m].stage = stage
           /\ \A n \in Matches : /\ n # m => matchState'[n] = matchState[n]
                                 /\ matchState'[n].trade_value = matchState[n].trade_value
                                 /\ matchState'[n].fill_quantity = matchState[n].fill_quantity
                                 /\ matchState'[n].outcome_id = matchState[n].outcome_id
                                 /\ SellKey(n)' = SellKey(n) /\ BuyKey(n)' = BuyKey(n)
           /\ Values' = Values /\ Fills' = Fills
  <1>1. matchState \in [Matches -> MatchState]
    BY DEF TypeOK, Matches
  <1>2. matchState' = [matchState EXCEPT ![m].stage = stage]
    BY DEF Advanced
  <1>3. /\ matchState'[m].stage = stage
        /\ \A n \in Matches : /\ n # m => matchState'[n] = matchState[n]
                              /\ matchState'[n].trade_value = matchState[n].trade_value
                              /\ matchState'[n].fill_quantity = matchState[n].fill_quantity
                              /\ matchState'[n].outcome_id = matchState[n].outcome_id
                              /\ matchState'[n].sell_order_user = matchState[n].sell_order_user
                              /\ matchState'[n].buy_order_user = matchState[n].buy_order_user
    BY <1>1, <1>2 DEF MatchState
  <1>4. Values' = Values /\ Fills' = Fills
    BY <1>3 DEF Values, Fills
  <1> QED
    BY <1>3, <1>4 DEF SellKey, BuyKey

\* validate_match opens no seller half.
LEMMA ValidatingKeepsHistory ==
    ASSUME SpaceInv, SpaceInv', HistoryExact, NEW b \in OrderKeys, NEW s \in OrderKeys,
           NEW p \in Prices, NEW q \in Quantities, ValidateMatch(b, s, p, q)
    PROVE  HistoryExact'
  <1> DEFINE m == <<OrderId(b), OrderId(s)>>
  <1>1. m \in Matches /\ TypeOK
    BY InputTypes DEF Matches, SpaceInv
  <1>2. PICK new : new.stage = "Validated" /\ matchState' = [matchState EXCEPT ![m] = new]
    BY DEF ValidateMatch
  <1>3. matchState[m].stage = "Absent" /\ UNCHANGED <<owed, pendingFill>>
    BY DEF ValidateMatch, history
  <1> HIDE DEF m
  <1>4. /\ matchState'[m].stage = "Validated"
        /\ \A n \in Matches \ {m} : matchState'[n] = matchState[n]
    BY <1>1, <1>2 DEF TypeOK, Matches
  <1>5. OpenMatches' = OpenMatches /\ m \notin OpenMatches
    BY <1>3, <1>4 DEF OpenMatches
  <1>6. \A n \in OpenMatches : Values'[n] = Values[n] /\ Fills'[n] = Fills[n] /\ SellKey(n)' = SellKey(n)
    BY <1>4, <1>5 DEF OpenMatches, Values, Fills, SellKey
  <1>7. \A k \in OrderKeys : OpenOn(k)' = OpenOn(k)
    BY <1>5, <1>6 DEF OpenOn
  <1>8. SumFunctionOnSet(Values', OpenMatches) = SumFunctionOnSet(Values, OpenMatches)
    BY <1>1, <1>6, HistoryTypes, SumSame
  <1>9. \A k \in OrderKeys : SumFunctionOnSet(Fills', OpenOn(k)) = SumFunctionOnSet(Fills, OpenOn(k))
    BY <1>1, <1>6, HistoryTypes, SumSame
  <1> QED
    BY <1>3, <1>5, <1>7, <1>8, <1>9, HistorySums DEF HistoryExact, Values, Fills, OpenOn

\* The buyer half opens the seller half of its match.
LEMMA BuyingKeepsHistory ==
    ASSUME SpaceInv, SpaceInv', HistoryExact, NEW m \in Matches, NEW t \in TokenTypes,
           ExecuteBuyerMatch(m, t)
    PROVE  HistoryExact'
  <1>1. TypeOK /\ TypeOK' /\ BookInv /\ pendingFill \in [OrderKeys -> Int]
    BY DEF SpaceInv, TypeOK
  <1>2. /\ matchState[m].stage = "Validated" /\ matchState' = Advanced(m, "BuyExecuted")
        /\ owed' = owed + matchState[m].trade_value
        /\ pendingFill' = [pendingFill EXCEPT ![SellKey(m)] = @ + matchState[m].fill_quantity]
    BY DEF ExecuteBuyerMatch
  <1>3. PICK s \in OrderKeys : s = SellKey(m)
    BY <1>1, <1>2, MatchTypes
  <1>4. /\ matchState'[m].stage = "BuyExecuted"
        /\ \A n \in Matches : n # m => matchState'[n] = matchState[n]
        /\ \A n \in Matches : SellKey(n)' = SellKey(n)
        /\ Values' = Values /\ Fills' = Fills
    BY <1>1, <1>2, AdvancedMatch DEF MatchStage
  <1>5. m \notin OpenMatches /\ OpenMatches' = OpenMatches \cup {m}
    BY <1>2, <1>4 DEF OpenMatches
  <1>6. /\ m \notin OpenOn(s) /\ OpenOn(s)' = OpenOn(s) \cup {m}
        /\ \A k \in OrderKeys \ {s} : OpenOn(k)' = OpenOn(k)
    BY <1>3, <1>4, <1>5 DEF OpenOn, OpenMatches
  <1>7. SumFunctionOnSet(Values, OpenMatches \cup {m})
          = SumFunctionOnSet(Values, OpenMatches) + Values[m]
    BY <1>1, <1>5, HistoryTypes, SumEnters
  <1>8. SumFunctionOnSet(Fills, OpenOn(s) \cup {m}) = SumFunctionOnSet(Fills, OpenOn(s)) + Fills[m]
    BY <1>1, <1>3, <1>6, HistoryTypes, SumEnters
  <1>9. Values[m] = matchState[m].trade_value /\ Fills[m] = matchState[m].fill_quantity
    BY DEF Values, Fills
  <1>10. owed' = SumFunctionOnSet(Values', OpenMatches')
    BY <1>2, <1>4, <1>5, <1>7, <1>9, HistorySums
  <1>11. \A k \in OrderKeys : pendingFill'[k] = SumFunctionOnSet(Fills', OpenOn(k)')
    <2>1. pendingFill'[s] = SumFunctionOnSet(Fills', OpenOn(s)')
      BY <1>1, <1>2, <1>3, <1>4, <1>6, <1>8, <1>9, HistorySums
    <2>2. \A k \in OrderKeys \ {s} : pendingFill'[k] = SumFunctionOnSet(Fills', OpenOn(k)')
      BY <1>1, <1>2, <1>3, <1>4, <1>6, HistorySums
    <2> QED
      BY <2>1, <2>2
  <1> QED
    BY <1>10, <1>11 DEF HistoryExact, Values, Fills, OpenOn

\* The seller half closes it.
LEMMA SellingKeepsHistory ==
    ASSUME SpaceInv, SpaceInv', HistoryExact, NEW m \in Matches, ExecuteSellerMatch(m)
    PROVE  HistoryExact'
  <1>1. TypeOK /\ TypeOK' /\ BookInv /\ pendingFill \in [OrderKeys -> Int] /\ owed \in Int
    BY DEF SpaceInv, TypeOK
  <1>2. /\ matchState[m].stage = "BuyExecuted" /\ matchState' = Advanced(m, "Executed")
        /\ owed' = owed - matchState[m].trade_value
        /\ pendingFill' = [pendingFill EXCEPT ![SellKey(m)] = @ - matchState[m].fill_quantity]
    BY DEF ExecuteSellerMatch
  <1>3. PICK s \in OrderKeys : s = SellKey(m)
    BY <1>1, <1>2, MatchTypes
  <1>4. /\ matchState'[m].stage = "Executed"
        /\ \A n \in Matches : n # m => matchState'[n] = matchState[n]
        /\ \A n \in Matches : SellKey(n)' = SellKey(n)
        /\ Values' = Values /\ Fills' = Fills
    BY <1>1, <1>2, AdvancedMatch DEF MatchStage
  <1>5. m \in OpenMatches /\ OpenMatches' = OpenMatches \ {m}
    BY <1>2, <1>4 DEF OpenMatches
  <1>6. /\ m \in OpenOn(s) /\ OpenOn(s)' = OpenOn(s) \ {m}
        /\ \A k \in OrderKeys \ {s} : OpenOn(k)' = OpenOn(k)
    BY <1>3, <1>4, <1>5 DEF OpenOn, OpenMatches
  <1>7. SumFunctionOnSet(Values, OpenMatches)
          = Values[m] + SumFunctionOnSet(Values, OpenMatches \ {m})
    BY <1>1, <1>5, HistoryTypes, SumTakesOut
  <1>8. SumFunctionOnSet(Fills, OpenOn(s)) = Fills[m] + SumFunctionOnSet(Fills, OpenOn(s) \ {m})
    BY <1>1, <1>3, <1>6, HistoryTypes, SumTakesOut
  <1>9. /\ Values[m] = matchState[m].trade_value /\ Fills[m] = matchState[m].fill_quantity
        /\ Values[m] \in Int /\ Fills[m] \in Int
    BY <1>1, HistoryTypes DEF Values, Fills
  <1>10. /\ SumFunctionOnSet(Values, OpenMatches \ {m}) \in Int
         /\ SumFunctionOnSet(Fills, OpenOn(s) \ {m}) \in Int
    BY <1>1, <1>3, HistoryTypes, SumInt, FS_RemoveElement
  <1>11. owed' = SumFunctionOnSet(Values', OpenMatches')
    BY <1>1, <1>2, <1>4, <1>5, <1>7, <1>9, <1>10, HistorySums
  <1>12. \A k \in OrderKeys : pendingFill'[k] = SumFunctionOnSet(Fills', OpenOn(k)')
    <2>1. pendingFill'[s] = SumFunctionOnSet(Fills', OpenOn(s)')
      BY <1>1, <1>2, <1>3, <1>4, <1>6, <1>8, <1>9, <1>10, HistorySums
    <2>2. \A k \in OrderKeys \ {s} : pendingFill'[k] = SumFunctionOnSet(Fills', OpenOn(k)')
      BY <1>1, <1>2, <1>3, <1>4, <1>6, HistorySums
    <2> QED
      BY <2>1, <2>2
  <1> QED
    BY <1>11, <1>12 DEF HistoryExact, Values, Fills, OpenOn

\* The other steps leave MatchStates and history alone.
LEMMA HistoryUntouched ==
    ASSUME [Next]_vars, ~MatchSteps
    PROVE  UNCHANGED <<matchState, owed, pendingFill>>
  <1>1. CASE SetSteps
    BY <1>1 DEF SetSteps, MintShares, BurnShares, book
  <1>2. CASE PlaceSteps
    <2>1. ASSUME NEW k \in OrderKeys, NEW o \in OutcomeIds, NEW p \in Prices,
                 NEW q \in Quantities,
                 \/ \E lev \in Leverages : PlaceBuyOrder(k, o, p, q, lev)
                 \/ \E t \in TokenTypes : PlaceLimitSellOrder(k, o, t, p, q)
          PROVE  UNCHANGED <<matchState, owed, pendingFill>>
      BY <2>1 DEF PlaceBuyOrder, PlaceLimitSellOrder, history
    <2>2. "YES" \in TokenTypes /\ "NO" \in TokenTypes
      BY DEF TokenTypes
    <2> QED
      BY <1>2, <2>1, <2>2 DEF PlaceSteps, PlaceYesLimitSellOrder, PlaceNoLimitSellOrder
  <1>3. CASE CancelSteps
    BY <1>3 DEF CancelSteps, CancelOrder, CancelSellOrder, CancelNoSellOrder, CancelSide, history
  <1>4. CASE CloseLeveragedSteps
    BY <1>4 DEF CloseLeveragedSteps, CloseLeveragedPosition, history
  <1>5. CASE Tick \/ UNCHANGED vars
    BY <1>5 DEF Tick, vars, book, history
  <1>6. CASE ResolveSteps
    BY <1>6 DEF ResolveSteps, ResolveOracle, FinalizeMarket, ChallengeResolution, MarkInvalid,
                book, history
  <1>7. CASE RedeemSteps
    BY <1>7 DEF RedeemSteps, RedeemShares, book, history
  <1>8. CASE SettleSteps
    <2>1. ASSUME NEW u \in Users, NEW o \in Outcomes, NEW t \in TokenTypes,
                 \/ \E type \in PositionTypes : ClosePosition(u, o, t, type)
                 \/ \E l \in Users : LiquidatePosition(l, u, o, t)
          PROVE  UNCHANGED <<matchState, owed, pendingFill>>
      BY <2>1 DEF ClosePosition, LiquidatePosition, book, history
    <2> QED
      BY <1>8, <2>1 DEF SettleSteps
  <1> QED
    BY <1>1, <1>2, <1>3, <1>4, <1>5, <1>6, <1>7, <1>8 DEF Next, LifeNext, BookNext

\* Every step keeps the history exact.
LEMMA HistoryStep ==
    ASSUME SpaceInv, HistoryExact, [Next]_vars
    PROVE  HistoryExact'
  <1>1. SpaceInv'
    BY SpaceStep
  <1>2. CASE ~MatchSteps
    <2>1. UNCHANGED <<matchState, owed, pendingFill>>
      BY <1>2, HistoryUntouched
    <2> QED
      BY <2>1 DEF HistoryExact, OpenMatches, SellKey
  <1>3. "YES" \in TokenTypes /\ "NO" \in TokenTypes
    BY DEF TokenTypes
  <1> QED
    BY <1>1, <1>2, <1>3, ValidatingKeepsHistory, BuyingKeepsHistory, SellingKeepsHistory
       DEF MatchSteps, ExecuteYesBuyerMatch, ExecuteNoBuyerMatch

\* A market opens with no match.
LEMMA OpeningHistory == Init => HistoryExact
  <1> SUFFICES ASSUME Init PROVE HistoryExact
    OBVIOUS
  <1>1. OpenMatches = {} /\ \A k \in OrderKeys : OpenOn(k) = {}
    BY DEF Init, OpenMatches, OpenOn, Matches, AbsentMatch
  <1>2. SumFunctionOnSet(Values, {}) = 0 /\ SumFunctionOnSet(Fills, {}) = 0
    BY SumUnfolds, FS_EmptySet
  <1>3. owed = 0 /\ \A k \in OrderKeys : pendingFill[k] = 0
    BY DEF Init
  <1> QED
    BY <1>1, <1>2, <1>3, HistorySums

\* What the program owes for trades whose seller half is open, and what each
\* sell order sold in them, is what the MatchState accounts say, whatever
\* interleaving of keepers.
THEOREM HistoryKept == Spec => []HistoryExact
  BY OpeningHistory, HistoryStep, SpaceInvariant, PTL DEF Spec

-----------------------------------------------------------------------------
(***************************************************************************)
(* Complete sets.                                                          *)
(***************************************************************************)
\* What an order was placed with is never changed.
LEMMA OrdersFrozen ==
    ASSUME SpaceInv, [Next]_vars, NEW k \in OrderKeys, order[k].status # "Absent"
    PROVE  /\ order'[k].status # "Absent"
           /\ order'[k].outcome_id = order[k].outcome_id
           /\ order'[k].token_type = order[k].token_type
           /\ order'[k].is_leveraged_close = order[k].is_leveraged_close
  <1> DEFINE Same(new, old) == /\ new.status # "Absent" /\ new.outcome_id = old.outcome_id
                               /\ new.token_type = old.token_type
                               /\ new.is_leveraged_close = old.is_leveraged_close
  <1>0. TypeOK /\ BookInv /\ order \in [OrderKeys -> PendingOrder]
    BY DEF SpaceInv, TypeOK
  <1>1. CASE UNCHANGED order
    BY <1>1
  <1>2. ASSUME NEW j \in OrderKeys, NEW new, order' = [order EXCEPT ![j] = new],
               order[j].status # "Absent" => Same(new, order[j])
        PROVE  Same(order'[k], order[k])
    BY <1>0, <1>2
  <1>3. CASE PlaceSteps \/ CloseLeveragedSteps
    <2>1. ASSUME NEW j \in OrderKeys, NEW o \in OutcomeIds, NEW p \in Prices,
                 NEW q \in Quantities,
                 \/ \E lev \in Leverages : PlaceBuyOrder(j, o, p, q, lev)
                 \/ \E t \in TokenTypes : PlaceLimitSellOrder(j, o, t, p, q)
          PROVE  order[j].status = "Absent" /\ \E new : order' = [order EXCEPT ![j] = new]
      BY <2>1 DEF PlaceBuyOrder, PlaceLimitSellOrder
    <2>2. ASSUME NEW j \in OrderKeys, NEW o \in Outcomes, NEW t \in TokenTypes,
                 NEW q \in Quantities, NEW p \in Prices, CloseLeveragedPosition(j, o, t, q, p)
          PROVE  order[j].status = "Absent" /\ \E new : order' = [order EXCEPT ![j] = new]
      BY <2>2 DEF CloseLeveragedPosition
    <2>3. "YES" \in TokenTypes /\ "NO" \in TokenTypes
      BY DEF TokenTypes
    <2>4. PICK j \in OrderKeys :
            order[j].status = "Absent" /\ \E new : order' = [order EXCEPT ![j] = new]
      BY <1>3, <2>1, <2>2, <2>3
         DEF PlaceSteps, PlaceYesLimitSellOrder, PlaceNoLimitSellOrder, CloseLeveragedSteps
    <2> QED
      BY <1>2, <2>4
  <1>4. CASE CancelSteps
    <2>1. PICK j \in OrderKeys : order' = [order EXCEPT ![j].status = "Cancelled"]
      BY <1>4 DEF CancelSteps, CancelOrder, CancelSellOrder, CancelNoSellOrder, CancelSide
    <2> DEFINE new == [order[j] EXCEPT !.status = "Cancelled"]
    <2>2. order' = [order EXCEPT ![j] = new]
      BY <2>1
    <2>3. Same(new, order[j])
      BY <1>0 DEF PendingOrder
    <2> HIDE DEF new
    <2> QED
      BY <1>2, <2>2, <2>3
  <1>5. CASE MatchSteps
    <2>1. ASSUME NEW m \in Matches, NEW t \in TokenTypes, ExecuteBuyerMatch(m, t)
          PROVE  Same(order'[k], order[k])
      <3> DEFINE b == BuyKey(m)
                 new == Filled(b, matchState[m].fill_quantity)
      <3>1. b \in OrderKeys /\ order' = [order EXCEPT ![b] = new]
        BY <1>0, <2>1, MatchTypes DEF ExecuteBuyerMatch
      <3>2. Same(new, order[b])
        BY <1>0, <3>1 DEF Filled, PendingOrder, StatusAfterFill
      <3> HIDE DEF b, new
      <3> QED
        BY <1>2, <3>1, <3>2
    <2>2. ASSUME NEW m \in Matches, ExecuteSellerMatch(m)
          PROVE  Same(order'[k], order[k])
      <3> DEFINE s == SellKey(m)
                 new == [Filled(s, matchState[m].fill_quantity) EXCEPT
                           !.borrowed_amount_to_repay = SatSub(@, DebtPayment(m))]
      <3>1. s \in OrderKeys /\ order' = [order EXCEPT ![s] = new]
        BY <1>0, <2>2, MatchTypes DEF ExecuteSellerMatch
      <3>2. Same(new, order[s])
        BY <1>0, <3>1 DEF Filled, PendingOrder, StatusAfterFill
      <3> HIDE DEF s, new
      <3> QED
        BY <1>2, <3>1, <3>2
    <2>3. ASSUME NEW b \in OrderKeys, NEW s \in OrderKeys, NEW p \in Prices,
                 NEW q \in Quantities, ValidateMatch(b, s, p, q)
          PROVE  UNCHANGED order
      BY <2>3 DEF ValidateMatch
    <2>4. "YES" \in TokenTypes /\ "NO" \in TokenTypes
      BY DEF TokenTypes
    <2> QED
      BY <1>1, <1>5, <2>1, <2>2, <2>3, <2>4
         DEF MatchSteps, ExecuteYesBuyerMatch, ExecuteNoBuyerMatch
  <1>6. CASE SetSteps \/ Tick \/ ResolveSteps \/ RedeemSteps \/ SettleSteps \/ UNCHANGED vars
    <2>1. SetSteps \/ Tick \/ UNCHANGED vars => UNCHANGED order
      BY DEF SetSteps, MintShares, BurnShares, Tick, vars, book
    <2>2. ResolveSteps \/ RedeemSteps => UNCHANGED order
      BY DEF ResolveSteps, ResolveOracle, FinalizeMarket, ChallengeResolution, MarkInvalid,
             RedeemSteps, RedeemShares, book
    <2>3. ASSUME NEW u \in Users, NEW o \in Outcomes, NEW t \in TokenTypes,
                 \/ \E type \in PositionTypes : ClosePosition(u, o, t, type)
                 \/ \E l \in Users : LiquidatePosition(l, u, o, t)
          PROVE  UNCHANGED order
      BY <2>3 DEF ClosePosition, LiquidatePosition, book
    <2>4. UNCHANGED order
      BY <1>6, <2>1, <2>2, <2>3 DEF SettleSteps
    <2> QED
      BY <1>1, <2>4
  <1> QED
    BY <1>3, <1>4, <1>5, <1>6 DEF Next, LifeNext, BookNext

\* A match is about the outcome that its sell order offers.
MatchOutcome ==
    \A m \in Matches : matchState[m].stage # "Absent" =>
        order[SellKey(m)].outcome_id = matchState[m].outcome_id

LEMMA MatchOutcomeStep ==
    ASSUME SpaceInv, MatchOutcome, [Next]_vars
    PROVE  MatchOutcome'
  <1>0. TypeOK /\ BookInv /\ matchState \in [Matches -> MatchState]
    BY DEF SpaceInv, TypeOK, Matches
  <1>1. \A m \in Matches : matchState[m].stage # "Absent" =>
          order'[SellKey(m)].outcome_id = matchState[m].outcome_id
    <2> SUFFICES ASSUME NEW m \in Matches, matchState[m].stage # "Absent"
                 PROVE  order'[SellKey(m)].outcome_id = matchState[m].outcome_id
      OBVIOUS
    <2>1. SellKey(m) \in OrderKeys /\ order[SellKey(m)].status # "Absent"
      BY <1>0 DEF BookInv, MatchesRefer
    <2> QED
      BY <2>1, OrdersFrozen DEF MatchOutcome
  <1>2. CASE UNCHANGED matchState
    BY <1>1, <1>2 DEF MatchOutcome, SellKey
  <1>3. ASSUME NEW b \in OrderKeys, NEW s \in OrderKeys, NEW p \in Prices,
               NEW q \in Quantities, ValidateMatch(b, s, p, q)
        PROVE  MatchOutcome'
    <2> DEFINE m == <<OrderId(b), OrderId(s)>>
    <2>1. m \in Matches
      BY InputTypes DEF Matches
    <2>2. PICK new : /\ new.outcome_id = order[b].outcome_id
                     /\ new.sell_order_user = Owner(s)
                     /\ matchState' = [matchState EXCEPT ![m] = new]
      BY <1>3 DEF ValidateMatch
    <2>3. /\ matchState'[m].outcome_id = order[b].outcome_id
          /\ matchState'[m].sell_order_user = Owner(s)
          /\ \A n \in Matches \ {m} : matchState'[n] = matchState[n]
      <3> HIDE DEF m
      <3> QED
        BY <1>0, <2>1, <2>2
    <2>4. UNCHANGED order /\ order[b].outcome_id = order[s].outcome_id
      BY <1>3 DEF ValidateMatch, Crossing
    <2>5. SellKey(m)' = s
      <3>1. s \in Users \X OrderIds
        BY SpaceAssumption
      <3> QED
        BY <2>3, <3>1 DEF SellKey, Owner, OrderId
    <2>6. \A n \in Matches \ {m} : SellKey(n)' = SellKey(n)
      BY <2>3 DEF SellKey
    <2> HIDE DEF m
    <2> QED
      BY <1>1, <2>3, <2>4, <2>5, <2>6 DEF MatchOutcome
  <1>4. ASSUME NEW m \in Matches, NEW stage \in MatchStage, matchState[m].stage # "Absent",
               matchState' = Advanced(m, stage)
        PROVE  MatchOutcome'
    <2>1. \A n \in Matches : /\ n # m => matchState'[n] = matchState[n]
                             /\ matchState'[n].outcome_id = matchState[n].outcome_id
                             /\ SellKey(n)' = SellKey(n)
      BY <1>0, <1>4, AdvancedMatch
    <2>2. \A n \in Matches : matchState'[n].stage # "Absent" => matchState[n].stage # "Absent"
      BY <1>4, <2>1
    <2> QED
      BY <1>1, <2>1, <2>2 DEF MatchOutcome
  <1>5. ASSUME NEW m \in Matches, NEW t \in TokenTypes, ExecuteBuyerMatch(m, t)
        PROVE  MatchOutcome'
    BY <1>4, <1>5 DEF ExecuteBuyerMatch, MatchStage
  <1>6. ASSUME NEW m \in Matches, ExecuteSellerMatch(m)
        PROVE  MatchOutcome'
    BY <1>4, <1>6 DEF ExecuteSellerMatch, MatchStage
  <1>7. "YES" \in TokenTypes /\ "NO" \in TokenTypes
    BY DEF TokenTypes
  <1> QED
    BY <1>2, <1>3, <1>5, <1>6, <1>7, HistoryUntouched
       DEF MatchSteps, ExecuteYesBuyerMatch, ExecuteNoBuyerMatch

LEMMA OpeningMatches == Init => MatchOutcome
  BY DEF Init, MatchOutcome, AbsentMatch, Matches

Wallets(o, t) == [u \in Users |-> wallet[<<u, o, t>>]]
Escrows(o, t) == [k \in OrderKeys |-> EscrowOf(k, o, t)]

\* The supply of a token is a natural number, no less than any wallet's part.
LEMMA SupplyTypes ==
    ASSUME TypeOK, NEW o \in Outcomes, NEW t \in TokenTypes
    PROVE  /\ InWallets(o, t) \in Nat /\ InEscrow(o, t) \in Nat /\ Supply(o, t) \in Nat
           /\ \A u \in Users : wallet[<<u, o, t>>] \in Nat /\ wallet[<<u, o, t>>] <= Supply(o, t)
  <1>1. \A u \in Users : Wallets(o, t)[u] = wallet[<<u, o, t>>] /\ wallet[<<u, o, t>>] \in Nat
    BY DEF TypeOK, Wallets
  <1>2. \A k \in OrderKeys : Escrows(o, t)[k] \in Nat
    BY DEF TypeOK, Escrows, EscrowOf
  <1>3. InWallets(o, t) = SumFunctionOnSet(Wallets(o, t), Users)
    BY DEF InWallets, Wallets
  <1>4. InEscrow(o, t) = SumFunctionOnSet(Escrows(o, t), OrderKeys)
    BY DEF InEscrow, Escrows
  <1>5. InWallets(o, t) \in Nat /\ \A u \in Users : wallet[<<u, o, t>>] <= InWallets(o, t)
    BY <1>1, <1>3, LedgerAssumption, SumNat
  <1>6. InEscrow(o, t) \in Nat
    BY <1>2, <1>4, OrderKeysFinite, SumNat
  <1> QED
    BY <1>1, <1>5, <1>6 DEF Supply

\* A change of one token account.
LEMMA WalletMoves ==
    ASSUME TypeOK, TypeOK', NEW u \in Users, NEW o \in Outcomes, NEW t \in TokenTypes,
           NEW n \in Int, wallet'[<<u, o, t>>] = wallet[<<u, o, t>>] + n,
           \A v \in Users \ {u} : wallet'[<<v, o, t>>] = wallet[<<v, o, t>>]
    PROVE  InWallets(o, t)' = InWallets(o, t) + n
  <1> DEFINE f == Wallets(o, t)
             g == [v \in Users |-> wallet'[<<v, o, t>>]]
  <1>1. /\ \A v \in Users : f[v] \in Int /\ g[v] \in Int
        /\ \A v \in Users \ {u} : g[v] = f[v]
        /\ f[u] \in Int /\ g[u] = f[u] + n
    BY DEF TypeOK, Wallets
  <1>2. InWallets(o, t) = SumFunctionOnSet(f, Users)
          /\ InWallets(o, t)' = SumFunctionOnSet(g, Users)
    BY DEF InWallets, Wallets
  <1> HIDE DEF f, g
  <1>3. SumFunctionOnSet(g, Users) = SumFunctionOnSet(f, Users) + (g[u] - f[u])
    BY <1>1, LedgerAssumption, SumChanges
  <1>4. SumFunctionOnSet(f, Users) \in Int
    BY <1>1, LedgerAssumption, SumInt
  <1> QED
    BY <1>1, <1>2, <1>3, <1>4

\* The token accounts of a token that nobody moves.
LEMMA WalletsStay ==
    ASSUME NEW o, NEW t, \A u \in Users : wallet'[<<u, o, t>>] = wallet[<<u, o, t>>]
    PROVE  InWallets(o, t)' = InWallets(o, t)
  <1>1. [u \in Users |-> wallet'[<<u, o, t>>]] = [u \in Users |-> wallet[<<u, o, t>>]]
    OBVIOUS
  <1> QED
    BY <1>1 DEF InWallets

\* A change of what one order holds in escrow.
LEMMA EscrowOfMoves ==
    ASSUME TypeOK, TypeOK', NEW k \in OrderKeys, NEW o \in Outcomes, NEW t \in TokenTypes,
           NEW n \in Int, EscrowOf(k, o, t)' = EscrowOf(k, o, t) + n,
           \A j \in OrderKeys \ {k} : EscrowOf(j, o, t)' = EscrowOf(j, o, t)
    PROVE  InEscrow(o, t)' = InEscrow(o, t) + n
  <1> DEFINE f == Escrows(o, t)
             g == Escrows(o, t)'
  <1>1. /\ \A j \in OrderKeys : f[j] \in Int /\ g[j] \in Int
        /\ \A j \in OrderKeys \ {k} : g[j] = f[j]
        /\ f[k] \in Int /\ g[k] = f[k] + n
    BY DEF TypeOK, Escrows, EscrowOf
  <1>2. InEscrow(o, t) = SumFunctionOnSet(f, OrderKeys)
          /\ InEscrow(o, t)' = SumFunctionOnSet(g, OrderKeys)
    BY DEF InEscrow, Escrows
  <1> HIDE DEF f, g
  <1>3. SumFunctionOnSet(g, OrderKeys) = SumFunctionOnSet(f, OrderKeys) + (g[k] - f[k])
    BY <1>1, OrderKeysFinite, SumChanges
  <1>4. SumFunctionOnSet(f, OrderKeys) \in Int
    BY <1>1, OrderKeysFinite, SumInt
  <1> QED
    BY <1>1, <1>2, <1>3, <1>4

LEMMA EscrowsStay ==
    ASSUME NEW o, NEW t, \A k \in OrderKeys : EscrowOf(k, o, t)' = EscrowOf(k, o, t)
    PROVE  InEscrow(o, t)' = InEscrow(o, t)
  <1>1. Escrows(o, t)' = Escrows(o, t)
    BY DEF Escrows
  <1>2. InEscrow(o, t) = SumFunctionOnSet(Escrows(o, t), OrderKeys)
          /\ InEscrow(o, t)' = SumFunctionOnSet(Escrows(o, t)', OrderKeys)
    BY DEF InEscrow, Escrows
  <1> QED
    BY <1>1, <1>2

SuppliesStay == \A o \in Outcomes, t \in TokenTypes : Supply(o, t)' = Supply(o, t)

\* Shares that move between a wallet and the escrow of an order for that token.
LEMMA Transfer ==
    ASSUME TypeOK, TypeOK', NEW u \in Users, NEW k \in OrderKeys,
           NEW o \in Outcomes, NEW t \in TokenTypes, NEW n \in Int,
           wallet' = [wallet EXCEPT ![<<u, o, t>>] = @ + n],
           shareEscrow' = [shareEscrow EXCEPT ![k] = @ - n],
           order'[k].outcome_id = o, order'[k].token_type = t,
           (order[k].outcome_id = o /\ order[k].token_type = t) \/ shareEscrow[k] = 0,
           \A j \in OrderKeys \ {k} : /\ order'[j].outcome_id = order[j].outcome_id
                                      /\ order'[j].token_type = order[j].token_type
    PROVE  SuppliesStay
  <1> SUFFICES ASSUME NEW p \in Outcomes, NEW y \in TokenTypes
               PROVE  Supply(p, y)' = Supply(p, y)
    BY DEF SuppliesStay
  <1>1. /\ wallet \in [Users \X Outcomes \X TokenTypes -> Nat]
        /\ shareEscrow \in [OrderKeys -> Nat]
    BY DEF TypeOK
  <1>2. /\ wallet'[<<u, o, t>>] = wallet[<<u, o, t>>] + n
        /\ \A v \in Users : <<v, p, y>> # <<u, o, t>> => wallet'[<<v, p, y>>] = wallet[<<v, p, y>>]
    BY <1>1
  <1>3. \A j \in OrderKeys \ {k} : EscrowOf(j, p, y)' = EscrowOf(j, p, y)
    BY <1>1 DEF EscrowOf
  <1>4. shareEscrow'[k] = shareEscrow[k] - n /\ shareEscrow[k] \in Nat
    BY <1>1
  <1>5. CASE p = o /\ y = t
    <2> DEFINE d == -n
    <2>1. d \in Int /\ EscrowOf(k, o, t)' = EscrowOf(k, o, t) + d
      BY <1>4 DEF EscrowOf
    <2> HIDE DEF d
    <2>2. InEscrow(o, t)' = InEscrow(o, t) + d
      BY <1>3, <1>5, <2>1, EscrowOfMoves
    <2>3. InWallets(o, t)' = InWallets(o, t) + n
      BY <1>2, <1>5, WalletMoves
    <2>4. InWallets(o, t) \in Nat /\ InEscrow(o, t) \in Nat
      BY SupplyTypes
    <2> QED
      BY <1>5, <2>2, <2>3, <2>4 DEF Supply, d
  <1>6. CASE ~(p = o /\ y = t)
    <2>1. EscrowOf(k, p, y)' = 0 /\ EscrowOf(k, p, y) = 0
      BY <1>6 DEF EscrowOf
    <2>2. InEscrow(p, y)' = InEscrow(p, y)
      BY <1>3, <2>1, EscrowsStay
    <2>3. InWallets(p, y)' = InWallets(p, y)
      BY <1>2, <1>6, WalletsStay
    <2> QED
      BY <2>2, <2>3 DEF Supply
  <1> QED
    BY <1>5, <1>6

\* Steps that leave shares and what they are shares of.
LEMMA NoTransfer ==
    ASSUME UNCHANGED wallet, UNCHANGED shareEscrow,
           \A k \in OrderKeys : \/ shareEscrow[k] = 0
                                \/ /\ order'[k].outcome_id = order[k].outcome_id
                                   /\ order'[k].token_type = order[k].token_type
    PROVE  SuppliesStay
  <1> SUFFICES ASSUME NEW o \in Outcomes, NEW t \in TokenTypes
               PROVE  Supply(o, t)' = Supply(o, t)
    BY DEF SuppliesStay
  <1>1. InEscrow(o, t)' = InEscrow(o, t)
    BY EscrowsStay DEF EscrowOf
  <1>2. InWallets(o, t)' = InWallets(o, t)
    BY WalletsStay
  <1> QED
    BY <1>1, <1>2 DEF Supply

\* Placing, cancelling and matching move shares between wallets and escrows.
LEMMA TradingKeepsSupplies ==
    ASSUME SpaceInv, SpaceInv', MatchOutcome, [LifeNext]_vars, ~SetSteps, ~RedeemSteps
    PROVE  SuppliesStay
  <1>0. /\ TypeOK /\ TypeOK' /\ BookInv /\ order \in [OrderKeys -> PendingOrder]
        /\ wallet \in [Users \X Outcomes \X TokenTypes -> Nat]
        /\ shareEscrow \in [OrderKeys -> Nat] /\ [Next]_vars
    BY DEF SpaceInv, TypeOK, Next
  <1>1. \A k \in OrderKeys : \/ shareEscrow[k] = 0
                             \/ /\ order'[k].outcome_id = order[k].outcome_id
                                /\ order'[k].token_type = order[k].token_type
    BY <1>0, OrdersFrozen DEF BookInv, OrdersReal
  <1>2. CASE UNCHANGED <<wallet, shareEscrow>>
    BY <1>1, <1>2, NoTransfer
  <1>3. ASSUME NEW k \in OrderKeys, NEW o \in Outcomes, NEW t \in TokenTypes, NEW n \in Nat,
               NEW new, new.outcome_id = o, new.token_type = t, order[k].status = "Absent",
               wallet' = [wallet EXCEPT ![<<Owner(k), o, t>>] = @ - n],
               shareEscrow' = [shareEscrow EXCEPT ![k] = @ + n],
               order' = [order EXCEPT ![k] = new]
        PROVE  SuppliesStay
    <2>1. shareEscrow[k] = 0 /\ Owner(k) \in Users
      BY <1>0, <1>3, InputTypes DEF BookInv, OrdersReal
    <2>2. /\ order'[k].outcome_id = o /\ order'[k].token_type = t
          /\ \A j \in OrderKeys \ {k} : order'[j] = order[j]
      BY <1>0, <1>3
    <2> DEFINE d == -n
    <2>3. d \in Int /\ wallet' = [wallet EXCEPT ![<<Owner(k), o, t>>] = @ + d]
      <3>1. wallet[<<Owner(k), o, t>>] \in Nat
        BY <1>0, <2>1, WalletHere
      <3>2. wallet[<<Owner(k), o, t>>] - n = wallet[<<Owner(k), o, t>>] + d /\ d \in Int
        BY <3>1
      <3> QED
        BY <1>3, <3>2
    <2>4. shareEscrow' = [shareEscrow EXCEPT ![k] = @ - d]
      <3>1. shareEscrow[k] + n = shareEscrow[k] - d
        BY <2>1
      <3> QED
        BY <1>3, <3>1
    <2> HIDE DEF d
    <2> QED
      BY <1>0, <2>1, <2>2, <2>3, <2>4, Transfer
  <1>4. CASE PlaceSteps
    <2>1. ASSUME NEW k \in OrderKeys, NEW o \in OutcomeIds, NEW p \in Prices,
                 NEW q \in Quantities, NEW lev \in Leverages, PlaceBuyOrder(k, o, p, q, lev)
          PROVE  SuppliesStay
      BY <1>2, <2>1 DEF PlaceBuyOrder
    <2>2. ASSUME NEW k \in OrderKeys, NEW o \in OutcomeIds, NEW p \in Prices,
                 NEW q \in Quantities, NEW t \in TokenTypes, PlaceLimitSellOrder(k, o, t, p, q)
          PROVE  SuppliesStay
      <3> DEFINE new == [NewOrder EXCEPT !.side = "Sell", !.outcome_id = o, !.token_type = t,
                           !.price = p, !.quantity = q]
      <3>1. /\ order' = [order EXCEPT ![k] = new] /\ order[k].status = "Absent"
            /\ wallet' = [wallet EXCEPT ![<<Owner(k), o, t>>] = @ - q]
            /\ shareEscrow' = [shareEscrow EXCEPT ![k] = @ + q] /\ o \in Outcomes
        BY <2>2, InputTypes DEF PlaceLimitSellOrder
      <3>2. new.outcome_id = o /\ new.token_type = t /\ q \in Nat
        BY <1>0, NewOrderType, InputTypes DEF PendingOrder
      <3> HIDE DEF new
      <3> QED
        BY <1>3, <3>1, <3>2
    <2>3. "YES" \in TokenTypes /\ "NO" \in TokenTypes
      BY DEF TokenTypes
    <2> QED
      BY <1>4, <2>1, <2>2, <2>3 DEF PlaceSteps, PlaceYesLimitSellOrder, PlaceNoLimitSellOrder
  <1>5. CASE CloseLeveragedSteps
    <2>1. PICK k \in OrderKeys, o \in Outcomes, t \in TokenTypes, q \in Quantities, p \in Prices :
            CloseLeveragedPosition(k, o, t, q, p)
      BY <1>5 DEF CloseLeveragedSteps
    <2> DEFINE pos == position[<<Owner(k), o, t, "Leveraged">>]
               shares == Lesser(q, Lesser(pos.shares, wallet[<<Owner(k), o, t>>]))
               ratio == RatioBps(shares, pos.shares)
               new == [NewOrder EXCEPT !.side = "Sell", !.outcome_id = o, !.token_type = t,
                         !.order_type = "Market", !.price = p, !.quantity = shares,
                         !.leverage = pos.leverage, !.is_leveraged_close = TRUE,
                         !.borrowed_amount_to_repay = BpsOf(pos.borrowed_amount, ratio),
                         !.collateral_to_return = BpsOf(pos.collateral, ratio)]
    <2>2. /\ order' = [order EXCEPT ![k] = new] /\ order[k].status = "Absent"
          /\ wallet' = [wallet EXCEPT ![<<Owner(k), o, t>>] = @ - shares]
          /\ shareEscrow' = [shareEscrow EXCEPT ![k] = @ + shares]
      BY <2>1 DEF CloseLeveragedPosition
    <2>3. shares \in Nat
      <3>1. "Leveraged" \in PositionTypes /\ Owner(k) \in Users /\ q \in Nat
        BY InputTypes DEF PositionTypes
      <3>2. pos \in Position /\ wallet[<<Owner(k), o, t>>] \in Nat
        BY <1>0, <3>1, PositionHere, WalletHere
      <3> QED
        BY <3>1, <3>2 DEF Position, Lesser
    <2> HIDE DEF shares, ratio
    <2>4. new.outcome_id = o /\ new.token_type = t
      BY <1>0, NewOrderType DEF PendingOrder
    <2> HIDE DEF new
    <2> QED
      BY <1>3, <2>2, <2>3, <2>4
  <1>6. CASE CancelSteps
    <2>1. ASSUME NEW k \in OrderKeys, CancelOrder(k)
          PROVE  SuppliesStay
      BY <1>2, <2>1 DEF CancelOrder
    <2>2. ASSUME NEW k \in OrderKeys, NEW t \in TokenTypes, CancelSide(k, t)
          PROVE  SuppliesStay
      <3>1. PICK o \in Outcomes, y \in TokenTypes \cup {"None"}, back \in Nat :
              o = order[k].outcome_id /\ y = order[k].token_type /\ back = ReturnedShares(k, t)
        BY <1>0 DEF ReturnedShares, PendingOrder
      <3>2. /\ wallet' = [wallet EXCEPT ![<<Owner(k), o, y>>] = @ + back]
            /\ shareEscrow' = [shareEscrow EXCEPT ![k] = @ - back]
            /\ order' = [order EXCEPT ![k].status = "Cancelled"]
        BY <2>2, <3>1 DEF CancelSide
      <3>3. \A j \in OrderKeys : /\ order'[j].outcome_id = order[j].outcome_id
                                 /\ order'[j].token_type = order[j].token_type
        BY <1>0, <3>2 DEF PendingOrder
      <3>4. CASE y = t
        <4>1. /\ wallet' = [wallet EXCEPT ![<<Owner(k), o, t>>] = @ + back]
              /\ shareEscrow' = [shareEscrow EXCEPT ![k] = @ - back]
              /\ order[k].outcome_id = o /\ order[k].token_type = t
              /\ order'[k].outcome_id = o /\ order'[k].token_type = t
          BY <3>1, <3>2, <3>3, <3>4
        <4>2. Owner(k) \in Users /\ back \in Int
          BY InputTypes
        <4> QED
          BY <1>0, <3>3, <4>1, <4>2, Transfer
      <3>5. CASE y # t
        <4>1. back = 0
          BY <3>1, <3>5 DEF ReturnedShares
        <4>2. UNCHANGED <<wallet, shareEscrow>>
          BY <1>0, <3>2, <4>1
        <4> QED
          BY <1>2, <4>2
      <3> QED
        BY <3>4, <3>5
    <2>3. "YES" \in TokenTypes /\ "NO" \in TokenTypes
      BY DEF TokenTypes
    <2> QED
      BY <1>6, <2>1, <2>2, <2>3 DEF CancelSteps, CancelSellOrder, CancelNoSellOrder
  <1>7. CASE MatchSteps
    <2>1. ASSUME NEW m \in Matches, NEW t \in TokenTypes, ExecuteBuyerMatch(m, t)
          PROVE  SuppliesStay
      <3>1. PICK b \in OrderKeys, s \in OrderKeys : b = BuyKey(m) /\ s = SellKey(m)
        BY <1>0, <2>1, MatchTypes DEF ExecuteBuyerMatch
      <3>2. PICK o, fill : /\ o = matchState[m].outcome_id /\ o = order[s].outcome_id
                           /\ fill = matchState[m].fill_quantity
        BY <2>1, <3>1 DEF MatchOutcome, ExecuteBuyerMatch
      <3>3. /\ shareEscrow' = [shareEscrow EXCEPT ![s] = @ - fill]
            /\ wallet' = [wallet EXCEPT ![<<Owner(b), o, t>>] = @ + fill]
            /\ order[s].token_type = t /\ order[s].status # "Absent"
        BY <1>0, <2>1, <3>1, <3>2
           DEF ExecuteBuyerMatch, SellerDelivers, BookInv, MatchesRefer
      <3>4. fill \in Int /\ o \in Outcomes /\ Owner(b) \in Users
        <4>1. matchState[m].stage # "Absent"
          BY <2>1 DEF ExecuteBuyerMatch
        <4>2. matchState[m] \in MatchState
          BY <1>0, <4>1, MatchTypes
        <4>3. Owner(b) \in Users
          BY InputTypes
        <4>4. matchState[m].fill_quantity \in Nat /\ matchState[m].outcome_id \in Outcomes
          BY <4>2 DEF MatchState
        <4> QED
          BY <3>2, <4>3, <4>4
      <3>5. order'[s].outcome_id = o /\ order'[s].token_type = t
        BY <1>0, <3>2, <3>3, OrdersFrozen
      <3>6. \A j \in OrderKeys : /\ order'[j].outcome_id = order[j].outcome_id
                                 /\ order'[j].token_type = order[j].token_type
        <4>1. order' = [order EXCEPT ![b] = Filled(b, fill)]
          BY <2>1, <3>1, <3>2 DEF ExecuteBuyerMatch
        <4> QED
          BY <1>0, <4>1 DEF Filled, PendingOrder
      <3> QED
        BY <1>0, <3>2, <3>3, <3>4, <3>5, <3>6, Transfer
    <2>2. ASSUME NEW m \in Matches, ExecuteSellerMatch(m)
          PROVE  SuppliesStay
      BY <1>2, <2>2 DEF ExecuteSellerMatch, escrows
    <2>3. ASSUME NEW b \in OrderKeys, NEW s \in OrderKeys, NEW p \in Prices,
                 NEW q \in Quantities, ValidateMatch(b, s, p, q)
          PROVE  SuppliesStay
      BY <1>2, <2>3 DEF ValidateMatch, tokens, escrows
    <2>4. "YES" \in TokenTypes /\ "NO" \in TokenTypes
      BY DEF TokenTypes
    <2> QED
      BY <1>7, <2>1, <2>2, <2>3, <2>4 DEF MatchSteps, ExecuteYesBuyerMatch, ExecuteNoBuyerMatch
  <1>8. CASE ResolveSteps
    BY <1>2, <1>8 DEF ResolveSteps, ResolveOracle, FinalizeMarket, ChallengeResolution,
                      MarkInvalid, tokens, escrows
  <1>9. CASE Tick \/ UNCHANGED vars
    BY <1>2, <1>9 DEF Tick, vars, tokens, escrows
  <1> QED
    BY <1>4, <1>5, <1>6, <1>7, <1>8, <1>9 DEF LifeNext, BookNext

\* What is minted, by the market's account and by the history, changes with
\* complete sets only.
LEMMA MintedStays ==
    ASSUME SpaceInv, [LifeNext]_vars, ~SetSteps
    PROVE  market'.total_minted = market.total_minted /\ UNCHANGED netMinted
  <1>0. market \in Market
    BY DEF SpaceInv, TypeOK
  <1>1. CASE PlaceSteps
    <2>1. ASSUME NEW k \in OrderKeys, NEW o \in OutcomeIds, NEW p \in Prices,
                 NEW q \in Quantities,
                 \/ \E lev \in Leverages : PlaceBuyOrder(k, o, p, q, lev)
                 \/ \E t \in TokenTypes : PlaceLimitSellOrder(k, o, t, p, q)
          PROVE  UNCHANGED <<market, netMinted>>
      BY <2>1 DEF PlaceBuyOrder, PlaceLimitSellOrder, history
    <2>2. "YES" \in TokenTypes /\ "NO" \in TokenTypes
      BY DEF TokenTypes
    <2> QED
      BY <1>1, <2>1, <2>2 DEF PlaceSteps, PlaceYesLimitSellOrder, PlaceNoLimitSellOrder
  <1>2. CASE CancelSteps
    BY <1>2 DEF CancelSteps, CancelOrder, CancelSellOrder, CancelNoSellOrder, CancelSide, history
  <1>3. CASE CloseLeveragedSteps
    BY <1>3 DEF CloseLeveragedSteps, CloseLeveragedPosition, history
  <1>4. CASE Tick \/ UNCHANGED vars
    BY <1>4 DEF Tick, vars, history
  <1>5. CASE RedeemSteps
    BY <1>5 DEF RedeemSteps, RedeemShares, history
  <1>6. CASE ResolveSteps
    BY <1>0, <1>6 DEF ResolveSteps, ResolveOracle, FinalizeMarket, ChallengeResolution,
                      MarkInvalid, history, Market
  <1>7. CASE MatchSteps
    <2>1. ASSUME NEW m \in Matches, NEW t \in TokenTypes, ExecuteBuyerMatch(m, t)
          PROVE  market'.total_minted = market.total_minted /\ UNCHANGED netMinted
      BY <1>0, <2>1 DEF ExecuteBuyerMatch, Market
    <2>2. ASSUME NEW m \in Matches, ExecuteSellerMatch(m)
          PROVE  market'.total_minted = market.total_minted /\ UNCHANGED netMinted
      BY <1>0, <2>2 DEF ExecuteSellerMatch, MarketAfterSell, Market
    <2>3. ASSUME NEW b \in OrderKeys, NEW s \in OrderKeys, NEW p \in Prices,
                 NEW q \in Quantities, ValidateMatch(b, s, p, q)
          PROVE  UNCHANGED <<market, netMinted>>
      BY <2>3 DEF ValidateMatch, history
    <2>4. "YES" \in TokenTypes /\ "NO" \in TokenTypes
      BY DEF TokenTypes
    <2> QED
      BY <1>7, <2>1, <2>2, <2>3, <2>4 DEF MatchSteps, ExecuteYesBuyerMatch, ExecuteNoBuyerMatch
  <1> QED
    BY <1>1, <1>2, <1>3, <1>4, <1>5, <1>6, <1>7 DEF LifeNext, BookNext

\* The sets of all outcomes, and the statuses in which they are whole.
YesSupplies == [o \in Outcomes |-> Supply(o, "YES")]
BeforeRedemption == market.status \in {"Active", "Resolving", "Disputed"}

LEMMA OutcomesFinite == IsFiniteSet(Outcomes)
  BY SpaceAssumption, FS_Interval DEF Outcomes

LEMMA SetsBalancedMeans ==
    SetsBalanced <=>
      (BeforeRedemption =>
         /\ \A o \in Outcomes : Supply(o, "YES") = Supply(o, "NO")
         /\ market.total_minted = QuoteScale * SumFunctionOnSet(YesSupplies, Outcomes)
         /\ market.total_minted = netMinted)
  BY DEF SetsBalanced, YesSupplies, BeforeRedemption

\* The sum over the outcomes when the supply of one changes.
LEMMA SetsSum ==
    ASSUME TypeOK, TypeOK', NEW o \in Outcomes, NEW n \in Int,
           Supply(o, "YES")' = Supply(o, "YES") + n,
           \A p \in Outcomes \ {o} : Supply(p, "YES")' = Supply(p, "YES")
    PROVE  /\ SumFunctionOnSet(YesSupplies', Outcomes) = SumFunctionOnSet(YesSupplies, Outcomes) + n
           /\ SumFunctionOnSet(YesSupplies, Outcomes) \in Nat
           /\ Supply(o, "YES") <= SumFunctionOnSet(YesSupplies, Outcomes)
  <1>1. "YES" \in TokenTypes
    BY DEF TokenTypes
  <1>2. \A p \in Outcomes : Supply(p, "YES") \in Nat
    BY <1>1, SupplyTypes
  <1>3. \A p \in Outcomes : Supply(p, "YES")' \in Int
    BY <1>2
  <1>4. /\ \A p \in Outcomes : YesSupplies[p] = Supply(p, "YES") /\ YesSupplies[p] \in Nat
        /\ \A p \in Outcomes : YesSupplies'[p] = Supply(p, "YES")'
    BY <1>2 DEF YesSupplies
  <1>5. /\ \A p \in Outcomes : YesSupplies[p] \in Int /\ YesSupplies'[p] \in Int
        /\ \A p \in Outcomes \ {o} : YesSupplies'[p] = YesSupplies[p]
        /\ YesSupplies'[o] = YesSupplies[o] + n
    BY <1>3, <1>4
  <1>6. SumFunctionOnSet(YesSupplies', Outcomes)
          = SumFunctionOnSet(YesSupplies, Outcomes) + (YesSupplies'[o] - YesSupplies[o])
    BY <1>5, OutcomesFinite, SumChanges
  <1>7. /\ SumFunctionOnSet(YesSupplies, Outcomes) \in Nat
        /\ YesSupplies[o] <= SumFunctionOnSet(YesSupplies, Outcomes)
    BY <1>4, OutcomesFinite, SumNat
  <1> QED
    BY <1>4, <1>5, <1>6, <1>7

\* Both tokens of one outcome change by the same amount.
LEMMA SetsMove ==
    ASSUME TypeOK, TypeOK', NEW u \in Users, NEW o \in Outcomes, NEW n \in Int,
           wallet' = SetsChange(u, o, n), UNCHANGED <<shareEscrow, order>>
    PROVE  /\ \A t \in TokenTypes : Supply(o, t)' = Supply(o, t) + n
           /\ \A p \in Outcomes \ {o}, t \in TokenTypes : Supply(p, t)' = Supply(p, t)
  <1>1. wallet \in [Users \X Outcomes \X TokenTypes -> Nat] /\ TokenTypes = {"YES", "NO"}
    BY DEF TypeOK, TokenTypes
  <1>2. /\ \A t \in TokenTypes : wallet'[<<u, o, t>>] = wallet[<<u, o, t>>] + n
        /\ \A v \in Users, p \in Outcomes, t \in TokenTypes :
             v # u \/ p # o => wallet'[<<v, p, t>>] = wallet[<<v, p, t>>]
    BY <1>1 DEF SetsChange
  <1>3. \A p \in Outcomes, t \in TokenTypes : InEscrow(p, t)' = InEscrow(p, t)
    BY EscrowsStay DEF EscrowOf
  <1>4. \A t \in TokenTypes : InWallets(o, t)' = InWallets(o, t) + n
    BY <1>2, WalletMoves
  <1>5. \A p \in Outcomes \ {o}, t \in TokenTypes : InWallets(p, t)' = InWallets(p, t)
    BY <1>2, WalletsStay
  <1>6. \A t \in TokenTypes : InWallets(o, t) \in Nat /\ InEscrow(o, t) \in Nat
    BY SupplyTypes
  <1> QED
    BY <1>3, <1>4, <1>5, <1>6 DEF Supply

\* Minting and burning keep the sets balanced.
LEMMA SetStepsBalance ==
    ASSUME SpaceInv, SpaceInv', SetsBalanced, SetSteps
    PROVE  SetsBalanced'
  <1>0. TypeOK /\ TypeOK' /\ market \in Market /\ netMinted \in Int
    BY DEF SpaceInv, TypeOK
  <1>1. PICK u \in Users, o \in OutcomeIds, n \in Amounts :
          MintShares(u, o, n) \/ BurnShares(u, o, n)
    BY DEF SetSteps
  <1>2. /\ o \in Outcomes /\ n \in Nat /\ BeforeRedemption /\ QuoteScale \in Nat
        /\ UNCHANGED <<shareEscrow, order>> /\ "YES" \in TokenTypes /\ "NO" \in TokenTypes
    BY <1>1, InputTypes, QuoteScaleAssumption
       DEF MintShares, BurnShares, Trading, BeforeRedemption, escrows, book, TokenTypes
  <1>3. /\ \A p \in Outcomes : Supply(p, "YES") = Supply(p, "NO")
        /\ market.total_minted = QuoteScale * SumFunctionOnSet(YesSupplies, Outcomes)
        /\ market.total_minted = netMinted
    BY <1>2, SetsBalancedMeans
  <1> DEFINE quote == n * QuoteScale
             total == SumFunctionOnSet(YesSupplies, Outcomes)
  <1>4. ASSUME NEW d \in Int, wallet' = SetsChange(u, o, d),
               market'.total_minted = market.total_minted + d * QuoteScale,
               netMinted' = netMinted + d * QuoteScale
        PROVE  SetsBalanced'
    <2>1. /\ \A t \in TokenTypes : Supply(o, t)' = Supply(o, t) + d
          /\ \A p \in Outcomes \ {o}, t \in TokenTypes : Supply(p, t)' = Supply(p, t)
      BY <1>0, <1>2, <1>4, SetsMove
    <2>2. \A p \in Outcomes : Supply(p, "YES")' = Supply(p, "NO")'
      BY <1>2, <1>3, <2>1
    <2>3. SumFunctionOnSet(YesSupplies', Outcomes) = total + d /\ total \in Nat
      BY <1>0, <1>2, <2>1, SetsSum
    <2> HIDE DEF total
    <2>4. QuoteScale * (total + d) = QuoteScale * total + d * QuoteScale
      BY <1>2, <2>3
    <2>5. SumFunctionOnSet(YesSupplies', Outcomes)
            = SumFunctionOnSet([p \in Outcomes |-> Supply(p, "YES")'], Outcomes)
      BY DEF YesSupplies
    <2> QED
      BY <1>3, <1>4, <2>2, <2>3, <2>4, <2>5 DEF SetsBalanced, total
  <1>5. CASE MintShares(u, o, n)
    <2>1. /\ wallet' = SetsChange(u, o, n) /\ netMinted' = netMinted + quote
          /\ market' = [market EXCEPT !.total_minted = @ + quote]
      BY <1>5 DEF MintShares
    <2>2. market'.total_minted = market.total_minted + quote
      <3> HIDE DEF quote
      <3> QED
        BY <1>0, <2>1 DEF Market
    <2> QED
      BY <1>2, <1>4, <2>1, <2>2
  <1>6. CASE BurnShares(u, o, n)
    <2>1. /\ wallet' = SetsChange(u, o, -n) /\ netMinted' = netMinted - quote
          /\ market' = [market EXCEPT !.total_minted = SatSub(@, quote)]
          /\ wallet[<<u, o, "YES">>] >= n
      BY <1>2, <1>6 DEF BurnShares
    <2>2. market'.total_minted = SatSub(market.total_minted, quote)
      <3> HIDE DEF quote
      <3> QED
        BY <1>0, <2>1 DEF Market
    <2>3. total \in Nat /\ n <= total
      <3>1. \A p \in Outcomes : YesSupplies[p] \in Nat /\ YesSupplies[p] = Supply(p, "YES")
        BY <1>0, <1>2, SupplyTypes DEF YesSupplies
      <3>2. total \in Nat /\ YesSupplies[o] <= total
        BY <1>2, <3>1, OutcomesFinite, SumNat
      <3>3. n <= Supply(o, "YES") /\ Supply(o, "YES") \in Nat
        BY <1>0, <1>2, <2>1, SupplyTypes
      <3> HIDE DEF total
      <3> QED
        BY <1>2, <3>1, <3>2, <3>3
    <2>4. quote <= market.total_minted /\ quote \in Nat /\ market.total_minted \in Nat
      <3> HIDE DEF total
      <3>1. n * QuoteScale <= QuoteScale * total
        BY <1>2, <2>3
      <3> QED
        BY <1>0, <1>2, <1>3, <3>1, TimesNat DEF Market, total
    <2> DEFINE d == -n
    <2>5. d \in Int /\ d * QuoteScale = -quote
      BY <1>2
    <2>6. /\ market'.total_minted = market.total_minted + d * QuoteScale
          /\ netMinted' = netMinted + d * QuoteScale
      <3> HIDE DEF quote, d
      <3> QED
        BY <1>0, <2>1, <2>2, <2>4, <2>5 DEF SatSub
    <2>7. wallet' = SetsChange(u, o, d)
      BY <2>1
    <2> HIDE DEF d
    <2> QED
      BY <1>4, <2>5, <2>6, <2>7
  <1> QED
    BY <1>1, <1>5, <1>6

\* Before redemption, status has only been before redemption.
LEMMA StatusMoves ==
    ASSUME SpaceInv, [LifeNext]_vars
    PROVE  /\ BeforeRedemption' => BeforeRedemption
           /\ market'.is_invalid # market.is_invalid => market'.status = "Invalid"
           /\ market'.status = "Finalized" /\ market.status # "Finalized" => FinalizeMarket
           /\ market.status \in {"Finalized", "Invalid"} =>
                /\ market'.status \in {market.status, "Invalid"}
                /\ market'.resolved_outcome = market.resolved_outcome
  <1>0. market \in Market
    BY DEF SpaceInv, TypeOK
  <1> DEFINE Same == /\ market'.status = market.status
                     /\ market'.resolved_outcome = market.resolved_outcome
                     /\ market'.is_invalid = market.is_invalid
  <1>1. CASE Same
    BY <1>1 DEF BeforeRedemption
  <1>2. CASE SetSteps
    <2>1. Same
      BY <1>0, <1>2 DEF SetSteps, MintShares, BurnShares, Market
    <2> QED
      BY <1>1, <2>1
  <1>3. CASE PlaceSteps
    <2>1. ASSUME NEW k \in OrderKeys, NEW o \in OutcomeIds, NEW p \in Prices,
                 NEW q \in Quantities,
                 \/ \E lev \in Leverages : PlaceBuyOrder(k, o, p, q, lev)
                 \/ \E t \in TokenTypes : PlaceLimitSellOrder(k, o, t, p, q)
          PROVE  UNCHANGED market
      BY <2>1 DEF PlaceBuyOrder, PlaceLimitSellOrder
    <2>2. "YES" \in TokenTypes /\ "NO" \in TokenTypes
      BY DEF TokenTypes
    <2>3. UNCHANGED market
      BY <1>3, <2>1, <2>2 DEF PlaceSteps, PlaceYesLimitSellOrder, PlaceNoLimitSellOrder
    <2> QED
      BY <1>1, <2>3
  <1>4. CASE CancelSteps \/ Tick \/ RedeemSteps \/ UNCHANGED vars
    <2>1. CancelSteps => UNCHANGED market
      BY DEF CancelSteps, CancelOrder, CancelSellOrder, CancelNoSellOrder, CancelSide
    <2>2. Tick \/ RedeemSteps \/ UNCHANGED vars => UNCHANGED market
      BY DEF Tick, RedeemSteps, RedeemShares, vars
    <2> QED
      BY <1>1, <1>4, <2>1, <2>2
  <1>5. CASE CloseLeveragedSteps
    <2>1. UNCHANGED market
      BY <1>5 DEF CloseLeveragedSteps, CloseLeveragedPosition
    <2> QED
      BY <1>1, <2>1
  <1>6. CASE ResolveSteps
    BY <1>0, <1>6 DEF ResolveSteps, ResolveOracle, FinalizeMarket, ChallengeResolution,
                      MarkInvalid, BeforeRedemption, Market
  <1>7. CASE MatchSteps
    <2>1. ASSUME NEW m \in Matches, NEW t \in TokenTypes, ExecuteBuyerMatch(m, t)
          PROVE  Same
      BY <1>0, <2>1 DEF ExecuteBuyerMatch, Market
    <2>2. ASSUME NEW m \in Matches, ExecuteSellerMatch(m)
          PROVE  Same
      BY <1>0, <2>2 DEF ExecuteSellerMatch, MarketAfterSell, Market
    <2>3. ASSUME NEW b \in OrderKeys, NEW s \in OrderKeys, NEW p \in Prices,
                 NEW q \in Quantities, ValidateMatch(b, s, p, q)
          PROVE  Same
      BY <2>3 DEF ValidateMatch
    <2>4. "YES" \in TokenTypes /\ "NO" \in TokenTypes
      BY DEF TokenTypes
    <2>5. Same
      BY <1>7, <2>1, <2>2, <2>3, <2>4 DEF MatchSteps, ExecuteYesBuyerMatch, ExecuteNoBuyerMatch
    <2> QED
      BY <1>1, <2>5
  <1> QED
    BY <1>2, <1>3, <1>4, <1>5, <1>6, <1>7 DEF LifeNext, BookNext

\* Every step of a market's life keeps its sets balanced until redemption.
LEMMA BalanceStep ==
    ASSUME SpaceInv, MatchOutcome, SetsBalanced, [LifeNext]_vars
    PROVE  SetsBalanced'
  <1>1. SpaceInv'
    <2>1. [Next]_vars
      BY DEF Next
    <2> QED
      BY <2>1, SpaceStep
  <1>2. CASE SetSteps
    BY <1>1, <1>2, SetStepsBalance
  <1>3. CASE RedeemSteps
    <2>1. ~BeforeRedemption
      BY <1>3 DEF RedeemSteps, RedeemShares, BeforeRedemption
    <2>2. ~BeforeRedemption'
      BY <2>1, StatusMoves
    <2> QED
      BY <2>2 DEF SetsBalanced, BeforeRedemption
  <1>4. CASE ~SetSteps /\ ~RedeemSteps
    <2>1. SuppliesStay /\ market'.total_minted = market.total_minted /\ UNCHANGED netMinted
      BY <1>1, <1>4, TradingKeepsSupplies, MintedStays
    <2>2. "YES" \in TokenTypes /\ "NO" \in TokenTypes
      BY DEF TokenTypes
    <2>3. [o \in Outcomes |-> Supply(o, "YES")'] = [o \in Outcomes |-> Supply(o, "YES")]
      BY <2>1, <2>2 DEF SuppliesStay
    <2>4. BeforeRedemption' => BeforeRedemption
      BY StatusMoves
    <2> QED
      BY <2>1, <2>2, <2>3, <2>4 DEF SetsBalanced, SuppliesStay, BeforeRedemption
  <1> QED
    BY <1>2, <1>3, <1>4

\* A market opens without shares.
LEMMA OpeningSets == Init => SetsBalanced
  <1> SUFFICES ASSUME Init PROVE SetsBalanced
    OBVIOUS
  <1>1. \A o \in Outcomes, t \in TokenTypes : Supply(o, t) = 0
    <2> SUFFICES ASSUME NEW o \in Outcomes, NEW t \in TokenTypes
                 PROVE  Supply(o, t) = 0
      OBVIOUS
    <2>1. /\ \A u \in Users : Wallets(o, t)[u] = 0
          /\ \A k \in OrderKeys : Escrows(o, t)[k] = 0
      BY DEF Init, Wallets, Escrows, EscrowOf
    <2>2. /\ InWallets(o, t) = Cardinality(Users) * 0
          /\ InEscrow(o, t) = Cardinality(OrderKeys) * 0
      <3>1. InWallets(o, t) = SumFunctionOnSet(Wallets(o, t), Users)
        BY DEF InWallets, Wallets
      <3>2. InEscrow(o, t) = SumFunctionOnSet(Escrows(o, t), OrderKeys)
        BY DEF InEscrow, Escrows
      <3>3. SumFunctionOnSet(Wallets(o, t), Users) = Cardinality(Users) * 0
        BY <2>1, LedgerAssumption, SumOfEqual
      <3>4. SumFunctionOnSet(Escrows(o, t), OrderKeys) = Cardinality(OrderKeys) * 0
        BY <2>1, OrderKeysFinite, SumOfEqual
      <3> QED
        BY <3>1, <3>2, <3>3, <3>4
    <2>3. Cardinality(Users) \in Nat /\ Cardinality(OrderKeys) \in Nat
      BY LedgerAssumption, OrderKeysFinite, FS_CardinalityType
    <2> QED
      BY <2>2, <2>3 DEF Supply
  <1>2. "YES" \in TokenTypes /\ "NO" \in TokenTypes
    BY DEF TokenTypes
  <1>3. SumFunctionOnSet(YesSupplies, Outcomes) = 0
    <2>1. \A o \in Outcomes : YesSupplies[o] = 0
      BY <1>1, <1>2 DEF YesSupplies
    <2>2. SumFunctionOnSet(YesSupplies, Outcomes) = Cardinality(Outcomes) * 0
      BY <2>1, OutcomesFinite, SumOfEqual
    <2> QED
      BY <2>2, OutcomesFinite, FS_CardinalityType
  <1>4. market.total_minted = 0 /\ netMinted = 0 /\ QuoteScale * 0 = 0
    BY QuoteScaleAssumption DEF Init, OpenMarket
  <1> QED
    BY <1>1, <1>2, <1>3, <1>4, SetsBalancedMeans

\* Through the life of a market the three invariants hold together.
LEMMA LifeInvariant == LifeSpec => [](SpaceInv /\ MatchOutcome /\ SetsBalanced)
  <1>1. Init => SpaceInv /\ MatchOutcome /\ SetsBalanced
    BY SpaceInit, OpeningMatches, OpeningSets
  <1>2. SpaceInv /\ MatchOutcome /\ SetsBalanced /\ [LifeNext]_vars
          => SpaceInv' /\ MatchOutcome' /\ SetsBalanced'
    <2>1. [LifeNext]_vars => [Next]_vars
      BY DEF Next
    <2> QED
      BY <2>1, SpaceStep, MatchOutcomeStep, BalanceStep
  <1> QED
    BY <1>1, <1>2, PTL DEF LifeSpec

\* Until redemption every outcome has as many YES as NO shares, and all sets
\* together are what Market.total_minted says, through any trading, matching,
\* cancelling and disputing.
THEOREM SetsKept == LifeSpec => []SetsBalanced
  BY LifeInvariant, PTL

-----------------------------------------------------------------------------
(***************************************************************************)
(* Redemption of a market whose users never borrowed.                      *)
(***************************************************************************)
\* Nothing was ever borrowed: no position has debt, no order closes one.
NoDebt ==
    /\ \A p \in Users \X Outcomes \X TokenTypes \X PositionTypes :
         position[p].borrowed_amount = 0
    /\ \A k \in OrderKeys : ~order[k].is_leveraged_close

\* Only a market that was marked invalid refunds, and it redeems nothing.
ResolvedOnce ==
    /\ market.is_invalid => market.status = "Invalid"
    /\ market.status = "Finalized" => market.resolved_outcome \in Outcomes

WinningSupplies == [o \in Outcomes |-> Supply(o, WinningToken(o))]

\* The inductive invariant of a market without leverage.
SpotLife ==
    /\ SpaceInv /\ MatchOutcome /\ SetsBalanced
    /\ NoLeverage /\ NoDebt /\ ResolvedOnce
    /\ BeforeRedemption => SpotBacking
    /\ RedemptionCovered

LEMMA CoveredMeans ==
    RedemptionCovered <=>
      (market.status = "Finalized" =>
         vault.market >= InitialCollateral + owed
                           + QuoteScale * SumFunctionOnSet(WinningSupplies, Outcomes))
  BY DEF RedemptionCovered, WinningSupplies

\* The winning token of every outcome, and what is left to redeem.
LEMMA WinningTypes ==
    ASSUME TypeOK
    PROVE  /\ \A o \in Outcomes : /\ WinningToken(o) \in TokenTypes
                                  /\ WinningSupplies[o] = Supply(o, WinningToken(o))
                                  /\ WinningSupplies[o] \in Nat
           /\ SumFunctionOnSet(WinningSupplies, Outcomes) \in Nat
  <1>1. \A o \in Outcomes : WinningToken(o) \in TokenTypes
    BY DEF WinningToken, TokenTypes
  <1>2. \A o \in Outcomes : /\ WinningSupplies[o] = Supply(o, WinningToken(o))
                            /\ WinningSupplies[o] \in Nat
    BY <1>1, SupplyTypes DEF WinningSupplies
  <1> QED
    BY <1>1, <1>2, OutcomesFinite, SumNat

\* A market without leverage never lends.
LEMMA NoDebtStep ==
    ASSUME SpaceInv, NoLeverage, NoDebt, [LifeNext]_vars
    PROVE  NoDebt'
  <1>0. /\ TypeOK /\ BookInv /\ order \in [OrderKeys -> PendingOrder] /\ [Next]_vars
        /\ position \in [Users \X Outcomes \X TokenTypes \X PositionTypes -> Position]
    BY DEF SpaceInv, TypeOK, Next
  <1>1. CASE UNCHANGED position /\ \A k \in OrderKeys : ~order'[k].is_leveraged_close
    BY <1>1 DEF NoDebt
  <1>2. ASSUME \A k \in OrderKeys : order[k].status = "Absent" /\ order'[k] # order[k]
                                      => ~order'[k].is_leveraged_close
        PROVE  \A k \in OrderKeys : ~order'[k].is_leveraged_close
    BY <1>0, <1>2, OrdersFrozen DEF NoDebt
  <1>3. CASE PlaceSteps
    <2>1. NewOrder \in PendingOrder /\ ~NewOrder.is_leveraged_close
      BY <1>0, NewOrderType DEF NewOrder, AbsentOrder
    <2>2. ASSUME NEW k \in OrderKeys, NEW o \in OutcomeIds, NEW p \in Prices,
                 NEW q \in Quantities, NEW lev \in Leverages, PlaceBuyOrder(k, o, p, q, lev)
          PROVE  NoDebt'
      <3> DEFINE new == [NewOrder EXCEPT !.side = "Buy", !.outcome_id = o, !.price = p,
                           !.quantity = q, !.margin = RequiredMargin(q, p, lev),
                           !.leverage = lev]
      <3>1. order' = [order EXCEPT ![k] = new] /\ UNCHANGED position
        BY <2>2 DEF PlaceBuyOrder
      <3>2. ~new.is_leveraged_close
        BY <2>1 DEF PendingOrder
      <3> HIDE DEF new
      <3> QED
        BY <1>0, <1>1, <1>2, <3>1, <3>2
    <2>3. ASSUME NEW k \in OrderKeys, NEW o \in OutcomeIds, NEW p \in Prices,
                 NEW q \in Quantities, NEW t \in TokenTypes, PlaceLimitSellOrder(k, o, t, p, q)
          PROVE  NoDebt'
      <3> DEFINE new == [NewOrder EXCEPT !.side = "Sell", !.outcome_id = o, !.token_type = t,
                           !.price = p, !.quantity = q]
      <3>1. order' = [order EXCEPT ![k] = new] /\ UNCHANGED position
        BY <2>3 DEF PlaceLimitSellOrder
      <3>2. ~new.is_leveraged_close
        BY <2>1 DEF PendingOrder
      <3> HIDE DEF new
      <3> QED
        BY <1>0, <1>1, <1>2, <3>1, <3>2
    <2>4. "YES" \in TokenTypes /\ "NO" \in TokenTypes
      BY DEF TokenTypes
    <2> QED
      BY <1>3, <2>2, <2>3, <2>4 DEF PlaceSteps, PlaceYesLimitSellOrder, PlaceNoLimitSellOrder
  <1>4. CASE CloseLeveragedSteps
    <2>1. PICK k \in OrderKeys, o \in Outcomes, t \in TokenTypes, q \in Quantities, p \in Prices :
            CloseLeveragedPosition(k, o, t, q, p)
      BY <1>4 DEF CloseLeveragedSteps
    <2>2. position[<<Owner(k), o, t, "Leveraged">>].borrowed_amount > 0
      BY <2>1 DEF CloseLeveragedPosition
    <2>3. position[<<Owner(k), o, t, "Leveraged">>].borrowed_amount = 0
      <3>1. Owner(k) \in Users /\ "Leveraged" \in PositionTypes
        BY InputTypes DEF PositionTypes
      <3> QED
        BY <3>1 DEF NoDebt
    <2> QED
      BY <2>2, <2>3
  <1>5. CASE CancelSteps
    <2>1. ASSUME NEW k \in OrderKeys,
                 CancelOrder(k) \/ \E t \in TokenTypes : CancelSide(k, t)
          PROVE  NoDebt'
      <3>1. Live(k) /\ order' = [order EXCEPT ![k].status = "Cancelled"]
        BY <2>1 DEF CancelOrder, CancelSide
      <3>2. UNCHANGED position
        BY <2>1 DEF CancelOrder, CancelSide, NoDebt
      <3> QED
        BY <1>0, <1>1, <1>2, <3>1, <3>2 DEF Live
    <2>2. "YES" \in TokenTypes /\ "NO" \in TokenTypes
      BY DEF TokenTypes
    <2> QED
      BY <1>5, <2>1, <2>2 DEF CancelSteps, CancelSellOrder, CancelNoSellOrder
  <1>6. CASE MatchSteps
    <2>1. ASSUME NEW m \in Matches, NEW t \in TokenTypes, ExecuteBuyerMatch(m, t)
          PROVE  NoDebt'
      <3>1. PICK b \in OrderKeys : b = BuyKey(m) /\ order[b].leverage <= 1
                                   /\ order[b].status # "Absent"
        BY <1>0, <2>1, MatchTypes DEF ExecuteBuyerMatch, NoLeverage, BookInv, MatchesRefer
      <3> DEFINE pos == <<Owner(b), matchState[m].outcome_id, t, PositionType(order[b].leverage)>>
                 new == PositionAfterBuy(position[pos], m)
      <3>2. position' = [position EXCEPT ![pos] = new] /\ SpotInvariants(new)
        <4>1. ~(order[b].leverage > 1)
          BY <1>0, <3>1 DEF PendingOrder
        <4> QED
          BY <2>1, <3>1, <4>1 DEF ExecuteBuyerMatch, BuyerCanSettle
      <3>3. new.borrowed_amount = 0
        BY <3>2 DEF SpotInvariants
      <3>4. order' = [order EXCEPT ![b] = Filled(b, matchState[m].fill_quantity)]
        BY <2>1, <3>1 DEF ExecuteBuyerMatch
      <3> HIDE DEF pos, new
      <3>5. \A p \in Users \X Outcomes \X TokenTypes \X PositionTypes :
              position'[p].borrowed_amount = 0
        BY <1>0, <3>2, <3>3 DEF NoDebt
      <3>6. \A k \in OrderKeys : ~order'[k].is_leveraged_close
        BY <1>0, <1>2, <3>1, <3>4
      <3> QED
        BY <3>5, <3>6 DEF NoDebt
    <2>2. ASSUME NEW m \in Matches, ExecuteSellerMatch(m)
          PROVE  NoDebt'
      <3>1. PICK s \in OrderKeys : s = SellKey(m) /\ order[s].status # "Absent"
        BY <1>0, <2>2, MatchTypes DEF ExecuteSellerMatch, BookInv, MatchesRefer
      <3>2. UNCHANGED position /\ \E new : order' = [order EXCEPT ![s] = new]
        BY <2>2, <3>1 DEF ExecuteSellerMatch
      <3> QED
        BY <1>0, <1>1, <1>2, <3>1, <3>2
    <2>3. ASSUME NEW b \in OrderKeys, NEW s \in OrderKeys, NEW p \in Prices,
                 NEW q \in Quantities, ValidateMatch(b, s, p, q)
          PROVE  UNCHANGED <<position, order>>
      BY <2>3 DEF ValidateMatch
    <2>4. "YES" \in TokenTypes /\ "NO" \in TokenTypes
      BY DEF TokenTypes
    <2> QED
      BY <1>1, <1>2, <1>6, <2>1, <2>2, <2>3, <2>4
         DEF MatchSteps, ExecuteYesBuyerMatch, ExecuteNoBuyerMatch
  <1>7. CASE SetSteps \/ Tick \/ UNCHANGED vars
    <2>1. UNCHANGED <<position, order>>
      BY <1>7 DEF SetSteps, MintShares, BurnShares, Tick, vars, book
    <2> QED
      BY <1>1, <1>2, <2>1
  <1>8. CASE ResolveSteps \/ RedeemSteps
    <2>1. UNCHANGED <<position, order>>
      BY <1>8 DEF ResolveSteps, ResolveOracle, FinalizeMarket, ChallengeResolution, MarkInvalid,
                  RedeemSteps, RedeemShares, book
    <2> QED
      BY <1>1, <1>2, <2>1
  <1> QED
    BY <1>3, <1>4, <1>5, <1>6, <1>7, <1>8 DEF LifeNext, BookNext

\* Resolving and redeeming leave the orders and what trades left open.
LEMMA AfterlifeKeeps ==
    ASSUME SpaceInv, ResolveSteps \/ RedeemSteps
    PROVE  /\ UNCHANGED <<order, owed, netMinted>>
           /\ ResolveSteps => vault'.market >= vault.market
  <1>1. UNCHANGED <<order, owed, netMinted>>
    BY DEF ResolveSteps, ResolveOracle, FinalizeMarket, ChallengeResolution, MarkInvalid,
           RedeemSteps, RedeemShares, book, history
  <1>2. vault \in Vaults /\ vault.market \in Nat
    BY DEF SpaceInv, TypeOK, Vaults
  <1>3. ASSUME NEW u \in Users, NEW b \in Bonds, ChallengeResolution(u, b)
        PROVE  vault'.market >= vault.market
    <2>1. b \in Nat /\ vault' = [vault EXCEPT !.market = @ + b]
      BY <1>3, InputTypes DEF ChallengeResolution
    <2> QED
      BY <1>2, <2>1 DEF Vaults
  <1>4. ASSUME \/ \E o \in OutcomeIds : ResolveOracle(o)
               \/ FinalizeMarket \/ MarkInvalid
        PROVE  vault'.market >= vault.market
    <2>1. UNCHANGED vault
      BY <1>4 DEF ResolveOracle, FinalizeMarket, MarkInvalid
    <2> QED
      BY <1>2, <2>1
  <1> QED
    BY <1>1, <1>3, <1>4 DEF ResolveSteps

\* Until redemption the market vault covers every set, disputes included.
LEMMA LifeBackingStep ==
    ASSUME SpaceInv, NoLeverage, BeforeRedemption => SpotBacking, [LifeNext]_vars
    PROVE  BeforeRedemption' => SpotBacking'
  <1>1. BeforeRedemption' => BeforeRedemption
    BY StatusMoves
  <1>2. CASE [BookNext]_vars
    BY <1>1, <1>2, SpotBackingStep
  <1>3. CASE ResolveSteps
    <2>1. UNCHANGED <<owed, netMinted>> /\ vault'.market >= vault.market
      BY <1>3, AfterlifeKeeps
    <2>2. /\ vault.market \in Nat /\ owed \in Int /\ netMinted \in Int
          /\ InitialCollateral \in Nat
      BY SpaceAssumption DEF SpaceInv, TypeOK, Vaults
    <2>3. vault'.market \in Nat
      <3>1. SpaceInv'
        BY <1>3, SpaceStep DEF Next, LifeNext
      <3> QED
        BY <3>1 DEF SpaceInv, TypeOK, Vaults
    <2> QED
      BY <1>1, <2>1, <2>2, <2>3 DEF SpotBacking
  <1>4. CASE RedeemSteps
    <2>1. ~BeforeRedemption
      BY <1>4 DEF RedeemSteps, RedeemShares, BeforeRedemption
    <2> QED
      BY <1>1, <2>1
  <1> QED
    BY <1>2, <1>3, <1>4 DEF LifeNext

\* Finalizing a market whose sets are balanced leaves every winning share paid
\* for: of each set one token wins.
LEMMA FinalizingCovers ==
    ASSUME SpotLife, SpaceInv', SuppliesStay, UNCHANGED <<vault, owed>>, FinalizeMarket
    PROVE  RedemptionCovered'
  <1>1. /\ BeforeRedemption /\ SpotBacking /\ TypeOK /\ TypeOK'
        /\ \A o \in Outcomes : Supply(o, "YES") = Supply(o, "NO")
        /\ netMinted = QuoteScale * SumFunctionOnSet(YesSupplies, Outcomes)
    BY SetsBalancedMeans DEF SpotLife, SpaceInv, FinalizeMarket, BeforeRedemption
  <1>2. \A o \in Outcomes : WinningSupplies'[o] = YesSupplies[o]
    <2> SUFFICES ASSUME NEW o \in Outcomes
                 PROVE  WinningSupplies'[o] = YesSupplies[o]
      OBVIOUS
    <2>1. WinningSupplies'[o] = IF o = market'.resolved_outcome THEN Supply(o, "YES")'
                                ELSE Supply(o, "NO")'
      BY DEF WinningSupplies, WinningToken
    <2>2. Supply(o, "YES")' = Supply(o, "YES") /\ Supply(o, "NO")' = Supply(o, "NO")
      BY DEF SuppliesStay, TokenTypes
    <2> QED
      BY <1>1, <2>1, <2>2 DEF YesSupplies
  <1>3. SumFunctionOnSet(WinningSupplies', Outcomes) = SumFunctionOnSet(YesSupplies, Outcomes)
    BY <1>2, OutcomesFinite, SumSame
  <1>4. vault.market >= InitialCollateral + netMinted + owed
    BY <1>1 DEF SpotBacking
  <1>5. netMinted \in Int /\ owed \in Int /\ InitialCollateral \in Nat
    BY <1>1, SpaceAssumption DEF TypeOK
  <1>6. vault'.market >= InitialCollateral + owed'
                           + QuoteScale * SumFunctionOnSet(WinningSupplies', Outcomes)
    BY <1>1, <1>3, <1>4, <1>5
  <1> QED
    BY <1>6 DEF RedemptionCovered, WinningSupplies

\* Redeeming pays a user exactly the winning shares that the user gives up.
LEMMA RedeemingCovers ==
    ASSUME SpotLife, SpaceInv', RedeemSteps
    PROVE  RedemptionCovered'
  <1>0. /\ TypeOK /\ TypeOK' /\ vault \in Vaults /\ vault.market \in Nat /\ owed \in Int
        /\ wallet \in [Users \X Outcomes \X TokenTypes -> Nat]
        /\ InitialCollateral \in Nat /\ QuoteScale \in Nat
    BY SpaceAssumption, QuoteScaleAssumption DEF SpotLife, SpaceInv, TypeOK, Vaults
  <1>1. PICK u \in Users, o \in OutcomeIds, withPositions \in BOOLEAN :
          RedeemShares(u, o, withPositions)
    BY DEF RedeemSteps
  <1>2. /\ o \in Outcomes /\ market.status = "Finalized" /\ ~market.is_invalid
        /\ UNCHANGED <<shareEscrow, order, market, owed>>
    BY <1>1, InputTypes DEF RedeemShares, SpotLife, ResolvedOnce, escrows, book, history
  <1>3. TotalBorrowed(u) = 0
    <2>1. \A p \in 0..9, t \in TokenTypes : Debt(u, p, t) = 0
      <3>1. "Leveraged" \in PositionTypes
        BY DEF PositionTypes
      <3> QED
        BY <3>1 DEF SpotLife, NoDebt, Debt
    <2>2. \A p \in 0..9 : OutcomeDebt(u, p) = 0
      BY <2>1 DEF OutcomeDebt, TokenTypes
    <2> QED
      BY <2>2 DEF TotalBorrowed
  <1>4. PICK t \in TokenTypes, n \in Nat : t = WinningToken(o) /\ n = wallet[<<u, o, t>>]
    BY <1>0, <1>2, WinningTypes
  <1>5. PayoutShares(u, o) = n
    BY <1>2, <1>4 DEF PayoutShares, WinningToken
  <1>6. n * QuoteScale \in Nat
    BY <1>0, <1>4, TimesNat
  <1> DEFINE payout == n * QuoteScale
             debt == IF withPositions THEN TotalBorrowed(u) ELSE 0
  <1>7. vault'.market = vault.market - payout
    <2>1. /\ vault' = [vault EXCEPT !.market = @ - debt - SatSub(payout, debt),
                                    !.liquidity = @ + debt]
      BY <1>1, <1>5 DEF RedeemShares
    <2>2. debt = 0
      BY <1>3
    <2> HIDE DEF debt, payout
    <2>3. payout \in Nat
      BY <1>6 DEF payout
    <2>4. SatSub(payout, debt) = payout
      BY <2>2, <2>3 DEF SatSub
    <2>5. vault'.market = vault.market - debt - SatSub(payout, debt)
      BY <1>0, <2>1 DEF Vaults
    <2> QED
      BY <1>0, <2>2, <2>3, <2>4, <2>5
  <1>8. /\ wallet'[<<u, o, t>>] = 0
        /\ \A v \in Users, p \in Outcomes, y \in TokenTypes :
             v # u \/ p # o => wallet'[<<v, p, y>>] = wallet[<<v, p, y>>]
    <2>1. wallet' = [wallet EXCEPT ![<<u, o, "YES">>] = 0, ![<<u, o, "NO">>] = 0]
      BY <1>1 DEF RedeemShares
    <2> QED
      BY <1>0, <1>2, <2>1 DEF TokenTypes
  <1>9. \A p \in Outcomes, y \in TokenTypes : InEscrow(p, y)' = InEscrow(p, y)
    BY <1>2, EscrowsStay DEF EscrowOf
  <1> DEFINE d == -n
  <1>10. InWallets(o, t)' = InWallets(o, t) + d
    <2>1. d \in Int /\ wallet'[<<u, o, t>>] = wallet[<<u, o, t>>] + d
      BY <1>4, <1>8
    <2> HIDE DEF d
    <2> QED
      BY <1>0, <1>2, <1>8, <2>1, WalletMoves
  <1>11. \A p \in Outcomes \ {o}, y \in TokenTypes : InWallets(p, y)' = InWallets(p, y)
    BY <1>8, WalletsStay
  <1>12. Supply(o, t)' = Supply(o, t) + d
    <2>1. InWallets(o, t) \in Nat /\ InEscrow(o, t) \in Nat /\ d \in Int
      BY <1>0, <1>2, SupplyTypes
    <2> HIDE DEF d
    <2> QED
      BY <1>2, <1>9, <1>10, <2>1 DEF Supply
  <1>13. \A p \in Outcomes : WinningToken(p)' = WinningToken(p)
    BY <1>2 DEF WinningToken
  <1>14. /\ \A p \in Outcomes \ {o} : WinningSupplies'[p] = WinningSupplies[p]
         /\ WinningSupplies'[o] = WinningSupplies[o] + d
    <2>1. \A p \in Outcomes \ {o} : Supply(p, WinningToken(p))' = Supply(p, WinningToken(p))
      <3> SUFFICES ASSUME NEW p \in Outcomes \ {o}
                   PROVE  Supply(p, WinningToken(p))' = Supply(p, WinningToken(p))
        OBVIOUS
      <3>1. PICK y \in TokenTypes : y = WinningToken(p)
        BY <1>0, WinningTypes
      <3>2. Supply(p, y)' = Supply(p, y)
        BY <1>9, <1>11 DEF Supply
      <3> QED
        BY <1>13, <3>1, <3>2
    <2>2. Supply(o, WinningToken(o))' = Supply(o, WinningToken(o)) + d
      <3> HIDE DEF d
      <3> QED
        BY <1>2, <1>4, <1>12, <1>13
    <2> QED
      BY <1>2, <2>1, <2>2 DEF WinningSupplies
  <1> DEFINE total == SumFunctionOnSet(WinningSupplies, Outcomes)
  <1>15. SumFunctionOnSet(WinningSupplies', Outcomes) = total + d /\ total \in Nat
    <2>1. /\ \A p \in Outcomes : WinningSupplies[p] \in Int
          /\ total \in Nat /\ d \in Int
      BY <1>0, WinningTypes
    <2>2. \A p \in Outcomes : WinningSupplies'[p] \in Int
      <3> HIDE DEF d
      <3> QED
        BY <1>2, <1>14, <2>1
    <2>3. SumFunctionOnSet(WinningSupplies', Outcomes)
            = total + (WinningSupplies'[o] - WinningSupplies[o])
      BY <1>2, <1>14, <2>1, <2>2, OutcomesFinite, SumChanges
    <2> HIDE DEF d, total
    <2> QED
      BY <1>2, <1>14, <2>1, <2>3
  <1>16. vault.market >= InitialCollateral + owed + QuoteScale * total
    BY <1>2, CoveredMeans DEF SpotLife
  <1>17. vault'.market >= InitialCollateral + owed' + QuoteScale * (total + d)
    <2> HIDE DEF total
    <2>1. QuoteScale * (total + d) = QuoteScale * total - payout
      BY <1>0, <1>15
    <2>2. QuoteScale * total \in Nat
      BY <1>0, <1>15, TimesNat
    <2> HIDE DEF payout, d
    <2>3. payout \in Nat
      BY <1>6 DEF payout
    <2> QED
      BY <1>0, <1>2, <1>7, <1>16, <2>1, <2>2, <2>3
  <1> QED
    BY <1>15, <1>17 DEF RedemptionCovered, WinningSupplies

\* Trading that is under way when the outcome is final stays covered.
LEMMA TradingCovers ==
    ASSUME SpotLife, SpaceInv', SuppliesStay, [LifeNext]_vars, ~SetSteps, ~RedeemSteps,
           market.status = "Finalized"
    PROVE  RedemptionCovered'
  <1>0. /\ TypeOK /\ TypeOK' /\ vault.market \in Nat /\ vault'.market \in Nat
        /\ owed \in Int /\ owed' \in Int /\ InitialCollateral \in Nat /\ QuoteScale \in Nat
    BY SpaceAssumption, QuoteScaleAssumption DEF SpotLife, SpaceInv, TypeOK, Vaults
  <1> DEFINE total == SumFunctionOnSet(WinningSupplies, Outcomes)
  <1>1. market'.status = "Finalized" =>
          SumFunctionOnSet(WinningSupplies', Outcomes) = total
    <2> SUFFICES ASSUME market'.status = "Finalized"
                 PROVE  \A o \in Outcomes : WinningSupplies'[o] = WinningSupplies[o]
      BY OutcomesFinite, SumSame
    <2>1. market'.resolved_outcome = market.resolved_outcome
      BY StatusMoves DEF SpotLife
    <2> SUFFICES ASSUME NEW o \in Outcomes
                 PROVE  Supply(o, WinningToken(o))' = Supply(o, WinningToken(o))
      BY DEF WinningSupplies
    <2>2. PICK y \in TokenTypes : y = WinningToken(o)
      BY <1>0, WinningTypes
    <2>3. WinningToken(o)' = y
      BY <2>1, <2>2 DEF WinningToken
    <2> QED
      BY <2>2, <2>3 DEF SuppliesStay
  <1>2. total \in Nat /\ QuoteScale * total \in Nat
    BY <1>0, WinningTypes, TimesNat
  <1> HIDE DEF total
  <1> DEFINE winning == QuoteScale * total
  <1>3. vault.market >= InitialCollateral + owed + winning
    BY CoveredMeans DEF SpotLife, total
  <1>4. winning \in Nat
    BY <1>2
  <1> HIDE DEF winning
  <1>5. ASSUME vault'.market - vault.market >= owed' - owed
        PROVE  RedemptionCovered'
    <2>1. vault'.market >= InitialCollateral + owed' + winning
      BY <1>0, <1>3, <1>4, <1>5
    <2> QED
      BY <1>1, <2>1 DEF RedemptionCovered, WinningSupplies, winning, total
  <1>6. CASE UNCHANGED <<vault, owed>>
    BY <1>0, <1>5, <1>6
  <1>7. ASSUME NEW m \in Matches, NEW t \in TokenTypes, ExecuteBuyerMatch(m, t)
        PROVE  RedemptionCovered'
    <2>1. BuyKey(m) \in OrderKeys /\ order[BuyKey(m)].side = "Buy"
      BY <1>7, MatchTypes DEF ExecuteBuyerMatch, SpotLife, SpaceInv
    <2>2. /\ matchState[m].trade_value \in Nat /\ owed' = owed + matchState[m].trade_value
          /\ vault'.market >= vault.market + matchState[m].trade_value
      BY <1>7, <2>1, BuyerMoves DEF SpotLife, NoLeverage
    <2> QED
      BY <1>0, <1>5, <2>2
  <1>8. ASSUME NEW m \in Matches, ExecuteSellerMatch(m)
        PROVE  RedemptionCovered'
    <2>1. /\ matchState[m].trade_value \in Nat /\ owed' = owed - matchState[m].trade_value
          /\ vault'.market >= vault.market - matchState[m].trade_value
      BY <1>8, SellerMoves DEF SpotLife
    <2> QED
      BY <1>0, <1>5, <2>1
  <1>9. CASE ResolveSteps
    <2>1. market \in Market
      BY <1>0 DEF TypeOK
    <2>2. MarkInvalid
      BY <1>9 DEF ResolveSteps, ResolveOracle, FinalizeMarket, ChallengeResolution
    <2>3. market'.status = "Invalid"
      BY <2>1, <2>2 DEF MarkInvalid, Market
    <2> QED
      BY <2>3 DEF RedemptionCovered
  <1>10. CASE UNCHANGED vars
    BY <1>6, <1>10 DEF vars, history
  <1>11. "YES" \in TokenTypes /\ "NO" \in TokenTypes
    BY DEF TokenTypes
  <1> QED
    BY <1>6, <1>7, <1>8, <1>9, <1>10, <1>11, VaultsUntouched
       DEF LifeNext, ExecuteYesBuyerMatch, ExecuteNoBuyerMatch

\* Every step keeps every winning share and every open trade paid for.
LEMMA CoveringStep ==
    ASSUME SpotLife, SpaceInv', [LifeNext]_vars
    PROVE  RedemptionCovered'
  <1> SUFFICES ASSUME market'.status = "Finalized" PROVE RedemptionCovered'
    BY DEF RedemptionCovered
  <1>1. CASE RedeemSteps
    BY <1>1, RedeemingCovers
  <1>2. CASE SetSteps
    <2>1. BeforeRedemption /\ ~FinalizeMarket
      BY <1>2 DEF SetSteps, MintShares, BurnShares, Trading, BeforeRedemption, FinalizeMarket
    <2> QED
      BY <2>1, StatusMoves DEF SpotLife, BeforeRedemption
  <1>3. CASE ~SetSteps /\ ~RedeemSteps
    <2>1. SuppliesStay
      BY <1>3, TradingKeepsSupplies DEF SpotLife
    <2>2. CASE market.status = "Finalized"
      BY <1>3, <2>1, <2>2, TradingCovers
    <2>3. CASE market.status # "Finalized"
      <3>1. FinalizeMarket
        BY <2>3, StatusMoves DEF SpotLife
      <3>2. UNCHANGED <<vault, owed>>
        BY <3>1 DEF FinalizeMarket, history
      <3> QED
        BY <2>1, <3>1, <3>2, FinalizingCovers
    <2> QED
      BY <2>2, <2>3
  <1> QED
    BY <1>1, <1>2, <1>3

\* The invariant of a market without leverage is inductive.
LEMMA SpotLifeStep ==
    ASSUME Leverages = {1}, SpotLife, [LifeNext]_vars
    PROVE  SpotLife'
  <1>1. SpaceInv' /\ MatchOutcome' /\ SetsBalanced'
    <2>1. [Next]_vars
      BY DEF Next
    <2> QED
      BY <2>1, SpaceStep, MatchOutcomeStep, BalanceStep DEF SpotLife
  <1>2. NoLeverage'
    <2>1. CASE [BookNext]_vars
      BY <2>1, NoLeverageStep DEF SpotLife
    <2>2. CASE ResolveSteps \/ RedeemSteps
      BY <2>2, AfterlifeKeeps DEF SpotLife, NoLeverage
    <2> QED
      BY <2>1, <2>2 DEF LifeNext
  <1>3. NoDebt'
    BY NoDebtStep DEF SpotLife
  <1>4. ResolvedOnce'
    <2>1. market \in Market /\ market' \in Market
      BY <1>1 DEF SpotLife, SpaceInv, TypeOK
    <2>2. market'.is_invalid => market'.status = "Invalid"
      <3>1. market.status = "Invalid" => market'.status = "Invalid"
        BY StatusMoves DEF SpotLife
      <3> QED
        BY <3>1, StatusMoves DEF SpotLife, ResolvedOnce
    <2>3. market'.status = "Finalized" => market'.resolved_outcome \in Outcomes
      <3>1. CASE FinalizeMarket
        <4>1. /\ market.resolved_outcome # NoOutcome
              /\ market' = [market EXCEPT !.status = "Finalized"]
          BY <3>1 DEF FinalizeMarket
        <4> QED
          BY <2>1, <4>1 DEF Market
      <3>2. CASE market.status = "Finalized"
        BY <3>2, StatusMoves DEF SpotLife, ResolvedOnce
      <3> QED
        BY <3>1, <3>2, StatusMoves DEF SpotLife
    <2> QED
      BY <2>2, <2>3 DEF ResolvedOnce
  <1>5. BeforeRedemption' => SpotBacking'
    BY LifeBackingStep DEF SpotLife
  <1>6. RedemptionCovered'
    BY <1>1, CoveringStep
  <1> QED
    BY <1>1, <1>2, <1>3, <1>4, <1>5, <1>6 DEF SpotLife

\* A market opens in it.
LEMMA OpeningSpotLife == Init => SpotLife
  <1> SUFFICES ASSUME Init PROVE SpotLife
    OBVIOUS
  <1>1. SpaceInv /\ MatchOutcome /\ SetsBalanced
    BY SpaceInit, OpeningMatches, OpeningSets
  <1>2. NoLeverage /\ SpotBacking
    BY BackingInit DEF Init, NoLeverage, AbsentOrder
  <1>3. NoDebt
    BY DEF Init, NoDebt, EmptyPosition, AbsentOrder
  <1>4. ResolvedOnce /\ RedemptionCovered
    BY DEF Init, OpenMarket, ResolvedOnce, RedemptionCovered
  <1> QED
    BY <1>1, <1>2, <1>3, <1>4 DEF SpotLife

\* In a market where nobody may borrow, once the outcome is final the market
\* vault pays every winning share and every trade whose seller half is open,
\* whatever the order in which users redeem and keepers finish, and never
\* touches the collateral it opened with.
THEOREM RedemptionKept ==
    ASSUME Leverages = {1}
    PROVE  LifeSpec => []RedemptionCovered
  <1>1. SpotLife /\ [LifeNext]_vars => SpotLife'
    BY SpotLifeStep
  <1>2. SpotLife => RedemptionCovered
    BY DEF SpotLife
  <1> QED
    BY <1>1, <1>2, OpeningSpotLife, PTL DEF LifeSpec

\* What redeem_shares asks of the vault, for every user and every outcome.
RedemptionsPaid ==
    market.status = "Finalized" =>
        \A u \in Users, o \in Outcomes :
            vault.market >= PayoutShares(u, o) * QuoteScale + TotalBorrowed(u)

\* Nobody is owed less than nothing.
LEMMA OwedNat ==
    ASSUME TypeOK, HistoryExact
    PROVE  owed \in Nat
  <1>1. \A m \in OpenMatches : Values[m] \in Nat
    BY DEF TypeOK, Values, OpenMatches, Matches, MatchState
  <1>2. SumFunctionOnSet(Values, OpenMatches) \in Nat
    BY <1>1, HistoryTypes, SumNat
  <1> QED
    BY <1>2, HistorySums

LEMMA CoveredPays ==
    ASSUME SpotLife, HistoryExact
    PROVE  RedemptionsPaid
  <1> SUFFICES ASSUME market.status = "Finalized", NEW u \in Users, NEW o \in Outcomes
               PROVE  vault.market >= PayoutShares(u, o) * QuoteScale + TotalBorrowed(u)
    BY DEF RedemptionsPaid
  <1>0. /\ TypeOK /\ vault.market \in Nat /\ owed \in Nat /\ ~market.is_invalid
        /\ InitialCollateral \in Nat /\ QuoteScale \in Nat
    BY SpaceAssumption, QuoteScaleAssumption, OwedNat
       DEF SpotLife, SpaceInv, TypeOK, Vaults, ResolvedOnce
  <1>1. TotalBorrowed(u) = 0
    <2>1. "Leveraged" \in PositionTypes
      BY DEF PositionTypes
    <2>2. \A p \in 0..9, t \in TokenTypes : Debt(u, p, t) = 0
      BY <2>1 DEF SpotLife, NoDebt, Debt
    <2>3. \A p \in 0..9 : OutcomeDebt(u, p) = 0
      BY <2>2 DEF OutcomeDebt, TokenTypes
    <2> QED
      BY <2>3 DEF TotalBorrowed
  <1>2. PICK n \in Nat : n = PayoutShares(u, o) /\ n <= WinningSupplies[o]
    <2>1. PayoutShares(u, o) = wallet[<<u, o, WinningToken(o)>>]
      BY <1>0 DEF PayoutShares, WinningToken
    <2>2. PICK t \in TokenTypes : t = WinningToken(o)
      BY <1>0, WinningTypes
    <2> QED
      BY <1>0, <2>1, <2>2, SupplyTypes DEF WinningSupplies
  <1> DEFINE total == SumFunctionOnSet(WinningSupplies, Outcomes)
  <1>3. total \in Nat /\ WinningSupplies[o] <= total /\ WinningSupplies[o] \in Nat
    BY <1>0, WinningTypes, OutcomesFinite, SumNat
  <1>4. vault.market >= InitialCollateral + owed + QuoteScale * total
    BY CoveredMeans DEF SpotLife
  <1> HIDE DEF total
  <1>5. n * QuoteScale <= QuoteScale * total /\ QuoteScale * total \in Nat /\ n * QuoteScale \in Nat
    BY <1>0, <1>2, <1>3, TimesNat
  <1> QED
    BY <1>0, <1>1, <1>2, <1>4, <1>5

\* So no redemption of such a market is ever refused for an empty vault
\* (InsufficientVaultBalance), whoever redeems first.
THEOREM NobodyIsTurnedAway ==
    ASSUME Leverages = {1}
    PROVE  LifeSpec => []RedemptionsPaid
  <1>1. SpotLife /\ HistoryExact /\ [LifeNext]_vars => SpotLife' /\ HistoryExact'
    <2>1. [LifeNext]_vars => [Next]_vars
      BY DEF Next
    <2> QED
      BY <2>1, SpotLifeStep, HistoryStep DEF SpotLife
  <1>2. Init => SpotLife /\ HistoryExact
    BY OpeningSpotLife, OpeningHistory
  <1>3. SpotLife /\ HistoryExact => RedemptionsPaid
    BY CoveredPays
  <1> QED
    BY <1>1, <1>2, <1>3, PTL DEF LifeSpec
=============================================================================
