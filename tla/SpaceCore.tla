----------------------------- MODULE SpaceCore ------------------------------
(***************************************************************************)
(* One market of the space-core program: the instructions of all modules   *)
(* over the shared on-chain state.  Transactions are atomic and serialised *)
(* by the chain in any order.                                              *)
(***************************************************************************)
EXTENDS Shares, Positions, Matching, Resolution

CONSTANTS           \* the inputs that clients and keepers choose from
    OutcomeIds, Prices, Quantities, Leverages, Amounts, Bonds

ASSUME InputAssumption ==
    /\ OutcomeIds \subseteq Nat
    /\ Prices \cup Quantities \cup Leverages \cup Amounts \cup Bonds \subseteq Nat

Matches == OrderIds \X OrderIds

SetSteps ==
    \E u \in Users, o \in OutcomeIds, n \in Amounts :
        MintShares(u, o, n) \/ BurnShares(u, o, n)

PlaceSteps ==
    \E k \in OrderKeys, o \in OutcomeIds, p \in Prices, q \in Quantities :
        \/ \E lev \in Leverages : PlaceBuyOrder(k, o, p, q, lev)
        \/ PlaceYesLimitSellOrder(k, o, p, q)
        \/ PlaceNoLimitSellOrder(k, o, p, q)

CancelSteps ==
    \E k \in OrderKeys : CancelOrder(k) \/ CancelSellOrder(k) \/ CancelNoSellOrder(k)

MatchSteps ==
    \/ \E b, s \in OrderKeys, p \in Prices, q \in Quantities : ValidateMatch(b, s, p, q)
    \/ \E m \in Matches :
         ExecuteYesBuyerMatch(m) \/ ExecuteNoBuyerMatch(m) \/ ExecuteSellerMatch(m)

CloseLeveragedSteps ==
    \E k \in OrderKeys, o \in Outcomes, t \in TokenTypes, q \in Quantities, p \in Prices :
        CloseLeveragedPosition(k, o, t, q, p)

SettleSteps ==
    \E u \in Users, o \in Outcomes, t \in TokenTypes :
        \/ \E type \in PositionTypes : ClosePosition(u, o, t, type)
        \/ \E l \in Users : LiquidatePosition(l, u, o, t)

ResolveSteps ==
    \/ \E o \in OutcomeIds : ResolveOracle(o)
    \/ FinalizeMarket
    \/ \E u \in Users, b \in Bonds : ChallengeResolution(u, b)
    \/ MarkInvalid

RedeemSteps ==
    \E u \in Users, o \in OutcomeIds, withPositions \in BOOLEAN :
        RedeemShares(u, o, withPositions)

\* Trading on the order book, with its leverage.
BookNext == SetSteps \/ PlaceSteps \/ CancelSteps \/ MatchSteps \/ CloseLeveragedSteps \/ Tick
BookSpec == Init /\ [][BookNext]_vars

\* The whole life of a market in which positions are left through the order
\* book or by redemption, never through close_position or a liquidation.
LifeNext == BookNext \/ ResolveSteps \/ RedeemSteps
LifeSpec == Init /\ [][LifeNext]_vars

\* Everything the program can do.
Next == LifeNext \/ SettleSteps
Spec == Init /\ [][Next]_vars

-----------------------------------------------------------------------------
\* A sell order is never sold past its quantity, however many matches on it are
\* in flight: what is in escrow, sold in a trade whose seller half is open, or
\* sold never exceeds it, and is all of it while the order is untouched.
\* (execute_*_buyer_match tests the escrow, not the order.)
SellCustody ==
    \A k \in OrderKeys : order[k].side = "Sell" =>
        LET sold == pendingFill[k] + order[k].filled_quantity IN
        /\ sold <= order[k].quantity
        /\ shareEscrow[k] + sold <= order[k].quantity
        /\ order[k].status = "Open" => shareEscrow[k] + sold = order[k].quantity

\* Collateral against liabilities while the market trades: what the market and
\* margin vaults hold covers the initial collateral, every minted set and every
\* trade whose seller half is open, whatever is borrowed.
Backing == vault.market + vault.margin >= InitialCollateral + netMinted + owed

\* Without leverage the market vault alone covers it, so a seller half can
\* never fail for lack of funds (InsufficientVaultBalance), and no burn either.
SpotBacking == vault.market >= InitialCollateral + netMinted + owed

\* The escrow of a live spot buy order pays for all that it may still buy, at
\* its limit price: partial fills at any price never eat into the rest.  (A
\* match of so little that it is worth nothing is outside what the runs trade:
\* its buyer half needs no money and revives an order cancelled before it.)
LiveBuyFunded ==
    \A k \in OrderKeys :
        Live(k) /\ order[k].side = "Buy" /\ order[k].leverage = 1 =>
            orderEscrow[k] >= MarginUsed(Remaining(k), order[k].margin, order[k].quantity)
=============================================================================
