---------------------------- MODULE SpaceLedger -----------------------------
(***************************************************************************)
(* Properties of SpaceCore that add up accounts.                           *)
(***************************************************************************)
EXTENDS SpaceCore, Functions

\* Only finitely many wallets and order accounts exist.
ASSUME LedgerAssumption == IsFiniteSet(Users) /\ IsFiniteSet(OrderIds)

\* The outstanding supply of a token, in wallets and in escrow.
InWallets(o, t) == SumFunctionOnSet([u \in Users |-> wallet[<<u, o, t>>]], Users)

EscrowOf(k, o, t) ==
    IF order[k].outcome_id = o /\ order[k].token_type = t THEN shareEscrow[k] ELSE 0

InEscrow(o, t) == SumFunctionOnSet([k \in OrderKeys |-> EscrowOf(k, o, t)], OrderKeys)

Supply(o, t) == InWallets(o, t) + InEscrow(o, t)

TotalUsdc ==
    SumFunctionOnSet(usdc, Users) + SumFunctionOnSet(orderEscrow, OrderKeys)
      + vault.market + vault.margin + vault.liquidity + vault.insurance

\* No instruction creates or loses a quote unit: what wallets, order escrows
\* and vaults hold is what they held when the market opened.
UsdcConserved ==
    TotalUsdc = Cardinality(Users) * InitialUsdc + InitialCollateral + InitialLiquidity

\* Until redemption starts every outcome has as many YES as NO shares, and all
\* sets together are what Market.total_minted says, which saturates but is
\* never wrong: no order, match or cancellation creates or loses a share.
SetsBalanced ==
    market.status \in {"Active", "Resolving", "Disputed"} =>
        /\ \A o \in Outcomes : Supply(o, "YES") = Supply(o, "NO")
        /\ market.total_minted =
             QuoteScale * SumFunctionOnSet([o \in Outcomes |-> Supply(o, "YES")], Outcomes)
        /\ market.total_minted = netMinted

\* The token of an outcome that is redeemed once the market is resolved.
WinningToken(o) == IF o = market.resolved_outcome THEN "YES" ELSE "NO"

\* Once the outcome is final the market vault can redeem every winning share,
\* in a wallet or in escrow, and finish every trade whose seller half is open,
\* in whatever order users and keepers come, without touching the collateral
\* the market opened with.
RedemptionCovered ==
    market.status = "Finalized" =>
        vault.market >=
            InitialCollateral + owed + QuoteScale *
                SumFunctionOnSet([o \in Outcomes |-> Supply(o, WinningToken(o))], Outcomes)

OpenMatches == {m \in Matches : matchState[m].stage = "BuyExecuted"}

\* The history variables say what the MatchState accounts say.
HistoryExact ==
    /\ owed = SumFunctionOnSet([m \in Matches |-> matchState[m].trade_value], OpenMatches)
    /\ \A k \in OrderKeys :
         pendingFill[k] = SumFunctionOnSet([m \in Matches |-> matchState[m].fill_quantity],
                                           {m \in OpenMatches : SellKey(m) = k})
=============================================================================
