----------------------------- MODULE Resolution -----------------------------
(***************************************************************************)
(* resolution.rs: the life of a market after trading, and redemption.  The *)
(* resolver is the admin, the creator or an approved oracle; who resolves  *)
(* changes nothing else.  The market's resolution_type is Oracle.          *)
(***************************************************************************)
EXTENDS SpaceState

ResolveOracle(winning_outcome_id) ==
    /\ market.status = "Active"
    /\ market.resolved_outcome = NoOutcome
    /\ winning_outcome_id < NumOutcomes
    /\ market' = [market EXCEPT !.resolved_outcome = winning_outcome_id,
                                !.status = "Resolving", !.resolve_slot = slot]
    /\ UNCHANGED <<tokens, escrows, book, clock, history, vault, position>>

ChallengePeriodOver == slot > market.resolve_slot + ChallengePeriod

FinalizeMarket ==
    /\ market.status \in {"Resolving", "Disputed"}
    /\ market.resolved_outcome # NoOutcome
    /\ ChallengePeriodOver
    /\ market' = [market EXCEPT !.status = "Finalized"]
    /\ UNCHANGED <<tokens, escrows, book, clock, history, vault, position>>

ChallengeResolution(u, bond_amount) ==
    /\ market.status = "Resolving"
    /\ market.resolved_outcome # NoOutcome
    /\ ~market.challenged
    /\ ~ChallengePeriodOver
    /\ usdc[u] >= bond_amount
    /\ usdc' = [usdc EXCEPT ![u] = @ - bond_amount]
    /\ vault' = [vault EXCEPT !.market = @ + bond_amount]
    /\ market' = [market EXCEPT !.status = "Disputed", !.challenged = TRUE]
    /\ UNCHANGED <<wallet, escrows, book, clock, history, position>>

MarkInvalid ==
    /\ market' = [market EXCEPT !.status = "Invalid", !.is_invalid = TRUE]
    /\ UNCHANGED <<tokens, escrows, book, clock, history, vault, position>>

(***************************************************************************)
(* redeem_shares.  The user redeems both tokens of one outcome at once and *)
(* the debts of the user's positions are taken from the market vault.      *)
(***************************************************************************)
\* (A mutant: every share pays, as in a refund.)
PayoutOfAll(u, o) == wallet[<<u, o, "YES">>] + wallet[<<u, o, "NO">>]

PayoutShares(u, o) ==
    IF market.is_invalid THEN wallet[<<u, o, "YES">>] + wallet[<<u, o, "NO">>]
    ELSE IF o = market.resolved_outcome THEN wallet[<<u, o, "YES">>]
    ELSE wallet[<<u, o, "NO">>]

\* The debts of the user's positions that have shares, over the at most ten
\* outcomes of a market.  The client passes the position accounts with the
\* first redemption only; without them there is no debt to repay.
Debt(u, o, t) ==
    LET pos == position[<<u, o, t, "Leveraged">>]
    IN  IF o \in Outcomes /\ pos.shares > 0 THEN pos.borrowed_amount ELSE 0

OutcomeDebt(u, o) == Debt(u, o, "YES") + Debt(u, o, "NO")

TotalBorrowed(u) ==
    OutcomeDebt(u, 0) + OutcomeDebt(u, 1) + OutcomeDebt(u, 2) + OutcomeDebt(u, 3)
      + OutcomeDebt(u, 4) + OutcomeDebt(u, 5) + OutcomeDebt(u, 6) + OutcomeDebt(u, 7)
      + OutcomeDebt(u, 8) + OutcomeDebt(u, 9)

RedeemShares(u, outcome_id, withPositions) ==
    LET shares == PayoutShares(u, outcome_id)
        payout == shares * QuoteScale
        debt == IF withPositions THEN TotalBorrowed(u) ELSE 0
        user_payout == SatSub(payout, debt)
    IN
    /\ market.status = "Finalized"
    /\ market.resolved_outcome # NoOutcome
    /\ outcome_id < NumOutcomes
    /\ shares > 0 \/ \A t \in TokenTypes : wallet[<<u, outcome_id, t>>] = 0
    /\ vault.market >= payout + debt
    /\ vault' = [vault EXCEPT !.market = @ - debt - user_payout, !.liquidity = @ + debt]
    /\ usdc' = [usdc EXCEPT ![u] = @ + user_payout]
    /\ wallet' = [wallet EXCEPT ![<<u, outcome_id, "YES">>] = 0, ![<<u, outcome_id, "NO">>] = 0]
    /\ UNCHANGED <<escrows, book, clock, history, market, position>>
=============================================================================
