------------------------------- MODULE Shares -------------------------------
(***************************************************************************)
(* shares.rs: complete sets.  One quote unit in the market vault buys one  *)
(* YES and one NO share of an outcome, and one of each buys it back.       *)
(* convert_shares rejects every market of the per-outcome NO model.        *)
(***************************************************************************)
EXTENDS SpaceState

\* (A mutant: burning takes the YES tokens only.)
YesChange(u, o, amount) ==
    [wallet EXCEPT ![<<u, o, "YES">>] = @ + amount,
                   ![<<u, o, "NO">>] = IF amount < 0 THEN @ ELSE @ + amount]

\* Adds `amount' (which may be negative) to both sides of u's set of outcome o.
SetsChange(u, o, amount) ==
    [wallet EXCEPT ![<<u, o, "YES">>] = @ + amount, ![<<u, o, "NO">>] = @ + amount]

MintShares(u, outcome_id, amount) ==
    LET quote_amount == amount * QuoteScale IN
    /\ Trading
    /\ outcome_id < NumOutcomes
    /\ amount > 0
    /\ usdc[u] >= quote_amount
    /\ usdc' = [usdc EXCEPT ![u] = @ - quote_amount]
    /\ vault' = [vault EXCEPT !.market = @ + quote_amount]
    /\ wallet' = SetsChange(u, outcome_id, amount)
    /\ market' = [market EXCEPT !.total_minted = @ + quote_amount]
    /\ netMinted' = netMinted + quote_amount
    /\ UNCHANGED <<escrows, book, clock, owed, pendingFill, position>>

BurnShares(u, outcome_id, amount) ==
    LET quote_amount == amount * QuoteScale IN
    /\ Trading
    /\ outcome_id < NumOutcomes
    /\ amount > 0
    /\ \A t \in TokenTypes : wallet[<<u, outcome_id, t>>] >= amount
    /\ vault.market >= quote_amount
    /\ wallet' = SetsChange(u, outcome_id, -amount)
    /\ vault' = [vault EXCEPT !.market = @ - quote_amount]
    /\ usdc' = [usdc EXCEPT ![u] = @ + quote_amount]
    /\ market' = [market EXCEPT !.total_minted = SatSub(@, quote_amount)]
    /\ netMinted' = netMinted - quote_amount
    /\ UNCHANGED <<escrows, book, clock, owed, pendingFill, position>>
=============================================================================
