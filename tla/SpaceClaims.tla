---------------------------- MODULE SpaceClaims -----------------------------
(***************************************************************************)
(* What the documentation and the comments of the program say of it and    *)
(* the program does not do: each property here has a run that finds a      *)
(* shortest behaviour of SpaceCore that violates it.                       *)
(***************************************************************************)
EXTENDS SpaceLedger

CONSTANT Roles      \* for each order account, the fields a run fixes of its order

\* Runs that need four or five orders fix what each order is, no more.
InRole ==
    \A k \in OrderKeys : order'[k].status # "Absent" =>
        \A f \in DOMAIN Roles[k] : order'[k][f] = Roles[k][f]

ClaimSpec == Init /\ [][Next /\ InRole]_vars

\* lib.rs on close_leveraged_position: the sale maintains `proper invariants'
\* and ensures `debt is repaid from actual sale proceeds'.  The sale that
\* fills the order pays the user only when no debt is left.
CloseRepaysDebt ==
    [][\A m \in Matches :
         LET s == SellKey(m) IN
         /\ matchState[m].stage = "BuyExecuted" /\ matchState'[m].stage = "Executed"
         /\ order[s].is_leveraged_close
         /\ order'[s].status = "Filled"
         /\ usdc'[Owner(s)] > usdc[Owner(s)]
         => order'[s].borrowed_amount_to_repay = 0]_vars

\* redeem_shares: `Invalid market: full refund of all shares'.
InvalidMarketRefunds ==
    \A u \in Users, o \in OutcomeIds :
        market.is_invalid /\ wallet[<<u, o, "YES">>] > 0 => ENABLED RedeemShares(u, o, FALSE)
=============================================================================
