--------------------------- MODULE MCSpaceClaims ----------------------------
(***************************************************************************)
(* The order accounts of the runs that refute a claim.  Every quantity is  *)
(* a multiple of 1000, so no rounding takes part in a violation.           *)
(***************************************************************************)
EXTENDS SpaceClaims, TLC

CONSTANTS alice, bob

TwoUsers == {alice, bob}

SpotBuy == [side |-> "Buy", leverage |-> 1]
SpotSell == [side |-> "Sell", is_leveraged_close |-> FALSE]
SellYes(shares) == [side |-> "Sell", token_type |-> "YES", quantity |-> shares]

\* Alice buys, bob sells.
OneEach == {<<alice, 1>>, <<bob, 2>>}
SpotPair == <<alice, 1>> :> SpotBuy @@ <<bob, 2>> :> SpotSell

\* Alice opens a leveraged position with order 1 and closes it with order 3,
\* which bob buys in two halves with orders 4 and 5.
CloseOrders == {<<alice, 1>>, <<bob, 2>>, <<alice, 3>>, <<bob, 4>>, <<bob, 5>>}
CloseRoles ==
    <<alice, 1>> :> [side |-> "Buy", leverage |-> 2, quantity |-> 10000]
      @@ <<bob, 2>> :> SellYes(10000) @@ <<alice, 3>> :> SellYes(10000)
      @@ <<bob, 4>> :> [side |-> "Buy", leverage |-> 1, quantity |-> 5000]
      @@ <<bob, 5>> :> [side |-> "Buy", leverage |-> 1, quantity |-> 5000]
=============================================================================
