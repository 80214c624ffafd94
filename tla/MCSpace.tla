------------------------------ MODULE MCSpace -------------------------------
(***************************************************************************)
(* The users and order accounts of the runs of the program.                *)
(***************************************************************************)
EXTENDS SpaceLedger

CONSTANTS alice, bob

TwoUsers == {alice, bob}

TwoOrders == {<<alice, 1>>, <<bob, 2>>}

\* Two orders of bob overlap on one of alice.
ThreeOrders == {<<alice, 1>>, <<bob, 2>>, <<bob, 3>>}

\* A leveraged buyer has an order account left to close its position with.
FourOrders == {<<alice, 1>>, <<bob, 2>>, <<alice, 3>>, <<bob, 4>>}
=============================================================================
