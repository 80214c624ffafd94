------------------------------ MODULE MCKeeper ------------------------------
EXTENDS Keeper

CONSTANTS alice, bob, request

TwoUsers == {alice, bob}
Keys == {<<alice, 1>>, <<bob, 2>>}
Req == {request}
TheSell == {<<bob, 2>>}

Buy(q) == [side |-> "Buy", token |-> "yes", outcome |-> 0, price |-> 5000, quantity |-> q, leverage |-> 1]
Sell(q) == [side |-> "Sell", token |-> "yes", outcome |-> 0, price |-> 5000, quantity |-> q, leverage |-> 1]
Plan == [k \in Keys |-> IF k[1] = alice THEN Buy(4) ELSE Sell(2)]
EvenPlan == [k \in Keys |-> IF k[1] = alice THEN Buy(2) ELSE Sell(2)]
=============================================================================
