----------------------------- MODULE Settlement -----------------------------
(***************************************************************************)
(* What the order keeper promises about each match, whatever processes,    *)
(* retries, failures and crashes it takes: it goes through its stages in   *)
(* order and once, and the backend's tables learn of it at most once, not  *)
(* before both halves are on the chain.                                    *)
(***************************************************************************)
EXTENDS Naturals

CONSTANT Pairs

VARIABLES
    stage,      \* of each match
    records     \* how often its fill was written to the tables

Init ==
    /\ stage = [m \in Pairs |-> "Absent"]
    /\ records = [m \in Pairs |-> 0]

Advance(m, from, to) ==
    /\ stage[m] = from
    /\ stage' = [stage EXCEPT ![m] = to]
    /\ UNCHANGED records

Record(m) ==
    /\ stage[m] = "Executed"
    /\ records[m] = 0
    /\ records' = [records EXCEPT ![m] = 1]
    /\ UNCHANGED stage

Next ==
    \E m \in Pairs :
        \/ Advance(m, "Absent", "Validated")
        \/ Advance(m, "Validated", "BuyExecuted")
        \/ Advance(m, "BuyExecuted", "Executed")
        \/ Record(m)

Spec == Init /\ [][Next]_<<stage, records>>
=============================================================================
