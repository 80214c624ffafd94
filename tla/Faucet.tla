------------------------------- MODULE Faucet -------------------------------
(***************************************************************************)
(* The faucet (faucetService.ts, routes/faucet.ts, models/FaucetClaim.ts)  *)
(* for one wallet: a claim reads the table of claims, pays on the chain,   *)
(* and then writes its row.                                                *)
(***************************************************************************)
EXTENDS Naturals, Sequences

CONSTANTS
    Claims,         \* bound: how many claims are served at once
    Day,            \* 24 hours, in ticks of the clock
    MaxClock,       \* bound
    MaxPosts,       \* bound: how many claims are made
    SolBalance      \* what the faucet's wallet has, in claims of SOL

ASSUME FaucetAssumption == Day \in Nat \ {0}

VARIABLES
    clock,
    claimRows,      \* faucet_claims: [token, status, claimedAt], a sequence
    serving,        \* what each request being served has got to
    solLeft,
    posts,
    payments        \* history: what was paid, in order

faucet == <<clock, claimRows, serving, solLeft, posts, payments>>

ClaimTypes == {"usdc", "space", "sol"}

\* `known' is the payments of the token on record at the check, `paid' the one made.
Unasked == [at |-> "idle", token |-> "none", known |-> {}, paid |-> 0]

FaucetInit ==
    /\ clock = Day + 1
    /\ claimRows = <<>>
    /\ serving = [s \in Claims |-> Unasked]
    /\ solLeft = SolBalance
    /\ posts = 0
    /\ payments = <<>>

Row(token, status) == [token |-> token, status |-> status, claimedAt |-> clock]

Completed(token) ==
    {i \in DOMAIN claimRows : claimRows[i].token = token /\ claimRows[i].status = "completed"}

\* getLastClaim orders by claimedAt.  (A mutant: the other way.)
FirstClaim(token) ==
    CHOOSE i \in Completed(token) :
        \A j \in Completed(token) : claimRows[i].claimedAt <= claimRows[j].claimedAt

GetLastClaim(token) ==
    CHOOSE i \in Completed(token) :
        \A j \in Completed(token) : claimRows[i].claimedAt >= claimRows[j].claimedAt

CanClaim(token) ==
    Completed(token) = {} \/ claimRows[GetLastClaim(token)].claimedAt < clock - Day

Recorded(token) == {i \in DOMAIN payments : payments[i].token = token /\ payments[i].recorded}

-----------------------------------------------------------------------------
Step(s, at) == serving' = [serving EXCEPT ![s].at = at]
Over(s) == serving' = [serving EXCEPT ![s] = Unasked]

Check(s, token) ==
    /\ serving[s] = [Unasked EXCEPT !.at = "check", !.token = token]
    /\ IF CanClaim(token)
       THEN serving' = [serving EXCEPT ![s].at = "pay", ![s].known = Recorded(token)]
       ELSE Over(s)
    /\ UNCHANGED <<clock, claimRows, solLeft, payments, posts>>

\* The transaction lands or not; its confirmation may be missed.
Pay(s, token) ==
    /\ serving[s].at = "pay" /\ serving[s].token = token
    /\ payments' = Append(payments, [token |-> token, at |-> clock, recorded |-> FALSE,
                                     known |-> serving[s].known])
    /\ solLeft' = IF token = "sol" THEN solLeft - 1 ELSE solLeft
    /\ \E at \in {"record", "fail"} :
         serving' = [serving EXCEPT ![s].at = at, ![s].paid = Len(payments) + 1]
    /\ UNCHANGED <<clock, claimRows, posts>>

PayFails(s, token) ==
    /\ serving[s].at = "pay" /\ serving[s].token = token
    /\ Step(s, "fail")
    /\ UNCHANGED <<clock, claimRows, solLeft, payments, posts>>

Record(s, token) ==
    /\ serving[s].at = "record" /\ serving[s].token = token
    /\ \/ /\ claimRows' = Append(claimRows, Row(token, "completed"))
          /\ payments' = [payments EXCEPT ![serving[s].paid].recorded = TRUE]
          /\ Over(s)
       \/ Step(s, "fail") /\ UNCHANGED <<claimRows, payments>>
    /\ UNCHANGED <<clock, solLeft, posts>>

\* The catch block's row, which may not be written either.
RecordFailure(s, token) ==
    /\ serving[s].at = "fail" /\ serving[s].token = token
    /\ claimRows' \in {claimRows, Append(claimRows, Row(token, "failed"))}
    /\ Over(s)
    /\ UNCHANGED <<clock, solLeft, payments, posts>>

Claim(s) ==
    Check(s, "usdc") \/ Pay(s, "usdc") \/ PayFails(s, "usdc")
        \/ Record(s, "usdc") \/ RecordFailure(s, "usdc")

ClaimSpace(s) ==
    Check(s, "space") \/ Pay(s, "space") \/ PayFails(s, "space")
        \/ Record(s, "space") \/ RecordFailure(s, "space")

\* The faucet's balance is read before its transfer, which fails without it.
ClaimSol(s) ==
    \/ Check(s, "sol")
    \/ /\ serving[s].at = "pay" /\ serving[s].token = "sol" /\ solLeft = 0
       /\ Over(s)
       /\ UNCHANGED <<clock, claimRows, solLeft, payments, posts>>
    \/ solLeft > 0 /\ Pay(s, "sol")
    \/ PayFails(s, "sol") \/ Record(s, "sol") \/ RecordFailure(s, "sol")

\* The three routes.
Post(s, token) ==
    /\ serving[s] = Unasked /\ posts < MaxPosts
    /\ serving' = [serving EXCEPT ![s].at = "check", ![s].token = token]
    /\ posts' = posts + 1
    /\ UNCHANGED <<clock, claimRows, solLeft, payments>>

PostClaim(s) == Post(s, "usdc")
PostSpaceClaim(s) == Post(s, "space")
PostSolClaim(s) == Post(s, "sol")

Tick ==
    /\ clock < MaxClock
    /\ clock' = clock + 1
    /\ UNCHANGED <<claimRows, serving, solLeft, payments, posts>>

FaucetCrash ==
    /\ serving' = [s \in Claims |-> Unasked]
    /\ UNCHANGED <<clock, claimRows, solLeft, payments, posts>>

FaucetNext ==
    \/ \E s \in Claims :
         \/ PostClaim(s) \/ PostSpaceClaim(s) \/ PostSolClaim(s)
         \/ Claim(s) \/ ClaimSpace(s) \/ ClaimSol(s)
    \/ Tick
    \/ FaucetCrash

FaucetSpec == FaucetInit /\ [][FaucetNext]_faucet

-----------------------------------------------------------------------------
\* A payment on record when a claim is checked keeps that claim from being paid
\* until a day later, however claims, failed rows and crashes follow each other.
RecordKeepsADay ==
    \A i, j \in DOMAIN payments :
        i \in payments[j].known => payments[j].at > payments[i].at + Day
=============================================================================
