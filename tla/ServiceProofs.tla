---------------------------- MODULE ServiceProofs ----------------------------
(***************************************************************************)
(* What the services of the backend keep, for any number of requests,      *)
(* wallets, markets, sockets and failures: the beta gate (its codes and    *)
(* its counters), the auto-markets, comments, referrals, the faucet,       *)
(* competitions and the WebSocket server, each with an inductive invariant *)
(* of its own.                                                             *)
(***************************************************************************)
EXTENDS BetaGate, Faucet, Points, Comments, Competitions,
        AutoMarkets, Realtime, FiniteSetTheorems, SequenceTheorems, WellFoundedInduction, TLAPS

-----------------------------------------------------------------------------
(***************************************************************************)
(* The beta gate.  A request that has run the script holds the code that   *)
(* its wallet redeemed, and a redeemed code does not expire.               *)
(***************************************************************************)
Counting == {"ip", "ip window", "subject", "subject window"}
Redeeming == {"burn", "script", "issue"}

\* What a request holds, by where it is.
RequestHolds(r) ==
    /\ DOMAIN r = {"at", "call", "subject", "nonce"}
    /\ r.at \in Counting =>
         \/ r.call = "verify" /\ r.subject \in Codes
         \/ r.call = "redeem" /\ r.nonce \in Nonces
    /\ r.at = "verify" => r.subject \in Codes
    /\ r.at \in Redeeming => r.call \in Codes
    /\ r.at = "issue" => code[r.call].status = "redeemed" /\ code[r.call].wallet = r.subject

GateInv ==
    /\ DOMAIN code = Codes
    /\ \A c \in Codes : /\ DOMAIN code[c] = {"status", "wallet", "expires"}
                        /\ code[c].status = "redeemed" => ~code[c].expires
    /\ DOMAIN request = Slots
    /\ \A s \in Slots : RequestHolds(request[s])
    /\ \A t \in token : t.code \in Codes
    /\ TokenNamesRedeemer

\* A request keeps what it holds while the codes that were redeemed stay so.
LEMMA RequestsKeep ==
    ASSUME GateInv, UNCHANGED request, DOMAIN code' = Codes,
           \A c \in Codes : code[c].status = "redeemed" => code'[c] = code[c]
    PROVE  \A s \in Slots : RequestHolds(request[s])'
  BY DEF GateInv, RequestHolds, Redeeming, Counting

\* So does every other request while one goes on.
LEMMA OneRequestGoesOn ==
    ASSUME GateInv, NEW s \in Slots, DOMAIN code' = Codes,
           \A c \in Codes : code[c].status = "redeemed" => code'[c] = code[c],
           DOMAIN request' = Slots, \A t \in Slots \ {s} : request'[t] = request[t],
           RequestHolds(request[s])'
    PROVE  \A t \in Slots : RequestHolds(request[t])'
  <1> SUFFICES ASSUME NEW t \in Slots \ {s}
               PROVE  RequestHolds(request[t])'
    OBVIOUS
  <1>1. RequestHolds(request[t]) /\ request'[t] = request[t]
    BY DEF GateInv
  <1> QED
    BY <1>1 DEF RequestHolds, Redeeming, Counting

\* A request that starts, or has ended, holds nothing.
LEMMA NoRequestHolds == RequestHolds(NoRequest) /\ RequestHolds(NoRequest)'
  BY DEF RequestHolds, NoRequest, Counting, Redeeming

\* Every step of the gate keeps the invariant.
LEMMA GateStep ==
    ASSUME GateInv, [GateNext]_gate
    PROVE  GateInv'
  <1>1. CASE UNCHANGED gate
    BY <1>1, RequestsKeep DEF gate, GateInv, TokenNamesRedeemer
  <1>2. ASSUME NEW c \in Codes, SeedCode(c)
        PROVE  GateInv'
    <2>1. /\ DOMAIN code' = Codes /\ DOMAIN code'[c] = {"status", "wallet", "expires"}
          /\ code'[c].status = "valid" /\ code[c].status = "absent"
          /\ \A d \in Codes \ {c} : code'[d] = code[d]
      BY <1>2 DEF SeedCode, GateInv, Unseeded
    <2>2. UNCHANGED <<request, token>>
      BY <1>2 DEF SeedCode
    <2> QED
      BY <2>1, <2>2, RequestsKeep DEF GateInv, TokenNamesRedeemer
  <1>3. CASE Expire
    <2>1. UNCHANGED request /\ token' \subseteq token
      BY <1>3 DEF Expire
    <2>2. /\ DOMAIN code' = Codes
          /\ \A c \in Codes : /\ code[c].status = "redeemed" => code'[c] = code[c]
                              /\ DOMAIN code'[c] = {"status", "wallet", "expires"}
                              /\ code'[c].status = "redeemed" => ~code'[c].expires
      BY <1>3 DEF Expire, GateInv, Unseeded
    <2> QED
      BY <2>1, <2>2, RequestsKeep DEF GateInv, TokenNamesRedeemer
  <1>4. CASE GateCrash
    <2>1. request' = [s \in Slots |-> NoRequest] /\ UNCHANGED <<code, token>>
      BY <1>4 DEF GateCrash
    <2> QED
      BY <2>1, NoRequestHolds DEF GateInv, TokenNamesRedeemer
  <1>5. ASSUME NEW s \in Slots,
               \/ \E c \in Codes : AskVerify(s, c)
               \/ \E w \in Wallets, n \in Nonces : AskRedeem(s, w, n)
               \/ Count(s) \/ Window(s) \/ Unlimited(s) \/ Verify(s)
               \/ ReadChallenge(s) \/ Burn(s)
        PROVE  GateInv'
    <2>1. UNCHANGED <<code, token>>
      BY <1>5 DEF AskVerify, AskRedeem, Count, Window, Unlimited, Verify, ReadChallenge, Burn
    <2>2. DOMAIN request' = Slots /\ \A t \in Slots \ {s} : request'[t] = request[t]
      BY <1>5 DEF AskVerify, AskRedeem, Count, Admitted, Window, Unlimited, Verify, ReadChallenge,
                  Burn, Goto, Finish, GateInv
    <2>3. RequestHolds(request[s])'
      <3>0. RequestHolds(request[s])
        BY DEF GateInv
      <3>1. CASE \E c \in Codes : AskVerify(s, c)
        <4>1. PICK c \in Codes : AskVerify(s, c)
          BY <3>1
        <4>2. request'[s] = [at |-> "ip", call |-> "verify", subject |-> c, nonce |-> "none"]
          BY <4>1 DEF AskVerify, GateInv
        <4> QED
          BY <4>2 DEF RequestHolds, Counting, Redeeming
      <3>2. CASE \E w \in Wallets, n \in Nonces : AskRedeem(s, w, n)
        <4>1. PICK w \in Wallets, n \in Nonces : AskRedeem(s, w, n)
          BY <3>2
        <4>2. request'[s] = [at |-> "ip", call |-> "redeem", subject |-> w, nonce |-> n]
          BY <4>1 DEF AskRedeem, GateInv
        <4> QED
          BY <4>2 DEF RequestHolds, Counting, Redeeming
      <3>3. CASE Finish(s)
        BY <3>3, NoRequestHolds DEF Finish, GateInv
      <3>4. CASE \E at \in {Opened(s), Allowed(s)} : Goto(s, at) /\ request[s].at \in Counting
        <4>1. PICK at \in {Opened(s), Allowed(s)} : Goto(s, at)
          BY <3>4
        <4>2. request'[s] = [request[s] EXCEPT !.at = at]
          BY <4>1 DEF Goto, GateInv
        <4>3. request[s].at \in Counting
          BY <3>4
        <4>4. at \in {"ip window", "subject window", "subject"} \/ at = request[s].call
          BY DEF Opened, Allowed
        <4> QED
          BY <4>2, <4>3, <4>4, <3>0, <2>1 DEF RequestHolds, Counting, Redeeming
      <3>5. CASE /\ request[s].at = "redeem" /\ challenge[request[s].nonce] \in Codes
                 /\ request' = [request EXCEPT ![s].at = "burn",
                                               ![s].call = challenge[request[s].nonce]]
        BY <3>5, <3>0 DEF RequestHolds, Counting, Redeeming, GateInv
      <3>6. CASE Goto(s, "script") /\ request[s].at = "burn"
        BY <3>6, <3>0 DEF RequestHolds, Counting, Redeeming, GateInv, Goto
      <3> QED
        BY <1>5, <3>1, <3>2, <3>3, <3>4, <3>5, <3>6
           DEF Count, Admitted, Window, Unlimited, Verify, ReadChallenge, Burn, Counting
    <2> QED
      BY <2>1, <2>2, <2>3, OneRequestGoesOn DEF GateInv, TokenNamesRedeemer
  <1>6. ASSUME NEW s \in Slots, RunScript(s)
        PROVE  GateInv'
    <2>0. RequestHolds(request[s]) /\ request[s].at = "script" /\ UNCHANGED token
      BY <1>6 DEF RunScript, GateInv
    <2>1. Redeemed(s) \in Codes
      BY <2>0 DEF RequestHolds, Redeemed, Redeeming
    <2>2. CASE ~MayRedeem(Redeemed(s))
      <3>1. Finish(s) /\ UNCHANGED code
        BY <2>2, <1>6 DEF RunScript
      <3> QED
        BY <3>1, <2>0, NoRequestHolds, OneRequestGoesOn DEF Finish, GateInv, TokenNamesRedeemer
    <2>3. CASE MayRedeem(Redeemed(s))
      <3>1. /\ code' = [code EXCEPT ![Redeemed(s)] =
                          [status |-> "redeemed", wallet |-> request[s].subject, expires |-> FALSE]]
            /\ \/ request' = [request EXCEPT ![s].at = "issue"]
               \/ request' = [request EXCEPT ![s] = NoRequest]
        BY <2>3, <1>6 DEF RunScript, Goto, Finish
      <3>2. code[Redeemed(s)].status = "valid"
        BY <2>3 DEF MayRedeem
      <3>3. RequestHolds(request[s])'
        <4>1. CASE request' = [request EXCEPT ![s] = NoRequest]
          <5>1. request'[s] = NoRequest
            BY <4>1 DEF GateInv
          <5> QED
            BY <5>1, NoRequestHolds
        <4>2. CASE request' = [request EXCEPT ![s].at = "issue"]
          <5>1. request'[s] = [request[s] EXCEPT !.at = "issue"]
            BY <4>2 DEF GateInv
          <5>2. /\ DOMAIN request'[s] = {"at", "call", "subject", "nonce"} /\ request'[s].at = "issue"
                /\ request'[s].call = request[s].call /\ request'[s].subject = request[s].subject
            BY <5>1, <2>0 DEF RequestHolds
          <5>3. /\ request[s].call \in Codes /\ code'[request[s].call].status = "redeemed"
                /\ code'[request[s].call].wallet = request[s].subject
            BY <3>1, <2>1 DEF Redeemed, GateInv
          <5> QED
            BY <5>2, <5>3 DEF RequestHolds, Counting, Redeeming
        <4> QED
          BY <3>1, <4>1, <4>2
      <3>4. \A c \in Codes : code[c].status = "redeemed" => code'[c] = code[c]
        BY <3>1, <3>2, <2>1 DEF GateInv
      <3>5. DOMAIN request' = Slots /\ \A t \in Slots \ {s} : request'[t] = request[t]
        BY <3>1 DEF GateInv
      <3>6. DOMAIN code' = Codes
        BY <3>1 DEF GateInv
      <3> QED
        BY <3>1, <3>3, <3>4, <3>5, <3>6, <2>0, <2>1, OneRequestGoesOn DEF GateInv, TokenNamesRedeemer
    <2> QED
      BY <2>2, <2>3
  <1>7. ASSUME NEW s \in Slots, Issue(s)
        PROVE  GateInv'
    <2>1. RequestHolds(request[s]) /\ request[s].at = "issue" /\ UNCHANGED code /\ Finish(s)
      BY <1>7 DEF Issue, GateInv
    <2>2. token' = token \/ token' = token \cup {[wallet |-> request[s].subject, code |-> Redeemed(s)]}
      BY <1>7 DEF Issue
    <2>3. \A t \in Slots : RequestHolds(request[t])'
      BY <2>1, NoRequestHolds, OneRequestGoesOn DEF Finish, GateInv
    <2> QED
      BY <2>1, <2>2, <2>3 DEF Finish, GateInv, TokenNamesRedeemer, RequestHolds, Redeemed, Redeeming
  <1> QED
    BY <1>1, <1>2, <1>3, <1>4, <1>5, <1>6, <1>7 DEF GateNext

\* A token names the wallet that redeemed its code, for any number of codes,
\* wallets, requests at a time, failing commands and crashes.
THEOREM TokensKept == GateSpec => []TokenNamesRedeemer
  <1>1. GateInit => GateInv
    BY NoRequestHolds DEF GateInit, GateInv, Unseeded, TokenNamesRedeemer
  <1>2. GateInv /\ [GateNext]_gate => GateInv'
    BY GateStep
  <1>3. GateInv => TokenNamesRedeemer
    BY DEF GateInv
  <1> QED
    BY <1>1, <1>2, <1>3, PTL DEF GateSpec

\* The window that a request has yet to set is its own.
LimitsInv ==
    /\ DOMAIN counter = Watched
    /\ \A k \in Watched : DOMAIN counter[k] = {"count", "ttl"} /\ counter[k].count \in Nat
    /\ DOMAIN request = Slots
    /\ \A s \in Slots : DOMAIN request[s] = {"at", "call", "subject", "nonce"}
    /\ \A k \in Watched : counter[k].count > 0 => counter[k].ttl \/ k \in endless \/ Opening(k)

\* A counter keeps its window, or the request that has yet to set it, while
\* that request does not go on.
LEMMA OpeningKeeps ==
    ASSUME LimitsInv, NEW s \in Slots,
           request[s].at \notin {"ip window", "subject window"},
           \A t \in Slots \ {s} : request'[t] = request[t],
           NEW k \in Watched, Opening(k)
    PROVE  Opening(k)'
  BY DEF Opening, Subject

\* Every step of the gate keeps that.
LEMMA LimitsStep ==
    ASSUME LimitsInv, [GateNext]_gate
    PROVE  LimitsInv'
  <1> DEFINE Limited(k) == counter[k].count > 0 => counter[k].ttl \/ k \in endless \/ Opening(k)
  <1>1. CASE UNCHANGED <<counter, endless, request>>
    BY <1>1 DEF LimitsInv, Opening, Subject
  <1>2. CASE \E c \in Codes : SeedCode(c)
    BY <1>1, <1>2 DEF SeedCode
  <1>3. CASE Expire
    <2>1. UNCHANGED <<endless, request>>
      BY <1>3 DEF Expire
    <2>2. CASE UNCHANGED counter
      BY <1>1, <2>1, <2>2
    <2>3. CASE \E k \in Watched : counter' = [counter EXCEPT ![k] = Fresh]
      <3>1. PICK k \in Watched : counter' = [counter EXCEPT ![k] = Fresh]
        BY <2>3
      <3>2. /\ DOMAIN counter' = Watched /\ counter'[k] = [count |-> 0, ttl |-> FALSE]
            /\ \A j \in Watched \ {k} : counter'[j] = counter[j]
        BY <3>1 DEF LimitsInv, Fresh
      <3>3. \A j \in Watched : Opening(j)' <=> Opening(j)
        BY <2>1 DEF Opening, Subject
      <3> QED
        BY <2>1, <3>2, <3>3 DEF LimitsInv
    <2> QED
      BY <1>3, <2>2, <2>3 DEF Expire
  <1>4. CASE GateCrash
    <2>1. /\ endless' = endless \cup {k \in Watched : Opening(k)}
          /\ request' = [s \in Slots |-> NoRequest] /\ UNCHANGED counter
      BY <1>4 DEF GateCrash
    <2> QED
      BY <2>1 DEF LimitsInv, NoRequest
  <1>5. ASSUME NEW s \in Slots,
               \/ \E c \in Codes : AskVerify(s, c)
               \/ \E w \in Wallets, n \in Nonces : AskRedeem(s, w, n)
               \/ Unlimited(s) \/ Verify(s)
               \/ ReadChallenge(s) \/ Burn(s) \/ RunScript(s) \/ Issue(s)
        PROVE  LimitsInv'
    <2>1. /\ UNCHANGED <<counter, endless>>
          /\ request[s].at \notin {"ip window", "subject window"}
      BY <1>5 DEF AskVerify, AskRedeem, Unlimited, Verify, ReadChallenge, Burn, RunScript, Issue
    <2>2. /\ DOMAIN request' = Slots /\ \A t \in Slots \ {s} : request'[t] = request[t]
      BY <1>5 DEF AskVerify, AskRedeem, Unlimited, Verify, ReadChallenge, Burn, RunScript, Issue,
                  Goto, Finish, LimitsInv
    <2>3. DOMAIN request'[s] = {"at", "call", "subject", "nonce"}
      BY <1>5 DEF AskVerify, AskRedeem, Unlimited, Verify, ReadChallenge, Burn, RunScript, Issue,
                  Goto, Finish, NoRequest, LimitsInv
    <2> QED
      BY <2>1, <2>2, <2>3, OpeningKeeps DEF LimitsInv
  <1>6. ASSUME NEW s \in Slots, Count(s)
        PROVE  LimitsInv'
    <2>0. PICK k \in Watched : k = Subject(s)
      BY <1>6 DEF Count
    <2>1. PICK n \in Nat : n = counter[k].count
      BY <2>0 DEF LimitsInv
    <2> DEFINE After(m) == [counter EXCEPT ![k].count = IF @ + m > MaxAttempts THEN MaxAttempts + 1 ELSE @ + m]
    <2>2. /\ request[s].at \in {"ip", "subject"}
          /\ \E m \in {0, 1, 2} : counter' = IF m = 0 THEN counter ELSE After(m)
          /\ endless' \in {endless, EndlessWith(k)}
          /\ \/ UNCHANGED counter
             \/ n = 0 /\ Goto(s, Opened(s))
             \/ n > 0 \/ endless' = EndlessWith(k)
          /\ Goto(s, Opened(s)) \/ Goto(s, Allowed(s)) \/ Finish(s)
      <3>1. /\ request[s].at \in {"ip", "subject"}
            /\ \/ counter' = After(1) /\ Admitted(s, n + 1) /\ UNCHANGED endless
               \/ counter' = After(2) /\ Admitted(s, n + 2) /\ endless' = EndlessWith(k)
               \/ counter' = After(1) /\ Finish(s) /\ endless' = EndlessWith(k)
               \/ Finish(s) /\ UNCHANGED <<counter, endless>>
        BY <1>6, <2>0, <2>1, Zenon DEF Count
      <3> HIDE DEF After
      <3>2. /\ Admitted(s, n + 1) => (n = 0 /\ Goto(s, Opened(s))) \/ n > 0
            /\ \A m \in Nat : Admitted(s, m) => Goto(s, Opened(s)) \/ Goto(s, Allowed(s)) \/ Finish(s)
        BY <2>1, GateAssumption DEF Admitted
      <3>3. n + 1 \in Nat /\ n + 2 \in Nat
        BY <2>1
      <3> QED
        BY <3>1, <3>2, <3>3
    <2>3. /\ DOMAIN request' = Slots /\ \A t \in Slots \ {s} : request'[t] = request[t]
          /\ DOMAIN request'[s] = {"at", "call", "subject", "nonce"}
      BY <2>2 DEF Goto, Finish, NoRequest, LimitsInv
    <2>4. /\ DOMAIN counter' = Watched /\ DOMAIN counter'[k] = {"count", "ttl"}
          /\ counter'[k].count \in Nat /\ counter'[k].ttl = counter[k].ttl
          /\ \A j \in Watched \ {k} : counter'[j] = counter[j]
      <3>1. PICK m \in {0, 1, 2} : counter' = IF m = 0 THEN counter ELSE After(m)
        BY <2>2
      <3>2. CASE m = 0
        BY <3>1, <3>2 DEF LimitsInv
      <3>3. CASE m # 0
        BY <3>1, <3>3, GateAssumption DEF LimitsInv
      <3> QED
        BY <3>2, <3>3
    <2>5. ASSUME Goto(s, Opened(s))
          PROVE  Opening(k)'
      <3>1. request'[s] = [request[s] EXCEPT !.at = Opened(s)]
        BY <2>5 DEF Goto, LimitsInv
      <3>2. /\ request'[s].at = Opened(s) /\ request'[s].subject = request[s].subject
        BY <3>1 DEF LimitsInv
      <3> QED
        BY <2>0, <2>2, <3>2 DEF Opening, Opened, Subject
    <2>6. \A j \in Watched : Opening(j) => Opening(j)'
      BY <2>2, <2>3, OpeningKeeps
    <2>7. endless \subseteq endless' /\ (n = 0 /\ endless' = EndlessWith(k) => k \in endless')
      BY <2>1, <2>2 DEF EndlessWith
    <2>8. ASSUME NEW j \in Watched
          PROVE  Limited(j)'
      <3>1. Limited(j) /\ (j = k => n = counter[j].count)
        BY <2>1 DEF LimitsInv
      <3>2. CASE UNCHANGED counter
        BY <3>1, <3>2, <2>6, <2>7
      <3>3. CASE j = k /\ n = 0
        <4>1. UNCHANGED counter \/ Goto(s, Opened(s)) \/ endless' = EndlessWith(k)
          BY <2>2, <3>3, SMT
        <4> QED
          BY <4>1, <3>2, <3>3, <2>5, <2>7
      <3>4. CASE j = k /\ n # 0
        BY <3>1, <3>4, <2>4, <2>6, <2>7
      <3>5. CASE j # k
        BY <3>1, <3>5, <2>4, <2>6, <2>7
      <3> QED
        BY <3>3, <3>4, <3>5
    <2> QED
      BY <2>3, <2>4, <2>8 DEF LimitsInv
  <1>7. ASSUME NEW s \in Slots, Window(s)
        PROVE  LimitsInv'
    <2>1. /\ counter' = [counter EXCEPT ![Subject(s)].ttl = TRUE] \/ UNCHANGED counter
          /\ Goto(s, Allowed(s)) \/ Finish(s)
          /\ endless \subseteq endless'
          /\ UNCHANGED counter => Subject(s) \in endless' \/ Subject(s) \notin Watched \/ counter[Subject(s)].ttl
      BY <1>7 DEF Window, LimitsInv
    <2>2. /\ DOMAIN request' = Slots /\ \A t \in Slots \ {s} : request'[t] = request[t]
          /\ DOMAIN request'[s] = {"at", "call", "subject", "nonce"}
      BY <2>1 DEF Goto, Finish, NoRequest, LimitsInv
    <2>3. /\ DOMAIN counter' = Watched
          /\ \A j \in Watched : /\ DOMAIN counter'[j] = {"count", "ttl"}
                                /\ counter'[j].count = counter[j].count
                                /\ counter[j].ttl => counter'[j].ttl
                                /\ j = Subject(s) => counter'[j].ttl \/ j \in endless'
      BY <2>1 DEF LimitsInv
    <2>4. \A j \in Watched \ {Subject(s)} : Opening(j) => Opening(j)'
      BY <2>2 DEF Opening, Subject
    <2> QED
      BY <2>1, <2>2, <2>3, <2>4 DEF LimitsInv
  <1> QED
    BY <1>1, <1>2, <1>3, <1>4, <1>5, <1>6, <1>7 DEF GateNext, gate

\* A counter that limits somebody ends, for any number of addresses and
\* requests at a time, failed commands and crashes, unless the request that
\* opened it was cut off before it set the window.
THEOREM LimitsEnd == GateSpec => []LimitsWearOff
  <1>1. GateInit => LimitsInv
    BY DEF GateInit, LimitsInv, Fresh, NoRequest
  <1>2. LimitsInv /\ [GateNext]_gate => LimitsInv'
    BY LimitsStep
  <1>3. LimitsInv => LimitsWearOff
    BY DEF LimitsInv, LimitsWearOff, Opening
  <1> QED
    BY <1>1, <1>2, <1>3, PTL DEF GateSpec

-----------------------------------------------------------------------------
(***************************************************************************)
(* Markets that the backend makes.  A poll that is about to save what it   *)
(* did has seen the chain do it, and the chain does not go back.           *)
(***************************************************************************)
Unresolved(m) == onChain[m].status \in {"none", "Active"}
Ended(m) == onChain[m].status \in {"Finalized", "Invalid"}

ChainHolds(m) ==
    /\ DOMAIN onChain[m] = {"status", "outcome", "quote", "orders", "held"}
    /\ Unresolved(m) => onChain[m].outcome = "none"

\* The market of a creation that has come past its first step is on chain.
FlowHolds(m) ==
    /\ DOMAIN flow[m] = {"at", "quote", "by", "strike", "beside"}
    /\ flow[m].at = "core" => onChain[m].status = "none"
    /\ flow[m].at \notin {"none", "core", "done"} => onChain[m].status # "none"

RowHolds(m) ==
    /\ DOMAIN rows[m] = {"status", "outcome", "strike", "beside"}
    /\ rows[m].status # "none" => onChain[m].status # "none"
    /\ rows[m].status \in {"Resolving", "Disputed"} => ~Unresolved(m)
    /\ rows[m].outcome # "none" => rows[m].outcome = onChain[m].outcome
    /\ rows[m].status = "Finalized" => Ended(m)
    /\ rows[m].status = "Active" =>
         flow[m].at = "done" /\ flow[m].by = "scheduler" /\ rows[m].beside = flow[m].beside

PollHolds(p) ==
    /\ DOMAIN p = {"at", "kind", "of", "row", "outcome"}
    /\ DOMAIN p.row = {"status", "outcome", "strike", "beside"}
    /\ p.at # "idle" =>
         /\ p.of \in AutoMarketIds /\ onChain[p.of].status # "none"
         /\ p.kind = "finalize" => ~Unresolved(p.of)
         /\ p.at = "send" /\ p.kind = "resolve" => p.outcome # "none"
         /\ p.at = "save" /\ p.kind = "resolve" =>
              ~Unresolved(p.of) /\ p.outcome = onChain[p.of].outcome
         /\ p.at = "save" /\ p.kind = "finalize" => Ended(p.of)
         /\ p.at = "reconcile" => ~Unresolved(p.of)

\* A market of the scheduler that is being made or trades.
Alive(m) == (flow[m].by = "scheduler" /\ flow[m].at \notin {"none", "done"}) \/ Trading(m)
Overlap(m, n) == m \in flow[n].beside \/ n \in flow[m].beside

AutoInv ==
    /\ DOMAIN onChain = AutoMarketIds /\ \A m \in AutoMarketIds : ChainHolds(m)
    /\ DOMAIN flow = AutoMarketIds /\ \A m \in AutoMarketIds : FlowHolds(m)
    /\ DOMAIN rows = AutoMarketIds /\ \A m \in AutoMarketIds : RowHolds(m)
    /\ DOMAIN polls = Resolvers /\ \A r \in Resolvers : PollHolds(polls[r])
    /\ \A m, n \in AutoMarketIds : m # n /\ Alive(m) /\ Alive(n) => Overlap(m, n)

\* What the chain says of a market is not taken back.
GoesOn(m) ==
    /\ onChain[m].status # "none" => onChain'[m].status # "none"
    /\ ~Unresolved(m) => ~Unresolved(m)' /\ onChain'[m].outcome = onChain[m].outcome
    /\ Ended(m) => Ended(m)'

\* A row that is not written holds while the chain goes on.
LEMMA RowsStay ==
    ASSUME AutoInv, UNCHANGED <<rows, flow>>,
           \A m \in AutoMarketIds : GoesOn(m)
    PROVE  \A m \in AutoMarketIds : RowHolds(m)'
  BY DEF AutoInv, RowHolds, GoesOn, ChainHolds, Unresolved, Ended

\* So does a poll that waits.
LEMMA PollStays ==
    ASSUME AutoInv, NEW r \in Resolvers, UNCHANGED polls[r],
           \A m \in AutoMarketIds : GoesOn(m)
    PROVE  PollHolds(polls[r])'
  <1>1. PollHolds(polls[r]) /\ polls'[r] = polls[r]
    BY DEF AutoInv
  <1> QED
    BY <1>1 DEF PollHolds, GoesOn, Unresolved, Ended

\* No market begins to trade without being made.
LEMMA AliveStays ==
    ASSUME AutoInv, UNCHANGED flow, past \subseteq past',
           \A m \in AutoMarketIds : rows'[m].status = "Active" => rows[m].status = "Active"
    PROVE  \A m, n \in AutoMarketIds : m # n /\ Alive(m)' /\ Alive(n)' => Overlap(m, n)'
  BY DEF AutoInv, Alive, Trading, Overlap

\* A poll that has ended holds nothing.
LEMMA NoPollHolds == PollHolds(NoPoll)' /\ NoPoll.at = "idle"
  BY DEF PollHolds, NoPoll, NoRow

\* A step of the chain alone, that takes nothing back.
LEMMA ChainAlone ==
    ASSUME AutoInv, UNCHANGED <<rows, polls, past>>, UNCHANGED flow,
           DOMAIN onChain' = AutoMarketIds,
           \A m \in AutoMarketIds : ChainHolds(m)' /\ GoesOn(m),
           \A m \in AutoMarketIds : onChain[m].status = "none" => onChain'[m].status = "none"
    PROVE  AutoInv'
  <1>1. \A m \in AutoMarketIds : FlowHolds(m)'
    BY DEF AutoInv, FlowHolds, GoesOn
  <1>2. \A r \in Resolvers : PollHolds(polls[r])'
    BY PollStays
  <1> QED
    BY <1>1, <1>2, RowsStay, AliveStays DEF AutoInv

\* The chain is as it was when only orders and shares change.
LEMMA OrdersOnly ==
    ASSUME AutoInv, DOMAIN onChain' = AutoMarketIds,
           \A m \in AutoMarketIds : /\ DOMAIN onChain'[m] = DOMAIN onChain[m]
                                    /\ onChain'[m].status = onChain[m].status
                                    /\ onChain'[m].outcome = onChain[m].outcome
    PROVE  \A m \in AutoMarketIds : ChainHolds(m)' /\ GoesOn(m)
  BY DEF AutoInv, ChainHolds, GoesOn, Unresolved, Ended

\* A poll that goes on, beside a chain that goes on.
LEMMA PollAlone ==
    ASSUME AutoInv, UNCHANGED <<rows, flow, past>>, NEW r \in Resolvers, NEW p,
           OnPoll(r, p), PollHolds(p)',
           DOMAIN onChain' = AutoMarketIds,
           \A m \in AutoMarketIds : ChainHolds(m)' /\ GoesOn(m),
           \A m \in AutoMarketIds : onChain[m].status = "none" => onChain'[m].status = "none"
    PROVE  AutoInv'
  <1>1. \A m \in AutoMarketIds : FlowHolds(m)'
    BY DEF AutoInv, FlowHolds, GoesOn
  <1>2. \A q \in Resolvers : PollHolds(polls[q])'
    <2> SUFFICES ASSUME NEW q \in Resolvers PROVE PollHolds(polls[q])'
      OBVIOUS
    <2>1. CASE q = r
      BY <2>1 DEF OnPoll, AutoInv
    <2>2. CASE q # r
      BY <2>2, PollStays DEF OnPoll, AutoInv
    <2> QED
      BY <2>1, <2>2
  <1>3. DOMAIN polls' = Resolvers
    BY DEF OnPoll, AutoInv
  <1> QED
    BY <1>1, <1>2, <1>3, RowsStay, AliveStays DEF AutoInv

\* The chain goes on when it stands still.
LEMMA ChainStays ==
    ASSUME AutoInv, UNCHANGED onChain
    PROVE  /\ DOMAIN onChain' = AutoMarketIds
           /\ \A m \in AutoMarketIds : ChainHolds(m)' /\ GoesOn(m)
           /\ \A m \in AutoMarketIds : onChain[m].status = "none" => onChain'[m].status = "none"
  BY DEF AutoInv, ChainHolds, GoesOn, Unresolved, Ended

\* A creation begins.  The scheduler's begins when no market trades, and knows
\* of those that are being made.
LEMMA CreationBegins ==
    ASSUME AutoInv, NEW m \in AutoMarketIds, CreateMarket(m) \/ CreateSeeded(m)
    PROVE  AutoInv'
  <1>1. PICK quote, by, strike : /\ Begin(m, quote, by, strike)
                                 /\ by = "scheduler" => ~StillActive
    BY DEF CreateMarket, CreateSeeded
  <1>2. /\ flow[m] = NoFlow /\ onChain[m] = NoMarket
        /\ UNCHANGED <<onChain, rows, polls, past>>
        /\ flow' = [flow EXCEPT ![m] = [at |-> "core", quote |-> quote, by |-> by, strike |-> strike,
                                        beside |-> IF by = "scheduler" THEN Underway ELSE {}]]
    BY <1>1 DEF Begin, resolving, passing
  <1>3. /\ DOMAIN flow' = AutoMarketIds /\ \A n \in AutoMarketIds \ {m} : flow'[n] = flow[n]
        /\ DOMAIN flow'[m] = {"at", "quote", "by", "strike", "beside"}
        /\ flow'[m].at = "core" /\ flow'[m].by = by
        /\ by = "scheduler" => flow'[m].beside = Underway
    BY <1>2 DEF AutoInv
  <1>4. flow[m].at = "none" /\ onChain[m].status = "none"
    BY <1>2 DEF NoFlow, NoMarket
  <1>5. \A n \in AutoMarketIds : FlowHolds(n)'
    BY <1>2, <1>3, <1>4 DEF AutoInv, FlowHolds
  <1>6. \A n \in AutoMarketIds : RowHolds(n)'
    BY <1>2, <1>3, <1>4 DEF AutoInv, RowHolds, Unresolved, Ended
  <1>7. ASSUME NEW n \in AutoMarketIds, n # m, Alive(m)', Alive(n)'
        PROVE  n \in flow'[m].beside
    <2>1. rows[m].status # "Active"
      BY <1>4 DEF AutoInv, RowHolds
    <2>2. by = "scheduler"
      BY <1>2, <1>3, <1>7, <2>1 DEF Alive, Trading
    <2>3. n \in Underway
      BY <1>1, <1>2, <1>3, <1>7, <2>2 DEF Underway, Alive, Trading, StillActive
    <2> QED
      BY <1>3, <2>2, <2>3
  <1>8. \A n, o \in AutoMarketIds : n # o /\ Alive(n)' /\ Alive(o)' => Overlap(n, o)'
    <2> SUFFICES ASSUME NEW n \in AutoMarketIds, NEW o \in AutoMarketIds, n # o, Alive(n)', Alive(o)'
                 PROVE  Overlap(n, o)'
      OBVIOUS
    <2>1. CASE n # m /\ o # m
      BY <2>1, <1>2, <1>3 DEF AutoInv, Alive, Trading, Overlap
    <2>2. CASE n = m \/ o = m
      BY <2>2, <1>7 DEF Overlap
    <2> QED
      BY <2>1, <2>2
  <1>9. \A r \in Resolvers : PollHolds(polls[r])'
    BY <1>2, ChainStays, PollStays
  <1> QED
    BY <1>2, <1>3, <1>5, <1>6, <1>8, <1>9, ChainStays DEF AutoInv

\* A creation goes on, and its market comes on chain with the first step.
LEMMA CreationGoesOn ==
    ASSUME AutoInv, NEW m \in AutoMarketIds, CreateAndSeedMarket(m)
    PROVE  AutoInv'
  <1>1. /\ UNCHANGED <<rows, polls, past>>
        /\ flow[m].at \notin {"none", "done"}
        /\ \E at \in {"vaults", "fund", "mint", "yesSell", "noSell", "yesBuy", "noBuy", "persist"} :
             flow' = [flow EXCEPT ![m].at = at]
    BY DEF CreateAndSeedMarket, InitializeMarketCore, InitializeMarketVaults, FundLiquidityVault,
           MintSeedShares, PlaceYesSellOrder, PlaceNoSellOrder, PlaceBuyOrder, PlaceSeedSell,
           PlaceSeedBuy, Onto, resolving, passing
  <1>2. /\ DOMAIN onChain' = AutoMarketIds
        /\ \A n \in AutoMarketIds : DOMAIN onChain'[n] = DOMAIN onChain[n]
        /\ \A n \in AutoMarketIds : onChain'[n].outcome = onChain[n].outcome
    BY DEF CreateAndSeedMarket, InitializeMarketCore, InitializeMarketVaults, FundLiquidityVault,
           MintSeedShares, PlaceYesSellOrder, PlaceNoSellOrder, PlaceBuyOrder, PlaceSeedSell,
           PlaceSeedBuy, AutoInv, ChainHolds
  <1>3. /\ \A n \in AutoMarketIds \ {m} : onChain'[n].status = onChain[n].status
        /\ IF flow[m].at = "core" THEN onChain'[m].status = "Active"
           ELSE onChain'[m].status = onChain[m].status
    BY DEF CreateAndSeedMarket, InitializeMarketCore, InitializeMarketVaults, FundLiquidityVault,
           MintSeedShares, PlaceYesSellOrder, PlaceNoSellOrder, PlaceBuyOrder, PlaceSeedSell,
           PlaceSeedBuy, AutoInv, ChainHolds
  <1>4. /\ DOMAIN flow' = AutoMarketIds /\ \A n \in AutoMarketIds \ {m} : flow'[n] = flow[n]
        /\ DOMAIN flow'[m] = DOMAIN flow[m] /\ flow'[m].at \notin {"none", "core", "done"}
        /\ flow'[m].by = flow[m].by /\ flow'[m].beside = flow[m].beside
    BY <1>1 DEF AutoInv, FlowHolds
  <1>5. FlowHolds(m)
    BY DEF AutoInv
  <1>6. onChain'[m].status # "none"
    BY <1>1, <1>3, <1>5 DEF FlowHolds
  <1>7. \A n \in AutoMarketIds : ChainHolds(n)' /\ GoesOn(n)
    BY <1>2, <1>3, <1>5, <1>6 DEF AutoInv, ChainHolds, GoesOn, Unresolved, Ended, FlowHolds
  <1>8. \A n \in AutoMarketIds : FlowHolds(n)'
    BY <1>3, <1>4, <1>6 DEF AutoInv, FlowHolds
  <1>9. \A n \in AutoMarketIds : RowHolds(n)'
    <2> SUFFICES ASSUME NEW n \in AutoMarketIds PROVE RowHolds(n)'
      OBVIOUS
    <2>1. RowHolds(n) /\ rows'[n] = rows[n] /\ GoesOn(n) /\ (Unresolved(n) => onChain[n].outcome = "none")
      BY <1>1, <1>7 DEF AutoInv, ChainHolds
    <2>2. rows[n].status = "Active" => flow'[n] = flow[n]
      BY <2>1, <1>1, <1>4 DEF RowHolds
    <2> QED
      BY <2>1, <2>2, <1>2 DEF RowHolds, GoesOn, Unresolved, Ended
  <1>10. \A n, o \in AutoMarketIds : n # o /\ Alive(n)' /\ Alive(o)' => Overlap(n, o)'
    <2>1. \A n \in AutoMarketIds : (Alive(n)' => Alive(n)) /\ flow'[n].beside = flow[n].beside
      BY <1>1, <1>4 DEF Alive, Trading
    <2> QED
      BY <2>1 DEF AutoInv, Overlap
  <1>11. \A r \in Resolvers : PollHolds(polls[r])'
    BY <1>1, <1>7, PollStays
  <1> QED
    BY <1>1, <1>2, <1>4, <1>7, <1>8, <1>9, <1>10, <1>11 DEF AutoInv

\* A creation ends; what it leaves is a row, or nothing.
LEMMA CreationEnds ==
    ASSUME AutoInv, NEW m \in AutoMarketIds, SeedingFails(m) \/ PersistMarket(m)
    PROVE  AutoInv'
  <1>1. /\ UNCHANGED <<onChain, polls, past>>
        /\ flow[m].at \notin {"none", "done"} /\ flow' = [flow EXCEPT ![m].at = "done"]
    BY DEF SeedingFails, PersistMarket, Onto, resolving, passing
  <1>2. \/ UNCHANGED rows
        \/ /\ flow[m].at = "persist" /\ flow[m].by = "scheduler"
           /\ rows' = [rows EXCEPT ![m] = [status |-> "Active", outcome |-> "none",
                                           strike |-> flow[m].strike, beside |-> flow[m].beside]]
    BY DEF SeedingFails, PersistMarket
  <1>3. /\ DOMAIN flow' = AutoMarketIds /\ \A n \in AutoMarketIds \ {m} : flow'[n] = flow[n]
        /\ DOMAIN flow'[m] = DOMAIN flow[m] /\ flow'[m].at = "done"
        /\ flow'[m].by = flow[m].by /\ flow'[m].beside = flow[m].beside
    BY <1>1 DEF AutoInv, FlowHolds
  <1>4. FlowHolds(m) /\ RowHolds(m)
    BY DEF AutoInv
  <1>5. \A n \in AutoMarketIds : FlowHolds(n)'
    BY <1>1, <1>3 DEF AutoInv, FlowHolds
  <1>6. /\ DOMAIN rows' = AutoMarketIds
        /\ \A n \in AutoMarketIds \ {m} : rows'[n] = rows[n]
        /\ \/ rows'[m] = rows[m] /\ rows[m].status # "Active"
           \/ /\ flow[m].at = "persist" /\ flow[m].by = "scheduler"
              /\ rows'[m] = [status |-> "Active", outcome |-> "none",
                             strike |-> flow[m].strike, beside |-> flow[m].beside]
    BY <1>1, <1>2, <1>4 DEF AutoInv, RowHolds
  <1>7. RowHolds(m)'
    BY <1>1, <1>3, <1>4, <1>6 DEF RowHolds, FlowHolds, Unresolved, Ended
  <1>8. \A n \in AutoMarketIds \ {m} : RowHolds(n)'
    BY <1>1, <1>3, <1>6 DEF AutoInv, RowHolds, Unresolved, Ended
  <1>9. \A n, o \in AutoMarketIds : n # o /\ Alive(n)' /\ Alive(o)' => Overlap(n, o)'
    <2>1. \A n \in AutoMarketIds : (Alive(n)' => Alive(n)) /\ flow'[n].beside = flow[n].beside
      BY <1>1, <1>3, <1>6 DEF Alive, Trading
    <2> QED
      BY <2>1 DEF AutoInv, Overlap
  <1>10. \A r \in Resolvers : PollHolds(polls[r])'
    BY <1>1, ChainStays, PollStays
  <1> QED
    BY <1>1, <1>3, <1>5, <1>6, <1>7, <1>8, <1>9, <1>10, ChainStays DEF AutoInv

\* A poll starts, or finds the price to resolve by.
LEMMA PollStarts ==
    ASSUME AutoInv, NEW r \in Resolvers,
           \/ \E m \in AutoMarketIds : ResolveExpired(r, m) \/ FinalizeReady(r, m)
           \/ ComparePrice(r) \/ PollFails(r)
    PROVE  AutoInv'
  <1>1. UNCHANGED <<onChain, rows, flow, past>>
    BY DEF ResolveExpired, FinalizeReady, ComparePrice, PollFails, QuietAuto, making, passing
  <1>2. PollHolds(polls[r])
    BY DEF AutoInv
  <1>3. \E p : OnPoll(r, p) /\ PollHolds(p)'
    <2>1. ASSUME NEW m \in AutoMarketIds, ResolveExpired(r, m)
          PROVE  \E p : OnPoll(r, p) /\ PollHolds(p)'
      <3>0. PICK p : p = [NoPoll EXCEPT !.at = "price", !.kind = "resolve", !.of = m, !.row = rows[m]]
        OBVIOUS
      <3>1. OnPoll(r, p) /\ RowHolds(m) /\ rows[m].status = "Active"
        BY <2>1, <3>0 DEF ResolveExpired, AutoInv
      <3>2. PollHolds(p)'
        BY <3>0, <3>1, <1>1 DEF PollHolds, NoPoll, RowHolds
      <3> QED
        BY <3>1, <3>2
    <2>2. ASSUME NEW m \in AutoMarketIds, FinalizeReady(r, m)
          PROVE  \E p : OnPoll(r, p) /\ PollHolds(p)'
      <3>0. PICK p : p = [NoPoll EXCEPT !.at = "send", !.kind = "finalize", !.of = m, !.row = rows[m]]
        OBVIOUS
      <3>1. OnPoll(r, p) /\ RowHolds(m) /\ rows[m].status = "Resolving"
        BY <2>2, <3>0 DEF FinalizeReady, AutoInv
      <3>2. PollHolds(p)'
        BY <3>0, <3>1, <1>1 DEF PollHolds, NoPoll, RowHolds, Unresolved, Ended
      <3> QED
        BY <3>1, <3>2
    <2>3. CASE PollOver(r)
      BY <2>3, NoPollHolds DEF PollOver
    <2>4. CASE ComparePrice(r) /\ ~PollOver(r)
      <3>0. PICK outcome, p : /\ outcome = WinningOutcome(GetPrice, polls[r].row.strike)
                              /\ p = [polls[r] EXCEPT !.at = "send", !.outcome = outcome]
        OBVIOUS
      <3>1. OnPoll(r, p) /\ polls[r].at = "price"
        BY <2>4, <3>0 DEF ComparePrice
      <3>2. outcome # "none"
        BY <3>0 DEF WinningOutcome
      <3>3. PollHolds(p)'
        BY <3>0, <3>1, <3>2, <1>1, <1>2 DEF PollHolds, Unresolved, Ended
      <3> QED
        BY <3>1, <3>3
    <2> QED
      BY <2>1, <2>2, <2>3, <2>4 DEF PollFails
  <1> QED
    BY <1>1, <1>3, ChainStays, PollAlone

\* A transaction of a poll lands, or is lost, or finds that there is nothing to do.
LEMMA PollSends ==
    ASSUME AutoInv, NEW r \in Resolvers, ResolveAutoMarket(r) \/ FinalizeMarketOnChain(r)
    PROVE  AutoInv'
  <1>0. PICK m : m = polls[r].of
    OBVIOUS
  <1>1. /\ UNCHANGED <<rows, flow, past>>
        /\ polls[r].at = "send" /\ polls[r].kind \in {"resolve", "finalize"}
    BY DEF ResolveAutoMarket, FinalizeMarketOnChain, QuietAuto, making, passing
  <1>2. PollHolds(polls[r])
    BY DEF AutoInv
  <1>3. m \in AutoMarketIds /\ onChain[m].status # "none" /\ ChainHolds(m)
    BY <1>0, <1>1, <1>2 DEF PollHolds, AutoInv
  <1>4. \/ UNCHANGED onChain
        \/ /\ polls[r].kind = "resolve" /\ onChain[m].status = "Active"
           /\ onChain' = [onChain EXCEPT ![m].status = "Resolving", ![m].outcome = polls[r].outcome]
        \/ /\ polls[r].kind = "finalize" /\ onChain[m].status \in {"Resolving", "Disputed"}
           /\ onChain' = [onChain EXCEPT ![m].status = "Finalized"]
    BY <1>0 DEF ResolveAutoMarket, FinalizeMarketOnChain
  <1>5. /\ DOMAIN onChain' = AutoMarketIds
        /\ \A n \in AutoMarketIds \ {m} : onChain'[n] = onChain[n]
        /\ DOMAIN onChain'[m] = DOMAIN onChain[m]
    BY <1>3, <1>4 DEF AutoInv, ChainHolds
  <1>6. \/ onChain'[m] = onChain[m]
        \/ /\ polls[r].kind = "resolve" /\ onChain[m].status = "Active"
           /\ onChain'[m].status = "Resolving" /\ onChain'[m].outcome = polls[r].outcome
        \/ /\ polls[r].kind = "finalize" /\ onChain[m].status \in {"Resolving", "Disputed"}
           /\ onChain'[m].status = "Finalized" /\ onChain'[m].outcome = onChain[m].outcome
    BY <1>3, <1>4 DEF AutoInv, ChainHolds
  <1>7. \A n \in AutoMarketIds : ChainHolds(n)' /\ GoesOn(n)
    <2>1. ChainHolds(m)' /\ GoesOn(m)
      BY <1>3, <1>5, <1>6 DEF ChainHolds, GoesOn, Unresolved, Ended
    <2> QED
      BY <2>1, <1>5 DEF AutoInv, ChainHolds, GoesOn, Unresolved, Ended
  <1>8. \/ PollOver(r)
        \/ /\ At(r, "save") /\ polls[r].kind = "resolve" /\ onChain[m].status = "Active"
           /\ onChain' = [onChain EXCEPT ![m].status = "Resolving", ![m].outcome = polls[r].outcome]
        \/ At(r, "save") /\ polls[r].kind = "finalize" /\ onChain' = [onChain EXCEPT ![m].status = "Finalized"]
        \/ /\ At(r, "reconcile") /\ UNCHANGED onChain
           /\ polls[r].kind = "resolve" => onChain[m].status # "Active"
    BY <1>0 DEF ResolveAutoMarket, FinalizeMarketOnChain
  <1>9. \E p : OnPoll(r, p) /\ PollHolds(p)'
    <2>1. CASE PollOver(r)
      BY <2>1, NoPollHolds DEF PollOver
    <2>2. ASSUME NEW at, At(r, at), at \in {"save", "reconcile"},
                 at = "save" => \/ /\ polls[r].kind = "resolve" /\ onChain'[m].status = "Resolving"
                                   /\ onChain'[m].outcome = polls[r].outcome
                                \/ polls[r].kind = "finalize" /\ onChain'[m].status = "Finalized",
                 at = "reconcile" => ~Unresolved(m)'
          PROVE  \E p : OnPoll(r, p) /\ PollHolds(p)'
      <3>0. PICK p : p = [polls[r] EXCEPT !.at = at]
        OBVIOUS
      <3>1. /\ DOMAIN p = DOMAIN polls[r] /\ p.at = at /\ p.kind = polls[r].kind /\ p.of = m
            /\ p.row = polls[r].row /\ p.outcome = polls[r].outcome
        BY <1>0, <1>2, <3>0 DEF PollHolds
      <3>2. OnPoll(r, p)
        BY <2>2, <3>0 DEF At
      <3>3. PollHolds(p)'
        BY <3>1, <1>1, <1>2, <1>3, <1>7, <2>2 DEF PollHolds, GoesOn, Unresolved, Ended
      <3> QED
        BY <3>2, <3>3
    <2>3. CASE At(r, "reconcile") /\ UNCHANGED onChain
               /\ (polls[r].kind = "resolve" => onChain[m].status # "Active")
      <3>1. ~Unresolved(m)'
        BY <2>3, <1>0, <1>1, <1>2, <1>3 DEF PollHolds, Unresolved, Ended
      <3> QED
        BY <2>2, <2>3, <3>1
    <2> QED
      BY <1>3, <1>8, <2>1, <2>2, <2>3 DEF AutoInv, ChainHolds
  <1> QED
    BY <1>1, <1>3, <1>5, <1>6, <1>7, <1>9, PollAlone

\* A poll saves what it has done, or what it has found on chain.
LEMMA PollSaves ==
    ASSUME AutoInv, NEW r \in Resolvers, SaveResolved(r) \/ SaveFinalized(r) \/ Reconcile(r)
    PROVE  AutoInv'
  <1>0. PICK m : m = polls[r].of
    OBVIOUS
  <1>1. UNCHANGED <<onChain, flow, past>> /\ PollOver(r) /\ polls[r].at \in {"save", "reconcile"}
    BY DEF SaveResolved, SaveFinalized, Reconcile, QuietAuto, making, passing
  <1>2. PollHolds(polls[r])
    BY DEF AutoInv
  <1>3. m \in AutoMarketIds /\ onChain[m].status # "none" /\ ChainHolds(m) /\ RowHolds(m)
    BY <1>0, <1>1, <1>2 DEF PollHolds, AutoInv
  <1>4. PICK new : SaveRow(m, polls[r].row, new)
                   /\ new.status \notin {"none", "Active"} /\ ~Unresolved(m)
                   /\ (new.status = "Finalized" => Ended(m))
                   /\ new.outcome \in {onChain[m].outcome, polls[r].row.outcome}
    <2>1. CASE SaveResolved(r)
      BY <2>1, <1>0, <1>2 DEF SaveResolved, PollHolds
    <2>2. CASE SaveFinalized(r)
      <3> DEFINE new == [polls[r].row EXCEPT !.status = "Finalized"]
      <3>1. /\ SaveRow(m, polls[r].row, new) /\ Ended(m)
            /\ new.status = "Finalized" /\ new.outcome = polls[r].row.outcome
        BY <2>2, <1>0, <1>2 DEF SaveFinalized, PollHolds
      <3> QED
        BY <3>1 DEF Unresolved, Ended
    <2>3. CASE Reconcile(r)
      <3>1. ~Unresolved(m)
        BY <2>3, <1>0, <1>2 DEF Reconcile, PollHolds
      <3>2. CASE MarkedInvalid(r)
        <4> DEFINE new == [polls[r].row EXCEPT !.status = "Invalid"]
        <4>1. /\ SaveRow(m, polls[r].row, new)
              /\ new.status = "Invalid" /\ new.outcome = polls[r].row.outcome
          BY <3>2, <1>0, <1>2 DEF MarkedInvalid, PollHolds
        <4> QED
          BY <3>1, <4>1
      <3>3. CASE ~MarkedInvalid(r)
        BY <2>3, <3>1, <3>3, <1>0 DEF Reconcile, Unresolved, Ended
      <3> QED
        BY <3>2, <3>3
    <2> QED
      BY <2>1, <2>2, <2>3
  <1>5. /\ DOMAIN rows' = AutoMarketIds /\ \A n \in AutoMarketIds \ {m} : rows'[n] = rows[n]
        /\ DOMAIN rows'[m] = DOMAIN rows[m] /\ rows'[m].beside = rows[m].beside
        /\ rows'[m].status \in {rows[m].status, new.status}
        /\ rows'[m].outcome \in {rows[m].outcome, onChain[m].outcome}
    BY <1>3, <1>4 DEF SaveRow, AutoInv, RowHolds
  <1>6. RowHolds(m)'
    BY <1>1, <1>3, <1>4, <1>5 DEF RowHolds, Unresolved, Ended
  <1>7. \A n \in AutoMarketIds \ {m} : RowHolds(n)'
    BY <1>1, <1>5 DEF AutoInv, RowHolds, Unresolved, Ended
  <1>8. \A q \in Resolvers : PollHolds(polls[q])'
    <2> SUFFICES ASSUME NEW q \in Resolvers PROVE PollHolds(polls[q])'
      OBVIOUS
    <2>1. CASE q = r
      BY <2>1, <1>1, NoPollHolds DEF PollOver, OnPoll, AutoInv
    <2>2. CASE q # r
      BY <2>2, <1>1, ChainStays, PollStays DEF PollOver, OnPoll, AutoInv
    <2> QED
      BY <2>1, <2>2
  <1>9. \A n, o \in AutoMarketIds : n # o /\ Alive(n)' /\ Alive(o)' => Overlap(n, o)'
    BY <1>1, <1>3, <1>4, <1>5, AliveStays
  <1>10. \A n \in AutoMarketIds : FlowHolds(n)'
    BY <1>1 DEF AutoInv, FlowHolds
  <1> QED
    BY <1>1, <1>5, <1>6, <1>7, <1>8, <1>9, <1>10, ChainStays DEF AutoInv, PollOver, OnPoll

\* The recovery of a market's liquidity, time and other people leave all that.
LEMMA WorldGoesOn ==
    ASSUME AutoInv, NEW m \in AutoMarketIds, RecoverLiquidity(m) \/ TimePasses(m)
                                              \/ OthersAct(m) \/ AdminSteps(m)
    PROVE  AutoInv'
  <1>1. CASE RecoverLiquidity(m)
    <2>1. UNCHANGED <<rows, polls, past, flow>>
      BY <1>1 DEF RecoverLiquidity, CancelSeedOrders, RedeemSeedShares, making, passing
    <2>2. /\ DOMAIN onChain' = AutoMarketIds
          /\ \A n \in AutoMarketIds : /\ DOMAIN onChain'[n] = DOMAIN onChain[n]
                                      /\ onChain'[n].status = onChain[n].status
                                      /\ onChain'[n].outcome = onChain[n].outcome
      <3>1. CASE CancelSeedOrders(m)
        <4>1. PICK done : onChain' = [onChain EXCEPT ![m].orders = @ \ done,
                            ![m].held = @ \cup {Token(o) : o \in done \cap {"yesSell", "noSell"}}]
          BY <3>1 DEF CancelSeedOrders
        <4> QED
          BY <4>1 DEF AutoInv, ChainHolds
      <3>2. CASE RedeemSeedShares(m)
        <4>1. UNCHANGED onChain \/ onChain' = [onChain EXCEPT ![m].held = {}]
          BY <3>2 DEF RedeemSeedShares
        <4> QED
          BY <4>1 DEF AutoInv, ChainHolds
      <3> QED
        BY <1>1, <3>1, <3>2 DEF RecoverLiquidity
    <2> QED
      BY <2>1, <2>2, OrdersOnly, ChainAlone
  <1>2. CASE TimePasses(m)
    <2>1. UNCHANGED <<rows, polls, flow, onChain>> /\ past \subseteq past'
      BY <1>2 DEF TimePasses, making, resolving
    <2>2. \A n \in AutoMarketIds : FlowHolds(n)'
      BY <2>1 DEF AutoInv, FlowHolds
    <2>3. \A r \in Resolvers : PollHolds(polls[r])'
      BY <2>1, ChainStays, PollStays
    <2> QED
      BY <2>1, <2>2, <2>3, ChainStays, RowsStay, AliveStays DEF AutoInv
  <1>3. CASE OthersAct(m)
    <2>1. UNCHANGED <<rows, polls, past, flow>>
      BY <1>3 DEF OthersAct, making, resolving, passing
    <2>2. /\ DOMAIN onChain' = AutoMarketIds
          /\ \A n \in AutoMarketIds \ {m} : onChain'[n] = onChain[n]
          /\ DOMAIN onChain'[m] = DOMAIN onChain[m] /\ onChain'[m].outcome = onChain[m].outcome
          /\ \/ onChain[m].status = "Resolving" /\ onChain'[m].status = "Disputed"
             \/ onChain[m].status \in {"Resolving", "Disputed"} /\ onChain'[m].status = "Finalized"
      BY <1>3 DEF OthersAct, AutoInv, ChainHolds
    <2>3. \A n \in AutoMarketIds : ChainHolds(n)' /\ GoesOn(n)
      BY <2>2 DEF AutoInv, ChainHolds, GoesOn, Unresolved, Ended
    <2> QED
      BY <2>1, <2>2, <2>3, ChainAlone
  <1>4. CASE AdminSteps(m)
    <2>1. UNCHANGED <<rows, polls, past, flow>>
      BY <1>4 DEF AdminSteps, making, resolving, passing
    <2>2. /\ DOMAIN onChain' = AutoMarketIds
          /\ \A n \in AutoMarketIds \ {m} : onChain'[n] = onChain[n]
          /\ DOMAIN onChain'[m] = DOMAIN onChain[m]
          /\ \/ onChain[m].status = "Active" /\ onChain'[m].status = "Resolving"
             \/ /\ onChain[m].status # "none" /\ onChain'[m].status = "Invalid"
                /\ onChain'[m].outcome = onChain[m].outcome
      BY <1>4 DEF AdminSteps, OnSale, AutoInv, ChainHolds
    <2>3. \A n \in AutoMarketIds : ChainHolds(n)' /\ GoesOn(n)
      BY <2>2 DEF AutoInv, ChainHolds, GoesOn, Unresolved, Ended
    <2> QED
      BY <2>1, <2>2, <2>3, ChainAlone
  <1> QED
    BY <1>1, <1>2, <1>3, <1>4

\* A crash ends polls and creations, and takes nothing back.
LEMMA CrashKeeps ==
    ASSUME AutoInv, AutoCrash
    PROVE  AutoInv'
  <1>1. /\ UNCHANGED <<onChain, rows, past>>
        /\ polls' = [r \in Resolvers |-> NoPoll]
        /\ flow' = [m \in AutoMarketIds |->
                      IF flow[m].at = "none" THEN NoFlow ELSE [flow[m] EXCEPT !.at = "done"]]
    BY DEF AutoCrash, passing
  <1>2. ASSUME NEW m \in AutoMarketIds
        PROVE  /\ DOMAIN flow'[m] = {"at", "quote", "by", "strike", "beside"}
               /\ flow'[m].at \in {"none", "done"}
               /\ flow[m].at # "none" =>
                    flow'[m].at = "done" /\ flow'[m].by = flow[m].by /\ flow'[m].beside = flow[m].beside
    <2>1. DOMAIN flow[m] = {"at", "quote", "by", "strike", "beside"}
      BY DEF AutoInv, FlowHolds
    <2> QED
      BY <1>1, <2>1 DEF NoFlow
  <1>3. \A m \in AutoMarketIds : RowHolds(m)' /\ FlowHolds(m)'
    BY <1>1, <1>2 DEF AutoInv, RowHolds, FlowHolds, Unresolved, Ended
  <1>4. \A m, n \in AutoMarketIds : m # n /\ Alive(m)' /\ Alive(n)' => Overlap(m, n)'
    <2>1. ASSUME NEW m \in AutoMarketIds, Alive(m)'
          PROVE  Alive(m) /\ flow'[m].beside = flow[m].beside
      <3>1. Trading(m) /\ RowHolds(m)
        BY <1>1, <1>2, <2>1 DEF Alive, Trading, AutoInv
      <3> QED
        BY <3>1, <1>2 DEF Alive, Trading, RowHolds
    <2> QED
      BY <2>1 DEF AutoInv, Overlap
  <1> QED
    BY <1>1, <1>3, <1>4, NoPollHolds, ChainStays DEF AutoInv

\* Whatever polls, creations, crashes and reconciliations overlap.
LEMMA AutoInvKept == AutoSpec => []AutoInv
  <1>1. AutoInit => AutoInv
    <2> SUFFICES ASSUME AutoInit PROVE AutoInv
      OBVIOUS
    <2>1. \A m \in AutoMarketIds : ChainHolds(m) /\ FlowHolds(m) /\ RowHolds(m)
      BY DEF AutoInit, ChainHolds, FlowHolds, RowHolds, NoMarket, NoFlow, NoRow, Unresolved, Ended
    <2>2. PollHolds(NoPoll)
      BY DEF PollHolds, NoPoll, NoRow
    <2>3. \A m \in AutoMarketIds : ~Alive(m)
      BY DEF AutoInit, NoFlow, NoRow, Alive, Trading
    <2> QED
      BY <2>1, <2>2, <2>3 DEF AutoInit, AutoInv
  <1>2. AutoInv /\ [AutoNext]_automarket => AutoInv'
    <2> SUFFICES ASSUME AutoInv, [AutoNext]_automarket PROVE AutoInv'
      OBVIOUS
    <2>1. CASE FeedTrade \/ FeedStale \/ FeedReconnects \/ UNCHANGED automarket
      <3>1. UNCHANGED <<onChain, rows, polls, past>> /\ UNCHANGED flow
        BY <2>1 DEF FeedTrade, FeedStale, FeedReconnects, automarket, making, resolving, passing
      <3> QED
        BY <3>1, ChainStays, ChainAlone
    <2>2. ASSUME NEW r \in Resolvers, PollFails(r) \/ \E kind \in {"resolve", "finalize"} : Poll(r, kind)
          PROVE  AutoInv'
      BY <2>2, PollStarts, PollSends, PollSaves DEF Poll, ResolveOne, FinalizeOne
    <2> QED
      BY <2>1, <2>2, CreationBegins, CreationGoesOn, CreationEnds, WorldGoesOn, CrashKeeps DEF AutoNext
  <1> QED
    BY <1>1, <1>2, PTL DEF AutoSpec

\* What the rows of the backend say of a market is never ahead of the chain, for
\* any number of markets, overlapping polls, failures, crashes, and resolutions
\* and invalidations by others.
THEOREM RowsNeverLead == AutoSpec => []RowNeverAhead
  <1>1. AutoInv => RowNeverAhead
    BY DEF AutoInv, RowHolds, RowNeverAhead, Unresolved, Ended, OnSale
  <1> QED
    BY <1>1, AutoInvKept, PTL

\* Two markets of a series trade at a time only if their creations overlapped.
THEOREM SeriesTakeTurns == AutoSpec => []OneActivePerSeries
  <1>1. AutoInv => OneActivePerSeries
    <2> SUFFICES ASSUME AutoInv, NEW m \in AutoMarketIds, NEW n \in AutoMarketIds,
                        m # n, Trading(m), Trading(n)
                 PROVE  m \in rows[n].beside \/ n \in rows[m].beside
      BY DEF OneActivePerSeries
    <2>1. Overlap(m, n) /\ RowHolds(m) /\ RowHolds(n)
      BY DEF AutoInv, Alive
    <2> QED
      BY <2>1 DEF Overlap, RowHolds, Trading
  <1> QED
    BY <1>1, AutoInvKept, PTL

-----------------------------------------------------------------------------
(***************************************************************************)
(* Comments.  A vote has seen no more reports than there are, so one that  *)
(* counts to the limit leaves as many behind.                              *)
(***************************************************************************)
IsComment(c) ==
    /\ DOMAIN comments[c] = {"status", "by", "stars", "reports"}
    /\ comments[c].status \in {"none", "active", "removed", "deleted"}
    /\ comments[c].stars \in Nat /\ comments[c].reports \in Nat
    /\ comments[c].status = "none" => comments[c].stars = 0 /\ comments[c].reports = 0

IsVote(v) ==
    /\ DOMAIN v = {"kind", "at", "of", "wallet", "seen"}
    /\ v.of \in CommentIds /\ v.wallet \in Readers /\ v.seen \in Nat
    /\ comments[v.of].status # "none"
    /\ Exists(v.of) => /\ v.seen <= comments[v.of].reports
                       /\ v.at = "remove" => comments[v.of].reports >= ReportLimit

Counts(c) ==
    Exists(c) =>
        /\ comments[c].stars = Cardinality(Voters(starRows, c))
        /\ comments[c].reports = Cardinality(Voters(reportRows, c))
        /\ comments[c].status = "removed" => comments[c].reports >= ReportLimit

CommentInv ==
    /\ DOMAIN comments = CommentIds
    /\ \A c \in CommentIds : IsComment(c) /\ Counts(c)
    /\ \A v \in votes : IsVote(v)

\* The votes on a comment are a natural number.
LEMMA VotersCount ==
    ASSUME NEW rs, NEW c
    PROVE  IsFiniteSet(Voters(rs, c)) /\ Cardinality(Voters(rs, c)) \in Nat
  BY CommentAssumption, FS_Subset, FS_CardinalityType DEF Voters

\* A vote that was not there is one more on its comment, and on no other.
LEMMA VoterAdds ==
    ASSUME NEW rs, NEW c, NEW w \in Readers, <<c, w>> \notin rs
    PROVE  /\ Cardinality(Voters(rs \cup {<<c, w>>}, c)) = Cardinality(Voters(rs, c)) + 1
           /\ \A d : d # c => Voters(rs \cup {<<c, w>>}, d) = Voters(rs, d)
  <1>1. Voters(rs \cup {<<c, w>>}, c) = Voters(rs, c) \cup {w} /\ w \notin Voters(rs, c)
    BY DEF Voters
  <1>2. Cardinality(Voters(rs, c) \cup {w}) = Cardinality(Voters(rs, c)) + 1
    BY <1>1, VotersCount, FS_AddElement
  <1>3. \A d : d # c => Voters(rs \cup {<<c, w>>}, d) = Voters(rs, d)
    BY DEF Voters
  <1> QED
    BY <1>1, <1>2, <1>3

\* Votes wait while the comments keep what they have.
LEMMA VotesWait ==
    ASSUME CommentInv, NEW v \in votes,
           comments'[v.of].status # "none",
           comments'[v.of].reports \in Nat,
           Exists(v.of)' => Exists(v.of) /\ comments'[v.of].reports >= comments[v.of].reports
    PROVE  IsVote(v)'
  <1>1. IsVote(v) /\ comments[v.of].reports \in Nat
    BY DEF CommentInv, IsVote, IsComment
  <1> QED
    BY <1>1, CommentAssumption DEF IsVote

\* A comment is posted, or deleted with its votes.
LEMMA CommentComesAndGoes ==
    ASSUME CommentInv, NEW c \in CommentIds, NEW w \in Readers,
           CreateComment(c, w) \/ DeleteComment(c, w)
    PROVE  CommentInv'
  <1>1. UNCHANGED votes /\ IsComment(c) /\ Counts(c)
    BY DEF CreateComment, DeleteComment, CommentInv
  <1>2. CASE CreateComment(c, w)
    <2>1. /\ comments[c].status = "none" /\ UNCHANGED <<starRows, reportRows>>
          /\ comments' = [comments EXCEPT ![c] = [NoComment EXCEPT !.status = "active", !.by = w]]
      BY <1>2 DEF CreateComment
    <2>2. /\ DOMAIN comments' = CommentIds /\ \A d \in CommentIds \ {c} : comments'[d] = comments[d]
          /\ DOMAIN comments'[c] = {"status", "by", "stars", "reports"}
          /\ comments'[c].status = "active" /\ comments'[c].stars = 0 /\ comments'[c].reports = 0
      BY <2>1 DEF CommentInv, NoComment
    <2>3. \A d \in CommentIds : IsComment(d)' /\ Counts(d)'
      BY <1>1, <2>1, <2>2 DEF CommentInv, IsComment, Counts, Exists
    <2>4. \A v \in votes : v.of # c /\ v.of \in CommentIds
      BY <2>1 DEF CommentInv, IsVote
    <2> QED
      BY <1>1, <2>2, <2>3, <2>4 DEF CommentInv, IsVote, Exists
  <1>3. CASE DeleteComment(c, w)
    <2>1. /\ comments[c].status # "none"
          /\ comments' = [comments EXCEPT ![c].status = "deleted"]
          /\ starRows' = {r \in starRows : r[1] # c}
          /\ reportRows' = {r \in reportRows : r[1] # c}
      BY <1>3 DEF DeleteComment
    <2>2. /\ DOMAIN comments' = CommentIds /\ \A d \in CommentIds \ {c} : comments'[d] = comments[d]
          /\ DOMAIN comments'[c] = {"status", "by", "stars", "reports"}
          /\ comments'[c].status = "deleted" /\ comments'[c].stars = comments[c].stars
          /\ comments'[c].reports = comments[c].reports
      BY <1>1, <2>1 DEF CommentInv, IsComment
    <2>3. \A d : d # c => /\ Voters(starRows', d) = Voters(starRows, d)
                          /\ Voters(reportRows', d) = Voters(reportRows, d)
      BY <2>1 DEF Voters
    <2>4. \A d \in CommentIds : IsComment(d)' /\ Counts(d)'
      <3>1. IsComment(c)' /\ Counts(c)'
        BY <1>1, <2>2 DEF IsComment, Counts, Exists
      <3>2. ASSUME NEW d \in CommentIds \ {c}
            PROVE  IsComment(d)' /\ Counts(d)'
        BY <2>2, <2>3 DEF CommentInv, IsComment, Counts, Exists
      <3> QED
        BY <3>1, <3>2
    <2>5. \A v \in votes : IsVote(v)'
      <3> SUFFICES ASSUME NEW v \in votes PROVE IsVote(v)'
        OBVIOUS
      <3>1. IsVote(v)
        BY DEF CommentInv
      <3> QED
        BY <2>2, <3>1 DEF IsVote, Exists
    <2> QED
      BY <1>1, <2>2, <2>4, <2>5 DEF CommentInv
  <1> QED
    BY <1>2, <1>3

\* A vote begins.
LEMMA VoteBegins ==
    ASSUME CommentInv, NEW c \in CommentIds, NEW w \in Readers, NEW kind, Vote(kind, c, w)
    PROVE  CommentInv'
  <1>0. PICK v : v = [kind |-> kind, at |-> "write", of |-> c, wallet |-> w,
                      seen |-> comments[c].reports]
    OBVIOUS
  <1>1. /\ UNCHANGED <<comments, starRows, reportRows>> /\ votes' = votes \cup {v}
        /\ comments[c].status = "active"
    BY <1>0 DEF Vote
  <1>2. IsVote(v)
    BY <1>0, <1>1 DEF CommentInv, IsComment, IsVote
  <1>3. \A u : IsVote(u) => IsVote(u)'
    BY <1>1 DEF IsVote, Exists
  <1>4. \A u \in votes' : IsVote(u)'
    BY <1>1, <1>2, <1>3 DEF CommentInv
  <1>5. \A d \in CommentIds : IsComment(d)' /\ Counts(d)'
    BY <1>1 DEF CommentInv, IsComment, Counts, Exists
  <1> QED
    BY <1>1, <1>4, <1>5 DEF CommentInv

\* A star or a report is written once, and counted.
LEMMA VoteCounts ==
    ASSUME CommentInv, NEW v \in votes, Star(v) \/ Report(v)
    PROVE  CommentInv'
  <1>1. PICK c \in CommentIds, w \in Readers : c = v.of /\ w = v.wallet
    BY DEF CommentInv, IsVote
  <1>2. IsVote(v) /\ IsComment(c) /\ Counts(c)
    BY DEF CommentInv
  <1>3. CASE /\ Star(v) /\ Exists(c) /\ <<c, w>> \notin starRows
    <2>1. /\ starRows' = starRows \cup {<<c, w>>} /\ UNCHANGED reportRows
          /\ comments' = [comments EXCEPT ![c].stars = @ + 1] /\ votes' = votes \ {v}
      BY <1>1, <1>3 DEF Star, Counted
    <2>2. /\ DOMAIN comments' = CommentIds /\ \A d \in CommentIds \ {c} : comments'[d] = comments[d]
          /\ DOMAIN comments'[c] = DOMAIN comments[c] /\ comments'[c].stars = comments[c].stars + 1
          /\ comments'[c].status = comments[c].status /\ comments'[c].reports = comments[c].reports
      BY <1>2, <2>1 DEF CommentInv, IsComment
    <2>3. /\ Cardinality(Voters(starRows', c)) = Cardinality(Voters(starRows, c)) + 1
          /\ \A d : d # c => Voters(starRows', d) = Voters(starRows, d)
      BY <1>3, <2>1, VoterAdds
    <2>4. comments[c].status # "none"
      BY <1>1, <1>2 DEF IsVote
    <2>5. IsComment(c)' /\ Counts(c)'
      <3>1. IsComment(c)'
        BY <1>2, <2>2, <2>4 DEF IsComment
      <3>2. /\ comments[c].stars = Cardinality(Voters(starRows, c))
            /\ comments[c].reports = Cardinality(Voters(reportRows, c))
            /\ comments[c].status = "removed" => comments[c].reports >= ReportLimit
        BY <1>2, <1>3 DEF Counts
      <3>3. Counts(c)'
        BY <2>1, <2>2, <2>3, <3>2 DEF Counts
      <3> QED
        BY <3>1, <3>3
    <2>6. \A d \in CommentIds \ {c} : IsComment(d)' /\ Counts(d)'
      BY <2>1, <2>2, <2>3 DEF CommentInv, IsComment, Counts, Exists
    <2>7. \A u \in votes' : IsVote(u)'
      <3> SUFFICES ASSUME NEW u \in votes PROVE IsVote(u)'
        BY <2>1
      <3>1. IsVote(u) /\ comments[u.of].reports \in Nat
        BY DEF CommentInv, IsVote, IsComment
      <3> QED
        BY <2>2, <3>1 DEF IsVote, Exists
    <2> QED
      BY <2>2, <2>5, <2>6, <2>7 DEF CommentInv
  <1>4. CASE /\ Report(v) /\ Exists(c) /\ <<c, w>> \notin reportRows
    <2>1. /\ reportRows' = reportRows \cup {<<c, w>>} /\ UNCHANGED starRows
          /\ comments' = [comments EXCEPT ![c].reports = @ + 1]
          /\ IF v.seen + 1 >= ReportLimit
             THEN votes' = (votes \ {v}) \cup {[v EXCEPT !.at = "remove"]}
             ELSE votes' = votes \ {v}
      BY <1>1, <1>4 DEF Report
    <2>2. /\ DOMAIN comments' = CommentIds /\ \A d \in CommentIds \ {c} : comments'[d] = comments[d]
          /\ DOMAIN comments'[c] = DOMAIN comments[c] /\ comments'[c].reports = comments[c].reports + 1
          /\ comments'[c].status = comments[c].status /\ comments'[c].stars = comments[c].stars
      BY <1>2, <2>1 DEF CommentInv, IsComment
    <2>3. /\ Cardinality(Voters(reportRows', c)) = Cardinality(Voters(reportRows, c)) + 1
          /\ \A d : d # c => Voters(reportRows', d) = Voters(reportRows, d)
      BY <1>4, <2>1, VoterAdds
    <2>4. comments[c].status # "none"
      BY <1>1, <1>2 DEF IsVote
    <2>5. IsComment(c)' /\ Counts(c)'
      <3>1. comments[c].reports \in Nat /\ (comments[c].status = "removed" => comments[c].reports >= ReportLimit)
        BY <1>2, <1>4 DEF IsComment, Counts
      <3>2. comments'[c].reports \in Nat /\ (comments'[c].status = "removed" => comments'[c].reports >= ReportLimit)
        BY <2>2, <3>1, CommentAssumption
      <3> QED
        BY <1>2, <1>4, <2>1, <2>2, <2>3, <2>4, <3>2 DEF IsComment, Counts, Exists
    <2>6. \A d \in CommentIds \ {c} : IsComment(d)' /\ Counts(d)'
      BY <2>1, <2>2, <2>3 DEF CommentInv, IsComment, Counts, Exists
    <2>7. \A u \in votes : IsVote(u)'
      <3> SUFFICES ASSUME NEW u \in votes PROVE IsVote(u)'
        OBVIOUS
      <3>1. IsVote(u) /\ u.of \in CommentIds /\ comments[u.of].reports \in Nat
        BY DEF CommentInv, IsVote, IsComment
      <3>2. /\ comments'[u.of].status = comments[u.of].status
            /\ comments'[u.of].reports \in Nat /\ comments'[u.of].reports >= comments[u.of].reports
        BY <2>2, <3>1
      <3> QED
        BY <3>1, <3>2, VotesWait DEF IsVote, Exists
    <2>8. ASSUME v.seen + 1 >= ReportLimit
          PROVE  IsVote([v EXCEPT !.at = "remove"])'
      <3>1. /\ v.seen \in Nat /\ v.seen <= comments[c].reports /\ comments[c].reports \in Nat
        BY <1>1, <1>2, <1>4 DEF IsVote, IsComment
      <3>2. comments'[c].reports >= ReportLimit /\ v.seen <= comments'[c].reports
        BY <2>2, <2>8, <3>1, CommentAssumption
      <3> QED
        BY <1>1, <1>2, <2>2, <2>4, <3>2 DEF IsVote
    <2> QED
      BY <2>1, <2>2, <2>5, <2>6, <2>7, <2>8 DEF CommentInv
  <1>5. CASE UNCHANGED <<comments, starRows, reportRows>> /\ votes' \subseteq votes
    BY <1>5 DEF CommentInv, IsComment, IsVote, Counts, Exists
  <1> QED
    BY <1>1, <1>3, <1>4, <1>5 DEF Star, Report, Counted

\* A vote that counted to the limit removes the comment, or ends.
LEMMA VoteRemoves ==
    ASSUME CommentInv, NEW v \in votes, RemoveReported(v) \/ VoteFails(v)
    PROVE  CommentInv'
  <1>1. PICK c \in CommentIds : c = v.of
    BY DEF CommentInv, IsVote
  <1>2. IsVote(v) /\ IsComment(c) /\ Counts(c)
    BY DEF CommentInv
  <1>3. CASE UNCHANGED <<comments, starRows, reportRows>> /\ votes' \subseteq votes
    BY <1>3 DEF CommentInv, IsComment, IsVote, Counts, Exists
  <1>4. CASE RemoveReported(v) /\ Exists(c)
    <2>1. /\ UNCHANGED <<starRows, reportRows>> /\ votes' = votes \ {v} /\ v.at = "remove"
          /\ comments' = [comments EXCEPT ![c].status = "removed"]
      BY <1>1, <1>4 DEF RemoveReported, Counted
    <2>2. /\ DOMAIN comments' = CommentIds /\ \A d \in CommentIds \ {c} : comments'[d] = comments[d]
          /\ DOMAIN comments'[c] = DOMAIN comments[c] /\ comments'[c].reports = comments[c].reports
          /\ comments'[c].status = "removed" /\ comments'[c].stars = comments[c].stars
      BY <1>2, <2>1 DEF CommentInv, IsComment
    <2>3. IsComment(c)' /\ Counts(c)'
      BY <1>1, <1>2, <1>4, <2>1, <2>2 DEF IsComment, Counts, Exists, IsVote
    <2>4. \A d \in CommentIds \ {c} : IsComment(d)' /\ Counts(d)'
      BY <2>1, <2>2 DEF CommentInv, IsComment, Counts, Exists
    <2>5. \A u \in votes : IsVote(u)'
      <3> SUFFICES ASSUME NEW u \in votes PROVE IsVote(u)'
        OBVIOUS
      <3>1. IsVote(u)
        BY DEF CommentInv
      <3> QED
        BY <1>4, <2>2, <3>1 DEF IsVote, Exists
    <2> QED
      BY <2>1, <2>2, <2>3, <2>4, <2>5 DEF CommentInv
  <1> QED
    BY <1>1, <1>3, <1>4 DEF RemoveReported, VoteFails, Counted

\* The counters of a comment are those of the wallets that voted, and it is
\* removed only if as many as the limit reported it: for any number of
\* comments, readers and votes at a time.
THEOREM VotesCounted == CommentSpec => []VotesAreWallets
  <1>1. CommentInit => CommentInv
    <2> SUFFICES ASSUME CommentInit PROVE CommentInv
      OBVIOUS
    <2>1. \A c \in CommentIds : comments[c] = NoComment
      BY DEF CommentInit
    <2>2. \A c : Voters({}, c) = {}
      BY DEF Voters
    <2>3. Cardinality({}) = 0
      BY FS_EmptySet
    <2>4. \A c \in CommentIds : IsComment(c) /\ Counts(c)
      BY <2>1, <2>2, <2>3 DEF CommentInit, IsComment, Counts, NoComment
    <2> QED
      BY <2>4 DEF CommentInit, CommentInv
  <1>2. CommentInv /\ [CommentNext]_commentary => CommentInv'
    <2> SUFFICES ASSUME CommentInv, [CommentNext]_commentary PROVE CommentInv'
      OBVIOUS
    <2>1. CASE UNCHANGED commentary
      BY <2>1 DEF commentary, CommentInv, IsComment, IsVote, Counts, Exists
    <2> QED
      BY <2>1, CommentComesAndGoes, VoteBegins, VoteCounts, VoteRemoves DEF CommentNext
  <1>3. CommentInv => VotesAreWallets
    BY DEF CommentInv, Counts, VotesAreWallets
  <1> QED
    BY <1>1, <1>2, <1>3, PTL DEF CommentSpec

-----------------------------------------------------------------------------
(***************************************************************************)
(* Points.  An award writes the fields it changed in a row it read, and    *)
(* those of referrals are not among them; a credit goes to the referrer    *)
(* that the referral still names.                                          *)
(***************************************************************************)
Fields == DOMAIN NewAccount
Referrals == [status : {"none", "pending", "completed"}, referrer : Owners \cup {"none"}]

Exact(w) ==
    space[w].exists =>
        /\ DOMAIN space[w] = Fields
        /\ space[w].referral = Credited(w) * PointsConfig.referralBonus
        /\ space[w].referrals = Credited(w)

AwardHolds(a) ==
    /\ a.of \in Owners
    /\ IF a.kind = "credit"
       THEN referral[a.of].status # "none" /\ referral[a.of].referrer = a.row.referrer
       ELSE space[a.of].exists /\ DOMAIN a.row = Fields

PointsInv ==
    /\ DOMAIN space = Owners /\ \A w \in Owners : Exact(w)
    /\ referral \in [Owners -> Referrals]
    /\ \A w \in Owners : referral[w].status # "none" =>
         referral[w].referrer \in Owners /\ space[referral[w].referrer].exists
    /\ \A a \in awards : AwardHolds(a)

\* The fields of a row of points.
LEMMA FieldsAre ==
    Fields = {"exists", "total", "trading", "bonus", "referrals", "level", "by", "trades", "isNew",
              "bonusDay", "comments", "commentDay", "referral"}
  BY DEF Fields, NewAccount

\* The referrals that are credited to a wallet are finitely many.
LEMMA CreditedNat ==
    ASSUME NEW w
    PROVE  Credited(w) \in Nat
  BY PointsAssumption, FS_Subset, FS_CardinalityType DEF Credited

\* They follow the table of referrals.
LEMMA CreditedSame ==
    ASSUME NEW w,
           \A u \in Owners : (referral'[u] = [status |-> "completed", referrer |-> w])
                               <=> (referral[u] = [status |-> "completed", referrer |-> w])
    PROVE  Credited(w)' = Credited(w)
  <1>1. {u \in Owners : referral'[u] = [status |-> "completed", referrer |-> w]}
          = {u \in Owners : referral[u] = [status |-> "completed", referrer |-> w]}
    OBVIOUS
  <1> QED
    BY <1>1 DEF Credited

\* A referral that is completed is one more.
LEMMA CreditedOnce ==
    ASSUME NEW u \in Owners, NEW w \in Owners,
           referral \in [Owners -> Referrals],
           referral[u].status = "pending", referral[u].referrer = w,
           referral' = [referral EXCEPT ![u].status = "completed"]
    PROVE  /\ Credited(w)' = Credited(w) + 1
           /\ \A v \in Owners \ {w} : Credited(v)' = Credited(v)
  <1>1. /\ referral'[u] = [status |-> "completed", referrer |-> w]
        /\ \A v \in Owners \ {u} : referral'[v] = referral[v]
        /\ \A v : referral[u] # [status |-> "completed", referrer |-> v]
    BY DEF Referrals
  <1> DEFINE before == {v \in Owners : referral[v] = [status |-> "completed", referrer |-> w]}
             after == {v \in Owners : referral'[v] = [status |-> "completed", referrer |-> w]}
  <1>2. after = before \cup {u} /\ u \notin before
    BY <1>1
  <1>3. IsFiniteSet(before)
    BY PointsAssumption, FS_Subset
  <1> HIDE DEF before, after
  <1>4. Cardinality(after) = Cardinality(before) + 1
    BY <1>2, <1>3, FS_AddElement
  <1>5. \A v \in Owners \ {w} : Credited(v)' = Credited(v)
    <2> SUFFICES ASSUME NEW v \in Owners \ {w} PROVE Credited(v)' = Credited(v)
      OBVIOUS
    <2>1. \A x \in Owners : (referral'[x] = [status |-> "completed", referrer |-> v])
                               <=> (referral[x] = [status |-> "completed", referrer |-> v])
      BY <1>1
    <2> QED
      BY <2>1, CreditedSame
  <1> QED
    BY <1>4, <1>5 DEF before, after, Credited

\* An award keeps what was said of it while rows stay and referrals go on.
LEMMA AwardsWait ==
    ASSUME PointsInv, NEW a \in awards,
           \A w \in Owners : space[w].exists => space'[w].exists,
           \A w \in Owners : referral[w].status # "none" =>
             referral'[w].status # "none" /\ referral'[w].referrer = referral[w].referrer
    PROVE  AwardHolds(a)'
  BY DEF PointsInv, AwardHolds

\* A row changes, and its referral fields do not.
LEMMA RowChanges ==
    ASSUME PointsInv, NEW w \in Owners, NEW row,
           space' = [space EXCEPT ![w] = row],
           row.exists, DOMAIN row = Fields,
           IF space[w].exists
           THEN row.referral = space[w].referral /\ row.referrals = space[w].referrals
           ELSE row.referral = 0 /\ row.referrals = 0,
           UNCHANGED referral, \A a \in awards' \ awards : AwardHolds(a)'
    PROVE  PointsInv'
  <1>1. /\ DOMAIN space' = Owners /\ space'[w] = row
        /\ \A v \in Owners \ {w} : space'[v] = space[v]
    BY DEF PointsInv
  <1>2. \A v : Credited(v)' = Credited(v)
    BY CreditedSame
  <1>3. ~space[w].exists => Credited(w) = 0
    <2> SUFFICES ASSUME ~space[w].exists PROVE Credited(w) = 0
      OBVIOUS
    <2>1. ASSUME NEW u \in Owners, referral[u] = [status |-> "completed", referrer |-> w]
          PROVE  FALSE
      BY <2>1 DEF PointsInv
    <2>2. {u \in Owners : referral[u] = [status |-> "completed", referrer |-> w]} = {}
      BY <2>1
    <2> QED
      BY <2>2, FS_EmptySet DEF Credited
  <1>4. Exact(w)'
    <2>1. CASE space[w].exists
      BY <2>1, <1>1, <1>2 DEF PointsInv, Exact
    <2>2. CASE ~space[w].exists
      BY <2>2, <1>1, <1>2, <1>3 DEF Exact, PointsConfig
    <2> QED
      BY <2>1, <2>2
  <1>5. \A v \in Owners \ {w} : Exact(v)'
    BY <1>1, <1>2 DEF PointsInv, Exact
  <1>6. \A v \in Owners : space[v].exists => space'[v].exists
    BY <1>1
  <1>7. \A a \in awards' : AwardHolds(a)'
    BY <1>6, AwardsWait
  <1> QED
    BY <1>1, <1>4, <1>5, <1>6, <1>7 DEF PointsInv

\* What an award computes differs from what it read in other fields.
LEMMA AwardWrites ==
    ASSUME PointsInv, NEW a \in awards, NEW new, WriteAward(a, new), a.kind # "credit",
           DOMAIN new = Fields,
           \A f \in {"exists", "referral", "referrals"} : new[f] = a.row[f]
    PROVE  PointsInv'
  <1>1. AwardHolds(a) /\ a.of \in Owners
    BY DEF PointsInv, AwardHolds
  <1>2. PICK row : row = Changed(a.of, a.row, new)
    OBVIOUS
  <1>3. /\ space' = [space EXCEPT ![a.of] = row] /\ UNCHANGED referral /\ awards' = awards \ {a}
    BY <1>2 DEF WriteAward
  <1>4. /\ DOMAIN row = Fields
        /\ \A f \in {"exists", "referral", "referrals"} : row[f] = space[a.of][f]
    BY <1>2, FieldsAre DEF Changed
  <1>5. space[a.of].exists
    BY <1>1 DEF AwardHolds
  <1>6. row.exists /\ row.referral = space[a.of].referral /\ row.referrals = space[a.of].referrals
    BY <1>4, <1>5
  <1> QED
    BY <1>1, <1>3, <1>4, <1>5, <1>6, RowChanges

\* The points themselves are among the fields that an award changes.
LEMMA AwardedFields ==
    ASSUME NEW row, NEW kind, DOMAIN row = Fields
    PROVE  /\ DOMAIN Awarded(row, kind) = Fields
           /\ \A f \in {"exists", "referral", "referrals"} : Awarded(row, kind)[f] = row[f]
  BY FieldsAre DEF Awarded, Part

\* Rows are made and marked, codes applied, trades counted.
LEMMA AccountsChange ==
    ASSUME PointsInv, NEW w \in Owners,
           \/ GetOrCreateUserPoints(w) \/ MarkUserAsNotNew(w) \/ OrderFilled(w)
           \/ \E kind : kind # "credit" /\ ReadAccount(w, kind)
    PROVE  PointsInv'
  <1>0. DOMAIN NewAccount = Fields /\ NewAccount.exists /\ NewAccount.referral = 0 /\ NewAccount.referrals = 0
    BY DEF NewAccount, Fields
  <1>1. CASE GetOrCreateUserPoints(w)
    BY <1>0, <1>1, RowChanges DEF GetOrCreateUserPoints
  <1>2. CASE MarkUserAsNotNew(w)
    <2>1. PICK row : row = [space[w] EXCEPT !.isNew = FALSE]
      OBVIOUS
    <2>2. /\ space[w].exists /\ space' = [space EXCEPT ![w] = row] /\ UNCHANGED <<referral, awards>>
      BY <1>2, <2>1 DEF MarkUserAsNotNew
    <2>3. /\ DOMAIN row = Fields /\ row.exists
          /\ row.referral = space[w].referral /\ row.referrals = space[w].referrals
      BY <2>1, <2>2, FieldsAre DEF PointsInv, Exact
    <2> QED
      BY <2>2, <2>3, RowChanges
  <1>3. CASE OrderFilled(w)
    <2>1. /\ UNCHANGED referral
          /\ IF space[w].exists THEN space' = [space EXCEPT ![w].trades = @ + 1] ELSE space' = space
          /\ awards' = IF referral[w].status = "pending"
                       THEN awards \cup {[id |-> awarded, kind |-> "credit", of |-> w,
                                          row |-> referral[w]]}
                       ELSE awards
      BY <1>3 DEF OrderFilled
    <2>2. \A a \in awards' \ awards : AwardHolds(a)'
      BY <2>1 DEF AwardHolds
    <2>3. CASE space[w].exists
      <3>1. PICK row : row = [space[w] EXCEPT !.trades = @ + 1]
        OBVIOUS
      <3>2. space' = [space EXCEPT ![w] = row]
        BY <2>1, <2>3, <3>1
      <3>3. /\ DOMAIN row = Fields /\ row.exists
            /\ row.referral = space[w].referral /\ row.referrals = space[w].referrals
        BY <2>3, <3>1, FieldsAre DEF PointsInv, Exact
      <3> QED
        BY <2>1, <2>2, <2>3, <3>2, <3>3, RowChanges
    <2>4. CASE ~space[w].exists
      <3>1. UNCHANGED <<space, referral>>
        BY <2>1, <2>4
      <3>2. \A v : Credited(v)' = Credited(v)
        BY <3>1, CreditedSame
      <3>3. \A a \in awards' : AwardHolds(a)'
        BY <2>2, <3>1, AwardsWait
      <3> QED
        BY <3>1, <3>2, <3>3 DEF PointsInv, Exact
    <2> QED
      BY <2>3, <2>4
  <1>4. ASSUME NEW kind, kind # "credit", ReadAccount(w, kind)
        PROVE  PointsInv'
    <2>1. /\ UNCHANGED <<space, referral>> /\ space[w].exists
          /\ awards' = awards \cup {[id |-> awarded, kind |-> kind, of |-> w, row |-> space[w]]}
      BY <1>4 DEF ReadAccount
    <2>2. \A v : Credited(v)' = Credited(v)
      BY <2>1, CreditedSame
    <2>3. \A a \in awards' \ awards : AwardHolds(a)'
      BY <1>4, <2>1 DEF AwardHolds, PointsInv, Exact
    <2>4. \A a \in awards' : AwardHolds(a)'
      BY <2>1, <2>3, AwardsWait
    <2> QED
      BY <2>1, <2>2, <2>4 DEF PointsInv, Exact
  <1> QED
    BY <1>1, <1>2, <1>3, <1>4

\* A user's referral is pending from when the code is applied.
LEMMA CodeApplies ==
    ASSUME PointsInv, NEW w \in Owners, NEW r \in Owners, ApplyReferralCode(w, r)
    PROVE  PointsInv'
  <1>0. PICK old : old = IF space[w].exists THEN space[w] ELSE NewAccount
    OBVIOUS
  <1>1. PICK row : row = [old EXCEPT !.by = r, !.total = old.total + PointsConfig.referredBonus,
                              !.bonus = @ + PointsConfig.referredBonus, !.isNew = FALSE,
                              !.level = IF space[w].exists
                                        THEN CalculateLevel(old.total + PointsConfig.referredBonus)
                                        ELSE "iron"]
    OBVIOUS
  <1>2. /\ space[r].exists /\ r # w /\ referral[w] = NoReferral /\ UNCHANGED awards
        /\ space' = [space EXCEPT ![w] = row]
        /\ referral' = [referral EXCEPT ![w] = [status |-> "pending", referrer |-> r]]
    BY <1>0, <1>1 DEF ApplyReferralCode
  <1>3. DOMAIN old = Fields /\ old.exists
        /\ (~space[w].exists => old.referral = 0 /\ old.referrals = 0)
    BY <1>0 DEF PointsInv, Exact, NewAccount, Fields
  <1>4. /\ DOMAIN row = Fields /\ row.exists
        /\ row.referral = old.referral /\ row.referrals = old.referrals
    BY <1>1, <1>3, FieldsAre
  <1>5. /\ referral' \in [Owners -> Referrals] /\ referral[w].status = "none"
        /\ referral'[w].status = "pending" /\ referral'[w].referrer = r
        /\ \A v \in Owners \ {w} : referral'[v] = referral[v]
    BY <1>2 DEF PointsInv, Referrals, NoReferral
  <1>6. ASSUME NEW v
        PROVE  Credited(v)' = Credited(v)
    <2>1. \A u \in Owners : (referral'[u] = [status |-> "completed", referrer |-> v])
                               <=> (referral[u] = [status |-> "completed", referrer |-> v])
      BY <1>5
    <2> QED
      BY <2>1, CreditedSame
  <1>7. /\ DOMAIN space' = Owners /\ space'[w] = row
        /\ \A v \in Owners \ {w} : space'[v] = space[v]
    BY <1>2 DEF PointsInv
  <1>8. Exact(w)'
    <2>1. CASE space[w].exists
      BY <2>1, <1>0, <1>4, <1>6, <1>7 DEF PointsInv, Exact
    <2>2. CASE ~space[w].exists
      <3>1. \A u \in Owners : referral[u] # [status |-> "completed", referrer |-> w]
        BY <2>2 DEF PointsInv
      <3>2. {u \in Owners : referral[u] = [status |-> "completed", referrer |-> w]} = {}
        BY <3>1
      <3>3. Credited(w) = 0
        BY <3>2, FS_EmptySet DEF Credited
      <3> QED
        BY <2>2, <3>3, <1>3, <1>4, <1>6, <1>7 DEF Exact, PointsConfig
    <2> QED
      BY <2>1, <2>2
  <1>9. \A v \in Owners \ {w} : Exact(v)'
    BY <1>6, <1>7 DEF PointsInv, Exact
  <1>10. \A v \in Owners : space[v].exists => space'[v].exists
    BY <1>4, <1>3, <1>7
  <1>11. \A a \in awards' : AwardHolds(a)'
    BY <1>2, <1>5, <1>10, AwardsWait
  <1>12. \A v \in Owners : referral'[v].status # "none" =>
           referral'[v].referrer \in Owners /\ space'[referral'[v].referrer].exists
    BY <1>2, <1>5, <1>10 DEF PointsInv
  <1> QED
    BY <1>5, <1>7, <1>8, <1>9, <1>11, <1>12 DEF PointsInv

\* An award is written, if there is no reason against it.
LEMMA AwardEnds ==
    ASSUME PointsInv, NEW a \in awards,
           AddTradePoints(a) \/ AddCommentPoints(a) \/ ClaimDailyBonus(a)
    PROVE  PointsInv'
  <1>1. a.kind # "credit" /\ DOMAIN a.row = Fields
    <2>1. a.kind # "credit"
      BY DEF AddTradePoints, AddCommentPoints, ClaimDailyBonus
    <2> QED
      BY <2>1 DEF PointsInv, AwardHolds
  <1>2. CASE awards' = awards \ {a} /\ UNCHANGED <<space, referral>>
    <2>1. \A v : Credited(v)' = Credited(v)
      BY <1>2, CreditedSame
    <2>2. \A b \in awards' : AwardHolds(b)'
      BY <1>2, AwardsWait
    <2> QED
      BY <1>2, <2>1, <2>2 DEF PointsInv, Exact
  <1>3. \/ awards' = awards \ {a} /\ UNCHANGED <<space, referral>>
        \/ WriteAward(a, Awarded(a.row, a.kind))
        \/ \E n, d : WriteAward(a, [Awarded(a.row, "comment") EXCEPT !.comments = n, !.commentDay = d])
        \/ \E d : WriteAward(a, [Awarded(a.row, "dailyLoginBonus") EXCEPT !.bonusDay = d])
    BY DEF AddTradePoints, AddCommentPoints, ClaimDailyBonus
  <1>4. CASE WriteAward(a, Awarded(a.row, a.kind))
    BY <1>1, <1>4, AwardedFields, AwardWrites
  <1>5. ASSUME NEW n, NEW d,
               WriteAward(a, [Awarded(a.row, "comment") EXCEPT !.comments = n, !.commentDay = d])
        PROVE  PointsInv'
    <2>1. PICK new, base : /\ base = Awarded(a.row, "comment")
                           /\ new = [base EXCEPT !.comments = n, !.commentDay = d]
      OBVIOUS
    <2>2. /\ DOMAIN base = Fields
          /\ \A f \in {"exists", "referral", "referrals"} : base[f] = a.row[f]
      BY <1>1, <2>1, AwardedFields
    <2>3. /\ DOMAIN new = Fields
          /\ \A f \in {"exists", "referral", "referrals"} : new[f] = a.row[f]
      BY <2>1, <2>2, FieldsAre
    <2> QED
      BY <1>1, <1>5, <2>1, <2>3, AwardWrites
  <1>6. ASSUME NEW d, WriteAward(a, [Awarded(a.row, "dailyLoginBonus") EXCEPT !.bonusDay = d])
        PROVE  PointsInv'
    <2>1. PICK new, base : /\ base = Awarded(a.row, "dailyLoginBonus")
                           /\ new = [base EXCEPT !.bonusDay = d]
      OBVIOUS
    <2>2. /\ DOMAIN base = Fields
          /\ \A f \in {"exists", "referral", "referrals"} : base[f] = a.row[f]
      BY <1>1, <2>1, AwardedFields
    <2>3. /\ DOMAIN new = Fields
          /\ \A f \in {"exists", "referral", "referrals"} : new[f] = a.row[f]
      BY <2>1, <2>2, FieldsAre
    <2> QED
      BY <1>1, <1>6, <2>1, <2>3, AwardWrites
  <1> QED
    BY <1>2, <1>3, <1>4, <1>5, <1>6

\* A referrer is credited for a referral that was pending.
LEMMA CreditEnds ==
    ASSUME PointsInv, NEW a \in awards, CreditReferrerOnFirstTrade(a)
    PROVE  PointsInv'
  <1>1. a.kind = "credit" /\ awards' = awards \ {a}
    BY DEF CreditReferrerOnFirstTrade
  <1>2. CASE UNCHANGED <<space, referral>>
    <2>1. \A v : Credited(v)' = Credited(v)
      BY <1>2, CreditedSame
    <2>2. \A b \in awards' : AwardHolds(b)'
      BY <1>1, <1>2, AwardsWait
    <2> QED
      BY <1>2, <2>1, <2>2 DEF PointsInv, Exact
  <1>3. CASE Credit(a) /\ referral[a.of].status = "pending"
    <2> DEFINE u == a.of
               r == a.row.referrer
    <2>1. u \in Owners /\ referral[u].referrer = r
      BY <1>1 DEF PointsInv, AwardHolds
    <2>2. r \in Owners /\ space[r].exists /\ referral[u].status = "pending"
      BY <1>3, <2>1 DEF PointsInv
    <2>3. referral' = [referral EXCEPT ![u].status = "completed"]
      BY <1>3 DEF Credit
    <2>4. space' = [space EXCEPT ![r].total = space[r].total + PointsConfig.referralBonus,
                      ![r].referral = @ + PointsConfig.referralBonus, ![r].referrals = @ + 1,
                      ![r].level = CalculateLevel(space[r].total + PointsConfig.referralBonus)]
      BY <1>3 DEF Credit
    <2> HIDE DEF u, r
    <2>5. DOMAIN space[r] = Fields /\ PointsConfig.referralBonus = 10000
      BY <2>2 DEF PointsInv, Exact, PointsConfig
    <2>6. /\ Credited(r)' = Credited(r) + 1 /\ Credited(r) \in Nat
          /\ \A v \in Owners \ {r} : Credited(v)' = Credited(v)
      BY <2>1, <2>2, <2>3, CreditedOnce, CreditedNat DEF PointsInv
    <2>7. /\ DOMAIN space' = Owners /\ \A v \in Owners \ {r} : space'[v] = space[v]
          /\ DOMAIN space'[r] = Fields /\ space'[r].exists
          /\ space'[r].referral = space[r].referral + 10000
          /\ space'[r].referrals = space[r].referrals + 1
      <3>1. DOMAIN space' = Owners /\ \A v \in Owners \ {r} : space'[v] = space[v]
        BY <2>4 DEF PointsInv
      <3>2. r \in DOMAIN space
        BY <2>2 DEF PointsInv
      <3>3. DOMAIN space'[r] = Fields /\ space'[r].exists
        BY <3>2, <2>4, <2>2, <2>5, FieldsAre
      <3>4. space'[r].referral = space[r].referral + 10000
        BY <3>2, <2>4, <2>5, FieldsAre
      <3>5. space'[r].referrals = space[r].referrals + 1
        BY <3>2, <2>4, <2>5, FieldsAre
      <3> QED
        BY <3>1, <3>3, <3>4, <3>5
    <2>8. Exact(r)'
      <3>1. space[r].referral = Credited(r) * 10000 /\ space[r].referrals = Credited(r)
        BY <2>2 DEF PointsInv, Exact, PointsConfig
      <3>2. space'[r].referral = Credited(r)' * 10000 /\ space'[r].referrals = Credited(r)'
        BY <3>1, <2>6, <2>7
      <3> QED
        BY <3>2, <2>7 DEF Exact, PointsConfig
    <2>9. \A v \in Owners \ {r} : Exact(v)'
      BY <2>6, <2>7 DEF PointsInv, Exact
    <2>10. \A v \in Owners : space[v].exists => space'[v].exists
      BY <2>7
    <2>11. /\ referral' \in [Owners -> Referrals]
           /\ \A v \in Owners : /\ referral'[v].referrer = referral[v].referrer
                                /\ referral'[v].status = "none" <=> referral[v].status = "none"
      BY <2>2, <2>3 DEF PointsInv, Referrals
    <2>12. \A b \in awards' : AwardHolds(b)'
      BY <1>1, <2>10, <2>11, AwardsWait
    <2>13. \A v \in Owners : referral'[v].status # "none" =>
             referral'[v].referrer \in Owners /\ space'[referral'[v].referrer].exists
      BY <2>10, <2>11 DEF PointsInv
    <2> QED
      BY <2>7, <2>8, <2>9, <2>11, <2>12, <2>13 DEF PointsInv
  <1> QED
    BY <1>2, <1>3 DEF CreditReferrerOnFirstTrade, Credit

\* A referrer has been credited exactly once for each user who was referred
\* and traded, for any number of wallets and overlapping awards.
THEOREM ReferralsCounted == PointsSpec => []ReferralPointsExact
  <1>1. PointsInit => PointsInv
    <2> SUFFICES ASSUME PointsInit PROVE PointsInv
      OBVIOUS
    <2>1. /\ referral \in [Owners -> Referrals] /\ \A w \in Owners : referral[w] = NoReferral
          /\ DOMAIN space = Owners /\ awards = {}
      BY DEF PointsInit, Referrals, NoReferral
    <2>2. \A w \in Owners : Credited(w) = 0
      <3>1. \A w, u \in Owners : referral[u] # [status |-> "completed", referrer |-> w]
        BY <2>1 DEF NoReferral
      <3>2. \A w \in Owners : {u \in Owners : referral[u] = [status |-> "completed", referrer |-> w]} = {}
        BY <3>1
      <3> QED
        BY <3>2, FS_EmptySet DEF Credited
    <2>3. ASSUME NEW w \in Owners
          PROVE  Exact(w)
      <3>1. space[w] \in {NoAccount, [NewAccount EXCEPT !.total = StartTotal, !.trading = StartTotal]}
        BY DEF PointsInit
      <3>2. space[w].exists => /\ DOMAIN space[w] = Fields
                               /\ space[w].referral = 0 /\ space[w].referrals = 0
        <4>1. CASE space[w] = NoAccount
          BY <4>1 DEF NoAccount
        <4>2. CASE space[w] = [NewAccount EXCEPT !.total = StartTotal, !.trading = StartTotal]
          <5>1. DOMAIN NewAccount = Fields /\ NewAccount.referral = 0 /\ NewAccount.referrals = 0
            BY DEF NewAccount, Fields
          <5> QED
            BY <4>2, <5>1, FieldsAre
        <4> QED
          BY <3>1, <4>1, <4>2
      <3> QED
        BY <3>2, <2>2 DEF Exact, PointsConfig
    <2> QED
      BY <2>1, <2>3 DEF PointsInv, NoReferral
  <1>2. PointsInv /\ [PointsNext]_points => PointsInv'
    <2> SUFFICES ASSUME PointsInv, [PointsNext]_points PROVE PointsInv'
      OBVIOUS
    <2>1. CASE UNCHANGED <<space, referral, awards>>
      <3>1. \A v : Credited(v)' = Credited(v)
        BY <2>1, CreditedSame
      <3>2. \A b \in awards' : AwardHolds(b)'
        BY <2>1, AwardsWait
      <3> QED
        BY <2>1, <3>1, <3>2 DEF PointsInv, Exact
    <2> QED
      BY <2>1, AccountsChange, CodeApplies, AwardEnds, CreditEnds
         DEF PointsNext, points, NextDay, AddStandardTradePoints, AddLeverageTradePoints, AddLimitOrderPoints
  <1>3. PointsInv => ReferralPointsExact
    BY DEF PointsInv, Exact, ReferralPointsExact
  <1> QED
    BY <1>1, <1>2, <1>3, PTL DEF PointsSpec

-----------------------------------------------------------------------------
(***************************************************************************)
(* The faucet.  A payment on record has a row no older than itself, and    *)
(* the last row decides: a claim that may be paid knows of no payment      *)
(* younger than a day.                                                     *)
(***************************************************************************)
ClaimRows == [token : ClaimTypes, status : {"completed", "failed"}, claimedAt : Nat]
Payments == [token : ClaimTypes, at : Nat, recorded : BOOLEAN, known : SUBSET Nat]
Servings == [at : {"idle", "check", "pay", "record", "fail"}, token : ClaimTypes \cup {"none"},
             known : SUBSET Nat, paid : Nat]

FaucetTypes ==
    /\ clock \in Nat /\ clock > Day
    /\ claimRows \in Seq(ClaimRows) /\ payments \in Seq(Payments)
    /\ serving \in [Claims -> Servings]
    /\ \A k \in 1..Len(claimRows) : claimRows[k].claimedAt <= clock

\* A payment on record has its row.
HasRow(i) ==
    payments[i].recorded =>
        \E k \in Completed(payments[i].token) : claimRows[k].claimedAt >= payments[i].at

PaymentHolds(j) ==
    /\ payments[j].at <= clock /\ HasRow(j)
    /\ payments[j].known \subseteq 1..Len(payments)
    /\ \A i \in payments[j].known : payments[j].at > payments[i].at + Day

ServingHolds(r) ==
    /\ r.at = "pay" => /\ r.known \subseteq 1..Len(payments)
                       /\ \A i \in r.known : clock > payments[i].at + Day
    /\ r.at = "record" => r.paid \in 1..Len(payments) /\ payments[r.paid].token = r.token

FaucetInv ==
    /\ FaucetTypes
    /\ \A j \in 1..Len(payments) : PaymentHolds(j)
    /\ \A s \in Claims : ServingHolds(serving[s])

\* A set of natural numbers that is not empty has a least one.
LEMMA LeastOf ==
    ASSUME NEW S \in SUBSET Nat, S # {}
    PROVE  \E n \in S : \A k \in S : n <= k
  <1> DEFINE R == {ss \in Nat \X Nat : ss[1] < ss[2]}
  <1>1. IsWellFoundedOn(R, Nat)
    BY NatLessThanWellFounded DEF OpToRel
  <1> HIDE DEF R
  <1>2. PICK n \in S : \A m \in S : ~ (<<m, n>> \in R)
    BY <1>1, WFMin
  <1>3. \A m \in S : ~ (m < n)
    BY <1>2 DEF R
  <1> QED
    BY <1>3

\* The rows of the table, one by one.
LEMMA RowTypes ==
    ASSUME FaucetTypes
    PROVE  /\ DOMAIN claimRows = 1..Len(claimRows) /\ Len(claimRows) \in Nat
           /\ \A k \in 1..Len(claimRows) : claimRows[k] \in ClaimRows
           /\ \A k \in 1..Len(claimRows) : claimRows[k].claimedAt \in Nat /\ claimRows[k].claimedAt <= clock
           /\ clock \in Nat
  <1>1. claimRows \in Seq(ClaimRows)
    BY DEF FaucetTypes
  <1>2. DOMAIN claimRows = 1..Len(claimRows) /\ Len(claimRows) \in Nat
    BY <1>1
  <1>3. \A k \in 1..Len(claimRows) : claimRows[k] \in ClaimRows
    BY <1>1, <1>2
  <1> QED
    BY <1>2, <1>3 DEF FaucetTypes, ClaimRows

\* One of the completed rows is the youngest.
LEMMA OneIsYoungest ==
    ASSUME FaucetTypes, NEW token1, Completed(token1) # {}
    PROVE  \E i \in Completed(token1) : \A j \in Completed(token1) : claimRows[i].claimedAt >= claimRows[j].claimedAt
  <1> DEFINE ages == {n \in Nat : \E k \in Completed(token1) : n = clock - claimRows[k].claimedAt}
  <1>1. \A k \in Completed(token1) : claimRows[k].claimedAt \in Nat /\ claimRows[k].claimedAt <= clock
    BY RowTypes DEF Completed
  <1>2. clock \in Nat
    BY DEF FaucetTypes
  <1>3. \A k \in Completed(token1) : clock - claimRows[k].claimedAt \in ages
    BY <1>1, <1>2
  <1>4. PICK n \in ages : \A a \in ages : n <= a
    BY <1>3, LeastOf
  <1>5. PICK i \in Completed(token1) : n = clock - claimRows[i].claimedAt
    BY <1>4
  <1>6. \A j \in Completed(token1) : claimRows[i].claimedAt >= claimRows[j].claimedAt
    BY <1>1, <1>2, <1>3, <1>4, <1>5
  <1> QED
    BY <1>6

\* The last row is the youngest of the completed ones.
LEMMA LastIsYoungest ==
    ASSUME FaucetTypes, NEW token1, Completed(token1) # {}
    PROVE  \A k \in Completed(token1) : claimRows[GetLastClaim(token1)].claimedAt >= claimRows[k].claimedAt
  BY OneIsYoungest DEF GetLastClaim

\* What a step never takes back: the rows, and what a payment was.
RowsKept ==
    \A k \in 1..Len(claimRows) : k \in 1..Len(claimRows') /\ claimRows'[k] = claimRows[k]

PaymentsKept ==
    \A i \in 1..Len(payments) :
        i \in 1..Len(payments') /\ payments'[i].at = payments[i].at /\ payments'[i].token = payments[i].token

\* The payments, one by one.
LEMMA PaymentTypes ==
    ASSUME FaucetTypes
    PROVE  /\ DOMAIN payments = 1..Len(payments) /\ Len(payments) \in Nat
           /\ \A i \in 1..Len(payments) : /\ payments[i] \in Payments
                                          /\ payments[i].at \in Nat
                                          /\ payments[i].known \in SUBSET Nat
  <1>1. payments \in Seq(Payments)
    BY DEF FaucetTypes
  <1>2. DOMAIN payments = 1..Len(payments) /\ Len(payments) \in Nat
    BY <1>1
  <1>3. \A i \in 1..Len(payments) : payments[i] \in Payments
    BY <1>1, <1>2
  <1> QED
    BY <1>2, <1>3 DEF Payments

\* The day of the assumption is a number.
LEMMA DayIsNat == Day \in Nat
  BY FaucetAssumption

\* A claim that may be paid knows of no payment on record younger than a day.
LEMMA RecordsHold ==
    ASSUME FaucetInv, NEW token1, CanClaim(token1), NEW i \in Recorded(token1)
    PROVE  i \in 1..Len(payments) /\ clock > payments[i].at + Day
  <1> USE DayIsNat
  <1>1. FaucetTypes /\ i \in 1..Len(payments) /\ payments[i].token = token1 /\ payments[i].recorded
    BY PaymentTypes DEF FaucetInv, Recorded
  <1>2. HasRow(i)
    BY <1>1 DEF FaucetInv, PaymentHolds
  <1>3. PICK k \in Completed(token1) : claimRows[k].claimedAt >= payments[i].at
    BY <1>1, <1>2 DEF HasRow
  <1>4. claimRows[GetLastClaim(token1)].claimedAt < clock - Day
    BY <1>3 DEF CanClaim
  <1>5. claimRows[GetLastClaim(token1)].claimedAt >= claimRows[k].claimedAt
    BY <1>1, <1>3, LastIsYoungest
  <1>6. GetLastClaim(token1) \in Completed(token1)
    <2>1. PICK z \in Completed(token1) : \A j \in Completed(token1) : claimRows[z].claimedAt >= claimRows[j].claimedAt
      BY <1>1, <1>3, OneIsYoungest
    <2> QED
      BY <2>1 DEF GetLastClaim
  <1>7. /\ claimRows[k].claimedAt \in Nat /\ claimRows[GetLastClaim(token1)].claimedAt \in Nat
        /\ payments[i].at \in Nat /\ clock \in Nat
    BY <1>1, <1>3, <1>6, RowTypes, PaymentTypes DEF Completed
  <1> QED
    BY <1>1, <1>3, <1>4, <1>5, <1>7

\* A row that stays keeps a payment on record.
LEMMA RowStays ==
    ASSUME FaucetTypes, FaucetTypes', RowsKept, NEW i \in 1..Len(payments), payments'[i] = payments[i], HasRow(i)
    PROVE  HasRow(i)'
  <1> SUFFICES ASSUME payments[i].recorded
               PROVE  \E k \in Completed(payments[i].token)' : claimRows'[k].claimedAt >= payments'[i].at
    BY DEF HasRow
  <1>1. PICK k \in Completed(payments[i].token) : claimRows[k].claimedAt >= payments[i].at
    BY DEF HasRow
  <1>2. k \in 1..Len(claimRows) /\ claimRows[k].token = payments[i].token /\ claimRows[k].status = "completed"
    BY <1>1, RowTypes DEF Completed
  <1>3. k \in 1..Len(claimRows') /\ claimRows'[k] = claimRows[k]
    BY <1>2 DEF RowsKept
  <1>4. DOMAIN claimRows' = 1..Len(claimRows')
    <2>1. claimRows' \in Seq(ClaimRows)
      BY DEF FaucetTypes
    <2> QED
      BY <2>1
  <1>5. k \in Completed(payments[i].token)'
    BY <1>2, <1>3, <1>4 DEF Completed
  <1> QED
    BY <1>1, <1>3, <1>5

\* What a request has got to still holds while it waits.
LEMMA ServingWaits ==
    ASSUME FaucetInv, FaucetTypes', PaymentsKept, clock' >= clock,
           NEW q \in Claims, serving'[q] = serving[q]
    PROVE  ServingHolds(serving[q])'
  <1> USE DayIsNat
  <1>1. PICK r : r = serving[q]
    OBVIOUS
  <1>2. ServingHolds(r) /\ r = serving'[q]
    BY <1>1 DEF FaucetInv
  <1>3. FaucetTypes /\ clock \in Nat /\ clock' \in Nat
    BY DEF FaucetInv, FaucetTypes
  <1>4. ASSUME r.at = "pay"
        PROVE  /\ r.known \subseteq 1..Len(payments')
               /\ \A i \in r.known : clock' > payments'[i].at + Day
    <2>1. r.known \subseteq 1..Len(payments) /\ \A i \in r.known : clock > payments[i].at + Day
      BY <1>2, <1>4 DEF ServingHolds
    <2>2. \A i \in r.known : i \in 1..Len(payments') /\ payments'[i].at = payments[i].at /\ payments[i].at \in Nat
      BY <2>1, <1>3, PaymentTypes DEF PaymentsKept
    <2> QED
      BY <2>1, <2>2, <1>3
  <1>5. ASSUME r.at = "record"
        PROVE  r.paid \in 1..Len(payments') /\ payments'[r.paid].token = r.token
    BY <1>2, <1>5 DEF ServingHolds, PaymentsKept
  <1> QED
    BY <1>2, <1>4, <1>5 DEF ServingHolds

\* A payment that stays as it was still holds.
LEMMA PaymentWaits ==
    ASSUME FaucetInv, FaucetTypes', RowsKept, PaymentsKept, clock' >= clock,
           NEW j \in 1..Len(payments), payments'[j].known = payments[j].known, HasRow(j)'
    PROVE  PaymentHolds(j)'
  <1>1. FaucetTypes /\ clock \in Nat /\ clock' \in Nat /\ PaymentHolds(j)
    BY DEF FaucetInv, FaucetTypes
  <1>2. j \in 1..Len(payments') /\ payments'[j].at = payments[j].at /\ payments[j].at \in Nat
    BY <1>1, PaymentTypes DEF PaymentsKept
  <1>3. payments'[j].at <= clock'
    BY <1>1, <1>2 DEF PaymentHolds
  <1>4. \A i \in payments'[j].known : /\ i \in 1..Len(payments')
                                      /\ payments'[i].at = payments[i].at
                                      /\ payments[j].at > payments[i].at + Day
    BY <1>1 DEF PaymentHolds, PaymentsKept
  <1> QED
    BY <1>2, <1>3, <1>4 DEF PaymentHolds

\* A step that pays nothing, and serves one request at most.
LEMMA NothingPaid ==
    ASSUME FaucetInv, FaucetTypes', RowsKept, payments' = payments, clock' >= clock,
           \A q \in Claims : serving'[q] = serving[q] \/ ServingHolds(serving[q])'
    PROVE  FaucetInv'
  <1>1. PaymentsKept
    BY DEF PaymentsKept
  <1>2. \A j \in 1..Len(payments) : PaymentHolds(j)'
    <2> SUFFICES ASSUME NEW j \in 1..Len(payments) PROVE PaymentHolds(j)'
      OBVIOUS
    <2>1. FaucetTypes /\ HasRow(j)
      BY DEF FaucetInv, PaymentHolds
    <2>2. HasRow(j)'
      BY <2>1, RowStays
    <2> QED
      BY <2>2, <1>1, PaymentWaits
  <1>3. \A q \in Claims : ServingHolds(serving[q])'
    BY <1>1, ServingWaits
  <1> QED
    BY <1>2, <1>3 DEF FaucetInv

\* The rows and payments of a step that adds one at the end.
LEMMA RowAdded ==
    ASSUME FaucetTypes, NEW row, row \in ClaimRows, row.claimedAt = clock,
           claimRows' = Append(claimRows, row), clock' = clock
    PROVE  /\ claimRows' \in Seq(ClaimRows) /\ RowsKept
           /\ \A k \in 1..Len(claimRows') : claimRows'[k].claimedAt <= clock'
           /\ Len(claimRows) + 1 \in DOMAIN claimRows'
           /\ claimRows'[Len(claimRows) + 1] = row
  <1>1. claimRows \in Seq(ClaimRows) /\ Len(claimRows) \in Nat /\ clock \in Nat
    BY DEF FaucetTypes
  <1>2. claimRows' \in Seq(ClaimRows) /\ Len(claimRows') = Len(claimRows) + 1
    BY <1>1
  <1>3. \A k \in 1..Len(claimRows) : k \in 1..Len(claimRows') /\ claimRows'[k] = claimRows[k]
    BY <1>1, <1>2
  <1>4. claimRows'[Len(claimRows) + 1] = row /\ Len(claimRows) + 1 \in DOMAIN claimRows'
    BY <1>1, <1>2
  <1>5. \A k \in 1..Len(claimRows') : k \in 1..Len(claimRows) \/ k = Len(claimRows) + 1
    BY <1>1, <1>2
  <1>6. \A k \in 1..Len(claimRows) : claimRows[k].claimedAt <= clock
    BY DEF FaucetTypes
  <1>7. clock <= clock
    BY <1>1
  <1> QED
    BY <1>2, <1>3, <1>4, <1>5, <1>6, <1>7 DEF RowsKept

\* Types are kept by a step that keeps the tables and gives a request a value.
LEMMA FaucetTypesStay ==
    ASSUME FaucetTypes, clock' = clock, payments' \in Seq(Payments), serving' \in [Claims -> Servings],
           claimRows' = claimRows
    PROVE  FaucetTypes' /\ RowsKept
  BY RowTypes DEF FaucetTypes, RowsKept

\* What an idle request is.
LEMMA UnaskedServes == Unasked \in Servings /\ Unasked.at = "idle"
  BY DEF Unasked, Servings

\* A request that changes, and nothing else does.
LEMMA ServingMoves ==
    ASSUME FaucetInv, NEW s \in Claims, UNCHANGED <<clock, claimRows, payments>>,
           serving' \in [Claims -> Servings], \A q \in Claims : q # s => serving'[q] = serving[q],
           serving'[s].at \notin {"pay", "record"}
    PROVE  FaucetInv'
  <1>1. FaucetTypes /\ payments' \in Seq(Payments) /\ clock \in Nat /\ clock' >= clock
    BY DEF FaucetInv, FaucetTypes
  <1>2. FaucetTypes' /\ RowsKept
    BY <1>1, FaucetTypesStay
  <1>3. ServingHolds(serving[s])'
    BY DEF ServingHolds
  <1> QED
    BY <1>1, <1>2, <1>3, NothingPaid

\* A request that is over.
LEMMA ServingEnds ==
    ASSUME FaucetInv, NEW s \in Claims, UNCHANGED <<clock, claimRows, payments>>, Over(s)
    PROVE  FaucetInv'
  <1>1. /\ serving'[s] = Unasked /\ serving' \in [Claims -> Servings]
        /\ \A q \in Claims : q # s => serving'[q] = serving[q]
    BY UnaskedServes DEF FaucetInv, FaucetTypes, Over
  <1> QED
    BY <1>1, UnaskedServes, ServingMoves

\* The check of a claim: a claim that may be paid remembers the payments on record.
LEMMA CheckHolds ==
    ASSUME FaucetInv, NEW s \in Claims, NEW token1, Check(s, token1)
    PROVE  FaucetInv'
  <1>1. FaucetTypes /\ serving \in [Claims -> Servings] /\ payments \in Seq(Payments)
    BY DEF FaucetInv, FaucetTypes
  <1>2. UNCHANGED <<clock, claimRows, payments>> /\ clock' >= clock
    BY <1>1 DEF Check, FaucetTypes
  <1>3. CASE CanClaim(token1) /\ serving' = [serving EXCEPT ![s].at = "pay", ![s].known = Recorded(token1)]
    <2>1. \A i \in Recorded(token1) : i \in 1..Len(payments) /\ clock > payments[i].at + Day
      BY <1>3, RecordsHold
    <2>2. Recorded(token1) \in SUBSET Nat
      BY <2>1
    <2>3. PICK K : K = Recorded(token1)
      OBVIOUS
    <2>4. serving'[s] = [serving[s] EXCEPT !.at = "pay", !.known = K] /\ serving[s] \in Servings
      BY <1>1, <1>3, <2>3
    <2>5. serving'[s] \in Servings /\ serving'[s].at = "pay" /\ serving'[s].known = K
      BY <2>2, <2>3, <2>4 DEF Servings
    <2>6. serving' \in [Claims -> Servings] /\ \A q \in Claims : q # s => serving'[q] = serving[q]
      BY <1>1, <1>3, <2>5
    <2>7. FaucetTypes' /\ RowsKept
      BY <1>1, <1>2, <2>6, FaucetTypesStay
    <2>8. K \subseteq 1..Len(payments') /\ \A i \in K : clock' > payments'[i].at + Day
      BY <1>2, <2>1, <2>3
    <2>9. ServingHolds(serving[s])'
      BY <2>5, <2>8 DEF ServingHolds
    <2> QED
      BY <1>2, <2>6, <2>7, <2>9, NothingPaid
  <1>4. CASE Over(s)
    BY <1>1, <1>2, <1>4, ServingEnds
  <1> QED
    BY <1>3, <1>4 DEF Check

\* A request that is asked, fails or ends.
LEMMA PostHolds ==
    ASSUME FaucetInv, NEW s \in Claims, NEW token1 \in ClaimTypes, Post(s, token1)
    PROVE  FaucetInv'
  <1>1. serving'[s] \in Servings /\ serving'[s].at = "check"
        /\ serving' \in [Claims -> Servings] /\ \A q \in Claims : q # s => serving'[q] = serving[q]
    <2>1. serving \in [Claims -> Servings] /\ serving[s] \in Servings
      BY DEF FaucetInv, FaucetTypes
    <2>2. serving'[s] = [serving[s] EXCEPT !.at = "check", !.token = token1]
      BY <2>1 DEF Post
    <2>3. serving'[s] \in Servings /\ serving'[s].at = "check"
      BY <2>1, <2>2 DEF Servings
    <2> QED
      BY <2>1, <2>3 DEF Post
  <1> QED
    BY <1>1, ServingMoves DEF Post

\* A payment that fails.
LEMMA PayFailsHolds ==
    ASSUME FaucetInv, NEW s \in Claims, Step(s, "fail"), UNCHANGED <<clock, claimRows, payments>>
    PROVE  FaucetInv'
  <1>1. serving'[s] \in Servings /\ serving'[s].at = "fail"
        /\ serving' \in [Claims -> Servings] /\ \A q \in Claims : q # s => serving'[q] = serving[q]
    <2>1. serving \in [Claims -> Servings] /\ serving[s] \in Servings
      BY DEF FaucetInv, FaucetTypes
    <2>2. serving'[s] = [serving[s] EXCEPT !.at = "fail"]
      BY <2>1 DEF Step
    <2>3. serving'[s] \in Servings /\ serving'[s].at = "fail"
      BY <2>1, <2>2 DEF Servings
    <2> QED
      BY <2>1, <2>3 DEF Step
  <1> QED
    BY <1>1, ServingMoves

\* The row of a failed claim, which may not be written.
LEMMA RecordFailureHolds ==
    ASSUME FaucetInv, NEW s \in Claims, NEW token1 \in ClaimTypes, RecordFailure(s, token1)
    PROVE  FaucetInv'
  <1>1. FaucetTypes /\ clock \in Nat /\ clock' = clock /\ payments' = payments /\ clock' >= clock
    BY DEF FaucetInv, FaucetTypes, RecordFailure
  <1>2. /\ serving'[s] = Unasked /\ serving' \in [Claims -> Servings]
        /\ \A q \in Claims : q # s => serving'[q] = serving[q]
    BY UnaskedServes DEF FaucetInv, FaucetTypes, RecordFailure, Over
  <1>3. FaucetTypes' /\ RowsKept
    <2>1. CASE claimRows' = claimRows
      BY <1>1, <1>2, <2>1, FaucetTypesStay DEF FaucetTypes
    <2>2. CASE claimRows' = Append(claimRows, Row(token1, "failed"))
      <3>1. PICK row : row = Row(token1, "failed")
        OBVIOUS
      <3>2. row \in ClaimRows /\ row.claimedAt = clock
        BY <3>1, <1>1 DEF Row, ClaimRows
      <3> QED
        BY <2>2, <3>1, <3>2, <1>1, <1>2, RowAdded DEF FaucetTypes
    <2> QED
      BY <2>1, <2>2 DEF RecordFailure
  <1>4. ServingHolds(serving[s])'
    BY <1>2 DEF ServingHolds, Unasked
  <1> QED
    BY <1>1, <1>2, <1>3, <1>4, NothingPaid

\* A payment: it knows what its claim knew, and is not on record yet.
LEMMA PayHolds ==
    ASSUME FaucetInv, NEW s \in Claims, NEW token1 \in ClaimTypes, Pay(s, token1)
    PROVE  FaucetInv'
  <1> USE DayIsNat
  <1>1. FaucetTypes /\ clock \in Nat /\ UNCHANGED <<clock, claimRows>> /\ clock' >= clock
    BY DEF FaucetInv, FaucetTypes, Pay
  <1>2. serving[s] \in Servings /\ serving[s].at = "pay" /\ serving[s].token = token1 /\ ServingHolds(serving[s])
    BY DEF FaucetInv, FaucetTypes, Pay
  <1>3. PICK K : K = serving[s].known
    OBVIOUS
  <1>4. /\ K \in SUBSET Nat /\ K \subseteq 1..Len(payments)
        /\ \A i \in K : clock > payments[i].at + Day
    BY <1>2, <1>3 DEF Servings, ServingHolds
  <1>5. PICK n : n = Len(payments) + 1
    OBVIOUS
  <1>6. payments \in Seq(Payments) /\ n \in Nat /\ Len(payments) \in Nat
    BY <1>1, <1>5, PaymentTypes DEF FaucetTypes
  <1>7. PICK p : p = [token |-> token1, at |-> clock, recorded |-> FALSE, known |-> K]
    OBVIOUS
  <1>8. p \in Payments /\ p.at = clock /\ p.token = token1 /\ p.recorded = FALSE /\ p.known = K
    BY <1>1, <1>4, <1>7 DEF Payments
  <1>9. payments' = Append(payments, p)
    BY <1>3, <1>7 DEF Pay
  <1>10. /\ payments' \in Seq(Payments) /\ Len(payments') = n /\ payments'[n] = p
         /\ \A i \in 1..Len(payments) : i \in 1..Len(payments') /\ payments'[i] = payments[i]
    BY <1>5, <1>6, <1>8, <1>9
  <1>11. PaymentsKept
    BY <1>10 DEF PaymentsKept
  <1>12. PICK at1 \in {"record", "fail"} :
           serving' = [serving EXCEPT ![s].at = at1, ![s].paid = n]
    BY <1>5 DEF Pay
  <1>13. /\ serving' \in [Claims -> Servings] /\ serving'[s] \in Servings
         /\ serving'[s].at = at1 /\ serving'[s].paid = n /\ serving'[s].token = token1
         /\ \A q \in Claims : q # s => serving'[q] = serving[q]
    <2>1. serving \in [Claims -> Servings]
      BY <1>1 DEF FaucetTypes
    <2>2. serving'[s] = [serving[s] EXCEPT !.at = at1, !.paid = n]
      BY <1>12, <2>1
    <2>3. serving'[s] \in Servings /\ serving'[s].at = at1 /\ serving'[s].paid = n /\ serving'[s].token = token1
      BY <1>2, <1>6, <2>2 DEF Servings
    <2> QED
      BY <1>12, <2>1, <2>3
  <1>14. FaucetTypes' /\ RowsKept
    BY <1>1, <1>10, <1>13, FaucetTypesStay
  <1>15. ServingHolds(serving[s])'
    <2>1. n \in 1..Len(payments') /\ payments'[n].token = serving'[s].token
      BY <1>6, <1>8, <1>10, <1>13, <1>5
    <2> QED
      BY <2>1, <1>13 DEF ServingHolds
  <1>16. \A q \in Claims : ServingHolds(serving[q])'
    BY <1>1, <1>11, <1>13, <1>14, <1>15, ServingWaits
  <1>17. ASSUME NEW j \in 1..Len(payments) PROVE PaymentHolds(j)'
    <2>1. HasRow(j) /\ payments'[j] = payments[j]
      BY <1>10 DEF FaucetInv, PaymentHolds
    <2>2. HasRow(j)'
      BY <2>1, <1>1, <1>14, RowStays
    <2> QED
      BY <2>1, <2>2, <1>1, <1>11, <1>14, PaymentWaits
  <1>18. PaymentHolds(n)'
    <2>1. \A i \in K : i \in 1..n /\ payments'[i].at = payments[i].at
      BY <1>4, <1>10
    <2>2. HasRow(n)'
      BY <1>8, <1>10 DEF HasRow
    <2>3. payments'[n].at <= clock' /\ payments'[n].known \subseteq 1..Len(payments')
      BY <1>1, <1>8, <1>10, <2>1
    <2>4. \A i \in payments'[n].known : payments'[n].at > payments'[i].at + Day
      BY <1>4, <1>8, <1>10, <2>1
    <2> QED
      BY <2>2, <2>3, <2>4 DEF PaymentHolds
  <1>19. \A j \in 1..Len(payments') : j \in 1..Len(payments) \/ j = n
    BY <1>5, <1>6, <1>10
  <1> QED
    BY <1>14, <1>16, <1>17, <1>18, <1>19 DEF FaucetInv

\* The row of a payment: the payment is on record with a row as young as the clock.
LEMMA RecordHolds ==
    ASSUME FaucetInv, NEW s \in Claims, NEW token1 \in ClaimTypes, serving[s].at = "record",
           serving[s].token = token1, clock' = clock,
           claimRows' = Append(claimRows, Row(token1, "completed")),
           payments' = [payments EXCEPT ![serving[s].paid].recorded = TRUE],
           Over(s)
    PROVE  FaucetInv'
  <1>1. FaucetTypes /\ clock \in Nat /\ clock' >= clock
    BY DEF FaucetInv, FaucetTypes
  <1>2. PICK n : n = serving[s].paid
    OBVIOUS
  <1>3. n \in 1..Len(payments) /\ payments[n].token = token1
    BY <1>2 DEF FaucetInv, ServingHolds
  <1>4. payments \in Seq(Payments) /\ DOMAIN payments = 1..Len(payments) /\ Len(payments) \in Nat
    BY <1>1, PaymentTypes DEF FaucetTypes
  <1>5. PICK p : p = [payments[n] EXCEPT !.recorded = TRUE]
    OBVIOUS
  <1>6. /\ p \in Payments /\ p.token = token1 /\ p.at = payments[n].at /\ p.known = payments[n].known
    BY <1>1, <1>3, <1>5, PaymentTypes DEF Payments
  <1>7. payments' = [payments EXCEPT ![n] = p]
    BY <1>2, <1>5
  <1>8. /\ payments' \in Seq(Payments) /\ Len(payments') = Len(payments) /\ payments'[n] = p
        /\ \A i \in 1..Len(payments) : i # n => payments'[i] = payments[i]
    <2>1. \A i \in 1..Len(payments) : payments[i] \in Payments
      BY <1>1, PaymentTypes
    <2>2. payments' = [i \in 1..Len(payments) |-> IF i = n THEN p ELSE payments[i]]
      BY <1>4, <1>7
    <2>3. payments' \in [1..Len(payments) -> Payments]
      BY <1>6, <2>1, <2>2
    <2>4. payments' \in Seq(Payments) /\ Len(payments') = Len(payments)
      BY <1>4, <2>2, <2>3
    <2> QED
      BY <1>3, <2>2, <2>4
  <1>9. PaymentsKept
    BY <1>6, <1>8, <1>3 DEF PaymentsKept
  <1>10. /\ serving'[s] = Unasked /\ serving' \in [Claims -> Servings]
         /\ \A q \in Claims : q # s => serving'[q] = serving[q]
    BY UnaskedServes DEF FaucetInv, FaucetTypes, Over
  <1>11. PICK row : row = Row(token1, "completed")
    OBVIOUS
  <1>12. row \in ClaimRows /\ row.claimedAt = clock /\ row.token = token1 /\ row.status = "completed"
    BY <1>1, <1>11 DEF Row, ClaimRows
  <1>13. /\ claimRows' \in Seq(ClaimRows) /\ RowsKept
         /\ \A k \in 1..Len(claimRows') : claimRows'[k].claimedAt <= clock'
         /\ Len(claimRows) + 1 \in DOMAIN claimRows'
         /\ claimRows'[Len(claimRows) + 1] = row
    BY <1>1, <1>11, <1>12, RowAdded
  <1>14. FaucetTypes'
    BY <1>1, <1>8, <1>10, <1>13 DEF FaucetTypes
  <1>15. \A q \in Claims : ServingHolds(serving[q])'
    <2>1. ServingHolds(serving[s])'
      BY <1>10, UnaskedServes DEF ServingHolds
    <2> QED
      BY <2>1, <1>1, <1>9, <1>10, <1>14, ServingWaits
  <1>16. HasRow(n)'
    <2>1. Len(claimRows) + 1 \in Completed(token1)'
      BY <1>12, <1>13 DEF Completed
    <2>2. payments'[n].token = token1 /\ payments'[n].at <= clock /\ clock = row.claimedAt
      BY <1>3, <1>6, <1>8, <1>12 DEF FaucetInv, PaymentHolds
    <2> QED
      BY <2>1, <2>2, <1>13 DEF HasRow
  <1>17. ASSUME NEW j \in 1..Len(payments) PROVE PaymentHolds(j)'
    <2>1. payments'[j].known = payments[j].known
      BY <1>6, <1>8
    <2>2. HasRow(j)'
      <3>1. CASE j = n
        BY <3>1, <1>16
      <3>2. CASE j # n
        BY <3>2, <1>1, <1>8, <1>13, <1>14, RowStays DEF FaucetInv, PaymentHolds
      <3> QED
        BY <3>1, <3>2
    <2> QED
      BY <2>1, <2>2, <1>1, <1>9, <1>13, <1>14, PaymentWaits
  <1> QED
    BY <1>8, <1>14, <1>15, <1>17 DEF FaucetInv

\* The steps of a claim, whichever the token.
LEMMA ClaimHolds ==
    ASSUME FaucetInv, NEW s \in Claims, NEW token1 \in ClaimTypes,
           \/ Check(s, token1) \/ Pay(s, token1) \/ PayFails(s, token1)
           \/ Record(s, token1) \/ RecordFailure(s, token1)
    PROVE  FaucetInv'
  <1>1. CASE PayFails(s, token1)
    BY <1>1, PayFailsHolds DEF PayFails
  <1>2. CASE Record(s, token1)
    <2>1. CASE Step(s, "fail") /\ UNCHANGED <<claimRows, payments>>
      BY <1>2, <2>1, PayFailsHolds DEF Record
    <2>2. CASE /\ claimRows' = Append(claimRows, Row(token1, "completed"))
               /\ payments' = [payments EXCEPT ![serving[s].paid].recorded = TRUE]
               /\ Over(s)
      BY <1>2, <2>2, RecordHolds DEF Record
    <2> QED
      BY <1>2, <2>1, <2>2 DEF Record
  <1> QED
    BY <1>1, <1>2, CheckHolds, PayHolds, RecordFailureHolds

\* Time passes, or the server stops and forgets its requests.
LEMMA TickOrCrashHolds ==
    ASSUME FaucetInv, UNCHANGED <<claimRows, payments>>,
           \/ clock' = clock + 1 /\ serving' = serving
           \/ clock' = clock /\ serving' = [s \in Claims |-> Unasked]
           \/ clock' = clock /\ serving' = serving
    PROVE  FaucetInv'
  <1>1. FaucetTypes /\ clock \in Nat /\ clock' \in Nat /\ clock' >= clock
    BY DEF FaucetInv, FaucetTypes
  <1>2. FaucetTypes' /\ RowsKept
    <2>1. \A k \in 1..Len(claimRows) : claimRows[k].claimedAt <= clock'
      BY <1>1, RowTypes
    <2>2. serving' \in [Claims -> Servings]
      BY <1>1, UnaskedServes DEF FaucetTypes
    <2>3. clock' > Day
      BY <1>1, DayIsNat DEF FaucetTypes
    <2> QED
      BY <1>1, <2>1, <2>2, <2>3 DEF FaucetTypes, RowsKept
  <1>3. \A q \in Claims : serving'[q] = serving[q] \/ ServingHolds(serving[q])'
    BY UnaskedServes DEF ServingHolds
  <1> QED
    BY <1>1, <1>2, <1>3, NothingPaid

\* A payment on record when a claim is checked keeps the claim from being paid
\* until a day later, for any number of claims at once, any day and any crashes.
THEOREM RecordsKept == FaucetSpec => []RecordKeepsADay
  <1>1. FaucetInit => FaucetInv
    <2> SUFFICES ASSUME FaucetInit PROVE FaucetInv
      OBVIOUS
    <2>1. clock = Day + 1 /\ claimRows = <<>> /\ payments = <<>> /\ serving = [s \in Claims |-> Unasked]
      BY DEF FaucetInit
    <2>2. clock \in Nat /\ clock > Day
      BY <2>1, DayIsNat
    <2> QED
      BY <2>1, <2>2, UnaskedServes DEF FaucetInv, FaucetTypes, ServingHolds
  <1>2. FaucetInv /\ [FaucetNext]_faucet => FaucetInv'
    <2> SUFFICES ASSUME FaucetInv, [FaucetNext]_faucet PROVE FaucetInv'
      OBVIOUS
    <2>1. \A token1 \in {"usdc", "space", "sol"} : token1 \in ClaimTypes
      BY DEF ClaimTypes
    <2>2. CASE UNCHANGED faucet
      BY <2>2, TickOrCrashHolds DEF faucet
    <2>3. CASE Tick \/ FaucetCrash
      BY <2>3, TickOrCrashHolds DEF Tick, FaucetCrash
    <2>4. ASSUME NEW s \in Claims, PostClaim(s) \/ PostSpaceClaim(s) \/ PostSolClaim(s)
          PROVE  FaucetInv'
      BY <2>1, <2>4, PostHolds DEF PostClaim, PostSpaceClaim, PostSolClaim
    <2>5. ASSUME NEW s \in Claims, Claim(s) \/ ClaimSpace(s)
          PROVE  FaucetInv'
      BY <2>1, <2>5, ClaimHolds DEF Claim, ClaimSpace
    <2>6. ASSUME NEW s \in Claims, ClaimSol(s)
          PROVE  FaucetInv'
      BY <2>1, <2>6, ClaimHolds, ServingEnds DEF ClaimSol
    <2> QED
      BY <2>2, <2>3, <2>4, <2>5, <2>6 DEF FaucetNext
  <1>3. FaucetInv => RecordKeepsADay
    BY PaymentTypes DEF FaucetInv, PaymentHolds, RecordKeepsADay
  <1> QED
    BY <1>1, <1>2, <1>3, PTL DEF FaucetSpec

-----------------------------------------------------------------------------
(***************************************************************************)
(* The board of a competition.  While no call of the admin runs, the cache *)
(* of an ended competition and a reader who asked beside no call hold what *)
(* was frozen; a call that begins marks the reader, one that ends empties  *)
(* the cache or, failing, marks it.                                        *)
(***************************************************************************)
\* The fields of the records.
BoardFields ==
    /\ DOMAIN comp = {"status", "over"}
    /\ DOMAIN cached = {"board", "status", "ttl", "alone"}
    /\ DOMAIN admin = {"at", "board", "rewards", "new"}
    /\ DOMAIN reader = {"at", "board", "status", "alone"}

\* A reader beside whom no call ran reads what is frozen.
ReaderAlone ==
    reader.at # "idle" /\ reader.alone =>
        /\ admin.at = "idle"
        /\ reader.status = "ended" =>
             comp.status = "ended" /\ (reader.at = "cache" => reader.board = frozen.board)

\* While a call that creates runs, which does not empty the cache, what is
\* cached for an ended competition was asked for beside it.
CreatedBeside == admin.at # "idle" /\ admin.new => ~(cached.status = "ended" /\ cached.alone)

BoardInv == BoardFields /\ ReaderAlone /\ CreatedBeside /\ CachedBoardIsFrozen

\* What the idle records are.
LEMMA RestingIs ==
    /\ DOMAIN NoCache = {"board", "status", "ttl", "alone"} /\ NoCache.status = "none"
    /\ DOMAIN Resting = {"at", "board", "rewards", "new"} /\ Resting.at = "idle" /\ Resting.new = FALSE
    /\ DOMAIN NoReader = {"at", "board", "status", "alone"} /\ NoReader.at = "idle"
  BY DEF NoCache, Resting, NoReader

\* A call of the admin that begins marks the reader it finds.
LEMMA CallHolds ==
    ASSUME BoardInv, NEW at1, at1 # "idle", Call(at1), DOMAIN comp' = {"status", "over"}, cached' = cached
    PROVE  BoardInv'
  <1>1. BoardFields
    BY DEF BoardInv
  <1>2. admin'.at = at1 /\ DOMAIN admin' = {"at", "board", "rewards", "new"} /\ admin'.new = FALSE
    BY RestingIs DEF Call
  <1>3. DOMAIN reader' = {"at", "board", "status", "alone"} /\ ~(reader'.at # "idle" /\ reader'.alone)
    <2>1. CASE reader.at = "idle"
      BY <1>1, <2>1 DEF Call, BoardFields
    <2>2. CASE reader.at # "idle"
      <3>1. reader' = [reader EXCEPT !.alone = FALSE]
        BY <2>2 DEF Call
      <3> QED
        BY <1>1, <3>1 DEF BoardFields
    <2> QED
      BY <2>1, <2>2
  <1> QED
    BY <1>1, <1>2, <1>3 DEF BoardInv, BoardFields, ReaderAlone, CreatedBeside, CachedBoardIsFrozen

\* A step of a call that runs, which may store a board.
LEMMA CallGoesOn ==
    ASSUME BoardInv, admin.at # "idle", admin'.at # "idle", DOMAIN admin' = {"at", "board", "rewards", "new"},
           admin'.new = admin.new, UNCHANGED <<comp, cached, reader>>
    PROVE  BoardInv'
  BY DEF BoardInv, BoardFields, ReaderAlone, CreatedBeside, CachedBoardIsFrozen

\* A call that ends has emptied the cache, has created the competition or,
\* failing, has marked the cache.
LEMMA CallEnds ==
    ASSUME BoardInv, admin.at # "idle", admin' = Resting, UNCHANGED <<comp, frozen, reader>>,
           \/ admin.new /\ cached' = cached
           \/ cached' = NoCache
           \/ cached' = [cached EXCEPT !.alone = FALSE]
    PROVE  BoardInv'
  <1>1. BoardFields /\ ~(reader.at # "idle" /\ reader.alone)
    BY DEF BoardInv, ReaderAlone
  <1>2. DOMAIN cached' = {"board", "status", "ttl", "alone"} /\ ~(cached'.status = "ended" /\ cached'.alone)
    <2>1. CASE cached' = NoCache
      BY <2>1, RestingIs
    <2>3. CASE admin.new /\ cached' = cached
      BY <1>1, <2>3 DEF BoardInv, BoardFields, CreatedBeside
    <2>2. CASE cached' = [cached EXCEPT !.alone = FALSE]
      BY <1>1, <2>2 DEF BoardFields
    <2> QED
      BY <2>1, <2>2, <2>3
  <1> QED
    BY <1>1, <1>2, RestingIs DEF BoardInv, BoardFields, ReaderAlone, CreatedBeside, CachedBoardIsFrozen

\* The steps of a reader.
LEMMA ReaderHolds ==
    ASSUME BoardInv, AskBoard \/ QueryBoard \/ SetCache
    PROVE  BoardInv'
  <1>1. BoardFields /\ ReaderAlone /\ UNCHANGED <<comp, frozen, admin>>
    BY DEF BoardInv, AskBoard, QueryBoard, SetCache
  <1>2. CASE AskBoard
    <2>1. /\ DOMAIN reader' = {"at", "board", "status", "alone"} /\ reader'.at = "query"
          /\ reader'.status = comp.status /\ reader'.alone = (admin.at = "idle") /\ cached' = cached
      BY <1>2, RestingIs DEF AskBoard
    <2> QED
      BY <1>1, <2>1 DEF BoardInv, BoardFields, ReaderAlone, CreatedBeside, CachedBoardIsFrozen
  <1>3. CASE QueryBoard
    <2>1. PICK bd : bd = IF reader.status = "ended" THEN frozen.board ELSE Board
      OBVIOUS
    <2>2. reader' = [reader EXCEPT !.at = "cache", !.board = bd] /\ cached' = cached /\ reader.at = "query"
      BY <1>3, <2>1 DEF QueryBoard
    <2>3. /\ DOMAIN reader' = {"at", "board", "status", "alone"} /\ reader'.at = "cache"
          /\ reader'.status = reader.status /\ reader'.alone = reader.alone /\ reader'.board = bd
      BY <1>1, <2>2 DEF BoardFields
    <2> QED
      BY <1>1, <2>1, <2>2, <2>3 DEF BoardInv, BoardFields, ReaderAlone, CreatedBeside, CachedBoardIsFrozen
  <1>4. CASE SetCache
    <2>1. /\ DOMAIN cached' = {"board", "status", "ttl", "alone"} /\ cached'.board = reader.board
          /\ cached'.status = reader.status /\ cached'.alone = reader.alone
          /\ reader' = NoReader /\ reader.at = "cache"
      BY <1>4 DEF SetCache
    <2>2. admin.at # "idle" => ~cached'.alone
      BY <1>1, <2>1 DEF ReaderAlone
    <2> QED
      BY <1>1, <2>1, <2>2, RestingIs DEF BoardInv, BoardFields, ReaderAlone, CreatedBeside, CachedBoardIsFrozen
  <1> QED
    BY <1>2, <1>3, <1>4

\* The board that is cached for an ended competition is the one that was frozen,
\* for any wallets and any number of calls, readers and failures.
THEOREM BoardsAgree == CompetitionSpec => []CachedBoardIsFrozen
  <1>1. CompetitionInit => BoardInv
    BY RestingIs DEF CompetitionInit, BoardInv, BoardFields, ReaderAlone, CreatedBeside, CachedBoardIsFrozen
  <1>2. BoardInv /\ [CompetitionNext]_competition => BoardInv'
    <2> SUFFICES ASSUME BoardInv, [CompetitionNext]_competition PROVE BoardInv'
      OBVIOUS
    <2>1. BoardFields
      BY DEF BoardInv
    <2>2. CASE UNCHANGED <<comp, cached, frozen, admin, reader>>
      BY <2>2 DEF BoardInv, BoardFields, ReaderAlone, CreatedBeside, CachedBoardIsFrozen
    <2>3. ASSUME NEW st, UpdateCompetition(st)
          PROVE  BoardInv'
      BY <2>1, <2>3, CallHolds DEF UpdateCompetition, BoardFields
    <2>9. ASSUME NEW st, CreateCompetition(st)
          PROVE  BoardInv'
      <3>1. DOMAIN admin' = {"at", "board", "rewards", "new"}
        BY <2>9, RestingIs DEF CreateCompetition
      <3>2. DOMAIN comp' = {"status", "over"} /\ cached' = NoCache /\ reader' = NoReader
        BY <2>9 DEF CreateCompetition
      <3> QED
        BY <3>1, <3>2, RestingIs DEF BoardInv, BoardFields, ReaderAlone, CreatedBeside, CachedBoardIsFrozen
    <2>4. CASE DeleteCompetition \/ SetRewards \/ FinalizeCompetition
      BY <2>1, <2>4, CallHolds DEF DeleteCompetition, SetRewards, FinalizeCompetition, BoardFields
    <2>5. CASE ClearSnapshot \/ InsertSnapshot \/ ReadRewards \/ ReadPoints \/ StoreBoard
      <3>1. /\ admin.at # "idle" /\ UNCHANGED <<comp, cached, reader>>
        BY <2>5 DEF ClearSnapshot, InsertSnapshot, ReadRewards, ReadPoints, StoreBoard
      <3>2. admin'.at # "idle" /\ DOMAIN admin' = {"at", "board", "rewards", "new"}
        BY <2>1, <2>5 DEF BoardFields, ClearSnapshot, InsertSnapshot, ReadRewards, ReadPoints, StoreBoard
      <3>3. admin'.new = admin.new
        BY <2>1, <2>5 DEF BoardFields, ClearSnapshot, InsertSnapshot, ReadRewards, ReadPoints, StoreBoard
      <3> QED
        BY <3>1, <3>2, <3>3, CallGoesOn
    <2>6. CASE InvalidateCache \/ AdminFails
      BY <2>6, CallEnds DEF InvalidateCache, AdminFails
    <2>7. CASE CacheExpires
      BY <2>7, RestingIs DEF BoardInv, BoardFields, ReaderAlone, CreatedBeside, CachedBoardIsFrozen, CacheExpires
    <2>8. CASE EndDate
      <3>1. comp'.status = comp.status /\ DOMAIN comp' = {"status", "over"}
        BY <2>1, <2>8 DEF EndDate, BoardFields
      <3> QED
        BY <2>8, <3>1 DEF EndDate, BoardInv, BoardFields, ReaderAlone, CreatedBeside, CachedBoardIsFrozen
    <2> QED
      BY <2>2, <2>3, <2>4, <2>5, <2>6, <2>7, <2>8, <2>9, ReaderHolds DEF CompetitionNext, competition, EarnPoints
  <1>3. BoardInv => CachedBoardIsFrozen
    BY DEF BoardInv
  <1> QED
    BY <1>1, <1>2, <1>3, PTL DEF CompetitionSpec

-----------------------------------------------------------------------------
(***************************************************************************)
(* The socket of a page.  A connection whose handler has yet to attach has *)
(* no record, so that the record it is given finds it on no channel's      *)
(* list; every step that empties a record takes the socket from the lists  *)
(* of the subscriptions the record held.                                   *)
(***************************************************************************)
Messages == [do : {"subscribe", "unsubscribe", "auth"}, channel : Channels]

MailInv ==
    /\ panel \in PanelChannels /\ kept \in SUBSET Channels
    /\ inbox \in [Sockets -> Seq(Messages)]

Coming == {"arrived", "retrying", "admitted"}

SocketTypes ==
    /\ DOMAIN link = Sockets /\ DOMAIN server = Sockets
    /\ DOMAIN records = Sockets /\ DOMAIN listed = Channels
    /\ \A s \in Sockets : /\ DOMAIN link[s] = {"state", "events"}
                          /\ DOMAIN records[s] = {"here", "subs", "user"}

SocketHolds(s) ==
    /\ link[s].state = "connecting" => server[s] = "none" /\ ~records[s].here
    /\ server[s] \in Coming => ~records[s].here

ListHolds(c, s) == s \in Sockets /\ records[s].here /\ \E k \in records[s].subs : k.channel = c

SocketInv ==
    /\ SocketTypes
    /\ \A s \in Sockets : SocketHolds(s)
    /\ \A c \in Channels : \A s \in listed[c] : ListHolds(c, s)

\* The channels are finitely many.
LEMMA ChannelsFinite == IsFiniteSet(Channels)
  BY RealtimeAssumption, FS_AddElement DEF Channels

\* The messages that subscribe to a set of channels.
LEMMA SubscribesAre ==
    ASSUME NEW cs \in SUBSET Channels
    PROVE  Subscribes(cs) \in Seq(Messages)
  <1>1. IsFiniteSet(cs)
    BY ChannelsFinite, FS_Subset
  <1>2. Cardinality(cs) \in Nat /\ ExistsBijection(1..Cardinality(cs), cs)
    BY <1>1, FS_CardinalityType
  <1>3. PICK f \in [1..Cardinality(cs) -> cs] : IsInjective(f)
    BY <1>2 DEF ExistsBijection, Bijection, Injection
  <1>4. SetToSeq(cs) \in [1..Cardinality(cs) -> cs]
    BY <1>3 DEF SetToSeq
  <1>5. \A i \in 1..Cardinality(cs) :
          [do |-> "subscribe", channel |-> SetToSeq(cs)[i]] \in Messages
    BY <1>4 DEF Messages
  <1> QED
    BY <1>2, <1>5 DEF Subscribes

\* The other messages of the page.
LEMMA OthersAre ==
    /\ Auth \in Seq(Messages)
    /\ \A c \in Channels : Unsubscribes(c) \in Seq(Messages)
  BY DEF Auth, Unsubscribes, Messages, Channels

\* What is sent goes to the inbox of the page's socket.
LEMMA SendsKeep ==
    ASSUME inbox \in [Sockets -> Seq(Messages)], NEW ms \in Seq(Messages), Sends(ms)
    PROVE  inbox' \in [Sockets -> Seq(Messages)]
  <1>1. CASE ~Connected
    BY <1>1 DEF Sends
  <1>2. CASE Connected
    <2>1. PICK x : x = page.socket
      OBVIOUS
    <2>2. inbox' = [inbox EXCEPT ![x] = inbox[x] \o ms]
      BY <1>2, <2>1 DEF Sends
    <2>3. x \in Sockets => inbox[x] \o ms \in Seq(Messages)
      BY ConcatProperties
    <2> QED
      BY <2>2, <2>3
  <1> QED
    BY <1>1, <1>2

\* A message less.
LEMMA OneLess ==
    ASSUME NEW q \in Seq(Messages), NEW i \in 1..Len(q)
    PROVE  RemoveAt(q, i) \in Seq(Messages)
  <1>1. Len(q) \in Nat /\ i \in Nat
    OBVIOUS
  <1>2. SubSeq(q, 1, i - 1) \in Seq(Messages)
    BY <1>1, SubSeqProperties
  <1>3. SubSeq(q, i + 1, Len(q)) \in Seq(Messages)
    BY <1>1, SubSeqProperties
  <1> QED
    BY <1>2, <1>3, ConcatProperties DEF RemoveAt

\* Every step keeps the messages well formed.
LEMMA MailKeeps ==
    ASSUME MailInv, [RealtimeNext]_realtime
    PROVE  MailInv'
  <1> USE DEF MailInv
  <1>1. Wanted \in SUBSET Channels /\ PanelChannels \subseteq Channels
    BY DEF Wanted, Channels
  <1>2. CASE UNCHANGED <<panel, kept, inbox>>
    BY <1>2
  <1>3. CASE Connect
    BY <1>3 DEF Connect
  <1>4. CASE Opens
    BY <1>1, <1>4, SubscribesAre DEF Opens
  <1>5. CASE Greet
    <2>1. Subscribes(kept) \in Seq(Messages)
      BY SubscribesAre
    <2>2. (IF page.wallet THEN Auth ELSE <<>>) \in Seq(Messages)
      BY OthersAre
    <2>3. (IF page.wallet THEN Auth ELSE <<>>) \o Subscribes(kept) \in Seq(Messages)
      BY <2>1, <2>2, ConcatProperties
    <2> QED
      BY <1>5, <2>3, SendsKeep DEF Greet
  <1>6. CASE WalletConnects
    BY <1>6, OthersAre, SendsKeep DEF WalletConnects
  <1>7. ASSUME NEW c \in PanelChannels, MovePanel(c)
        PROVE  MailInv'
    <2>1. Unsubscribes(panel) \in Seq(Messages) /\ Subscribes({c}) \in Seq(Messages)
      BY <1>1, OthersAre, SubscribesAre
    <2>2. Unsubscribes(panel) \o Subscribes({c}) \in Seq(Messages)
      BY <2>1, ConcatProperties
    <2>3. inbox' \in [Sockets -> Seq(Messages)]
      BY <1>7, <2>2, SendsKeep DEF MovePanel
    <2> QED
      BY <1>1, <1>7, <2>3 DEF MovePanel
  <1>8. CASE SocketFails
    BY <1>8 DEF SocketFails, Closes
  <1>9. ASSUME NEW s \in Sockets, CheckConnectionLimit(s)
        PROVE  MailInv'
    BY <1>9 DEF CheckConnectionLimit, Closes
  <1>10. ASSUME NEW s \in Sockets, Attach(s) \/ SweepBegins(s)
         PROVE  MailInv'
    BY <1>10 DEF Attach, SweepBegins, PageSide
  <1>11. ASSUME NEW s \in Sockets, Unheard(s)
         PROVE  MailInv'
    <2>1. inbox[s] \in Seq(Messages) /\ inbox[s] # <<>>
      BY <1>11 DEF Unheard
    <2>2. Tail(inbox[s]) \in Seq(Messages)
      BY <2>1
    <2> QED
      BY <1>11, <2>2 DEF Unheard, PageSide
  <1>12. ASSUME NEW s \in Sockets, NEW i, HandleMessage(s, i)
         PROVE  MailInv'
    <2>1. RemoveAt(inbox[s], i) \in Seq(Messages)
      BY <1>12, OneLess DEF HandleMessage
    <2>2. inbox' = [inbox EXCEPT ![s] = RemoveAt(inbox[s], i)]
      BY <1>12 DEF HandleMessage
    <2>3. UNCHANGED <<panel, kept>>
      BY <1>12 DEF HandleMessage
    <2> QED
      BY <2>1, <2>2, <2>3
  <1>13. ASSUME NEW s \in Sockets, NEW event, HandlerBegins(s, event)
         PROVE  MailInv'
    BY <1>13 DEF HandlerBegins, PageSide
  <1>14. ASSUME NEW r \in removals, RemovalEnds(r)
         PROVE  MailInv'
    BY <1>14 DEF RemovalEnds, PageSide
  <1>15. CASE CounterExpires
    BY <1>15 DEF CounterExpires, PageSide
  <1>16. CASE ServerRestarts
    BY <1>16 DEF ServerRestarts
  <1> QED
    BY <1>2, <1>3, <1>4, <1>5, <1>6, <1>7, <1>8, <1>9, <1>10, <1>11, <1>12, <1>13, <1>14, <1>15, <1>16
       DEF RealtimeNext, realtime

\* A record of nothing.
LEMMA NoRecordIs ==
    DOMAIN NoRecord = {"here", "subs", "user"} /\ NoRecord.here = FALSE /\ NoRecord.subs = {}
  BY DEF NoRecord

\* A step that leaves the records and the lists alone, and starts no handler of
\* a socket with a record.
LEMMA LinksMove ==
    ASSUME SocketInv, UNCHANGED <<records, listed>>, DOMAIN link' = Sockets, DOMAIN server' = Sockets,
           \A s \in Sockets : DOMAIN link'[s] = {"state", "events"} /\ SocketHolds(s)'
    PROVE  SocketInv'
  BY DEF SocketInv, SocketTypes, ListHolds

\* A socket that closes, and no other socket's link.
LEMMA ClosesSocket ==
    ASSUME SocketInv, NEW s, NEW events, Closes(s, events)
    PROVE  /\ DOMAIN link' = Sockets
           /\ \A q \in Sockets : DOMAIN link'[q] = {"state", "events"}
           /\ \A q \in Sockets : link'[q].state = "connecting" => link[q].state = "connecting"
  <1>1. link' = [link EXCEPT ![s] = [state |-> "shut", events |-> events]]
    BY DEF Closes
  <1>2. DOMAIN link = Sockets /\ \A q \in Sockets : DOMAIN link[q] = {"state", "events"}
    BY DEF SocketInv, SocketTypes
  <1> QED
    BY <1>1, <1>2

\* The page's steps.
LEMMA PageMoves ==
    ASSUME SocketInv, Connect \/ Opens \/ SocketFails
    PROVE  SocketInv'
  <1>1. SocketTypes /\ \A s \in Sockets : SocketHolds(s)
    BY DEF SocketInv
  <1>2. CASE Connect
    <2>1. PICK s \in Sockets :
            /\ Unused(s)
            /\ link' = [link EXCEPT ![s] = [state |-> "connecting", events |-> {}]]
            /\ server' = [server EXCEPT ![s] = "none"]
      BY <1>2 DEF Connect
    <2>2. ~records[s].here /\ UNCHANGED <<records, listed>>
      BY <1>2, <2>1 DEF Unused, Connect
    <2>3. \A q \in Sockets : DOMAIN link'[q] = {"state", "events"}
      BY <1>1, <2>1 DEF SocketTypes
    <2>4. \A q \in Sockets : SocketHolds(q)'
      BY <1>1, <2>1, <2>2 DEF SocketTypes, SocketHolds, Coming
    <2> QED
      BY <1>1, <2>1, <2>2, <2>3, <2>4, LinksMove DEF SocketTypes
  <1>3. CASE Opens
    <2>1. PICK s : s = page.socket
      OBVIOUS
    <2>2. /\ link[s].state = "connecting"
          /\ link' = [link EXCEPT ![s].state = "open"]
          /\ server' = [server EXCEPT ![s] = "arrived"]
          /\ UNCHANGED <<records, listed>>
      BY <1>3, <2>1 DEF Opens
    <2>3. \A q \in Sockets : /\ DOMAIN link'[q] = {"state", "events"}
                             /\ link'[q].state = (IF q = s THEN "open" ELSE link[q].state)
      BY <1>1, <2>2 DEF SocketTypes
    <2>4. \A q \in Sockets : SocketHolds(q)'
      BY <1>1, <2>2, <2>3 DEF SocketTypes, SocketHolds
    <2> QED
      BY <1>1, <2>2, <2>3, <2>4, LinksMove DEF SocketTypes
  <1>4. CASE SocketFails
    <2>1. PICK s, events : Closes(s, events)
      BY <1>4 DEF SocketFails
    <2>2. UNCHANGED <<server, records, listed>>
      BY <1>4 DEF SocketFails, ServerSide
    <2>3. \A q \in Sockets : SocketHolds(q)'
      BY <1>1, <2>1, <2>2, ClosesSocket DEF SocketHolds
    <2> QED
      BY <1>1, <2>1, <2>2, <2>3, ClosesSocket, LinksMove DEF SocketTypes
  <1> QED
    BY <1>2, <1>3, <1>4

\* The limit on connections admits a socket or refuses it.
LEMMA LimitMoves ==
    ASSUME SocketInv, NEW s \in Sockets, CheckConnectionLimit(s)
    PROVE  SocketInv'
  <1>1. SocketTypes /\ \A q \in Sockets : SocketHolds(q)
    BY DEF SocketInv
  <1>2. server[s] \in Coming /\ UNCHANGED <<records, listed>>
    BY DEF CheckConnectionLimit, Coming
  <1>3. /\ DOMAIN server' = Sockets
        /\ \A q \in Sockets : server'[q] = server[q] \/ q = s
    BY <1>1 DEF CheckConnectionLimit, SocketTypes
  <1>4. link' = link \/ Closes(s, {})
    BY DEF CheckConnectionLimit
  <1>5. /\ DOMAIN link' = Sockets
        /\ \A q \in Sockets : DOMAIN link'[q] = {"state", "events"}
        /\ \A q \in Sockets : link'[q].state = "connecting" => link[q].state = "connecting"
    BY <1>1, <1>4, ClosesSocket DEF SocketTypes
  <1>6. ~records[s].here /\ link[s].state # "connecting"
    BY <1>1, <1>2 DEF SocketHolds, Coming
  <1>7. \A q \in Sockets : SocketHolds(q)'
    BY <1>1, <1>2, <1>3, <1>5, <1>6 DEF SocketHolds
  <1> QED
    BY <1>2, <1>3, <1>5, <1>7, LinksMove

\* The handler attaches: the record it makes holds no subscription, and none is listed.
LEMMA AttachMoves ==
    ASSUME SocketInv, NEW s \in Sockets, Attach(s)
    PROVE  SocketInv'
  <1>1. SocketTypes /\ \A q \in Sockets : SocketHolds(q)
    BY DEF SocketInv
  <1>2. server[s] = "admitted" /\ server' = [server EXCEPT ![s] = "attached"] /\ UNCHANGED <<link, listed>>
    BY DEF Attach
  <1>3. ~records[s].here /\ link[s].state # "connecting"
    BY <1>1, <1>2 DEF SocketHolds, Coming
  <1>4. \A c \in Channels : s \notin listed[c]
    BY <1>3 DEF SocketInv, ListHolds
  <1>5. /\ DOMAIN records' = Sockets /\ DOMAIN records'[s] = {"here", "subs", "user"}
        /\ \A q \in Sockets : q # s => records'[q] = records[q]
    BY <1>1, NoRecordIs DEF Attach, SocketTypes
  <1>6. \A q \in Sockets : SocketHolds(q)'
    BY <1>1, <1>2, <1>3, <1>5 DEF SocketTypes, SocketHolds, Coming
  <1>7. \A c \in Channels : \A q \in listed'[c] : ListHolds(c, q)'
    BY <1>2, <1>4, <1>5 DEF SocketInv, ListHolds
  <1> QED
    BY <1>1, <1>2, <1>5, <1>6, <1>7 DEF SocketInv, SocketTypes

\* A connection that is cleaned up is on no list.
LEMMA CleanedMoves ==
    ASSUME SocketInv, NEW s, Cleaned(s), server' = server, DOMAIN link' = Sockets,
           \A q \in Sockets : DOMAIN link'[q] = {"state", "events"} /\ link'[q].state = link[q].state
    PROVE  SocketInv'
  <1>1. SocketTypes /\ \A q \in Sockets : SocketHolds(q)
    BY DEF SocketInv
  <1>2. /\ DOMAIN records' = Sockets
        /\ \A q \in Sockets : records'[q] = (IF q = s THEN NoRecord ELSE records[q])
    BY <1>1 DEF Cleaned, SocketTypes
  <1>3. \A q \in Sockets : SocketHolds(q)'
    BY <1>1, <1>2, NoRecordIs DEF SocketHolds
  <1>4. DOMAIN listed' = Channels
    BY DEF Cleaned
  <1>5. ASSUME NEW c \in Channels, NEW q \in listed'[c]
        PROVE  ListHolds(c, q)'
    <2>1. q \in listed[c] /\ q # s
      <3>1. CASE \E k \in records[s].subs : k.channel = c
        BY <1>5, <3>1 DEF Cleaned
      <3>2. CASE ~ \E k \in records[s].subs : k.channel = c
        <4>1. listed'[c] = listed[c]
          BY <3>2 DEF Cleaned
        <4> QED
          BY <1>5, <3>2, <4>1 DEF SocketInv, ListHolds
      <3> QED
        BY <3>1, <3>2
    <2>2. ListHolds(c, q)
      BY <2>1 DEF SocketInv
    <2> QED
      BY <1>2, <2>1, <2>2 DEF ListHolds
  <1> QED
    BY <1>1, <1>2, <1>3, <1>4, <1>5, NoRecordIs DEF SocketInv, SocketTypes

\* A change of one record, which keeps it there, and of one list.
LEMMA RecordMoves ==
    ASSUME SocketInv, NEW s \in Sockets, UNCHANGED <<link, server>>, records[s].here,
           DOMAIN records' = Sockets, DOMAIN listed' = Channels,
           DOMAIN records'[s] = {"here", "subs", "user"}, records'[s].here = records[s].here,
           \A q \in Sockets : q # s => records'[q] = records[q],
           \A c \in Channels : \A q \in listed'[c] : q \in listed[c] \/ q = s,
           \A c \in Channels : s \in listed'[c] => \E k \in records'[s].subs : k.channel = c
    PROVE  SocketInv'
  <1>1. SocketTypes /\ \A q \in Sockets : SocketHolds(q)
    BY DEF SocketInv
  <1>2. \A q \in Sockets : records'[q].here = records[q].here
    OBVIOUS
  <1>3. \A q \in Sockets : SocketHolds(q)'
    BY <1>1, <1>2 DEF SocketHolds
  <1>4. ASSUME NEW c \in Channels, NEW q \in listed'[c]
        PROVE  ListHolds(c, q)'
    <2>1. CASE q = s
      BY <1>4, <2>1 DEF ListHolds
    <2>2. CASE q # s
      BY <1>4, <2>2 DEF ListHolds, SocketInv
    <2> QED
      BY <2>1, <2>2
  <1> QED
    BY <1>1, <1>3, <1>4 DEF SocketInv, SocketTypes

\* A message: the lists follow the record.
LEMMA MessageMoves ==
    ASSUME MailInv, SocketInv, NEW s \in Sockets, NEW i, HandleMessage(s, i)
    PROVE  SocketInv'
  <1>1. SocketTypes /\ \A c \in Channels : \A q \in listed[c] : ListHolds(c, q)
    BY DEF SocketInv
  <1>2. UNCHANGED <<link, server>>
    BY DEF HandleMessage
  <1>3. PICK m : m = inbox[s][i]
    OBVIOUS
  <1>4. m \in Messages
    BY <1>3 DEF HandleMessage, MailInv
  <1>5. CASE UNCHANGED <<records, listed>>
    BY <1>2, <1>5 DEF SocketInv, SocketTypes, SocketHolds, ListHolds
  <1>6. ASSUME records[s].here, HandleSubscribe(s, m.channel), ~ UNCHANGED <<records, listed>>
        PROVE  SocketInv'
    <2>1. PICK k : k = Key(s, m.channel)
      OBVIOUS
    <2>2. k.channel = m.channel
      BY <2>1 DEF Key
    <2>3. /\ records' = [records EXCEPT ![s].subs = records[s].subs \cup {k}]
          /\ listed' = [listed EXCEPT ![m.channel] = listed[m.channel] \cup {s}]
      BY <1>6, <2>1 DEF HandleSubscribe
    <2>4. /\ DOMAIN records' = Sockets /\ DOMAIN records'[s] = {"here", "subs", "user"}
          /\ records'[s].here = records[s].here /\ records'[s].subs = records[s].subs \cup {k}
          /\ \A q \in Sockets : q # s => records'[q] = records[q]
      BY <1>1, <2>3 DEF SocketTypes
    <2>5. /\ DOMAIN listed' = Channels
          /\ \A c \in Channels : listed'[c] = (IF c = m.channel THEN listed[c] \cup {s} ELSE listed[c])
      BY <1>1, <2>3 DEF SocketTypes
    <2>6. \A c \in Channels : s \in listed'[c] => \E kk \in records'[s].subs : kk.channel = c
      BY <1>1, <2>2, <2>4, <2>5 DEF ListHolds
    <2>7. DOMAIN listed' = Channels /\ \A c \in Channels : \A q \in listed'[c] : q \in listed[c] \/ q = s
      BY <2>5
    <2> QED
      BY <1>2, <1>6, <2>4, <2>6, <2>7, RecordMoves
  <1>7. ASSUME records[s].here, HandleUnsubscribe(s, m.channel)
        PROVE  SocketInv'
    <2>1. PICK k : k = PlainKey(m.channel)
      OBVIOUS
    <2>2. k.channel = m.channel
      BY <2>1 DEF PlainKey
    <2>3. /\ records' = [records EXCEPT ![s].subs = records[s].subs \ {k}]
          /\ listed' = [listed EXCEPT ![m.channel] = listed[m.channel] \ {s}]
      BY <1>7, <2>1 DEF HandleUnsubscribe
    <2>4. /\ DOMAIN records' = Sockets /\ DOMAIN records'[s] = {"here", "subs", "user"}
          /\ records'[s].here = records[s].here /\ records'[s].subs = records[s].subs \ {k}
          /\ \A q \in Sockets : q # s => records'[q] = records[q]
      BY <1>1, <2>3 DEF SocketTypes
    <2>5. /\ DOMAIN listed' = Channels
          /\ \A c \in Channels : listed'[c] = (IF c = m.channel THEN listed[c] \ {s} ELSE listed[c])
      BY <1>1, <2>3 DEF SocketTypes
    <2>6. \A c \in Channels : s \in listed'[c] => \E kk \in records'[s].subs : kk.channel = c
      BY <1>1, <2>2, <2>4, <2>5 DEF ListHolds
    <2>7. DOMAIN listed' = Channels /\ \A c \in Channels : \A q \in listed'[c] : q \in listed[c] \/ q = s
      BY <2>5
    <2> QED
      BY <1>2, <1>7, <2>4, <2>6, <2>7, RecordMoves
  <1>8. ASSUME records[s].here, HandleAuth(s)
        PROVE  SocketInv'
    <2>1. /\ DOMAIN records' = Sockets /\ DOMAIN records'[s] = {"here", "subs", "user"}
          /\ records'[s].here = records[s].here /\ records'[s].subs = records[s].subs
          /\ \A q \in Sockets : q # s => records'[q] = records[q]
          /\ listed' = listed
      BY <1>1, <1>8 DEF SocketTypes, HandleAuth
    <2>2. \A c \in Channels : s \in listed'[c] => \E kk \in records'[s].subs : kk.channel = c
      BY <1>1, <2>1 DEF ListHolds
    <2> QED
      BY <1>1, <1>2, <1>8, <2>1, <2>2, RecordMoves DEF SocketTypes
  <1>9. \/ UNCHANGED <<records, listed>>
        \/ /\ records[s].here
           /\ HandleSubscribe(s, m.channel) \/ HandleUnsubscribe(s, m.channel) \/ HandleAuth(s)
    BY <1>3, <1>4 DEF HandleMessage, Messages
  <1> QED
    BY <1>5, <1>6, <1>7, <1>8, <1>9

\* Every step keeps the lists among the records.
LEMMA SocketsKeep ==
    ASSUME MailInv, SocketInv, [RealtimeNext]_realtime
    PROVE  SocketInv'
  <1>1. CASE UNCHANGED <<link, server, records, listed>>
    BY <1>1 DEF SocketInv, SocketTypes, SocketHolds, ListHolds
  <1>2. ASSUME NEW s \in Sockets, NEW event, HandlerBegins(s, event)
        PROVE  SocketInv'
    <2>1. link' = [link EXCEPT ![s].events = link[s].events \ {event}] /\ server' = server
      BY <1>2 DEF HandlerBegins
    <2>2. /\ DOMAIN link' = Sockets
          /\ \A q \in Sockets : DOMAIN link'[q] = {"state", "events"} /\ link'[q].state = link[q].state
      BY <2>1 DEF SocketInv, SocketTypes
    <2>3. CASE UNCHANGED <<records, listed>>
      <3>1. \A q \in Sockets : SocketHolds(q)'
        BY <2>1, <2>2, <2>3 DEF SocketInv, SocketHolds
      <3> QED
        BY <2>1, <2>2, <2>3, <3>1, LinksMove DEF SocketInv, SocketTypes
    <2>4. CASE Cleaned(s)
      BY <2>1, <2>2, <2>4, CleanedMoves
    <2> QED
      BY <1>2, <2>3, <2>4 DEF HandlerBegins
  <1>3. ASSUME NEW r \in removals, RemovalEnds(r)
        PROVE  SocketInv'
    <2>1. UNCHANGED <<link, server>>
      BY <1>3 DEF RemovalEnds
    <2>2. PICK s : s = r.socket
      OBVIOUS
    <2>3. CASE Cleaned(s)
      BY <2>1, <2>3, CleanedMoves DEF SocketInv, SocketTypes
    <2> QED
      BY <1>1, <1>3, <2>1, <2>2, <2>3 DEF RemovalEnds
  <1>4. CASE ServerRestarts
    <2>1. /\ link' = [s \in Sockets |-> [state |-> "shut", events |-> {}]]
          /\ server' = [s \in Sockets |-> "none"]
          /\ records' = [s \in Sockets |-> NoRecord]
          /\ listed' = [c \in Channels |-> {}]
      BY <1>4 DEF ServerRestarts
    <2> QED
      BY <2>1, NoRecordIs DEF SocketInv, SocketTypes, SocketHolds, Coming
  <1>5. CASE Greet \/ WalletConnects \/ CounterExpires \/ \E c \in PanelChannels : MovePanel(c)
    BY <1>1, <1>5 DEF Greet, WalletConnects, CounterExpires, MovePanel, ServerSide
  <1>6. ASSUME NEW s \in Sockets, Unheard(s) \/ SweepBegins(s)
        PROVE  SocketInv'
    BY <1>1, <1>6 DEF Unheard, SweepBegins, ServerSide
  <1> QED
    BY <1>1, <1>2, <1>3, <1>4, <1>5, <1>6, PageMoves, LimitMoves, AttachMoves, MessageMoves
       DEF RealtimeNext, realtime

\* No socket stays on the list of a channel when its record is gone, for any
\* sockets, channels, limits, failures and overlaps of the handlers.
THEOREM ListsKept == RealtimeSpec => []ListedSocketsHeld
  <1>1. RealtimeInit => MailInv /\ SocketInv
    <2> SUFFICES ASSUME RealtimeInit PROVE MailInv /\ SocketInv
      OBVIOUS
    <2>1. MailInv
      BY DEF RealtimeInit, MailInv
    <2>2. SocketInv
      BY NoRecordIs DEF RealtimeInit, SocketInv, SocketTypes, SocketHolds, Coming
    <2> QED
      BY <2>1, <2>2
  <1>2. MailInv /\ SocketInv /\ [RealtimeNext]_realtime => MailInv' /\ SocketInv'
    BY MailKeeps, SocketsKeep
  <1>3. SocketInv => ListedSocketsHeld
    BY DEF SocketInv, ListHolds, ListedSocketsHeld
  <1> QED
    BY <1>1, <1>2, <1>3, PTL DEF RealtimeSpec
=============================================================================
