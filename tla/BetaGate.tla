------------------------------ MODULE BetaGate ------------------------------
(***************************************************************************)
(* The beta gate (betaGate/service.ts and routes.ts, with its client,      *)
(* lib/betaGate.ts): a wallet redeems a code in two requests, /verify,     *)
(* which leaves a challenge in Redis, and /redeem, which spends it and     *)
(* runs the redemption script.  Each Redis command is a step; the script   *)
(* is one, and so is seedCode, since nothing else writes an absent code.   *)
(* A command may fail or time out with the process alive, applied or not,  *)
(* and one that was sent when the connection broke may be applied twice.   *)
(* The counts of failures and the lists of metrics are left out: the lock  *)
(* that the failures lead to is only logged.                               *)
(***************************************************************************)
EXTENDS Naturals

CONSTANTS
    Codes, Wallets, Nonces,
    Slots,          \* bound: how many requests are served at once
    Watched,        \* bound: the counters told apart, of "ip", Codes and Wallets
    MaxAttempts,    \* rateLimits.*.max
    MaxGateFaults   \* bound: crashes, and commands that fail or are sent again

ASSUME GateAssumption == MaxAttempts \in Nat \ {0}

VARIABLES
    code,           \* beta:code:*
    challenge,      \* beta:challenge:*, the code it is for
    access,         \* beta:access:*
    counter,        \* beta:ratelimit:*
    request,        \* the requests being served
    token,          \* the access tokens issued and not expired
    endless,        \* history: the counters whose window nobody will set any more
    gateFaults

gate == <<code, challenge, access, counter, request, token, endless, gateFaults>>

Unseeded == [status |-> "absent", wallet |-> "none", expires |-> FALSE]
Fresh == [count |-> 0, ttl |-> FALSE]
NoRequest == [at |-> "idle", call |-> "none", subject |-> "none", nonce |-> "none"]

GateInit ==
    /\ code = [c \in Codes |-> Unseeded]
    /\ challenge = [n \in Nonces |-> "unused"]
    /\ access = {}
    /\ counter = [k \in Watched |-> Fresh]
    /\ request = [s \in Slots |-> NoRequest]
    /\ token = {}
    /\ endless = {}
    /\ gateFaults = 0

-----------------------------------------------------------------------------
SeedCode(c) ==
    /\ code[c].status = "absent"
    /\ \E expires \in BOOLEAN :
         code' = [code EXCEPT ![c] = [Unseeded EXCEPT !.status = "valid", !.expires = expires]]
    /\ UNCHANGED <<challenge, access, counter, request, token, endless, gateFaults>>

-----------------------------------------------------------------------------
Goto(s, at) == request' = [request EXCEPT ![s].at = at]
Finish(s) == request' = [request EXCEPT ![s] = NoRequest]
GateFault == gateFaults < MaxGateFaults /\ gateFaults' = gateFaults + 1

\* The client asks to verify a code, or to redeem one with a nonce it was sent.
AskVerify(s, c) ==
    /\ request[s].at = "idle"
    /\ request' = [request EXCEPT ![s] =
                     [at |-> "ip", call |-> "verify", subject |-> c, nonce |-> "none"]]
    /\ UNCHANGED <<code, challenge, access, counter, token, endless, gateFaults>>

AskRedeem(s, w, n) ==
    /\ request[s].at = "idle"
    /\ challenge[n] # "unused"
    /\ request' = [request EXCEPT ![s] =
                     [at |-> "ip", call |-> "redeem", subject |-> w, nonce |-> n]]
    /\ UNCHANGED <<code, challenge, access, counter, token, endless, gateFaults>>

\* checkRateLimit is called by the middleware for the address and by the
\* handlers for the code or wallet: INCR, and EXPIRE when the counter is new.
Subject(s) == IF request[s].at \in {"ip", "ip window"} THEN "ip" ELSE request[s].subject
Allowed(s) == IF Subject(s) = "ip" THEN "subject" ELSE request[s].call
Opened(s) == IF Subject(s) = "ip" THEN "ip window" ELSE "subject window"

\* A request has yet to set the window of the counter.
Opening(k) == \E s \in Slots : request[s].at \in {"ip window", "subject window"} /\ Subject(s) = k

\* (A mutant: the window is set when the limit is reached.)
AdmittedLate(s, current) ==
    \/ current = MaxAttempts /\ Goto(s, Opened(s))
    \/ current < MaxAttempts /\ Goto(s, Allowed(s))
    \/ current > MaxAttempts /\ Finish(s)

\* What INCR answers decides.
Admitted(s, current) ==
    \/ current = 1 /\ Goto(s, Opened(s))
    \/ current \in 2..MaxAttempts /\ Goto(s, Allowed(s))
    \/ current > MaxAttempts /\ Finish(s)

\* Nobody sets the window of a counter whose first INCR was not answered by 1.
EndlessWith(k) == IF counter[k].count = 0 THEN endless \cup {k} ELSE endless

\* (Counts past the limit are not told apart.)
Count(s) ==
    LET k == Subject(s)
        before == counter[k].count
        After(n) == [counter EXCEPT ![k].count = IF @ + n > MaxAttempts THEN MaxAttempts + 1 ELSE @ + n]
    IN
    /\ request[s].at \in {"ip", "subject"}
    /\ k \in Watched
    /\ \/ counter' = After(1) /\ Admitted(s, before + 1) /\ UNCHANGED <<endless, gateFaults>>
       \/ counter' = After(2) /\ Admitted(s, before + 2) /\ endless' = EndlessWith(k) /\ GateFault
       \/ counter' = After(1) /\ Finish(s) /\ endless' = EndlessWith(k) /\ GateFault
       \/ Finish(s) /\ UNCHANGED <<counter, endless>> /\ GateFault
    /\ UNCHANGED <<code, challenge, access, token>>

Window(s) ==
    LET k == Subject(s)
        timed == [counter EXCEPT ![k].ttl = TRUE]
    IN
    /\ request[s].at \in {"ip window", "subject window"}
    /\ \/ counter' = timed /\ Goto(s, Allowed(s)) /\ UNCHANGED <<endless, gateFaults>>
       \/ counter' = timed /\ Finish(s) /\ UNCHANGED endless /\ GateFault
       \/ UNCHANGED counter /\ Finish(s) /\ endless' = endless \cup {k} /\ GateFault
    /\ UNCHANGED <<code, challenge, access, token>>

\* The bound on the counters: one that is not watched never limits.
Unlimited(s) ==
    /\ request[s].at \in {"ip", "subject"}
    /\ Subject(s) \notin Watched
    /\ Goto(s, Allowed(s))
    /\ UNCHANGED <<code, challenge, access, counter, token, endless, gateFaults>>

\* verifyCode and createChallenge.  A challenge whose SETEX was not answered is
\* as good as none, since no client is told its nonce.
IsValid(c) == code[c].status = "valid"

CreateChallenge(c, n) == challenge[n] = "unused" /\ challenge' = [challenge EXCEPT ![n] = c]

Verify(s) ==
    /\ request[s].at = "verify"
    /\ \/ /\ IsValid(request[s].subject)
          /\ \E n \in Nonces : CreateChallenge(request[s].subject, n)
          /\ UNCHANGED gateFaults
       \/ ~IsValid(request[s].subject) /\ UNCHANGED <<challenge, gateFaults>>
       \/ UNCHANGED challenge /\ GateFault
    /\ Finish(s)
    /\ UNCHANGED <<code, access, counter, token, endless>>

\* redeemCode, GET: the challenge is there and its message signed by the
\* wallet, or else the request ends.
ReadChallenge(s) ==
    /\ request[s].at = "redeem"
    /\ \/ Finish(s)
       \/ /\ challenge[request[s].nonce] \in Codes
          /\ request' = [request EXCEPT ![s].at = "burn", ![s].call = challenge[request[s].nonce]]
    /\ UNCHANGED <<code, challenge, access, counter, token, endless, gateFaults>>

\* From here on, the code that the challenge was for.
Redeemed(s) == request[s].call

Burn(s) ==
    /\ request[s].at = "burn"
    /\ LET gone == [challenge EXCEPT ![request[s].nonce] = "gone"]
       IN  \/ challenge' = gone /\ Goto(s, "script") /\ UNCHANGED gateFaults
           \/ challenge' \in {challenge, gone} /\ Finish(s) /\ GateFault
    /\ UNCHANGED <<code, access, counter, token, endless>>

MayRedeemPresent(c) == code[c].status # "absent"    \* a mutant

MayRedeem(c) == code[c].status = "valid"

\* REDEEM_LUA_SCRIPT.  SET drops the expiry of the code.  A script that has run
\* without an answer, or that runs again, leaves the code redeemed and no token.
RunScript(s) ==
    /\ request[s].at = "script"
    /\ LET c == Redeemed(s)
           w == request[s].subject
       IN  IF MayRedeem(c)
           THEN /\ code' = [code EXCEPT ![c] = [status |-> "redeemed", wallet |-> w, expires |-> FALSE]]
                /\ access' = access \cup {w}
                /\ \/ Goto(s, "issue") /\ UNCHANGED gateFaults
                   \/ Finish(s) /\ GateFault
           ELSE Finish(s) /\ UNCHANGED <<code, access, gateFaults>>
    /\ UNCHANGED <<challenge, counter, token, endless>>

\* generateAccessToken, and the cookie that carries the token, unless the count
\* of redemptions could not be updated.
Issue(s) ==
    /\ request[s].at = "issue"
    /\ \/ /\ token' = token \cup {[wallet |-> request[s].subject, code |-> Redeemed(s)]}
          /\ UNCHANGED gateFaults
       \/ UNCHANGED token /\ GateFault
    /\ Finish(s)
    /\ UNCHANGED <<code, challenge, access, counter, endless>>

-----------------------------------------------------------------------------
\* What Redis and the signature of a token let expire.  (That a challenge does
\* shows in ReadChallenge, whose request may end at any time.)
Expire ==
    /\ \/ \E k \in Watched :
            /\ counter[k].ttl
            /\ counter' = [counter EXCEPT ![k] = Fresh]
            /\ UNCHANGED <<code, access, token>>
       \/ \E c \in Codes :
            /\ code[c].expires
            /\ code' = [code EXCEPT ![c] = Unseeded]
            /\ UNCHANGED <<access, counter, token>>
       \/ \E w \in access : access' = access \ {w} /\ UNCHANGED <<code, counter, token>>
       \/ \E t \in token : token' = token \ {t} /\ UNCHANGED <<code, access, counter>>
    /\ UNCHANGED <<challenge, request, endless, gateFaults>>

\* The process dies and starts again; Redis does not.
GateCrash ==
    /\ GateFault
    /\ request' = [s \in Slots |-> NoRequest]
    /\ endless' = endless \cup {k \in Watched : Opening(k)}
    /\ UNCHANGED <<code, challenge, access, counter, token>>

GateNext ==
    \/ \E c \in Codes : SeedCode(c)
    \/ \E s \in Slots :
         \/ \E c \in Codes : AskVerify(s, c)
         \/ \E w \in Wallets, n \in Nonces : AskRedeem(s, w, n)
         \/ Count(s) \/ Window(s) \/ Unlimited(s) \/ Verify(s)
         \/ ReadChallenge(s) \/ Burn(s) \/ RunScript(s) \/ Issue(s)
    \/ Expire
    \/ GateCrash

GateSpec == GateInit /\ [][GateNext]_gate

-----------------------------------------------------------------------------
\* An access token always names the wallet that redeemed its code, so a code
\* lets in one wallet, although several challenges of it may be open at once,
\* requests overlap, codes expire and are seeded again.
TokenNamesRedeemer ==
    \A t \in token : code[t.code].status = "redeemed" /\ code[t.code].wallet = t.wallet

\* A counter that limits somebody always ends, whatever requests, failed commands
\* and crashes there are, unless the very request that opened it was cut off
\* between INCR and EXPIRE: nothing repairs that one.
LimitsWearOff ==
    \A k \in Watched : counter[k].count > 0 => counter[k].ttl \/ Opening(k) \/ k \in endless
=============================================================================
