------------------------------ MODULE Sessions ------------------------------
(***************************************************************************)
(* Signing in with a wallet: authService.ts, routes/auth.ts and            *)
(* authMiddleware.ts on the server, AuthContext.tsx in one browser tab.    *)
(* The page is single-threaded: an effect or a continuation runs to its    *)
(* next await, and what it awaits is a job.  The server answers a job, or  *)
(* the call fails, and later the page takes the reply up.                  *)
(***************************************************************************)
EXTENDS Naturals, FiniteSets

CONSTANTS
    Accounts,       \* the accounts of the user's wallet
    MaxTokens,      \* bound: tokens per account
    MaxJobs,        \* bound: how many jobs the user lets pile up
    MaxSwitches     \* bound: changes of the connected account, and reloads

VARIABLES
    nonces,         \* auth:nonce:*, the accounts that have one
    sessions,       \* auth:session:*
    issued,         \* how many tokens each account was given
    account,        \* what the wallet has connected, or "none"
    stored,         \* localStorage
    ui,             \* the state of AuthProvider
    last,           \* lastWalletRef
    busy,           \* signInInProgress
    jobs,           \* what the page awaits
    switches

authServer == <<nonces, sessions, issued>>
tab == <<account, stored, ui, last, busy, jobs, switches>>
session == <<authServer, tab>>

NoToken == [of |-> "none", n |-> 0]

SignedOut == [authed |-> FALSE, loading |-> FALSE, user |-> "none", token |-> NoToken]
Nothing == [token |-> NoToken, account |-> "none"]

Awaited == {"me", "delay", "nonce", "verify", "refresh", "logout", "leave", "check", "call"}

Job(do, a, t) == [do |-> do, account |-> a, token |-> t, reply |-> "pending", got |-> NoToken]

\* The page has loaded with no account connected yet.
SessionInit ==
    /\ nonces = {} /\ sessions = {}
    /\ issued = [a \in Accounts |-> 0]
    /\ account = "none"
    /\ stored = Nothing
    /\ ui = SignedOut
    /\ last = "none"
    /\ busy = FALSE
    /\ jobs = {}
    /\ switches = 0

-----------------------------------------------------------------------------
(***************************************************************************)
(* The server.                                                             *)
(***************************************************************************)
\* generateToken and createSession.
NextToken(a) == [of |-> a, n |-> issued[a] + 1]

GrantSession(a, ended) ==
    /\ issued[a] < MaxTokens
    /\ issued' = [issued EXCEPT ![a] = @ + 1]
    /\ sessions' = (sessions \ ended) \cup {NextToken(a)}

\* requireAuth and requireOwnership.
RequireAuth(t) == t \in sessions
RequireOwnership(t, a) == t.of = a

Answered(j, reply, got) ==
    jobs' = (jobs \ {j}) \cup {[j EXCEPT !.reply = reply, !.got = got]}

PostNonce(j) ==
    /\ j.do = "nonce"
    /\ nonces' = nonces \cup {j.account}
    /\ Answered(j, "ok", NoToken)
    /\ UNCHANGED <<sessions, issued>>

\* verifySignature: the nonce is the stored one (it has not expired) and is spent.
PostVerify(j) ==
    /\ j.do = "verify"
    /\ j.account \in nonces
    /\ nonces' = nonces \ {j.account}
    /\ GrantSession(j.account, {})
    /\ Answered(j, "ok", NextToken(j.account))

\* /refresh looks at the token alone, not at its session.
PostRefresh(j) ==
    /\ j.do = "refresh"
    /\ GrantSession(j.token.of, {j.token})
    /\ Answered(j, "ok", NextToken(j.token.of))
    /\ UNCHANGED nonces

PostLogout(j) ==
    /\ j.do \in {"logout", "leave"}
    /\ sessions' = sessions \ {j.token}
    /\ Answered(j, "ok", NoToken)
    /\ UNCHANGED <<nonces, issued>>

GetMe(j) ==
    /\ j.do \in {"me", "check"}
    /\ Answered(j, IF RequireAuth(j.token) THEN "ok" ELSE "refused", NoToken)
    /\ UNCHANGED authServer

\* Any other route that asks for the owner of an account.
OwnCall(j) ==
    /\ j.do = "call"
    /\ Answered(j, IF ~RequireAuth(j.token) THEN "refused"
                   ELSE IF RequireOwnership(j.token, j.account) THEN "ok" ELSE "forbidden", NoToken)
    /\ UNCHANGED authServer

Server(j) ==
    /\ j.reply = "pending" /\ j.do \notin {"delay", "sign"}
    /\ \/ PostNonce(j) \/ PostVerify(j) \/ PostRefresh(j) \/ PostLogout(j) \/ GetMe(j) \/ OwnCall(j)
       \/ Answered(j, "refused", NoToken) /\ UNCHANGED authServer      \* or the call fails
    /\ UNCHANGED <<account, stored, ui, last, busy, switches>>

\* 30 days, for a session as for its token.
SessionExpires(t) ==
    /\ t \in sessions
    /\ sessions' = sessions \ {t}
    /\ UNCHANGED <<nonces, issued, tab>>

-----------------------------------------------------------------------------
(***************************************************************************)
(* The page.                                                               *)
(***************************************************************************)
NotLoading == [ui EXCEPT !.loading = FALSE]

\* The effect on [connected, publicKey].  (initializedRef decides nothing: an
\* account that follows none signs in whether it is set or not.)
WalletGone ==
    /\ stored' = IF last = "none" THEN stored ELSE Nothing
    /\ last' = "none"
    /\ ui' = SignedOut
    /\ UNCHANGED jobs

OtherAccount(a) ==
    /\ stored.account \notin {"none", a}
    /\ stored' = Nothing
    /\ last' = a
    /\ ui' = SignedOut
    /\ jobs' = jobs \cup {Job("delay", a, NoToken)}

StoredToken(a) ==
    /\ stored.token # NoToken /\ stored.account = a
    /\ last' = a
    /\ jobs' = jobs \cup {Job("me", a, stored.token)}
    /\ UNCHANGED <<stored, ui>>

FreshAccount(a) ==
    /\ stored.token = NoToken /\ stored.account \in {"none", a}
    /\ last' = a
    /\ ui' = NotLoading
    /\ jobs' = IF last = a THEN jobs ELSE jobs \cup {Job("delay", a, NoToken)}
    /\ UNCHANGED stored

TokenAlone(a) ==
    /\ stored.token # NoToken /\ stored.account = "none"
    /\ last' = a
    /\ ui' = NotLoading
    /\ UNCHANGED <<stored, jobs>>

AuthEffect(a) ==
    \/ a = "none" /\ WalletGone
    \/ a # "none" /\ (OtherAccount(a) \/ StoredToken(a) \/ FreshAccount(a) \/ TokenAlone(a))

SwitchAccount(a) ==
    /\ a # account /\ switches < MaxSwitches
    /\ account' = a
    /\ switches' = switches + 1
    /\ AuthEffect(a)
    /\ UNCHANGED <<authServer, busy>>

Reload ==
    /\ switches < MaxSwitches
    /\ switches' = switches + 1
    /\ account' = "none" /\ ui' = SignedOut /\ last' = "none"
    /\ busy' = FALSE /\ jobs' = {}
    /\ UNCHANGED <<authServer, stored>>

\* performSignIn for account a, in place of job j; one at a time.
PerformSignIn(a, others) ==
    IF busy
    THEN jobs' = others /\ UNCHANGED <<ui, busy>>
    ELSE /\ busy' = TRUE
         /\ ui' = [ui EXCEPT !.loading = TRUE]
         /\ jobs' = others \cup {Job("nonce", a, NoToken)}

SignInFailed(others) == busy' = FALSE /\ ui' = NotLoading /\ jobs' = others

\* signIn, from a button.
SignIn ==
    /\ account # "none" /\ Cardinality(jobs) < MaxJobs
    /\ PerformSignIn(account, jobs)
    /\ UNCHANGED <<authServer, account, stored, last, switches>>

DelayEnds(j) ==
    /\ j.do = "delay"
    /\ PerformSignIn(j.account, jobs \ {j})
    /\ UNCHANGED <<authServer, account, stored, last, switches>>

GotNonce(j) ==
    /\ j.do = "nonce" /\ j.reply # "pending"
    /\ IF j.reply = "ok"
       THEN /\ jobs' = (jobs \ {j}) \cup
                  {[Job("sign", j.account, NoToken) EXCEPT
                       !.reply = IF account = j.account THEN "ok" ELSE "refused"]}
            /\ UNCHANGED <<ui, busy>>
       ELSE SignInFailed(jobs \ {j})
    /\ UNCHANGED <<authServer, account, stored, last, switches>>

\* The user signs the message, or declines.  The signature is that of the
\* account connected when the prompt opened, and of no use if it is another's.
AnswerPrompt(j) ==
    /\ j.do = "sign"
    /\ \/ /\ j.reply = "ok"
          /\ jobs' = (jobs \ {j}) \cup {Job("verify", j.account, NoToken)}
          /\ UNCHANGED <<ui, busy>>
       \/ SignInFailed(jobs \ {j})
    /\ UNCHANGED <<authServer, account, stored, last, switches>>

\* (A mutant: only a sign-in that succeeds is over.)
NeverFreed(j) ==
    /\ j.do = "verify" /\ j.reply = "ok"
    /\ stored' = [token |-> j.got, account |-> j.account]
    /\ ui' = [authed |-> TRUE, loading |-> FALSE, user |-> j.account, token |-> j.got]
    /\ busy' = FALSE
    /\ jobs' = jobs \ {j}
    /\ UNCHANGED <<authServer, account, last, switches>>

SignedIn(j) ==
    /\ j.do = "verify" /\ j.reply # "pending"
    /\ IF j.reply = "ok"
       THEN /\ stored' = [token |-> j.got, account |-> j.account]
            /\ ui' = [authed |-> TRUE, loading |-> FALSE, user |-> j.account, token |-> j.got]
            /\ busy' = FALSE
            /\ jobs' = jobs \ {j}
       ELSE SignInFailed(jobs \ {j}) /\ UNCHANGED stored
    /\ UNCHANGED <<authServer, account, last, switches>>

\* verifyStoredToken came back; an old token is refreshed at once.
TokenVerified(j) ==
    /\ j.do = "me" /\ j.reply # "pending"
    /\ IF j.reply = "ok"
       THEN /\ ui' = [authed |-> TRUE, loading |-> FALSE, user |-> j.account, token |-> j.token]
            /\ \/ jobs' = jobs \ {j}
               \/ jobs' = (jobs \ {j}) \cup {Job("refresh", "none", j.token)}
            /\ UNCHANGED stored
       ELSE ui' = NotLoading /\ stored' = Nothing /\ jobs' = jobs \ {j}
    /\ UNCHANGED <<authServer, account, last, busy, switches>>

\* refreshToken, from the timer of seven days ...
RefreshDue ==
    /\ ui.authed /\ ui.token # NoToken /\ Cardinality(jobs) < MaxJobs
    /\ jobs' = jobs \cup {Job("refresh", "none", ui.token)}
    /\ UNCHANGED <<authServer, account, stored, ui, last, busy, switches>>

\* ... and its reply.
Refreshed(j) ==
    /\ j.do = "refresh" /\ j.reply # "pending"
    /\ IF j.reply = "ok"
       THEN stored' = [stored EXCEPT !.token = j.got] /\ ui' = [ui EXCEPT !.token = j.got]
       ELSE UNCHANGED <<stored, ui>>
    /\ jobs' = jobs \ {j}
    /\ UNCHANGED <<authServer, account, last, busy, switches>>

\* signOut, checkAuth, and a call to the backend.
Ask(do) ==
    /\ ui.token # NoToken /\ Cardinality(jobs) < MaxJobs
    /\ do = "call" => ui.authed /\ account # "none"
    /\ jobs' = jobs \cup {Job(do, account, ui.token)}
    /\ UNCHANGED <<authServer, account, stored, ui, last, busy, switches>>

LoggedOut(j) ==
    /\ j.do = "logout" /\ j.reply # "pending"
    /\ stored' = Nothing /\ ui' = SignedOut
    /\ jobs' = jobs \ {j}
    /\ UNCHANGED <<authServer, account, last, busy, switches>>

\* signOutAndDisconnect: the wallet's disconnect sets the effect off.
Left(j) ==
    /\ j.do = "leave" /\ j.reply # "pending"
    /\ stored' = Nothing /\ ui' = SignedOut
    /\ account' = "none" /\ last' = "none"
    /\ jobs' = jobs \ {j}
    /\ UNCHANGED <<authServer, busy, switches>>

Checked(j) ==
    /\ j.do = "check" /\ j.reply # "pending"
    /\ IF j.reply = "ok"
       THEN UNCHANGED <<stored, ui>>
       ELSE stored' = [stored EXCEPT !.token = NoToken] /\ ui' = SignedOut
    /\ jobs' = jobs \ {j}
    /\ UNCHANGED <<authServer, account, last, busy, switches>>

Called(j) ==
    /\ j.do = "call" /\ j.reply # "pending"
    /\ jobs' = jobs \ {j}
    /\ UNCHANGED <<authServer, account, stored, ui, last, busy, switches>>

Continue(j) ==
    \/ Server(j) \/ DelayEnds(j) \/ GotNonce(j) \/ SignedIn(j) \/ TokenVerified(j)
    \/ Refreshed(j) \/ LoggedOut(j) \/ Left(j) \/ Checked(j) \/ Called(j)

SessionNext ==
    \/ \E a \in Accounts \cup {"none"} : SwitchAccount(a)
    \/ Reload \/ SignIn \/ RefreshDue
    \/ \E do \in {"logout", "leave", "check", "call"} : Ask(do)
    \/ \E j \in jobs : Continue(j) \/ AnswerPrompt(j)
    \/ \E t \in sessions : SessionExpires(t)

-----------------------------------------------------------------------------
\* A page that shows that it is loading, or that refuses to sign in because it
\* already does, gets over it, whatever fails and whatever the user does in
\* the meantime, unless it waits for the user to answer the wallet.
SignInEnds ==
    []<>(~(busy \/ ui.loading) \/ \E j \in jobs : j.do = "sign")
=============================================================================
