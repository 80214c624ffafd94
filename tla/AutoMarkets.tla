----------------------------- MODULE AutoMarkets -----------------------------
(***************************************************************************)
(* Markets that the backend makes by itself: binancePriceService.ts,       *)
(* autoMarketSchedulerService.ts, autoMarketKeeperService.ts,              *)
(* autoResolverService.ts and routes/autoMarket.ts, for one symbol and     *)
(* timeframe.  Every transaction is a step: it lands and the service knows *)
(* it, or it fails, or it lands and looks as if it had failed.  The chain  *)
(* is what these calls need of module Resolution.                          *)
(***************************************************************************)
EXTENDS Naturals, FiniteSets, Sequences

CONSTANTS
    AutoMarketIds,  \* bound: as many markets are made
    Resolvers,      \* bound: how many polls of the resolver overlap
    MaxAutoFaults   \* bound: transactions and queries that fail, sockets that close,
                    \* crashes, and markets that somebody else resolves or invalidates

VARIABLES
    feed,           \* the connection to Binance and the price last seen
    currentQuote,   \* currentQuoteMint of the keeper service
    onChain,        \* the market accounts and what the keeper has in them
    rows,           \* the table markets
    flow,           \* where the creation of a market is
    polls,          \* what each poll of the resolver is doing
    recovery,       \* where the recovery of a market's liquidity is
    past,           \* the markets whose resolve_at has passed
    unchallenged,   \* the markets whose challenge period is over
    autoFaults

automarket == <<feed, currentQuote, onChain, rows, flow, polls, recovery,
                past, unchallenged, autoFaults>>
making == <<currentQuote, flow>>
resolving == <<polls, recovery>>
passing == <<past, unchallenged>>

SeedOrders == {"yesSell", "noSell", "yesBuy", "noBuy"}
Token(order) == IF order \in {"yesSell", "yesBuy"} THEN "YES" ELSE "NO"

NoMarket == [status |-> "none", outcome |-> "none", quote |-> "none", orders |-> {}, held |-> {}]
NoRow == [status |-> "none", outcome |-> "none", strike |-> 0, beside |-> {}]
NoFlow == [at |-> "none", quote |-> "none", by |-> "none", strike |-> 0, beside |-> {}]
NoPoll == [at |-> "idle", kind |-> "none", of |-> "none", row |-> NoRow, outcome |-> "none"]
NoRecovery == [at |-> "none", outcome |-> "none"]

AutoInit ==
    /\ feed = [link |-> "open", price |-> 0, fresh |-> FALSE]
    /\ currentQuote = "USDC"
    /\ onChain = [m \in AutoMarketIds |-> NoMarket]
    /\ rows = [m \in AutoMarketIds |-> NoRow]
    /\ flow = [m \in AutoMarketIds |-> NoFlow]
    /\ polls = [r \in Resolvers |-> NoPoll]
    /\ recovery = [m \in AutoMarketIds |-> NoRecovery]
    /\ past = {} /\ unchallenged = {}
    /\ autoFaults = 0

Fault == autoFaults < MaxAutoFaults /\ autoFaults' = autoFaults + 1

-----------------------------------------------------------------------------
(***************************************************************************)
(* binancePriceService.                                                    *)
(***************************************************************************)
FeedTrade ==
    /\ feed.link = "open"
    /\ \E p \in 1..2 : feed' = [feed EXCEPT !.price = p, !.fresh = TRUE]
    /\ UNCHANGED <<making, onChain, rows, resolving, passing, autoFaults>>

\* No trade for ten seconds, or the connection closes, and is scheduled again.
FeedStale ==
    /\ Fault
    /\ \/ feed' = [feed EXCEPT !.fresh = FALSE]
       \/ feed.link = "open" /\ feed' = [feed EXCEPT !.link = "waiting"]
    /\ UNCHANGED <<making, onChain, rows, resolving, passing>>

FeedReconnects ==
    /\ feed.link = "waiting"
    /\ feed' = [feed EXCEPT !.link = "open"]
    /\ UNCHANGED <<making, onChain, rows, resolving, passing, autoFaults>>

GetPrice == IF feed.fresh THEN feed.price ELSE 0

-----------------------------------------------------------------------------
(***************************************************************************)
(* The scheduler, and createAndSeedMarket.                                 *)
(***************************************************************************)
\* (A mutant: an expired market counts, and one that trades does not.)
StillActivePast == \E m \in AutoMarketIds : rows[m].status = "Active" /\ m \in past

StillActive == \E m \in AutoMarketIds : rows[m].status = "Active" /\ m \notin past

Underway == {m \in AutoMarketIds : flow[m].at \notin {"none", "done"} /\ flow[m].by = "scheduler"}

\* The quote token is kept in the service, not in the call.
Begin(m, quote, by, strike) ==
    /\ flow[m] = NoFlow /\ onChain[m] = NoMarket
    /\ flow' = [flow EXCEPT ![m] = [at |-> "core", quote |-> quote, by |-> by, strike |-> strike,
                                    beside |-> IF by = "scheduler" THEN Underway ELSE {}]]
    /\ currentQuote' = quote
    /\ UNCHANGED <<feed, onChain, rows, resolving, passing, autoFaults>>

CreateMarket(m) == GetPrice # 0 /\ ~StillActive /\ Begin(m, "USDC", "scheduler", GetPrice)

\* POST /create-seeded, by an admin.
CreateSeeded(m) == Begin(m, "SPACE", "admin", 0)

Onto(m, at) == flow' = [flow EXCEPT ![m].at = at]
AccountsOf(m) == onChain[m].quote = currentQuote
OnSale(m) == onChain[m].status = "Active"

InitializeMarketCore(m) ==
    /\ flow[m].at = "core"
    /\ onChain' = [onChain EXCEPT ![m].status = "Active"]
    /\ Onto(m, "vaults")

InitializeMarketVaults(m) ==
    /\ flow[m].at = "vaults" /\ OnSale(m)
    /\ onChain' = [onChain EXCEPT ![m].quote = currentQuote]
    /\ Onto(m, "fund")

FundLiquidityVault(m) == flow[m].at = "fund" /\ AccountsOf(m) /\ UNCHANGED onChain /\ Onto(m, "mint")

MintSeedShares(m) ==
    /\ flow[m].at = "mint" /\ AccountsOf(m) /\ OnSale(m)
    /\ onChain' = [onChain EXCEPT ![m].held = {"YES", "NO"}]
    /\ Onto(m, "yesSell")

\* Sell orders escrow shares, whatever the quote token.
PlaceSeedSell(m, order, next) ==
    /\ flow[m].at = order /\ OnSale(m)
    /\ onChain' = [onChain EXCEPT ![m].held = @ \ {Token(order)}, ![m].orders = @ \cup {order}]
    /\ Onto(m, next)

PlaceYesSellOrder(m) == PlaceSeedSell(m, "yesSell", "noSell")
PlaceNoSellOrder(m) == PlaceSeedSell(m, "noSell", "yesBuy")

PlaceSeedBuy(m, order, next) ==
    /\ flow[m].at = order /\ AccountsOf(m) /\ OnSale(m)
    /\ onChain' = [onChain EXCEPT ![m].orders = @ \cup {order}]
    /\ Onto(m, next)

PlaceBuyOrder(m) == PlaceSeedBuy(m, "yesBuy", "noBuy") \/ PlaceSeedBuy(m, "noBuy", "persist")

CreateAndSeedMarket(m) ==
    /\ \/ InitializeMarketCore(m) \/ InitializeMarketVaults(m) \/ FundLiquidityVault(m)
       \/ MintSeedShares(m) \/ PlaceYesSellOrder(m) \/ PlaceNoSellOrder(m) \/ PlaceBuyOrder(m)
    /\ UNCHANGED <<feed, currentQuote, rows, resolving, passing, autoFaults>>

\* A step that fails ends the creation, and nothing is undone or tried again.
SeedingFails(m) ==
    /\ flow[m].at \notin {"none", "done"}
    /\ \/ flow[m].at \in {"fund", "mint", "yesBuy", "noBuy"} /\ ~AccountsOf(m) /\ UNCHANGED autoFaults
       \/ flow[m].at \in {"vaults", "mint"} \cup SeedOrders /\ ~OnSale(m) /\ UNCHANGED autoFaults
       \/ Fault
    /\ Onto(m, "done")
    /\ UNCHANGED <<feed, currentQuote, onChain, rows, resolving, passing>>

\* The scheduler writes the row; the admin's route does not.
PersistMarket(m) ==
    /\ flow[m].at = "persist"
    /\ rows' = IF flow[m].by = "scheduler"
               THEN [rows EXCEPT ![m] = [status |-> "Active", outcome |-> "none",
                                         strike |-> flow[m].strike, beside |-> flow[m].beside]]
               ELSE rows
    /\ Onto(m, "done")
    /\ UNCHANGED <<feed, currentQuote, onChain, resolving, passing, autoFaults>>

-----------------------------------------------------------------------------
(***************************************************************************)
(* The resolver.                                                           *)
(***************************************************************************)
OnPoll(r, p) == polls' = [polls EXCEPT ![r] = p]
PollOver(r) == OnPoll(r, NoPoll)
At(r, at) == OnPoll(r, [polls[r] EXCEPT !.at = at])
QuietAuto == UNCHANGED <<feed, making, passing>>

\* A save writes the fields that the service changed in the row it had read.
SaveRow(m, read, new) ==
    rows' = [rows EXCEPT ![m].status = IF new.status # read.status THEN new.status ELSE @,
                         ![m].outcome = IF new.outcome # read.outcome THEN new.outcome ELSE @]

ResolveExpired(r, m) ==
    /\ polls[r] = NoPoll
    /\ rows[m].status = "Active" /\ m \in past
    /\ OnPoll(r, [NoPoll EXCEPT !.at = "price", !.kind = "resolve", !.of = m, !.row = rows[m]])
    /\ QuietAuto /\ UNCHANGED <<onChain, rows, recovery, autoFaults>>

WinningOutcome(price, strike) == IF price > strike THEN "YES" ELSE "NO"

ComparePrice(r) ==
    /\ polls[r].at = "price"
    /\ IF GetPrice = 0 THEN PollOver(r)
       ELSE OnPoll(r, [polls[r] EXCEPT !.at = "send", !.outcome = WinningOutcome(GetPrice, polls[r].row.strike)])
    /\ QuietAuto /\ UNCHANGED <<onChain, rows, recovery, autoFaults>>

ResolveAutoMarket(r) ==
    LET m == polls[r].of IN
    /\ polls[r].at = "send" /\ polls[r].kind = "resolve"
    /\ IF onChain[m].status = "Active"
       THEN LET landed == [onChain EXCEPT ![m].status = "Resolving", ![m].outcome = polls[r].outcome]
            IN  \/ onChain' = landed /\ At(r, "save") /\ UNCHANGED autoFaults
                \/ onChain' \in {onChain, landed} /\ PollOver(r) /\ Fault
       ELSE At(r, "reconcile") /\ UNCHANGED <<onChain, autoFaults>>
    /\ QuietAuto /\ UNCHANGED <<rows, recovery>>

SaveResolved(r) ==
    /\ polls[r].at = "save" /\ polls[r].kind = "resolve"
    /\ SaveRow(polls[r].of, polls[r].row, [status |-> "Resolving", outcome |-> polls[r].outcome])
    /\ PollOver(r)
    /\ QuietAuto /\ UNCHANGED <<onChain, recovery, autoFaults>>

FinalizeReady(r, m) ==
    /\ polls[r] = NoPoll
    /\ rows[m].status = "Resolving"
    /\ OnPoll(r, [NoPoll EXCEPT !.at = "send", !.kind = "finalize", !.of = m, !.row = rows[m]])
    /\ QuietAuto /\ UNCHANGED <<onChain, rows, recovery, autoFaults>>

FinalizeMarketOnChain(r) ==
    LET m == polls[r].of IN
    /\ polls[r].at = "send" /\ polls[r].kind = "finalize"
    /\ IF onChain[m].status \in {"Resolving", "Disputed"}
       THEN IF m \in unchallenged
            THEN LET landed == [onChain EXCEPT ![m].status = "Finalized"]
                 IN  \/ onChain' = landed /\ At(r, "save") /\ UNCHANGED autoFaults
                     \/ onChain' \in {onChain, landed} /\ PollOver(r) /\ Fault
            ELSE PollOver(r) /\ UNCHANGED <<onChain, autoFaults>>
       ELSE At(r, "reconcile") /\ UNCHANGED <<onChain, autoFaults>>
    /\ QuietAuto /\ UNCHANGED <<rows, recovery>>

StartRecovery(m, outcome) == recovery' = [recovery EXCEPT ![m] = [at |-> "cancel", outcome |-> outcome]]

SaveFinalized(r) ==
    LET m == polls[r].of IN
    /\ polls[r].at = "save" /\ polls[r].kind = "finalize"
    /\ SaveRow(m, polls[r].row, [polls[r].row EXCEPT !.status = "Finalized"])
    /\ StartRecovery(m, polls[r].row.outcome)
    /\ PollOver(r)
    /\ QuietAuto /\ UNCHANGED <<onChain, autoFaults>>

\* (A mutant: the row is left to the next poll.)
NeverReconciled(r) ==
    /\ polls[r].at = "reconcile"
    /\ PollOver(r)
    /\ QuietAuto /\ UNCHANGED <<onChain, rows, recovery, autoFaults>>

\* The account was not read, whatever the reason.
MarkedInvalid(r) ==
    /\ SaveRow(polls[r].of, polls[r].row, [polls[r].row EXCEPT !.status = "Invalid"])
    /\ Fault /\ UNCHANGED recovery

\* (A mutant: the row keeps the outcome that this poll had computed.)
ReconcileStatus(r) ==
    LET m == polls[r].of
        outcome == IF polls[r].outcome = "none" THEN onChain[m].outcome ELSE polls[r].outcome
    IN  /\ polls[r].at = "reconcile"
        /\ \/ /\ SaveRow(m, polls[r].row, [status |-> onChain[m].status, outcome |-> outcome])
              /\ UNCHANGED <<recovery, autoFaults>>
           \/ MarkedInvalid(r)
        /\ PollOver(r)
        /\ QuietAuto /\ UNCHANGED onChain

\* The chain was not as the row said: the row is set to what the chain says.
Reconcile(r) ==
    LET m == polls[r].of
        found == onChain[m]
        outcome == IF found.outcome = "none" THEN polls[r].row.outcome ELSE found.outcome
    IN  /\ polls[r].at = "reconcile"
        /\ \/ /\ SaveRow(m, polls[r].row, [status |-> found.status, outcome |-> outcome])
              /\ IF polls[r].kind = "finalize" /\ found.status = "Finalized"
                 THEN StartRecovery(m, found.outcome)
                 ELSE UNCHANGED recovery
              /\ UNCHANGED autoFaults
           \/ MarkedInvalid(r)
        /\ PollOver(r)
        /\ QuietAuto /\ UNCHANGED onChain

ResolveOne(r) == ComparePrice(r) \/ ResolveAutoMarket(r) \/ SaveResolved(r)
FinalizeOne(r) == FinalizeMarketOnChain(r) \/ SaveFinalized(r)

\* A query of the table, or a save, fails.
PollFails(r) ==
    /\ polls[r].at # "idle" /\ Fault
    /\ PollOver(r)
    /\ QuietAuto /\ UNCHANGED <<onChain, rows, recovery>>

-----------------------------------------------------------------------------
(***************************************************************************)
(* recoverLiquidity: four cancels and a redemption, whose errors are only  *)
(* logged; a cancel fails too if the order was filled.  A cancelled buy    *)
(* needs the account of the right quote token.                             *)
(***************************************************************************)
RecoverTo(m, at) == recovery' = [recovery EXCEPT ![m].at = at]

CancelSeedOrders(m) ==
    /\ recovery[m].at = "cancel"
    /\ \E done \in SUBSET onChain[m].orders :
         /\ done \cap {"yesBuy", "noBuy"} = {} \/ AccountsOf(m)
         /\ onChain' = [onChain EXCEPT ![m].orders = @ \ done,
                          ![m].held = @ \cup {Token(o) : o \in done \cap {"yesSell", "noSell"}}]
    /\ RecoverTo(m, "redeem")
    /\ UNCHANGED <<feed, making, rows, polls, passing, autoFaults>>

Redeems(m) == AccountsOf(m) /\ onChain[m].status = "Finalized"

\* redeem_shares of the outcome that won.  The keeper's shares, of both tokens,
\* are those of outcome 0; it burns them and pays for the YES.
RedeemSeedShares(m) ==
    /\ recovery[m].at = "redeem"
    /\ \/ /\ Redeems(m) /\ UNCHANGED autoFaults
          /\ onChain' = IF recovery[m].outcome = "YES" THEN [onChain EXCEPT ![m].held = {}] ELSE onChain
       \/ UNCHANGED onChain /\ (IF Redeems(m) THEN Fault ELSE UNCHANGED autoFaults)
    /\ RecoverTo(m, "done")
    /\ UNCHANGED <<feed, making, rows, polls, passing>>

RecoverLiquidity(m) == CancelSeedOrders(m) \/ RedeemSeedShares(m)

-----------------------------------------------------------------------------
(***************************************************************************)
(* The world: time, anybody's transactions, crashes.                       *)
(***************************************************************************)
TimePasses(m) ==
    /\ \/ onChain[m].status # "none" /\ m \notin past /\ past' = past \cup {m} /\ UNCHANGED unchallenged
       \/ /\ onChain[m].status \in {"Resolving", "Disputed"} /\ m \notin unchallenged
          /\ unchallenged' = unchallenged \cup {m} /\ UNCHANGED past
    /\ UNCHANGED <<feed, making, onChain, rows, resolving, autoFaults>>

\* Anybody challenges or finalizes.
OthersAct(m) ==
    /\ \/ /\ onChain[m].status = "Resolving" /\ m \notin unchallenged
          /\ onChain' = [onChain EXCEPT ![m].status = "Disputed"]
       \/ /\ onChain[m].status \in {"Resolving", "Disputed"} /\ m \in unchallenged
          /\ onChain' = [onChain EXCEPT ![m].status = "Finalized"]
    /\ UNCHANGED <<feed, making, rows, resolving, passing, autoFaults>>

\* An oracle or an admin resolves the market before the service does (bound: not
\* before it is made), or an admin marks it invalid, whatever has become of it.
AdminSteps(m) ==
    /\ Fault
    /\ \/ /\ OnSale(m) /\ flow[m].at = "done"
          /\ \E outcome \in {"YES", "NO"} :
               onChain' = [onChain EXCEPT ![m].status = "Resolving", ![m].outcome = outcome]
       \/ /\ onChain[m].status \notin {"none", "Invalid"}
          /\ onChain' = [onChain EXCEPT ![m].status = "Invalid"]
    /\ UNCHANGED <<feed, making, rows, resolving, passing>>

AutoCrash ==
    /\ Fault
    /\ feed' = [link |-> "open", price |-> 0, fresh |-> FALSE]
    /\ currentQuote' = "USDC"
    /\ flow' = [m \in AutoMarketIds |-> IF flow[m].at = "none" THEN NoFlow ELSE [flow[m] EXCEPT !.at = "done"]]
    /\ polls' = [r \in Resolvers |-> NoPoll]
    /\ recovery' = [m \in AutoMarketIds |-> [recovery[m] EXCEPT !.at = IF @ = "none" THEN "none" ELSE "cut"]]
    /\ UNCHANGED <<onChain, rows, passing>>

Poll(r, kind) ==
    \/ \E m \in AutoMarketIds :
         (kind = "resolve" /\ ResolveExpired(r, m)) \/ (kind = "finalize" /\ FinalizeReady(r, m))
    \/ polls[r].kind = kind /\ (ResolveOne(r) \/ FinalizeOne(r) \/ Reconcile(r))

AutoNext ==
    \/ FeedTrade \/ FeedStale \/ FeedReconnects \/ AutoCrash
    \/ \E m \in AutoMarketIds :
         \/ CreateMarket(m) \/ CreateSeeded(m) \/ CreateAndSeedMarket(m) \/ SeedingFails(m)
         \/ PersistMarket(m) \/ RecoverLiquidity(m) \/ TimePasses(m) \/ OthersAct(m)
         \/ AdminSteps(m)
    \/ \E r \in Resolvers : PollFails(r) \/ \E kind \in {"resolve", "finalize"} : Poll(r, kind)

AutoSpec == AutoInit /\ [][AutoNext]_automarket

-----------------------------------------------------------------------------
\* The row of a market is never ahead of the chain: an outcome it has is the
\* chain's, it is not resolving or disputed while the chain trades, and it is
\* final only when the chain has come to its end, although polls overlap, save
\* what they read long ago, lose the answers to their transactions, and others
\* resolve and invalidate the market meanwhile.  (It may be behind, and says
\* Invalid, whatever the chain says, once an account was not read.)
RowNeverAhead ==
    \A m \in AutoMarketIds :
        /\ rows[m].outcome # "none" => rows[m].outcome = onChain[m].outcome
        /\ rows[m].status \in {"Resolving", "Disputed"} => ~OnSale(m)
        /\ rows[m].status = "Finalized" => onChain[m].status \in {"Finalized", "Invalid"}

\* A market of the scheduler whose time is over does not stay active in the
\* backend: it is resolved, by this process or by what the chain already says.
AutoMarketsResolve ==
    \A m \in AutoMarketIds : []<>~(rows[m].status = "Active" /\ m \in past)

Trading(m) == rows[m].status = "Active" /\ m \notin past

\* Two markets of the series trade at the same time only if their creations
\* overlapped.
OneActivePerSeries ==
    \A m, n \in AutoMarketIds :
        m # n /\ Trading(m) /\ Trading(n) => m \in rows[n].beside \/ n \in rows[m].beside
=============================================================================
