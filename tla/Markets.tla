------------------------------ MODULE Markets ------------------------------
(***************************************************************************)
(* A market made and resolved by hand: the admin pages create-market.tsx   *)
(* and resolve-market.tsx and the transactions of useSpaceProgram.ts that  *)
(* they send, the row that marketService.ts and routes/markets.ts keep of  *)
(* the market, and the cached list of marketsListCache.ts that the pages   *)
(* read.  The row knows only what the pages say.  An answer is a status    *)
(* and an outcome; the instructions are those of module Resolution.        *)
(***************************************************************************)
EXTENDS Naturals

CONSTANTS
    AdminTabs, ListReaders, \* pages of admins, and pages that read the list
    Verdicts,            \* the outcomes that an admin may choose
    MaxAdminCalls,      \* bound: how often a button is pressed
    MaxAdminFaults      \* bound: transactions and calls that fail or whose answer is lost

VARIABLES
    protocol,       \* the accounts config and oracle_registry
    deed,       \* the market's account
    shelf,           \* its row in the backend
    list,           \* the list in Redis
    purges,         \* the runs of invalidateAll that are under way
    tabs, readers,  \* what the pages do
    adminCalls, adminFaults

markets == <<protocol, deed, shelf, list, purges, tabs, readers, adminCalls, adminFaults>>

None == [status |-> "none", outcome |-> "none"]
NoTab == [at |-> "idle", op |-> "none", outcome |-> "none"]

MarketsInit ==
    /\ protocol = [config |-> FALSE, registry |-> FALSE, paused |-> FALSE]
    /\ deed = [status |-> "none", outcome |-> "none", period |-> FALSE]
    /\ shelf = None /\ list = None
    /\ purges = [keys |-> 0, del |-> 0]
    /\ tabs = [t \in AdminTabs |-> NoTab]
    /\ readers = [r \in ListReaders |-> [at |-> "idle", copy |-> None]]
    /\ adminCalls = 0 /\ adminFaults = 0

AdminFault == adminFaults < MaxAdminFaults /\ adminFaults' = adminFaults + 1
Backend == <<shelf, list, purges, readers>>

\* A button starts its handler, which sends a transaction.
Press(t, op, outcome) ==
    /\ tabs[t].at = "idle"
    /\ adminCalls < MaxAdminCalls /\ adminCalls' = adminCalls + 1
    /\ tabs' = [tabs EXCEPT ![t] = [at |-> "send", op |-> op, outcome |-> outcome]]
    /\ UNCHANGED <<protocol, deed, Backend, adminFaults>>

-----------------------------------------------------------------------------
(***************************************************************************)
(* The protocol is set up, once; this is one transaction each.             *)
(***************************************************************************)
SetUp ==
    /\ UNCHANGED <<deed, Backend, tabs, adminCalls, adminFaults>>

InitializeConfig ==
    /\ ~protocol.config
    /\ protocol' = [protocol EXCEPT !.config = TRUE]
    /\ SetUp

InitializeOracleRegistry ==
    /\ protocol.config /\ ~protocol.registry
    /\ protocol' = [protocol EXCEPT !.registry = TRUE]
    /\ SetUp

PauseProtocol ==
    /\ protocol.registry
    /\ protocol' = [protocol EXCEPT !.paused = ~@]
    /\ SetUp

-----------------------------------------------------------------------------
(***************************************************************************)
(* The transactions.  One whose answer is lost may have landed, and the    *)
(* handler ends with an error either way.                                  *)
(***************************************************************************)
\* (A mutant: the handler goes on whatever the answer was.)
TransactionAssumed(t, op, guard, effect, then) ==
    /\ tabs[t].at = "send" /\ tabs[t].op = op
    /\ \/ guard /\ deed' = effect /\ UNCHANGED adminFaults
       \/ AdminFault /\ UNCHANGED deed
    /\ tabs' = [tabs EXCEPT ![t] = then]
    /\ UNCHANGED <<protocol, Backend, adminCalls>>

Transaction(t, op, guard, effect, then) ==
    /\ tabs[t].at = "send" /\ tabs[t].op = op
    /\ \/ guard /\ deed' = effect /\ tabs' = [tabs EXCEPT ![t] = then] /\ UNCHANGED adminFaults
       \/ AdminFault /\ deed' \in {deed} \cup (IF guard THEN {effect} ELSE {}) /\ tabs' = [tabs EXCEPT ![t] = NoTab]
       \/ ~guard /\ tabs' = [tabs EXCEPT ![t] = NoTab] /\ UNCHANGED <<deed, adminFaults>>
    /\ UNCHANGED <<protocol, Backend, adminCalls>>

Telling(t) == [tabs[t] EXCEPT !.at = "tell"]

\* createMarket is two transactions; only then can the market be traded.
CreateCore(t) ==
    Transaction(t, "create", deed.status = "none",
                [deed EXCEPT !.status = "Core"],
                [tabs[t] EXCEPT !.op = "vaults"])

CreateVaults(t) ==
    Transaction(t, "vaults", deed.status = "Core", [deed EXCEPT !.status = "Active"], Telling(t))

ResolveMarket(t) ==
    Transaction(t, "resolve",
                deed.status = "Active" /\ protocol.registry /\ ~protocol.paused,
                [status |-> "Resolving", outcome |-> tabs[t].outcome, period |-> TRUE], Telling(t))

ChallengeMarket(t) ==
    Transaction(t, "challenge", deed.status = "Resolving" /\ deed.period,
                [deed EXCEPT !.status = "Disputed"], Telling(t))

Finalize(t) ==
    Transaction(t, "finalize", deed.status \in {"Resolving", "Disputed"} /\ ~deed.period,
                [deed EXCEPT !.status = "Finalized"], Telling(t))

\* No page calls it, and nothing tells the backend.
Invalidates(t) ==
    Transaction(t, "invalid", deed.status # "none" /\ protocol.config,
                [deed EXCEPT !.status = "Invalid"], NoTab)

PeriodEnds ==
    /\ deed.period
    /\ deed' = [deed EXCEPT !.period = FALSE]
    /\ UNCHANGED <<protocol, Backend, tabs, adminCalls, adminFaults>>

-----------------------------------------------------------------------------
(***************************************************************************)
(* The backend is told: POST /markets and PATCH /markets/:address/status.  *)
(***************************************************************************)
\* storeMarket, and updateMarketStatus, which changes what it is given: only
\* the resolution gives it an outcome.
Stored == IF shelf = None THEN [status |-> "Active", outcome |-> "none"] ELSE shelf

Updated(op, outcome) ==
    IF shelf = None THEN shelf
    ELSE CASE op = "resolve" -> [status |-> "Resolving", outcome |-> outcome]
           [] op = "challenge" -> [shelf EXCEPT !.status = "Disputed"]
           [] op = "finalize" -> [shelf EXCEPT !.status = "Finalized"]

\* The answer is awaited, but what it says is only logged.
Saves(t, told) ==
    /\ tabs[t].at = "tell"
    /\ \/ /\ shelf' = told
          /\ purges' = IF told = None THEN purges ELSE [purges EXCEPT !.keys = @ + 1]
          /\ UNCHANGED adminFaults
       \/ AdminFault /\ UNCHANGED <<shelf, purges>>
    /\ tabs' = [tabs EXCEPT ![t] = NoTab]
    /\ UNCHANGED <<protocol, deed, list, readers, adminCalls>>

PostMarket(t) == tabs[t].op = "vaults" /\ Saves(t, Stored)

PatchStatus(t) == tabs[t].op # "vaults" /\ Saves(t, Updated(tabs[t].op, tabs[t].outcome))

\* invalidateAll looks for keys, and then deletes those that it found.
FindKeys ==
    /\ purges.keys > 0
    /\ purges' = [keys |-> purges.keys - 1, del |-> purges.del + IF list = None THEN 0 ELSE 1]
    /\ UNCHANGED <<protocol, deed, shelf, list, tabs, readers, adminCalls, adminFaults>>

DeleteKeys ==
    /\ purges.del > 0
    /\ purges' = [purges EXCEPT !.del = @ - 1]
    /\ list' = None
    /\ UNCHANGED <<protocol, deed, shelf, tabs, readers, adminCalls, adminFaults>>

Expires ==
    /\ list # None
    /\ list' = None
    /\ UNCHANGED <<protocol, deed, shelf, purges, tabs, readers, adminCalls, adminFaults>>

-----------------------------------------------------------------------------
(***************************************************************************)
(* GET /markets, and loadMarkets, which then asks the chain.               *)
(***************************************************************************)
Reads(r, at, copy) == readers' = [readers EXCEPT ![r] = [at |-> at, copy |-> copy]]

GetMarkets(r) ==
    /\ readers[r].at = "idle"
    /\ IF list # None THEN Reads(r, "overlay", list) ELSE Reads(r, "query", None)
    /\ UNCHANGED <<protocol, deed, shelf, list, purges, tabs, adminCalls, adminFaults>>

QueryRows(r) ==
    /\ readers[r].at = "query" /\ Reads(r, "store", shelf)
    /\ UNCHANGED <<protocol, deed, shelf, list, purges, tabs, adminCalls, adminFaults>>

StoreList(r) ==
    /\ readers[r].at = "store"
    /\ \/ list' = readers[r].copy /\ UNCHANGED adminFaults
       \/ UNCHANGED list /\ AdminFault
    /\ Reads(r, "overlay", readers[r].copy)
    /\ UNCHANGED <<protocol, deed, shelf, purges, tabs, adminCalls>>

\* What cannot be read is shown as it was listed.
LoadMarkets(r) ==
    /\ readers[r].at = "overlay"
    /\ \/ Reads(r, "idle", IF readers[r].copy = None THEN None
                           ELSE [status |-> deed.status, outcome |-> deed.outcome])
          /\ UNCHANGED adminFaults
       \/ Reads(r, "idle", readers[r].copy) /\ AdminFault
    /\ UNCHANGED <<protocol, deed, shelf, list, purges, tabs, adminCalls>>

MarketsNext ==
    \/ InitializeConfig \/ InitializeOracleRegistry \/ PauseProtocol
    \/ \E t \in AdminTabs :
         \/ \E op \in {"create", "challenge", "finalize", "invalid"} : Press(t, op, "none")
         \/ \E o \in Verdicts : Press(t, "resolve", o)
         \/ CreateCore(t) \/ CreateVaults(t)
         \/ ResolveMarket(t) \/ ChallengeMarket(t) \/ Finalize(t) \/ Invalidates(t)
         \/ PostMarket(t) \/ PatchStatus(t)
    \/ PeriodEnds
    \/ FindKeys \/ DeleteKeys \/ Expires
    \/ \E r \in ListReaders : GetMarkets(r) \/ QueryRows(r) \/ StoreList(r) \/ LoadMarkets(r)

MarketsSpec == MarketsInit /\ [][MarketsNext]_markets

-----------------------------------------------------------------------------
Progress(status) ==
    CASE status = "none" -> 0 [] status = "Core" -> 1 [] status = "Active" -> 2
      [] status = "Resolving" -> 3 [] status = "Disputed" -> 4
      [] status = "Finalized" -> 5 [] status = "Invalid" -> 6

\* Whichever answers are lost, and whatever two admins do at once, no row, no
\* cached list and no page says that a market is further than it is, or names
\* an outcome that was not resolved.
ListingNeverAhead ==
    \A said \in {shelf, list} \cup {readers[r].copy : r \in ListReaders} :
        /\ Progress(said.status) <= Progress(deed.status)
        /\ said.outcome \in {"none", deed.outcome}
=============================================================================
