---------------------------- MODULE PositionRows ----------------------------
(***************************************************************************)
(* The backend's rows of one trader's positions in one token: the keeper   *)
(* adds what was bought and takes off what was sold, positionService.ts    *)
(* and cleanupClosedPositions.ts compare rows with the accounts on chain,  *)
(* and routes/positions.ts records redemptions.  Each of them reads a row  *)
(* and later writes it.  Every trade is of one share.                      *)
(***************************************************************************)
EXTENDS Naturals, FiniteSets

CONSTANTS
    MaxTrades,      \* bound: trades, and other things that happen on chain
    MaxUpdates,     \* bound: updates under way at once
    MaxRowFaults    \* bound: writes and queries that fail

VARIABLES
    bought,         \* the accounts on chain, which a sale does not reduce
    owned,          \* what was bought and not sold since
    closing,        \* shares of the leveraged position in an order that closes it
    legacy,         \* positions whose account is at the address of an older version
    entries,        \* the rows
    updates,        \* the updates under way
    blurred,        \* positions whose row an update has missed
    final,          \* the market is final, and nothing trades any more
    trades, rowFaults

positionrows == <<bought, owned, closing, legacy, entries, updates, blurred, final, trades, rowFaults>>

Types == {"spot", "leveraged"}

NoEntry == [known |-> FALSE, shares |-> 0, open |-> FALSE]
Closed(entry) == [entry EXCEPT !.shares = 0, !.open = FALSE]

PositionsInit ==
    /\ bought = [p \in Types |-> 0] /\ owned = [p \in Types |-> 0]
    /\ closing = 0
    /\ legacy \in SUBSET Types
    /\ entries = [p \in Types |-> NoEntry]
    /\ updates = {} /\ blurred = {}
    /\ final = FALSE
    /\ trades = 0 /\ rowFaults = 0

RowFault == rowFaults < MaxRowFaults /\ rowFaults' = rowFaults + 1
Happens == ~final /\ trades < MaxTrades /\ trades' = trades + 1

\* Updates are told apart by their number.  One is stale when the row that it
\* has read, or the account, has changed.
Update(do, p) == [do |-> do, of |-> p, at |-> "read", copy |-> NoEntry, stale |-> FALSE, n |-> trades]
Stale(p, jobs, kinds) ==
    {IF v.of = p /\ v.at # "read" /\ v.do \in kinds THEN [v EXCEPT !.stale = TRUE] ELSE v : v \in jobs}
Jobs == {"buy", "sell", "view", "cleanup", "sync"}

Room == Cardinality(updates) < MaxUpdates
Begins(do, p) == Room /\ updates' = updates \cup {Update(do, p)}
Moves(u, at, copy) == updates' = (updates \ {u}) \cup {[u EXCEPT !.at = at, !.copy = copy]}
Ends(u) == updates' = updates \ {u}
OnChain == <<bought, owned, closing, legacy, final>>

\* What is on chain is ahead of what the keeper has recorded.
Unsettled(p) ==
    \/ p = "leveraged" /\ closing = 1
    \/ \E v \in updates : v.of = p /\ v.do \in {"buy", "sell"}

\* A row is written.
Writes(u, entry) ==
    /\ \/ /\ entries' = [entries EXCEPT ![u.of] = entry]
          /\ blurred' = IF u.stale \/ (u.do = "sync" /\ Unsettled(u.of)) THEN blurred \cup {u.of} ELSE blurred
          /\ UNCHANGED rowFaults
       \/ RowFault /\ blurred' = blurred \cup {u.of} /\ UNCHANGED entries
    /\ updates' = Stale(u.of, updates \ {u}, Jobs)
    /\ UNCHANGED <<OnChain, trades>>

-----------------------------------------------------------------------------
(***************************************************************************)
(* On chain.  The keeper's update begins when a match has settled.         *)
(***************************************************************************)
Buy(p) ==
    /\ Happens /\ Room
    /\ updates' = Stale(p, updates, {"sync"}) \cup {Update("buy", p)}
    /\ bought' = [bought EXCEPT ![p] = @ + 1]
    /\ owned' = [owned EXCEPT ![p] = @ + 1]
    /\ UNCHANGED <<closing, legacy, final, entries, blurred, rowFaults>>

SellSpot ==
    /\ owned["spot"] > 0 /\ Happens /\ Begins("sell", "spot")
    /\ owned' = [owned EXCEPT !["spot"] = @ - 1]
    /\ UNCHANGED <<bought, closing, legacy, final, entries, blurred, rowFaults>>

\* The order that closes a leveraged position takes the shares off its account,
\* and gives them back if it is cancelled.
PlaceClose ==
    /\ bought["leveraged"] > 0 /\ closing = 0 /\ Happens
    /\ bought' = [bought EXCEPT !["leveraged"] = @ - 1] /\ closing' = 1
    /\ updates' = Stale("leveraged", updates, {"sync"})
    /\ UNCHANGED <<owned, legacy, final, entries, blurred, rowFaults>>

FillClose ==
    /\ closing = 1 /\ Begins("sell", "leveraged")
    /\ closing' = 0
    /\ owned' = [owned EXCEPT !["leveraged"] = @ - 1]
    /\ UNCHANGED <<bought, legacy, final, entries, blurred, trades, rowFaults>>

CancelClose ==
    /\ closing = 1
    /\ closing' = 0
    /\ bought' = [bought EXCEPT !["leveraged"] = @ + 1]
    /\ updates' = Stale("leveraged", updates, {"sync"})
    /\ UNCHANGED <<owned, legacy, final, entries, blurred, trades, rowFaults>>

\* close_position: no row is told.
CloseOnChain(p) ==
    /\ owned[p] > 0 /\ closing = 0 /\ Happens
    /\ bought' = [bought EXCEPT ![p] = 0] /\ owned' = [owned EXCEPT ![p] = 0]
    /\ blurred' = blurred \cup {p}
    /\ UNCHANGED <<closing, legacy, final, entries, updates, rowFaults>>

-----------------------------------------------------------------------------
(***************************************************************************)
(* The keeper's updates.                                                   *)
(***************************************************************************)
ReadBuyer(u) ==
    /\ u.do = "buy" /\ u.at = "read"
    /\ Moves(u, IF entries[u.of].open /\ entries[u.of].shares > 0 THEN "add" ELSE "create", entries[u.of])
    /\ UNCHANGED <<OnChain, entries, blurred, trades, rowFaults>>

AddShares(u) ==
    /\ u.do = "buy" /\ u.at = "add"
    /\ Writes(u, [entries[u.of] EXCEPT !.shares = u.copy.shares + 1])

\* (A mutant: the shares are those of the account.)
CreateFromChain(u) ==
    /\ u.do = "buy" /\ u.at = "create"
    /\ Writes(u, [known |-> TRUE, shares |-> bought[u.of], open |-> TRUE])

CreateEntry(u) ==
    /\ u.do = "buy" /\ u.at = "create"
    /\ Writes(u, [known |-> TRUE, shares |-> 1, open |-> TRUE])

\* The seller's open rows; there is nothing to take off one without shares.
ReadSeller(u) ==
    /\ u.do = "sell" /\ u.at = "read"
    /\ IF entries[u.of].open /\ entries[u.of].shares > 0
       THEN Moves(u, "reduce", entries[u.of]) /\ UNCHANGED blurred
       ELSE Ends(u) /\ blurred' = blurred \cup {u.of}
    /\ UNCHANGED <<OnChain, entries, trades, rowFaults>>

ReduceSeller(u) ==
    /\ u.do = "sell" /\ u.at = "reduce"
    /\ IF u.copy.shares = 1
       THEN Writes(u, Closed(entries[u.of]))
       ELSE Writes(u, [entries[u.of] EXCEPT !.shares = u.copy.shares - 1])

-----------------------------------------------------------------------------
(***************************************************************************)
(* getPositions closes open rows that have no shares, or whose account has *)
(* none: it looks at the accounts of odd amounts.  The script looks at all *)
(* of them, and at the address of the present version.                     *)
(***************************************************************************)
GetPositions(p) ==
    /\ Begins("view", p)
    /\ UNCHANGED <<OnChain, entries, blurred, trades, rowFaults>>

CleanupClosedPositions(p) ==
    /\ Begins("cleanup", p)
    /\ UNCHANGED <<OnChain, entries, blurred, trades, rowFaults>>

ReadOpen(u) ==
    /\ u.do \in {"view", "cleanup"} /\ u.at = "read"
    /\ IF ~entries[u.of].open THEN Ends(u)
       ELSE IF entries[u.of].shares = 0 THEN Moves(u, "close", entries[u.of])
       ELSE \/ Moves(u, "verify", entries[u.of])
            \/ u.do = "view" /\ Ends(u)
    /\ UNCHANGED <<OnChain, entries, blurred, trades, rowFaults>>

Found(u) == IF u.do = "cleanup" /\ u.of \in legacy THEN 0 ELSE bought[u.of]

\* A query that fails keeps the row.
VerifyOnChain(u) ==
    /\ u.at = "verify"
    /\ \/ /\ Found(u) = 0
          /\ entries' = [entries EXCEPT ![u.of] = Closed(@)]
          /\ updates' = Stale(u.of, updates \ {u}, Jobs) \cup {[u EXCEPT !.at = "close"]}
          /\ blurred' = IF u.stale \/ Unsettled(u.of) THEN blurred \cup {u.of} ELSE blurred
          /\ UNCHANGED rowFaults
       \/ Found(u) > 0 /\ Ends(u) /\ UNCHANGED <<entries, blurred, rowFaults>>
       \/ RowFault /\ Ends(u) /\ UNCHANGED <<entries, blurred>>
    /\ UNCHANGED <<OnChain, trades>>

\* In the end one statement closes them all.
CloseEmpty(u) ==
    /\ u.at = "close"
    /\ Writes(u, [entries[u.of] EXCEPT !.open = FALSE])

-----------------------------------------------------------------------------
(***************************************************************************)
(* syncPositionFromChain, of a leveraged position whose close has filled.  *)
(***************************************************************************)
SyncPosition ==
    /\ closing = 0 /\ Begins("sync", "leveraged")
    /\ UNCHANGED <<OnChain, entries, blurred, trades, rowFaults>>

ReadAccount(u) ==
    /\ u.do = "sync" /\ u.at = "read"
    /\ \/ /\ Moves(u, IF bought[u.of] > 0 THEN "open" ELSE "closed", entries[u.of])
          /\ blurred' = IF Unsettled(u.of) THEN blurred \cup {u.of} ELSE blurred
          /\ UNCHANGED rowFaults
       \/ RowFault /\ Moves(u, "gone", entries[u.of]) /\ blurred' = blurred \cup {u.of}
    /\ UNCHANGED <<OnChain, entries, trades>>

\* An account that was not read is taken for one that is no more.
CloseUnread(u) ==
    /\ u.do = "sync" /\ u.at = "gone"
    /\ IF u.copy.known THEN Writes(u, Closed(entries[u.of]))
       ELSE Ends(u) /\ UNCHANGED <<OnChain, entries, blurred, trades, rowFaults>>

\* The shares of a row are kept.
SyncEntry(u) ==
    /\ u.do = "sync" /\ u.at \in {"open", "closed"} /\ u.copy.known
    /\ Writes(u, [entries[u.of] EXCEPT !.open = u.at = "open" /\ u.copy.shares > 0])

\* Without a row the shares are those of the account.
SyncNewEntry(u) ==
    /\ u.do = "sync" /\ u.at \in {"open", "closed"} /\ ~u.copy.known
    /\ \/ entries' = [entries EXCEPT ![u.of] = [known |-> TRUE, shares |-> bought[u.of], open |-> u.at = "open"]]
          /\ UNCHANGED rowFaults
       \/ RowFault /\ UNCHANGED entries
    /\ blurred' = blurred \cup {u.of}
    /\ updates' = Stale(u.of, updates \ {u}, Jobs)
    /\ UNCHANGED <<OnChain, trades>>

\* The script writes the shares of every account that has some.
BackfillPositions(p) ==
    /\ bought[p] > 0 /\ p \notin legacy
    /\ entries' = [entries EXCEPT ![p] = [known |-> TRUE, shares |-> bought[p], open |-> TRUE]]
    /\ blurred' = IF bought[p] # owned[p] \/ Unsettled(p) THEN blurred \cup {p} ELSE blurred
    /\ updates' = Stale(p, updates, Jobs)
    /\ UNCHANGED <<OnChain, trades, rowFaults>>

-----------------------------------------------------------------------------
\* POST /record-redemption, one statement for the rows of both types.  The
\* period in which a resolution can be challenged outlasts the keeper's updates.
Redeem ==
    /\ closing = 0 /\ Happens
    /\ \A u \in updates : u.do \notin {"buy", "sell"}
    /\ final' = TRUE
    /\ owned' = [p \in Types |-> 0]
    /\ \/ entries' = [p \in Types |-> Closed(entries[p])] /\ UNCHANGED <<blurred, rowFaults>>
       \/ RowFault /\ blurred' = Types /\ UNCHANGED entries
    /\ updates' = Stale("spot", Stale("leveraged", updates, Jobs), Jobs)
    /\ UNCHANGED <<bought, closing, legacy>>

PositionsNext ==
    \/ \E p \in Types : Buy(p) \/ CloseOnChain(p) \/ GetPositions(p) \/ CleanupClosedPositions(p)
                       \/ BackfillPositions(p)
    \/ SellSpot \/ PlaceClose \/ FillClose \/ CancelClose \/ SyncPosition \/ Redeem
    \/ \E u \in updates :
         \/ ReadBuyer(u) \/ AddShares(u) \/ CreateEntry(u)
         \/ ReadSeller(u) \/ ReduceSeller(u)
         \/ ReadOpen(u) \/ VerifyOnChain(u) \/ CloseEmpty(u)
         \/ ReadAccount(u) \/ CloseUnread(u) \/ SyncEntry(u) \/ SyncNewEntry(u)

RowsSpec == PositionsInit /\ [][PositionsNext]_positionrows

-----------------------------------------------------------------------------
Follows(p) ==
    (\A u \in updates : u.of # p) => entries[p].shares = owned[p] /\ entries[p].open = (owned[p] > 0)

\* When its updates have ended, a row says what was bought and not sold since,
\* however trades, readings, scripts and redemptions follow each other: unless
\* an update failed or wrote over what it had not read, a sale came before the
\* row of what it sold, the account was closed without a trade, or the row was
\* set from an account that was ahead of the keeper.
RowsFollowTrades == \A p \in Types \ (blurred \cup legacy) : Follows(p)
=============================================================================
