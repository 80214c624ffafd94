---------------------------- MODULE Competitions ----------------------------
(***************************************************************************)
(* A trading competition: competitionService.ts, routes/competitions.ts    *)
(* and models/Competition*.ts.  The live leaderboard is every wallet's     *)
(* points less a snapshot taken when it went live; finalizing stores it.   *)
(* An admin's call and a reader's run query by query; a transaction is one *)
(* step.  Lists, names and prizes carry no state of their own here.        *)
(***************************************************************************)
EXTENDS Integers

CONSTANTS
    Traders,        \* wallets with points
    MaxPoints,      \* bound on each one's points
    MaxCalls        \* bound: the calls the admin makes

VARIABLES
    comp,           \* the row: its status, whether its end date has passed
    total,          \* space_points.total_points
    snapshot,       \* competition_point_snapshots, -1 for no row
    frozen,         \* competition_leaderboard, likewise
    rewards,        \* competition_rewards, by their version
    cached,         \* the cache of the leaderboard
    admin,          \* the admin's call, where it is, and if it creates
    reader,         \* one reader's request, and where it is
    calls

competition == <<comp, total, snapshot, frozen, rewards, cached, admin, reader, calls>>

NoRows == [w \in Traders |-> -1]
\* `alone': no call of the admin ran beside the request that filled the cache,
\* nor failed since then.
NoCache == [board |-> NoRows, status |-> "none", ttl |-> FALSE, alone |-> TRUE]
Resting == [at |-> "idle", board |-> NoRows, rewards |-> 0, new |-> FALSE]
NoReader == [at |-> "idle", board |-> NoRows, status |-> "none", alone |-> TRUE]

CompetitionInit ==
    /\ comp = [status |-> "none", over |-> FALSE]
    /\ total = [w \in Traders |-> 0]
    /\ snapshot = NoRows
    /\ frozen = [board |-> NoRows, rewards |-> 0]
    /\ rewards = 0
    /\ cached = NoCache
    /\ admin = Resting
    /\ reader = NoReader
    /\ calls = 0

AtStart(w) == IF snapshot[w] = -1 THEN 0 ELSE snapshot[w]
Board == [w \in Traders |-> IF total[w] > AtStart(w) THEN total[w] - AtStart(w) ELSE -1]

-----------------------------------------------------------------------------
\* The admin, one call at a time (two admins at once are not modelled).
Call(at) ==
    /\ admin.at = "idle" /\ calls < MaxCalls
    /\ calls' = calls + 1
    /\ admin' = [Resting EXCEPT !.at = at]
    /\ reader' = IF reader.at = "idle" THEN reader ELSE [reader EXCEPT !.alone = FALSE]

\* The row has an id of its own, so that the entry of the last one and a
\* request for it do not concern it.
CreateCompetition(status) ==
    /\ comp.status = "none" /\ admin.at = "idle" /\ calls < MaxCalls
    /\ calls' = calls + 1
    /\ comp' = [status |-> status, over |-> FALSE]
    /\ cached' = NoCache /\ reader' = NoReader
    /\ admin' = [Resting EXCEPT !.at = IF status = "live" THEN "clear" ELSE "invalidate",
                                !.new = TRUE]
    /\ UNCHANGED <<total, snapshot, frozen, rewards>>

UpdateCompetition(status) ==
    /\ comp.status # "none"
    /\ comp' = [comp EXCEPT !.status = status]
    /\ Call(IF status = "live" THEN "clear" ELSE "invalidate")
    /\ UNCHANGED <<total, snapshot, frozen, rewards, cached>>

\* Deleting the row deletes the rows that refer to it.
DeleteCompetition ==
    /\ comp.status = "upcoming"
    /\ comp' = [comp EXCEPT !.status = "none"]
    /\ snapshot' = NoRows /\ frozen' = [board |-> NoRows, rewards |-> 0] /\ rewards' = 0
    /\ Call("invalidate")
    /\ UNCHANGED <<total, cached>>

SetRewards ==
    /\ comp.status # "none"
    /\ rewards' = rewards + 1
    /\ Call("invalidate")
    /\ UNCHANGED <<comp, total, snapshot, frozen, cached>>

\* snapshotPoints: a DELETE and an INSERT ... SELECT, not in one transaction.
ClearSnapshot ==
    /\ admin.at = "clear"
    /\ snapshot' = NoRows
    /\ admin' = [admin EXCEPT !.at = "insert"]
    /\ UNCHANGED <<comp, total, frozen, rewards, cached, reader, calls>>

InsertSnapshot ==
    /\ admin.at = "insert"
    /\ snapshot' = total
    /\ admin' = [admin EXCEPT !.at = "invalidate"]
    /\ UNCHANGED <<comp, total, frozen, rewards, cached, reader, calls>>

FinalizeCompetition ==
    /\ comp.status # "none" /\ (comp.status = "ended" \/ comp.over)
    /\ comp' = [comp EXCEPT !.status = "ended"]
    /\ Call("rewards")
    /\ UNCHANGED <<total, snapshot, frozen, rewards, cached>>

ReadRewards ==
    /\ admin.at = "rewards"
    /\ admin' = [admin EXCEPT !.at = "points", !.rewards = rewards]
    /\ UNCHANGED <<comp, total, snapshot, frozen, rewards, cached, reader, calls>>

ReadPoints ==
    /\ admin.at = "points"
    /\ admin' = [admin EXCEPT !.at = "store", !.board = Board]
    /\ UNCHANGED <<comp, total, snapshot, frozen, rewards, cached, reader, calls>>

StoreBoard ==
    /\ admin.at = "store"
    /\ frozen' = [board |-> admin.board, rewards |-> admin.rewards]
    /\ admin' = [admin EXCEPT !.at = "invalidate"]
    /\ UNCHANGED <<comp, total, snapshot, rewards, cached, reader, calls>>

\* (A mutant: only the list's and the competition's own entries.)
InvalidateOthers ==
    /\ admin.at = "invalidate"
    /\ admin' = Resting
    /\ UNCHANGED <<comp, total, snapshot, frozen, rewards, cached, reader, calls>>

\* invalidateCache: a creation names no board whose entry is deleted.
InvalidateCache ==
    /\ admin.at = "invalidate"
    /\ cached' = IF admin.new THEN cached ELSE NoCache
    /\ admin' = Resting
    /\ UNCHANGED <<comp, total, snapshot, frozen, rewards, reader, calls>>

\* A query fails, the process dies, or Redis does not answer, which is ignored.
AdminFails ==
    /\ admin.at # "idle"
    /\ admin' = Resting
    /\ cached' = [cached EXCEPT !.alone = FALSE]
    /\ UNCHANGED <<comp, total, snapshot, frozen, rewards, reader, calls>>

-----------------------------------------------------------------------------
\* getCompetitionLeaderboard, for one reader at a time.
AskBoard ==
    /\ reader.at = "idle" /\ cached.status = "none" /\ comp.status \in {"live", "ended"}
    /\ reader' = [NoReader EXCEPT !.at = "query", !.status = comp.status,
                                     !.alone = admin.at = "idle"]
    /\ UNCHANGED <<comp, total, snapshot, frozen, rewards, cached, admin, calls>>

QueryBoard ==
    /\ reader.at = "query"
    /\ reader' = [reader EXCEPT !.at = "cache",
                    !.board = IF reader.status = "ended" THEN frozen.board ELSE Board]
    /\ UNCHANGED <<comp, total, snapshot, frozen, rewards, cached, admin, calls>>

\* Only the board of a live competition has a time to live.
SetCache ==
    /\ reader.at = "cache"
    /\ cached' = [board |-> reader.board, status |-> reader.status,
                  ttl |-> reader.status = "live", alone |-> reader.alone]
    /\ reader' = NoReader
    /\ UNCHANGED <<comp, total, snapshot, frozen, rewards, admin, calls>>

CacheExpires ==
    /\ cached.ttl
    /\ cached' = NoCache
    /\ UNCHANGED <<comp, total, snapshot, frozen, rewards, admin, reader, calls>>

\* The world: wallets earn points, the end date passes.
EarnPoints(w) ==
    /\ total[w] < MaxPoints
    /\ total' = [total EXCEPT ![w] = @ + 1]
    /\ UNCHANGED <<comp, snapshot, frozen, rewards, cached, admin, reader, calls>>

EndDate ==
    /\ comp.status # "none"
    /\ comp' = [comp EXCEPT !.over = TRUE]
    /\ UNCHANGED <<total, snapshot, frozen, rewards, cached, admin, reader, calls>>

CompetitionNext ==
    \/ \E status \in {"upcoming", "live", "ended"} : CreateCompetition(status) \/ UpdateCompetition(status)
    \/ DeleteCompetition \/ SetRewards \/ ClearSnapshot \/ InsertSnapshot
    \/ FinalizeCompetition \/ ReadRewards \/ ReadPoints \/ StoreBoard
    \/ InvalidateCache \/ AdminFails
    \/ AskBoard \/ QueryBoard \/ SetCache \/ CacheExpires
    \/ \E w \in Traders : EarnPoints(w)
    \/ EndDate

CompetitionSpec == CompetitionInit /\ [][CompetitionNext]_competition

-----------------------------------------------------------------------------
\* What readers see of an ended competition, cached without a time to live, is
\* the board that was frozen, whatever was finalized again, reopened or deleted
\* in between, unless a reader overlapped the admin's call or that call failed.
CachedBoardIsFrozen ==
    cached.status = "ended" /\ cached.alone /\ admin.at = "idle" =>
        comp.status = "ended" /\ cached.board = frozen.board
=============================================================================
