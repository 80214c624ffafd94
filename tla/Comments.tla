------------------------------ MODULE Comments ------------------------------
(***************************************************************************)
(* Comments on a market (commentService.ts, routes/comments.ts,            *)
(* models/Comment.ts).  A star or a report reads the comment, then runs a  *)
(* transaction that writes one row and adds one to a counter, and a report *)
(* that counts enough of them removes the comment in a third step.         *)
(***************************************************************************)
EXTENDS Naturals, FiniteSets

CONSTANTS
    CommentIds,     \* bound: as many comments are posted
    Readers,        \* wallets that are signed in
    ReportLimit,    \* 20 reports remove a comment
    MaxVotes        \* bound: how many stars and reports are under way at once

ASSUME CommentAssumption == ReportLimit \in Nat \ {0} /\ IsFiniteSet(Readers)

VARIABLES
    comments,       \* the table comments
    starRows,       \* comment_stars, unique on comment and wallet
    reportRows,     \* comment_reports, likewise
    votes           \* the stars and reports being served

commentary == <<comments, starRows, reportRows, votes>>

NoComment == [status |-> "none", by |-> "none", stars |-> 0, reports |-> 0]

CommentInit ==
    /\ comments = [c \in CommentIds |-> NoComment]
    /\ starRows = {}
    /\ reportRows = {}
    /\ votes = {}

-----------------------------------------------------------------------------
CreateComment(c, w) ==
    /\ comments[c].status = "none"
    /\ comments' = [comments EXCEPT ![c] = [NoComment EXCEPT !.status = "active", !.by = w]]
    /\ UNCHANGED <<starRows, reportRows, votes>>

\* DELETE of one's own comment takes its stars and reports with it (ON DELETE
\* CASCADE); its id is not used again.
DeleteComment(c, w) ==
    /\ comments[c].status \notin {"none", "deleted"}
    /\ comments[c].by = w
    /\ comments' = [comments EXCEPT ![c].status = "deleted"]
    /\ starRows' = {r \in starRows : r[1] # c}
    /\ reportRows' = {r \in reportRows : r[1] # c}
    /\ UNCHANGED votes

\* starComment and reportComment begin with findByPk, and go on if it is active.
Vote(kind, c, w) ==
    /\ comments[c].status = "active"
    /\ Cardinality(votes) < MaxVotes
    /\ votes' = votes \cup {[kind |-> kind, at |-> "write", of |-> c, wallet |-> w,
                             seen |-> comments[c].reports]}
    /\ UNCHANGED <<comments, starRows, reportRows>>

Exists(c) == comments[c].status # "deleted"
Counted(v) == votes' = votes \ {v}

\* The transaction.  A row there is already, or a comment deleted in the
\* meantime, makes it fail.
Star(v) ==
    /\ v.kind = "star"
    /\ IF Exists(v.of) /\ <<v.of, v.wallet>> \notin starRows
       THEN /\ starRows' = starRows \cup {<<v.of, v.wallet>>}
            /\ comments' = [comments EXCEPT ![v.of].stars = @ + 1]
       ELSE UNCHANGED <<starRows, comments>>
    /\ Counted(v)
    /\ UNCHANGED reportRows

\* (A mutant: the report is counted before its row is looked for.)
ReportTwice(v) ==
    /\ v.kind = "report" /\ v.at = "write"
    /\ reportRows' = reportRows \cup {<<v.of, v.wallet>>}
    /\ comments' = [comments EXCEPT ![v.of].reports = @ + 1]
    /\ votes' = IF v.seen + 1 >= ReportLimit
                THEN (votes \ {v}) \cup {[v EXCEPT !.at = "remove"]}
                ELSE votes \ {v}
    /\ UNCHANGED starRows

\* The new count is that of the first query and one.
Report(v) ==
    /\ v.kind = "report" /\ v.at = "write"
    /\ IF Exists(v.of) /\ <<v.of, v.wallet>> \notin reportRows
       THEN /\ reportRows' = reportRows \cup {<<v.of, v.wallet>>}
            /\ comments' = [comments EXCEPT ![v.of].reports = @ + 1]
            /\ votes' = IF v.seen + 1 >= ReportLimit
                        THEN (votes \ {v}) \cup {[v EXCEPT !.at = "remove"]}
                        ELSE votes \ {v}
       ELSE UNCHANGED <<reportRows, comments>> /\ Counted(v)
    /\ UNCHANGED starRows

RemoveReported(v) ==
    /\ v.at = "remove"
    /\ comments' = IF Exists(v.of) THEN [comments EXCEPT ![v.of].status = "removed"] ELSE comments
    /\ Counted(v)
    /\ UNCHANGED <<starRows, reportRows>>

\* A request that fails at any of its queries, or whose process dies.
VoteFails(v) == Counted(v) /\ UNCHANGED <<comments, starRows, reportRows>>

CommentNext ==
    \/ \E c \in CommentIds, w \in Readers :
         \/ CreateComment(c, w) \/ DeleteComment(c, w)
         \/ \E kind \in {"star", "report"} : Vote(kind, c, w)
    \/ \E v \in votes : Star(v) \/ Report(v) \/ RemoveReported(v) \/ VoteFails(v)

CommentSpec == CommentInit /\ [][CommentNext]_commentary

-----------------------------------------------------------------------------
Voters(rows, c) == {w \in Readers : <<c, w>> \in rows}

\* Overlapping requests and a repeated vote of the same wallet never count it
\* twice: the counters are those of the rows, and a comment is removed only if
\* as many wallets as the limit reported it.
VotesAreWallets ==
    \A c \in CommentIds :
        Exists(c) =>
            /\ comments[c].stars = Cardinality(Voters(starRows, c))
            /\ comments[c].reports = Cardinality(Voters(reportRows, c))
            /\ comments[c].status = "removed" => comments[c].reports >= ReportLimit
=============================================================================
