------------------------------- MODULE Points -------------------------------
(***************************************************************************)
(* SpacePoints and referrals: referralService.ts, models/SpacePoints.ts,   *)
(* routes/referrals.ts.  An award reads the user's row and later writes    *)
(* what it computed from it, so awards overlap and may undo each other;    *)
(* applying a code and crediting a referrer are transactions that lock the *)
(* row.  A referral code stands for the wallet it belongs to.              *)
(***************************************************************************)
EXTENDS Integers, FiniteSets

CONSTANTS
    Owners,         \* wallets
    StartTotal,     \* the points each of them starts with, from trading
    CommentDailyCap,    \* POINTS_CONFIG.commentDailyCap, 3
    MaxAwards,      \* bound: how many awards are made
    MaxDays         \* bound

ASSUME PointsAssumption == StartTotal \in Nat /\ IsFiniteSet(Owners)

VARIABLES
    space,          \* space_points
    referral,       \* referrals, by referred wallet
    awards,         \* the awards and credits that have read and not written
    awarded,        \* how many awards were made
    day             \* the date

points == <<space, referral, awards, awarded, day>>

PointsConfig == [standardTrade |-> 1000, leverageTrade |-> 3000, limitOrder |-> 500,
                 referralBonus |-> 10000, referredBonus |-> 100, comment |-> 100,
                 dailyLoginBonus |-> 10]

Part(kind) == IF kind \in {"standardTrade", "leverageTrade", "limitOrder"} THEN "trading" ELSE "bonus"

CalculateLevel(total) ==
    CASE total >= 500000 -> "diamond"
      [] total >= 350000 -> "platinum"
      [] total >= 250000 -> "gold"
      [] total >= 120000 -> "silver"
      [] total >= 50000 -> "bronze"
      [] OTHER -> "iron"

NoAccount == [exists |-> FALSE]
NewAccount ==
    [exists |-> TRUE, total |-> 0, trading |-> 0, bonus |-> 0, referrals |-> 0,
     level |-> "iron", by |-> "none", trades |-> 0, isNew |-> TRUE,
     bonusDay |-> 0, comments |-> 0, commentDay |-> 0, referral |-> 0]

NoReferral == [status |-> "none", referrer |-> "none"]

PointsInit ==
    /\ space \in [Owners -> {NoAccount, [NewAccount EXCEPT !.total = StartTotal, !.trading = StartTotal]}]
    /\ referral = [w \in Owners |-> NoReferral]
    /\ awards = {}
    /\ awarded = 0
    /\ day = 1

-----------------------------------------------------------------------------
\* GET /referrals/points.
GetOrCreateUserPoints(w) ==
    /\ ~space[w].exists
    /\ space' = [space EXCEPT ![w] = NewAccount]
    /\ UNCHANGED <<referral, awards, awarded, day>>

\* applyReferralCode: a row made for the new user or the one there is.
ApplyReferralCode(w, referrer) ==
    /\ space[referrer].exists /\ referrer # w
    /\ space[w].exists => space[w].by = "none"
    /\ referral[w] = NoReferral
    /\ LET row == IF space[w].exists THEN space[w] ELSE NewAccount
           total == row.total + PointsConfig.referredBonus
       IN  space' = [space EXCEPT ![w] =
             [row EXCEPT !.by = referrer, !.total = total,
                         !.bonus = @ + PointsConfig.referredBonus,
                         !.isNew = FALSE,
                         !.level = IF space[w].exists THEN CalculateLevel(total) ELSE "iron"]]
    /\ referral' = [referral EXCEPT ![w] = [status |-> "pending", referrer |-> referrer]]
    /\ UNCHANGED <<awards, awarded, day>>

MarkUserAsNotNew(w) ==
    /\ space[w].exists
    /\ space' = [space EXCEPT ![w].isNew = FALSE]
    /\ UNCHANGED <<referral, awards, awarded, day>>

-----------------------------------------------------------------------------
\* Every award begins by reading the row; there may be a reason not to go on.
ReadAccount(w, kind) ==
    /\ awarded < MaxAwards
    /\ space[w].exists
    /\ awards' = awards \cup {[id |-> awarded, kind |-> kind, of |-> w, row |-> space[w]]}
    /\ awarded' = awarded + 1
    /\ UNCHANGED <<space, referral, day>>

\* What sequelize saves: the fields that differ from those read.
Changed(w, row, new) ==
    [f \in DOMAIN new |-> IF new[f] # row[f] THEN new[f] ELSE space[w][f]]

Awarded(row, kind) ==
    LET total == row.total + PointsConfig[kind] IN
    [row EXCEPT !.total = total, ![Part(kind)] = @ + PointsConfig[kind],
                !.level = CalculateLevel(total)]

WriteAward(a, new) ==
    /\ space' = [space EXCEPT ![a.of] = Changed(a.of, a.row, new)]
    /\ awards' = awards \ {a}
    /\ UNCHANGED <<referral, awarded, day>>

AddStandardTradePoints(w) == ReadAccount(w, "standardTrade")
AddLeverageTradePoints(w) == ReadAccount(w, "leverageTrade")
AddLimitOrderPoints(w) == ReadAccount(w, "limitOrder")

AddTradePoints(a) ==
    /\ a.kind \in {"standardTrade", "leverageTrade", "limitOrder"}
    /\ WriteAward(a, Awarded(a.row, a.kind))

\* The count starts again on a new day.
CommentsToday(row) == IF row.commentDay = day THEN row.comments ELSE 0

AddCommentPoints(a) ==
    /\ a.kind = "comment"
    /\ IF CommentsToday(a.row) >= CommentDailyCap
       THEN awards' = awards \ {a} /\ UNCHANGED <<space, referral, awarded, day>>
       ELSE WriteAward(a, [Awarded(a.row, "comment") EXCEPT
                              !.comments = CommentsToday(a.row) + 1, !.commentDay = day])

ClaimDailyBonus(a) ==
    /\ a.kind = "dailyLoginBonus"
    /\ IF a.row.bonusDay = day
       THEN awards' = awards \ {a} /\ UNCHANGED <<space, referral, awarded, day>>
       ELSE WriteAward(a, [Awarded(a.row, "dailyLoginBonus") EXCEPT !.bonusDay = day])

\* incrementTradeCount, one SQL statement, and then creditReferrerOnFirstTrade,
\* whose first query finds the pending referral.
OrderFilled(w) ==
    /\ awarded < MaxAwards
    /\ awarded' = awarded + 1
    /\ space' = IF space[w].exists THEN [space EXCEPT ![w].trades = @ + 1] ELSE space
    /\ awards' = IF referral[w].status = "pending"
                 THEN awards \cup {[id |-> awarded, kind |-> "credit", of |-> w,
                                    row |-> referral[w]]}
                 ELSE awards
    /\ UNCHANGED <<referral, day>>

\* Its transaction: the first that finds the referral pending has it.
CreditAgain(a) ==                   \* (a mutant)
    LET referrer == a.row.referrer
        total == space[referrer].total + PointsConfig.referralBonus
    IN  /\ referral' = [referral EXCEPT ![a.of].status = "completed"]
        /\ space' = [space EXCEPT ![referrer].total = total,
                        ![referrer].referral = @ + PointsConfig.referralBonus,
                        ![referrer].referrals = @ + 1, ![referrer].level = CalculateLevel(total)]

Credit(a) ==
    LET referrer == a.row.referrer
        total == space[referrer].total + PointsConfig.referralBonus
    IN  IF referral[a.of].status # "pending"
        THEN UNCHANGED <<space, referral>>
        ELSE /\ referral' = [referral EXCEPT ![a.of].status = "completed"]
             /\ space' = [space EXCEPT ![referrer].total = total,
                             ![referrer].referral = @ + PointsConfig.referralBonus,
                             ![referrer].referrals = @ + 1, ![referrer].level = CalculateLevel(total)]

CreditReferrerOnFirstTrade(a) ==
    /\ a.kind = "credit"
    /\ Credit(a) \/ UNCHANGED <<space, referral>>       \* or it is rolled back
    /\ awards' = awards \ {a}
    /\ UNCHANGED <<awarded, day>>

NextDay == day < MaxDays /\ day' = day + 1 /\ UNCHANGED <<space, referral, awards, awarded>>

PointsNext ==
    \/ \E w \in Owners :
         \/ GetOrCreateUserPoints(w) \/ MarkUserAsNotNew(w) \/ OrderFilled(w)
         \/ \E r \in Owners : ApplyReferralCode(w, r)
         \/ AddStandardTradePoints(w) \/ AddLeverageTradePoints(w) \/ AddLimitOrderPoints(w)
         \/ ReadAccount(w, "comment") \/ ReadAccount(w, "dailyLoginBonus")
    \/ \E a \in awards :
         \/ AddTradePoints(a) \/ AddCommentPoints(a) \/ ClaimDailyBonus(a)
         \/ CreditReferrerOnFirstTrade(a)
    \/ NextDay

PointsSpec == PointsInit /\ [][PointsNext]_points

-----------------------------------------------------------------------------
Credited(w) == Cardinality({u \in Owners : referral[u] = [status |-> "completed", referrer |-> w]})

\* A referrer is credited once for each user who was referred and has traded,
\* although fills overlap, and no stale award takes that back: the referral
\* points and the count of referrals follow the table of referrals.
ReferralPointsExact ==
    \A w \in Owners :
        space[w].exists =>
            /\ space[w].referral = Credited(w) * PointsConfig.referralBonus
            /\ space[w].referrals = Credited(w)
=============================================================================
