----------------------------- MODULE MCServices -----------------------------
(***************************************************************************)
(* The services of the backend and the pages beside them, checked in one   *)
(* run.  They share no variable, so a behaviour follows one of them, its   *)
(* focus, and the state spaces add instead of multiplying.                 *)
(***************************************************************************)
EXTENDS BetaGate, Faucet, Points, Comments, Competitions,
        AutoMarkets, Markets, Realtime, TLC

\* The markets of the scheduler are alike.
SameMarkets == Permutations(AutoMarketIds)

VARIABLE focus

accounts == <<gate, faucet, points, commentary, competition>>
operations == <<automarket, markets, realtime>>
services == <<focus, accounts, operations>>

ServicesInit ==
    /\ focus \in {"gate", "faucet", "points", "comments", "competition",
                  "automarkets", "markets", "realtime"}
    /\ GateInit /\ FaucetInit /\ PointsInit /\ CommentInit /\ CompetitionInit
    /\ AutoInit /\ MarketsInit /\ RealtimeInit
    /\ focus # "points" => \A w \in Owners : ~space[w].exists
    /\ focus # "realtime" => panel = CHOOSE c \in PanelChannels : TRUE

Followed(part) == focus = part /\ UNCHANGED focus

ServicesNext ==
    \/ Followed("gate") /\ GateNext
         /\ UNCHANGED <<faucet, points, commentary, competition, operations>>
    \/ Followed("faucet") /\ FaucetNext
         /\ UNCHANGED <<gate, points, commentary, competition, operations>>
    \/ Followed("points") /\ PointsNext
         /\ UNCHANGED <<gate, faucet, commentary, competition, operations>>
    \/ Followed("comments") /\ CommentNext
         /\ UNCHANGED <<gate, faucet, points, competition, operations>>
    \/ Followed("competition") /\ CompetitionNext
         /\ UNCHANGED <<gate, faucet, points, commentary, operations>>
    \/ Followed("automarkets") /\ AutoNext /\ UNCHANGED <<accounts, markets, realtime>>
    \/ Followed("markets") /\ MarketsNext /\ UNCHANGED <<accounts, automarket, realtime>>
    \/ Followed("realtime") /\ RealtimeNext /\ UNCHANGED <<accounts, automarket, markets>>

ServicesSpec == ServicesInit /\ [][ServicesNext]_services
=============================================================================
