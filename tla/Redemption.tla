----------------------------- MODULE Redemption -----------------------------
(***************************************************************************)
(* What the page does with the shares of one trader in one market:         *)
(* redeemShares, settleLeveragedPosition, settleMarketPosition,            *)
(* closePosition, mintShares and burnShares of useSpaceProgram.ts, and     *)
(* handleRedeem and handleSettleLeveragedPosition of RedeemPanel.tsx.  A   *)
(* token is <<outcome, "YES" or "NO">> and is held or not.  The            *)
(* instructions are those of modules Resolution, Positions and Shares;     *)
(* the vaults are taken to be full.                                        *)
(***************************************************************************)
EXTENDS Naturals, FiniteSets

CONSTANTS
    MarketOutcomes, \* the outcomes of the market, 0 .. numOutcomes - 1
    MaxCalls,       \* bound: how often the trader presses a button
    MaxPanelFaults  \* bound: transactions and queries that fail

VARIABLES
    resolved,       \* the status of the market, and the outcome that will win
    held,           \* tokens in the wallet
    selling,        \* tokens in the escrow of an order
    leveraged,      \* tokens of which there is a leveraged position with a debt
    deducted,       \* how often its debt was taken from a redemption
    paid,           \* tokens that were redeemed and paid
    job,            \* the call of the page
    unread,         \* positions that a query failed to find
    recorded,       \* rows that say that they were redeemed
    panelCalls, panelFaults

redemption == <<resolved, held, selling, leveraged, deducted, paid, job, unread,
                recorded, panelCalls, panelFaults>>

Sides == {"YES", "NO"}
Tokens == MarketOutcomes \X Sides
NoJob == [at |-> "idle", todo |-> {}, first |-> FALSE, with |-> {}, burned |-> {},
          token |-> <<0, "YES">>]

\* The shares of a leveraged position are in the wallet.
RedemptionInit ==
    /\ \E o \in MarketOutcomes : resolved = [outcome |-> o, status |-> "Active"]
    /\ held \in SUBSET Tokens /\ selling \in SUBSET Tokens /\ Cardinality(selling) <= 1
    /\ held \cap selling = {}
    /\ leveraged \in SUBSET held
    /\ deducted = [t \in Tokens |-> 0] /\ paid = {}
    /\ job = NoJob /\ unread = {} /\ recorded = {}
    /\ panelCalls = 0 /\ panelFaults = 0

PanelFault == panelFaults < MaxPanelFaults /\ panelFaults' = panelFaults + 1

\* A token pays if it is the YES of the outcome or the NO of another one.
Wins(t) == (t[2] = "YES") = (t[1] = resolved.outcome)
OfOutcome(o) == {t \in held : t[1] = o}
Called == panelCalls < MaxCalls /\ panelCalls' = panelCalls + 1
JobAt(at) == job' = [job EXCEPT !.at = at]
JobFails == job' = [job EXCEPT !.at = "error"]
Assets == <<resolved, held, selling, leveraged>>
Accounting == <<deducted, paid, recorded>>

-----------------------------------------------------------------------------
(***************************************************************************)
(* The world: the market is resolved and finalized, an order is cancelled. *)
(***************************************************************************)
Final == resolved.status = "Finalized"

Advances ==
    /\ ~Final
    /\ resolved' = [resolved EXCEPT !.status = IF @ = "Active" THEN "Resolving" ELSE "Finalized"]
    /\ UNCHANGED <<held, selling, leveraged, Accounting, job, unread, panelCalls, panelFaults>>

OrderReturns ==
    /\ job.at = "idle" /\ selling # {}
    /\ held' = held \cup selling /\ selling' = {}
    /\ UNCHANGED <<resolved, leveraged, Accounting, job, unread, panelCalls, panelFaults>>

-----------------------------------------------------------------------------
(***************************************************************************)
(* One transaction each: mintShares, burnShares, closePosition.            *)
(***************************************************************************)
Changes(wallet) ==
    /\ job.at = "idle" /\ Called
    /\ \/ held' = wallet /\ UNCHANGED panelFaults
       \/ UNCHANGED held /\ PanelFault
    /\ UNCHANGED <<resolved, selling, leveraged, Accounting, job, unread>>

MintShares(o) == resolved.status = "Active" /\ Changes(held \cup {o} \X Sides)

\* A set is one share of each token.
BurnShares(o) == resolved.status = "Active" /\ {o} \X Sides \subseteq held /\ Changes(held \ {o} \X Sides)

\* A position without a debt; one with a debt is sold, or settled as below.
ClosePosition(t) == resolved.status # "Resolving" /\ t \in held \ leveraged /\ Changes(held \ {t})

-----------------------------------------------------------------------------
(***************************************************************************)
(* redeemShares.                                                           *)
(***************************************************************************)
StartRedeem == job' = [NoJob EXCEPT !.at = "balances"]

HandleRedeem ==
    /\ job.at = "idle" /\ Called
    /\ StartRedeem
    /\ UNCHANGED <<Assets, Accounting, unread, panelFaults>>

\* The balances of every outcome; a query that fails is a balance of zero.
ReadBalances ==
    /\ job.at = "balances"
    /\ \E missed \in SUBSET held :
         /\ IF missed = {} THEN UNCHANGED panelFaults ELSE Cardinality(missed) = 1 /\ PanelFault
         /\ LET seen == held \ missed
            IN  job' = IF Final /\ \E t \in seen : Wins(t)
                       THEN [job EXCEPT !.at = "positions", !.todo = {t[1] : t \in seen}, !.burned = seen,
                                        !.first = TRUE]
                       ELSE [job EXCEPT !.at = "error"]
    /\ UNCHANGED <<Assets, Accounting, unread, panelCalls>>

\* The leveraged positions; one that cannot be read is taken not to exist.
ReadPositions ==
    /\ job.at = "positions"
    /\ \/ job' = [job EXCEPT !.at = "redeem", !.with = leveraged] /\ UNCHANGED <<unread, panelFaults>>
       \/ \E t \in leveraged :
            /\ PanelFault
            /\ unread' = unread \cup {t}
            /\ job' = [job EXCEPT !.at = "redeem", !.with = leveraged \ {t}]
    /\ UNCHANGED <<Assets, Accounting, panelCalls>>

NextOutcome == CHOOSE o \in job.todo : \A p \in job.todo : o <= p

\* redeem_shares fails if there are shares and none of them pays; the positions
\* that are passed are not changed by it.
RedeemWith(o, positions) ==
    /\ held' = held \ OfOutcome(o)
    /\ paid' = paid \cup {t \in OfOutcome(o) : Wins(t)}
    /\ deducted' = [t \in Tokens |-> deducted[t] + IF t \in positions \cap leveraged THEN 1 ELSE 0]

\* (A mutant: the positions are passed with the redemptions after the first.)
PositionsLater == IF job.first THEN {} ELSE job.with

PositionsPassed == IF job.first THEN job.with ELSE {}

RedeemOutcome ==
    /\ job.at = "redeem"
    /\ LET o == NextOutcome
           pays == \E t \in OfOutcome(o) : Wins(t)
           sent == RedeemWith(o, PositionsPassed)
       IN  \/ /\ pays \/ OfOutcome(o) = {}
              /\ sent /\ JobAt("record") /\ UNCHANGED panelFaults
           \/ ~pays /\ OfOutcome(o) # {} /\ JobFails /\ UNCHANGED <<held, paid, deducted, panelFaults>>
           \/ /\ PanelFault /\ pays
              /\ sent \/ UNCHANGED <<held, paid, deducted>>
              /\ JobFails
    /\ UNCHANGED <<resolved, selling, leveraged, recorded, unread, panelCalls>>

\* POST /record-redemption, one for each token, whose errors are ignored.
RecordRedemption ==
    /\ job.at = "record"
    /\ LET o == NextOutcome
           tokens == {t \in job.burned : t[1] = o}
           rest == job.todo \ {o}
       IN  /\ \/ recorded' = recorded \cup tokens /\ UNCHANGED panelFaults
              \/ UNCHANGED recorded /\ PanelFault
           /\ job' = [job EXCEPT !.todo = rest, !.first = FALSE,
                                 !.at = IF rest = {} THEN "redeemed" ELSE "redeem"]
    /\ UNCHANGED <<Assets, deducted, paid, unread, panelCalls>>

-----------------------------------------------------------------------------
(***************************************************************************)
(* settleLeveragedPosition and settleMarketPosition.                       *)
(***************************************************************************)
\* Before the market is final the position is to be sold, by an order: see
\* module TradingPage.
SettleLeveragedPosition(t) ==
    /\ Final
    /\ IF Wins(t) THEN StartRedeem ELSE job' = [NoJob EXCEPT !.at = "close", !.token = t]

HandleSettleLeveraged ==
    /\ job.at = "idle" /\ Called
    /\ \E t \in leveraged : SettleLeveragedPosition(t)
    /\ UNCHANGED <<Assets, Accounting, unread, panelFaults>>

\* The first position found, by outcome and then by token, says what is done.
Before(t, u) == t[1] < u[1] \/ (t[1] = u[1] /\ t[2] = "YES" /\ u[2] = "NO")
FirstLeveraged == CHOOSE t \in leveraged : \A u \in leveraged \ {t} : Before(t, u)

SettleMarketPosition ==
    /\ job.at = "idle" /\ Called
    /\ Final
    /\ IF leveraged # {} /\ ~Wins(FirstLeveraged)
       THEN SettleLeveragedPosition(FirstLeveraged)
       ELSE StartRedeem
    /\ UNCHANGED <<Assets, Accounting, unread, panelFaults>>

\* close_position of a position that lost: its shares are burned and its debt
\* is paid from the collateral.
CloseLoser ==
    /\ job.at = "close"
    /\ \/ /\ job.token \in held
          /\ held' = held \ {job.token} /\ leveraged' = leveraged \ {job.token}
          /\ JobAt("closed") /\ UNCHANGED panelFaults
       \/ job.token \notin held /\ JobFails /\ UNCHANGED <<held, leveraged, panelFaults>>
       \/ PanelFault /\ JobFails /\ UNCHANGED <<held, leveraged>>
    /\ UNCHANGED <<resolved, selling, Accounting, unread, panelCalls>>

\* The panel shows the result, and is ready again.
JobEnds ==
    /\ job.at \in {"redeemed", "closed", "error"}
    /\ job' = NoJob
    /\ UNCHANGED <<Assets, Accounting, unread, panelCalls, panelFaults>>

RedeemShares == ReadBalances \/ ReadPositions \/ RedeemOutcome \/ RecordRedemption

RedemptionNext ==
    \/ Advances \/ OrderReturns
    \/ HandleRedeem \/ HandleSettleLeveraged \/ SettleMarketPosition
    \/ \E t \in Tokens : ClosePosition(t)
    \/ \E o \in MarketOutcomes : MintShares(o) \/ BurnShares(o)
    \/ RedeemShares \/ CloseLoser \/ JobEnds

RedemptionSpec == RedemptionInit /\ [][RedemptionNext]_redemption

-----------------------------------------------------------------------------
\* The shares of a leveraged position are not paid out and its debt left,
\* unless the page could not read the position: whatever else the trader holds,
\* whichever buttons are pressed, and however often a redemption ends halfway.
DebtsCollected ==
    \A t \in leveraged : t \in paid => deducted[t] > 0 \/ t \in unread
=============================================================================
