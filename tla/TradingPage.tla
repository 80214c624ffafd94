----------------------------- MODULE TradingPage -----------------------------
(***************************************************************************)
(* The orders of one trader, from the page: handlePlaceOrder of            *)
(* MarketTradingPanel.tsx, the cancel buttons of Positions.tsx,            *)
(* UserOrders.tsx and MarketUserOrders.tsx, and the functions of           *)
(* useSpaceProgram.ts that they call.  An order is a pending order on      *)
(* chain and a row of the backend, and the page is what keeps them         *)
(* together: it sends a transaction and then tells the backend.  Each      *)
(* order is for two units.  Of the keeper there is what a cancellation can  *)
(* meet: a match is three transactions, and of its halves some run before  *)
(* the order is cancelled and some after.                                  *)
(***************************************************************************)
EXTENDS Naturals, FiniteSets

CONSTANTS
    PageOrders,     \* bound: as many orders are placed
    MaxPageFaults   \* bound: transactions and calls that fail or whose answer is lost

VARIABLES
    placing,        \* what the handler that places each order is doing
    cancelling,     \* what the handler that cancels it is doing
    pending,        \* the pending orders on chain, and their escrows
    listed,         \* their rows in the backend
    unfound,        \* orders of which the page could not read the account or the escrow
    pageFaults

tradingpage == <<placing, cancelling, pending, listed, unfound, pageFaults>>

Buys == {"buy", "leveraged"}
Sells == {"yesSell", "noSell", "close"}
Kinds == Buys \cup Sells
Units == 2
OpenMatches == 2    \* bound: matches of one order that are not over yet

\* matched: matches of it that are validated; taken: those whose buyer half has
\* run and whose seller half has not.
Placed(kind) ==
    [kind |-> kind, status |-> "Open", filled |-> 0, escrow |-> Units, matched |-> 0, taken |-> 0]
NoPending == [Placed("none") EXCEPT !.status = "none", !.escrow = 0]
NoListing == [status |-> "none", filled |-> 0]

TradingInit ==
    /\ placing = [o \in PageOrders |-> [at |-> "none", kind |-> "none"]]
    /\ cancelling = [o \in PageOrders |-> [at |-> "none", as |-> "none"]]
    /\ pending = [o \in PageOrders |-> NoPending]
    /\ listed = [o \in PageOrders |-> NoListing]
    /\ unfound = {}
    /\ pageFaults = 0

PageFault == pageFaults < MaxPageFaults /\ pageFaults' = pageFaults + 1

Placing(o, at) == placing' = [placing EXCEPT ![o].at = at]
Cancelling(o, at) == cancelling' = [cancelling EXCEPT ![o].at = at]
LiveOrder(o) == pending[o].status \in {"Open", "PartiallyFilled"}

-----------------------------------------------------------------------------
(***************************************************************************)
(* handlePlaceOrder and closeLeveragedPosition.                            *)
(***************************************************************************)
HandlePlaceOrder(o, kind) ==
    /\ placing[o].at = "none"
    /\ placing' = [placing EXCEPT ![o] = [at |-> "send", kind |-> kind]]
    /\ UNCHANGED <<cancelling, pending, listed, unfound, pageFaults>>

\* The transaction lands, or the trader rejects it, or it lands after the page
\* has given up waiting for it.
SendOrder(o, kind) ==
    /\ placing[o] = [at |-> "send", kind |-> kind]
    /\ LET landed == [pending EXCEPT ![o] = Placed(kind)]
       IN  \/ pending' = landed /\ Placing(o, "post") /\ UNCHANGED pageFaults
           \/ pending' \in {pending, landed} /\ Placing(o, "failed") /\ PageFault
    /\ UNCHANGED <<cancelling, listed, unfound>>

PlaceBuyOrder(o) == \E kind \in Buys : SendOrder(o, kind)
PlaceYesLimitSellOrder(o) == SendOrder(o, "yesSell")
PlaceNoLimitSellOrder(o) == SendOrder(o, "noSell")
CloseLeveragedPosition(o) == SendOrder(o, "close")

\* POST /orders/market or /orders/limit; whatever it answers, the page goes on.
TrackOrder(o) ==
    /\ placing[o].at = "post"
    /\ LET tracked == [listed EXCEPT ![o] = [status |-> "open", filled |-> 0]]
       IN  \/ listed' = tracked /\ UNCHANGED pageFaults
           \/ listed' \in {listed, tracked} /\ PageFault
    /\ Placing(o, "match")
    /\ UNCHANGED <<cancelling, pending, unfound>>

\* POST /match: the matching is the keeper's.  A close is looked at again.
AskForMatch(o) ==
    /\ placing[o].at = "match"
    /\ Placing(o, IF placing[o].kind = "close" THEN "watch" ELSE "done")
    /\ UNCHANGED <<cancelling, pending, listed, unfound, pageFaults>>

\* Three seconds later: an order that is not filled at all, and that no bid of
\* the book would match, is to be cancelled.
WatchClose(o) ==
    /\ placing[o].at = "watch"
    /\ IF pending[o].status \in {"Filled", "PartiallyFilled"}
       THEN Placing(o, "done")
       ELSE \E at \in {"done", "withdraw"} : Placing(o, at)
    /\ UNCHANGED <<cancelling, pending, listed, unfound, pageFaults>>

Cancelled(o, released) == [pending EXCEPT ![o].status = "Cancelled", ![o].escrow = @ - released]

\* Its row is not told.
WithdrawClose(o) ==
    /\ placing[o].at = "withdraw"
    /\ IF LiveOrder(o)
       THEN \/ pending' = Cancelled(o, pending[o].escrow) /\ Placing(o, "returned") /\ UNCHANGED pageFaults
            \/ pending' \in {pending, Cancelled(o, pending[o].escrow)} /\ Placing(o, "failed") /\ PageFault
       ELSE Placing(o, "failed") /\ UNCHANGED <<pending, pageFaults>>
    /\ UNCHANGED <<cancelling, listed, unfound>>

-----------------------------------------------------------------------------
(***************************************************************************)
(* handleCancelOrder and cancelOrder.                                      *)
(***************************************************************************)
HandleCancelOrder(o) ==
    /\ cancelling[o].at = "none"
    /\ listed[o].status \in {"open", "partially_filled"}
    /\ Cancelling(o, "look")
    /\ UNCHANGED <<placing, pending, listed, unfound, pageFaults>>

\* The side is that of the order; the token of a sell order is told by which
\* escrow exists, and is YES if that cannot be read.  An account that is not
\* found, by a node that does not have it yet, is taken for an order that the
\* keeper has settled; any other failing read ends the handler.
InspectEscrow(o) ==
    /\ cancelling[o].at = "look"
    /\ \/ /\ cancelling' = [cancelling EXCEPT ![o] = [at |-> "send", as |-> pending[o].kind]]
          /\ UNCHANGED <<unfound, pageFaults>>
       \/ /\ pending[o].kind = "noSell" /\ PageFault
          /\ cancelling' = [cancelling EXCEPT ![o] = [at |-> "send", as |-> "yesSell"]]
          /\ unfound' = unfound \cup {o}
       \/ Cancelling(o, "delete") /\ unfound' = unfound \cup {o} /\ PageFault
       \/ Cancelling(o, "none") /\ UNCHANGED unfound /\ PageFault
    /\ UNCHANGED <<placing, pending, listed>>

\* An order that is not live any more counts as cancelled, and so does ...
\* (A mutant: ... one whose transaction failed.)
SendCancelEagerly(o, kind) ==
    /\ cancelling[o] = [at |-> "send", as |-> kind]
    /\ LET landed == Cancelled(o, IF kind = pending[o].kind THEN pending[o].escrow ELSE 0)
       IN  IF LiveOrder(o)
           THEN \/ pending' = landed /\ UNCHANGED pageFaults
                \/ pending' \in {pending, landed} /\ PageFault
           ELSE UNCHANGED <<pending, pageFaults>>
    /\ Cancelling(o, "delete")
    /\ UNCHANGED <<placing, listed, unfound>>

SendCancel(o, kind) ==
    /\ cancelling[o] = [at |-> "send", as |-> kind]
    /\ LET landed == Cancelled(o, IF kind = pending[o].kind THEN pending[o].escrow ELSE 0)
       IN  IF LiveOrder(o)
           THEN \/ pending' = landed /\ Cancelling(o, "delete") /\ UNCHANGED pageFaults
                \/ pending' \in {pending, landed} /\ Cancelling(o, "none") /\ PageFault
           ELSE Cancelling(o, "delete") /\ UNCHANGED <<pending, pageFaults>>
    /\ UNCHANGED <<placing, listed, unfound>>

CancelBuyOrder(o) == \E kind \in Buys : SendCancel(o, kind)
CancelYesSellOrder(o) == SendCancel(o, "yesSell") \/ SendCancel(o, "close")
CancelNoSellOrder(o) == SendCancel(o, "noSell")

\* DELETE /orders/:id, whose errors are ignored.
DeleteListing(o) ==
    /\ cancelling[o].at = "delete"
    /\ LET deleted == IF listed[o].status = "filled" THEN listed ELSE [listed EXCEPT ![o].status = "cancelled"]
       IN  \/ listed' = deleted /\ UNCHANGED pageFaults
           \/ listed' = listed /\ PageFault
    /\ Cancelling(o, "none")
    /\ UNCHANGED <<placing, pending, unfound>>

-----------------------------------------------------------------------------
(***************************************************************************)
(* The keeper's transactions for a match of the order with somebody        *)
(* else's, and its row.                                                    *)
(***************************************************************************)
FillState(filled) == IF filled >= Units THEN "Filled" ELSE "PartiallyFilled"

Filled(order) == [order EXCEPT !.filled = @ + 1, !.status = FillState(order.filled + 1)]

\* The keeper has read the row, which may be cancelled by now.
KeeperValidates(o) ==
    /\ LiveOrder(o) /\ listed[o].status # "none" /\ pending[o].filled < Units
    /\ pending[o].matched + pending[o].taken < OpenMatches
    /\ pending' = [pending EXCEPT ![o].matched = @ + 1]
    /\ UNCHANGED <<placing, cancelling, listed, unfound, pageFaults>>

\* It takes the shares of a sell order; a buy order pays and is filled, and a
\* leveraged one whose escrow is empty borrows it all.  The status of the order
\* is not asked for.
BuyerHalf(o) ==
    LET done == [pending[o] EXCEPT !.matched = @ - 1, !.taken = @ + 1]
        paid == [done EXCEPT !.escrow = IF @ > 0 THEN @ - 1 ELSE 0]
    IN
    /\ pending[o].matched > 0
    /\ pending[o].escrow > 0 \/ pending[o].kind = "leveraged"
    /\ pending' = [pending EXCEPT ![o] = IF pending[o].kind \in Buys THEN Filled(paid) ELSE paid]
    /\ UNCHANGED <<placing, cancelling, listed, unfound, pageFaults>>

\* It fills the sell order, whatever has become of it.
SellerHalf(o) ==
    LET done == [pending[o] EXCEPT !.taken = @ - 1] IN
    /\ pending[o].taken > 0
    /\ pending' = [pending EXCEPT ![o] = IF pending[o].kind \in Buys THEN done ELSE Filled(done)]
    /\ UNCHANGED <<placing, cancelling, listed, unfound, pageFaults>>

\* What is filled and settled, and not recorded yet.
Recordable(o) == IF pending[o].kind \in Buys THEN pending[o].filled - pending[o].taken ELSE pending[o].filled

KeeperRecords(o) ==
    /\ listed[o].status # "none" /\ listed[o].filled < Recordable(o)
    /\ listed' = [listed EXCEPT ![o].filled = @ + 1,
                    ![o].status = IF listed[o].filled + 1 >= Units THEN "filled" ELSE "partially_filled"]
    /\ UNCHANGED <<placing, cancelling, pending, unfound, pageFaults>>

TradingNext == \E o \in PageOrders :
    \/ \E kind \in Kinds : HandlePlaceOrder(o, kind)
    \/ PlaceBuyOrder(o) \/ PlaceYesLimitSellOrder(o) \/ PlaceNoLimitSellOrder(o) \/ CloseLeveragedPosition(o)
    \/ TrackOrder(o) \/ AskForMatch(o) \/ WatchClose(o) \/ WithdrawClose(o)
    \/ HandleCancelOrder(o) \/ InspectEscrow(o) \/ DeleteListing(o)
    \/ CancelBuyOrder(o) \/ CancelYesSellOrder(o) \/ CancelNoSellOrder(o)
    \/ KeeperValidates(o) \/ BuyerHalf(o) \/ SellerHalf(o) \/ KeeperRecords(o)

TradingSpec == TradingInit /\ [][TradingNext]_tradingpage

-----------------------------------------------------------------------------
\* Whatever fails, and whichever halves of matches run before, between or after
\* the page's transactions: an order whose row the page has cancelled, an order
\* that is cancelled on chain, and one that the page says was withdrawn, holds
\* nothing of its trader's any more, unless the page could not read it.
CancelsAreReal ==
    \A o \in PageOrders \ unfound :
        \/ listed[o].status = "cancelled"
        \/ pending[o].status = "Cancelled"
        \/ placing[o].at = "returned"
        => pending[o].escrow = 0
=============================================================================
