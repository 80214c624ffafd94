----------------------------- MODULE Liquidator -----------------------------
(***************************************************************************)
(* The backend's side of liquidations: liquidationExecutorService.ts as    *)
(* the server and the operator's script scripts/testLiquidation.ts use it, *)
(* and the liquidation price that positionService.ts shows.                *)
(*                                                                         *)
(* The server assigns the open markets to its liquidators, but the         *)
(* discovery of positions is not written (liquidationExecutorService.ts,   *)
(* 271), so nothing calls queueLiquidation, the queue stays empty and no   *)
(* task is executed: only the script reaches executeLiquidation.  Every    *)
(* run of the script is a process with a pool of its own.                  *)
(***************************************************************************)
EXTENDS SpaceMath, FiniteSets

CONSTANTS
    Runs,           \* runs of the script
    Terms,          \* <<shares, entry price, leverage>> of the position
    Marks,          \* last prices of the market
    MaxMoves,       \* bound on its price changes
    MaxFaults       \* bound on the calls that fail

ASSUME LiquidatorAssumption ==
    /\ Marks \subseteq 0..BASIS_POINTS
    /\ \A t \in Terms : t[1] \in Nat /\ t[2] \in 1..BASIS_POINTS /\ t[3] \in 1..MAX_LEVERAGE
    /\ MaxMoves \in Nat /\ MaxFaults \in Nat

VARIABLES
    lastPrice,      \* market.outcomes[..].last_price, the price of YES
    stake,          \* the position's account
    assigned,       \* assignedMarkets of the server's liquidators
    run,            \* the script: where it is, what it read
    rewards,        \* liquidator rewards paid by the program
    priceMoves, callFaults

liquidator == <<lastPrice, stake, assigned, run, rewards, priceMoves, callFaults>>

-----------------------------------------------------------------------------
(* The program's own test (liquidate_position), for either token.          *)

TokenPrice(pos, mark) == IF pos.token = "NO" THEN SatSub(BASIS_POINTS, mark) ELSE mark

DueOnChain(pos, mark) == Liquidatable(pos, TokenPrice(pos, mark))

(***************************************************************************)
(* The executor's test.  JavaScript divides without truncating, so the     *)
(* amounts are kept exact, in 1/(10 * BASIS_POINTS) of a base unit.  It    *)
(* takes YES's price for either token, and quote amounts for share units.  *)
(***************************************************************************)
Fine == 10 * BASIS_POINTS

FineEquity(pos, mark) ==
    Greater(0, pos.collateral * Fine + 10 * pos.shares * (mark - pos.avg_entry_price))

FineMaintenance(pos, mark) == pos.shares * mark

\* (A mutant: the requirement is a tenth of what the position cost.)
IsLiquidatableAtCost(pos, mark) ==
    FineEquity(pos, mark) < FineMaintenance(pos, pos.avg_entry_price)

IsLiquidatable(pos, mark) == FineEquity(pos, mark) < FineMaintenance(pos, mark)

(***************************************************************************)
(* processDbPositions: the price at which a long position's equity meets   *)
(* its maintenance margin, (entry * shares - collateral) / (0.9 * shares), *)
(* rounded down and kept within 0..BASIS_POINTS.                           *)
(***************************************************************************)
\* (A mutant: the margin is left out of the division.)
LiquidationPriceOfEntry(pos) ==
    Lesser(SatSub(pos.avg_entry_price * pos.shares * QuoteScale, pos.collateral * BASIS_POINTS)
             \div (pos.shares * QuoteScale), BASIS_POINTS)

LiquidationPrice(pos) ==
    Lesser((10 * SatSub(pos.avg_entry_price * pos.shares * QuoteScale,
                        pos.collateral * BASIS_POINTS))
             \div (9 * pos.shares * QuoteScale), BASIS_POINTS)

-----------------------------------------------------------------------------
(* The account of a leveraged position opened at its limit price.          *)
Opening(terms, token) ==
    [token |-> token, shares |-> terms[1], avg_entry_price |-> terms[2],
     collateral |-> RequiredMargin(terms[1], terms[2], terms[3])]

Waiting == [at |-> "start", seen |-> [shares |-> 0]]

LiquidatorInit ==
    /\ lastPrice \in Marks
    /\ \E t \in Terms, token \in {"YES", "NO"} : stake = Opening(t, token)
    /\ assigned = 0
    /\ run = [r \in Runs |-> Waiting]
    /\ rewards = 0 /\ priceMoves = 0 /\ callFaults = 0

Goes(r, from, to) == run[r].at = from /\ run' = [run EXCEPT ![r].at = to]

\* Trades move the price.
MarkMoves(p) ==
    /\ priceMoves < MaxMoves
    /\ lastPrice' = p /\ p # lastPrice
    /\ priceMoves' = priceMoves + 1
    /\ UNCHANGED <<stake, assigned, run, rewards, callFaults>>

\* startMonitoring's timer: checkAndQueueLiquidations hashes every open market
\* to one of the liquidators; checkMarketsForLiquidations finds nothing, and
\* processLiquidationQueue returns at once.
CheckAndQueue ==
    /\ assigned = 0
    /\ assigned' = 1
    /\ UNCHANGED <<lastPrice, stake, run, rewards, priceMoves, callFaults>>

\* main: initialize() loads the keypairs; the script ends when there are none.
Initialize(r) ==
    /\ Goes(r, "start", "status") \/ Goes(r, "start", "exit")
    /\ UNCHANGED <<lastPrice, stake, assigned, rewards, priceMoves, callFaults>>

\* Two requests: the position, then its market.  A position that is gone, or a
\* request that fails, ends the check.
FetchPosition(r) ==
    /\ \/ run[r].at = "status" /\ run' = [run EXCEPT ![r].at = "statusPrice", ![r].seen = stake]
       \/ run[r].at = "execute" /\ run' = [run EXCEPT ![r].at = "executePrice", ![r].seen = stake]
    /\ UNCHANGED <<lastPrice, stake, assigned, rewards, priceMoves, callFaults>>

\* checkPositionLiquidationStatus: the script goes on only if the test holds.
CheckStatus(r) ==
    /\ run[r].at = "statusPrice"
    /\ run' = [run EXCEPT ![r].at =
                 IF IsLiquidatable(run[r].seen, lastPrice) THEN "execute" ELSE "exit"]
    /\ UNCHANGED <<lastPrice, stake, assigned, rewards, priceMoves, callFaults>>

\* executeLiquidation makes the test once more on what it reads itself.
Verify(r) ==
    /\ run[r].at = "executePrice"
    /\ run' = [run EXCEPT ![r].at =
                 IF IsLiquidatable(run[r].seen, lastPrice) THEN "account" ELSE "refused"]
    /\ UNCHANGED <<lastPrice, stake, assigned, rewards, priceMoves, callFaults>>

\* ensureLiquidatorTokenAccount, which may create the account.
EnsureTokenAccount(r) ==
    /\ Goes(r, "account", "send")
    /\ UNCHANGED <<lastPrice, stake, assigned, rewards, priceMoves, callFaults>>

\* What liquidate_position does to the account, at the price it finds.
Quarter(pos) == BpsOf(pos.shares, LIQUIDATION_STEP_BPS)

Seized(pos) ==
    (pos.collateral * QuoteValue(Quarter(pos), pos.avg_entry_price))
        \div Greater(1, QuoteValue(pos.shares, pos.avg_entry_price))

Reward(pos, mark) ==
    BpsOf(QuoteValue(Quarter(pos), TokenPrice(pos, mark)), LIQUIDATION_PENALTY_BPS) \div 2

Lands ==
    IF DueOnChain(stake, lastPrice)
    THEN /\ stake' = [stake EXCEPT !.shares = @ - Quarter(stake),
                                   !.collateral = SatSub(@, Seized(stake))]
         /\ rewards' = rewards + Reward(stake, lastPrice)
    ELSE UNCHANGED <<stake, rewards>>

\* rpc(): sent and confirmed; refused by the program; or landed although the
\* wait for its confirmation failed.
Send(r) ==
    /\ run[r].at = "send"
    /\ Lands
    /\ \/ /\ run' = [run EXCEPT ![r].at = IF DueOnChain(stake, lastPrice) THEN "liquidated"
                                                                          ELSE "failed"]
          /\ UNCHANGED callFaults
       \/ /\ callFaults < MaxFaults /\ callFaults' = callFaults + 1
          /\ run' = [run EXCEPT ![r].at = "failed"]
    /\ UNCHANGED <<lastPrice, assigned, priceMoves>>

\* A request that fails: the status says "no", the execution reports the error.
CallFails(r) ==
    /\ callFaults < MaxFaults /\ callFaults' = callFaults + 1
    /\ run[r].at \in {"status", "statusPrice", "execute", "executePrice", "account", "send"}
    /\ run' = [run EXCEPT ![r].at =
                 IF run[r].at \in {"status", "statusPrice"} THEN "exit" ELSE "failed"]
    /\ UNCHANGED <<lastPrice, stake, assigned, rewards, priceMoves>>

LiquidatorNext ==
    \/ \E p \in Marks : MarkMoves(p)
    \/ CheckAndQueue
    \/ \E r \in Runs :
        \/ Initialize(r)
        \/ FetchPosition(r)
        \/ CheckStatus(r)
        \/ Verify(r)
        \/ EnsureTokenAccount(r)
        \/ Send(r)
        \/ CallFails(r)

LiquidatorSpec == LiquidatorInit /\ [][LiquidatorNext]_liquidator

-----------------------------------------------------------------------------
\* For a YES position the executor's exact test and the program's truncating
\* one part only within a few base units of the threshold, after any number of
\* quarters have been taken away: it neither skips a position the program would
\* liquidate nor sends one far from it (liquidationExecutorService.ts 478-517).
ExecutorAgrees ==
    stake.token = "YES" =>
        LET margin == FineEquity(stake, lastPrice) - FineMaintenance(stake, lastPrice)
            atThreshold == margin \in -3 * Fine .. Fine
        IN  (IsLiquidatable(stake, lastPrice) = DueOnChain(stake, lastPrice)) \/ atThreshold

\* The liquidation price shown to the owner is where the program starts to
\* liquidate: below it, but for a few base units, the position is due, and above
\* it it is not, whatever quarters were taken (positionService.ts 284-311).
LiquidationPriceTrue ==
    stake.shares > 0 =>
        LET value == QuoteValue(stake.shares, lastPrice)
            equity == Equity(stake.collateral, value,
                             QuoteValue(stake.shares, stake.avg_entry_price))
            spare == equity - BpsOf(value, MAINTENANCE_MARGIN_BPS)
        IN  /\ lastPrice > LiquidationPrice(stake) => spare > -3 * QuoteScale
            /\ lastPrice < LiquidationPrice(stake) => spare < 3 * QuoteScale
=============================================================================
