---------------------------- MODULE KeeperProofs ----------------------------
(***************************************************************************)
(* What holds of the order keeper for any number of orders, requests and   *)
(* faults.  Two passes of one instance never execute the same match at     *)
(* once, and every match settles as the module Settlement says: these two  *)
(* proofs follow the program counters of the passes, the keys that they    *)
(* hold and the stages on the chain.  No row is ahead of the chain, and    *)
(* the program keeps its custody and its backing under the keeper: these   *)
(* follow the rows, what each pass has read of them, and the orders.       *)
(***************************************************************************)
EXTENDS Keeper, OrderBookProofs, SpaceProofs, SequenceTheorems

IsRecord(r) == DOMAIN r = {"pc", "queue", "size", "seen"}

PassShape ==
    /\ pass = [w \in Passes |-> pass[w]]
    /\ \A w \in Passes : IsRecord(pass[w])

\* A step of pass w alone, to a counter of S.
Moves(w, S) ==
    /\ pass' = [pass EXCEPT ![w] = pass'[w]]
    /\ IsRecord(pass'[w]) /\ pass'[w].pc \in S

\* Such a step that keeps the match the pass is at.
Walks(w, S) == Moves(w, S) /\ pass'[w].queue = pass[w].queue

(***************************************************************************)
(* The four kinds of steps of a pass, by what becomes of its key.          *)
(***************************************************************************)
AtRest == {"idle", "due", "refresh", "size", "done"}

Outside(w) == Moves(w, AtRest) /\ UNCHANGED executing

Enters(w) ==
    /\ Walks(w, {"inspect"})
    /\ MatchKey(w) \notin executing[InstanceOf(w)]
    /\ executing' = [executing EXCEPT ![InstanceOf(w)] = @ \cup {MatchKey(w)}]

Proceeds(w, S) == pass[w].pc \in Inside /\ Walks(w, S) /\ UNCHANGED executing

Returns(w) == pass[w].pc \in Inside /\ Moves(w, AtRest) /\ Release(w)

\* A pass that has paid the seller and is yet to record the fill.
Recording == {"read", "saveBuy"}

\* Goto keeps the record and its queue.
LEMMA GotoWalks ==
    ASSUME PassShape, NEW w \in Passes, NEW pc, Goto(w, pc)
    PROVE  Walks(w, {pc})
  <1> DEFINE new == [pass[w] EXCEPT !.pc = pc]
  <1>1. pass' = [pass EXCEPT ![w] = new]
    BY DEF Goto
  <1>2. IsRecord(new) /\ new.pc = pc /\ new.queue = pass[w].queue
    BY DEF PassShape, IsRecord
  <1> HIDE DEF new
  <1>3. pass'[w] = new
    BY <1>1 DEF PassShape
  <1> QED
    BY <1>1, <1>2, <1>3 DEF Walks, Moves

\* Skip leaves the match.
LEMMA SkipMoves ==
    ASSUME PassShape, NEW w \in Passes, Skip(w)
    PROVE  Moves(w, AtRest)
  <1> DEFINE more == [Idle EXCEPT !.pc = "refresh", !.queue = Tail(pass[w].queue)]
             over == [Idle EXCEPT !.pc = IF w \in Repeated THEN "idle" ELSE "done"]
             new == IF Len(pass[w].queue) > 1 THEN more ELSE over
  <1>1. pass' = [pass EXCEPT ![w] = new]
    BY DEF Skip
  <1>2. IsRecord(more) /\ more.pc \in AtRest
    BY DEF Idle, IsRecord, AtRest
  <1>3. IsRecord(over) /\ over.pc \in AtRest
    BY DEF Idle, IsRecord, AtRest
  <1>4. IsRecord(new) /\ new.pc \in AtRest
    BY <1>2, <1>3
  <1> HIDE DEF new
  <1>5. pass'[w] = new
    BY <1>1 DEF PassShape
  <1> QED
    BY <1>1, <1>4, <1>5 DEF Moves

\* Return releases the key as well.
LEMMA ReturnReturns ==
    ASSUME PassShape, NEW w \in Passes, Return(w), pass[w].pc \in Inside
    PROVE  Returns(w)
  BY SkipMoves DEF Return, Returns

\* Enter skips the match, or takes a key that nobody holds.
LEMMA EnterKinds ==
    ASSUME PassShape, NEW w \in Passes, NEW size, Enter(w, size)
    PROVE  Outside(w) \/ Enters(w)
  <1>1. CASE Skip(w) /\ UNCHANGED executing
    BY <1>1, SkipMoves DEF Outside
  <1>2. CASE /\ MatchKey(w) \notin executing[InstanceOf(w)]
             /\ pass' = [pass EXCEPT ![w].pc = "inspect", ![w].size = size, ![w].seen = <<>>]
             /\ executing' = [executing EXCEPT ![InstanceOf(w)] = @ \cup {MatchKey(w)}]
    <2> DEFINE new == [pass[w] EXCEPT !.pc = "inspect", !.size = size, !.seen = <<>>]
    <2>1. pass' = [pass EXCEPT ![w] = new]
      BY <1>2 DEF PassShape
    <2>2. IsRecord(new) /\ new.pc = "inspect" /\ new.queue = pass[w].queue
      BY DEF PassShape, IsRecord
    <2> HIDE DEF new
    <2>3. pass'[w] = new
      BY <2>1 DEF PassShape
    <2> QED
      BY <1>2, <2>1, <2>2, <2>3 DEF Enters, Walks, Moves
  <1> QED
    BY <1>1, <1>2 DEF Enter

-----------------------------------------------------------------------------
(***************************************************************************)
(* The steps of a pass.                                                    *)
(***************************************************************************)
\* Those that send no transaction and record no fill.
Quiet(w) ==
    \/ FindMatches(w) \/ FindNone(w) \/ Refresh(w) \/ SizeFromChain(w) \/ Inspect(w)
    \/ ValidateRejected(w) \/ Escrow(w) \/ BuyerRejected(w) \/ Check(w)
    \/ SellerRejected(w) \/ SaveSell(w) \/ SizeFromRows(w) \/ CallFails(w)
    \/ \E i \in DOMAIN rows : AccountUnseen(w, i)

Kinds(w) == Outside(w) \/ Enters(w) \/ Proceeds(w, Inside \ Recording) \/ Returns(w)

\* A counter changed by Goto, inside.
LEMMA GotoProceeds ==
    ASSUME PassShape, NEW w \in Passes, NEW pc, Goto(w, pc), pass[w].pc \in Inside,
           UNCHANGED executing, NEW S, pc \in S
    PROVE  Proceeds(w, S)
  BY GotoWalks DEF Proceeds, Walks, Moves

\* A pass that finds matches, or none, rests.
LEMMA FindKinds ==
    ASSUME PassShape, NEW w \in Passes, FindMatches(w) \/ FindNone(w)
    PROVE  Kinds(w)
  <1> DEFINE found == [Idle EXCEPT !.queue = Found, !.pc = "refresh"]
             none == [Idle EXCEPT !.pc = IF w \in Repeated THEN "idle" ELSE "done"]
  <1>1. IsRecord(found) /\ found.pc \in AtRest
    BY DEF Idle, IsRecord, AtRest
  <1>2. IsRecord(none) /\ none.pc \in AtRest
    BY DEF Idle, IsRecord, AtRest
  <1>3. /\ pass' = [pass EXCEPT ![w] = found] \/ pass' = [pass EXCEPT ![w] = none]
        /\ UNCHANGED executing
    BY DEF FindMatches, FindNone
  <1> HIDE DEF found, none
  <1>4. \/ pass'[w] = found /\ pass' = [pass EXCEPT ![w] = found]
        \/ pass'[w] = none /\ pass' = [pass EXCEPT ![w] = none]
    BY <1>3 DEF PassShape
  <1> QED
    BY <1>1, <1>2, <1>3, <1>4 DEF Kinds, Outside, Moves

\* So does one that has read the rows of its match again.
LEMMA RefreshKinds ==
    ASSUME PassShape, NEW w \in Passes, Refresh(w)
    PROVE  Kinds(w)
  <1> DEFINE new == [pass[w] EXCEPT !.pc = "size", !.seen = <<BuyRow(w), SellRow(w)>>]
  <1>1. Skip(w) \/ pass' = [pass EXCEPT ![w] = new]
    BY DEF Refresh, PassShape
  <1>2. IsRecord(new) /\ new.pc \in AtRest
    BY DEF PassShape, IsRecord, AtRest
  <1> HIDE DEF new
  <1>3. Moves(w, AtRest)
    BY <1>1, <1>2, SkipMoves DEF PassShape, Moves
  <1> QED
    BY <1>3 DEF Refresh, Kinds, Outside

\* Every quiet step is of one of the kinds, and records nothing.
LEMMA QuietKinds ==
    ASSUME PassShape, NEW w \in Passes, Quiet(w)
    PROVE  Kinds(w) /\ UNCHANGED <<matchState, records>>
  <1>1. "validate" \in Inside \ Recording /\ "escrow" \in Inside \ Recording
        /\ "buyer" \in Inside \ Recording /\ "check" \in Inside \ Recording
        /\ "seller" \in Inside \ Recording /\ "inspect" \in Inside /\ "saveSell" \in Inside
    BY DEF Inside, Recording
  <1>2. CASE FindMatches(w) \/ FindNone(w) \/ Refresh(w)
    BY <1>2, FindKinds, RefreshKinds DEF FindMatches, FindNone, Refresh, vars, book
  <1>3. CASE SizeFromChain(w)
    BY <1>3, SkipMoves, EnterKinds DEF SizeFromChain, Kinds, Outside, vars, book
  <1>4. CASE Inspect(w)
    BY <1>1, <1>4, ReturnReturns, GotoProceeds DEF Inspect, At, Kinds, vars, book
  <1>5. CASE ValidateRejected(w)
    BY <1>1, <1>5, ReturnReturns, GotoProceeds DEF ValidateRejected, At, Kinds, vars, book
  <1>6. CASE Escrow(w)
    <2>1. PICK pc \in {"buyer", "check"} : Goto(w, pc)
      BY <1>6 DEF Escrow
    <2> QED
      BY <1>1, <1>6, <2>1, GotoProceeds DEF Escrow, At, Kinds, vars, book
  <1>7. CASE BuyerRejected(w)
    BY <1>1, <1>7, ReturnReturns, GotoProceeds DEF BuyerRejected, At, Kinds, vars, book
  <1>8. CASE Check(w)
    BY <1>1, <1>8, ReturnReturns, GotoProceeds DEF Check, At, Kinds, vars, book
  <1>9. CASE SellerRejected(w)
    BY <1>1, <1>9, ReturnReturns DEF SellerRejected, At, Kinds, vars, book
  <1>10. CASE SaveSell(w)
    BY <1>1, <1>10, ReturnReturns DEF SaveSell, At, Kinds, vars, book
  <1>11. CASE SizeFromRows(w)
    BY <1>11, EnterKinds DEF SizeFromRows, Kinds, vars, book
  <1>12. CASE CallFails(w)
    BY <1>12, ReturnReturns DEF CallFails, Kinds, vars, book
  <1>13. ASSUME NEW i \in DOMAIN rows, AccountUnseen(w, i)
         PROVE  Kinds(w) /\ UNCHANGED <<matchState, records>>
    BY <1>1, <1>13, ReturnReturns DEF AccountUnseen, At, Kinds, vars, book
  <1> QED
    BY <1>2, <1>3, <1>4, <1>5, <1>6, <1>7, <1>8, <1>9, <1>10, <1>11, <1>12, <1>13 DEF Quiet

\* The steps that send a transaction.
LEMMA SendKinds ==
    ASSUME PassShape, NEW w \in Passes
    PROVE  /\ Validate(w) => Proceeds(w, {"escrow"})
           /\ Buyer(w) => Proceeds(w, {"check"})
           /\ Seller(w) => Proceeds(w, {"read"})
           /\ LandsUnseen(w) => Returns(w)
  <1>1. {"validate", "buyer", "seller"} \subseteq Inside
    BY DEF Inside
  <1>2. Validate(w) => Proceeds(w, {"escrow"})
    BY <1>1, GotoProceeds DEF Validate, At
  <1>3. Buyer(w) => Proceeds(w, {"check"})
    BY <1>1, GotoProceeds DEF Buyer, At
  <1>4. Seller(w) => Proceeds(w, {"read"})
    BY <1>1, GotoProceeds DEF Seller, At
  <1>5. LandsUnseen(w) => Returns(w)
    BY <1>1, ReturnReturns DEF LandsUnseen, At
  <1> QED
    BY <1>2, <1>3, <1>4, <1>5

\* Those that read and write the rows.
LEMMA RecordKinds ==
    ASSUME PassShape, NEW w \in Passes
    PROVE  /\ ReadRows(w) => Proceeds(w, {"saveBuy"})
           /\ SaveBuy(w) => Proceeds(w, {"saveSell"})
  <1>1. {"read", "saveBuy"} \subseteq Inside
    BY DEF Inside
  <1>2. ASSUME ReadRows(w) PROVE Proceeds(w, {"saveBuy"})
    <2> DEFINE new == [pass[w] EXCEPT !.pc = "saveBuy", !.seen = <<BuyRow(w), SellRow(w)>>]
    <2>1. pass' = [pass EXCEPT ![w] = new] /\ pass[w].pc = "read" /\ UNCHANGED executing
      BY <1>2 DEF ReadRows, At, PassShape
    <2>2. IsRecord(new) /\ new.pc = "saveBuy" /\ new.queue = pass[w].queue
      BY DEF PassShape, IsRecord
    <2> HIDE DEF new
    <2>3. pass'[w] = new
      BY <2>1 DEF PassShape
    <2> QED
      BY <1>1, <2>1, <2>2, <2>3 DEF Proceeds, Walks, Moves
  <1>3. SaveBuy(w) => Proceeds(w, {"saveSell"})
    BY <1>1, GotoProceeds DEF SaveBuy, At
  <1> QED
    BY <1>2, <1>3

\* What sets a pass off.
LEMMA StartKinds ==
    ASSUME PassShape, NEW w, (PostOrder(w) /\ w \in OrderKeys) \/ RequestMatch(w)
    PROVE  w \in Passes /\ Outside(w) /\ UNCHANGED <<matchState, records>>
  <1> DEFINE new == [pass[w] EXCEPT !.pc = "due"]
  <1>1. /\ w \in Passes /\ pass' = [pass EXCEPT ![w] = new] /\ UNCHANGED executing
        /\ UNCHANGED <<matchState, records>>
    BY DEF PostOrder, RequestMatch, Passes, vars, book
  <1>2. IsRecord(new) /\ new.pc \in AtRest
    BY <1>1 DEF PassShape, IsRecord, AtRest
  <1> HIDE DEF new
  <1>3. pass'[w] = new
    BY <1>1 DEF PassShape
  <1> QED
    BY <1>1, <1>2, <1>3 DEF Outside, Moves

\* A crash forgets every pass and every key.
LEMMA CrashRests ==
    ASSUME Crash
    PROVE  /\ PassShape' /\ \A w \in Passes : pass'[w].pc \in AtRest
           /\ executing' = [i \in Instances |-> {}]
           /\ UNCHANGED <<matchState, records>>
  <1> DEFINE new(w) == [Idle EXCEPT !.pc =
                          IF w \in Repeated \/ pass[w].pc = "idle" THEN "idle" ELSE "done"]
  <1>1. pass' = [w \in Passes |-> new(w)]
    BY DEF Crash
  <1>2. \A w \in Passes : IsRecord(new(w)) /\ new(w).pc \in AtRest
    BY DEF Idle, IsRecord, AtRest
  <1> HIDE DEF new
  <1>3. PassShape' /\ \A w \in Passes : pass'[w].pc \in AtRest
    BY <1>1, <1>2 DEF PassShape
  <1> QED
    BY <1>3 DEF Crash, vars, book

\* A step of one pass keeps the shape of all.
LEMMA MovesShape ==
    ASSUME PassShape, NEW w \in Passes, NEW S, Moves(w, S)
    PROVE  /\ PassShape'
           /\ \A v \in Passes : v # w => pass'[v] = pass[v]
  BY DEF PassShape, Moves

-----------------------------------------------------------------------------
(***************************************************************************)
(* The keys: every pass that executes a match holds its key.               *)
(***************************************************************************)
KeyInv ==
    /\ PassShape
    /\ executing = [i \in Instances |-> executing[i]]
    /\ \A w \in Passes : pass[w].pc \in Inside => MatchKey(w) \in executing[InstanceOf(w)]
    /\ OnePassPerMatch

LEMMA KindsKeepKeys ==
    ASSUME KeyInv, NEW w \in Passes, Kinds(w) \/ Proceeds(w, Inside)
    PROVE  KeyInv'
  <1>1. PassShape
    BY DEF KeyInv
  <1>2. PICK S : Moves(w, S)
    BY DEF Kinds, Outside, Enters, Proceeds, Returns, Walks
  <1>3. PassShape' /\ \A v \in Passes : v # w => pass'[v] = pass[v]
    BY <1>1, <1>2, MovesShape
  <1>4. \A v \in Passes : v # w => MatchKey(v)' = MatchKey(v)
    BY <1>3 DEF MatchKey, Match
  <1>5. \A v \in Passes : InstanceOf(v) \in Instances
    BY DEF InstanceOf, Instances
  <1>6. AtRest \cap Inside = {}
    BY DEF AtRest, Inside
  <1>7. CASE Outside(w)
    <2>1. pass'[w].pc \notin Inside /\ UNCHANGED executing
      BY <1>6, <1>7 DEF Outside, Moves
    <2> QED
      BY <1>3, <1>4, <2>1 DEF KeyInv, OnePassPerMatch
  <1>8. CASE Enters(w)
    <2>1. /\ MatchKey(w)' = MatchKey(w) /\ MatchKey(w) \notin executing[InstanceOf(w)]
          /\ executing' = [executing EXCEPT ![InstanceOf(w)] = @ \cup {MatchKey(w)}]
      BY <1>8 DEF Enters, Walks, MatchKey, Match
    <2>2. executing' = [i \in Instances |-> executing'[i]]
      BY <2>1 DEF KeyInv
    <2>3. /\ MatchKey(w)' \in executing'[InstanceOf(w)]
          /\ \A i \in Instances : executing[i] \subseteq executing'[i]
      BY <1>5, <2>1 DEF KeyInv
    <2>4. \A v \in Passes : pass'[v].pc \in Inside => MatchKey(v)' \in executing'[InstanceOf(v)]
      BY <1>3, <1>4, <1>5, <2>3 DEF KeyInv
    <2>5. \A v \in Passes : v # w /\ pass[v].pc \in Inside /\ InstanceOf(v) = InstanceOf(w)
            => MatchKey(v) # MatchKey(w)
      BY <2>1 DEF KeyInv
    <2>6. OnePassPerMatch'
      BY <1>3, <1>4, <2>1, <2>5 DEF KeyInv, OnePassPerMatch
    <2> QED
      BY <1>3, <2>2, <2>4, <2>6 DEF KeyInv
  <1>9. CASE Proceeds(w, Inside \ Recording) \/ Proceeds(w, Inside)
    <2>1. pass[w].pc \in Inside /\ UNCHANGED executing /\ MatchKey(w)' = MatchKey(w)
      BY <1>9 DEF Proceeds, Walks, MatchKey, Match
    <2> QED
      BY <1>3, <1>4, <2>1 DEF KeyInv, OnePassPerMatch
  <1>10. CASE Returns(w)
    <2>1. /\ pass[w].pc \in Inside /\ pass'[w].pc \notin Inside
          /\ executing' = [executing EXCEPT ![InstanceOf(w)] = @ \ {MatchKey(w)}]
      BY <1>6, <1>10 DEF Returns, Moves, Release
    <2>2. \A v \in Passes : v # w /\ pass[v].pc \in Inside
            => MatchKey(v) \in executing'[InstanceOf(v)]
      BY <1>5, <2>1 DEF KeyInv, OnePassPerMatch
    <2> QED
      BY <1>3, <1>4, <1>5, <2>1, <2>2 DEF KeyInv, OnePassPerMatch
  <1> QED
    BY <1>7, <1>8, <1>9, <1>10 DEF Kinds

\* Two passes of one instance never execute the same match at once.
THEOREM PassesExclude == KeeperSpec => []OnePassPerMatch
  <1>1. KeeperInit => KeyInv
    <2> SUFFICES ASSUME KeeperInit PROVE KeyInv
      OBVIOUS
    <2>1. PassShape /\ \A w \in Passes : pass[w].pc \notin Inside
      BY DEF KeeperInit, PassShape, IsRecord, Idle, Inside
    <2> QED
      BY <2>1 DEF KeeperInit, KeyInv, OnePassPerMatch
  <1>2. KeyInv /\ [KeeperNext]_kvars => KeyInv'
    <2> SUFFICES ASSUME KeyInv, [KeeperNext]_kvars PROVE KeyInv'
      OBVIOUS
    <2>1. PassShape
      BY DEF KeyInv
    <2>2. {"escrow", "check", "read", "saveBuy", "saveSell"} \subseteq Inside
      BY DEF Inside
    <2>3. CASE UNCHANGED <<pass, executing>>
      BY <2>3 DEF KeyInv, PassShape, OnePassPerMatch, MatchKey, Match
    <2>4. ASSUME NEW w, (PostOrder(w) /\ w \in OrderKeys) \/ RequestMatch(w)
          PROVE  KeyInv'
      BY <2>1, <2>4, StartKinds, KindsKeepKeys DEF Kinds
    <2>5. ASSUME NEW w \in Passes,
                 PassStep(w) \/ SizeFromRows(w) \/ CallFails(w) \/ LandsUnseen(w)
                     \/ \E i \in DOMAIN rows : AccountUnseen(w, i)
          PROVE  KeyInv'
      <3>1. Quiet(w) => Kinds(w)
        BY <2>1, QuietKinds
      <3>2. \A S \in SUBSET Inside : Proceeds(w, S) => Proceeds(w, Inside)
        BY DEF Proceeds, Walks, Moves
      <3>3. Kinds(w) \/ Proceeds(w, Inside)
        BY <2>1, <2>2, <2>5, <3>1, <3>2, SendKinds, RecordKinds DEF PassStep, Quiet, Kinds
      <3> QED
        BY <3>3, KindsKeepKeys
    <2>6. CASE Crash
      <3>1. /\ PassShape' /\ \A w \in Passes : pass'[w].pc \notin Inside
            /\ executing' = [i \in Instances |-> {}]
        BY <2>6, CrashRests DEF AtRest, Inside
      <3> QED
        BY <3>1 DEF KeyInv, OnePassPerMatch
    <2>7. CASE UserSteps \/ \E i \in DOMAIN rows : SettlePlacement(i) \/ CancelRow(i)
      BY <2>3, <2>7 DEF UserSteps, SettlePlacement, CancelRow, backend
    <2> QED
      BY <2>3, <2>4, <2>5, <2>6, <2>7 DEF KeeperNext, Faults, kvars, backend
  <1>3. KeyInv => OnePassPerMatch
    BY DEF KeyInv
  <1> QED
    BY <1>1, <1>2, <1>3, PTL DEF KeeperSpec

-----------------------------------------------------------------------------
(***************************************************************************)
(* The stages of the matches, as the module Settlement sees them.          *)
(***************************************************************************)
Stages == [m \in Matches |-> matchState[m].stage]

MatchShape ==
    /\ matchState = [m \in Matches |-> matchState[m]]
    /\ \A m \in Matches : "stage" \in DOMAIN matchState[m]

\* A pair of ids that names no match changes nothing.
Advances(m, from, to) ==
    IF m \in Matches
    THEN Stages[m] = from /\ Stages' = [Stages EXCEPT ![m] = to]
    ELSE Stages' = Stages

\* The stage of one match changes when its account is replaced.
LEMMA MatchReplaced ==
    ASSUME MatchShape, NEW m, NEW from, NEW r, "stage" \in DOMAIN r,
           m \in Matches => matchState[m].stage = from,
           matchState' = [matchState EXCEPT ![m] = r]
    PROVE  MatchShape' /\ Advances(m, from, r.stage)
  BY DEF MatchShape, Advances, Stages

LEMMA ValidateAdvances ==
    ASSUME MatchShape, NEW b, NEW s, NEW p, NEW q, ValidateMatch(b, s, p, q)
    PROVE  MatchShape' /\ \E m : Advances(m, "Absent", "Validated")
  <1> DEFINE m == <<OrderId(b), OrderId(s)>>
             fill == FillQuantity(b, s, q)
             new == [stage |-> "Validated", buy_order_user |-> Owner(b), sell_order_user |-> Owner(s),
                     outcome_id |-> order[b].outcome_id, match_price |-> p,
                     fill_quantity |-> fill, trade_value |-> QuoteValue(fill, p),
                     sell_is_maker |-> SellIsMaker(b, s)]
  <1>1. matchState[m].stage = "Absent" /\ matchState' = [matchState EXCEPT ![m] = new]
    BY DEF ValidateMatch
  <1>2. "stage" \in DOMAIN new /\ new.stage = "Validated"
    OBVIOUS
  <1> HIDE DEF m, new
  <1> QED
    BY <1>1, <1>2, MatchReplaced

\* Both halves set the stage of an account they know.
LEMMA HalfAdvances ==
    ASSUME MatchShape, NEW m, NEW from, NEW to, matchState[m].stage = from,
           matchState' = Advanced(m, to)
    PROVE  MatchShape' /\ Advances(m, from, to)
  <1> DEFINE new == [matchState[m] EXCEPT !.stage = to]
  <1>1. matchState' = [matchState EXCEPT ![m] = new]
    BY DEF Advanced
  <1>2. CASE m \in Matches
    <2>1. "stage" \in DOMAIN new /\ new.stage = to
      BY <1>2 DEF MatchShape
    <2> HIDE DEF new
    <2> QED
      BY <1>1, <2>1, MatchReplaced
  <1>3. CASE m \notin Matches
    <2>1. matchState' = matchState
      BY <1>1, <1>3 DEF MatchShape
    <2> QED
      BY <1>3, <2>1 DEF MatchShape, Advances, Stages
  <1> QED
    BY <1>2, <1>3

LEMMA BuyerAdvances ==
    ASSUME MatchShape, NEW m, ExecuteYesBuyerMatch(m) \/ ExecuteNoBuyerMatch(m)
    PROVE  MatchShape' /\ Advances(m, "Validated", "BuyExecuted")
  <1>1. matchState[m].stage = "Validated" /\ matchState' = Advanced(m, "BuyExecuted")
    BY DEF ExecuteYesBuyerMatch, ExecuteNoBuyerMatch, ExecuteBuyerMatch
  <1> QED
    BY <1>1, HalfAdvances

LEMMA SellerAdvances ==
    ASSUME MatchShape, NEW m, ExecuteSellerMatch(m)
    PROVE  MatchShape' /\ Advances(m, "BuyExecuted", "Executed")
  <1>1. matchState[m].stage = "BuyExecuted" /\ matchState' = Advanced(m, "Executed")
    BY DEF ExecuteSellerMatch
  <1> QED
    BY <1>1, HalfAdvances

\* Owners of orders touch no match.
LEMMA UsersLeaveMatches ==
    ASSUME UserSteps
    PROVE  UNCHANGED <<pass, matchState, records>>
  <1>1. UNCHANGED backend
    BY DEF UserSteps
  <1>2. SetSteps \/ Tick => UNCHANGED matchState
    BY DEF SetSteps, MintShares, BurnShares, Tick, book
  <1>3. ASSUME NEW k, CancelOrder(k) \/ CancelSellOrder(k) \/ CancelNoSellOrder(k)
        PROVE  UNCHANGED matchState
    BY <1>3 DEF CancelOrder, CancelSellOrder, CancelNoSellOrder, CancelSide
  <1>4. ASSUME NEW k, OnChain(k)
        PROVE  UNCHANGED matchState
    BY <1>4 DEF OnChain, PlaceBuyOrder, PlaceYesLimitSellOrder, PlaceNoLimitSellOrder, PlaceLimitSellOrder
  <1>5. UNCHANGED matchState
    BY <1>2, <1>3, <1>4 DEF UserSteps
  <1> QED
    BY <1>1, <1>5 DEF backend

-----------------------------------------------------------------------------
(***************************************************************************)
(* The records: the pass that has paid the seller of a match is alone with *)
(* it, and no fill of it is recorded before.                               *)
(***************************************************************************)
RecordInv ==
    /\ PassShape /\ MatchShape
    /\ records = [m \in Matches |-> records[m]]
    /\ \A m \in Matches : records[m] # 0 => Stages[m] = "Executed"
    /\ \A w \in Passes : pass[w].pc \in Recording /\ Pair(w) \in Matches
          => Stages[Pair(w)] = "Executed" /\ records[Pair(w)] = 0
    /\ \A v, w \in Passes :
          v # w /\ pass[v].pc \in Recording /\ pass[w].pc \in Recording /\ Pair(w) \in Matches
          => Pair(v) # Pair(w)

\* What a step may do to a stage that is not final.
Onward == \E m : Advances(m, "Absent", "Validated") \/ Advances(m, "Validated", "BuyExecuted")
                  \/ Advances(m, "BuyExecuted", "Executed")

LEMMA ExecutedStays ==
    ASSUME Onward \/ Stages' = Stages
    PROVE  \A m \in Matches : Stages[m] = "Executed" => Stages'[m] = "Executed"
  <1>1. ASSUME NEW m, NEW from, NEW to, from # "Executed", Advances(m, from, to)
        PROVE  \A n \in Matches : Stages[n] = "Executed" => Stages'[n] = "Executed"
    BY <1>1 DEF Advances, Stages
  <1> QED
    BY <1>1 DEF Onward

\* The steps that record nothing refine a step of Settlement, or none.
LEMMA OnwardSettles ==
    ASSUME Onward \/ Stages' = Stages, UNCHANGED records
    PROVE  [Ledger!Next]_<<Stages, records>>
  BY DEF Onward, Advances, Stages, Ledger!Next, Ledger!Advance

\* A pass that is not recording after its step disturbs none that is.
LEMMA OthersRecord ==
    ASSUME RecordInv, NEW w \in Passes, NEW S, Moves(w, S), S \cap Recording = {},
           MatchShape', Onward \/ Stages' = Stages, UNCHANGED records
    PROVE  RecordInv'
  <1>1. PassShape' /\ \A v \in Passes : v # w => pass'[v] = pass[v]
    BY MovesShape DEF RecordInv
  <1>2. pass'[w].pc \notin Recording
    BY DEF Moves
  <1>3. \A v \in Passes : v # w => Pair(v)' = Pair(v)
    BY <1>1 DEF Pair, Match
  <1> QED
    BY <1>1, <1>2, <1>3, ExecutedStays DEF RecordInv

\* The seller half: no other pass is recording this match.
LEMMA SellerRecords ==
    ASSUME RecordInv, NEW w \in Passes, Seller(w)
    PROVE  RecordInv' /\ [Ledger!Next]_<<Stages, records>>
  <1>1. /\ MatchShape' /\ Advances(Pair(w), "BuyExecuted", "Executed")
        /\ UNCHANGED records
    BY SellerAdvances DEF Seller, TxSeller, RecordInv
  <1>2. Walks(w, {"read"})
    BY SendKinds DEF RecordInv, Proceeds
  <1>3. PassShape' /\ \A v \in Passes : v # w => pass'[v] = pass[v]
    BY <1>2, MovesShape DEF RecordInv, Walks
  <1>4. \A v \in Passes : Pair(v)' = Pair(v)
    BY <1>2, <1>3 DEF Pair, Match, Walks
  <1>5. Onward
    BY <1>1 DEF Onward
  <1>6. ASSUME Pair(w) \in Matches
        PROVE  /\ records[Pair(w)] = 0 /\ Stages'[Pair(w)] = "Executed"
               /\ \A v \in Passes : pass[v].pc \in Recording => Pair(v) # Pair(w)
    <2>1. Stages[Pair(w)] = "BuyExecuted" /\ Stages' = [Stages EXCEPT ![Pair(w)] = "Executed"]
      BY <1>1, <1>6 DEF Advances
    <2>2. Stages'[Pair(w)] = "Executed"
      BY <1>6, <2>1 DEF Stages
    <2> QED
      BY <1>6, <2>1, <2>2 DEF RecordInv
  <1>7. \A m \in Matches : Stages[m] = "Executed" => Stages'[m] = "Executed"
    BY <1>5, ExecutedStays
  <1>8. \A v \in Passes : v # w => (pass'[v].pc \in Recording <=> pass[v].pc \in Recording)
    BY <1>3
  <1>9. \A v \in Passes : pass'[v].pc \in Recording /\ Pair(v) \in Matches
          => Stages'[Pair(v)] = "Executed" /\ records[Pair(v)] = 0
    BY <1>6, <1>7, <1>8 DEF RecordInv
  <1>10. \A u, v \in Passes :
           u # v /\ pass'[u].pc \in Recording /\ pass'[v].pc \in Recording /\ Pair(v) \in Matches
           => Pair(u) # Pair(v)
    BY <1>6, <1>8 DEF RecordInv
  <1>11. RecordInv'
    BY <1>1, <1>3, <1>4, <1>7, <1>9, <1>10 DEF RecordInv
  <1> QED
    BY <1>1, <1>5, <1>11, OnwardSettles

\* The rows are read: the pass keeps recording the same match.
LEMMA ReadRecords ==
    ASSUME RecordInv, NEW w \in Passes, ReadRows(w)
    PROVE  RecordInv' /\ [Ledger!Next]_<<Stages, records>>
  <1>1. Walks(w, {"saveBuy"}) /\ pass[w].pc \in Recording
    BY RecordKinds DEF ReadRows, At, Recording, RecordInv, Proceeds
  <1>2. UNCHANGED <<matchState, records>>
    BY DEF ReadRows, vars, book
  <1>3. PassShape' /\ \A v \in Passes : v # w => pass'[v] = pass[v]
    BY <1>1, MovesShape DEF RecordInv, Walks
  <1>4. \A v \in Passes : Pair(v)' = Pair(v)
    BY <1>1, <1>3 DEF Pair, Match, Walks
  <1>5. \A v \in Passes : pass'[v].pc \in Recording => pass[v].pc \in Recording
    BY <1>1, <1>3
  <1>6. MatchShape' /\ Stages' = Stages
    BY <1>2 DEF MatchShape, Stages, RecordInv
  <1>7. RecordInv'
    BY <1>2, <1>3, <1>4, <1>5, <1>6 DEF RecordInv
  <1> QED
    BY <1>2, <1>6, <1>7, OnwardSettles

\* The first row is saved: this is the record, and the pass is done with it.
LEMMA SaveRecords ==
    ASSUME RecordInv, NEW w \in Passes, SaveBuy(w)
    PROVE  RecordInv' /\ [Ledger!Next]_<<Stages, records>>
  <1>1. Walks(w, {"saveSell"}) /\ pass[w].pc \in Recording
    BY RecordKinds DEF SaveBuy, At, Recording, RecordInv, Proceeds
  <1>2. /\ UNCHANGED matchState
        /\ records' = [records EXCEPT ![Pair(w)] = @ + 1]
    BY DEF SaveBuy, vars, book
  <1>3. /\ PassShape' /\ \A v \in Passes : v # w => pass'[v] = pass[v]
        /\ pass'[w].pc \notin Recording
    BY <1>1, MovesShape DEF RecordInv, Walks, Moves, Recording
  <1>4. \A v \in Passes : Pair(v)' = Pair(v)
    BY <1>1, <1>3 DEF Pair, Match, Walks
  <1>5. MatchShape' /\ Stages' = Stages
    BY <1>2 DEF MatchShape, Stages, RecordInv
  <1>6. CASE Pair(w) \notin Matches
    <2>1. UNCHANGED records
      BY <1>2, <1>6 DEF RecordInv
    <2>2. RecordInv'
      BY <1>3, <1>4, <1>5, <2>1 DEF RecordInv
    <2> QED
      BY <1>5, <2>1, <2>2, OnwardSettles
  <1>7. CASE Pair(w) \in Matches
    <2>1. /\ records[Pair(w)] = 0 /\ Stages[Pair(w)] = "Executed"
          /\ records' = [records EXCEPT ![Pair(w)] = 1]
      <3>1. records[Pair(w)] = 0 /\ Stages[Pair(w)] = "Executed"
        BY <1>1, <1>7 DEF RecordInv
      <3>2. records[Pair(w)] + 1 = 1
        BY <3>1
      <3> QED
        BY <1>2, <3>1, <3>2
    <2>2. \A v \in Passes : v # w /\ pass[v].pc \in Recording => Pair(v) # Pair(w)
      BY <1>1, <1>7 DEF RecordInv
    <2>3. \A m \in Matches : m # Pair(w) => records'[m] = records[m]
      BY <2>1 DEF RecordInv
    <2>4. records' = [m \in Matches |-> records'[m]]
      BY <2>1 DEF RecordInv
    <2>5. RecordInv'
      BY <1>3, <1>4, <1>5, <2>1, <2>2, <2>3, <2>4 DEF RecordInv
    <2>6. Ledger!Record(Pair(w))
      BY <1>5, <2>1 DEF Ledger!Record, Stages
    <2> QED
      BY <1>7, <2>5, <2>6 DEF Ledger!Next
  <1> QED
    BY <1>6, <1>7

\* Every match goes through its stages once and is recorded at most once, when
\* both its halves are done: the keeper and the program implement Settlement.
THEOREM MatchesSettle == KeeperSpec => SettlesOnce
  <1>1. KeeperInit => RecordInv /\ Ledger!Init
    <2> SUFFICES ASSUME KeeperInit PROVE RecordInv /\ Ledger!Init
      OBVIOUS
    <2>1. PassShape /\ \A w \in Passes : pass[w].pc \notin Recording
      BY DEF KeeperInit, PassShape, IsRecord, Idle, Recording
    <2>2. matchState = [m \in Matches |-> AbsentMatch]
      BY DEF KeeperInit, Init, Matches
    <2>3. MatchShape /\ \A m \in Matches : matchState[m].stage = "Absent"
      BY <2>2 DEF MatchShape, AbsentMatch
    <2>4. records = [m \in Matches |-> 0]
      BY DEF KeeperInit
    <2>5. RecordInv
      BY <2>1, <2>3, <2>4 DEF RecordInv
    <2>6. Ledger!Init
      BY <2>3, <2>4 DEF Ledger!Init
    <2> QED
      BY <2>5, <2>6
  <1>2. RecordInv /\ [KeeperNext]_kvars => RecordInv' /\ [Ledger!Next]_<<Stages, records>>
    <2> DEFINE Goal == RecordInv' /\ [Ledger!Next]_<<Stages, records>>
    <2> SUFFICES ASSUME RecordInv, [KeeperNext]_kvars PROVE Goal
      OBVIOUS
    <2>1. PassShape /\ MatchShape
      BY DEF RecordInv
    <2>2. UNCHANGED matchState => MatchShape' /\ Stages' = Stages
      BY <2>1 DEF MatchShape, Stages
    <2>3. CASE UNCHANGED <<pass, matchState, records>>
      <3>1. RecordInv'
        BY <2>2, <2>3 DEF RecordInv, PassShape, Pair, Match
      <3> QED
        BY <2>2, <2>3, <3>1, OnwardSettles
    <2>4. ASSUME NEW w \in Passes, NEW S, Moves(w, S), S \cap Recording = {}, MatchShape',
                 Onward \/ Stages' = Stages, UNCHANGED records
          PROVE  Goal
      BY <2>4, OthersRecord, OnwardSettles
    <2>5. AtRest \cap Recording = {} /\ (Inside \ Recording) \cap Recording = {}
          /\ {"inspect"} \cap Recording = {} /\ {"escrow"} \cap Recording = {}
          /\ {"check"} \cap Recording = {}
      BY DEF AtRest, Recording
    <2>6. ASSUME NEW w \in Passes, Kinds(w), UNCHANGED <<matchState, records>>
          PROVE  Goal
      <3>1. PICK S : Moves(w, S) /\ S \cap Recording = {}
        BY <2>5, <2>6 DEF Kinds, Outside, Enters, Proceeds, Returns, Walks
      <3> QED
        BY <2>2, <2>4, <2>6, <3>1
    <2>7. ASSUME NEW w, (PostOrder(w) /\ w \in OrderKeys) \/ RequestMatch(w)
          PROVE  Goal
      BY <2>1, <2>6, <2>7, StartKinds DEF Kinds
    <2>8. ASSUME NEW w \in Passes, Validate(w) \/ Buyer(w) \/ LandsUnseen(w)
          PROVE  Goal
      <3>1. PICK S : Moves(w, S) /\ S \cap Recording = {}
        BY <2>1, <2>5, <2>8, SendKinds DEF Proceeds, Returns, Walks
      <3>2. UNCHANGED records
        BY <2>8 DEF Validate, Buyer, LandsUnseen
      <3>3. MatchShape' /\ Onward
        BY <2>1, <2>8, ValidateAdvances, BuyerAdvances, SellerAdvances
           DEF Validate, Buyer, LandsUnseen, TxValidate, TxBuyer, TxSeller, Onward
      <3> QED
        BY <2>4, <3>1, <3>2, <3>3
    <2>9. ASSUME NEW w \in Passes,
                 PassStep(w) \/ SizeFromRows(w) \/ CallFails(w) \/ LandsUnseen(w)
                     \/ \E i \in DOMAIN rows : AccountUnseen(w, i)
          PROVE  Goal
      <3>1. Quiet(w) => Goal
        BY <2>1, <2>6, QuietKinds
      <3>2. Seller(w) \/ ReadRows(w) \/ SaveBuy(w) => Goal
        BY SellerRecords, ReadRecords, SaveRecords
      <3> QED
        BY <2>8, <2>9, <3>1, <3>2 DEF PassStep, Quiet
    <2>10. CASE Crash
      <3>1. /\ PassShape' /\ \A w \in Passes : pass'[w].pc \notin Recording
            /\ UNCHANGED <<matchState, records>>
        BY <2>10, CrashRests DEF AtRest, Recording
      <3>2. RecordInv'
        BY <2>2, <3>1 DEF RecordInv
      <3> QED
        BY <2>2, <3>1, <3>2, OnwardSettles
    <2>11. CASE UserSteps \/ \E i \in DOMAIN rows : SettlePlacement(i) \/ CancelRow(i)
      BY <2>3, <2>11, UsersLeaveMatches DEF SettlePlacement, CancelRow, vars, book
    <2>12. UNCHANGED kvars => Goal
      BY <2>3 DEF kvars, backend, vars, book
    <2> QED
      BY <2>7, <2>9, <2>10, <2>11, <2>12 DEF KeeperNext, Faults
  <1>3. Ledger!Init /\ [][Ledger!Next]_<<Stages, records>> => SettlesOnce
    BY DEF SettlesOnce, Ledger!Spec, Stages
  <1> QED
    BY <1>1, <1>2, <1>3, PTL DEF KeeperSpec

-----------------------------------------------------------------------------
(***************************************************************************)
(* The program under the keeper: its invariants hold whatever sizes and    *)
(* prices the passes ask for, and what has been filled stays filled.       *)
(***************************************************************************)
ChainStep ==
    \/ BookNext
    \/ \E b, s \in OrderKeys, p, q \in Nat : ValidateMatch(b, s, p, q)
    \/ UNCHANGED vars

\* An order with a half that is done, and one that is Filled, has been filled.
ChainFills ==
    /\ \A k \in OrderKeys : order[k].status = "Filled" => order[k].filled_quantity > 0
    /\ \A m \in Matches :
         /\ matchState[m].stage \in {"BuyExecuted", "Executed"} => order[BuyKey(m)].filled_quantity > 0
         /\ matchState[m].stage = "Executed" => order[SellKey(m)].filled_quantity > 0

\* What an order or a match never loses.
ChainGrows ==
    /\ \A k \in OrderKeys : order[k].status # "Absent" =>
         /\ order'[k].status # "Absent"
         /\ order[k].filled_quantity > 0 => order'[k].filled_quantity > 0
    /\ \A m \in Matches : matchState[m].stage = "Executed" => matchState'[m].stage = "Executed"

(***************************************************************************)
(* The rows and what the passes have read of them.                         *)
(***************************************************************************)
TableRow ==
    [key : OrderKeys, side : {"buy", "sell"}, type : {"limit", "market"}, token : {"yes", "no"},
     price : Nat, size : Nat, filled : Nat, avg : Nat,
     status : {"open", "partially_filled", "filled", "cancelled"}]

\* A match of a queue, with the ids of its two rows.
Item == [buy : Nat, sell : Nat, price : Nat, pair : Matches]

Refers(m) ==
    /\ m.buy \in DOMAIN rows /\ m.sell \in DOMAIN rows
    /\ m.pair = <<OrderId(rows[m.buy].key), OrderId(rows[m.sell].key)>>

\* A pass that has paid the seller knows that both halves are done.
GoodPass(p) ==
    /\ p.queue \in Seq(Item)
    /\ \A n \in DOMAIN p.queue : Refers(p.queue[n])
    /\ p.pc \notin {"idle", "due", "done"} => p.queue # <<>>
    /\ p.pc \in Inside => p.size \in Nat \ {0}
    /\ p.pc \in {"size", "saveBuy", "saveSell"} => p.seen[1] \in TableRow /\ p.seen[2] \in TableRow
    /\ p.pc \in {"read", "saveBuy", "saveSell"} => matchState[Head(p.queue).pair].stage = "Executed"

RowsPosted ==
    /\ rows \in Seq(TableRow)
    /\ \A i \in DOMAIN rows : order[rows[i].key].status # "Absent"

\* Every order has an id of its own.  (The program does not see to it: the page
\* of the trader takes the time of day in milliseconds.)
DistinctIds == \A j, k \in OrderKeys : OrderId(j) = OrderId(k) => j = k

TableInv ==
    /\ SpaceInv /\ ChainFills
    /\ PassShape /\ \A w \in Passes : GoodPass(pass[w])
    /\ RowsPosted
    /\ DistinctIds => RowsFollowChain

\* One order changes and no match does: it is new, or keeps what was filled.
LEMMA OrderChanges ==
    ASSUME SpaceInv, ChainFills, UNCHANGED matchState, NEW k \in OrderKeys, NEW new,
           order' = [order EXCEPT ![k] = new],
           \/ order[k].status = "Absent" /\ new.status = "Open"
           \/ /\ new.status \in {"Open", "Cancelled"}
              /\ new.filled_quantity = order[k].filled_quantity
    PROVE  ChainFills' /\ ChainGrows
  <1>1. order'[k] = new /\ \A j \in OrderKeys : j # k => order'[j] = order[j]
    BY DEF SpaceInv, TypeOK
  <1>2. \A m \in Matches : BuyKey(m)' = BuyKey(m) /\ SellKey(m)' = SellKey(m)
    BY DEF BuyKey, SellKey
  <1>3. \A m \in Matches : matchState[m].stage # "Absent" =>
          /\ BuyKey(m) \in OrderKeys /\ order[BuyKey(m)].status # "Absent"
          /\ SellKey(m) \in OrderKeys /\ order[SellKey(m)].status # "Absent"
    BY DEF SpaceInv, BookInv, MatchesRefer
  <1>4. \A j \in OrderKeys : order[j].status # "Absent" =>
          /\ order'[j].status # "Absent"
          /\ order[j].filled_quantity > 0 => order'[j].filled_quantity > 0
    BY <1>1
  <1>5. \A j \in OrderKeys : order'[j].status = "Filled" => order'[j].filled_quantity > 0
    BY <1>1 DEF ChainFills
  <1>6. ASSUME NEW m \in Matches
        PROVE  /\ matchState[m].stage \in {"BuyExecuted", "Executed"} => order'[BuyKey(m)].filled_quantity > 0
               /\ matchState[m].stage = "Executed" => order'[SellKey(m)].filled_quantity > 0
    BY <1>3, <1>4 DEF ChainFills
  <1> QED
    BY <1>2, <1>4, <1>5, <1>6 DEF ChainFills, ChainGrows

\* A half of a match fills one of its two orders.
LEMMA HalfFills ==
    ASSUME SpaceInv, ChainFills, NEW m \in Matches, NEW k \in OrderKeys, NEW new, NEW stage,
           order' = [order EXCEPT ![k] = new], new.filled_quantity > 0, new.status # "Absent",
           matchState' = Advanced(m, stage),
           \/ matchState[m].stage = "Validated" /\ stage = "BuyExecuted" /\ k = BuyKey(m)
           \/ matchState[m].stage = "BuyExecuted" /\ stage = "Executed" /\ k = SellKey(m)
    PROVE  ChainFills' /\ ChainGrows
  <1>1. order'[k] = new /\ \A j \in OrderKeys : j # k => order'[j] = order[j]
    BY DEF SpaceInv, TypeOK
  <1>2. /\ matchState'[m].stage = stage /\ \A n \in Matches : n # m => matchState'[n] = matchState[n]
        /\ matchState'[m].buy_order_user = matchState[m].buy_order_user
        /\ matchState'[m].sell_order_user = matchState[m].sell_order_user
    BY DEF Advanced, SpaceInv, TypeOK, Matches, MatchState
  <1>3. \A n \in Matches : BuyKey(n)' = BuyKey(n) /\ SellKey(n)' = SellKey(n)
    BY <1>2 DEF BuyKey, SellKey
  <1>4. \A n \in Matches : matchState[n].stage # "Absent" =>
          BuyKey(n) \in OrderKeys /\ SellKey(n) \in OrderKeys
    BY DEF SpaceInv, BookInv, MatchesRefer
  <1>5. \A j \in OrderKeys : order[j].filled_quantity > 0 => order'[j].filled_quantity > 0
    BY <1>1
  <1>6. \A j \in OrderKeys : /\ order[j].status # "Absent" => order'[j].status # "Absent"
                             /\ order'[j].status = "Filled" => order'[j].filled_quantity > 0
    BY <1>1 DEF ChainFills
  <1>7. ASSUME NEW n \in Matches, n # m
        PROVE  /\ matchState'[n].stage \in {"BuyExecuted", "Executed"} => order'[BuyKey(n)].filled_quantity > 0
               /\ matchState'[n].stage = "Executed" => order'[SellKey(n)].filled_quantity > 0
    BY <1>2, <1>4, <1>5, <1>7 DEF ChainFills
  <1>8. /\ matchState'[m].stage \in {"BuyExecuted", "Executed"} => order'[BuyKey(m)].filled_quantity > 0
        /\ matchState'[m].stage = "Executed" => order'[SellKey(m)].filled_quantity > 0
    BY <1>1, <1>2, <1>4, <1>5 DEF ChainFills
  <1>9. ChainFills'
    BY <1>3, <1>6, <1>7, <1>8 DEF ChainFills
  <1>10. \A n \in Matches : matchState[n].stage = "Executed" => matchState'[n].stage = "Executed"
    BY <1>2
  <1> QED
    BY <1>5, <1>6, <1>9, <1>10 DEF ChainGrows

\* validate_match fills nothing yet.
LEMMA ValidateFills ==
    ASSUME SpaceInv, ChainFills, NEW b \in OrderKeys, NEW s \in OrderKeys, NEW p, NEW q,
           ValidateMatch(b, s, p, q)
    PROVE  ChainFills' /\ ChainGrows
  <1>1. PICK m : m = <<OrderId(b), OrderId(s)>>
    OBVIOUS
  <1>2. PICK new : new = [stage |-> "Validated", buy_order_user |-> Owner(b), sell_order_user |-> Owner(s),
                          outcome_id |-> order[b].outcome_id, match_price |-> p,
                          fill_quantity |-> FillQuantity(b, s, q),
                          trade_value |-> QuoteValue(FillQuantity(b, s, q), p),
                          sell_is_maker |-> SellIsMaker(b, s)]
    OBVIOUS
  <1>3. /\ matchState[m].stage = "Absent" /\ matchState' = [matchState EXCEPT ![m] = new] /\ UNCHANGED order
    BY <1>1, <1>2 DEF ValidateMatch
  <1>4. \A n \in Matches : IF n = m THEN matchState'[n] = new ELSE matchState'[n] = matchState[n]
    BY <1>3 DEF SpaceInv, TypeOK, Matches
  <1>5. new.stage = "Validated"
    BY <1>2
  <1>6. \A n \in Matches : n # m => BuyKey(n)' = BuyKey(n) /\ SellKey(n)' = SellKey(n)
    BY <1>4 DEF BuyKey, SellKey
  <1>7. \A n \in Matches : matchState'[n].stage \in {"BuyExecuted", "Executed"} =>
                             n # m /\ matchState'[n].stage = matchState[n].stage
    BY <1>4, <1>5
  <1>8. ChainFills'
    BY <1>3, <1>6, <1>7 DEF ChainFills
  <1>9. ChainGrows
    BY <1>3, <1>4 DEF ChainGrows
  <1> QED
    BY <1>8, <1>9

\* Nothing is filled where neither orders nor matches change.
LEMMA BookStays ==
    ASSUME ChainFills, UNCHANGED <<order, matchState>>
    PROVE  ChainFills' /\ ChainGrows
  BY DEF ChainFills, ChainGrows, BuyKey, SellKey

\* The users' steps on the book.
LEMMA PlaceFills ==
    ASSUME SpaceInv, ChainFills, PlaceSteps \/ CancelSteps \/ CloseLeveragedSteps
    PROVE  ChainFills' /\ ChainGrows
  <1>1. order \in [OrderKeys -> PendingOrder] /\ NewOrder \in PendingOrder /\ NewOrder.status = "Open"
    BY NewOrderType DEF SpaceInv, TypeOK
  <1>2. ASSUME NEW k \in OrderKeys, NEW o, NEW p, NEW q, NEW lev, PlaceBuyOrder(k, o, p, q, lev)
        PROVE  ChainFills' /\ ChainGrows
    <2> DEFINE new == [NewOrder EXCEPT !.side = "Buy", !.outcome_id = o, !.price = p, !.quantity = q,
                                       !.margin = RequiredMargin(q, p, lev), !.leverage = lev]
    <2>1. /\ order[k].status = "Absent" /\ order' = [order EXCEPT ![k] = new] /\ UNCHANGED matchState
      BY <1>2 DEF PlaceBuyOrder
    <2>2. new.status = "Open"
      BY <1>1 DEF PendingOrder
    <2> HIDE DEF new
    <2> QED
      BY <2>1, <2>2, OrderChanges
  <1>3. ASSUME NEW k \in OrderKeys, NEW o, NEW t, NEW p, NEW q, PlaceLimitSellOrder(k, o, t, p, q)
        PROVE  ChainFills' /\ ChainGrows
    <2> DEFINE new == [NewOrder EXCEPT !.side = "Sell", !.outcome_id = o, !.token_type = t,
                                       !.price = p, !.quantity = q]
    <2>1. /\ order[k].status = "Absent" /\ order' = [order EXCEPT ![k] = new] /\ UNCHANGED matchState
      BY <1>3 DEF PlaceLimitSellOrder
    <2>2. new.status = "Open"
      BY <1>1 DEF PendingOrder
    <2> HIDE DEF new
    <2> QED
      BY <2>1, <2>2, OrderChanges
  <1>4. ASSUME NEW k \in OrderKeys, CancelOrder(k) \/ CancelSide(k, "YES") \/ CancelSide(k, "NO")
        PROVE  ChainFills' /\ ChainGrows
    <2> DEFINE new == [order[k] EXCEPT !.status = "Cancelled"]
    <2>1. order' = [order EXCEPT ![k] = new] /\ UNCHANGED matchState
      BY <1>4 DEF CancelOrder, CancelSide
    <2>2. new.status = "Cancelled" /\ new.filled_quantity = order[k].filled_quantity
      BY <1>1 DEF PendingOrder
    <2> HIDE DEF new
    <2> QED
      BY <2>1, <2>2, OrderChanges
  <1>5. CASE CloseLeveragedSteps
    <2>1. PICK k \in OrderKeys, o \in Outcomes, t \in TokenTypes, q \in Quantities, p \in Prices :
            CloseLeveragedPosition(k, o, t, q, p)
      BY <1>5 DEF CloseLeveragedSteps
    <2> DEFINE pos == position[<<Owner(k), o, t, "Leveraged">>]
               shares == Lesser(q, Lesser(pos.shares, wallet[<<Owner(k), o, t>>]))
               ratio == RatioBps(shares, pos.shares)
               new == [NewOrder EXCEPT !.side = "Sell", !.outcome_id = o, !.token_type = t,
                         !.order_type = "Market", !.price = p, !.quantity = shares,
                         !.leverage = pos.leverage, !.is_leveraged_close = TRUE,
                         !.borrowed_amount_to_repay = BpsOf(pos.borrowed_amount, ratio),
                         !.collateral_to_return = BpsOf(pos.collateral, ratio)]
    <2>2. order[k].status = "Absent" /\ order' = [order EXCEPT ![k] = new] /\ UNCHANGED matchState
      BY <2>1 DEF CloseLeveragedPosition
    <2> HIDE DEF shares, ratio
    <2>3. new.status = "Open"
      BY <1>1 DEF PendingOrder
    <2> HIDE DEF new
    <2> QED
      BY <2>2, <2>3, OrderChanges
  <1> QED
    BY <1>2, <1>3, <1>4, <1>5
       DEF PlaceSteps, CancelSteps, PlaceYesLimitSellOrder, PlaceNoLimitSellOrder,
           CancelSellOrder, CancelNoSellOrder

\* The halves of a match.
LEMMA HalvesFill ==
    ASSUME SpaceInv, ChainFills, NEW m \in Matches,
           ExecuteYesBuyerMatch(m) \/ ExecuteNoBuyerMatch(m) \/ ExecuteSellerMatch(m)
    PROVE  ChainFills' /\ ChainGrows
  <1>1. PICK fill : fill = matchState[m].fill_quantity
    OBVIOUS
  <1>2. matchState[m].stage \in {"Validated", "BuyExecuted"}
    BY DEF ExecuteYesBuyerMatch, ExecuteNoBuyerMatch, ExecuteBuyerMatch, ExecuteSellerMatch
  <1>3. /\ fill \in Nat \ {0} /\ BuyKey(m) \in OrderKeys /\ SellKey(m) \in OrderKeys
        /\ order[BuyKey(m)] \in PendingOrder /\ order[SellKey(m)] \in PendingOrder
    <2>1. fill > 0
      BY <1>1, <1>2 DEF SpaceInv, BookInv, MatchesRefer
    <2> QED
      BY <1>1, <1>2, <2>1, MatchTypes DEF SpaceInv, MatchState
  <1>4. \A k \in {BuyKey(m), SellKey(m)} : Filled(k, fill).filled_quantity > 0 /\ Filled(k, fill).status # "Absent"
    BY <1>3 DEF Filled, PendingOrder, StatusAfterFill
  <1>5. CASE ExecuteYesBuyerMatch(m) \/ ExecuteNoBuyerMatch(m)
    <2>1. PICK b, new : b = BuyKey(m) /\ new = Filled(b, fill)
      OBVIOUS
    <2>2. /\ order' = [order EXCEPT ![b] = new] /\ matchState' = Advanced(m, "BuyExecuted")
          /\ matchState[m].stage = "Validated"
      BY <1>1, <1>5, <2>1 DEF ExecuteYesBuyerMatch, ExecuteNoBuyerMatch, ExecuteBuyerMatch
    <2>3. new.filled_quantity > 0 /\ new.status # "Absent" /\ b \in OrderKeys
      BY <1>3, <1>4, <2>1
    <2> QED
      BY <2>1, <2>2, <2>3, HalfFills
  <1>6. CASE ExecuteSellerMatch(m)
    <2>1. PICK s, new : s = SellKey(m) /\ new = [Filled(s, fill) EXCEPT
                                                   !.borrowed_amount_to_repay = SatSub(@, DebtPayment(m))]
      OBVIOUS
    <2>2. /\ order' = [order EXCEPT ![s] = new] /\ matchState' = Advanced(m, "Executed")
          /\ matchState[m].stage = "BuyExecuted"
      BY <1>1, <1>6, <2>1 DEF ExecuteSellerMatch
    <2>3. Filled(s, fill) \in PendingOrder
      BY <1>3, <2>1, FilledType
    <2>4. new.filled_quantity > 0 /\ new.status # "Absent" /\ s \in OrderKeys
      BY <1>3, <1>4, <2>1, <2>3 DEF PendingOrder
    <2> QED
      BY <2>1, <2>2, <2>4, HalfFills
  <1> QED
    BY <1>5, <1>6

\* Every step on the chain.
LEMMA ChainMoves ==
    ASSUME SpaceInv, ChainFills, ChainStep
    PROVE  SpaceInv' /\ ChainFills' /\ ChainGrows
  <1>1. CASE UNCHANGED vars
    <2>1. UNCHANGED <<order, matchState>>
      BY <1>1 DEF vars, book
    <2> QED
      BY <1>1, <2>1, SpaceStep, BookStays
  <1>2. ASSUME NEW b \in OrderKeys, NEW s \in OrderKeys, NEW p \in Nat, NEW q \in Nat,
               ValidateMatch(b, s, p, q)
        PROVE  SpaceInv' /\ ChainFills' /\ ChainGrows
    BY <1>2, ValidateKeeps, ValidateFills
  <1>3. CASE BookNext
    <2>1. SpaceInv'
      BY <1>3, SpaceStep DEF Next, LifeNext
    <2>2. SetSteps \/ Tick => UNCHANGED <<order, matchState>>
      BY DEF SetSteps, MintShares, BurnShares, Tick, book
    <2>3. MatchSteps => ChainFills' /\ ChainGrows
      BY ValidateFills, HalvesFill DEF MatchSteps
    <2> QED
      BY <1>3, <2>1, <2>2, <2>3, BookStays, PlaceFills DEF BookNext
  <1> QED
    BY <1>1, <1>2, <1>3 DEF ChainStep

-----------------------------------------------------------------------------
(***************************************************************************)
(* What becomes of the rows and of the pass that takes a step.             *)
(***************************************************************************)
\* The table after a step: no row goes or changes its order, and with ids of
\* their own none runs ahead of the chain.
RowsFollow ==
    /\ rows' \in Seq(TableRow) /\ DOMAIN rows \subseteq DOMAIN rows'
    /\ \A i \in DOMAIN rows : rows'[i].key = rows[i].key
    /\ \A i \in DOMAIN rows' :
         /\ order'[rows'[i].key].status # "Absent"
         /\ DistinctIds /\ rows'[i].filled > 0 => order'[rows'[i].key].filled_quantity > 0

\* The step of one pass to a good state.
MovesWell(w) == \E p : IsRecord(p) /\ GoodPass(p) /\ pass' = [pass EXCEPT ![w] = p]

\* What a row is.
LEMMA RowHere ==
    ASSUME rows \in Seq(TableRow), NEW i \in DOMAIN rows
    PROVE  /\ rows[i] \in TableRow /\ rows[i].key \in OrderKeys
           /\ rows[i].size \in Nat /\ rows[i].filled \in Nat /\ rows[i].price \in Nat
           /\ RemainingSize(rows[i]) \in Int
  <1>1. rows[i] \in TableRow
    BY ElementOfSeq, LenProperties
  <1> QED
    BY <1>1 DEF TableRow, RemainingSize

\* A good pass stays good as the rows and the chain move on.
LEMMA GoodStays ==
    ASSUME NEW p, GoodPass(p), ChainGrows, RowsFollow
    PROVE  GoodPass(p)'
  <1>1. \A n \in DOMAIN p.queue : Refers(p.queue[n])'
    BY DEF GoodPass, Refers, RowsFollow
  <1>2. p.pc \in {"read", "saveBuy", "saveSell"} => Head(p.queue).pair \in Matches
    <2> SUFFICES ASSUME p.pc \in {"read", "saveBuy", "saveSell"} PROVE Head(p.queue).pair \in Matches
      OBVIOUS
    <2>1. p.queue \in Seq(Item) /\ p.queue # <<>>
      BY DEF GoodPass
    <2>2. Head(p.queue) \in Item
      BY <2>1, HeadTailProperties
    <2> QED
      BY <2>2 DEF Item
  <1>3. p.pc \in {"read", "saveBuy", "saveSell"} => matchState'[Head(p.queue).pair].stage = "Executed"
    BY <1>2 DEF GoodPass, ChainGrows
  <1> QED
    BY <1>1, <1>3 DEF GoodPass

\* The invariant, put together again after a step of one pass.
LEMMA PassKept ==
    ASSUME TableInv, SpaceInv', ChainFills', ChainGrows, RowsFollow, NEW w \in Passes, NEW p,
           IsRecord(p), GoodPass(p)', pass' = [pass EXCEPT ![w] = p]
    PROVE  TableInv'
  <1>1. PassShape' /\ pass'[w] = p /\ \A v \in Passes : v # w => pass'[v] = pass[v]
    BY DEF TableInv, PassShape
  <1>2. \A v \in Passes : v # w => GoodPass(pass[v])'
    <2>1. ASSUME NEW v \in Passes, v # w, NEW q, q = pass[v] PROVE GoodPass(q)' /\ pass'[v] = q
      BY <1>1, <2>1, GoodStays DEF TableInv
    <2> QED
      BY <2>1
  <1>3. \A v \in Passes : GoodPass(pass[v])'
    BY <1>1, <1>2
  <1> QED
    BY <1>1, <1>3 DEF TableInv, RowsPosted, RowsFollowChain, RowsFollow

LEMMA MovesKept ==
    ASSUME TableInv, SpaceInv', ChainFills', ChainGrows, RowsFollow, NEW w \in Passes, MovesWell(w)
    PROVE  TableInv'
  <1>1. PICK p : IsRecord(p) /\ GoodPass(p) /\ pass' = [pass EXCEPT ![w] = p]
    BY DEF MovesWell
  <1>2. GoodPass(p)'
    BY <1>1, GoodStays
  <1> QED
    BY <1>1, <1>2, PassKept

\* After a step of no pass.
LEMMA RestKept ==
    ASSUME TableInv, SpaceInv', ChainFills', ChainGrows, RowsFollow, UNCHANGED pass
    PROVE  TableInv'
  <1>1. PassShape'
    BY DEF TableInv, PassShape
  <1>2. ASSUME NEW v \in Passes, NEW q, q = pass[v] PROVE GoodPass(q)' /\ pass'[v] = q
    BY <1>2, GoodStays DEF TableInv
  <1> QED
    BY <1>1, <1>2 DEF TableInv, RowsPosted, RowsFollowChain, RowsFollow

\* The rows stay.
LEMMA RowsStay ==
    ASSUME TableInv, ChainGrows, UNCHANGED rows
    PROVE  RowsFollow
  <1>1. \A i \in DOMAIN rows : rows[i].key \in OrderKeys
    BY RowHere DEF TableInv, RowsPosted
  <1> QED
    BY <1>1 DEF TableInv, RowsPosted, RowsFollowChain, RowsFollow, ChainGrows

\* A row that may replace row i.
Follows(i, r) ==
    /\ r \in TableRow /\ r.key = rows[i].key
    /\ DistinctIds /\ r.filled > 0 =>
         rows[i].filled > 0 \/ order[rows[i].key].filled_quantity > 0

\* Up to two rows are saved.
LEMMA RowsSaved ==
    ASSUME TableInv, UNCHANGED order, NEW i \in DOMAIN rows, NEW j \in DOMAIN rows, NEW r, NEW s,
           Follows(i, r), Follows(j, s), rows' = [rows EXCEPT ![i] = r, ![j] = s]
    PROVE  RowsFollow
  <1>1. PICK n : n = Len(rows)
    OBVIOUS
  <1>2. rows \in [1..n -> TableRow] /\ n \in Nat /\ DOMAIN rows = 1..n
    BY <1>1, LenProperties DEF TableInv, RowsPosted
  <1>3. r \in TableRow /\ s \in TableRow
    BY DEF Follows
  <1>4. rows' \in [1..n -> TableRow] /\ DOMAIN rows' = 1..n
    BY <1>2, <1>3
  <1>5. rows' \in Seq(TableRow)
    BY <1>2, <1>4, SeqDef
  <1>6. \A k \in 1..n : rows'[k] = IF k = j THEN s ELSE IF k = i THEN r ELSE rows[k]
    BY <1>2
  <1>7. \A k \in 1..n : rows'[k].key = rows[k].key
    BY <1>6 DEF Follows
  <1>8. \A k \in 1..n : DistinctIds /\ rows'[k].filled > 0 => order[rows[k].key].filled_quantity > 0
    BY <1>2, <1>6 DEF Follows, TableInv, RowsFollowChain
  <1> QED
    BY <1>2, <1>4, <1>5, <1>7, <1>8 DEF RowsFollow, TableInv, RowsPosted

LEMMA RowSaved ==
    ASSUME TableInv, UNCHANGED order, NEW i \in DOMAIN rows, NEW r, Follows(i, r),
           rows' = [rows EXCEPT ![i] = r]
    PROVE  RowsFollow
  <1>1. [rows EXCEPT ![i] = r] = [rows EXCEPT ![i] = r, ![i] = r]
    OBVIOUS
  <1> QED
    BY <1>1, RowsSaved

\* The match that a pass is at.
LEMMA MatchHere ==
    ASSUME TableInv, NEW w \in Passes, pass[w].pc \notin {"idle", "due", "done"}
    PROVE  /\ pass[w].queue \in Seq(Item) /\ pass[w].queue # <<>>
           /\ Match(w) \in Item /\ Match(w).buy \in DOMAIN rows /\ Match(w).sell \in DOMAIN rows
           /\ Pair(w) \in Matches
           /\ Pair(w) = <<OrderId(BuyRow(w).key), OrderId(SellRow(w).key)>>
           /\ BuyRow(w) \in TableRow /\ BuyRow(w).key \in OrderKeys
           /\ SellRow(w) \in TableRow /\ SellRow(w).key \in OrderKeys
  <1>1. PICK q : q = pass[w].queue
    OBVIOUS
  <1>2. q \in Seq(Item) /\ q # <<>> /\ \A n \in DOMAIN q : Refers(q[n])
    BY <1>1 DEF TableInv, GoodPass
  <1>3. Head(q) = q[1] /\ 1 \in DOMAIN q /\ Head(q) \in Item
    <2>1. Len(q) \in Nat /\ Len(q) # 0 /\ DOMAIN q = 1..Len(q)
      BY <1>2, LenProperties, EmptySeq
    <2> QED
      BY <1>2, <2>1, HeadTailProperties, ElementOfSeq
  <1>4. Match(w) = Head(q) /\ Refers(Match(w))
    BY <1>1, <1>2, <1>3 DEF Match
  <1>5. Pair(w) \in Matches
    BY <1>3, <1>4 DEF Item, Pair
  <1>6. /\ Match(w).buy \in DOMAIN rows /\ Match(w).sell \in DOMAIN rows
        /\ Pair(w) = <<OrderId(BuyRow(w).key), OrderId(SellRow(w).key)>>
    BY <1>4 DEF Refers, Pair, BuyRow, SellRow
  <1>7. /\ BuyRow(w) \in TableRow /\ BuyRow(w).key \in OrderKeys
        /\ SellRow(w) \in TableRow /\ SellRow(w).key \in OrderKeys
    BY <1>6, RowHere DEF TableInv, RowsPosted, BuyRow, SellRow
  <1> QED
    BY <1>1, <1>2, <1>3, <1>4, <1>5, <1>6, <1>7

\* A pass goes on to a counter that knows no more.
LEMMA GotoWell ==
    ASSUME TableInv, NEW w \in Passes, NEW pc, Goto(w, pc), pass[w].pc \in Inside,
           pc \in {"validate", "escrow", "buyer", "check", "seller"}
    PROVE  MovesWell(w)
  <1> DEFINE new == [pass[w] EXCEPT !.pc = pc]
  <1>1. IsRecord(pass[w]) /\ GoodPass(pass[w])
    BY DEF TableInv, PassShape
  <1>2. pass' = [pass EXCEPT ![w] = new]
    BY DEF Goto
  <1>3. IsRecord(new) /\ new.pc = pc /\ new.queue = pass[w].queue /\ new.size = pass[w].size
    BY <1>1 DEF IsRecord
  <1>4. pass[w].queue # <<>> /\ pass[w].size \in Nat \ {0}
    BY <1>1 DEF GoodPass, Inside
  <1> HIDE DEF new
  <1>5. GoodPass(new)
    BY <1>1, <1>3, <1>4 DEF GoodPass
  <1> QED
    BY <1>2, <1>3, <1>5 DEF MovesWell

\* The next match of the queue, or the end of the pass.
LEMMA SkipWell ==
    ASSUME TableInv, NEW w \in Passes, Skip(w)
    PROVE  MovesWell(w)
  <1> DEFINE more == [Idle EXCEPT !.pc = "refresh", !.queue = Tail(pass[w].queue)]
             over == [Idle EXCEPT !.pc = IF w \in Repeated THEN "idle" ELSE "done"]
  <1>1. IF Len(pass[w].queue) > 1 THEN pass' = [pass EXCEPT ![w] = more]
                                  ELSE pass' = [pass EXCEPT ![w] = over]
    BY DEF Skip
  <1>2. PICK q : q = pass[w].queue
    OBVIOUS
  <1>3. q \in Seq(Item) /\ \A n \in DOMAIN q : Refers(q[n])
    BY <1>2 DEF TableInv, GoodPass
  <1>4. CASE Len(q) > 1
    <2>1. IsRecord(more) /\ more.pc = "refresh" /\ more.queue = Tail(q)
      BY <1>2 DEF Idle, IsRecord
    <2>2. q # <<>> /\ Len(q) \in Nat /\ DOMAIN q = 1..Len(q)
      BY <1>3, <1>4, EmptySeq, LenProperties
    <2>3. PICK t : t = Tail(q)
      OBVIOUS
    <2>4. t \in Seq(Item) /\ Len(t) = Len(q) - 1 /\ \A i \in 1..Len(t) : t[i] = q[i + 1]
      BY <1>3, <2>2, <2>3, HeadTailProperties
    <2>5. t # <<>> /\ DOMAIN t = 1..Len(t)
      BY <1>4, <2>2, <2>4, EmptySeq, LenProperties
    <2>6. \A i \in DOMAIN t : Refers(t[i])
      BY <1>3, <2>2, <2>4, <2>5
    <2> HIDE DEF more
    <2>7. GoodPass(more)
      BY <2>1, <2>3, <2>4, <2>5, <2>6 DEF GoodPass, Inside
    <2> QED
      BY <1>1, <1>2, <1>4, <2>1, <2>7 DEF MovesWell
  <1>5. CASE ~(Len(q) > 1)
    <2>1. IsRecord(over) /\ over.pc \in {"idle", "done"} /\ over.queue = <<>>
      BY DEF Idle, IsRecord
    <2>2. <<>> \in Seq(Item) /\ DOMAIN <<>> = {}
      BY EmptySeq
    <2> HIDE DEF over
    <2>3. GoodPass(over)
      BY <2>1, <2>2 DEF GoodPass, Inside
    <2> QED
      BY <1>1, <1>2, <1>5, <2>1, <2>3 DEF MovesWell
  <1> QED
    BY <1>4, <1>5

\* The match goes on with a size, if there is one.
LEMMA EnterWell ==
    ASSUME TableInv, NEW w \in Passes, NEW size \in Int, Enter(w, size), At(w, "size")
    PROVE  MovesWell(w)
  <1>1. CASE Skip(w)
    BY <1>1, SkipWell
  <1>2. CASE /\ size > 0
             /\ pass' = [pass EXCEPT ![w].pc = "inspect", ![w].size = size, ![w].seen = <<>>]
    <2> DEFINE new == [pass[w] EXCEPT !.pc = "inspect", !.size = size, !.seen = <<>>]
    <2>1. IsRecord(pass[w]) /\ GoodPass(pass[w]) /\ pass[w].queue # <<>>
      BY DEF TableInv, PassShape, GoodPass, At
    <2>2. pass' = [pass EXCEPT ![w] = new]
      BY <1>2 DEF TableInv, PassShape
    <2>3. IsRecord(new) /\ new.pc = "inspect" /\ new.queue = pass[w].queue /\ new.size = size
      BY <2>1 DEF IsRecord
    <2> HIDE DEF new
    <2>4. GoodPass(new)
      BY <1>2, <2>1, <2>3 DEF GoodPass
    <2> QED
      BY <2>2, <2>3, <2>4 DEF MovesWell
  <1> QED
    BY <1>1, <1>2 DEF Enter, NothingLeft

\* What matchOrders finds.
LEMMA FoundGood ==
    ASSUME TableInv
    PROVE  Found \in Seq(Item) /\ \A n \in DOMAIN Found : Refers(Found[n])
  <1>1. rows \in Seq(TableRow) /\ DOMAIN rows = 1..Len(rows) /\ Len(rows) \in Nat
    BY LenProperties DEF TableInv, RowsPosted
  <1>2. \A i \in DOMAIN rows : rows[i].price \in Nat /\ rows[i].key \in OrderKeys
    BY <1>1, RowHere
  <1>3. Priced(rows)
    <2>1. PICK n \in Nat : DOMAIN rows = 1..n
      BY <1>1
    <2>2. \A i \in 1..n : rows[i].price \in Int
      BY <1>2, <2>1
    <2> QED
      BY <2>1, <2>2, Zenon DEF Priced
  <1>4. PICK found : found = MatchOrders(rows)
    OBVIOUS
  <1>5. PICK c \in Nat : DOMAIN found = 1..c
    BY <1>3, <1>4, MatchesCounted
  <1>6. PICK all : all = Found
    OBVIOUS
  <1>7. all = [n \in DOMAIN found |->
                 [buy |-> found[n].buy, sell |-> found[n].sell, price |-> found[n].price,
                  pair |-> <<OrderId(rows[found[n].buy].key), OrderId(rows[found[n].sell].key)>>]]
    BY <1>4, <1>6 DEF Found
  <1>8. ASSUME NEW n \in 1..c
        PROVE  all[n] \in Item /\ Refers(all[n])
    <2>1. PICK i, j, p : i = found[n].buy /\ j = found[n].sell /\ p = found[n].price
      OBVIOUS
    <2>2. i \in Rows(rows, "buy") /\ j \in Partners(rows, i) /\ p = MatchPrice(rows[i], rows[j])
      BY <1>3, <1>4, <1>5, <2>1, MatchesFound DEF MatchedBest
    <2>3. i \in DOMAIN rows /\ j \in DOMAIN rows
      BY <2>2 DEF Rows, Partners
    <2>4. PICK m : m = <<OrderId(rows[i].key), OrderId(rows[j].key)>>
      OBVIOUS
    <2>5. m \in Matches
      <3>1. OrderId(rows[i].key) \in OrderIds /\ OrderId(rows[j].key) \in OrderIds
        BY <1>2, <2>3, InputTypes
      <3> QED
        BY <2>4, <3>1 DEF Matches
    <2>6. p \in Nat /\ i \in Nat /\ j \in Nat
      BY <1>1, <1>2, <2>2, <2>3 DEF MatchPrice
    <2>7. all[n] = [buy |-> i, sell |-> j, price |-> p, pair |-> m]
      BY <1>5, <1>7, <2>1, <2>4
    <2> QED
      BY <2>3, <2>4, <2>5, <2>6, <2>7 DEF Item, Refers
  <1>9. DOMAIN all = 1..c
    BY <1>5, <1>7
  <1>10. all \in [1..c -> Item]
    BY <1>7, <1>8, <1>9
  <1>11. all \in Seq(Item)
    BY <1>5, <1>10, SeqDef
  <1> QED
    BY <1>6, <1>8, <1>9, <1>11

LEMMA FindWell ==
    ASSUME TableInv, NEW w \in Passes, FindMatches(w) \/ FindNone(w)
    PROVE  MovesWell(w)
  <1> DEFINE new(found) == [Idle EXCEPT !.queue = found, !.pc = "refresh"]
             none == [Idle EXCEPT !.pc = IF w \in Repeated THEN "idle" ELSE "done"]
  <1>1. PICK found : found = Found
    OBVIOUS
  <1>2. CASE FindMatches(w)
    <2>1. found # <<>> /\ pass' = [pass EXCEPT ![w] = new(found)]
      BY <1>1, <1>2 DEF FindMatches
    <2>2. IsRecord(new(found)) /\ new(found).pc = "refresh" /\ new(found).queue = found
      BY DEF Idle, IsRecord
    <2>3. PICK p : p = new(found)
      OBVIOUS
    <2>4. GoodPass(p)
      <3>1. p.pc = "refresh" /\ p.queue = found
        BY <2>2, <2>3
      <3> QED
        BY <1>1, <2>1, <3>1, FoundGood DEF GoodPass, Inside
    <2> QED
      BY <2>1, <2>2, <2>3, <2>4 DEF MovesWell
  <1>3. CASE FindNone(w)
    <2>1. pass' = [pass EXCEPT ![w] = none]
      BY <1>3 DEF FindNone
    <2>2. IsRecord(none) /\ none.pc \in {"idle", "done"} /\ none.queue = <<>>
      BY DEF Idle, IsRecord
    <2>3. <<>> \in Seq(Item) /\ DOMAIN <<>> = {}
      BY EmptySeq
    <2> HIDE DEF none
    <2>4. GoodPass(none)
      BY <2>2, <2>3 DEF GoodPass, Inside
    <2> QED
      BY <2>1, <2>2, <2>4 DEF MovesWell
  <1> QED
    BY <1>2, <1>3

\* Reading the two rows, before the match or before the record.
LEMMA ReadWell ==
    ASSUME TableInv, NEW w \in Passes, Refresh(w) \/ ReadRows(w)
    PROVE  MovesWell(w)
  <1> DEFINE new(pc) == [pass[w] EXCEPT !.pc = pc, !.seen = <<BuyRow(w), SellRow(w)>>]
  <1>1. IsRecord(pass[w]) /\ GoodPass(pass[w])
    BY DEF TableInv, PassShape
  <1>2. ASSUME NEW pc, pass' = [pass EXCEPT ![w] = new(pc)],
               \/ pc = "size" /\ pass[w].pc = "refresh"
               \/ pc = "saveBuy" /\ pass[w].pc = "read"
        PROVE  MovesWell(w)
    <2>1. PICK p : p = new(pc)
      OBVIOUS
    <2>2. IsRecord(p) /\ p.pc = pc /\ p.queue = pass[w].queue /\ p.size = pass[w].size
          /\ p.seen = <<BuyRow(w), SellRow(w)>>
      BY <1>1, <2>1 DEF IsRecord
    <2>3. /\ BuyRow(w) \in TableRow /\ SellRow(w) \in TableRow /\ pass[w].queue # <<>>
      BY <1>2, MatchHere
    <2>4. p.seen[1] \in TableRow /\ p.seen[2] \in TableRow
      BY <2>2, <2>3
    <2>5. GoodPass(p)
      BY <1>1, <1>2, <2>2, <2>3, <2>4 DEF GoodPass, Inside
    <2> QED
      BY <1>2, <2>1, <2>2, <2>5 DEF MovesWell
  <1>3. CASE ReadRows(w)
    <2>1. pass' = [pass EXCEPT ![w] = new("saveBuy")] /\ pass[w].pc = "read"
      BY <1>3 DEF ReadRows, At, TableInv, PassShape
    <2> QED
      BY <1>2, <2>1
  <1>4. CASE Refresh(w)
    <2>1. Skip(w) \/ pass' = [pass EXCEPT ![w] = new("size")]
      BY <1>4 DEF Refresh, TableInv, PassShape
    <2>2. pass[w].pc = "refresh"
      BY <1>4 DEF Refresh, At
    <2> QED
      BY <1>2, <2>1, <2>2, SkipWell
  <1> QED
    BY <1>3, <1>4

-----------------------------------------------------------------------------
(***************************************************************************)
(* The rows that a pass writes.                                            *)
(***************************************************************************)
\* The orders of the rows of a match whose halves are done have been filled.
LEMMA RecordedFilled ==
    ASSUME DistinctIds, TableInv, NEW w \in Passes, pass[w].pc \in {"saveBuy", "saveSell"}
    PROVE  /\ order[BuyRow(w).key].filled_quantity > 0
           /\ order[SellRow(w).key].filled_quantity > 0
  <1>1. PICK m : m = Pair(w)
    OBVIOUS
  <1>2. PICK b, s : b = BuyRow(w).key /\ s = SellRow(w).key
    OBVIOUS
  <1>3. m \in Matches /\ m = <<OrderId(b), OrderId(s)>> /\ b \in OrderKeys /\ s \in OrderKeys
    BY <1>1, <1>2, MatchHere
  <1>4. matchState[m].stage = "Executed"
    BY <1>1 DEF TableInv, GoodPass, Pair, Match
  <1>5. BuyKey(m) \in OrderKeys /\ SellKey(m) \in OrderKeys
    BY <1>3, <1>4 DEF TableInv, SpaceInv, BookInv, MatchesRefer
  <1>6. OrderId(BuyKey(m)) = OrderId(b) /\ OrderId(SellKey(m)) = OrderId(s)
    BY <1>3 DEF BuyKey, SellKey, OrderId
  <1>7. BuyKey(m) = b /\ SellKey(m) = s
    BY <1>3, <1>5, <1>6 DEF DistinctIds
  <1> QED
    BY <1>2, <1>3, <1>4, <1>7 DEF TableInv, ChainFills

\* Math.round of an average is a natural number.
LEMMA AvgNat ==
    ASSUME NEW r \in TableRow, NEW size \in Nat \ {0}, NEW price \in Nat
    PROVE  AvgFillPrice(r, size, price) \in Nat
  <1>1. r.filled \in Nat /\ r.avg \in Nat
    BY DEF TableRow
  <1>2. PICK f, a : f = r.filled /\ a = r.avg
    OBVIOUS
  <1>3. a * f \in Nat /\ price * size \in Nat
    BY <1>1, <1>2, TimesNat
  <1>4. PICK n, d : n = 2 * (a * f + price * size) + (f + size) /\ d = 2 * (f + size)
    OBVIOUS
  <1>5. n \in Nat /\ d \in Nat \ {0}
    BY <1>1, <1>2, <1>3, <1>4
  <1>6. n \div d \in Nat
    BY <1>5, DivNat
  <1> QED
    BY <1>2, <1>4, <1>6 DEF AvgFillPrice

\* A row with the fill added to what was read of it.
LEMMA SavedFollows ==
    ASSUME TableInv, NEW w \in Passes, pass[w].pc \in {"saveBuy", "saveSell"},
           NEW i \in DOMAIN rows, NEW old \in TableRow,
           DistinctIds => order[rows[i].key].filled_quantity > 0
    PROVE  Follows(i, Saved(w, i, old))
  <1>1. pass[w].size \in Nat \ {0}
    BY DEF TableInv, GoodPass, Inside
  <1>2. Price(w) \in Nat
    <2>1. Pair(w) \in Matches
      BY MatchHere
    <2> QED
      BY <2>1 DEF Price, TableInv, SpaceInv, TypeOK, Matches, MatchState
  <1>3. old.filled \in Nat
    BY DEF TableRow
  <1>4. PICK filled, avg, status :
          /\ filled = old.filled + pass[w].size
          /\ avg = AvgFillPrice(old, pass[w].size, Price(w))
          /\ status = IF StatusOf(filled, old.size) = old.status THEN rows[i].status
                      ELSE StatusOf(filled, old.size)
    OBVIOUS
  <1>5. Saved(w, i, old) = [rows[i] EXCEPT !.filled = filled, !.avg = avg, !.status = status]
    BY <1>4 DEF Saved
  <1>6. rows[i] \in TableRow
    BY RowHere DEF TableInv, RowsPosted
  <1>7. filled \in Nat /\ avg \in Nat /\ status \in {"open", "partially_filled", "filled", "cancelled"}
    <2>1. filled \in Nat
      BY <1>1, <1>3, <1>4
    <2>2. avg \in Nat
      BY <1>1, <1>2, <1>4, AvgNat
    <2>3. rows[i].status \in {"open", "partially_filled", "filled", "cancelled"}
      BY <1>6 DEF TableRow
    <2>4. StatusOf(filled, old.size) \in {"partially_filled", "filled"}
      BY DEF StatusOf
    <2>5. status \in {"open", "partially_filled", "filled", "cancelled"}
      BY <1>4, <2>3, <2>4
    <2> QED
      BY <2>1, <2>2, <2>5
  <1>8. PICK r : r = [rows[i] EXCEPT !.filled = filled, !.avg = avg, !.status = status]
    OBVIOUS
  <1>9. r \in TableRow /\ r.key = rows[i].key
    BY <1>6, <1>7, <1>8 DEF TableRow
  <1> QED
    BY <1>5, <1>8, <1>9 DEF Follows

\* A row that only changes its status.
LEMMA StatusFollows ==
    ASSUME TableInv, NEW i \in DOMAIN rows,
           NEW status \in {"open", "partially_filled", "filled", "cancelled"}
    PROVE  Follows(i, [rows[i] EXCEPT !.status = status])
  <1>1. PICK r : r = [rows[i] EXCEPT !.status = status]
    OBVIOUS
  <1>2. rows[i] \in TableRow
    BY RowHere DEF TableInv, RowsPosted
  <1>3. r \in TableRow /\ r.key = rows[i].key /\ r.filled = rows[i].filled
    BY <1>1, <1>2 DEF TableRow
  <1> QED
    BY <1>1, <1>3 DEF Follows

\* A row made to follow the chain.
LEMMA SyncedFollows ==
    ASSUME TableInv, NEW i \in DOMAIN rows
    PROVE  Follows(i, Synced(i))
  <1>1. rows[i] \in TableRow /\ rows[i].key \in OrderKeys
    BY RowHere DEF TableInv, RowsPosted
  <1>2. CASE order[rows[i].key].status = "Filled"
    <2>1. PICK r : r = [rows[i] EXCEPT !.status = "filled", !.filled = rows[i].size]
      OBVIOUS
    <2>2. r \in TableRow /\ r.key = rows[i].key
      BY <1>1, <2>1 DEF TableRow
    <2>3. order[rows[i].key].filled_quantity > 0
      BY <1>1, <1>2 DEF TableInv, ChainFills
    <2> QED
      BY <1>2, <2>1, <2>2, <2>3 DEF Follows, Synced
  <1>3. CASE order[rows[i].key].status # "Filled"
    BY <1>1, <1>3 DEF Follows, Synced
  <1> QED
    BY <1>2, <1>3

LEMMA SyncFollows ==
    ASSUME TableInv, UNCHANGED order, NEW w \in Passes, pass[w].pc \notin {"idle", "due", "done"},
           SyncRows(w)
    PROVE  RowsFollow
  <1>1. PICK b, s : b = Match(w).buy /\ s = Match(w).sell
    OBVIOUS
  <1>2. b \in DOMAIN rows /\ s \in DOMAIN rows
    BY <1>1, MatchHere
  <1>3. rows' = [rows EXCEPT ![b] = Synced(b), ![s] = Synced(s)]
    BY <1>1 DEF SyncRows
  <1> QED
    BY <1>2, <1>3, SyncedFollows, RowsSaved

-----------------------------------------------------------------------------
(***************************************************************************)
(* The steps.                                                              *)
(***************************************************************************)
\* Nothing moves on the chain.
LEMMA ChainRests ==
    ASSUME TableInv, UNCHANGED vars
    PROVE  SpaceInv' /\ ChainFills' /\ ChainGrows /\ UNCHANGED <<order, matchState>>
  <1>1. UNCHANGED <<order, matchState>>
    BY DEF vars, book
  <1> QED
    BY <1>1, ChainMoves DEF TableInv, ChainStep

\* A step of a pass that changes the rows, if at all, as the rows allow.
LEMMA QuietKept ==
    ASSUME TableInv, UNCHANGED vars, NEW w \in Passes, MovesWell(w), RowsFollow \/ UNCHANGED rows
    PROVE  TableInv'
  BY ChainRests, RowsStay, MovesKept

LEMMA ReturnWell ==
    ASSUME TableInv, NEW w \in Passes, Return(w)
    PROVE  MovesWell(w)
  BY SkipWell DEF Return

LEMMA KeptBySize ==
    ASSUME TableInv, NEW w \in Passes, SizeFromChain(w) \/ SizeFromRows(w)
    PROVE  TableInv'
  <1>1. pass[w].pc = "size" /\ UNCHANGED vars /\ UNCHANGED order
    BY DEF SizeFromChain, SizeFromRows, At, vars, book
  <1>2. \A a, b \in Int : Lesser(a, b) \in Int
    BY DEF Lesser
  <1>3. CASE SizeFromRows(w)
    <2>1. PICK size : size = Lesser(RemainingSize(pass[w].seen[1]), RemainingSize(pass[w].seen[2]))
      OBVIOUS
    <2>2. pass[w].seen[1] \in TableRow /\ pass[w].seen[2] \in TableRow
      BY <1>1 DEF TableInv, GoodPass
    <2>3. \A r \in TableRow : RemainingSize(r) \in Int
      BY DEF TableRow, RemainingSize
    <2>4. size \in Int /\ Enter(w, size) /\ At(w, "size") /\ UNCHANGED rows
      BY <1>2, <1>3, <2>1, <2>2, <2>3 DEF SizeFromRows
    <2> QED
      BY <1>1, <2>4, EnterWell, QuietKept
  <1>4. CASE SizeFromChain(w)
    <2>1. PICK size : size = Lesser(Remaining(BuyRow(w).key), Remaining(SellRow(w).key))
      OBVIOUS
    <2>2. \A k \in OrderKeys : Remaining(k) \in Int
      BY DEF Remaining, TableInv, SpaceInv, TypeOK, PendingOrder
    <2>3. size \in Int
      BY <1>1, <1>2, <2>1, <2>2, MatchHere
    <2>4. CASE SyncRows(w) /\ Skip(w)
      BY <1>1, <2>4, SyncFollows, SkipWell, QuietKept
    <2>5. CASE Enter(w, size) /\ UNCHANGED rows
      BY <1>1, <2>3, <2>5, EnterWell, QuietKept DEF At
    <2> QED
      BY <1>4, <2>1, <2>4, <2>5 DEF SizeFromChain
  <1> QED
    BY <1>3, <1>4

LEMMA KeptByInspect ==
    ASSUME TableInv, NEW w \in Passes, Inspect(w)
    PROVE  TableInv'
  <1>1. pass[w].pc = "inspect" /\ UNCHANGED vars /\ UNCHANGED order
    BY DEF Inspect, At, vars, book
  <1>2. CASE SyncRows(w) /\ Return(w)
    BY <1>1, <1>2, SyncFollows, ReturnWell, QuietKept
  <1>3. CASE UNCHANGED rows /\ (Return(w) \/ Goto(w, "validate") \/ Goto(w, "escrow"))
    BY <1>1, <1>3, GotoWell, ReturnWell, QuietKept DEF Inside
  <1> QED
    BY <1>2, <1>3 DEF Inspect

\* The steps of executeMatch that send no transaction and record nothing.
LEMMA KeptInside ==
    ASSUME TableInv, NEW w \in Passes,
           \/ ValidateRejected(w) \/ Escrow(w) \/ BuyerRejected(w) \/ Check(w)
           \/ SellerRejected(w) \/ CallFails(w) \/ \E i \in DOMAIN rows : AccountUnseen(w, i)
    PROVE  TableInv'
  <1>1. UNCHANGED vars /\ UNCHANGED order /\ pass[w].pc \in Inside
    BY DEF ValidateRejected, Escrow, BuyerRejected, Check, SellerRejected, CallFails,
           AccountUnseen, At, Inside, vars, book
  <1>2. CASE ValidateRejected(w) \/ Escrow(w) \/ Check(w) \/ SellerRejected(w) \/ CallFails(w)
    <2>1. /\ UNCHANGED rows
          /\ \/ Return(w) \/ Goto(w, "escrow") \/ Goto(w, "buyer") \/ Goto(w, "check")
             \/ Goto(w, "seller")
      BY <1>2 DEF ValidateRejected, Escrow, Check, SellerRejected, CallFails
    <2> QED
      BY <1>1, <2>1, GotoWell, ReturnWell, QuietKept
  <1>3. CASE BuyerRejected(w)
    <2>1. CASE Return(w) /\ UNCHANGED rows
      BY <1>1, <2>1, ReturnWell, QuietKept
    <2>2. CASE /\ rows' = [rows EXCEPT ![Match(w).buy].status = StatusOf(BuyRow(w).filled, BuyRow(w).size)]
               /\ Goto(w, "check")
      <3>1. PICK i, st : i = Match(w).buy /\ st = StatusOf(BuyRow(w).filled, BuyRow(w).size)
        OBVIOUS
      <3>2. i \in DOMAIN rows
        BY <1>1, <3>1, MatchHere DEF Inside
      <3>3. st \in {"open", "partially_filled", "filled", "cancelled"}
        BY <3>1 DEF StatusOf
      <3>4. rows' = [rows EXCEPT ![i] = [rows[i] EXCEPT !.status = st]]
        BY <2>2, <3>1
      <3>5. RowsFollow
        BY <1>1, <3>2, <3>3, <3>4, StatusFollows, RowSaved
      <3> QED
        BY <1>1, <2>2, <3>5, GotoWell, QuietKept
    <2> QED
      BY <1>3, <2>1, <2>2 DEF BuyerRejected
  <1>4. ASSUME NEW i \in DOMAIN rows, AccountUnseen(w, i)
        PROVE  TableInv'
    <2>1. rows' = [rows EXCEPT ![i] = [rows[i] EXCEPT !.status = "cancelled"]] /\ Return(w)
      BY <1>4 DEF AccountUnseen
    <2>2. RowsFollow
      BY <1>1, <2>1, StatusFollows, RowSaved
    <2> QED
      BY <1>1, <2>1, <2>2, ReturnWell, QuietKept
  <1> QED
    BY <1>2, <1>3, <1>4

\* The transactions of a match are steps of the program.
LEMMA TxChain ==
    ASSUME TableInv, NEW w \in Passes, pass[w].pc \in Inside,
           TxValidate(w) \/ TxBuyer(w) \/ TxSeller(w)
    PROVE  ChainStep
  <1>1. /\ Match(w) \in Item /\ Pair(w) \in Matches
        /\ BuyRow(w).key \in OrderKeys /\ SellRow(w).key \in OrderKeys
    BY MatchHere DEF Inside
  <1>2. pass[w].size \in Nat /\ Match(w).price \in Nat
    BY <1>1 DEF TableInv, GoodPass, Item
  <1>3. CASE TxValidate(w)
    BY <1>1, <1>2, <1>3 DEF TxValidate, ChainStep
  <1>4. CASE TxBuyer(w) \/ TxSeller(w)
    BY <1>1, <1>4 DEF TxBuyer, TxSeller, ChainStep, BookNext, MatchSteps
  <1> QED
    BY <1>3, <1>4

LEMMA KeptBySend ==
    ASSUME TableInv, NEW w \in Passes, Validate(w) \/ Buyer(w) \/ LandsUnseen(w)
    PROVE  TableInv'
  <1>1. /\ pass[w].pc \in Inside /\ UNCHANGED rows
        /\ TxValidate(w) \/ TxBuyer(w) \/ TxSeller(w)
        /\ Goto(w, "escrow") \/ Goto(w, "check") \/ Return(w)
    BY DEF Validate, Buyer, LandsUnseen, At, Inside
  <1>2. SpaceInv' /\ ChainFills' /\ ChainGrows
    BY <1>1, TxChain, ChainMoves DEF TableInv
  <1>3. MovesWell(w)
    BY <1>1, GotoWell, ReturnWell
  <1> QED
    BY <1>1, <1>2, <1>3, RowsStay, MovesKept

\* The seller is paid: what the pass then knows is true after the step.
LEMMA KeptBySeller ==
    ASSUME TableInv, NEW w \in Passes, Seller(w)
    PROVE  TableInv'
  <1> DEFINE new == [pass[w] EXCEPT !.pc = "read"]
  <1>1. /\ pass[w].pc \in Inside /\ UNCHANGED rows /\ TxSeller(w)
        /\ pass' = [pass EXCEPT ![w] = new]
    BY DEF Seller, At, Inside, Goto
  <1>2. SpaceInv' /\ ChainFills' /\ ChainGrows
    BY <1>1, TxChain, ChainMoves DEF TableInv
  <1>3. RowsFollow
    BY <1>1, <1>2, RowsStay
  <1>4. PICK p : p = pass[w]
    OBVIOUS
  <1>5. IsRecord(p) /\ GoodPass(p) /\ GoodPass(p)'
    BY <1>2, <1>3, <1>4, GoodStays DEF TableInv, PassShape
  <1>6. PICK q : q = new
    OBVIOUS
  <1>7. IsRecord(q) /\ q.pc = "read" /\ q.queue = p.queue /\ q.size = p.size
    BY <1>4, <1>5, <1>6 DEF IsRecord
  <1>8. p.queue # <<>> /\ p.size \in Nat \ {0}
    BY <1>1, <1>4, <1>5 DEF GoodPass, Inside
  <1>9. matchState'[Head(p.queue).pair].stage = "Executed"
    <2>1. PICK m : m = Pair(w)
      OBVIOUS
    <2>2. m \in Matches /\ matchState' = Advanced(m, "Executed")
      BY <1>1, <2>1, MatchHere DEF TxSeller, ExecuteSellerMatch, Inside
    <2>3. matchState'[m].stage = "Executed"
      BY <2>2 DEF Advanced, TableInv, SpaceInv, TypeOK, Matches, MatchState
    <2> QED
      BY <1>4, <2>1, <2>3 DEF Pair, Match
  <1>10. GoodPass(q)'
    BY <1>5, <1>7, <1>8, <1>9 DEF GoodPass
  <1> QED
    BY <1>1, <1>2, <1>3, <1>6, <1>7, <1>10, PassKept

\* The record of the fill.
LEMMA KeptBySave ==
    ASSUME TableInv, NEW w \in Passes, SaveBuy(w) \/ SaveSell(w)
    PROVE  TableInv'
  <1>1. /\ pass[w].pc \in {"saveBuy", "saveSell"} /\ pass[w].pc \in Inside
        /\ UNCHANGED vars /\ UNCHANGED order
    BY DEF SaveBuy, SaveSell, At, Inside, vars, book
  <1>2. PICK b, s : b = Match(w).buy /\ s = Match(w).sell
    OBVIOUS
  <1>3. b \in DOMAIN rows /\ s \in DOMAIN rows
    BY <1>1, <1>2, MatchHere
  <1>4. DistinctIds => order[rows[b].key].filled_quantity > 0 /\ order[rows[s].key].filled_quantity > 0
    BY <1>1, <1>2, RecordedFilled DEF BuyRow, SellRow
  <1>5. pass[w].seen[1] \in TableRow /\ pass[w].seen[2] \in TableRow
    BY <1>1 DEF TableInv, GoodPass
  <1>6. CASE SaveSell(w)
    <2>1. rows' = [rows EXCEPT ![s] = Saved(w, s, pass[w].seen[2])] /\ Return(w)
      BY <1>2, <1>6 DEF SaveSell
    <2>2. Follows(s, Saved(w, s, pass[w].seen[2]))
      BY <1>1, <1>3, <1>4, <1>5, SavedFollows
    <2>3. RowsFollow
      BY <1>1, <1>3, <2>1, <2>2, RowSaved
    <2> QED
      BY <1>1, <2>1, <2>3, ReturnWell, QuietKept
  <1>7. CASE SaveBuy(w)
    <2>1. rows' = [rows EXCEPT ![b] = Saved(w, b, pass[w].seen[1])]
      BY <1>2, <1>7 DEF SaveBuy
    <2>2. Follows(b, Saved(w, b, pass[w].seen[1]))
      BY <1>1, <1>3, <1>4, <1>5, SavedFollows
    <2>3. RowsFollow
      BY <1>1, <1>3, <2>1, <2>2, RowSaved
    <2>4. PICK p : p = pass[w]
      OBVIOUS
    <2>5. PICK q : q = [p EXCEPT !.pc = "saveSell"]
      OBVIOUS
    <2>6. pass' = [pass EXCEPT ![w] = q]
      BY <1>7, <2>4, <2>5 DEF SaveBuy, Goto
    <2>7. IsRecord(p) /\ GoodPass(p) /\ p.pc = "saveBuy"
      BY <1>7, <2>4 DEF TableInv, PassShape, SaveBuy, At
    <2>8. IsRecord(q) /\ q.pc = "saveSell" /\ q.queue = p.queue /\ q.size = p.size /\ q.seen = p.seen
      BY <2>5, <2>7 DEF IsRecord
    <2>9. GoodPass(q)
      BY <2>7, <2>8 DEF GoodPass, Inside
    <2> QED
      BY <1>1, <2>3, <2>6, <2>8, <2>9, QuietKept DEF MovesWell
  <1> QED
    BY <1>6, <1>7

\* Every step of a pass.
LEMMA KeptByPass ==
    ASSUME TableInv, NEW w \in Passes,
           PassStep(w) \/ SizeFromRows(w) \/ CallFails(w) \/ LandsUnseen(w)
               \/ \E i \in DOMAIN rows : AccountUnseen(w, i)
    PROVE  TableInv'
  <1>1. CASE FindMatches(w) \/ FindNone(w)
    BY <1>1, FindWell, QuietKept DEF FindMatches, FindNone
  <1>2. CASE Refresh(w) \/ ReadRows(w)
    BY <1>2, ReadWell, QuietKept DEF Refresh, ReadRows
  <1> QED
    BY <1>1, <1>2, KeptBySize, KeptByInspect, KeptInside, KeptBySend, KeptBySeller, KeptBySave
       DEF PassStep

-----------------------------------------------------------------------------
(***************************************************************************)
(* The other steps of the keeper, and its theorems.                        *)
(***************************************************************************)
\* The row of an order that is on the chain.
LEMMA NewRowHere ==
    ASSUME TableInv, NEW k \in OrderKeys
    PROVE  NewRow(k) \in TableRow /\ NewRow(k).key = k /\ NewRow(k).filled = 0
  <1>1. order[k] \in PendingOrder
    BY DEF TableInv, SpaceInv, TypeOK
  <1>2. order[k].price \in Nat /\ order[k].quantity \in Nat
    BY <1>1 DEF PendingOrder
  <1>3. Intent[k].token \in {"yes", "no"}
    BY KeeperAssumption
  <1> QED
    BY <1>2, <1>3 DEF NewRow, TableRow

LEMMA KeptByPost ==
    ASSUME TableInv, NEW k \in OrderKeys, PostOrder(k)
    PROVE  TableInv'
  <1>1. /\ UNCHANGED vars /\ UNCHANGED order /\ order[k].status # "Absent"
        /\ rows' = Append(rows, NewRow(k)) /\ pass' = [pass EXCEPT ![k].pc = "due"]
    BY DEF PostOrder, vars, book
  <1>2. PICK r : r = NewRow(k)
    OBVIOUS
  <1>3. r \in TableRow /\ r.key = k /\ r.filled = 0
    BY <1>2, NewRowHere
  <1>4. PICK n : n = Len(rows)
    OBVIOUS
  <1>5. rows \in Seq(TableRow) /\ n \in Nat /\ DOMAIN rows = 1..n
    BY <1>4, LenProperties DEF TableInv, RowsPosted
  <1>6. /\ rows' \in Seq(TableRow) /\ Len(rows') = n + 1
        /\ \A i \in 1..n : rows'[i] = rows[i]
        /\ rows'[n + 1] = r
    BY <1>1, <1>2, <1>3, <1>4, <1>5, AppendProperties
  <1>7. DOMAIN rows' = 1..(n + 1)
    BY <1>6, LenProperties
  <1>8. ASSUME NEW i \in DOMAIN rows'
        PROVE  /\ order'[rows'[i].key].status # "Absent"
               /\ DistinctIds /\ rows'[i].filled > 0 => order'[rows'[i].key].filled_quantity > 0
    <2>1. CASE i \in DOMAIN rows
      BY <1>1, <1>5, <1>6, <2>1 DEF TableInv, RowsPosted, RowsFollowChain
    <2>2. CASE i = n + 1
      BY <1>1, <1>3, <1>6, <2>2
    <2> QED
      BY <1>5, <1>7, <2>1, <2>2
  <1>9. RowsFollow
    BY <1>5, <1>6, <1>7, <1>8 DEF RowsFollow
  <1>10. k \in Passes
    BY DEF Passes
  <1>11. MovesWell(k)
    <2> DEFINE new == [pass[k] EXCEPT !.pc = "due"]
    <2>1. IsRecord(pass[k]) /\ GoodPass(pass[k])
      BY <1>10 DEF TableInv, PassShape
    <2>2. pass' = [pass EXCEPT ![k] = new]
      BY <1>1
    <2>3. IsRecord(new) /\ new.pc = "due" /\ new.queue = pass[k].queue
      BY <2>1 DEF IsRecord
    <2> HIDE DEF new
    <2>4. GoodPass(new)
      BY <2>1, <2>3 DEF GoodPass, Inside
    <2> QED
      BY <2>2, <2>3, <2>4 DEF MovesWell
  <1> QED
    BY <1>1, <1>9, <1>10, <1>11, QuietKept

LEMMA KeptByRequest ==
    ASSUME TableInv, NEW w \in Requests, RequestMatch(w)
    PROVE  TableInv'
  <1>1. UNCHANGED vars /\ UNCHANGED rows /\ w \in Passes
    BY DEF RequestMatch, Passes
  <1>2. MovesWell(w)
    <2> DEFINE new == [pass[w] EXCEPT !.pc = "due"]
    <2>1. IsRecord(pass[w]) /\ GoodPass(pass[w])
      BY <1>1 DEF TableInv, PassShape
    <2>2. pass' = [pass EXCEPT ![w] = new]
      BY DEF RequestMatch
    <2>3. IsRecord(new) /\ new.pc = "due" /\ new.queue = pass[w].queue
      BY <2>1 DEF IsRecord
    <2> HIDE DEF new
    <2>4. GoodPass(new)
      BY <2>1, <2>3 DEF GoodPass, Inside
    <2> QED
      BY <2>2, <2>3, <2>4 DEF MovesWell
  <1> QED
    BY <1>1, <1>2, QuietKept

\* The end of a placement, and a cancellation.
LEMMA KeptByStatus ==
    ASSUME TableInv, NEW i \in DOMAIN rows, SettlePlacement(i) \/ CancelRow(i)
    PROVE  TableInv'
  <1>1. UNCHANGED vars /\ UNCHANGED order /\ UNCHANGED pass
    BY DEF SettlePlacement, CancelRow, vars, book
  <1>2. PICK st : /\ st \in {"open", "partially_filled", "filled", "cancelled"}
                  /\ rows' = [rows EXCEPT ![i] = [rows[i] EXCEPT !.status = st]]
    <2>1. CASE CancelRow(i)
      BY <2>1 DEF CancelRow
    <2>2. CASE SettlePlacement(i)
      <3>1. PICK st : st = IF rows[i].filled = 0 THEN rows[i].status
                           ELSE StatusOf(rows[i].filled, rows[i].size)
        OBVIOUS
      <3>2. rows[i].status \in {"open", "partially_filled", "filled", "cancelled"}
        BY RowHere DEF TableInv, RowsPosted, TableRow
      <3>3. StatusOf(rows[i].filled, rows[i].size) \in {"partially_filled", "filled"}
        BY DEF StatusOf
      <3>4. rows' = [rows EXCEPT ![i] = [rows[i] EXCEPT !.status = st]]
        BY <2>2, <3>1 DEF SettlePlacement
      <3> QED
        BY <3>1, <3>2, <3>3, <3>4
    <2> QED
      BY <2>1, <2>2
  <1>3. RowsFollow
    BY <1>1, <1>2, StatusFollows, RowSaved
  <1> QED
    BY <1>1, <1>3, ChainRests, RestKept

\* What the owners of the orders do is in the interface of the program.
LEMMA UsersChain ==
    ASSUME UserSteps
    PROVE  ChainStep
  <1>1. ASSUME NEW k \in OrderKeys, OnChain(k) PROVE PlaceSteps
    <2>1. PICK i : i = Intent[k]
      OBVIOUS
    <2>2. /\ i.outcome \in OutcomeIds /\ i.price \in Prices
          /\ i.quantity \in Quantities /\ i.leverage \in Leverages
      BY <2>1, KeeperAssumption
    <2> QED
      BY <1>1, <2>1, <2>2 DEF OnChain, PlaceSteps
  <1> QED
    BY <1>1, KeeperAssumption DEF UserSteps, ChainStep, BookNext, CancelSteps

LEMMA KeptByUsers ==
    ASSUME TableInv, UserSteps
    PROVE  TableInv'
  <1>1. UNCHANGED rows /\ UNCHANGED pass
    BY DEF UserSteps, backend
  <1>2. SpaceInv' /\ ChainFills' /\ ChainGrows
    BY UsersChain, ChainMoves DEF TableInv
  <1> QED
    BY <1>1, <1>2, RowsStay, RestKept

\* A pass that has not begun, or is over, is good.
LEMMA IdleGood ==
    ASSUME NEW pc \in {"idle", "done"}
    PROVE  IsRecord([Idle EXCEPT !.pc = pc]) /\ GoodPass([Idle EXCEPT !.pc = pc])
  <1>1. PICK p : p = [Idle EXCEPT !.pc = pc]
    OBVIOUS
  <1>2. IsRecord(p) /\ p.pc = pc /\ p.queue = <<>>
    BY <1>1 DEF Idle, IsRecord
  <1>3. <<>> \in Seq(Item) /\ DOMAIN <<>> = {}
    BY EmptySeq
  <1> QED
    BY <1>1, <1>2, <1>3 DEF GoodPass, Inside

LEMMA KeptByCrash ==
    ASSUME TableInv, Crash
    PROVE  TableInv'
  <1>1. UNCHANGED vars /\ UNCHANGED rows
    BY DEF Crash
  <1>2. PassShape'
    BY CrashRests
  <1>3. RowsFollow /\ SpaceInv' /\ ChainFills' /\ UNCHANGED matchState
    BY <1>1, ChainRests, RowsStay
  <1>4. ASSUME NEW w \in Passes, NEW p, p = pass'[w] PROVE GoodPass(p)'
    <2>1. PICK pc \in {"idle", "done"} : p = [Idle EXCEPT !.pc = pc]
      BY <1>4 DEF Crash
    <2>2. p.pc \in {"idle", "done"} /\ p.queue = <<>>
      BY <2>1 DEF Idle
    <2>3. <<>> \in Seq(Item) /\ DOMAIN <<>> = {}
      BY EmptySeq
    <2> QED
      BY <2>2, <2>3 DEF GoodPass, Inside
  <1> QED
    BY <1>2, <1>3, <1>4 DEF TableInv, RowsPosted, RowsFollowChain, RowsFollow

LEMMA TableInit == KeeperInit => TableInv
  <1> SUFFICES ASSUME KeeperInit PROVE TableInv
    OBVIOUS
  <1>1. SpaceInv
    BY SpaceInit DEF KeeperInit
  <1>2. ChainFills
    BY DEF KeeperInit, Init, ChainFills, AbsentOrder, AbsentMatch, Matches
  <1>3. rows = <<>> /\ <<>> \in Seq(TableRow) /\ DOMAIN <<>> = {}
    BY EmptySeq DEF KeeperInit
  <1>4. pass = [w \in Passes |-> Idle]
    BY DEF KeeperInit
  <1>5. Idle = [Idle EXCEPT !.pc = "idle"]
    BY DEF Idle
  <1>6. IsRecord(Idle) /\ GoodPass(Idle)
    BY <1>5, IdleGood
  <1>7. PassShape /\ \A w \in Passes : GoodPass(pass[w])
    BY <1>4, <1>6 DEF PassShape
  <1> QED
    BY <1>1, <1>2, <1>3, <1>7 DEF TableInv, RowsPosted, RowsFollowChain

\* Every step of the keeper is a step of the program, or none.
LEMMA KeeperChain ==
    ASSUME TableInv, [KeeperNext]_kvars
    PROVE  ChainStep
  <1>1. ASSUME NEW w \in Passes, Validate(w) \/ Buyer(w) \/ Seller(w) \/ LandsUnseen(w)
        PROVE  ChainStep
    <2>1. /\ pass[w].pc \in Inside
          /\ TxValidate(w) \/ TxBuyer(w) \/ TxSeller(w)
      BY <1>1 DEF Validate, Buyer, Seller, LandsUnseen, At, Inside
    <2> QED
      BY <2>1, TxChain
  <1>2. ASSUME NEW w \in Passes, PassStep(w)
        PROVE  Validate(w) \/ Buyer(w) \/ Seller(w) \/ UNCHANGED vars
    BY <1>2 DEF PassStep, FindMatches, FindNone, Refresh, SizeFromChain, Inspect,
                ValidateRejected, Escrow, BuyerRejected, Check, SellerRejected, ReadRows,
                SaveBuy, SaveSell
  <1>3. ASSUME Faults
        PROVE  (\E w \in Passes : LandsUnseen(w)) \/ UNCHANGED vars
    BY <1>3 DEF Faults, SizeFromRows, CallFails, AccountUnseen, Crash
  <1>4. ASSUME \/ \E k \in OrderKeys : PostOrder(k)
               \/ \E i \in DOMAIN rows : SettlePlacement(i) \/ CancelRow(i)
               \/ \E w \in Requests : RequestMatch(w)
        PROVE  UNCHANGED vars
    BY <1>4 DEF PostOrder, SettlePlacement, CancelRow, RequestMatch
  <1>5. UNCHANGED kvars => UNCHANGED vars
    BY DEF kvars
  <1> QED
    BY <1>1, <1>2, <1>3, <1>4, <1>5, UsersChain DEF KeeperNext, ChainStep

LEMMA TableStep ==
    ASSUME TableInv, [KeeperNext]_kvars
    PROVE  TableInv'
  <1>1. CASE UNCHANGED kvars
    <2>1. UNCHANGED vars /\ UNCHANGED rows /\ UNCHANGED pass
      BY <1>1 DEF kvars, backend
    <2> QED
      BY <2>1, ChainRests, RowsStay, RestKept
  <1>2. CASE Faults
    BY <1>2, KeptByPass, KeptByCrash DEF Faults
  <1> QED
    BY <1>1, <1>2, KeptByPass, KeptByPost, KeptByRequest, KeptByStatus, KeptByUsers DEF KeeperNext

LEMMA TableInvariant == KeeperSpec => []TableInv
  BY TableInit, TableStep, PTL DEF KeeperSpec

\* No row says that an order was filled before the chain does, whatever passes,
\* placements and cancellations read before they write, if no two orders share
\* an id.
THEOREM RowsNeverAhead ==
    ASSUME DistinctIds
    PROVE  KeeperSpec => []RowsFollowChain
  <1>1. TableInv => RowsFollowChain
    BY DEF TableInv
  <1> QED
    BY <1>1, TableInvariant, PTL

\* Whatever matches the keeper finds, in rows that are out of date, and however
\* its calls fail, the shares of the open sell orders stay in their escrows and
\* the vaults keep covering the sets, the initial collateral and the trades
\* whose seller half is open.
THEOREM KeeperKeepsCustody == KeeperSpec => [](SellCustody /\ Backing)
  <1>1. KeeperInit => Backing
    BY BackingInit DEF KeeperInit
  <1>2. TableInv /\ Backing /\ [KeeperNext]_kvars => Backing'
    <2> SUFFICES ASSUME TableInv, Backing, [KeeperNext]_kvars PROVE Backing'
      OBVIOUS
    <2>1. ChainStep /\ SpaceInv
      BY KeeperChain DEF TableInv
    <2>2. CASE \E b, s \in OrderKeys, p, q \in Nat : ValidateMatch(b, s, p, q)
      BY <2>2 DEF ValidateMatch, Backing, history
    <2> QED
      BY <2>1, <2>2, BackingStep DEF ChainStep
  <1>3. TableInv => SellCustody
    BY DEF TableInv, SpaceInv, BookInv
  <1> QED
    BY <1>1, <1>2, <1>3, TableInvariant, PTL DEF KeeperSpec
=============================================================================
