-------------------------- MODULE OrderBookProofs ---------------------------
(***************************************************************************)
(* The order book of the backend, over any rows with prices: a side of the *)
(* book can be sorted, and matchOrders gives every buy order with a        *)
(* partner the best of its partners.                                       *)
(***************************************************************************)
EXTENDS OrderBook, MathProofs

(***************************************************************************)
(* The book sorted: the rows of one side can be put in order, and the      *)
(* first of them is better than all others.                                *)
(***************************************************************************)
OneSide(rs, S) ==
    /\ IsFiniteSet(S) /\ \A i \in S : i \in Int /\ rs[i].price \in Int
    /\ (\A i \in S : rs[i].side = "buy") \/ (\A i \in S : rs[i].side = "sell")

InOrder(rs, S, f) ==
    /\ f \in [1..Cardinality(S) -> S]
    /\ \A m, n \in 1..Cardinality(S) : m < n => Better(rs, f[m], f[n])

\* On one side of the book `better' is a strict total order.
LEMMA BetterOrders ==
    ASSUME NEW rs, NEW S, OneSide(rs, S)
    PROVE  /\ \A i \in S : ~Better(rs, i, i)
           /\ \A i, j \in S : i # j => Better(rs, i, j) \/ Better(rs, j, i)
           /\ \A i, j, k \in S : Better(rs, i, j) /\ Better(rs, j, k) => Better(rs, i, k)
  <1>1. CASE \A i \in S : rs[i].side = "buy"
    BY <1>1 DEF OneSide, Better
  <1>2. CASE \A i \in S : rs[i].side = "sell"
    BY <1>2 DEF OneSide, Better
  <1> QED
    BY <1>1, <1>2 DEF OneSide

\* One row comes last.
LEMMA LastRow ==
    ASSUME NEW rs, NEW S, OneSide(rs, S), S # {}
    PROVE  \E w \in S : \A i \in S \ {w} : Better(rs, i, w)
  <1> DEFINE Bad == {T \in SUBSET S : T # {} /\ ~\E w \in T : \A i \in T \ {w} : Better(rs, i, w)}
  <1> SUFFICES ASSUME Bad # {} PROVE FALSE
    OBVIOUS
  <1>1. PICK T \in Bad : \A U \in SUBSET T : U # T => U \notin Bad
    <2>1. Bad \in SUBSET (SUBSET S) /\ IsFiniteSet(S)
      BY DEF OneSide
    <2> HIDE DEF Bad
    <2> QED
      BY <2>1, LeastSubset
  <1>2. PICK x \in T : TRUE
    BY <1>1
  <1>3. T \subseteq S /\ ~\E w \in T : \A i \in T \ {w} : Better(rs, i, w)
    BY <1>1
  <1>4. T \ {x} # {}
    BY <1>2, <1>3
  <1>5. PICK w \in T \ {x} : \A i \in (T \ {x}) \ {w} : Better(rs, i, w)
    <2>1. T \ {x} \in SUBSET T /\ T \ {x} # T
      BY <1>2
    <2> HIDE DEF Bad
    <2>2. T \ {x} \notin Bad
      BY <1>1, <2>1
    <2> USE DEF Bad
    <2> QED
      BY <1>3, <1>4, <2>1, <2>2
  <1>6. Better(rs, x, w) \/ Better(rs, w, x)
    BY <1>2, <1>3, <1>5, BetterOrders
  <1>7. CASE Better(rs, x, w)
    BY <1>2, <1>3, <1>5, <1>7
  <1>8. CASE Better(rs, w, x)
    <2>1. \A i \in T \ {x} : Better(rs, i, x)
      BY <1>2, <1>3, <1>5, <1>8, BetterOrders
    <2> QED
      BY <1>2, <1>3, <2>1
  <1> QED
    BY <1>6, <1>7, <1>8

\* The rows can be sorted.
LEMMA CanSort ==
    ASSUME NEW rs, NEW S, OneSide(rs, S)
    PROVE  \E f : InOrder(rs, S, f)
  <1> DEFINE Bad == {T \in SUBSET S : ~\E f : InOrder(rs, T, f)}
  <1> SUFFICES ASSUME Bad # {} PROVE FALSE
    OBVIOUS
  <1>1. PICK T \in Bad : \A U \in SUBSET T : U # T => U \notin Bad
    <2>1. Bad \in SUBSET (SUBSET S) /\ IsFiniteSet(S)
      BY DEF OneSide
    <2> HIDE DEF Bad
    <2> QED
      BY <2>1, LeastSubset
  <1>2. T \subseteq S /\ IsFiniteSet(T) /\ ~\E f : InOrder(rs, T, f)
    <2>1. T \subseteq S /\ ~\E f : InOrder(rs, T, f)
      BY <1>1
    <2> QED
      BY <2>1, FS_Subset DEF OneSide
  <1>3. CASE T = {}
    <2>1. Cardinality(T) = 0
      BY <1>3, FS_EmptySet
    <2>2. 1..Cardinality(T) = {}
      BY <2>1
    <2>3. [n \in {} |-> 0] \in [1..Cardinality(T) -> T]
      BY <2>2
    <2>4. InOrder(rs, T, [n \in {} |-> 0])
      BY <2>2, <2>3 DEF InOrder
    <2> QED
      BY <1>2, <2>4
  <1>4. CASE T # {}
    <2>1. OneSide(rs, T)
      BY <1>2 DEF OneSide
    <2>2. PICK w \in T : \A i \in T \ {w} : Better(rs, i, w)
      BY <1>4, <2>1, LastRow
    <2>3. PICK c : c = Cardinality(T \ {w})
      OBVIOUS
    <2>4. c \in Nat /\ Cardinality(T) = c + 1
      <3>1. Cardinality(T \ {w}) = Cardinality(T) - 1 /\ Cardinality(T) \in Nat /\ IsFiniteSet(T \ {w})
        BY <1>2, <2>2, FS_RemoveElement, FS_CardinalityType
      <3>2. Cardinality(T \ {w}) \in Nat
        BY <3>1, FS_CardinalityType
      <3> QED
        BY <2>3, <3>1, <3>2
    <2>5. PICK g : InOrder(rs, T \ {w}, g)
      BY <1>1, <1>2, <2>2
    <2>6. PICK f : f = [n \in 1..(c + 1) |-> IF n = c + 1 THEN w ELSE g[n]]
      OBVIOUS
    <2>7. \A n \in 1..c : g[n] \in T \ {w} /\ f[n] = g[n]
      <3>1. g \in [1..c -> T \ {w}]
        BY <2>3, <2>5 DEF InOrder
      <3>2. \A n \in 1..c : n \in 1..(c + 1) /\ n # c + 1
        BY <2>4
      <3>3. \A n \in 1..c : f[n] = g[n]
        BY <2>6, <3>2
      <3> QED
        BY <3>1, <3>3
    <2>8. f[c + 1] = w
      BY <2>4, <2>6
    <2>9. f \in [1..(c + 1) -> T]
      <3>1. \A n \in 1..(c + 1) : n \in 1..c \/ n = c + 1
        BY <2>4
      <3>2. \A n \in 1..(c + 1) : f[n] \in T
        BY <2>2, <2>7, <2>8, <3>1
      <3> QED
        BY <2>6, <3>2
    <2>10. ASSUME NEW m \in 1..(c + 1), NEW n \in 1..(c + 1), m < n
           PROVE  Better(rs, f[m], f[n])
      <3>1. CASE n = c + 1
        BY <2>2, <2>4, <2>7, <2>8, <2>10, <3>1
      <3>2. CASE n # c + 1
        <4>1. m \in 1..c /\ n \in 1..c
          BY <2>4, <2>10, <3>2
        <4> QED
          BY <2>3, <2>5, <2>7, <2>10, <4>1 DEF InOrder
      <3> QED
        BY <3>1, <3>2
    <2>11. InOrder(rs, T, f)
      BY <2>4, <2>9, <2>10 DEF InOrder
    <2> QED
      BY <1>2, <2>11
  <1> QED
    BY <1>3, <1>4

\* What the choice gives: every row once, the best one first.
LEMMA SortedIs ==
    ASSUME NEW rs, NEW S, OneSide(rs, S)
    PROVE  /\ Sorted(rs, S) \in [1..Cardinality(S) -> S]
           /\ \A i \in S : \E n \in 1..Cardinality(S) : Sorted(rs, S)[n] = i
           /\ S # {} => /\ Sorted(rs, S)[1] \in S
                        /\ \A i \in S : i = Sorted(rs, S)[1] \/ Better(rs, Sorted(rs, S)[1], i)
  <1>1. PICK c : c = Cardinality(S)
    OBVIOUS
  <1>2. c \in Nat /\ IsFiniteSet(S)
    BY <1>1, FS_CardinalityType DEF OneSide
  <1>3. PICK f : f = Sorted(rs, S)
    OBVIOUS
  <1>4. f \in [1..c -> S] /\ \A m, n \in 1..c : m < n => Better(rs, f[m], f[n])
    <2>1. \E g \in [1..Cardinality(S) -> S] :
            \A m, n \in 1..Cardinality(S) : m < n => Better(rs, g[m], g[n])
      BY CanSort DEF InOrder
    <2> QED
      BY <1>1, <1>3, <2>1 DEF Sorted
  <1>5. f \in Injection(1..c, S)
    <2>1. ASSUME NEW m \in 1..c, NEW n \in 1..c, f[m] = f[n] PROVE m = n
      <3>1. \A i \in S : ~Better(rs, i, i)
        BY BetterOrders
      <3>2. ~(m < n) /\ ~(n < m)
        BY <1>4, <2>1, <3>1
      <3> QED
        BY <1>2, <3>2
    <2> QED
      BY <1>4, <2>1 DEF Injection, IsInjective
  <1>6. f \in Surjection(1..c, S)
    <2>1. Cardinality(1..c) = c
      BY <1>2, FS_Interval
    <2> QED
      BY <1>1, <1>2, <1>5, <2>1, FS_Injection
  <1>7. \A i \in S : \E n \in 1..c : f[n] = i
    BY <1>6 DEF Surjection
  <1>8. ASSUME S # {}
        PROVE  f[1] \in S /\ \A i \in S : i = f[1] \/ Better(rs, f[1], i)
    <2>1. c >= 1
      <3>1. c # 0
        BY <1>1, <1>2, <1>8, FS_EmptySet
      <3> QED
        BY <1>2, <3>1
    <2>2. 1 \in 1..c /\ \A n \in 1..c : n = 1 \/ 1 < n
      BY <1>2, <2>1
    <2> QED
      BY <1>4, <1>7, <2>2
  <1> QED
    BY <1>1, <1>3, <1>4, <1>7, <1>8

-----------------------------------------------------------------------------
(***************************************************************************)
(* matchOrders.                                                            *)
(***************************************************************************)
Priced(rs) == \E n \in Nat : DOMAIN rs = 1..n /\ \A i \in 1..n : rs[i].price \in Int

\* Any part of one side of the book can be sorted.
LEMMA SideSorts ==
    ASSUME NEW rs, Priced(rs), NEW side \in {"buy", "sell"}, NEW S, S \subseteq Rows(rs, side)
    PROVE  OneSide(rs, S)
  <1>1. PICK n \in Nat : DOMAIN rs = 1..n /\ \A i \in 1..n : rs[i].price \in Int
    BY DEF Priced
  <1>2. S \subseteq 1..n /\ \A i \in S : rs[i].side = side
    BY <1>1 DEF Rows
  <1>3. IsFiniteSet(S)
    <2>1. IsFiniteSet(1..n) /\ S \in SUBSET (1..n)
      BY <1>2, FS_Interval
    <2> QED
      BY <2>1, FS_Subset
  <1>4. ASSUME NEW i \in S PROVE i \in Int /\ rs[i].price \in Int
    <2>1. i \in 1..n
      BY <1>2
    <2> QED
      BY <1>1, <2>1
  <1> QED
    BY <1>2, <1>3, <1>4 DEF OneSide

\* Every buy order with something left and a partner is matched once, with the
\* best of its partners; nothing else is.
MatchedBest(rs) ==
    /\ \A n \in DOMAIN MatchOrders(rs) :
         LET m == MatchOrders(rs)[n] IN
         /\ m.buy \in Rows(rs, "buy") /\ RemainingSize(rs[m.buy]) > 0
         /\ m.sell \in Partners(rs, m.buy)
         /\ m.price = MatchPrice(rs[m.buy], rs[m.sell])
         /\ \A j \in Partners(rs, m.buy) : j = m.sell \/ Better(rs, m.sell, j)
    /\ \A i \in Rows(rs, "buy") :
         RemainingSize(rs[i]) > 0 /\ Partners(rs, i) # {} =>
         \E n \in DOMAIN MatchOrders(rs) : MatchOrders(rs)[n].buy = i

LEMMA MatchesFound ==
    ASSUME NEW rs, Priced(rs)
    PROVE  MatchedBest(rs)
  <1>1. PICK S : S = {i \in Rows(rs, "buy") : RemainingSize(rs[i]) > 0 /\ Partners(rs, i) # {}}
    OBVIOUS
  <1>2. PICK buys : buys = Sorted(rs, S)
    OBVIOUS
  <1>3. PICK c : c = Cardinality(S)
    OBVIOUS
  <1>4. /\ buys \in [1..c -> S]
        /\ \A i \in S : \E n \in 1..c : buys[n] = i
    <2>1. OneSide(rs, S)
      BY <1>1, SideSorts
    <2> QED
      BY <1>2, <1>3, <2>1, SortedIs
  <1>5. PICK found : found = MatchOrders(rs)
    OBVIOUS
  <1>6. found = [n \in DOMAIN buys |->
                   [buy |-> buys[n], sell |-> Sorted(rs, Partners(rs, buys[n]))[1],
                    price |-> MatchPrice(rs[buys[n]], rs[Sorted(rs, Partners(rs, buys[n]))[1]])]]
    BY <1>1, <1>2, <1>5 DEF MatchOrders
  <1>7. ASSUME NEW n \in 1..c
        PROVE  LET m == found[n] IN
               /\ m.buy = buys[n] /\ m.buy \in S
               /\ m.sell \in Partners(rs, m.buy)
               /\ m.price = MatchPrice(rs[m.buy], rs[m.sell])
               /\ \A j \in Partners(rs, m.buy) : j = m.sell \/ Better(rs, m.sell, j)
    <2>1. PICK i, P, s : i = buys[n] /\ P = Partners(rs, i) /\ s = Sorted(rs, P)[1]
      OBVIOUS
    <2>2. i \in S /\ P # {}
      BY <1>1, <1>4, <2>1
    <2>3. OneSide(rs, P)
      <3>1. P \subseteq Rows(rs, "sell")
        BY <2>1 DEF Partners
      <3> QED
        BY <3>1, SideSorts
    <2>4. s \in P /\ \A j \in P : j = s \/ Better(rs, s, j)
      BY <2>1, <2>2, <2>3, SortedIs
    <2>5. found[n] = [buy |-> i, sell |-> s, price |-> MatchPrice(rs[i], rs[s])]
      BY <1>4, <1>6, <2>1
    <2> QED
      BY <2>1, <2>2, <2>4, <2>5
  <1>8. DOMAIN found = 1..c
    BY <1>4, <1>6
  <1>9. ASSUME NEW n \in DOMAIN found
        PROVE  LET m == found[n] IN
               /\ m.buy \in Rows(rs, "buy") /\ RemainingSize(rs[m.buy]) > 0
               /\ m.sell \in Partners(rs, m.buy)
               /\ m.price = MatchPrice(rs[m.buy], rs[m.sell])
               /\ \A j \in Partners(rs, m.buy) : j = m.sell \/ Better(rs, m.sell, j)
    <2>1. PICK i : i = found[n].buy
      OBVIOUS
    <2>2. i \in S
      BY <1>7, <1>8, <2>1
    <2>3. i \in Rows(rs, "buy") /\ RemainingSize(rs[i]) > 0
      BY <1>1, <2>2
    <2> QED
      BY <1>7, <1>8, <2>1, <2>3
  <1>10. ASSUME NEW i \in Rows(rs, "buy"), RemainingSize(rs[i]) > 0, Partners(rs, i) # {}
         PROVE  \E n \in DOMAIN found : found[n].buy = i
    <2>1. i \in S
      BY <1>1, <1>10
    <2> QED
      BY <1>4, <1>7, <1>8, <2>1
  <1> QED
    BY <1>5, <1>9, <1>10 DEF MatchedBest

\* The matches come as a sequence.
LEMMA MatchesCounted ==
    ASSUME NEW rs, Priced(rs)
    PROVE  \E c \in Nat : DOMAIN MatchOrders(rs) = 1..c
  <1>1. PICK S : S = {i \in Rows(rs, "buy") : RemainingSize(rs[i]) > 0 /\ Partners(rs, i) # {}}
    OBVIOUS
  <1>2. OneSide(rs, S)
    BY <1>1, SideSorts
  <1>3. PICK buys, c : buys = Sorted(rs, S) /\ c = Cardinality(S)
    OBVIOUS
  <1>4. c \in Nat /\ DOMAIN buys = 1..c
    <2>1. buys \in [1..c -> S]
      BY <1>2, <1>3, SortedIs
    <2> QED
      BY <1>2, <1>3, <2>1, FS_CardinalityType DEF OneSide
  <1>5. DOMAIN MatchOrders(rs) = DOMAIN buys
    BY <1>1, <1>3 DEF MatchOrders
  <1> QED
    BY <1>4, <1>5
=============================================================================
