----------------------------- MODULE MathProofs -----------------------------
(***************************************************************************)
(* Lemmas on the arithmetic of SpaceMath: the results of the formulas are  *)
(* natural numbers, and a part of an amount is never more than the amount. *)
(* Then the sums over finite sets that the ledgers are made of: what adds  *)
(* or changes one term changes the sum by it.                              *)
(***************************************************************************)
EXTENDS SpaceMath, Functions, FiniteSets, FiniteSetTheorems, WellFoundedInduction, TLAPS

\* Truncating division stays in the natural numbers.
LEMMA DivNat ==
    ASSUME NEW a \in Nat, NEW b \in Nat \ {0}
    PROVE  a \div b \in Nat
  OBVIOUS

\* It undoes a multiplication, or falls short of it.
LEMMA DivBound ==
    ASSUME NEW n \in Nat, NEW a \in Nat, NEW b \in Nat \ {0}, n <= a * b
    PROVE  n \div b <= a
  OBVIOUS

\* Natural numbers are closed under multiplication.
LEMMA TimesNat ==
    ASSUME NEW a \in Nat, NEW b \in Nat
    PROVE  a * b \in Nat
  OBVIOUS

\* Comparisons survive, and are decided by, a positive factor.
LEMMA TimesMono ==
    ASSUME NEW a \in Int, NEW b \in Int, NEW c \in Nat \ {0}
    PROVE  (a <= b) <=> (a * c <= b * c)
  OBVIOUS

\* saturating_sub on natural numbers: no less than zero, no more than the first.
LEMMA SatSubNat ==
    ASSUME NEW a \in Nat, NEW b \in Nat
    PROVE  SatSub(a, b) \in Nat /\ SatSub(a, b) <= a
  BY DEF SatSub

\* The value of shares in the quote token.
LEMMA QuoteValueNat ==
    ASSUME NEW shares \in Nat, NEW price \in Nat
    PROVE  QuoteValue(shares, price) \in Nat
  <1>1. shares * price \in Nat
    BY TimesNat
  <1>2. (shares * price) \div BASIS_POINTS \in Nat
    BY <1>1, DivNat DEF BASIS_POINTS
  <1> QED
    BY <1>2, TimesNat, QuoteScaleAssumption DEF QuoteValue

\* A fraction of an amount in basis points is a natural number.
LEMMA BpsOfNat ==
    ASSUME NEW amount \in Nat, NEW bps \in Nat
    PROVE  BpsOf(amount, bps) \in Nat
  <1>1. amount * bps \in Nat
    BY TimesNat
  <1> QED
    BY <1>1, DivNat DEF BpsOf, BASIS_POINTS

\* A ratio of two natural numbers is between nothing and the whole.
LEMMA RatioBounds ==
    ASSUME NEW part \in Nat, NEW whole \in Nat
    PROVE  RatioBps(part, whole) \in 0..BASIS_POINTS
  <1>1. CASE part >= whole
    BY <1>1 DEF RatioBps, BASIS_POINTS
  <1>2. CASE part < whole
    <2>1. part * BASIS_POINTS <= whole * BASIS_POINTS
      BY <1>2 DEF BASIS_POINTS
    <2>2. (part * BASIS_POINTS) \div whole \in Nat
      BY <1>2, DivNat, TimesNat DEF BASIS_POINTS
    <2>3. (part * BASIS_POINTS) \div whole <= BASIS_POINTS
      BY <1>2, <2>1 DEF BASIS_POINTS
    <2> QED
      BY <1>2, <2>2, <2>3 DEF RatioBps, BASIS_POINTS
  <1> QED
    BY <1>1, <1>2

\* The same ratio as a natural number.
LEMMA RatioNat ==
    ASSUME NEW part \in Nat, NEW whole \in Nat
    PROVE  RatioBps(part, whole) \in Nat
  <1>1. RatioBps(part, whole) \in 0..BASIS_POINTS
    BY RatioBounds
  <1>2. \A r \in 0..BASIS_POINTS : r \in Nat
    BY DEF BASIS_POINTS
  <1> QED
    BY <1>1, <1>2

\* The part of an amount that a ratio takes is at most the amount.
LEMMA BpsOfBounds ==
    ASSUME NEW amount \in Nat, NEW bps \in 0..BASIS_POINTS
    PROVE  BpsOf(amount, bps) \in Nat /\ BpsOf(amount, bps) <= amount
  <1>1. bps \in Nat /\ BASIS_POINTS \in Nat \ {0}
    BY DEF BASIS_POINTS
  <1>2. amount * bps \in Nat /\ amount * bps <= amount * BASIS_POINTS
    BY <1>1, TimesNat DEF BASIS_POINTS
  <1>3. (amount * bps) \div BASIS_POINTS <= amount
    BY <1>1, <1>2, DivBound
  <1> QED
    BY <1>1, <1>3, BpsOfNat DEF BpsOf

\* What a fill uses of an order's margin.
LEMMA MarginUsedNat ==
    ASSUME NEW fill \in Nat, NEW margin \in Nat, NEW quantity \in Nat \ {0}
    PROVE  MarginUsed(fill, margin, quantity) \in Nat
  <1>1. fill * margin \in Nat
    BY TimesNat
  <1> QED
    BY <1>1, DivNat DEF MarginUsed

\* The margin that place_buy_order demands; the leverage is never zero.
LEMMA RequiredMarginNat ==
    ASSUME NEW quantity \in Nat, NEW price \in Nat, NEW leverage \in Nat \ {0}
    PROVE  RequiredMargin(quantity, price, leverage) \in Nat
  <1> DEFINE notional == QuoteValue(quantity, price)
  <1>1. notional \in Nat
    BY QuoteValueNat
  <1>2. notional \div leverage \in Nat
    BY <1>1, DivNat
  <1>3. BpsOf(notional, INITIAL_MARGIN_BPS) \in Nat
    <2>1. INITIAL_MARGIN_BPS \in Nat
      BY DEF INITIAL_MARGIN_BPS
    <2> QED
      BY <1>1, <2>1, BpsOfNat
  <1> QED
    BY <1>2, <1>3 DEF RequiredMargin, Greater

\* The fee of a sale is a natural number of basis points.
LEMMA SellFeeNat ==
    ASSUME NEW price \in Nat
    PROVE  SellFee(price) \in Nat
  <1> DEFINE p == Lesser(price, BASIS_POINTS)
             distance == IF p > 5000 THEN p - 5000 ELSE 5000 - p
             sigma2 == (SELL_FEE_SIGMA * SELL_FEE_SIGMA) \div 100
             x == Lesser(((distance * distance) \div sigma2) \div 200, 200)
             x2 == (x * x) \div 100
             cubic == ((x2 * x) \div 100) \div 600
             gaussian == IF x < 50 THEN SatSub(100, x) + x2 \div 200
                                   ELSE SatSub(100, x) + SatSub(x2 \div 200, cubic)
  <1>1. distance \in Nat
    BY DEF Lesser, BASIS_POINTS
  <1>2. sigma2 \in Nat \ {0}
    BY DEF SELL_FEE_SIGMA
  <1> HIDE DEF distance, sigma2
  <1>3. (distance * distance) \div sigma2 \in Nat
    BY <1>1, <1>2, TimesNat, DivNat
  <1>4. x \in Nat
    BY <1>3, DivNat DEF Lesser
  <1> HIDE DEF x
  <1>5. x2 \in Nat
    BY <1>4, TimesNat, DivNat
  <1> HIDE DEF x2
  <1>6. x2 \div 200 \in Nat /\ (x2 * x) \div 100 \in Nat
    BY <1>4, <1>5, TimesNat, DivNat
  <1>7. cubic \in Nat
    BY <1>6, DivNat
  <1> HIDE DEF cubic
  <1>8. SatSub(100, x) \in Nat /\ SatSub(x2 \div 200, cubic) \in Nat
    BY <1>4, <1>6, <1>7, SatSubNat
  <1>9. gaussian \in Nat
    BY <1>6, <1>8
  <1> HIDE DEF gaussian
  <1>10. ((SELL_FEE_PEAK_BPS - SELL_FEE_MIN_BPS) * Lesser(gaussian, 100)) \div 100 \in Nat
    BY <1>9 DEF Lesser, SELL_FEE_PEAK_BPS, SELL_FEE_MIN_BPS
  <1>11. SellFee(price) = SELL_FEE_MIN_BPS
           + ((SELL_FEE_PEAK_BPS - SELL_FEE_MIN_BPS) * Lesser(gaussian, 100)) \div 100
    BY DEF SellFee, gaussian, cubic, x2, x, sigma2, distance
  <1> QED
    BY <1>10, <1>11 DEF SELL_FEE_MIN_BPS

-----------------------------------------------------------------------------
(***************************************************************************)
(* Sums over finite sets.  SumFunctionOnSet is defined by recursion over    *)
(* the subsets of a set; that the recursion has a solution, and what it    *)
(* gives, is proved with smallest counterexamples, because an induction    *)
(* rule with an operator parameter cannot be instantiated.                 *)
(***************************************************************************)
\* Induction over the natural numbers in a form without an operator parameter:
\* a set of counterexamples has a least one.
LEMMA LeastNumber ==
    ASSUME NEW T \in SUBSET Nat, T # {}
    PROVE  \E n \in T : \A m \in T : n <= m
  <1> DEFINE R == {ss \in Nat \X Nat : ss[1] < ss[2]}
  <1>1. IsWellFoundedOn(R, Nat)
    BY NatLessThanWellFounded DEF OpToRel
  <1> HIDE DEF R
  <1>2. PICK n \in T : \A m \in T : ~ (<<m, n>> \in R)
    BY <1>1, WFMin
  <1>3. \A m \in T : ~ (m < n)
    BY <1>2 DEF R
  <1> QED
    BY <1>3

\* The same for the subsets of a finite set: counterexamples have a smallest one.
LEMMA LeastSubset ==
    ASSUME NEW S, IsFiniteSet(S), NEW B \in SUBSET (SUBSET S), B # {}
    PROVE  \E T \in B : \A U \in SUBSET T : U # T => U \notin B
  <1>1. IsWellFoundedOn(StrictSubsetOrdering(S), SUBSET S)
    BY FS_StrictSubsetOrderingWellFounded, FS_FiniteSubsetsOfFinite
  <1>2. PICK T \in B : \A U \in B : ~ (<<U, T>> \in StrictSubsetOrdering(S))
    BY <1>1, WFMin
  <1>3. ASSUME NEW U \in SUBSET T, U # T, U \in B PROVE FALSE
    BY <1>2, <1>3 DEF StrictSubsetOrdering
  <1> QED
    BY <1>3

\* The element that a sum takes first.
SumFirst(S) == CHOOSE x \in S : TRUE

\* The recursion equation of a sum over the subsets of S.
SumTable(f, S, table) ==
    table =
      [T \in SUBSET S |-> IF T = {} THEN 0
         ELSE f[SumFirst(T)] + table[T \ {SumFirst(T)}]]

LEMMA SumDef ==
    ASSUME NEW f, NEW S
    PROVE  SumFunctionOnSet(f, S) = (CHOOSE table : SumTable(f, S, table))[S]
  BY DEF SumFunctionOnSet, FoldFunctionOnSet, MapThenFoldSet, SumTable, SumFirst

\* The equation has a solution.
LEMMA SumTableExists ==
    ASSUME NEW f, NEW S, IsFiniteSet(S)
    PROVE  \E table : SumTable(f, S, table)
  <1> DEFINE Eq(g, T) == IF T = {} THEN 0 ELSE f[SumFirst(T)] + g[T \ {SumFirst(T)}]
             Upto(n) == {T \in SUBSET S : Cardinality(T) <= n}
             Good(n) == \E g : \A T \in Upto(n) : g[T] = Eq(g, T)
             Bad == {n \in Nat : ~Good(n)}
  <1>1. \A T \in SUBSET S : /\ IsFiniteSet(T) /\ Cardinality(T) \in Nat
                            /\ Cardinality(T) <= Cardinality(S)
    BY FS_Subset, FS_CardinalityType
  <1>2. \A T \in SUBSET S : T # {} => /\ SumFirst(T) \in T
                                      /\ T \ {SumFirst(T)} \in SUBSET S
                                      /\ Cardinality(T \ {SumFirst(T)}) = Cardinality(T) - 1
    BY <1>1, FS_RemoveElement DEF SumFirst
  <1>3. Good(0)
    <2>1. \A T \in Upto(0) : T = {}
      BY <1>1, FS_EmptySet
    <2>2. \A T \in Upto(0) : [T2 \in SUBSET S |-> 0][T] = Eq([T2 \in SUBSET S |-> 0], T)
      BY <2>1
    <2> QED
      BY <2>2
  <1>4. ASSUME NEW n \in Nat, Good(n) PROVE Good(n + 1)
    <2>1. PICK h : \A T \in Upto(n) : h[T] = Eq(h, T)
      BY <1>4
    <2> DEFINE g == [T \in SUBSET S |-> Eq(h, T)]
    <2>2. ASSUME NEW T \in Upto(n + 1) PROVE g[T] = Eq(g, T)
      <3>1. CASE T = {}
        BY <3>1
      <3>2. CASE T # {}
        <4> DEFINE rest == T \ {SumFirst(T)}
        <4>1. rest \in Upto(n)
          BY <1>1, <1>2, <3>2
        <4>2. g[rest] = h[rest]
          BY <2>1, <4>1
        <4>3. g[T] = Eq(h, T)
          OBVIOUS
        <4> HIDE DEF g
        <4> QED
          BY <3>2, <4>2, <4>3
      <3> QED
        BY <3>1, <3>2
    <2> HIDE DEF g
    <2> QED
      BY <2>2
  <1>5. Bad = {}
    <2> HIDE DEF Good
    <2> SUFFICES ASSUME Bad # {} PROVE FALSE
      OBVIOUS
    <2>1. PICK n \in Bad : \A m \in Bad : n <= m
      BY LeastNumber
    <2>2. n # 0 /\ n - 1 \in Nat /\ n - 1 \notin Bad
      BY <1>3, <2>1
    <2>3. Good((n - 1) + 1)
      BY <1>4, <2>2
    <2> QED
      BY <2>1, <2>2, <2>3
  <1>6. Good(Cardinality(S))
    <2> HIDE DEF Good
    <2> QED
      BY <1>5, FS_CardinalityType
  <1>7. PICK g : \A T \in Upto(Cardinality(S)) : g[T] = Eq(g, T)
    BY <1>6
  <1>8. \A T \in SUBSET S : g[T] = Eq(g, T)
    BY <1>1, <1>7
  <1> DEFINE table == [T \in SUBSET S |-> g[T]]
  <1>9. \A T \in SUBSET S : table[T] = Eq(table, T)
    BY <1>2, <1>8
  <1>10. table = [T \in SUBSET S |-> Eq(table, T)]
    BY <1>9
  <1> QED
    BY <1>10 DEF SumTable

\* Two solutions agree wherever both are defined.
LEMMA SumTablesAgree ==
    ASSUME NEW f, NEW S, IsFiniteSet(S), NEW T \in SUBSET S,
           NEW g, SumTable(f, S, g), NEW h, SumTable(f, T, h)
    PROVE  g[T] = h[T]
  <1> DEFINE Bad == {U \in SUBSET T : g[U] # h[U]}
  <1>1. \A U \in SUBSET T :
          /\ g[U] = IF U = {} THEN 0 ELSE f[SumFirst(U)] + g[U \ {SumFirst(U)}]
          /\ h[U] = IF U = {} THEN 0 ELSE f[SumFirst(U)] + h[U \ {SumFirst(U)}]
    BY DEF SumTable
  <1>2. Bad = {}
    <2> SUFFICES ASSUME Bad # {} PROVE FALSE
      OBVIOUS
    <2>1. IsFiniteSet(T) /\ Bad \in SUBSET (SUBSET T)
      BY FS_Subset
    <2>2. PICK U \in Bad : \A V \in SUBSET U : V # U => V \notin Bad
      <3> HIDE DEF Bad
      <3> QED
        BY <2>1, LeastSubset
    <2>3. CASE U = {}
      BY <1>1, <2>2, <2>3
    <2>4. CASE U # {}
      <3>1. SumFirst(U) \in U
        BY <2>4 DEF SumFirst
      <3>2. g[U \ {SumFirst(U)}] = h[U \ {SumFirst(U)}]
        BY <2>2, <3>1
      <3> QED
        BY <1>1, <2>2, <2>4, <3>2
    <2> QED
      BY <2>3, <2>4
  <1> QED
    BY <1>2

\* The solution that SumFunctionOnSet stands for.
LEMMA SumTableOf ==
    ASSUME NEW f, NEW S, IsFiniteSet(S)
    PROVE  \E table : SumTable(f, S, table)
                      /\ \A T \in SUBSET S : SumFunctionOnSet(f, T) = table[T]
  <1> DEFINE g == CHOOSE table : SumTable(f, S, table)
  <1>1. SumTable(f, S, g)
    BY SumTableExists
  <1>2. ASSUME NEW T \in SUBSET S PROVE SumFunctionOnSet(f, T) = g[T]
    <2> DEFINE h == CHOOSE table : SumTable(f, T, table)
    <2>1. SumTable(f, T, h)
      BY SumTableExists, FS_Subset
    <2>2. SumFunctionOnSet(f, T) = h[T]
      BY SumDef
    <2> HIDE DEF g, h
    <2> QED
      BY <1>1, <2>1, <2>2, SumTablesAgree
  <1> QED
    BY <1>1, <1>2

\* A sum over nothing, and one over something by its first element.
LEMMA SumUnfolds ==
    ASSUME NEW f, NEW S, IsFiniteSet(S)
    PROVE  SumFunctionOnSet(f, S) =
             IF S = {} THEN 0 ELSE f[SumFirst(S)] + SumFunctionOnSet(f, S \ {SumFirst(S)})
  <1>1. PICK g : SumTable(f, S, g) /\ \A T \in SUBSET S : SumFunctionOnSet(f, T) = g[T]
    BY SumTableOf
  <1>2. g[S] = IF S = {} THEN 0 ELSE f[SumFirst(S)] + g[S \ {SumFirst(S)}]
    BY <1>1 DEF SumTable
  <1> QED
    BY <1>1, <1>2

\* A sum of integers is an integer.
LEMMA SumInt ==
    ASSUME NEW f, NEW S, IsFiniteSet(S), \A x \in S : f[x] \in Int
    PROVE  SumFunctionOnSet(f, S) \in Int
  <1> DEFINE Bad == {T \in SUBSET S : SumFunctionOnSet(f, T) \notin Int}
  <1> SUFFICES ASSUME Bad # {} PROVE FALSE
    OBVIOUS
  <1>1. PICK T \in Bad : \A U \in SUBSET T : U # T => U \notin Bad
    <2>1. Bad \in SUBSET (SUBSET S)
      OBVIOUS
    <2> HIDE DEF Bad
    <2> QED
      BY <2>1, LeastSubset
  <1>2. SumFunctionOnSet(f, T) =
          IF T = {} THEN 0 ELSE f[SumFirst(T)] + SumFunctionOnSet(f, T \ {SumFirst(T)})
    BY FS_Subset, SumUnfolds
  <1>3. T # {} => SumFirst(T) \in T
    BY DEF SumFirst
  <1> QED
    BY <1>1, <1>2, <1>3

\* Any element may be taken out of a sum.
LEMMA SumTakesOut ==
    ASSUME NEW f, NEW S, IsFiniteSet(S), \A x \in S : f[x] \in Int, NEW e \in S
    PROVE  SumFunctionOnSet(f, S) = f[e] + SumFunctionOnSet(f, S \ {e})
  <1> DEFINE Bad == {T \in SUBSET S : \E x \in T :
                       SumFunctionOnSet(f, T) # f[x] + SumFunctionOnSet(f, T \ {x})}
  <1> SUFFICES ASSUME Bad # {} PROVE FALSE
    OBVIOUS
  <1>1. PICK T \in Bad : \A U \in SUBSET T : U # T => U \notin Bad
    <2>1. Bad \in SUBSET (SUBSET S)
      OBVIOUS
    <2> HIDE DEF Bad
    <2> QED
      BY <2>1, LeastSubset
  <1>2. PICK x \in T : SumFunctionOnSet(f, T) # f[x] + SumFunctionOnSet(f, T \ {x})
    BY <1>1
  <1> DEFINE c == SumFirst(T)
  <1>3. c \in T
    BY <1>2 DEF SumFirst
  <1>4. \A U \in SUBSET T : IsFiniteSet(U) /\ SumFunctionOnSet(f, U) \in Int
    BY FS_Subset, SumInt
  <1>5. SumFunctionOnSet(f, T) = f[c] + SumFunctionOnSet(f, T \ {c})
    BY <1>2, <1>4, SumUnfolds
  <1> HIDE DEF c
  <1>6. x # c
    BY <1>2, <1>5
  <1> DEFINE rest == SumFunctionOnSet(f, (T \ {c}) \ {x})
  <1>7. SumFunctionOnSet(f, T \ {c}) = f[x] + rest
    <2>1. T \ {c} \notin Bad
      BY <1>1, <1>3
    <2> QED
      BY <1>6, <2>1
  <1>8. SumFunctionOnSet(f, T \ {x}) = f[c] + rest
    <2>1. T \ {x} \notin Bad
      BY <1>1
    <2>2. (T \ {c}) \ {x} = (T \ {x}) \ {c}
      OBVIOUS
    <2> QED
      BY <1>3, <1>6, <2>1, <2>2
  <1>9. f[c] \in Int /\ f[x] \in Int /\ rest \in Int
    BY <1>3, <1>4
  <1> HIDE DEF rest, Bad
  <1>10. f[c] + (f[x] + rest) = f[x] + (f[c] + rest)
    BY <1>9
  <1> QED
    BY <1>2, <1>5, <1>7, <1>8, <1>10

\* Tables that agree on a set have the same sum over it.
LEMMA SumSame ==
    ASSUME NEW f, NEW g, NEW S, IsFiniteSet(S), \A x \in S : f[x] = g[x]
    PROVE  SumFunctionOnSet(f, S) = SumFunctionOnSet(g, S)
  <1> DEFINE Bad == {T \in SUBSET S : SumFunctionOnSet(f, T) # SumFunctionOnSet(g, T)}
  <1> SUFFICES ASSUME Bad # {} PROVE FALSE
    OBVIOUS
  <1>1. PICK T \in Bad : \A U \in SUBSET T : U # T => U \notin Bad
    <2>1. Bad \in SUBSET (SUBSET S)
      OBVIOUS
    <2> HIDE DEF Bad
    <2> QED
      BY <2>1, LeastSubset
  <1>2. /\ SumFunctionOnSet(f, T) =
             IF T = {} THEN 0 ELSE f[SumFirst(T)] + SumFunctionOnSet(f, T \ {SumFirst(T)})
        /\ SumFunctionOnSet(g, T) =
             IF T = {} THEN 0 ELSE g[SumFirst(T)] + SumFunctionOnSet(g, T \ {SumFirst(T)})
    BY FS_Subset, SumUnfolds
  <1>3. T # {} => SumFirst(T) \in T
    BY DEF SumFirst
  <1> QED
    BY <1>1, <1>2, <1>3

\* Changing one entry changes the sum by as much.
LEMMA SumChanges ==
    ASSUME NEW f, NEW g, NEW S, IsFiniteSet(S), NEW e \in S,
           \A x \in S : f[x] \in Int /\ g[x] \in Int,
           \A x \in S \ {e} : g[x] = f[x]
    PROVE  SumFunctionOnSet(g, S) = SumFunctionOnSet(f, S) + (g[e] - f[e])
  <1>1. /\ SumFunctionOnSet(f, S) = f[e] + SumFunctionOnSet(f, S \ {e})
        /\ SumFunctionOnSet(g, S) = g[e] + SumFunctionOnSet(g, S \ {e})
    BY SumTakesOut
  <1>2. IsFiniteSet(S \ {e})
    BY FS_RemoveElement
  <1>3. SumFunctionOnSet(f, S \ {e}) = SumFunctionOnSet(g, S \ {e})
    BY <1>2, SumSame
  <1>4. SumFunctionOnSet(f, S \ {e}) \in Int
    BY <1>2, SumInt
  <1> QED
    BY <1>1, <1>3, <1>4

\* A sum of natural numbers is one, and at least each of its terms.
LEMMA SumNat ==
    ASSUME NEW f, NEW S, IsFiniteSet(S), \A x \in S : f[x] \in Nat
    PROVE  /\ SumFunctionOnSet(f, S) \in Nat
           /\ \A e \in S : f[e] <= SumFunctionOnSet(f, S)
  <1> DEFINE Bad == {T \in SUBSET S : SumFunctionOnSet(f, T) \notin Nat}
  <1>1. Bad = {}
    <2> SUFFICES ASSUME Bad # {} PROVE FALSE
      OBVIOUS
    <2>1. PICK T \in Bad : \A U \in SUBSET T : U # T => U \notin Bad
      <3>1. Bad \in SUBSET (SUBSET S)
        OBVIOUS
      <3> HIDE DEF Bad
      <3> QED
        BY <3>1, LeastSubset
    <2>2. SumFunctionOnSet(f, T) =
            IF T = {} THEN 0 ELSE f[SumFirst(T)] + SumFunctionOnSet(f, T \ {SumFirst(T)})
      BY FS_Subset, SumUnfolds
    <2>3. T # {} => SumFirst(T) \in T
      BY DEF SumFirst
    <2> QED
      BY <2>1, <2>2, <2>3
  <1>2. ASSUME NEW e \in S PROVE f[e] <= SumFunctionOnSet(f, S)
    <2>1. SumFunctionOnSet(f, S) = f[e] + SumFunctionOnSet(f, S \ {e})
      BY SumTakesOut
    <2>2. SumFunctionOnSet(f, S \ {e}) \in Nat
      BY <1>1
    <2> QED
      BY <2>1, <2>2
  <1> QED
    BY <1>1, <1>2

\* A new element brings its term.
LEMMA SumEnters ==
    ASSUME NEW f, NEW g, NEW S, IsFiniteSet(S), NEW e, e \notin S,
           \A x \in S : g[x] = f[x], \A x \in S \cup {e} : g[x] \in Int
    PROVE  SumFunctionOnSet(g, S \cup {e}) = SumFunctionOnSet(f, S) + g[e]
  <1>1. IsFiniteSet(S \cup {e})
    BY FS_AddElement
  <1>2. (S \cup {e}) \ {e} = S
    OBVIOUS
  <1>3. SumFunctionOnSet(g, S \cup {e}) = g[e] + SumFunctionOnSet(g, S)
    BY <1>1, <1>2, SumTakesOut
  <1>4. SumFunctionOnSet(g, S) = SumFunctionOnSet(f, S)
    BY SumSame
  <1>5. SumFunctionOnSet(g, S) \in Int
    BY SumInt
  <1> QED
    BY <1>3, <1>4, <1>5

\* A sum of equal terms.
LEMMA SumOfEqual ==
    ASSUME NEW f, NEW S, IsFiniteSet(S), NEW c \in Int, \A x \in S : f[x] = c
    PROVE  SumFunctionOnSet(f, S) = Cardinality(S) * c
  <1> DEFINE Bad == {T \in SUBSET S : SumFunctionOnSet(f, T) # Cardinality(T) * c}
  <1> SUFFICES ASSUME Bad # {} PROVE FALSE
    OBVIOUS
  <1>1. PICK T \in Bad : \A U \in SUBSET T : U # T => U \notin Bad
    <2>1. Bad \in SUBSET (SUBSET S)
      OBVIOUS
    <2> HIDE DEF Bad
    <2> QED
      BY <2>1, LeastSubset
  <1>2. SumFunctionOnSet(f, T) =
          IF T = {} THEN 0 ELSE f[SumFirst(T)] + SumFunctionOnSet(f, T \ {SumFirst(T)})
    BY FS_Subset, SumUnfolds
  <1>3. CASE T = {}
    <2>1. Cardinality(T) = 0
      BY <1>3, FS_EmptySet
    <2> QED
      BY <1>1, <1>2, <1>3, <2>1
  <1>4. CASE T # {}
    <2>1. SumFirst(T) \in T
      BY <1>4 DEF SumFirst
    <2>2. IsFiniteSet(T) /\ Cardinality(T) \in Nat
      BY FS_Subset, FS_CardinalityType
    <2>3. Cardinality(T \ {SumFirst(T)}) = Cardinality(T) - 1
      BY <2>1, <2>2, FS_RemoveElement
    <2>4. SumFunctionOnSet(f, T \ {SumFirst(T)}) = (Cardinality(T) - 1) * c
      BY <1>1, <2>1, <2>3
    <2>5. c + (Cardinality(T) - 1) * c = Cardinality(T) * c
      BY <2>2
    <2> QED
      BY <1>1, <1>2, <1>4, <2>1, <2>4, <2>5
  <1> QED
    BY <1>3, <1>4
=============================================================================
