---------------------------- MODULE IntegerSets ----------------------------
(***************************************************************************)
(* Finite sets of integers have a greatest and a least element: facts the   *)
(* proofs about positions of tabs and of endpoints share.                  *)
(***************************************************************************)
EXTENDS Integers, Enumerations, FiniteSetTheorems, WellFoundedInduction, TLAPS

(* A finite non-empty set of integers has a greatest element (by minimality  *)
(* in the well-founded order of its finite subsets).                         *)
LEMMA FiniteMax ==
  ASSUME NEW S \in SUBSET Int, IsFiniteSet(S), S # {}
  PROVE  \E m \in S : \A x \in S : x <= m
<1>. DEFINE Top(X) == \E m \in X : \A x \in X : x <= m
            Bad == {X \in FiniteSubsetsOf(S) : X # {} /\ ~Top(X)}
<1>1. SUFFICES ASSUME Bad # {} PROVE FALSE
  <2>1. S \in FiniteSubsetsOf(S)
    BY DEF FiniteSubsetsOf
  <2>. QED  BY <2>1
<1>2. PICK X \in Bad : \A Y \in Bad : ~(<<Y, X>> \in StrictSubsetOrdering(S))
  <2>1. Bad \subseteq FiniteSubsetsOf(S)
    OBVIOUS
  <2>. HIDE DEF Bad
  <2>. QED  BY <1>1, <2>1, FS_StrictSubsetOrderingWellFounded, WFMin
<1>3. PICK x \in X : TRUE
  BY <1>2
<1>4. X \subseteq S /\ IsFiniteSet(X) /\ ~Top(X)
  BY <1>2 DEF FiniteSubsetsOf
<1>5. IsFiniteSet(X \ {x})
  BY <1>4, FS_RemoveElement
<1>6. X \ {x} = {} \/ Top(X \ {x})
  <2>1. X \ {x} \in FiniteSubsetsOf(S)
    BY <1>4, <1>5 DEF FiniteSubsetsOf
  <2>2. <<X \ {x}, X>> \in StrictSubsetOrdering(S)
    BY <1>3, <1>4 DEF StrictSubsetOrdering
  <2>. QED  BY <1>2, <2>1, <2>2
<1>7. CASE X \ {x} = {}
  <2>1. \A y \in X : y <= x
    BY <1>3, <1>4, <1>7
  <2>. QED  BY <1>3, <1>4, <2>1
<1>8. CASE Top(X \ {x})
  <2>1. PICK m \in X \ {x} : \A y \in X \ {x} : y <= m
    BY <1>8
  <2>2. x \in Int /\ m \in Int /\ X \subseteq Int
    BY <1>3, <1>4
  <2>3. CASE x <= m
    <3>1. \A y \in X : y <= m
      BY <2>1, <2>3
    <3>. QED  BY <1>4, <3>1
  <2>4. CASE m < x
    <3>1. \A y \in X : y <= x
      BY <2>1, <2>2, <2>4
    <3>. QED  BY <1>3, <1>4, <3>1
  <2>. QED  BY <2>2, <2>3, <2>4
<1>. QED  BY <1>6, <1>7, <1>8

(* Likewise a least one: the greatest of the negated elements.               *)
LEMMA FiniteMin ==
  ASSUME NEW S \in SUBSET Int, IsFiniteSet(S), S # {}
  PROVE  \E m \in S : \A x \in S : m <= x
<1>. DEFINE neg == [x \in S |-> -x]
            T == {-x : x \in S}
<1>1. neg \in Surjection(S, T)
  BY DEF Surjection
<1>2. IsFiniteSet(T)
  BY <1>1, FS_Surjection
<1>3. T \in SUBSET Int /\ T # {}
  <2>1. PICK x \in S : TRUE
    OBVIOUS
  <2>2. -x \in T
    OBVIOUS
  <2>3. \A y \in T : y \in Int
    OBVIOUS
  <2>. QED  BY <2>2, <2>3
<1>. HIDE DEF T
<1>4. PICK m \in T : \A x \in T : x <= m
  BY <1>2, <1>3, FiniteMax
<1>5. PICK y \in S : m = -y
  BY <1>4 DEF T
<1>6. ASSUME NEW x \in S PROVE y <= x
  <2>1. -x \in T
    BY DEF T
  <2>2. -x <= -y
    BY <1>4, <1>5, <2>1
  <2>. QED  BY <2>2
<1>. QED  BY <1>6

\* An ascending enumeration of S.
Enumerates(f, S) ==
  /\ f \in [1..Cardinality(S) -> S]
  /\ \A i, j \in 1..Cardinality(S) : i < j => f[i] < f[j]

(* Every finite set of integers can be enumerated in order: its greatest      *)
(* element goes to the end of an enumeration of the others.                  *)
LEMMA EnumerationExists ==
  ASSUME NEW S \in SUBSET Int, IsFiniteSet(S)
  PROVE  \E f : Enumerates(f, S)
<1>. DEFINE Bad == {X \in FiniteSubsetsOf(S) : ~\E f : Enumerates(f, X)}
<1>1. SUFFICES ASSUME Bad # {} PROVE FALSE
  <2>1. S \in FiniteSubsetsOf(S)
    BY DEF FiniteSubsetsOf
  <2>. QED  BY <2>1
<1>2. PICK X \in Bad : \A Y \in Bad : ~(<<Y, X>> \in StrictSubsetOrdering(S))
  <2>1. Bad \subseteq FiniteSubsetsOf(S)
    OBVIOUS
  <2>. HIDE DEF Bad
  <2>. QED  BY <1>1, <2>1, FS_StrictSubsetOrderingWellFounded, WFMin
<1>3. X \subseteq S /\ IsFiniteSet(X) /\ \A f : ~Enumerates(f, X)
  BY <1>2 DEF FiniteSubsetsOf
<1>4. CASE X = {}
  <2>1. Cardinality(X) = 0
    BY <1>4, FS_EmptySet
  <2>2. Enumerates([i \in 1..0 |-> i], X)
    BY <1>4, <2>1 DEF Enumerates
  <2>. QED  BY <1>3, <2>2
<1>5. CASE X # {}
  <2>1. PICK m \in X : \A x \in X : x <= m
    BY <1>3, <1>5, FiniteMax
  <2>. DEFINE Y == X \ {m}
              n == Cardinality(X)
  <2>2. IsFiniteSet(Y) /\ Cardinality(Y) = n - 1
    BY <1>3, <2>1, FS_RemoveElement
  <2>3. n \in Nat /\ Cardinality(Y) \in Nat
    BY <1>3, <2>2, FS_CardinalityType
  <2>4. Y \notin Bad
    <3>1. Y \in FiniteSubsetsOf(S)
      BY <1>3, <2>2 DEF FiniteSubsetsOf
    <3>2. <<Y, X>> \in StrictSubsetOrdering(S)
      BY <1>3, <2>1 DEF StrictSubsetOrdering
    <3>. QED  BY <1>2, <3>1, <3>2
  <2>5. PICK g : Enumerates(g, Y)
    <3>1. Y \in FiniteSubsetsOf(S)
      BY <1>3, <2>2 DEF FiniteSubsetsOf
    <3>. QED  BY <2>4, <3>1
  <2>. HIDE DEF Y, n
  <2>6. g \in [1..(n - 1) -> Y] /\ \A i, j \in 1..(n - 1) : i < j => g[i] < g[j]
    BY <2>2, <2>5 DEF Enumerates
  <2>7. \A y \in Y : y \in X /\ y < m
    BY <1>3, <2>1 DEF Y
  <2>. DEFINE f == [i \in 1..n |-> IF i = n THEN m ELSE g[i]]
  <2>8. f \in [1..n -> X]
    BY <2>1, <2>3, <2>6, <2>7
  <2>9. \A i, j \in 1..n : i < j => f[i] < f[j]
    BY <2>3, <2>6, <2>7
  <2>10. Enumerates(f, X)
    BY <2>8, <2>9 DEF Enumerates, n
  <2>. QED  BY <1>3, <2>10
<1>. QED  BY <1>4, <1>5

(* InOrder enumerates a finite set of integers, ascending and completely.     *)
LEMMA InOrderFacts ==
  ASSUME NEW S \in SUBSET Int, IsFiniteSet(S)
  PROVE  LET n == Cardinality(S) IN
         /\ n \in Nat
         /\ InOrder(S) \in [1..n -> S]
         /\ \A i, j \in 1..n : i < j => InOrder(S)[i] < InOrder(S)[j]
         /\ \A x \in S : \E i \in 1..n : InOrder(S)[i] = x
<1>. DEFINE n == Cardinality(S)
            f == InOrder(S)
<1>1. n \in Nat
  BY FS_CardinalityType
<1>2. Enumerates(f, S)
  <2>1. \E g \in [1..n -> S] : \A i, j \in 1..n : i < j => g[i] < g[j]
    BY EnumerationExists DEF Enumerates
  <2>. QED  BY <2>1 DEF InOrder, Enumerates
<1>3. f \in [1..n -> S] /\ \A i, j \in 1..n : i < j => f[i] < f[j]
  BY <1>2 DEF Enumerates
<1>. HIDE DEF f, n
<1>4. \A i, j \in 1..n : f[i] = f[j] => i = j
  <2>. SUFFICES ASSUME NEW i \in 1..n, NEW j \in 1..n, f[i] = f[j], i # j PROVE FALSE
    OBVIOUS
  <2>1. f[i] \in Int /\ f[j] \in Int
    BY <1>3
  <2>2. i < j \/ j < i
    BY <1>1
  <2>. QED  BY <1>3, <2>1, <2>2
<1>5. f \in Injection(1..n, S)
  BY <1>3, <1>4 DEF Injection, IsInjective
<1>6. IsFiniteSet(1..n) /\ Cardinality(1..n) = n
  BY <1>1, FS_Interval
<1>7. f \in Surjection(1..n, S)
  BY <1>5, <1>6, FS_Injection DEF n
<1>8. \A x \in S : \E i \in 1..n : f[i] = x
  BY <1>7 DEF Surjection
<1>. QED  BY <1>1, <1>3, <1>8 DEF f, n

\* Positions of a list are a finite set of integers.
LEMMA PositionsFinite ==
  ASSUME NEW n \in Nat, NEW I \in SUBSET (1..n)
  PROVE  I \in SUBSET Int /\ IsFiniteSet(I) /\ Cardinality(I) \in Nat
<1>1. IsFiniteSet(1..n)
  BY FS_Interval
<1>2. IsFiniteSet(I)
  BY <1>1, FS_Subset
<1>3. I \in SUBSET Int
  OBVIOUS
<1>. QED  BY <1>2, <1>3, FS_CardinalityType

\* What InOrder makes of positions.
LEMMA PlacesFacts ==
  ASSUME NEW n \in Nat, NEW I \in SUBSET (1..n)
  PROVE  /\ Cardinality(I) \in Nat
         /\ InOrder(I) \in [1..Cardinality(I) -> I]
         /\ DOMAIN InOrder(I) = 1..Cardinality(I)
         /\ \A i, j \in 1..Cardinality(I) : i < j => InOrder(I)[i] < InOrder(I)[j]
         /\ \A x \in I : \E i \in 1..Cardinality(I) : InOrder(I)[i] = x
  BY PositionsFinite, InOrderFacts

\* All positions in order are the positions themselves.
LEMMA AllInOrder ==
  ASSUME NEW n \in Nat
  PROVE  Cardinality(1..n) = n /\ \A i \in 1..n : InOrder(1..n)[i] = i
<1>. DEFINE f == InOrder(1..n)
<1>1. Cardinality(1..n) = n
  BY FS_Interval
<1>2. f \in [1..n -> 1..n] /\ \A i, j \in 1..n : i < j => f[i] < f[j]
  BY <1>1, PlacesFacts
<1>. HIDE DEF f
<1>3. ASSUME NEW I \in SUBSET (1..n), I # {}
      PROVE  (\E m \in I : \A x \in I : m <= x) /\ (\E m \in I : \A x \in I : x <= m)
  BY <1>3, PositionsFinite, FiniteMin, FiniteMax
<1>4. {i \in 1..n : f[i] < i} = {}
  <2>. SUFFICES ASSUME {i \in 1..n : f[i] < i} # {} PROVE FALSE
    OBVIOUS
  <2>1. PICK m \in 1..n : f[m] < m /\ \A x \in 1..n : f[x] < x => m <= x
    BY <1>3
  <2>2. m # 1 /\ m - 1 \in 1..n
    BY <1>2, <2>1
  <2>3. f[m - 1] < f[m] /\ ~(f[m - 1] < m - 1)
    BY <1>2, <2>1, <2>2
  <2>4. f[m] \in Int /\ f[m - 1] \in Int
    BY <1>2, <2>2
  <2>. QED  BY <2>1, <2>2, <2>3, <2>4
<1>5. {i \in 1..n : f[i] > i} = {}
  <2>. SUFFICES ASSUME {i \in 1..n : f[i] > i} # {} PROVE FALSE
    OBVIOUS
  <2>1. PICK m \in 1..n : f[m] > m /\ \A x \in 1..n : f[x] > x => x <= m
    BY <1>3
  <2>2. m # n /\ m + 1 \in 1..n
    BY <1>2, <2>1
  <2>3. f[m] < f[m + 1] /\ ~(f[m + 1] > m + 1)
    BY <1>2, <2>1, <2>2
  <2>4. f[m] \in Int /\ f[m + 1] \in Int
    BY <1>2, <2>2
  <2>. QED  BY <2>1, <2>2, <2>3, <2>4
<1>6. \A i \in 1..n : f[i] = i
  BY <1>2, <1>4, <1>5
<1>. QED  BY <1>1, <1>6 DEF f
=============================================================================
