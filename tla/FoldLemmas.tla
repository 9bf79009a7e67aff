----------------------------- MODULE FoldLemmas -----------------------------
(***************************************************************************)
(* Induction without an operator parameter, and what it shows about the    *)
(* sums over a finite set of FiniteSetsExt.                                *)
(***************************************************************************)
EXTENDS Integers, FiniteSets, FiniteSetsExt, TLAPS, FiniteSetTheorems, WellFoundedInduction

\* A set of natural numbers that is not empty has a least element.
LEMMA LeastNumber ==
    ASSUME NEW T \in SUBSET Nat, T # {}
    PROVE  \E n \in T : \A m \in T : n <= m
<1> DEFINE R == {p \in Nat \X Nat : p[1] < p[2]}
<1>1. IsWellFoundedOn(R, Nat)
    BY NatLessThanWellFounded DEF OpToRel
<1> HIDE DEF R
<1>2. PICK n \in T : \A m \in T : ~(<<m, n>> \in R)
    BY <1>1, WFMin
<1>3. ASSUME NEW m \in T PROVE n <= m
  <2>1. ~(<<m, n>> \in R) /\ m \in Nat /\ n \in Nat
      BY <1>2
  <2>2. m < n => <<m, n>> \in R
      BY <2>1 DEF R
  <2> QED BY <2>1, <2>2
<1> QED BY <1>3

\* Induction over the natural numbers, for a property given as a set.
LEMMA Induction ==
    ASSUME NEW P, 0 \in P, \A n \in Nat : n \in P => n + 1 \in P
    PROVE  Nat \subseteq P
<1> SUFFICES ASSUME ~(Nat \subseteq P) PROVE FALSE
    OBVIOUS
<1> DEFINE T == {n \in Nat : n \notin P}
<1>1. T \in SUBSET Nat /\ T # {}
    OBVIOUS
<1>2. PICK n \in T : \A m \in T : n <= m
    BY <1>1, LeastNumber
<1>3. n \in Nat /\ n \notin P /\ n # 0
    BY <1>2
<1>4. n - 1 \in Nat /\ ~(n <= n - 1)
    BY <1>3
<1>5. n - 1 \in P
    BY <1>2, <1>4
<1>6. (n - 1) + 1 = n
    BY <1>3
<1> QED BY <1>3, <1>4, <1>5, <1>6

-----------------------------------------------------------------------------
(* Sums over a finite set.                                                 *)

\* The element that a fold over s takes first.
Pick(s) == CHOOSE x \in s : TRUE

\* g gives the sum of h over each set of D, element by element.
Sums(g, h, D) ==
    /\ g \in [D -> Nat]
    /\ \A s \in D : g[s] = IF s = {} THEN 0 ELSE h[Pick(s)] + g[s \ {Pick(s)}]

\* The sum of a function over a finite set, by the fold of FiniteSetsExt.
TotalOver(h, S) == MapThenSumSet(LAMBDA x : h[x], S)

\* e adds h up in the same way, whatever its values are.
AddsUp(e, h, S) ==
    /\ e = [s \in SUBSET S |-> e[s]]
    /\ \A s \in SUBSET S : e[s] = IF s = {} THEN 0 ELSE h[Pick(s)] + e[s \ {Pick(s)}]

\* k is h on S, but for being greater by d at x.
Raised(k, h, S, x, d) == \A y \in S : k[y] = h[y] + IF y = x THEN d ELSE 0

Smaller(S, n) == {s \in SUBSET S : Cardinality(s) <= n}

LEMMA PickOne ==
    ASSUME NEW S, IsFiniteSet(S), NEW s \in SUBSET S, s # {}
    PROVE  /\ Pick(s) \in s
           /\ s \ {Pick(s)} \in SUBSET S
           /\ IsFiniteSet(s) /\ Cardinality(s) \in Nat /\ Cardinality(s) # 0
           /\ Cardinality(s \ {Pick(s)}) = Cardinality(s) - 1
<1>1. Pick(s) \in s
    BY DEF Pick
<1>2. IsFiniteSet(s)
    BY FS_Subset
<1>3. Cardinality(s) \in Nat /\ Cardinality(s) # 0
    BY <1>2, FS_CardinalityType, FS_EmptySet
<1>4. Cardinality(s \ {Pick(s)}) = Cardinality(s) - 1
    BY <1>1, <1>2, FS_RemoveElement
<1> QED BY <1>1, <1>2, <1>3, <1>4

\* There is such a g, for every finite set.
LEMMA SumsExist ==
    ASSUME NEW S, IsFiniteSet(S), NEW h \in [S -> Nat]
    PROVE  \E g : Sums(g, h, SUBSET S)
<1> DEFINE P == {n \in Nat : \E g : Sums(g, h, Smaller(S, n))}
<1>1. 0 \in P
  <2>1. \A s \in Smaller(S, 0) : s = {}
    <3>1. ASSUME NEW s \in Smaller(S, 0), s # {} PROVE FALSE
      <4>1. s \in SUBSET S /\ Cardinality(s) <= 0
          BY DEF Smaller
      <4>2. Cardinality(s) \in Nat /\ Cardinality(s) # 0
          BY <3>1, <4>1, PickOne
      <4> QED BY <4>1, <4>2
    <3> QED BY <3>1
  <2>2. Sums([s \in Smaller(S, 0) |-> 0], h, Smaller(S, 0))
      BY <2>1 DEF Sums
  <2> QED BY <2>2
<1>2. ASSUME NEW n \in Nat, n \in P PROVE n + 1 \in P
  <2>1. PICK g : Sums(g, h, Smaller(S, n))
      BY <1>2
  <2> DEFINE e == [s \in Smaller(S, n + 1) |->
                       IF s = {} THEN 0 ELSE h[Pick(s)] + g[s \ {Pick(s)}]]
  <2>2. ASSUME NEW s \in Smaller(S, n + 1), s # {}
        PROVE  /\ s \ {Pick(s)} \in Smaller(S, n) /\ s \ {Pick(s)} \in Smaller(S, n + 1)
               /\ h[Pick(s)] \in Nat
    <3>1. s \in SUBSET S /\ Cardinality(s) <= n + 1
        BY DEF Smaller
    <3>2. s \ {Pick(s)} \in SUBSET S /\ Cardinality(s \ {Pick(s)}) = Cardinality(s) - 1
          /\ Cardinality(s) \in Nat /\ Pick(s) \in s
        BY <2>2, <3>1, PickOne
    <3> QED BY <1>2, <3>1, <3>2 DEF Smaller
  <2>3. e \in [Smaller(S, n + 1) -> Nat]
    <3>1. ASSUME NEW s \in Smaller(S, n + 1), s # {}
          PROVE  h[Pick(s)] + g[s \ {Pick(s)}] \in Nat
        BY <2>1, <2>2, <3>1 DEF Sums
    <3> QED BY <3>1
  <2>4. ASSUME NEW s \in Smaller(S, n) PROVE s \in Smaller(S, n + 1) /\ e[s] = g[s]
    <3>1. s \in Smaller(S, n + 1)
      <4>1. s \in SUBSET S /\ IsFiniteSet(s) /\ Cardinality(s) <= n
          BY FS_Subset DEF Smaller
      <4>2. Cardinality(s) \in Nat
          BY <4>1, FS_CardinalityType
      <4> QED BY <1>2, <4>1, <4>2 DEF Smaller
    <3>2. e[s] = IF s = {} THEN 0 ELSE h[Pick(s)] + g[s \ {Pick(s)}]
        BY <3>1
    <3> HIDE DEF e
    <3> QED BY <2>1, <3>1, <3>2 DEF Sums
  <2>5. ASSUME NEW s \in Smaller(S, n + 1)
        PROVE  e[s] = IF s = {} THEN 0 ELSE h[Pick(s)] + e[s \ {Pick(s)}]
    <3>1. e[s] = IF s = {} THEN 0 ELSE h[Pick(s)] + g[s \ {Pick(s)}]
        OBVIOUS
    <3> HIDE DEF e
    <3> QED BY <2>2, <2>4, <3>1
  <2> HIDE DEF e
  <2>6. Sums(e, h, Smaller(S, n + 1))
      BY <2>3, <2>5 DEF Sums
  <2> QED BY <2>6
<1>3. Nat \subseteq P
  <2> HIDE DEF P
  <2> QED BY <1>1, <1>2, Induction
<1>4. Cardinality(S) \in Nat /\ Smaller(S, Cardinality(S)) = SUBSET S
    BY FS_CardinalityType, FS_Subset DEF Smaller
<1> QED BY <1>3, <1>4

\* If k differs from h at x alone, then their sums differ by as much.
LEMMA SumsDiffer ==
    ASSUME NEW S, IsFiniteSet(S), NEW h \in [S -> Nat], NEW k \in [S -> Nat],
           NEW x, NEW d \in Nat, Raised(k, h, S, x, d),
           NEW g, Sums(g, h, SUBSET S), NEW e, Sums(e, k, SUBSET S)
    PROVE  e[S] = g[S] + IF x \in S THEN d ELSE 0
<1> DEFINE P == {n \in Nat : \A s \in SUBSET S :
                    Cardinality(s) = n => e[s] = g[s] + IF x \in s THEN d ELSE 0}
<1>1. 0 \in P
  <2>1. ASSUME NEW s \in SUBSET S, Cardinality(s) = 0
        PROVE  e[s] = g[s] + IF x \in s THEN d ELSE 0
    <3>1. s = {}
        BY <2>1, PickOne
    <3>2. e[s] = 0 /\ g[s] = 0
        BY <3>1 DEF Sums
    <3>3. x \notin s
        BY <3>1
    <3> QED BY <3>2, <3>3
  <2> QED BY <2>1
<1>2. ASSUME NEW n \in Nat, n \in P PROVE n + 1 \in P
  <2>1. ASSUME NEW s \in SUBSET S, Cardinality(s) = n + 1
        PROVE  e[s] = g[s] + IF x \in s THEN d ELSE 0
    <3> DEFINE r == s \ {Pick(s)}
    <3>1. s # {}
      <4>1. Cardinality({}) = 0 /\ n + 1 # 0
          BY <1>2, FS_EmptySet
      <4> QED BY <2>1, <4>1
    <3>2. r \in SUBSET S /\ Cardinality(r) = n /\ Pick(s) \in s
        BY <1>2, <2>1, <3>1, PickOne
    <3>3. e[r] = g[r] + IF x \in r THEN d ELSE 0
        BY <1>2, <3>2
    <3>4. k[Pick(s)] = h[Pick(s)] + IF Pick(s) = x THEN d ELSE 0
        BY <3>2 DEF Raised
    <3>5. x \in r <=> x \in s /\ Pick(s) # x
        OBVIOUS
    <3>6. e[s] = k[Pick(s)] + e[r] /\ g[s] = h[Pick(s)] + g[r]
        BY <3>1 DEF Sums
    <3>7. h[Pick(s)] \in Nat /\ g[r] \in Nat
        BY <3>2 DEF Sums
    <3> HIDE DEF r
    <3> QED BY <3>2, <3>3, <3>4, <3>5, <3>6, <3>7
  <2> QED BY <2>1
<1>3. Nat \subseteq P
  <2> HIDE DEF P
  <2> QED BY <1>1, <1>2, Induction
<1> QED BY <1>3, FS_CardinalityType

\* The sum of nothing but zeros.
LEMMA SumsZero ==
    ASSUME NEW S, IsFiniteSet(S), NEW h, h = [y \in S |-> 0],
           NEW g, Sums(g, h, SUBSET S)
    PROVE  g[S] = 0
<1> DEFINE P == {n \in Nat : \A s \in SUBSET S : Cardinality(s) = n => g[s] = 0}
<1>1. 0 \in P
    BY PickOne DEF Sums
<1>2. ASSUME NEW n \in Nat, n \in P PROVE n + 1 \in P
  <2>1. ASSUME NEW s \in SUBSET S, Cardinality(s) = n + 1 PROVE g[s] = 0
    <3>1. s # {}
      <4>1. Cardinality({}) = 0 /\ n + 1 # 0
          BY <1>2, FS_EmptySet
      <4> QED BY <2>1, <4>1
    <3>2. s \ {Pick(s)} \in SUBSET S /\ Cardinality(s \ {Pick(s)}) = n /\ Pick(s) \in s
        BY <1>2, <2>1, <3>1, PickOne
    <3> QED BY <1>2, <3>1, <3>2 DEF Sums
  <2> QED BY <2>1
<1>3. Nat \subseteq P
  <2> HIDE DEF P
  <2> QED BY <1>1, <1>2, Induction
<1> QED BY <1>3, FS_CardinalityType

\* The sums are the only function that adds up h element by element.
LEMMA SumsUnique ==
    ASSUME NEW S, IsFiniteSet(S), NEW h \in [S -> Nat], NEW g, Sums(g, h, SUBSET S),
           NEW e, AddsUp(e, h, S)
    PROVE  e = g
<1> DEFINE P == {n \in Nat : \A s \in SUBSET S : Cardinality(s) = n => e[s] = g[s]}
<1>1. 0 \in P
    BY PickOne DEF Sums, AddsUp
<1>2. ASSUME NEW n \in Nat, n \in P PROVE n + 1 \in P
  <2>1. ASSUME NEW s \in SUBSET S, Cardinality(s) = n + 1 PROVE e[s] = g[s]
    <3>1. s # {}
      <4>1. Cardinality({}) = 0 /\ n + 1 # 0
          BY <1>2, FS_EmptySet
      <4> QED BY <2>1, <4>1
    <3>2. s \ {Pick(s)} \in SUBSET S /\ Cardinality(s \ {Pick(s)}) = n
        BY <1>2, <2>1, <3>1, PickOne
    <3> QED BY <1>2, <3>1, <3>2 DEF Sums, AddsUp
  <2> QED BY <1>2, <2>1
<1>3. Nat \subseteq P
  <2> HIDE DEF P
  <2> QED BY <1>1, <1>2, Induction
<1>4. \A s \in SUBSET S : Cardinality(s) \in Nat
    BY FS_Subset, FS_CardinalityType
<1>5. \A s \in SUBSET S : e[s] = g[s]
    BY <1>3, <1>4
<1> QED BY <1>5 DEF Sums, AddsUp

LEMMA TotalOverSums ==
    ASSUME NEW S, IsFiniteSet(S), NEW h \in [S -> Nat]
    PROVE  \E g : Sums(g, h, SUBSET S) /\ TotalOver(h, S) = g[S]
<1> DEFINE iter == CHOOSE g : g = [s \in SUBSET S |->
                        IF s = {} THEN 0
                        ELSE h[CHOOSE x \in s : TRUE] + g[s \ {CHOOSE x \in s : TRUE}]]
<1>1. PICK g : Sums(g, h, SUBSET S)
    BY SumsExist
<1>2. g = [s \in SUBSET S |-> IF s = {} THEN 0 ELSE h[Pick(s)] + g[s \ {Pick(s)}]]
    BY <1>1 DEF Sums
<1>3. iter = [s \in SUBSET S |-> IF s = {} THEN 0 ELSE h[Pick(s)] + iter[s \ {Pick(s)}]]
    BY <1>2 DEF Pick
<1>4. TotalOver(h, S) = iter[S]
    BY DEF TotalOver, MapThenSumSet, MapThenFoldSet
<1> HIDE DEF iter
<1>5. AddsUp(iter, h, S)
    BY <1>3 DEF AddsUp
<1>6. iter = g
    BY <1>1, <1>5, SumsUnique
<1> QED BY <1>1, <1>4, <1>6

\* A sum grows by what one of its terms grows by.
LEMMA TotalOverAdd ==
    ASSUME NEW S, IsFiniteSet(S), NEW h \in [S -> Nat], NEW k \in [S -> Nat],
           NEW x, NEW d \in Nat, Raised(k, h, S, x, d)
    PROVE  TotalOver(k, S) = TotalOver(h, S) + IF x \in S THEN d ELSE 0
<1>1. PICK g : Sums(g, h, SUBSET S) /\ TotalOver(h, S) = g[S]
    BY TotalOverSums
<1>2. PICK e : Sums(e, k, SUBSET S) /\ TotalOver(k, S) = e[S]
    BY TotalOverSums
<1>3. e[S] = g[S] + IF x \in S THEN d ELSE 0
    BY <1>1, <1>2, SumsDiffer
<1> QED BY <1>1, <1>2, <1>3

LEMMA TotalOverZero ==
    ASSUME NEW S, IsFiniteSet(S), NEW h, h = [y \in S |-> 0]
    PROVE  TotalOver(h, S) = 0
<1>1. h \in [S -> Nat]
    OBVIOUS
<1>2. PICK g : Sums(g, h, SUBSET S) /\ TotalOver(h, S) = g[S]
    BY <1>1, TotalOverSums
<1>3. g[S] = 0
    BY <1>2, SumsZero
<1> QED BY <1>2, <1>3

-----------------------------------------------------------------------------
(* Folds over the places 1 .. n of a sequence, the last place first taken,  *)
(* as FoldLeft of SequencesExt does it.                                    *)

\* The value of a fold: e of a set is one step from e of the set without its
\* greatest place.
FoldOf(e, base, step, D) ==
    e = [s \in D |-> IF s = {} THEN base ELSE step[<<e[s \ {Max(s)}], Max(s)>>]]

LEMMA GreatestPlace ==
    ASSUME NEW n \in Nat, NEW s \in SUBSET (1 .. n), s # {}
    PROVE  /\ Max(s) \in s
           /\ \A y \in s : y <= Max(s)
           /\ IsFiniteSet(s) /\ Cardinality(s) \in Nat /\ Cardinality(s) # 0
           /\ Cardinality(s \ {Max(s)}) = Cardinality(s) - 1
<1> DEFINE T == {m \in Nat : \A y \in s : y <= m}
<1>1. T \in SUBSET Nat /\ n \in T
    OBVIOUS
<1>2. PICK m \in T : \A k \in T : m <= k
  <2> HIDE DEF T
  <2> QED BY <1>1, LeastNumber
<1>3. m \in s
  <2>1. SUFFICES ASSUME m \notin s PROVE FALSE
      OBVIOUS
  <2>2. PICK y \in s : TRUE
      OBVIOUS
  <2>3. m \in Nat /\ \A z \in s : z <= m
      BY <1>2
  <2>4. \A z \in s : z \in Nat /\ z >= 1 /\ z <= m - 1
      BY <2>1, <2>3
  <2>5. m - 1 \in T
      BY <2>2, <2>3, <2>4
  <2> QED BY <1>2, <2>3, <2>5
<1>4. \E x \in s : \A y \in s : x >= y
    BY <1>2, <1>3
<1>5. Max(s) \in s /\ \A y \in s : y <= Max(s)
    BY <1>4 DEF Max
<1>6. IsFiniteSet(s)
  <2>1. IsFiniteSet(1 .. n)
      BY FS_Interval
  <2> QED BY <2>1, FS_Subset
<1>7. Cardinality(s) \in Nat /\ Cardinality(s) # 0
    BY <1>6, FS_CardinalityType, FS_EmptySet
<1> QED BY <1>5, <1>6, <1>7, FS_RemoveElement

\* A fold whose steps stay in V has a value on every set of places.
LEMMA FoldExists ==
    ASSUME NEW n \in Nat, NEW V, NEW base \in V, NEW step \in [V \X (1 .. n) -> V]
    PROVE  \E e \in [SUBSET (1 .. n) -> V] : FoldOf(e, base, step, SUBSET (1 .. n))
<1> DEFINE S == 1 .. n
           P == {m \in Nat : \E e \in [Smaller(S, m) -> V] : FoldOf(e, base, step, Smaller(S, m))}
<1>1. 0 \in P
  <2>1. \A s \in Smaller(S, 0) : s = {}
    <3>1. ASSUME NEW s \in Smaller(S, 0), s # {} PROVE FALSE
      <4>1. s \in SUBSET (1 .. n) /\ Cardinality(s) <= 0
          BY DEF Smaller
      <4>2. Cardinality(s) \in Nat /\ Cardinality(s) # 0
          BY <3>1, <4>1, GreatestPlace
      <4> QED BY <4>1, <4>2
    <3> QED BY <3>1
  <2> DEFINE e == [s \in Smaller(S, 0) |-> base]
  <2>2. e \in [Smaller(S, 0) -> V]
      OBVIOUS
  <2>3. FoldOf(e, base, step, Smaller(S, 0))
      BY <2>1 DEF FoldOf
  <2> QED BY <2>2, <2>3
<1>2. ASSUME NEW m \in Nat, m \in P PROVE m + 1 \in P
  <2>1. PICK g \in [Smaller(S, m) -> V] : FoldOf(g, base, step, Smaller(S, m))
      BY <1>2
  <2> DEFINE e == [s \in Smaller(S, m + 1) |->
                       IF s = {} THEN base ELSE step[<<g[s \ {Max(s)}], Max(s)>>]]
  <2>2. ASSUME NEW s \in Smaller(S, m + 1), s # {}
        PROVE  s \ {Max(s)} \in Smaller(S, m) /\ Max(s) \in S
    <3>1. s \in SUBSET (1 .. n) /\ Cardinality(s) <= m + 1
        BY DEF Smaller
    <3>2. Max(s) \in s /\ Cardinality(s \ {Max(s)}) = Cardinality(s) - 1
          /\ Cardinality(s) \in Nat
        BY <2>2, <3>1, GreatestPlace
    <3>3. s \ {Max(s)} \in SUBSET S
        BY <3>1
    <3>4. Cardinality(s \ {Max(s)}) <= m
        BY <1>2, <3>1, <3>2
    <3> QED BY <3>1, <3>2, <3>3, <3>4 DEF Smaller
  <2>3. e \in [Smaller(S, m + 1) -> V]
    <3>1. ASSUME NEW s \in Smaller(S, m + 1), s # {}
          PROVE  step[<<g[s \ {Max(s)}], Max(s)>>] \in V
      <4>1. g[s \ {Max(s)}] \in V /\ Max(s) \in S
          BY <2>2, <3>1
      <4> QED BY <4>1
    <3> QED BY <3>1
  <2>4. ASSUME NEW s \in Smaller(S, m) PROVE s \in Smaller(S, m + 1) /\ e[s] = g[s]
    <3>1. s \in Smaller(S, m + 1)
      <4>1. s \in SUBSET (1 .. n) /\ Cardinality(s) <= m
          BY DEF Smaller
      <4>2. IsFiniteSet(1 .. n)
          BY FS_Interval
      <4>3. IsFiniteSet(s)
          BY <4>1, <4>2, FS_Subset
      <4>4. Cardinality(s) \in Nat
          BY <4>3, FS_CardinalityType
      <4> QED BY <1>2, <4>1, <4>4 DEF Smaller
    <3>2. e[s] = IF s = {} THEN base ELSE step[<<g[s \ {Max(s)}], Max(s)>>]
        BY <3>1
    <3>3. g[s] = IF s = {} THEN base ELSE step[<<g[s \ {Max(s)}], Max(s)>>]
        BY <2>1 DEF FoldOf
    <3> HIDE DEF e
    <3> QED BY <3>1, <3>2, <3>3
  <2>5. e = [s \in Smaller(S, m + 1) |->
                IF s = {} THEN base ELSE step[<<e[s \ {Max(s)}], Max(s)>>]]
    <3>1. ASSUME NEW s \in Smaller(S, m + 1), s # {}
          PROVE  e[s \ {Max(s)}] = g[s \ {Max(s)}]
        BY <2>2, <2>4, <3>1
    <3>2. \A s \in Smaller(S, m + 1) :
             e[s] = IF s = {} THEN base ELSE step[<<e[s \ {Max(s)}], Max(s)>>]
        BY <3>1
    <3>3. e = [s \in Smaller(S, m + 1) |-> e[s]]
        OBVIOUS
    <3> HIDE DEF e
    <3> QED BY <3>2, <3>3
  <2> HIDE DEF e
  <2>6. FoldOf(e, base, step, Smaller(S, m + 1))
      BY <2>5 DEF FoldOf
  <2> QED BY <2>3, <2>6
<1>3. Nat \subseteq P
  <2> HIDE DEF P
  <2> QED BY <1>1, <1>2, Induction
<1>4. IsFiniteSet(S)
    BY FS_Interval
<1>5. Cardinality(S) \in Nat /\ Smaller(S, Cardinality(S)) = SUBSET S
  <2> HIDE DEF S
  <2> QED BY <1>4, FS_CardinalityType, FS_Subset DEF Smaller
<1> QED BY <1>3, <1>5

\* The value on the first k + 1 places is one step from the value on the first k.
PrefixByPrefix(e, base, step, n) ==
    /\ e[{}] = base
    /\ \A k \in 0 .. n - 1 : e[1 .. k + 1] = step[<<e[1 .. k], k + 1>>]

LEMMA FoldPrefix ==
    ASSUME NEW n \in Nat, NEW base, NEW step, NEW e, FoldOf(e, base, step, SUBSET (1 .. n))
    PROVE  PrefixByPrefix(e, base, step, n)
<1>1. e[{}] = base
    BY DEF FoldOf
<1>2. ASSUME NEW k \in 0 .. n - 1 PROVE e[1 .. k + 1] = step[<<e[1 .. k], k + 1>>]
  <2> DEFINE s == 1 .. k + 1
  <2>1. s \in SUBSET (1 .. n) /\ s # {} /\ k + 1 \in s
      OBVIOUS
  <2>2. Max(s) \in s /\ \A y \in s : y <= Max(s)
    <3> HIDE DEF s
    <3> QED BY <2>1, GreatestPlace
  <2>3. Max(s) = k + 1
    <3>1. Max(s) <= k + 1 /\ k + 1 <= Max(s) /\ Max(s) \in Int
        BY <2>1, <2>2
    <3> QED BY <3>1
  <2>4. s \ {k + 1} = 1 .. k
      OBVIOUS
  <2>5. e[s] = step[<<e[s \ {Max(s)}], Max(s)>>]
    <3> HIDE DEF s
    <3> QED BY <2>1 DEF FoldOf
  <2> HIDE DEF s
  <2>6. e[s] = step[<<e[1 .. k], k + 1>>]
      BY <2>3, <2>4, <2>5
  <2> QED BY <2>6 DEF s
<1> QED BY <1>1, <1>2 DEF PrefixByPrefix

\* e and g go on alike: one step from equal values are equal values.
GoOnAlike(e, g, D) ==
    /\ e[{}] = g[{}]
    /\ \A s \in D : s # {} /\ e[s \ {Max(s)}] = g[s \ {Max(s)}] => e[s] = g[s]

\* There is one fold only.
LEMMA FoldUnique ==
    ASSUME NEW n \in Nat, NEW e, NEW g, GoOnAlike(e, g, SUBSET (1 .. n))
    PROVE  e[1 .. n] = g[1 .. n]
<1> DEFINE P == {m \in Nat : \A s \in SUBSET (1 .. n) : Cardinality(s) = m => e[s] = g[s]}
<1>1. 0 \in P
    BY GreatestPlace DEF GoOnAlike
<1>2. ASSUME NEW m \in Nat, m \in P PROVE m + 1 \in P
  <2>1. ASSUME NEW s \in SUBSET (1 .. n), Cardinality(s) = m + 1 PROVE e[s] = g[s]
    <3>1. s # {}
      <4>1. Cardinality({}) = 0 /\ m + 1 # 0
          BY <1>2, FS_EmptySet
      <4> QED BY <2>1, <4>1
    <3>2. Cardinality(s \ {Max(s)}) = Cardinality(s) - 1
        BY <3>1, GreatestPlace
    <3>3. Cardinality(s \ {Max(s)}) = m
        BY <1>2, <2>1, <3>2
    <3>4. e[s \ {Max(s)}] = g[s \ {Max(s)}]
        BY <1>2, <3>3
    <3> QED BY <3>1, <3>4 DEF GoOnAlike
  <2> QED BY <1>2, <2>1
<1>3. Nat \subseteq P
  <2> HIDE DEF P
  <2> QED BY <1>1, <1>2, Induction
<1>4. Cardinality(1 .. n) \in Nat
    BY FS_Interval, FS_CardinalityType
<1> QED BY <1>3, <1>4

-----------------------------------------------------------------------------
(* Loops written as functions of the number of steps done.                 *)

\* e holds the value of a loop after each of its first n steps.
LoopOf(e, base, step, n) ==
    e = [i \in 0 .. n |-> IF i = 0 THEN base ELSE step[<<e[i - 1], i>>]]

LEMMA LoopExists ==
    ASSUME NEW n \in Nat, NEW V, NEW base \in V, NEW step \in [V \X (1 .. n) -> V]
    PROVE  \E e \in [0 .. n -> V] : LoopOf(e, base, step, n)
<1> DEFINE Goes(e, m) == e[0] = base /\ \A i \in 1 .. m : e[i] = step[<<e[i - 1], i>>]
           P == {m \in Nat : m <= n => \E e \in [0 .. m -> V] : Goes(e, m)}
<1>1. 0 \in P
  <2> DEFINE e == [i \in 0 .. 0 |-> base]
  <2>1. e \in [0 .. 0 -> V] /\ e[0] = base /\ 1 .. 0 = {}
      OBVIOUS
  <2>2. Goes(e, 0)
      BY <2>1
  <2> QED BY <2>1, <2>2
<1>2. ASSUME NEW m \in Nat, m \in P PROVE m + 1 \in P
  <2>1. SUFFICES ASSUME m + 1 <= n PROVE \E e \in [0 .. m + 1 -> V] : Goes(e, m + 1)
      BY <1>2
  <2>2. PICK e \in [0 .. m -> V] : Goes(e, m)
      BY <1>2, <2>1
  <2>3. m + 1 \in 1 .. n /\ m \in 0 .. m
      BY <2>1
  <2>4. step[<<e[m], m + 1>>] \in V
      BY <2>2, <2>3
  <2> DEFINE d == [i \in 0 .. m + 1 |-> IF i = m + 1 THEN step[<<e[m], m + 1>>] ELSE e[i]]
  <2>5. d \in [0 .. m + 1 -> V]
    <3>1. ASSUME NEW i \in 0 .. m + 1, i # m + 1 PROVE e[i] \in V
      <4>1. i \in 0 .. m
          BY <3>1
      <4> QED BY <2>2, <4>1
    <3> QED BY <2>4, <3>1
  <2>6. d[0] = base
    <3>1. 0 \in 0 .. m + 1 /\ 0 # m + 1
        OBVIOUS
    <3> QED BY <2>2, <3>1
  <2>7. ASSUME NEW i \in 1 .. m + 1 PROVE d[i] = step[<<d[i - 1], i>>]
    <3>1. i \in 0 .. m + 1 /\ i - 1 \in 0 .. m + 1 /\ i - 1 # m + 1
        OBVIOUS
    <3>2. d[i - 1] = e[i - 1]
        BY <3>1
    <3>3. CASE i = m + 1
      <4>1. i - 1 = m
          BY <3>3
      <4> QED BY <3>1, <3>2, <3>3, <4>1
    <3>4. CASE i # m + 1
      <4>1. i \in 1 .. m
          BY <3>4
      <4> QED BY <2>2, <3>1, <3>2, <3>4, <4>1
    <3> QED BY <3>3, <3>4
  <2> HIDE DEF d
  <2>8. Goes(d, m + 1)
      BY <2>6, <2>7
  <2> QED BY <2>5, <2>8
<1>3. Nat \subseteq P
  <2> HIDE DEF P
  <2> QED BY <1>1, <1>2, Induction
<1>4. PICK e \in [0 .. n -> V] : Goes(e, n)
  <2>1. n \in P
    <3> HIDE DEF P
    <3> QED BY <1>3
  <2>2. n <= n
      OBVIOUS
  <2> HIDE DEF Goes
  <2> QED BY <2>1, <2>2
<1>5. e = [i \in 0 .. n |-> e[i]]
    OBVIOUS
<1>6. ASSUME NEW i \in 0 .. n PROVE e[i] = IF i = 0 THEN base ELSE step[<<e[i - 1], i>>]
  <2>1. i # 0 => i \in 1 .. n
      OBVIOUS
  <2> QED BY <1>4, <2>1
<1> HIDE DEF Goes
<1>7. LoopOf(e, base, step, n)
    BY <1>5, <1>6 DEF LoopOf
<1> QED BY <1>7
=============================================================================
