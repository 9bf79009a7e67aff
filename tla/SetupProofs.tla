---------------------------- MODULE SetupProofs ----------------------------
(***************************************************************************)
(* Proofs about the configuration of the program (module Setup).           *)
(***************************************************************************)
EXTENDS Setup, FoldLemmas

-----------------------------------------------------------------------------
(* The greatest common divisor: what the recursion of sche.c returns, by   *)
(* Bezout's identity.                                                      *)

Multiple(m, d) == \E k \in Int : m = d * k

IsGcd(d, a, b) ==
    /\ d \in Nat
    /\ Multiple(a, d)
    /\ Multiple(b, d)
    /\ \E u, v \in Int : d = u * a + v * b

\* Two numbers that divide each other are the same.
LEMMA DivideEachOther ==
    ASSUME NEW d \in Nat, NEW e \in Nat, Multiple(d, e), Multiple(e, d)
    PROVE  d = e
<1>1. PICK k \in Int : d = e * k
    BY DEF Multiple
<1>2. PICK l \in Int : e = d * l
    BY DEF Multiple
<1>3. CASE d = 0 \/ e = 0
    BY <1>1, <1>2, <1>3
<1>4. CASE d > 0 /\ e > 0
  <2>1. k >= 1
      BY <1>1, <1>4
  <2>2. l >= 1
      BY <1>2, <1>4
  <2>3. e * k >= e
      BY <2>1, <1>4
  <2>4. d * l >= d
      BY <2>2, <1>4
  <2> QED BY <1>1, <1>2, <2>3, <2>4
<1> QED BY <1>3, <1>4

\* A combination of multiples is a multiple.
LEMMA CombinationMultiple ==
    ASSUME NEW d \in Int, NEW a \in Int, NEW b \in Int, Multiple(a, d), Multiple(b, d),
           NEW u \in Int, NEW v \in Int
    PROVE  Multiple(u * a + v * b, d)
<1>1. PICK x \in Int : a = d * x
    BY DEF Multiple
<1>2. PICK y \in Int : b = d * y
    BY DEF Multiple
<1>3. u * (d * x) = d * (u * x) /\ v * (d * y) = d * (v * y)
    OBVIOUS
<1>4. d * (u * x) + d * (v * y) = d * (u * x + v * y)
    OBVIOUS
<1>5. u * x + v * y \in Int
    OBVIOUS
<1>6. u * a + v * b = d * (u * x + v * y)
    BY <1>1, <1>2, <1>3, <1>4
<1> QED BY <1>5, <1>6 DEF Multiple

LEMMA GcdUnique ==
    ASSUME NEW a \in Nat, NEW b \in Nat, NEW d, NEW e, IsGcd(d, a, b), IsGcd(e, a, b)
    PROVE  d = e
<1>1. PICK u \in Int, v \in Int : d = u * a + v * b
    BY DEF IsGcd
<1>2. PICK s \in Int, t \in Int : e = s * a + t * b
    BY DEF IsGcd
<1>3. d \in Nat /\ e \in Nat /\ Multiple(a, d) /\ Multiple(b, d) /\ Multiple(a, e) /\ Multiple(b, e)
    BY DEF IsGcd
<1>4. Multiple(u * a + v * b, e) /\ Multiple(s * a + t * b, d)
  <2>1. a \in Int /\ b \in Int /\ d \in Int /\ e \in Int
      BY <1>3
  <2>2. Multiple(u * a + v * b, e)
      BY <1>3, <2>1, CombinationMultiple
  <2>3. Multiple(s * a + t * b, d)
      BY <1>3, <2>1, CombinationMultiple
  <2> QED BY <2>2, <2>3
<1>5. Multiple(d, e) /\ Multiple(e, d)
    BY <1>1, <1>2, <1>4
<1> QED BY <1>3, <1>5, DivideEachOther

\* Dividing with remainder.
LEMMA Division ==
    ASSUME NEW a \in Nat \ {0}, NEW b \in Nat
    PROVE  /\ b % a \in Nat /\ b % a < a
           /\ b \div a \in Nat
           /\ b = a * (b \div a) + (b % a)
<1>1. b % a \in Nat /\ b % a < a
    OBVIOUS
<1>2. b \div a \in Nat
    OBVIOUS
<1>3. b = a * (b \div a) + (b % a)
    OBVIOUS
<1> QED BY <1>1, <1>2, <1>3

LEMMA GcdZero == ASSUME NEW b \in Nat PROVE IsGcd(b, 0, b)
<1>1. 0 = b * 0 /\ b = b * 1 /\ b = 0 * 0 + 1 * b
    OBVIOUS
<1> QED BY <1>1 DEF IsGcd, Multiple

\* One step of Euclid's algorithm.
LEMMA GcdStep ==
    ASSUME NEW a \in Nat \ {0}, NEW b \in Nat, NEW d, IsGcd(d, b % a, a)
    PROVE  IsGcd(d, a, b)
<1> DEFINE r == b % a
           q == b \div a
<1>1. r \in Nat /\ q \in Nat /\ b = a * q + r
    BY Division
<1> HIDE DEF r, q
<1>2. d \in Nat /\ Multiple(r, d) /\ Multiple(a, d)
    BY DEF IsGcd, r
<1>3. PICK u \in Int, v \in Int : d = u * r + v * a
    BY DEF IsGcd, r
<1>4. Multiple(q * a + 1 * r, d)
  <2>1. d \in Int /\ r \in Int /\ a \in Int /\ q \in Int /\ 1 \in Int
      BY <1>1, <1>2
  <2> QED BY <1>2, <2>1, CombinationMultiple
<1>5. Multiple(b, d)
  <2>1. b = q * a + 1 * r
      BY <1>1
  <2> QED BY <1>4, <2>1
<1>6. d = (v - u * q) * a + u * b
  <2>1. u * b = u * (a * q) + u * r
      BY <1>1
  <2>2. (v - u * q) * a = v * a - (u * q) * a
      BY <1>1
  <2>3. u * (a * q) = (u * q) * a
      BY <1>1
  <2> DEFINE w == (u * q) * a
             z == u * r
             y == v * a
  <2>4. w \in Int /\ z \in Int /\ y \in Int
      BY <1>1
  <2>5. u * b = w + z /\ (v - u * q) * a = y - w /\ d = z + y
      BY <2>1, <2>2, <2>3, <1>3
  <2> HIDE DEF w, z, y
  <2> QED BY <2>4, <2>5
<1>7. v - u * q \in Int
    BY <1>1
<1> QED BY <1>2, <1>5, <1>6, <1>7 DEF IsGcd

\* Every two numbers have a greatest common divisor.
LEMMA GcdExists == \A a, b \in Nat : \E d : IsGcd(d, a, b)
<1> DEFINE P == {n \in Nat : \A a \in 0 .. n, b \in Nat : \E d : IsGcd(d, a, b)}
<1>1. 0 \in P
    BY GcdZero
<1>2. ASSUME NEW n \in Nat, n \in P PROVE n + 1 \in P
  <2>1. ASSUME NEW b \in Nat PROVE \E d : IsGcd(d, n + 1, b)
    <3>1. n + 1 \in Nat \ {0}
        BY <1>2
    <3>2. b % (n + 1) \in 0 .. n
        BY <3>1, Division
    <3>3. PICK d : IsGcd(d, b % (n + 1), n + 1)
        BY <1>2, <3>1, <3>2
    <3> QED BY <3>1, <3>3, GcdStep
  <2>2. \A a \in 0 .. n + 1 : a \in 0 .. n \/ a = n + 1
      BY <1>2
  <2> QED BY <1>2, <2>1, <2>2
<1>3. Nat \subseteq P
  <2> HIDE DEF P
  <2> QED BY <1>1, <1>2, Induction
<1>4. ASSUME NEW a \in Nat, NEW b \in Nat PROVE \E d : IsGcd(d, a, b)
  <2>1. a \in P /\ a \in 0 .. a
      BY <1>3
  <2> QED BY <2>1
<1> QED BY <1>4

GcdOf(a, b) == CHOOSE d : IsGcd(d, a, b)

LEMMA GcdOfIsGcd ==
    ASSUME NEW a \in Nat, NEW b \in Nat PROVE IsGcd(GcdOf(a, b), a, b)
BY GcdExists DEF GcdOf

\* gcd terminates and satisfies its own equation.
LEMMA GcdEquation ==
    ASSUME NEW a \in Nat, NEW b \in Nat
    PROVE  gcd[<<a, b>>] = IF a = 0 THEN b ELSE gcd[<<b % a, a>>]
<1> DEFINE h == [p \in Nat \X Nat |-> GcdOf(p[1], p[2])]
<1>1. ASSUME NEW x \in Nat, NEW y \in Nat
      PROVE  GcdOf(x, y) = IF x = 0 THEN y ELSE h[<<y % x, x>>]
  <2>1. CASE x = 0
      BY <2>1, GcdOfIsGcd, GcdZero, GcdUnique
  <2>2. CASE x # 0
    <3>1. x \in Nat \ {0} /\ y % x \in Nat
        BY <2>2, Division
    <3>2. IsGcd(GcdOf(y % x, x), x, y)
        BY <3>1, GcdOfIsGcd, GcdStep
    <3>3. GcdOf(x, y) = GcdOf(y % x, x)
        BY <3>2, GcdOfIsGcd, GcdUnique
    <3>4. h[<<y % x, x>>] = GcdOf(y % x, x)
        BY <3>1
    <3> QED BY <2>2, <3>3, <3>4
  <2> QED BY <2>1, <2>2
<1>2. h = [p \in Nat \X Nat |-> IF p[1] = 0 THEN p[2] ELSE h[<<p[2] % p[1], p[1]>>]]
  <2>1. \A p \in Nat \X Nat : p[1] \in Nat /\ p[2] \in Nat
      OBVIOUS
  <2> QED BY <1>1, <2>1
<1>3. gcd = [p \in Nat \X Nat |-> IF p[1] = 0 THEN p[2] ELSE gcd[<<p[2] % p[1], p[1]>>]]
  <2> HIDE DEF h
  <2> QED BY <1>2 DEF gcd
<1>4. <<a, b>> \in Nat \X Nat
    OBVIOUS
<1> QED BY <1>3, <1>4

\* What gcd returns.
LEMMA GcdCorrect ==
    ASSUME NEW a \in Nat, NEW b \in Nat PROVE IsGcd(gcd[<<a, b>>], a, b)
<1> DEFINE P == {n \in Nat : \A x \in 0 .. n, y \in Nat : IsGcd(gcd[<<x, y>>], x, y)}
<1>1. 0 \in P
  <2>1. ASSUME NEW y \in Nat PROVE IsGcd(gcd[<<0, y>>], 0, y)
      BY GcdZero, GcdEquation
  <2> QED BY <2>1
<1>2. ASSUME NEW n \in Nat, n \in P PROVE n + 1 \in P
  <2>1. ASSUME NEW y \in Nat PROVE IsGcd(gcd[<<n + 1, y>>], n + 1, y)
    <3>1. n + 1 \in Nat \ {0} /\ n + 1 # 0
        BY <1>2
    <3>2. y % (n + 1) \in 0 .. n
        BY <3>1, Division
    <3>3. IsGcd(gcd[<<y % (n + 1), n + 1>>], y % (n + 1), n + 1)
        BY <1>2, <3>1, <3>2
    <3>4. gcd[<<n + 1, y>>] = gcd[<<y % (n + 1), n + 1>>]
        BY <3>1, GcdEquation
    <3> QED BY <3>1, <3>3, <3>4, GcdStep
  <2>2. \A x \in 0 .. n + 1 : x \in 0 .. n \/ x = n + 1
      BY <1>2
  <2> QED BY <1>2, <2>1, <2>2
<1>3. Nat \subseteq P
  <2> HIDE DEF P
  <2> QED BY <1>1, <1>2, Induction
<1>4. a \in P /\ a \in 0 .. a
    BY <1>3
<1> QED BY <1>4

-----------------------------------------------------------------------------
(* The cycle: the least common multiple of the periods.                    *)

LEMMA GcdPositive ==
    ASSUME NEW a \in Nat, NEW b \in Nat \ {0}
    PROVE  gcd[<<a, b>>] \in Nat \ {0}
<1>1. IsGcd(gcd[<<a, b>>], a, b)
    BY GcdCorrect
<1>2. gcd[<<a, b>>] \in Nat /\ Multiple(b, gcd[<<a, b>>])
    BY <1>1 DEF IsGcd
<1>3. PICK k \in Int : b = gcd[<<a, b>>] * k
    BY <1>2 DEF Multiple
<1> QED BY <1>2, <1>3

\* What lcm computes before the result is cut to a word.
Lcm(a, b) == (a \div gcd[<<a, b>>]) * b

LEMMA LcmNat ==
    ASSUME NEW a \in Nat, NEW b \in Nat \ {0}
    PROVE  /\ Lcm(a, b) \in Nat
           /\ lcm(a, b) \in 0 .. WORD - 1
           /\ Lcm(a, b) < WORD => lcm(a, b) = Lcm(a, b)
<1>1. gcd[<<a, b>>] \in Nat \ {0}
    BY GcdPositive
<1>2. a \div gcd[<<a, b>>] \in Nat
    BY <1>1, Division
<1>3. Lcm(a, b) \in Nat
    BY <1>2 DEF Lcm
<1>4. lcm(a, b) = Lcm(a, b) % WORD
    BY DEF lcm, Lcm
<1> QED BY <1>3, <1>4, WordAssumption

\* A positive multiple is no smaller.
LEMMA MultipleNoSmaller ==
    ASSUME NEW m \in Nat \ {0}, NEW d \in Nat, Multiple(m, d)
    PROVE  d <= m /\ d # 0
<1>1. PICK k \in Int : m = d * k
    BY DEF Multiple
<1>2. d # 0 /\ k >= 1
    BY <1>1
<1>3. d * k >= d
    BY <1>2
<1> QED BY <1>1, <1>2, <1>3

LEMMA LcmLeast ==
    ASSUME NEW a \in Nat \ {0}, NEW b \in Nat \ {0}
    PROVE  /\ Lcm(a, b) \in Nat \ {0}
           /\ Multiple(Lcm(a, b), a)
           /\ Multiple(Lcm(a, b), b)
           /\ \A m \in Int : Multiple(m, a) /\ Multiple(m, b) => Multiple(m, Lcm(a, b))
<1> DEFINE g == gcd[<<a, b>>]
<1>1. IsGcd(g, a, b) /\ g \in Nat \ {0}
    BY GcdCorrect, GcdPositive
<1> HIDE DEF g
<1>2. PICK x \in Int : a = g * x
    BY <1>1 DEF IsGcd, Multiple
<1>3. PICK y \in Int : b = g * y
    BY <1>1 DEF IsGcd, Multiple
<1>4. PICK u \in Int, v \in Int : g = u * a + v * b
    BY <1>1 DEF IsGcd
<1>5. x \in Nat \ {0} /\ y \in Nat \ {0}
    BY <1>1, <1>2, <1>3
<1>6. a \div g = x
  <2>1. (g * x + 0) \div g = x
      BY <1>1, <1>5
  <2> QED BY <1>2, <2>1
<1>7. Lcm(a, b) = x * b
    BY <1>6 DEF Lcm, g
<1>8. Lcm(a, b) = a * y
  <2>1. x * (g * y) = (g * x) * y
      BY <1>1
  <2> QED BY <1>2, <1>3, <1>7, <2>1
<1>9. Multiple(Lcm(a, b), a) /\ Multiple(Lcm(a, b), b)
  <2>1. Lcm(a, b) = b * x
      BY <1>7
  <2> QED BY <1>8, <2>1 DEF Multiple
<1>10. x * b \in Nat \ {0}
    BY <1>5
<1>11. ASSUME NEW m \in Int, Multiple(m, a), Multiple(m, b) PROVE Multiple(m, Lcm(a, b))
  <2>1. PICK i \in Int : m = a * i
      BY <1>11 DEF Multiple
  <2>2. PICK j \in Int : m = b * j
      BY <1>11 DEF Multiple
  <2> DEFINE w == u * j + v * i
  <2>3. w \in Int
      OBVIOUS
  <2>4. m * g = m * (u * a) + m * (v * b)
    <3>1. m * (u * a + v * b) = m * (u * a) + m * (v * b)
        OBVIOUS
    <3> QED BY <1>4, <3>1
  <2>5. m * (u * a) = (a * b) * (u * j)
    <3>1. (b * j) * (u * a) = (a * b) * (u * j)
        OBVIOUS
    <3> QED BY <2>2, <3>1
  <2>6. m * (v * b) = (a * b) * (v * i)
    <3>1. (a * i) * (v * b) = (a * b) * (v * i)
        OBVIOUS
    <3> QED BY <2>1, <3>1
  <2>7. m * g = (a * b) * w
    <3>1. (a * b) * (u * j) + (a * b) * (v * i) = (a * b) * w
        OBVIOUS
    <3> QED BY <2>4, <2>5, <2>6, <3>1
  <2> HIDE DEF w
  <2>8. (a * b) * w = ((x * b) * w) * g
    <3>1. ((g * x) * b) * w = ((x * b) * w) * g
        BY <1>1, <2>3
    <3> QED BY <1>2, <3>1
  <2> DEFINE z == (x * b) * w
  <2>9. z \in Int
      BY <2>3
  <2>10. m * g = z * g
      BY <2>7, <2>8
  <2> HIDE DEF z
  <2>11. m = z
      BY <1>1, <2>9, <2>10
  <2> QED BY <1>7, <2>3, <2>11 DEF Multiple, z
<1> QED BY <1>7, <1>9, <1>10, <1>11

-----------------------------------------------------------------------------
(* The folds over the flow table.                                          *)

\* A flow as main() has it: its fields in the range of their types.
FlowType ==
    [port : Ports, queue : 0 .. NUM_TX_QUEUE - 1, vlan : BOOLEAN, ip : BOOLEAN,
     period : 1 .. WORD - 1, offset : 0 .. WORD - 1, size : Nat]

Period(fs, i) == fs[i].period

\* g holds the cycle over the first flows, one more at every place.
CyclesUpTo(g, fs) ==
    /\ g[0] = Period(fs, 1)
    /\ \A k \in 0 .. Len(fs) - 2 : g[k + 1] = lcm(g[k], Period(fs, k + 2))

\* g holds the number of frames of queue q among the first flows, as an int.
FramesUpTo(g, fs, cycle, q) ==
    /\ g[0] = 0
    /\ \A k \in 0 .. Len(fs) - 1 :
          g[k + 1] = IF fs[k + 1].queue = q THEN ToInt(g[k] + cycle \div fs[k + 1].period)
                     ELSE g[k]

\* Whole turns do not change a remainder.
LEMMA RemainderTurns ==
    ASSUME NEW M \in Nat \ {0}, NEW k \in Int, NEW z \in Int PROVE (M * k + z) % M = z % M
<1> DEFINE r == z % M
           j == z \div M
           x == M * k + z
           t == x % M
           l == x \div M
<1>1. r \in Int /\ 0 <= r /\ r < M /\ j \in Int /\ z = M * j + r
    OBVIOUS
<1>2. x \in Int /\ x = M * k + z
    OBVIOUS
<1> HIDE DEF x
<1>3. t \in Int /\ 0 <= t /\ t < M /\ l \in Int /\ x = M * l + t
    BY <1>2
<1> HIDE DEF r, j, t, l
<1> DEFINE d == l - (k + j)
<1>4. d \in Int /\ M * d = M * l - (M * k + M * j)
    BY <1>1, <1>3
<1>5. M * l \in Int /\ M * k \in Int /\ M * j \in Int
    BY <1>1, <1>3
<1>6. M * d = r - t
    BY <1>1, <1>2, <1>3, <1>4, <1>5
<1> HIDE DEF d
<1>7. d = 0
  <2>1. d >= 1 => M * d >= M
      BY <1>4
  <2>2. d <= -1 => M * d <= -M
      BY <1>4
  <2>3. M * d < M /\ M * d > -M
      BY <1>1, <1>3, <1>6
  <2>4. M * d \in Int
      BY <1>4
  <2> QED BY <1>4, <2>1, <2>2, <2>3, <2>4
<1>8. M * 0 = 0
    OBVIOUS
<1>9. r = t
    BY <1>1, <1>3, <1>6, <1>7, <1>8
<1> QED BY <1>9 DEF r, t, x

\* An int is in its range, keeps the numbers that are, and loses nothing that a later
\* sum of ints would tell.
LEMMA ToIntRange ==
    ASSUME NEW x \in Int PROVE ToInt(x) \in Int /\ -INT_HALF <= ToInt(x) /\ ToInt(x) < INT_HALF
<1> DEFINE M == 2 * INT_HALF
           y == x + INT_HALF
           r == y % M
<1>1. M \in Nat \ {0} /\ y \in Int /\ INT_HALF \in Nat \ {0} /\ M = INT_HALF + INT_HALF
    BY WordAssumption
<1>2. ToInt(x) = r - INT_HALF
    BY DEF ToInt
<1> HIDE DEF M, y
<1>3. r \in 0 .. M - 1
    BY <1>1
<1> HIDE DEF r
<1> QED BY <1>1, <1>2, <1>3

LEMMA ToIntSmall ==
    ASSUME NEW x \in Int, -INT_HALF <= x, x < INT_HALF PROVE ToInt(x) = x
<1> DEFINE M == 2 * INT_HALF
           y == x + INT_HALF
<1>1. M \in Nat \ {0} /\ y \in Int /\ 0 <= y /\ y < M /\ y - INT_HALF = x
    BY WordAssumption
<1>2. ToInt(x) = (y % M) - INT_HALF
    BY DEF ToInt
<1> HIDE DEF M, y
<1>3. y % M = y
    BY <1>1
<1> QED BY <1>1, <1>2, <1>3

LEMMA ToIntAdd ==
    ASSUME NEW x \in Int, NEW b \in Int PROVE ToInt(ToInt(x) + b) = ToInt(x + b)
<1> DEFINE M == 2 * INT_HALF
           y == x + INT_HALF
           r == y % M
           k == y \div M
<1>1. M \in Nat \ {0} /\ y \in Int /\ INT_HALF \in Nat \ {0} /\ (x + b) + INT_HALF = y + b
    BY WordAssumption
<1>2. ToInt(x) = r - INT_HALF /\ ToInt(x + b) = ((y + b) % M) - INT_HALF
    BY <1>1 DEF ToInt
<1>3. ToInt(ToInt(x) + b) = (((ToInt(x) + b) + INT_HALF) % M) - INT_HALF
    BY DEF ToInt
<1> HIDE DEF M, y
<1>4. r \in Int /\ k \in Int /\ M * k \in Int /\ y = M * k + r
    BY <1>1
<1> HIDE DEF r, k
<1>5. (ToInt(x) + b) + INT_HALF = r + b
    BY <1>1, <1>2, <1>4
<1>6. y + b = M * k + (r + b)
    BY <1>4
<1>7. \A z \in Int : (M * k + z) % M = z % M
    BY <1>1, <1>4, RemainderTurns
<1>8. (y + b) % M = (r + b) % M
  <2>1. r + b \in Int
      BY <1>4
  <2> QED BY <1>6, <1>7, <2>1
<1> QED BY <1>2, <1>3, <1>5, <1>8

LEMMA PeriodRange ==
    ASSUME NEW fs \in Seq(FlowType), NEW i \in 1 .. Len(fs)
    PROVE  fs[i] \in FlowType /\ Period(fs, i) \in Nat \ {0} /\ Period(fs, i) < WORD
<1>1. fs[i] \in FlowType
    OBVIOUS
<1>2. fs[i].period \in 1 .. WORD - 1
    BY <1>1 DEF FlowType
<1> QED BY <1>1, <1>2, WordAssumption DEF Period

\* calculate_cycle folds lcm over the periods.
LEMMA CycleFold ==
    ASSUME NEW fs \in Seq(FlowType), fs # <<>>
    PROVE  \E g \in [0 .. Len(fs) - 1 -> Nat] :
              CyclesUpTo(g, fs) /\ calculate_cycle(fs) = g[Len(fs) - 1]
<1> DEFINE n    == Len(fs) - 1
           rest == Tail(Periods(fs))
           step == [p \in Nat \X (1 .. n) |-> lcm(p[1], rest[p[2]])]
           base == Head(Periods(fs))
           iter == CHOOSE e : e = [s \in SUBSET (DOMAIN rest) |->
                        IF s = {} THEN base ELSE lcm(e[s \ {Max(s)}], rest[Max(s)])]
<1>1. Len(fs) \in Nat \ {0} /\ n \in Nat /\ DOMAIN fs = 1 .. Len(fs)
    OBVIOUS
<1>2. /\ base = Period(fs, 1)
      /\ DOMAIN rest = 1 .. n
      /\ \A i \in 1 .. n : rest[i] = Period(fs, i + 1)
  <2>1. Periods(fs) = [i \in 1 .. Len(fs) |-> Period(fs, i)]
      BY <1>1 DEF Periods, Period
  <2>2. Periods(fs) \in Seq(Nat) /\ Len(Periods(fs)) = Len(fs)
      BY <1>1, <2>1, PeriodRange
  <2>3. Periods(fs) # <<>> /\ Len(rest) = n /\ rest \in Seq(Nat)
      BY <1>1, <2>2
  <2>4. \A i \in 1 .. n : rest[i] = Periods(fs)[i + 1]
      BY <1>1, <2>2, <2>3
  <2>5. \A i \in 1 .. n : i + 1 \in 1 .. Len(fs)
      BY <1>1
  <2> QED BY <1>1, <2>1, <2>2, <2>3, <2>4, <2>5
<1>3. calculate_cycle(fs) = iter[DOMAIN rest]
    BY DEF calculate_cycle, lcm_of_array, FoldLeft, MapThenFoldSet
<1> HIDE DEF rest, base, n
<1>4. base \in Nat /\ \A i \in 1 .. n : rest[i] \in Nat \ {0}
  <2>1. 1 \in 1 .. Len(fs) /\ \A i \in 1 .. n : i + 1 \in 1 .. Len(fs)
      BY <1>1 DEF n
  <2> QED BY <1>2, <2>1, PeriodRange
<1>5. step \in [Nat \X (1 .. n) -> Nat]
  <2>1. ASSUME NEW v \in Nat, NEW i \in 1 .. n PROVE lcm(v, rest[i]) \in Nat
    <3>1. lcm(v, rest[i]) \in 0 .. WORD - 1
        BY <1>4, LcmNat
    <3> QED BY <3>1, WordAssumption
  <2> QED BY <2>1
<1>6. PICK e \in [SUBSET (1 .. n) -> Nat] : FoldOf(e, base, step, SUBSET (1 .. n))
  <2> HIDE DEF step
  <2> QED BY <1>1, <1>4, <1>5, FoldExists
<1>7. \A s \in SUBSET (1 .. n) : s # {} =>
          /\ <<e[s \ {Max(s)}], Max(s)>> \in Nat \X (1 .. n)
          /\ step[<<e[s \ {Max(s)}], Max(s)>>] = lcm(e[s \ {Max(s)}], rest[Max(s)])
  <2>1. ASSUME NEW s \in SUBSET (1 .. n), s # {}
        PROVE  <<e[s \ {Max(s)}], Max(s)>> \in Nat \X (1 .. n)
    <3>1. Max(s) \in s
        BY <1>1, <2>1, GreatestPlace
    <3>2. s \ {Max(s)} \in SUBSET (1 .. n)
        OBVIOUS
    <3> QED BY <1>6, <3>1, <3>2
  <2> QED BY <2>1
<1>8. e = [s \in SUBSET (DOMAIN rest) |->
              IF s = {} THEN base ELSE lcm(e[s \ {Max(s)}], rest[Max(s)])]
  <2> HIDE DEF step
  <2> QED BY <1>2, <1>6, <1>7 DEF FoldOf
<1>9. iter = [s \in SUBSET (DOMAIN rest) |->
              IF s = {} THEN base ELSE lcm(iter[s \ {Max(s)}], rest[Max(s)])]
    BY <1>8
<1> HIDE DEF iter
<1>10. iter[DOMAIN rest] = e[1 .. n]
  <2>1. GoOnAlike(iter, e, SUBSET (1 .. n))
    <3>1. iter[{}] = base /\ e[{}] = base
        BY <1>2, <1>8, <1>9
    <3>2. ASSUME NEW s \in SUBSET (1 .. n), s # {}, iter[s \ {Max(s)}] = e[s \ {Max(s)}]
          PROVE  iter[s] = e[s]
      <4>1. e[s] = lcm(e[s \ {Max(s)}], rest[Max(s)])
          BY <1>2, <1>8, <3>2
      <4>2. iter[s] = lcm(iter[s \ {Max(s)}], rest[Max(s)])
          BY <1>2, <1>9, <3>2
      <4> QED BY <3>2, <4>1, <4>2
    <3> QED BY <3>1, <3>2 DEF GoOnAlike
  <2> QED BY <1>1, <1>2, <2>1, FoldUnique DEF n
<1>prefix. PrefixByPrefix(e, base, step, n)
  <2>1. n \in Nat /\ FoldOf(e, base, step, SUBSET (1 .. n))
      BY <1>1, <1>6
  <2> HIDE DEF step
  <2> QED BY <2>1, FoldPrefix
<1> DEFINE g == [k \in 0 .. n |-> e[1 .. k]]
<1>11. g \in [0 .. n -> Nat]
  <2>1. ASSUME NEW k \in 0 .. n PROVE e[1 .. k] \in Nat
    <3>1. 1 .. k \in SUBSET (1 .. n)
        BY <1>1
    <3> HIDE DEF step
    <3> QED BY <1>6, <3>1
  <2> QED BY <2>1
<1>12. g[n] = e[1 .. n] /\ g[0] = base
  <2>1. 1 .. 0 = {} /\ 0 \in 0 .. n /\ n \in 0 .. n
      BY <1>1
  <2>2. e[{}] = base
      BY <1>prefix DEF PrefixByPrefix
  <2> QED BY <2>1, <2>2
<1>13. ASSUME NEW k \in 0 .. Len(fs) - 2 PROVE g[k + 1] = lcm(g[k], Period(fs, k + 2))
  <2>1. k \in 0 .. n - 1 /\ k \in 0 .. n /\ k + 1 \in 0 .. n /\ k + 1 \in 1 .. n /\ (k + 1) + 1 = k + 2
      BY <1>1 DEF n
  <2>2. e[1 .. k + 1] = step[<<e[1 .. k], k + 1>>]
    <3> HIDE DEF step
    <3> QED BY <1>prefix, <2>1 DEF PrefixByPrefix
  <2>3. e[1 .. k] \in Nat
    <3>1. 1 .. k \in SUBSET (1 .. n)
        BY <1>1, <2>1
    <3> HIDE DEF step
    <3> QED BY <1>6, <3>1
  <2>4. step[<<e[1 .. k], k + 1>>] = lcm(e[1 .. k], rest[k + 1])
      BY <2>1, <2>3
  <2>5. rest[k + 1] = Period(fs, k + 2)
      BY <1>2, <2>1
  <2>6. g[k] = e[1 .. k] /\ g[k + 1] = e[1 .. k + 1]
      BY <2>1
  <2> HIDE DEF step, g
  <2> QED BY <2>2, <2>4, <2>5, <2>6
<1> HIDE DEF g
<1>14. CyclesUpTo(g, fs) /\ calculate_cycle(fs) = g[n]
    BY <1>2, <1>3, <1>10, <1>12, <1>13 DEF CyclesUpTo
<1> QED BY <1>11, <1>14 DEF n

\* calculate_num_frames_per_queue adds up the frames of the queue's flows in an int.
LEMMA FramesFold ==
    ASSUME NEW fs \in Seq(FlowType), NEW cycle \in Nat, NEW q
    PROVE  \E g \in [0 .. Len(fs) -> Int] :
              /\ FramesUpTo(g, fs, cycle, q)
              /\ calculate_num_frames_per_queue(fs, cycle, q) = g[Len(fs)]
<1> DEFINE n       == Len(fs)
           more(v, i) == IF fs[i].queue = q THEN ToInt(v + cycle \div fs[i].period) ELSE v
           step    == [p \in Int \X (1 .. n) |-> more(p[1], p[2])]
           iter    == CHOOSE e : e = [s \in SUBSET (DOMAIN fs) |->
                        IF s = {} THEN 0 ELSE more(e[s \ {Max(s)}], Max(s))]
<1>1. n \in Nat /\ DOMAIN fs = 1 .. n
    OBVIOUS
<1>2. calculate_num_frames_per_queue(fs, cycle, q) = iter[DOMAIN fs]
    BY DEF calculate_num_frames_per_queue, FoldLeft, MapThenFoldSet
<1>3. \A v \in Int, i \in 1 .. n : more(v, i) \in Int
  <2>1. ASSUME NEW v \in Int, NEW i \in 1 .. n PROVE more(v, i) \in Int
    <3>1. fs[i].period \in Nat \ {0}
        BY PeriodRange DEF Period
    <3>2. cycle \div fs[i].period \in Nat
        BY <3>1, Division
    <3>3. v + cycle \div fs[i].period \in Int
        BY <3>2
    <3> QED BY <3>3, ToIntRange
  <2> QED BY <2>1
<1> HIDE DEF n, more
<1>4. step \in [Int \X (1 .. n) -> Int]
    BY <1>3
<1>5. PICK e \in [SUBSET (1 .. n) -> Int] : FoldOf(e, 0, step, SUBSET (1 .. n))
  <2>1. 0 \in Int
      OBVIOUS
  <2> HIDE DEF step
  <2> QED BY <1>1, <1>4, <2>1, FoldExists
<1>6. \A s \in SUBSET (1 .. n) : s # {} =>
          /\ <<e[s \ {Max(s)}], Max(s)>> \in Int \X (1 .. n)
          /\ step[<<e[s \ {Max(s)}], Max(s)>>] = more(e[s \ {Max(s)}], Max(s))
  <2>1. ASSUME NEW s \in SUBSET (1 .. n), s # {}
        PROVE  <<e[s \ {Max(s)}], Max(s)>> \in Int \X (1 .. n)
    <3>1. Max(s) \in s
        BY <1>1, <2>1, GreatestPlace
    <3>2. s \ {Max(s)} \in SUBSET (1 .. n)
        OBVIOUS
    <3> QED BY <1>5, <3>1, <3>2
  <2> QED BY <2>1
<1>7. e = [s \in SUBSET (DOMAIN fs) |-> IF s = {} THEN 0 ELSE more(e[s \ {Max(s)}], Max(s))]
  <2> HIDE DEF step
  <2> QED BY <1>1, <1>5, <1>6 DEF FoldOf
<1>8. iter = [s \in SUBSET (DOMAIN fs) |->
                 IF s = {} THEN 0 ELSE more(iter[s \ {Max(s)}], Max(s))]
    BY <1>7
<1> HIDE DEF iter
<1>9. iter[DOMAIN fs] = e[1 .. n]
  <2>1. GoOnAlike(iter, e, SUBSET (1 .. n))
    <3>1. iter[{}] = 0 /\ e[{}] = 0
        BY <1>7, <1>8
    <3>2. ASSUME NEW s \in SUBSET (1 .. n), s # {}, iter[s \ {Max(s)}] = e[s \ {Max(s)}]
          PROVE  iter[s] = e[s]
      <4>1. e[s] = more(e[s \ {Max(s)}], Max(s))
          BY <1>1, <1>7, <3>2
      <4>2. iter[s] = more(iter[s \ {Max(s)}], Max(s))
          BY <1>1, <1>8, <3>2
      <4> QED BY <3>2, <4>1, <4>2
    <3> QED BY <3>1, <3>2 DEF GoOnAlike
  <2> QED BY <1>1, <2>1, FoldUnique
<1>prefix. PrefixByPrefix(e, 0, step, n)
  <2>1. n \in Nat /\ FoldOf(e, 0, step, SUBSET (1 .. n))
      BY <1>1, <1>5
  <2> HIDE DEF step
  <2> QED BY <2>1, FoldPrefix
<1> DEFINE g == [k \in 0 .. n |-> e[1 .. k]]
<1>10. g \in [0 .. n -> Int]
  <2>1. ASSUME NEW k \in 0 .. n PROVE e[1 .. k] \in Int
    <3>1. 1 .. k \in SUBSET (1 .. n)
        BY <1>1
    <3> HIDE DEF step
    <3> QED BY <1>5, <3>1
  <2> QED BY <2>1
<1>11. g[n] = e[1 .. n] /\ g[0] = 0
  <2>1. 1 .. 0 = {} /\ 0 \in 0 .. n /\ n \in 0 .. n
      BY <1>1
  <2>2. e[{}] = 0
      BY <1>prefix DEF PrefixByPrefix
  <2> QED BY <2>1, <2>2
<1>12. ASSUME NEW k \in 0 .. n - 1 PROVE g[k + 1] = more(g[k], k + 1)
  <2>1. k \in 0 .. n /\ k + 1 \in 0 .. n /\ k + 1 \in 1 .. n
      BY <1>1
  <2>2. e[1 .. k + 1] = step[<<e[1 .. k], k + 1>>]
    <3> HIDE DEF step
    <3> QED BY <1>prefix, <2>1 DEF PrefixByPrefix
  <2>3. e[1 .. k] \in Int
    <3>1. 1 .. k \in SUBSET (1 .. n)
        BY <1>1, <2>1
    <3> HIDE DEF step
    <3> QED BY <1>5, <3>1
  <2>4. step[<<e[1 .. k], k + 1>>] = more(e[1 .. k], k + 1)
      BY <2>1, <2>3
  <2>5. g[k] = e[1 .. k] /\ g[k + 1] = e[1 .. k + 1]
      BY <2>1
  <2> HIDE DEF step, g
  <2> QED BY <2>2, <2>4, <2>5
<1> HIDE DEF g
<1>13. FramesUpTo(g, fs, cycle, q)
  <2>1. \A k \in 0 .. n - 1 : g[k + 1] = more(g[k], k + 1)
      BY <1>12
  <2> QED BY <1>11, <2>1 DEF FramesUpTo, n, more
<1> QED BY <1>2, <1>9, <1>10, <1>11, <1>13 DEF n

LEMMA MultipleTransitive ==
    ASSUME NEW a \in Int, NEW b \in Int, NEW c \in Int, Multiple(a, b), Multiple(b, c)
    PROVE  Multiple(a, c)
<1>1. PICK k \in Int : a = b * k
    BY DEF Multiple
<1>2. PICK l \in Int : b = c * l
    BY DEF Multiple
<1>3. (c * l) * k = c * (l * k) /\ l * k \in Int
    OBVIOUS
<1> QED BY <1>1, <1>2, <1>3 DEF Multiple

LEMMA MultipleRemainder ==
    ASSUME NEW m \in Nat, NEW p \in Nat \ {0}
    PROVE  m % p = 0 <=> Multiple(m, p)
<1>1. ASSUME m % p = 0 PROVE Multiple(m, p)
  <2>1. m = p * (m \div p) /\ m \div p \in Int
      BY <1>1, Division
  <2> QED BY <2>1 DEF Multiple
<1>2. ASSUME Multiple(m, p) PROVE m % p = 0
  <2>1. PICK k \in Int : m = p * k
      BY <1>2 DEF Multiple
  <2>2. (p * k + 0) % p = 0
      OBVIOUS
  <2> QED BY <2>1, <2>2
<1> QED BY <1>1, <1>2

\* x is a multiple of the periods of the first k flows.
OfFirst(x, fs, k) == \A i \in 1 .. k : Multiple(x, Period(fs, i))

\* c is the least common multiple of these periods, by divisibility.
LeastOfFirst(c, fs, k) ==
    /\ c \in Nat \ {0} /\ c < WORD
    /\ OfFirst(c, fs, k)
    /\ \A j \in Nat \ {0} : OfFirst(j, fs, k) => Multiple(j, c)

LEMMA CycleStep ==
    ASSUME NEW fs \in Seq(FlowType), NEW m \in Nat \ {0}, m < WORD, OfFirst(m, fs, Len(fs)),
           NEW k \in Nat, k + 2 <= Len(fs), NEW c, LeastOfFirst(c, fs, k + 1)
    PROVE  LeastOfFirst(lcm(c, Period(fs, k + 2)), fs, k + 2)
<1> DEFINE p == Period(fs, k + 2)
           L == Lcm(c, p)
<1>1. k + 2 \in 1 .. Len(fs) /\ 1 .. k + 1 \subseteq 1 .. Len(fs)
    OBVIOUS
<1>2. p \in Nat \ {0}
    BY <1>1, PeriodRange
<1>3. \A i \in 1 .. Len(fs) : Period(fs, i) \in Nat \ {0}
    BY PeriodRange
<1> HIDE DEF p
<1>4. c \in Nat \ {0} /\ c < WORD
    BY DEF LeastOfFirst
<1>5. /\ L \in Nat \ {0}
      /\ Multiple(L, c)
      /\ Multiple(L, p)
      /\ \A j \in Int : Multiple(j, c) /\ Multiple(j, p) => Multiple(j, L)
    BY <1>2, <1>4, LcmLeast
<1>6. L < WORD => lcm(c, p) = L
    BY <1>2, <1>4, LcmNat
<1> HIDE DEF L
<1>7. ASSUME NEW j \in Nat \ {0}, OfFirst(j, fs, k + 2) PROVE Multiple(j, L)
  <2>1. OfFirst(j, fs, k + 1) /\ Multiple(j, p)
    <3>1. 1 .. k + 1 \subseteq 1 .. k + 2 /\ k + 2 \in 1 .. k + 2
        OBVIOUS
    <3> QED BY <1>7, <3>1 DEF OfFirst, p
  <2>2. Multiple(j, c)
      BY <2>1 DEF LeastOfFirst
  <2> QED BY <1>5, <2>1, <2>2
<1>8. OfFirst(m, fs, k + 2)
  <2>1. 1 .. k + 2 \subseteq 1 .. Len(fs)
      OBVIOUS
  <2> QED BY <2>1 DEF OfFirst
<1>9. L <= m
    BY <1>5, <1>7, <1>8, MultipleNoSmaller
<1>10. lcm(c, p) = L /\ L < WORD
    BY <1>5, <1>6, <1>9, WordAssumption
<1>11. OfFirst(L, fs, k + 2)
  <2>1. ASSUME NEW i \in 1 .. k + 1 PROVE Multiple(L, Period(fs, i))
    <3>1. Multiple(c, Period(fs, i))
        BY DEF LeastOfFirst, OfFirst
    <3>2. Period(fs, i) \in Int /\ c \in Int /\ L \in Int
        BY <1>1, <1>3, <1>4, <1>5
    <3> QED BY <1>5, <3>1, <3>2, MultipleTransitive
  <2>2. Multiple(L, Period(fs, k + 2))
      BY <1>5 DEF p
  <2>3. \A i \in 1 .. k + 2 : i \in 1 .. k + 1 \/ i = k + 2
      OBVIOUS
  <2> QED BY <2>1, <2>2, <2>3 DEF OfFirst
<1>12. LeastOfFirst(L, fs, k + 2)
    BY <1>5, <1>7, <1>10, <1>11 DEF LeastOfFirst
<1> QED BY <1>10, <1>12 DEF p

\* When a common multiple of the periods fits the word, no step of calculate_cycle
\* wraps, and it returns the least one.
LEMMA CycleLeast ==
    ASSUME NEW fs \in Seq(FlowType), fs # <<>>,
           NEW m \in Nat \ {0}, m < WORD, OfFirst(m, fs, Len(fs))
    PROVE  LeastOfFirst(calculate_cycle(fs), fs, Len(fs))
<1>1. Len(fs) \in Nat \ {0}
    OBVIOUS
<1>2. PICK g \in [0 .. Len(fs) - 1 -> Nat] :
          CyclesUpTo(g, fs) /\ calculate_cycle(fs) = g[Len(fs) - 1]
    BY CycleFold
<1> DEFINE P == {k \in Nat : k + 1 <= Len(fs) => LeastOfFirst(g[k], fs, k + 1)}
<1>3. 0 \in P
  <2>1. g[0] = Period(fs, 1) /\ Period(fs, 1) \in Nat \ {0} /\ Period(fs, 1) < WORD
    <3>1. 1 \in 1 .. Len(fs)
        BY <1>1
    <3>2. g[0] = Period(fs, 1)
        BY <1>2 DEF CyclesUpTo
    <3> QED BY <3>1, <3>2, PeriodRange
  <2>2. \A i \in 1 .. 0 + 1 : i = 1
      OBVIOUS
  <2>3. Multiple(Period(fs, 1), Period(fs, 1))
    <3>1. Period(fs, 1) = Period(fs, 1) * 1
        BY <2>1
    <3> QED BY <3>1 DEF Multiple
  <2>4. OfFirst(g[0], fs, 0 + 1)
      BY <2>1, <2>2, <2>3 DEF OfFirst
  <2>5. 1 \in 1 .. 0 + 1
      OBVIOUS
  <2>6. \A j \in Nat \ {0} : OfFirst(j, fs, 0 + 1) => Multiple(j, g[0])
      BY <2>1, <2>5 DEF OfFirst
  <2>7. LeastOfFirst(g[0], fs, 0 + 1)
      BY <2>1, <2>4, <2>6 DEF LeastOfFirst
  <2> QED BY <2>7
<1>4. ASSUME NEW k \in Nat, k \in P PROVE k + 1 \in P
  <2>1. SUFFICES ASSUME (k + 1) + 1 <= Len(fs) PROVE LeastOfFirst(g[k + 1], fs, (k + 1) + 1)
      BY <1>4
  <2>2. k + 2 <= Len(fs) /\ k + 1 <= Len(fs) /\ (k + 1) + 1 = k + 2 /\ k \in 0 .. Len(fs) - 2
      BY <1>1, <1>4, <2>1
  <2>3. LeastOfFirst(g[k], fs, k + 1)
      BY <1>4, <2>2
  <2>4. g[k + 1] = lcm(g[k], Period(fs, k + 2))
      BY <1>2, <2>2 DEF CyclesUpTo
  <2>5. LeastOfFirst(lcm(g[k], Period(fs, k + 2)), fs, k + 2)
      BY <1>4, <2>2, <2>3, CycleStep
  <2> QED BY <2>2, <2>4, <2>5
<1>5. Nat \subseteq P
  <2> HIDE DEF P
  <2> QED BY <1>3, <1>4, Induction
<1>6. Len(fs) - 1 \in P /\ (Len(fs) - 1) + 1 = Len(fs) /\ (Len(fs) - 1) + 1 <= Len(fs)
    BY <1>1, <1>5
<1>7. LeastOfFirst(g[Len(fs) - 1], fs, (Len(fs) - 1) + 1)
    BY <1>6
<1> QED BY <1>2, <1>6, <1>7

LEMMA CycleNat ==
    ASSUME NEW fs \in Seq(FlowType), fs # <<>> PROVE calculate_cycle(fs) \in Nat
<1>1. Len(fs) - 1 \in 0 .. Len(fs) - 1
    OBVIOUS
<1> QED BY <1>1, CycleFold

-----------------------------------------------------------------------------
(* The frames that the two nested loops write.                             *)

Frame == [time : Nat, flow : Nat]

\* h holds what the first sequences of ps make, put behind each other.
JoinedUpTo(h, ps) ==
    /\ h[1] = ps[1]
    /\ \A k \in 1 .. Len(ps) - 1 : h[k + 1] = h[k] \o ps[k + 1]

LEMMA FlattenSeqJoins ==
    ASSUME NEW T, NEW ps \in Seq(Seq(T)), ps # <<>>
    PROVE  \E h : JoinedUpTo(h, ps) /\ FlattenSeq(ps) = h[Len(ps)]
<1> DEFINE L == Len(ps)
           m == L - 1
           step == [p \in Seq(T) \X (1 .. m) |-> p[1] \o ps[p[2] + 1]]
           flatten == CHOOSE g : g = [i \in 1 .. Len(ps) |->
                          IF i = 1 THEN ps[i] ELSE g[i - 1] \o ps[i]]
<1>1. L \in Nat \ {0} /\ m \in Nat /\ \A i \in 1 .. L : ps[i] \in Seq(T)
    OBVIOUS
<1>2. FlattenSeq(ps) = flatten[L]
    BY <1>1 DEF FlattenSeq
<1>3. step \in [Seq(T) \X (1 .. m) -> Seq(T)]
  <2>1. ASSUME NEW v \in Seq(T), NEW i \in 1 .. m PROVE v \o ps[i + 1] \in Seq(T)
    <3>1. ps[i + 1] \in Seq(T)
        BY <1>1
    <3> QED BY <3>1
  <2> QED BY <2>1
<1>4. PICK e \in [0 .. m -> Seq(T)] : LoopOf(e, ps[1], step, m)
  <2>1. ps[1] \in Seq(T)
      BY <1>1
  <2> HIDE DEF step, m
  <2> QED BY <1>1, <1>3, <2>1, LoopExists
<1> DEFINE d == [i \in 1 .. L |-> e[i - 1]]
<1>5. d = [i \in 1 .. L |-> IF i = 1 THEN ps[i] ELSE d[i - 1] \o ps[i]]
  <2>1. ASSUME NEW i \in 1 .. L PROVE d[i] = IF i = 1 THEN ps[i] ELSE d[i - 1] \o ps[i]
    <3>1. i - 1 \in 0 .. m /\ d[i] = e[i - 1]
        BY <1>1
    <3>2. e[i - 1] = IF i - 1 = 0 THEN ps[1] ELSE step[<<e[(i - 1) - 1], i - 1>>]
      <4> HIDE DEF step, m, d
      <4> QED BY <1>4, <3>1 DEF LoopOf
    <3>3. CASE i = 1
      <4> HIDE DEF step, m, d
      <4> QED BY <3>1, <3>2, <3>3
    <3>4. CASE i # 1
      <4>1. i - 1 # 0 /\ i - 1 \in 1 .. m /\ (i - 1) - 1 \in 0 .. m
            /\ i - 1 \in 1 .. L /\ (i - 1) + 1 = i
          BY <1>1, <3>4
      <4>2. e[(i - 1) - 1] \in Seq(T)
        <5> HIDE DEF step, m, d
        <5> QED BY <1>4, <4>1
      <4>3. d[i - 1] = e[(i - 1) - 1]
          BY <4>1
      <4>4. step[<<e[(i - 1) - 1], i - 1>>] = e[(i - 1) - 1] \o ps[(i - 1) + 1]
          BY <4>1, <4>2
      <4> HIDE DEF step, m, d
      <4> QED BY <3>1, <3>2, <3>4, <4>1, <4>3, <4>4
    <3> QED BY <3>3, <3>4
  <2>2. d = [i \in 1 .. L |-> d[i]]
      OBVIOUS
  <2> HIDE DEF d
  <2> QED BY <2>1, <2>2
<1>6. flatten = [i \in 1 .. L |-> IF i = 1 THEN ps[i] ELSE flatten[i - 1] \o ps[i]]
  <2> HIDE DEF d
  <2> QED BY <1>5
<1> HIDE DEF flatten, step, d
<1>7. flatten[1] = ps[1]
    BY <1>1, <1>6
<1>8. ASSUME NEW k \in 1 .. L - 1 PROVE flatten[k + 1] = flatten[k] \o ps[k + 1]
  <2>1. k + 1 \in 1 .. L /\ k + 1 # 1 /\ (k + 1) - 1 = k
      BY <1>1
  <2> QED BY <1>6, <2>1
<1>9. JoinedUpTo(flatten, ps)
    BY <1>7, <1>8 DEF JoinedUpTo
<1> QED BY <1>2, <1>9

\* Frame j of flow i, and how many frames flow i has in queue q.
FrameOf(fs, i, j) ==
    [time |-> (fs[i].offset + (j - 1) * fs[i].period) % WORD, flow |-> i]
FramesOf(fs, i, cycle) == cycle \div fs[i].period

Piece(fs, i, cycle, q) ==
    IF fs[i].queue = q THEN FlowFrames(fs, i, cycle) ELSE <<>>

\* The frames of flow i are those behind the first b places of w.
BlockAt(w, b, fs, i, cycle) ==
    /\ b + FramesOf(fs, i, cycle) <= Len(w)
    /\ \A j \in 1 .. FramesOf(fs, i, cycle) : w[b + j] = FrameOf(fs, i, j)
    /\ \A a \in 1 .. Len(w) : w[a].flow = i => a \in b + 1 .. b + FramesOf(fs, i, cycle)

\* w holds the frames of queue q of the first k flows, in the order of the flows.
Filled(w, fs, cycle, q, k) ==
    /\ w \in Seq(Frame)
    /\ \A a \in 1 .. Len(w) : w[a].flow \in 1 .. k /\ fs[w[a].flow].queue = q
    /\ \A a, b \in 1 .. Len(w) : a < b => w[a].flow <= w[b].flow
    /\ \A i \in 1 .. k : fs[i].queue = q => \E b \in Nat : BlockAt(w, b, fs, i, cycle)

LEMMA PieceFrames ==
    ASSUME NEW fs \in Seq(FlowType), NEW cycle \in Nat, NEW q, NEW i \in 1 .. Len(fs)
    PROVE  /\ FramesOf(fs, i, cycle) \in Nat
           /\ Piece(fs, i, cycle, q) \in Seq(Frame)
           /\ Len(Piece(fs, i, cycle, q)) =
                  IF fs[i].queue = q THEN FramesOf(fs, i, cycle) ELSE 0
           /\ \A j \in 1 .. Len(Piece(fs, i, cycle, q)) :
                  /\ Piece(fs, i, cycle, q)[j] = FrameOf(fs, i, j)
                  /\ Piece(fs, i, cycle, q)[j].flow = i
<1>1. fs[i] \in FlowType /\ fs[i].period \in Nat \ {0} /\ fs[i].offset \in Nat
  <2>1. fs[i] \in FlowType
      OBVIOUS
  <2>2. fs[i].period \in 1 .. WORD - 1 /\ fs[i].offset \in 0 .. WORD - 1
      BY <2>1 DEF FlowType
  <2> QED BY <2>1, <2>2, WordAssumption
<1>2. FramesOf(fs, i, cycle) \in Nat
    BY <1>1, Division DEF FramesOf
<1>3. \A j \in 1 .. FramesOf(fs, i, cycle) : FrameOf(fs, i, j) \in Frame
  <2>1. ASSUME NEW j \in 1 .. FramesOf(fs, i, cycle) PROVE FrameOf(fs, i, j) \in Frame
    <3>1. (j - 1) * fs[i].period \in Nat
      <4>1. j - 1 \in Nat
          BY <1>2
      <4> QED BY <1>1, <4>1
    <3>2. fs[i].offset + (j - 1) * fs[i].period \in Nat
        BY <1>1, <3>1
    <3>3. (fs[i].offset + (j - 1) * fs[i].period) % WORD \in Nat
        BY <3>2, WordAssumption
    <3>4. i \in Nat
        OBVIOUS
    <3> QED BY <3>3, <3>4 DEF FrameOf, Frame
  <2> QED BY <2>1
<1>4. FlowFrames(fs, i, cycle) = [j \in 1 .. FramesOf(fs, i, cycle) |-> FrameOf(fs, i, j)]
    BY DEF FlowFrames, FramesOf, FrameOf
<1>5. \A j \in Nat : FrameOf(fs, i, j).flow = i
    BY DEF FrameOf
<1>6. CASE fs[i].queue = q
  <2>1. Piece(fs, i, cycle, q) = [j \in 1 .. FramesOf(fs, i, cycle) |-> FrameOf(fs, i, j)]
      BY <1>4, <1>6 DEF Piece
  <2> DEFINE n == FramesOf(fs, i, cycle)
             v == [j \in 1 .. n |-> FrameOf(fs, i, j)]
  <2> HIDE DEF n
  <2>2. v \in Seq(Frame) /\ Len(v) = n
      BY <1>2, <1>3 DEF n
  <2>3. \A j \in 1 .. n : v[j] = FrameOf(fs, i, j) /\ v[j].flow = i
      BY <1>2, <1>5 DEF n
  <2> QED BY <1>2, <1>6, <2>1, <2>2, <2>3 DEF n
<1>7. CASE fs[i].queue # q
  <2>1. Piece(fs, i, cycle, q) = <<>>
      BY <1>7 DEF Piece
  <2> QED BY <1>2, <1>7, <2>1
<1> QED BY <1>6, <1>7

LEMMA FilledStep ==
    ASSUME NEW fs \in Seq(FlowType), NEW cycle \in Nat, NEW q, NEW k \in 0 .. Len(fs) - 1,
           NEW w, Filled(w, fs, cycle, q, k)
    PROVE  /\ Filled(w \o Piece(fs, k + 1, cycle, q), fs, cycle, q, k + 1)
           /\ Len(w \o Piece(fs, k + 1, cycle, q)) =
                  Len(w) + IF fs[k + 1].queue = q THEN FramesOf(fs, k + 1, cycle) ELSE 0
<1> DEFINE i == k + 1
           v == Piece(fs, i, cycle, q)
           t == w \o v
<1>1. i \in 1 .. Len(fs) /\ k \in Nat
    OBVIOUS
<1>2. /\ FramesOf(fs, i, cycle) \in Nat
      /\ v \in Seq(Frame)
      /\ Len(v) = IF fs[i].queue = q THEN FramesOf(fs, i, cycle) ELSE 0
      /\ \A j \in 1 .. Len(v) : v[j] = FrameOf(fs, i, j) /\ v[j].flow = i
  <2>1. ASSUME NEW l \in 1 .. Len(fs), l = i
        PROVE  /\ FramesOf(fs, l, cycle) \in Nat
               /\ Piece(fs, l, cycle, q) \in Seq(Frame)
               /\ Len(Piece(fs, l, cycle, q)) =
                      IF fs[l].queue = q THEN FramesOf(fs, l, cycle) ELSE 0
               /\ \A j \in 1 .. Len(Piece(fs, l, cycle, q)) :
                      /\ Piece(fs, l, cycle, q)[j] = FrameOf(fs, l, j)
                      /\ Piece(fs, l, cycle, q)[j].flow = l
      BY PieceFrames
  <2> HIDE DEF i
  <2> QED BY <1>1, <2>1
<1> HIDE DEF v
<1>3. /\ w \in Seq(Frame) /\ Len(w) \in Nat /\ Len(v) \in Nat
      /\ \A a \in 1 .. Len(w) : w[a].flow \in 1 .. k /\ fs[w[a].flow].queue = q
      /\ \A a, b \in 1 .. Len(w) : a < b => w[a].flow <= w[b].flow
    BY <1>2 DEF Filled
<1>4. /\ t \in Seq(Frame) /\ Len(t) = Len(w) + Len(v)
      /\ \A a \in 1 .. Len(w) : t[a] = w[a]
      /\ \A j \in 1 .. Len(v) : t[Len(w) + j] = v[j]
  <2>1. v \in Seq(Frame) /\ w \in Seq(Frame) /\ Len(w) \in Nat /\ Len(v) \in Nat
      BY <1>2, <1>3
  <2>2. t \in Seq(Frame) /\ Len(t) = Len(w) + Len(v)
      BY <2>1
  <2>3. ASSUME NEW a \in 1 .. Len(w) PROVE t[a] = w[a]
      BY <2>1
  <2>4. ASSUME NEW j \in 1 .. Len(v) PROVE t[Len(w) + j] = v[j]
    <3>1. /\ Len(w) + j \in 1 .. Len(w) + Len(v) /\ ~(Len(w) + j <= Len(w))
          /\ (Len(w) + j) - Len(w) = j
        BY <2>1
    <3> QED BY <2>1, <3>1
  <2> QED BY <2>2, <2>3, <2>4
<1>5. ASSUME NEW a \in 1 .. Len(t), a \notin 1 .. Len(w)
      PROVE  a - Len(w) \in 1 .. Len(v) /\ t[a] = v[a - Len(w)] /\ t[a].flow = i /\ fs[i].queue = q
  <2>1. a - Len(w) \in 1 .. Len(v) /\ Len(w) + (a - Len(w)) = a
      BY <1>3, <1>4, <1>5
  <2>2. fs[i].queue = q
      BY <1>2, <2>1
  <2> QED BY <1>2, <1>4, <2>1, <2>2
<1> HIDE DEF t, i
<1>6. ASSUME NEW a \in 1 .. Len(t) PROVE t[a].flow \in 1 .. i /\ fs[t[a].flow].queue = q
  <2>1. CASE a \in 1 .. Len(w)
    <3>1. t[a] = w[a] /\ w[a].flow \in 1 .. k /\ fs[w[a].flow].queue = q
        BY <1>3, <1>4, <2>1
    <3>2. 1 .. k \subseteq 1 .. i
        BY <1>1 DEF i
    <3> QED BY <3>1, <3>2
  <2>2. CASE a \notin 1 .. Len(w)
    <3>1. i \in 1 .. i
        BY <1>1
    <3> QED BY <1>5, <2>2, <3>1
  <2> QED BY <2>1, <2>2
<1>7. ASSUME NEW a \in 1 .. Len(t), NEW b \in 1 .. Len(t), a < b PROVE t[a].flow <= t[b].flow
  <2>1. CASE b \in 1 .. Len(w)
    <3>1. a \in 1 .. Len(w)
        BY <1>3, <1>7, <2>1
    <3> QED BY <1>3, <1>4, <1>7, <2>1, <3>1
  <2>2. CASE b \notin 1 .. Len(w)
    <3>1. t[b].flow = i /\ t[a].flow \in 1 .. i
        BY <1>5, <1>6, <2>2
    <3> QED BY <1>1, <3>1
  <2> QED BY <2>1, <2>2
<1>8. ASSUME NEW l \in 1 .. i, fs[l].queue = q PROVE \E b \in Nat : BlockAt(t, b, fs, l, cycle)
  <2>1. CASE l = i
    <3>1. Len(v) = FramesOf(fs, i, cycle)
        BY <1>2, <1>8, <2>1
    <3>2. Len(w) + FramesOf(fs, i, cycle) <= Len(t)
        BY <1>2, <1>3, <1>4, <3>1
    <3>3. \A j \in 1 .. FramesOf(fs, i, cycle) : t[Len(w) + j] = FrameOf(fs, i, j)
        BY <1>2, <1>4, <3>1
    <3>4. ASSUME NEW a \in 1 .. Len(t), t[a].flow = i
          PROVE  a \in Len(w) + 1 .. Len(w) + FramesOf(fs, i, cycle)
      <4>1. a \notin 1 .. Len(w)
        <5>1. ASSUME a \in 1 .. Len(w) PROVE FALSE
          <6>1. t[a].flow \in 1 .. k
              BY <1>3, <1>4, <5>1
          <6> QED BY <1>1, <3>4, <6>1 DEF i
        <5> QED BY <5>1
      <4> QED BY <1>2, <1>3, <1>4, <3>1, <4>1
    <3>5. BlockAt(t, Len(w), fs, i, cycle)
        BY <3>2, <3>3, <3>4 DEF BlockAt
    <3> QED BY <1>3, <2>1, <3>5
  <2>2. CASE l # i
    <3>1. l \in 1 .. k /\ l # i
        BY <1>1, <2>2 DEF i
    <3>2. PICK b \in Nat : BlockAt(w, b, fs, l, cycle)
        BY <1>8, <3>1 DEF Filled
    <3>3. FramesOf(fs, l, cycle) \in Nat
      <4>1. l \in 1 .. Len(fs)
          BY <1>1, <3>1
      <4> QED BY <4>1, PieceFrames
    <3> DEFINE n == FramesOf(fs, l, cycle)
    <3>4. /\ n \in Nat /\ b + n <= Len(w)
          /\ \A j \in 1 .. n : w[b + j] = FrameOf(fs, l, j)
          /\ \A a \in 1 .. Len(w) : w[a].flow = l => a \in b + 1 .. b + n
        BY <3>2, <3>3 DEF BlockAt
    <3> HIDE DEF n
    <3>5. b + n <= Len(t)
        BY <1>3, <1>4, <3>4
    <3>6. ASSUME NEW j \in 1 .. n PROVE t[b + j] = FrameOf(fs, l, j)
      <4>1. b + j \in 1 .. Len(w)
          BY <1>3, <3>4
      <4> QED BY <1>4, <3>4, <4>1
    <3>7. ASSUME NEW a \in 1 .. Len(t), t[a].flow = l PROVE a \in b + 1 .. b + n
      <4>1. a \in 1 .. Len(w)
          BY <1>5, <3>1, <3>7
      <4>2. w[a].flow = l
          BY <1>4, <3>7, <4>1
      <4> QED BY <3>4, <4>1, <4>2
    <3>8. BlockAt(t, b, fs, l, cycle)
        BY <3>5, <3>6, <3>7 DEF BlockAt, n
    <3> QED BY <3>8
  <2> QED BY <2>1, <2>2
<1>9. Filled(t, fs, cycle, q, i)
    BY <1>4, <1>6, <1>7, <1>8 DEF Filled
<1>10. Len(t) = Len(w) + IF fs[i].queue = q THEN FramesOf(fs, i, cycle) ELSE 0
    BY <1>2, <1>4
<1> QED BY <1>9, <1>10 DEF t, i, v

LEMMA FilledNone ==
    ASSUME NEW fs, NEW cycle, NEW q PROVE Filled(<<>>, fs, cycle, q, 0)
<1>1. <<>> \in Seq(Frame) /\ Len(<<>>) = 0 /\ 1 .. 0 = {}
    OBVIOUS
<1> QED BY <1>1 DEF Filled

\* The frames due from queue q, flow by flow.
DueUpTo(fs, cycle, q, k) ==
    UNION {{i} \X (1 .. FramesOf(fs, i, cycle)) : i \in {x \in 1 .. k : fs[x].queue = q}}

LEMMA DueStep ==
    ASSUME NEW fs \in Seq(FlowType), NEW cycle \in Nat, NEW q, NEW k \in 0 .. Len(fs) - 1,
           IsFiniteSet(DueUpTo(fs, cycle, q, k))
    PROVE  /\ IsFiniteSet(DueUpTo(fs, cycle, q, k + 1))
           /\ Cardinality(DueUpTo(fs, cycle, q, k + 1)) =
                  Cardinality(DueUpTo(fs, cycle, q, k))
                  + IF fs[k + 1].queue = q THEN FramesOf(fs, k + 1, cycle) ELSE 0
<1> DEFINE D == DueUpTo(fs, cycle, q, k)
           E == DueUpTo(fs, cycle, q, k + 1)
           m == FramesOf(fs, k + 1, cycle)
           R == {k + 1} \X (1 .. m)
<1>1. k \in Nat /\ k + 1 \in 1 .. Len(fs)
    OBVIOUS
<1>2. m \in Nat
    BY <1>1, PieceFrames
<1>3. 1 .. k + 1 = (1 .. k) \cup {k + 1} /\ k + 1 \notin 1 .. k
    BY <1>1
<1>4. Cardinality(D) \in Nat
    BY FS_CardinalityType
<1>5. CASE fs[k + 1].queue = q
  <2>1. {x \in 1 .. k + 1 : fs[x].queue = q} = {x \in 1 .. k : fs[x].queue = q} \cup {k + 1}
      BY <1>3, <1>5
  <2>2. E = D \cup R
      BY <2>1 DEF DueUpTo
  <2>3. D \cap R = {}
      BY <1>3 DEF DueUpTo
  <2> HIDE DEF D, E, m
  <2>4. IsFiniteSet(R) /\ Cardinality(R) = m
    <3>1. IsFiniteSet(1 .. m) /\ Cardinality(1 .. m) = m
      <4>1. 1 \in Int /\ m \in Int /\ (IF 1 > m THEN 0 ELSE m - 1 + 1) = m
          BY <1>2
      <4> QED BY <4>1, FS_Interval
    <3>2. IsFiniteSet({k + 1}) /\ Cardinality({k + 1}) = 1
        BY FS_Singleton
    <3>3. IsFiniteSet(R) /\ Cardinality(R) = Cardinality({k + 1}) * Cardinality(1 .. m)
        BY <3>1, <3>2, FS_Product
    <3> QED BY <1>2, <3>1, <3>2, <3>3
  <2> HIDE DEF R
  <2>5. IsFiniteSet(D)
      BY DEF D
  <2>6. /\ IsFiniteSet(D \cup R)
        /\ Cardinality(D \cup R) = Cardinality(D) + Cardinality(R) - Cardinality(D \cap R)
      BY <2>4, <2>5, FS_Union
  <2>7. Cardinality(D \cap R) = 0
      BY <2>3, FS_EmptySet
  <2>8. IsFiniteSet(E) /\ Cardinality(E) = Cardinality(D) + m
      BY <1>2, <1>4, <2>2, <2>4, <2>6, <2>7
  <2> QED BY <1>5, <2>8 DEF D, E, m
<1>6. CASE fs[k + 1].queue # q
  <2>1. {x \in 1 .. k + 1 : fs[x].queue = q} = {x \in 1 .. k : fs[x].queue = q}
      BY <1>3, <1>6
  <2>2. E = D
      BY <2>1 DEF DueUpTo
  <2> HIDE DEF D, E
  <2>3. IsFiniteSet(E) /\ Cardinality(E) = Cardinality(D) + 0
      BY <1>4, <2>2 DEF D
  <2> QED BY <1>6, <2>3 DEF D, E
<1> QED BY <1>5, <1>6

\* The frames of a queue are those that are due, in the order of the flows, and what
\* is allocated for them is their number as an int tells it.
LEMMA QueueFramesFilled ==
    ASSUME NEW fs \in Seq(FlowType), fs # <<>>, NEW cycle \in Nat, NEW q
    PROVE  /\ Filled(QueueFrames(fs, cycle, q), fs, cycle, q, Len(fs))
           /\ Len(QueueFrames(fs, cycle, q)) \in Nat
           /\ Cardinality(DueUpTo(fs, cycle, q, Len(fs))) = Len(QueueFrames(fs, cycle, q))
           /\ calculate_num_frames_per_queue(fs, cycle, q) = ToInt(Len(QueueFrames(fs, cycle, q)))
<1> DEFINE ps == [i \in DOMAIN fs |-> Piece(fs, i, cycle, q)]
           n  == Len(fs)
           due(k) == DueUpTo(fs, cycle, q, k)
<1>1. n \in Nat \ {0} /\ DOMAIN fs = 1 .. n
    OBVIOUS
<1>2. QueueFrames(fs, cycle, q) = FlattenSeq(ps)
    BY DEF QueueFrames, Piece
<1>3. \A i \in 1 .. n : Piece(fs, i, cycle, q) \in Seq(Frame)
    BY PieceFrames
<1>4. ps \in Seq(Seq(Frame)) /\ Len(ps) = n /\ ps # <<>>
      /\ \A i \in 1 .. n : ps[i] = Piece(fs, i, cycle, q)
    BY <1>1, <1>3
<1> HIDE DEF ps
<1>5. PICK h : JoinedUpTo(h, ps) /\ FlattenSeq(ps) = h[n]
    BY <1>4, FlattenSeqJoins
<1>6. PICK g \in [0 .. n -> Int] :
          /\ FramesUpTo(g, fs, cycle, q)
          /\ calculate_num_frames_per_queue(fs, cycle, q) = g[n]
    BY FramesFold
<1> DEFINE Holds(w, k) == /\ Filled(w, fs, cycle, q, k)
                          /\ IsFiniteSet(due(k)) /\ Cardinality(due(k)) = Len(w)
                          /\ g[k] = ToInt(Len(w))
           P == {k \in Nat : k + 1 <= n => Holds(h[k + 1], k + 1)}
<1>7. ASSUME NEW k \in 0 .. n - 1, NEW w, Holds(w, k) PROVE Holds(w \o ps[k + 1], k + 1)
  <2> DEFINE more == IF fs[k + 1].queue = q THEN FramesOf(fs, k + 1, cycle) ELSE 0
  <2>1. ps[k + 1] = Piece(fs, k + 1, cycle, q)
      BY <1>1, <1>4
  <2>2. /\ Filled(w \o ps[k + 1], fs, cycle, q, k + 1)
        /\ Len(w \o ps[k + 1]) = Len(w) + more
      BY <1>7, <2>1, FilledStep
  <2>3. /\ IsFiniteSet(due(k + 1))
        /\ Cardinality(due(k + 1)) = Cardinality(due(k)) + more
      BY <1>7, DueStep
  <2>4. Len(w) \in Nat /\ FramesOf(fs, k + 1, cycle) \in Nat
    <3>1. k + 1 \in 1 .. Len(fs)
        BY <1>1
    <3>2. w \in Seq(Frame)
        BY <1>7 DEF Filled
    <3> QED BY <3>1, <3>2, PieceFrames
  <2>5. g[k + 1] = IF fs[k + 1].queue = q THEN ToInt(g[k] + FramesOf(fs, k + 1, cycle)) ELSE g[k]
      BY <1>6 DEF FramesUpTo, FramesOf
  <2>6. g[k + 1] = ToInt(Len(w) + more)
    <3>1. CASE fs[k + 1].queue = q
      <4>1. ToInt(ToInt(Len(w)) + FramesOf(fs, k + 1, cycle)) =
                ToInt(Len(w) + FramesOf(fs, k + 1, cycle))
          BY <2>4, ToIntAdd
      <4> QED BY <1>7, <2>5, <3>1, <4>1
    <3>2. CASE fs[k + 1].queue # q
      <4>1. Len(w) + 0 = Len(w)
          BY <2>4
      <4> QED BY <1>7, <2>5, <3>2, <4>1
    <3> QED BY <3>1, <3>2
  <2> HIDE DEF more, due
  <2> QED BY <1>7, <2>2, <2>3, <2>6
<1>8. 0 \in P
  <2>1. Holds(<<>>, 0)
    <3>1. due(0) = {} /\ IsFiniteSet({}) /\ Cardinality({}) = 0
        BY FS_EmptySet DEF DueUpTo
    <3>2. ToInt(0) = 0
        BY WordAssumption, ToIntSmall
    <3>3. Len(<<>>) = 0 /\ g[0] = 0
        BY <1>6 DEF FramesUpTo
    <3> HIDE DEF due
    <3> QED BY <3>1, <3>2, <3>3, FilledNone
  <2>2. 0 \in 0 .. n - 1 /\ 0 + 1 = 1 /\ 1 \in 1 .. n
      BY <1>1
  <2>3. Holds(<<>> \o ps[0 + 1], 0 + 1)
    <3> HIDE DEF Holds
    <3> QED BY <1>7, <2>1, <2>2
  <2>4. h[1] = <<>> \o ps[1]
    <3>1. ps[1] \in Seq(Frame)
        BY <1>3, <1>4, <2>2
    <3>2. <<>> \o ps[1] = ps[1]
        BY <3>1
    <3> QED BY <1>5, <3>2 DEF JoinedUpTo
  <2> HIDE DEF Holds
  <2> QED BY <2>2, <2>3, <2>4
<1>9. ASSUME NEW k \in Nat, k \in P PROVE k + 1 \in P
  <2>1. SUFFICES ASSUME (k + 1) + 1 <= n PROVE Holds(h[(k + 1) + 1], (k + 1) + 1)
      BY <1>9
  <2>2. k + 1 \in 1 .. n - 1 /\ k + 1 \in 0 .. n - 1 /\ k + 1 <= n
      BY <1>1, <2>1
  <2>3. h[(k + 1) + 1] = h[k + 1] \o ps[(k + 1) + 1]
      BY <1>4, <1>5, <2>2 DEF JoinedUpTo
  <2>4. Holds(h[k + 1], k + 1)
      BY <1>9, <2>2
  <2> HIDE DEF Holds
  <2> QED BY <1>7, <2>2, <2>3, <2>4
<1>10. Nat \subseteq P
  <2> HIDE DEF P
  <2> QED BY <1>8, <1>9, Induction
<1>11. Holds(h[n], n)
  <2>1. n - 1 \in Nat /\ (n - 1) + 1 = n /\ n <= n
      BY <1>1
  <2>2. n - 1 \in P
    <3> HIDE DEF P
    <3> QED BY <1>10, <2>1
  <2> HIDE DEF Holds
  <2> QED BY <2>1, <2>2
<1>12. Len(h[n]) \in Nat
  <2>1. h[n] \in Seq(Frame)
      BY <1>11 DEF Filled
  <2> QED BY <2>1
<1> QED BY <1>2, <1>5, <1>6, <1>11, <1>12

\* A queue no flow names has no frames.
LEMMA NoFlowNoFrames ==
    ASSUME NEW fs \in Seq(FlowType), fs # <<>>, NEW cycle \in Nat, NEW q,
           \A i \in 1 .. Len(fs) : fs[i].queue # q
    PROVE  /\ Len(QueueFrames(fs, cycle, q)) = 0
           /\ calculate_num_frames_per_queue(fs, cycle, q) = 0
<1> DEFINE w == QueueFrames(fs, cycle, q)
<1>1. /\ Filled(w, fs, cycle, q, Len(fs)) /\ Len(w) \in Nat
      /\ calculate_num_frames_per_queue(fs, cycle, q) = ToInt(Len(w))
    BY QueueFramesFilled
<1> HIDE DEF w
<1>2. Len(w) = 0
  <2>1. ASSUME Len(w) # 0 PROVE FALSE
    <3>1. 1 \in 1 .. Len(w)
        BY <1>1, <2>1
    <3>2. w[1].flow \in 1 .. Len(fs) /\ fs[w[1].flow].queue = q
        BY <1>1, <3>1 DEF Filled
    <3> QED BY <3>2
  <2> QED BY <2>1
<1>3. ToInt(0) = 0
    BY WordAssumption, ToIntSmall
<1> QED BY <1>1, <1>2, <1>3 DEF w

\* A queue some flow names has a frame, when every period fits the cycle.
LEMMA FlowHasFrames ==
    ASSUME NEW fs \in Seq(FlowType), NEW cycle \in Nat, NEW q,
           \A i \in 1 .. Len(fs) : Period(fs, i) <= cycle,
           NEW i \in 1 .. Len(fs), fs[i].queue = q
    PROVE  Len(QueueFrames(fs, cycle, q)) # 0
<1> DEFINE w == QueueFrames(fs, cycle, q)
           m == FramesOf(fs, i, cycle)
           p == fs[i].period
<1>1. fs # <<>>
    OBVIOUS
<1>2. Filled(w, fs, cycle, q, Len(fs)) /\ Len(w) \in Nat
    BY <1>1, QueueFramesFilled
<1>3. p \in Nat \ {0} /\ p <= cycle /\ m = cycle \div p
    BY PeriodRange DEF Period, FramesOf
<1>4. m \in Nat
    BY PieceFrames
<1>5. PICK b \in Nat : BlockAt(w, b, fs, i, cycle)
    BY <1>2 DEF Filled
<1>6. b + m <= Len(w)
    BY <1>5 DEF BlockAt
<1> HIDE DEF w, m, p
<1>7. m >= 1
  <2>1. cycle % p \in Nat /\ cycle % p < p /\ cycle \div p \in Nat
        /\ cycle = p * (cycle \div p) + (cycle % p)
      BY <1>3, Division
  <2>2. cycle \div p # 0
      BY <1>3, <2>1
  <2> QED BY <1>3, <2>1, <2>2
<1> QED BY <1>2, <1>4, <1>6, <1>7 DEF w

-----------------------------------------------------------------------------
(* The inductive invariant, part by part.                                  *)

\* The table holds flows, and at least one once the parser has returned; until then
\* the parser's locals could be a flow.
FlowTable ==
    /\ flows \in Seq(FlowType)
    /\ Len(flows) <= MAX_NUM_FLOWS
    /\ phase \notin {"eal", "parse", "crashed"} => flows # <<>>
    /\ phase \in {"eal", "parse"} => locals \in FlowType

\* The loops stay in their bounds and the counter counts the queues set up, of which
\* there are no more than flows, and one.
Counting ==
    /\ configured \subseteq Ports /\ started \subseteq configured
    /\ queue_setup \subseteq txq
    /\ IsFiniteSet(queue_setup) /\ tx_queue_nums = Cardinality(queue_setup)
    /\ phase \in {"eal", "parse"} => queue_setup = {} /\ started = {} /\ next = 1
    /\ phase = "configure" => next \in 1 .. Len(flows) + 1 /\ tx_queue_nums <= next - 1
    /\ phase \notin {"eal", "parse", "configure"} => tx_queue_nums <= Len(flows) + 1
    /\ phase = "start" => next = Len(flows) + 1
    /\ phase \in {"schedule", "launch", "running"} => next \in 0 .. tx_queue_nums
    /\ phase = "running" => next = tx_queue_nums
    /\ phase = "exited" => next = 0
    /\ phase = "crashed" => next \in 0 .. tx_queue_nums \/ next = 1

\* How many schedules there are, and how many of them LaunchQueue has looked at.
Made == Len(schedule)
Seen == IF phase \in {"launch", "running"} THEN next ELSE 0

ScheduleFor(fs, q) == init_schedule_state_per_queue(fs, calculate_cycle(fs), q)
Frames(fs, q) == calculate_num_frames_per_queue(fs, calculate_cycle(fs), q)

SchedulesUpTo(fs, n) == [i \in 1 .. n |-> ScheduleFor(fs, i - 1)]
QueuesUpTo(fs, n) == {q \in 0 .. n - 1 : Frames(fs, q) # 0}

\* Some queue has more frames in a cycle than an int can tell.
Overflown == \E q \in 0 .. NUM_TX_QUEUE - 1 : Cardinality(Due(q)) >= INT_HALF

\* create_schedule_state has returned NULL, and main() has not looked at it yet.
Lost ==
    /\ schedule = <<>> /\ tx_queue_nums > 0 /\ Overflown
    /\ phase = "schedule" => next = tx_queue_nums
    /\ phase = "launch" => next = 0

\* They are the schedules of the table, queue by queue, with as much room as is filled.
AsFilled ==
    /\ Made \in Nat /\ schedule = SchedulesUpTo(flows, Made)
    /\ \A q \in 0 .. Made - 1 : Room(q) = Fill(q)

\* There is one for each queue, and an lcore runs for each one that is not empty.
Schedules ==
    /\ AsFilled
    /\ phase \in {"eal", "parse", "configure", "start", "exited"} => schedule = <<>>
    /\ phase = "schedule" => Made = next \/ Lost
    /\ phase = "launch" => Made = tx_queue_nums \/ Lost
    /\ phase = "running" => Made = tx_queue_nums
    /\ phase = "crashed" => flows = <<>> \/ Overflown
    /\ flows = <<>> => schedule = <<>>

Lcores == launched = QueuesUpTo(flows, Seen)

\* The frames are those of the table as it is.
Frozen ==
    LET all == [i \in DOMAIN flows |-> prepare_pkt(flows[i])]
    IN  /\ phase \in {"launch", "running"} => pkts = all
        /\ phase = "crashed" => pkts = <<>> \/ pkts = all
        /\ phase \notin {"launch", "running", "crashed"} => pkts = <<>>

Phases == {"eal", "parse", "configure", "start", "schedule", "launch", "running", "exited",
           "crashed"}

\* The flows that ConfigureFlow has been through.
Named == IF phase \in {"eal", "parse"} THEN 0
         ELSE IF phase = "configure" THEN next - 1 ELSE Len(flows)

\* Where the device fits, the flags and the card tell the same: what the flows so far
\* name is configured, what is configured is set up, and a port that has been started
\* has all its queues.
Agreement ==
    DeviceFits =>
        /\ phase \in {"eal", "parse", "configure", "start"} => running = {}
        /\ phase # "eal" => txq = queue_setup
        /\ \A i \in 1 .. Named : /\ flows[i].port \in configured
                                 /\ <<flows[i].port, flows[i].queue>> \in queue_setup
        /\ phase \in {"schedule", "launch", "running"} =>
              started = configured /\ \A p \in configured : Complete(p)
        /\ phase \in {"launch", "running"} => configured \subseteq synced

SetupInv ==
    /\ phase \in Phases /\ device \in Devices
    /\ FlowTable
    /\ Counting
    /\ Schedules
    /\ Lcores
    /\ Frozen
    /\ Agreement

-----------------------------------------------------------------------------
(* The flow table.                                                         *)

FieldNames == {"port", "queue", "vlan", "ip", "period", "offset", "size"}

LEMMA ConfigIsFlow == ASSUME NEW f \in FlowConfigs PROVE f \in FlowType
BY SetupAssumption DEF FlowType

LEMMA FlowDomain == ASSUME NEW f \in FlowType PROVE DOMAIN f = FieldNames
BY DEF FlowType, FieldNames

\* What the command line says is a flow.
LEMMA CommandLineFlow ==
    ASSUME NEW f \in FlowConfigs PROVE [f EXCEPT !.ip = FALSE, !.offset = 0] \in FlowType
<1>1. f \in FlowType
    BY ConfigIsFlow
<1>2. 0 \in 0 .. WORD - 1
    BY WordAssumption
<1> QED BY <1>1, <1>2 DEF FlowType

\* The fields a line gives are fields of the flow it was written for.
LEMMA GivenFields ==
    ASSUME NEW f \in FlowConfigs, NEW n \in ReadCounts, NEW badVlan \in BOOLEAN
    PROVE  LET given == Given(f, n, badVlan)
           IN  DOMAIN given \subseteq FieldNames /\ \A k \in DOMAIN given : given[k] = f[k]
<1> DEFINE S == {Fields[j] : j \in 1 .. n} \ (IF badVlan THEN {"vlan"} ELSE {})
<1>1. Given(f, n, badVlan) = [k \in S |-> f[k]]
    BY DEF Given, Restrict
<1>2. n \in 0 .. 7
    BY SetupAssumption DEF Fields
<1>3. \A j \in 1 .. 7 : Fields[j] \in FieldNames
  <2>1. \A j \in 1 .. 7 : j = 1 \/ j = 2 \/ j = 3 \/ j = 4 \/ j = 5 \/ j = 6 \/ j = 7
      OBVIOUS
  <2> QED BY <2>1 DEF Fields, FieldNames
<1>4. S \subseteq FieldNames
    BY <1>2, <1>3
<1> HIDE DEF S
<1> QED BY <1>1, <1>4

\* What sscanf leaves in the locals is a flow again.
LEMMA OverwriteFlow ==
    ASSUME NEW l \in FlowType, NEW f \in FlowConfigs, NEW n \in ReadCounts, NEW badVlan \in BOOLEAN
    PROVE  Overwrite(l, Given(f, n, badVlan)) \in FlowType
<1> DEFINE given == Given(f, n, badVlan)
           o     == Overwrite(l, given)
<1>1. f \in FlowType /\ DOMAIN l = FieldNames
    BY ConfigIsFlow, FlowDomain
<1>2. \A k \in DOMAIN given : given[k] = f[k]
    BY GivenFields
<1> HIDE DEF given
<1>3. o = [k \in FieldNames |-> IF k \in DOMAIN given THEN given[k] ELSE l[k]]
    BY <1>1 DEF Overwrite
<1>4. \A k \in FieldNames : o[k] = f[k] \/ o[k] = l[k]
  <2> HIDE DEF o
  <2> QED BY <1>2, <1>3
<1>5. o = [k \in FieldNames |-> o[k]]
  <2> HIDE DEF o
  <2> QED BY <1>3
<1> HIDE DEF o
<1>6. /\ o.port \in Ports /\ o.queue \in 0 .. NUM_TX_QUEUE - 1 /\ o.vlan \in BOOLEAN
      /\ o.ip \in BOOLEAN /\ o.period \in 1 .. WORD - 1 /\ o.offset \in 0 .. WORD - 1
      /\ o.size \in Nat
    BY <1>1, <1>4 DEF FlowType, FieldNames
<1>7. o \in FlowType
    BY <1>5, <1>6 DEF FlowType, FieldNames
<1> QED BY <1>7 DEF o, given

LEMMA AddFlow ==
    ASSUME NEW fs \in Seq(FlowType), Len(fs) <= MAX_NUM_FLOWS, NEW f \in FlowType
    PROVE  LET new == IF Len(fs) >= MAX_NUM_FLOWS THEN fs ELSE Append(fs, f)
           IN  /\ new \in Seq(FlowType)
               /\ Len(new) <= MAX_NUM_FLOWS
               /\ new # <<>>
<1>1. MAX_NUM_FLOWS \in Nat \ {0}
    BY SetupAssumption
<1> QED BY <1>1

\* The parser returns, with a flow or without.
LEMMA ParserReturns ==
    ASSUME EndParse
    PROVE  /\ phase = "parse" /\ phase' \in {"configure", "crashed"}
           /\ phase' = "crashed" <=> flows = <<>>
           /\ UNCHANGED <<flows, next, device, configured, running, synced, txq, tx_queue_nums,
                          queue_setup, started, schedule, pkts, launched>>
<1>1. /\ phase = "parse" /\ phase' = IF flows = <<>> THEN "crashed" ELSE "configure"
      /\ UNCHANGED <<flows, next, devVars, cardVars, schedule, pkts, launched>>
    BY DEF EndParse
<1>2. phase' \in {"configure", "crashed"} /\ (phase' = "crashed" <=> flows = <<>>)
    BY <1>1
<1> QED BY <1>1, <1>2 DEF devVars, cardVars

LEMMA TableStep == SetupInv /\ [Next]_vars => FlowTable'
<1> SUFFICES ASSUME SetupInv, [Next]_vars PROVE FlowTable'
    OBVIOUS
<1>1. FlowTable /\ phase \in Phases
    BY DEF SetupInv
<1>2. CASE setup_EAL
    BY <1>1, <1>2 DEF FlowTable, setup_EAL, parserVars
<1>3. CASE CommandLine
  <2>1. PICK f \in FlowConfigs : add_flow([f EXCEPT !.ip = FALSE, !.offset = 0])
      BY <1>3 DEF CommandLine
  <2>2. flows' \in Seq(FlowType) /\ Len(flows') <= MAX_NUM_FLOWS /\ flows' # <<>>
    <3> DEFINE g == [f EXCEPT !.ip = FALSE, !.offset = 0]
    <3>1. g \in FlowType
        BY CommandLineFlow
    <3>2. flows' = IF Len(flows) >= MAX_NUM_FLOWS THEN flows ELSE Append(flows, g)
        BY <2>1 DEF add_flow
    <3> HIDE DEF g
    <3> QED BY <1>1, <3>1, <3>2, AddFlow DEF FlowTable
  <2>3. phase' = "configure"
      BY <1>3 DEF CommandLine
  <2> QED BY <2>2, <2>3 DEF FlowTable
<1>4. CASE ConfigLine
  <2>1. phase = "parse" /\ phase' = phase /\ add_flow(locals')
      BY <1>4 DEF ConfigLine
  <2>2. PICK f \in FlowConfigs, n \in ReadCounts, badVlan \in BOOLEAN :
            locals' = Overwrite(locals, Given(f, n, badVlan))
      BY <1>4 DEF ConfigLine
  <2>3. locals' \in FlowType
      BY <1>1, <2>1, <2>2, OverwriteFlow DEF FlowTable
  <2>4. flows' \in Seq(FlowType) /\ Len(flows') <= MAX_NUM_FLOWS
      BY <1>1, <2>1, <2>3, AddFlow DEF FlowTable, add_flow
  <2> QED BY <2>1, <2>3, <2>4 DEF FlowTable
<1>5. CASE EndParse
    BY <1>1, <1>5, ParserReturns DEF FlowTable
<1>6. CASE \/ ConfigureFlow \/ ConfigureSyncQueue \/ StartPorts
           \/ ScheduleQueue \/ FillOverruns \/ AllocationFails \/ PreparePkts \/ LaunchQueue
           \/ LaunchWithoutSchedules \/ EndLaunch \/ Over
           \/ UNCHANGED vars
  <2>1. flows' = flows /\ locals' = locals
      BY <1>6 DEF ConfigureFlow, ConfigureSyncQueue, StartPorts, ScheduleQueue, FillOverruns,
                  AllocationFails, PreparePkts, LaunchQueue, LaunchWithoutSchedules, EndLaunch,
                  Over, vars, parserVars
  <2>2. phase' \in {"eal", "parse"} => phase = phase'
      BY <1>6 DEF ConfigureFlow, ConfigureSyncQueue, StartPorts, ScheduleQueue, FillOverruns,
                  AllocationFails, PreparePkts, LaunchQueue, LaunchWithoutSchedules, EndLaunch,
                  Over, vars
  <2>3. phase' \notin {"eal", "parse", "crashed"} => phase \notin {"eal", "parse", "crashed"}
      BY <1>6 DEF ConfigureFlow, ConfigureSyncQueue, StartPorts, ScheduleQueue, FillOverruns,
                  AllocationFails, PreparePkts, LaunchQueue, LaunchWithoutSchedules, EndLaunch,
                  Over, vars
  <2> QED BY <1>1, <2>1, <2>2, <2>3 DEF FlowTable
<1> QED BY <1>2, <1>3, <1>4, <1>5, <1>6 DEF Next

-----------------------------------------------------------------------------
(* Ports and queues.                                                       *)

\* Configuring a queue keeps the counter in step with the card.
LEMMA QueueCounted ==
    ASSUME NEW p, NEW q, queue_setup \subseteq txq, IsFiniteSet(queue_setup),
           tx_queue_nums = Cardinality(queue_setup), ConfigureTxQueue(p, q)
    PROVE  /\ queue_setup' \subseteq txq' /\ IsFiniteSet(queue_setup')
           /\ tx_queue_nums' = Cardinality(queue_setup')
           /\ tx_queue_nums \in Nat /\ tx_queue_nums' \in Nat
           /\ tx_queue_nums' <= tx_queue_nums + 1
<1>1. tx_queue_nums \in Nat
    BY FS_CardinalityType
<1>2. CASE <<p, q>> \in txq
    BY <1>1, <1>2 DEF ConfigureTxQueue
<1>3. CASE <<p, q>> \notin txq
  <2>1. /\ tx_queue_nums' = tx_queue_nums + 1 /\ txq' = txq \cup {<<p, q>>}
        /\ queue_setup' = queue_setup \cup {<<p, q>>}
      BY <1>3 DEF ConfigureTxQueue, configure_tx_queue
  <2>2. <<p, q>> \notin queue_setup
      BY <1>3
  <2>3. IsFiniteSet(queue_setup') /\ Cardinality(queue_setup') = Cardinality(queue_setup) + 1
      BY <2>1, <2>2, FS_AddElement
  <2>4. queue_setup' \subseteq txq'
      BY <2>1
  <2> QED BY <1>1, <2>1, <2>3, <2>4
<1> QED BY <1>2, <1>3

LEMMA PortOfFlow ==
    ASSUME NEW fs \in Seq(FlowType), NEW i \in 1 .. Len(fs)
    PROVE  fs[i].port \in Ports /\ fs[i].queue \in 0 .. NUM_TX_QUEUE - 1
<1>1. fs[i] \in FlowType
    OBVIOUS
<1> QED BY <1>1 DEF FlowType

LEMMA CountingStep == SetupInv /\ [Next]_vars => Counting'
<1> SUFFICES ASSUME SetupInv, [Next]_vars PROVE Counting'
    OBVIOUS
<1>1. FlowTable /\ FlowTable' /\ Counting /\ phase \in Phases
    BY TableStep DEF SetupInv
<1>2. /\ flows \in Seq(FlowType) /\ Len(flows) \in Nat
      /\ flows' \in Seq(FlowType) /\ Len(flows') \in Nat
    BY <1>1 DEF FlowTable
<1>3. tx_queue_nums \in Nat
    BY <1>1, FS_CardinalityType DEF Counting
<1>4. CASE setup_EAL
  <2>1. /\ phase = "eal" /\ phase' = "parse" /\ configured' \subseteq Ports
        /\ UNCHANGED <<flows, next, tx_queue_nums, queue_setup, started>>
      BY <1>4 DEF setup_EAL, FlagHit, cardVars
  <2>2. queue_setup' = {} /\ started' = {}
      BY <1>1, <2>1 DEF Counting
  <2> QED BY <1>1, <2>1, <2>2 DEF Counting
<1>5. CASE CommandLine \/ EndParse
  <2>1. /\ phase = "parse" /\ phase' \in {"configure", "crashed"}
        /\ UNCHANGED <<next, configured, txq, tx_queue_nums, queue_setup, started>>
    <3>1. CASE CommandLine
        BY <3>1 DEF CommandLine, devVars, cardVars
    <3> QED BY <1>5, <3>1, ParserReturns
  <2>2. queue_setup = {} /\ next = 1
      BY <1>1, <2>1 DEF Counting
  <2>3. tx_queue_nums = 0
      BY <1>1, <2>2, FS_EmptySet DEF Counting
  <2> QED BY <1>1, <1>2, <2>1, <2>2, <2>3 DEF Counting
<1>6. CASE ConfigLine
  <2>1. phase = "parse"
        /\ UNCHANGED <<phase, next, configured, txq, tx_queue_nums, queue_setup, started>>
      BY <1>6 DEF ConfigLine, devVars, cardVars
  <2> QED BY <1>1, <2>1 DEF Counting
<1>7. CASE ConfigureFlow
  <2>1. /\ phase = "configure" /\ phase' = "configure" /\ next <= Len(flows)
        /\ configured' = configured \cup {flows[next].port} /\ next' = next + 1
        /\ flows' = flows /\ started' = started
      BY <1>7 DEF ConfigureFlow
  <2>2. next \in 1 .. Len(flows) /\ tx_queue_nums <= next - 1
      BY <1>1, <1>2, <2>1 DEF Counting
  <2>3. configured' \subseteq Ports /\ started' \subseteq configured'
      BY <1>1, <1>2, <2>1, <2>2, PortOfFlow DEF Counting
  <2>4. /\ queue_setup' \subseteq txq' /\ IsFiniteSet(queue_setup')
        /\ tx_queue_nums' = Cardinality(queue_setup')
        /\ tx_queue_nums' \in Nat /\ tx_queue_nums' <= tx_queue_nums + 1
    <3>1. ConfigureTxQueue(flows[next].port, flows[next].queue)
        BY <1>7 DEF ConfigureFlow
    <3> QED BY <1>1, <3>1, QueueCounted DEF Counting
  <2>5. next' \in 1 .. Len(flows') + 1 /\ tx_queue_nums' <= next' - 1
      BY <1>2, <1>3, <2>1, <2>2, <2>4
  <2> QED BY <2>1, <2>3, <2>4, <2>5 DEF Counting
<1>8. CASE ConfigureSyncQueue
  <2>1. /\ phase = "configure" /\ phase' = "start" /\ next > Len(flows)
        /\ UNCHANGED <<next, flows, configured, started>>
      BY <1>8 DEF ConfigureSyncQueue
  <2>2. next = Len(flows) + 1 /\ tx_queue_nums <= next - 1
      BY <1>1, <1>2, <2>1 DEF Counting
  <2>3. /\ queue_setup' \subseteq txq' /\ IsFiniteSet(queue_setup')
        /\ tx_queue_nums' = Cardinality(queue_setup')
        /\ tx_queue_nums' \in Nat /\ tx_queue_nums' <= tx_queue_nums + 1
    <3>1. ConfigureTxQueue(flows[Len(flows)].port, SYNC_TX_QUEUE_ID)
        BY <1>8 DEF ConfigureSyncQueue
    <3> QED BY <1>1, <3>1, QueueCounted DEF Counting
  <2>4. tx_queue_nums' <= Len(flows') + 1 /\ next' = Len(flows') + 1
      BY <1>2, <1>3, <2>1, <2>2, <2>3
  <2> QED BY <1>1, <2>1, <2>3, <2>4 DEF Counting
<1>9. CASE StartPorts
  <2>1. /\ phase = "start" /\ phase' \in {"schedule", "exited"} /\ next' = 0
        /\ started' = started \/ started' = configured \ running
        /\ UNCHANGED <<flows, configured, txq, tx_queue_nums, queue_setup>>
      BY <1>9 DEF StartPorts
  <2>2. started' \subseteq configured'
      BY <1>1, <2>1 DEF Counting
  <2> QED BY <1>1, <1>3, <2>1, <2>2 DEF Counting
<1>crash. CASE FillOverruns \/ AllocationFails \/ LaunchWithoutSchedules
  <2>1. /\ phase \in {"schedule", "launch"} /\ phase' \in {"schedule", "crashed"}
        /\ next < tx_queue_nums /\ (next' = next \/ next' = tx_queue_nums)
        /\ UNCHANGED <<flows, configured, txq, tx_queue_nums, queue_setup, started>>
      BY <1>crash DEF FillOverruns, AllocationFails, LaunchWithoutSchedules, devVars, cardVars
  <2>2. next \in 0 .. tx_queue_nums
      BY <1>1, <2>1 DEF Counting
  <2>3. next' \in 0 .. tx_queue_nums'
      BY <1>3, <2>1, <2>2
  <2> QED BY <1>1, <2>1, <2>3 DEF Counting
<1>10. CASE ScheduleQueue \/ LaunchQueue
  <2>1. /\ phase \in {"schedule", "launch"} /\ phase' = phase
        /\ next < tx_queue_nums /\ next' = next + 1
        /\ UNCHANGED <<flows, configured, txq, tx_queue_nums, queue_setup, started>>
      BY <1>10 DEF ScheduleQueue, LaunchQueue, devVars, cardVars
  <2>2. next \in 0 .. tx_queue_nums
      BY <1>1, <2>1 DEF Counting
  <2>3. next' \in 0 .. tx_queue_nums'
      BY <1>3, <2>1, <2>2
  <2> QED BY <1>1, <2>1, <2>3 DEF Counting
<1>11. CASE PreparePkts
  <2>1. /\ phase = "schedule" /\ phase' = "launch" /\ next' = 0
        /\ UNCHANGED <<flows, configured, txq, tx_queue_nums, queue_setup, started>>
      BY <1>11 DEF PreparePkts, cardVars
  <2> QED BY <1>1, <1>3, <2>1 DEF Counting
<1>12. CASE EndLaunch
  <2>1. /\ phase = "launch" /\ phase' = "running" /\ next = tx_queue_nums
        /\ UNCHANGED <<flows, next, configured, txq, tx_queue_nums, queue_setup, started>>
      BY <1>12 DEF EndLaunch, devVars, cardVars
  <2> QED BY <1>1, <1>3, <2>1 DEF Counting
<1>13. CASE Over \/ UNCHANGED vars
  <2>1. UNCHANGED <<phase, flows, next, configured, txq, tx_queue_nums, queue_setup, started>>
      BY <1>13 DEF Over, vars, devVars, cardVars
  <2> QED BY <1>1, <2>1 DEF Counting
<1> QED BY <1>4, <1>5, <1>6, <1>7, <1>8, <1>9, <1>crash, <1>10, <1>11, <1>12, <1>13 DEF Next

-----------------------------------------------------------------------------
(* Schedules, lcores and frames.                                           *)

LEMMA NoSchedules == ASSUME NEW fs PROVE SchedulesUpTo(fs, 0) = <<>> /\ QueuesUpTo(fs, 0) = {}
<1>1. 1 .. 0 = {} /\ 0 .. 0 - 1 = {}
    OBVIOUS
<1> QED BY <1>1 DEF SchedulesUpTo, QueuesUpTo

LEMMA OneScheduleMore ==
    ASSUME NEW fs, NEW n \in Nat
    PROVE  SchedulesUpTo(fs, n + 1) = Append(SchedulesUpTo(fs, n), ScheduleFor(fs, n))
<1> DEFINE S == {ScheduleFor(fs, i) : i \in Nat}
           a == SchedulesUpTo(fs, n)
           b == SchedulesUpTo(fs, n + 1)
           x == ScheduleFor(fs, n)
<1>1. \A i \in Nat : ScheduleFor(fs, i) \in S
    OBVIOUS
<1>2. ASSUME NEW m \in Nat
      PROVE  /\ SchedulesUpTo(fs, m) \in Seq(S) /\ Len(SchedulesUpTo(fs, m)) = m
             /\ \A i \in 1 .. m : SchedulesUpTo(fs, m)[i] = ScheduleFor(fs, i - 1)
  <2>1. \A i \in 1 .. m : i - 1 \in Nat
      OBVIOUS
  <2> HIDE DEF S
  <2> QED BY <1>1, <2>1 DEF SchedulesUpTo
<1> HIDE DEF S
<1>3. a \in Seq(S) /\ Len(a) = n /\ \A i \in 1 .. n : a[i] = ScheduleFor(fs, i - 1)
    BY <1>2
<1>4. b \in Seq(S) /\ Len(b) = n + 1 /\ \A i \in 1 .. n + 1 : b[i] = ScheduleFor(fs, i - 1)
  <2>1. n + 1 \in Nat
      OBVIOUS
  <2> QED BY <1>2, <2>1
<1>5. x \in S /\ b[n + 1] = x
  <2>1. (n + 1) - 1 = n /\ n + 1 \in 1 .. n + 1
      OBVIOUS
  <2>2. b[n + 1] = ScheduleFor(fs, (n + 1) - 1)
      BY <1>4, <2>1
  <2> QED BY <1>1, <2>1, <2>2
<1> HIDE DEF a, b, x
<1>6. b = Append(a, x)
    BY <1>3, <1>4, <1>5
<1> QED BY <1>6 DEF a, b, x

LEMMA OneQueueMore ==
    ASSUME NEW fs, NEW n \in Nat
    PROVE  QueuesUpTo(fs, n + 1) = IF Frames(fs, n) # 0 THEN QueuesUpTo(fs, n) \cup {n}
                                   ELSE QueuesUpTo(fs, n)
<1>1. \A q : q \in 0 .. (n + 1) - 1 <=> q \in 0 .. n - 1 \/ q = n
    OBVIOUS
<1> QED BY <1>1 DEF QueuesUpTo

\* What the table, the schedules, the lcores and the frames go by.
LEMMA ScheduleMoves ==
    ASSUME SetupInv, [Next]_vars
    PROVE  \/ /\ phase' \in {"eal", "parse", "configure", "start"}
              /\ phase \in {"eal", "parse", "configure", "start"}
              /\ UNCHANGED <<schedule, pkts, launched>>
           \/ EndParse
           \/ StartPorts
           \/ ScheduleQueue
           \/ FillOverruns
           \/ AllocationFails
           \/ PreparePkts
           \/ LaunchQueue
           \/ LaunchWithoutSchedules
           \/ EndLaunch
           \/ UNCHANGED <<phase, flows, next, tx_queue_nums, schedule, pkts, launched>>
<1>1. CASE setup_EAL
    BY <1>1 DEF setup_EAL
<1>3. CASE CommandLine
    BY <1>3 DEF CommandLine
<1>4. CASE ConfigLine
    BY <1>4 DEF ConfigLine
<1>5. CASE ConfigureFlow
    BY <1>5 DEF ConfigureFlow
<1>6. CASE ConfigureSyncQueue
    BY <1>6 DEF ConfigureSyncQueue
<1>2. CASE Over \/ UNCHANGED vars
    BY <1>2 DEF Over, vars, devVars
<1> QED BY <1>1, <1>2, <1>3, <1>4, <1>5, <1>6 DEF Next

\* The frames due, as the model and as the lemmas put it.
LEMMA DueOf ==
    ASSUME flows \in Seq(FlowType), NEW q
    PROVE  Due(q) = DueUpTo(flows, calculate_cycle(flows), q, Len(flows))
<1>1. DOMAIN flows = 1 .. Len(flows)
    OBVIOUS
<1> QED BY <1>1 DEF Due, DueUpTo, FlowsOf, FramesOf

\* The two numbers of frames of a queue.
LEMMA RoomAndFill ==
    ASSUME flows \in Seq(FlowType), flows # <<>>, NEW q
    PROVE  Fill(q) \in Nat /\ Room(q) \in Int /\ Room(q) = ToInt(Fill(q)) /\ Room(q) < INT_HALF
<1>1. calculate_cycle(flows) \in Nat
    BY CycleNat
<1>2. Fill(q) \in Nat /\ Room(q) = ToInt(Fill(q))
    BY <1>1, QueueFramesFilled DEF Fill, Room
<1> QED BY <1>2, ToIntRange

\* Room for what is written means room for nothing else: the int has not wrapped.
LEMMA RoomExact ==
    ASSUME flows \in Seq(FlowType), flows # <<>>, NEW q, Room(q) >= 0, Fill(q) <= Room(q)
    PROVE  Room(q) = Fill(q)
<1>1. Fill(q) \in Nat /\ Room(q) \in Int /\ Room(q) = ToInt(Fill(q)) /\ Room(q) < INT_HALF
    BY RoomAndFill
<1>2. -INT_HALF <= Fill(q) /\ Fill(q) < INT_HALF
    BY <1>1, WordAssumption
<1> QED BY <1>1, <1>2, ToIntSmall

\* Otherwise there are more frames than an int can tell.
LEMMA RoomMissing ==
    ASSUME flows \in Seq(FlowType), flows # <<>>, NEW q, ~(Room(q) >= 0 /\ Fill(q) <= Room(q))
    PROVE  Overflown
<1>1. Fill(q) \in Nat /\ Room(q) = ToInt(Fill(q)) /\ Cardinality(Due(q)) = Fill(q)
  <2>1. Cardinality(Due(q)) = Fill(q)
      BY CycleNat, QueueFramesFilled, DueOf DEF Fill
  <2> QED BY <2>1, RoomAndFill
<1>2. Fill(q) >= INT_HALF
  <2>1. ASSUME Fill(q) < INT_HALF PROVE FALSE
    <3>1. -INT_HALF <= Fill(q)
        BY <1>1, WordAssumption
    <3>2. Room(q) = Fill(q)
        BY <1>1, <2>1, <3>1, ToIntSmall
    <3> QED BY <1>1, <3>2
  <2> QED BY <1>1, <2>1, WordAssumption
<1>3. PICK i \in 1 .. Len(flows) : flows[i].queue = q
  <2>1. Fill(q) # 0
      BY <1>2, WordAssumption
  <2> QED BY <2>1, CycleNat, NoFlowNoFrames DEF Fill
<1>4. q \in 0 .. NUM_TX_QUEUE - 1
    BY <1>3, PortOfFlow
<1> QED BY <1>1, <1>2, <1>4 DEF Overflown

\* Schedules are made from a table that holds a flow.
LEMMA TableForSchedules ==
    ASSUME FlowTable, Schedules, NEW q \in 0 .. Made - 1
    PROVE  flows \in Seq(FlowType) /\ flows # <<>>
<1>1. schedule # <<>>
    BY DEF Schedules, Made
<1>3. flows \in Seq(FlowType)
    BY DEF FlowTable
<1> QED BY <1>1, <1>3 DEF Schedules

LEMMA SchedulesStep == SetupInv /\ [Next]_vars => Schedules'
<1> SUFFICES ASSUME SetupInv, [Next]_vars PROVE Schedules'
    OBVIOUS
<1>1. Schedules /\ Counting /\ FlowTable
    BY DEF SetupInv
<1>2. /\ Made \in Nat /\ schedule = SchedulesUpTo(flows, Made)
      /\ \A q \in 0 .. Made - 1 : Room(q) = Fill(q)
    BY <1>1 DEF Schedules, AsFilled
<1>3. tx_queue_nums \in Nat
    BY <1>1, FS_CardinalityType DEF Counting
<1>same. ASSUME UNCHANGED <<flows, schedule>>
         PROVE  AsFilled' /\ (Overflown' <=> Overflown)
    BY <1>2, <1>same DEF AsFilled, Made, Room, Fill, Overflown, Due, FlowsOf
<1>none. ASSUME schedule' = <<>>
         PROVE  AsFilled'
  <2>1. Made' = 0 /\ 0 .. 0 - 1 = {}
      BY <1>none DEF Made
  <2> QED BY <1>none, <2>1, NoSchedules DEF AsFilled
<1>4. CASE /\ phase' \in {"eal", "parse", "configure", "start"}
           /\ phase \in {"eal", "parse", "configure", "start"}
           /\ UNCHANGED <<schedule, pkts, launched>>
  <2>1. schedule' = <<>>
      BY <1>1, <1>4 DEF Schedules
  <2> QED BY <1>4, <1>none, <2>1 DEF Schedules
<1>5. CASE EndParse
  <2>1. /\ phase = "parse" /\ UNCHANGED <<flows, schedule>> /\ phase' \in {"configure", "crashed"}
        /\ phase' = "crashed" => flows = <<>>
      BY <1>5, ParserReturns
  <2>2. schedule' = <<>>
      BY <1>1, <2>1 DEF Schedules
  <2> QED BY <1>none, <2>1, <2>2 DEF Schedules
<1>6. CASE StartPorts
  <2>1. /\ phase = "start" /\ phase' \in {"schedule", "exited"} /\ next' = 0
        /\ UNCHANGED <<flows, schedule>>
      BY <1>6 DEF StartPorts
  <2>2. schedule' = <<>>
      BY <1>1, <2>1 DEF Schedules
  <2>3. Made' = next'
      BY <2>1, <2>2 DEF Made
  <2> QED BY <1>none, <2>1, <2>2, <2>3 DEF Schedules
<1>7. CASE ScheduleQueue
  <2>1. /\ phase = "schedule" /\ phase' = phase /\ next' = next + 1 /\ flows' = flows
        /\ next < tx_queue_nums /\ Room(next) >= 0 /\ Fill(next) <= Room(next)
        /\ schedule' = Append(schedule, ScheduleFor(flows, next))
      BY <1>7 DEF ScheduleQueue, ScheduleFor
  <2>2. next \in Nat /\ flows \in Seq(FlowType) /\ flows # <<>>
    <3>1. next \in 0 .. tx_queue_nums
        BY <1>1, <2>1 DEF Counting
    <3> QED BY <1>1, <2>1, <3>1 DEF FlowTable
  <2>3. Made = next
    <3>1. Made = next \/ Lost
        BY <1>1, <2>1 DEF Schedules
    <3>2. ~Lost
        BY <2>1, <2>2, <1>3 DEF Lost
    <3> QED BY <3>1, <3>2
  <2>4. schedule' = SchedulesUpTo(flows, next + 1)
      BY <1>2, <2>1, <2>2, <2>3, OneScheduleMore
  <2>5. Made' = next + 1
      BY <2>2, <2>4 DEF Made, SchedulesUpTo
  <2>6. Room(next) = Fill(next)
      BY <2>1, <2>2, RoomExact
  <2>7. ASSUME NEW q \in 0 .. Made' - 1 PROVE Room(q)' = Fill(q)'
    <3>1. q \in 0 .. Made - 1 \/ q = next
        BY <2>2, <2>3, <2>5
    <3>2. Room(q) = Fill(q)
        BY <1>2, <2>6, <3>1
    <3> QED BY <2>1, <3>2 DEF Room, Fill
  <2>8. AsFilled'
      BY <2>1, <2>2, <2>4, <2>5, <2>7 DEF AsFilled
  <2> QED BY <2>1, <2>2, <2>5, <2>8 DEF Schedules
<1>8. CASE FillOverruns
  <2>1. /\ phase = "schedule" /\ phase' = "crashed" /\ UNCHANGED <<flows, schedule>>
        /\ Room(next) >= 0 /\ Fill(next) > Room(next)
      BY <1>8 DEF FillOverruns
  <2>2. flows \in Seq(FlowType) /\ flows # <<>>
      BY <1>1, <2>1 DEF FlowTable
  <2>3. Overflown
    <3>1. Fill(next) \in Nat /\ Room(next) \in Int
        BY <2>2, RoomAndFill
    <3>2. ~(Fill(next) <= Room(next))
        BY <2>1, <3>1
    <3> QED BY <2>2, <3>2, RoomMissing
  <2> QED BY <1>same, <2>1, <2>2, <2>3 DEF Schedules
<1>9. CASE AllocationFails
  <2>1. /\ phase = "schedule" /\ phase' = phase /\ schedule' = <<>> /\ flows' = flows
        /\ next < tx_queue_nums /\ next' = tx_queue_nums /\ tx_queue_nums' = tx_queue_nums
        /\ Room(next) < 0
      BY <1>9 DEF AllocationFails, devVars
  <2>2. flows \in Seq(FlowType) /\ flows # <<>> /\ next \in 0 .. tx_queue_nums
      BY <1>1, <2>1 DEF FlowTable, Counting
  <2>3. Overflown
    <3>1. Fill(next) \in Nat /\ Room(next) \in Int
        BY <2>2, RoomAndFill
    <3>2. ~(Room(next) >= 0)
        BY <2>1, <3>1
    <3> QED BY <2>2, <3>2, RoomMissing
  <2>4. Overflown'
      BY <2>1, <2>3 DEF Overflown, Due, FlowsOf
  <2>5. Lost'
      BY <1>3, <2>1, <2>2, <2>4 DEF Lost
  <2> QED BY <1>none, <2>1, <2>2, <2>5 DEF Schedules
<1>10. CASE PreparePkts
  <2>1. /\ phase = "schedule" /\ phase' = "launch" /\ next = tx_queue_nums /\ next' = 0
        /\ UNCHANGED <<flows, schedule, tx_queue_nums>>
      BY <1>10 DEF PreparePkts
  <2>2. Made = next \/ Lost
      BY <1>1, <2>1 DEF Schedules
  <2>3. Made' = tx_queue_nums' \/ Lost'
    <3>1. CASE Made = next
        BY <2>1, <3>1 DEF Made
    <3>2. CASE Lost
        BY <1>same, <2>1, <3>2 DEF Lost
    <3> QED BY <2>2, <3>1, <3>2
  <2>4. flows # <<>>
      BY <1>1, <2>1 DEF FlowTable
  <2> QED BY <1>same, <2>1, <2>3, <2>4 DEF Schedules
<1>11. CASE LaunchQueue \/ EndLaunch
  <2>1. /\ phase = "launch" /\ phase' \in {"launch", "running"}
        /\ UNCHANGED <<flows, schedule, tx_queue_nums>>
      BY <1>11 DEF LaunchQueue, EndLaunch, devVars
  <2>2. Made = tx_queue_nums
    <3>1. Made = tx_queue_nums \/ Lost
        BY <1>1, <2>1 DEF Schedules
    <3>2. ~Lost
        BY <1>3, <1>11, <2>1 DEF LaunchQueue, EndLaunch, Lost
    <3> QED BY <3>1, <3>2
  <2>3. Made' = tx_queue_nums'
      BY <2>1, <2>2 DEF Made
  <2>4. flows # <<>> /\ AsFilled'
      BY <1>1, <1>same, <2>1 DEF FlowTable
  <2> QED BY <2>1, <2>3, <2>4 DEF Schedules
<1>12. CASE LaunchWithoutSchedules
  <2>1. /\ phase = "launch" /\ phase' = "crashed" /\ schedule = <<>> /\ next < tx_queue_nums
        /\ UNCHANGED <<flows, schedule>>
      BY <1>12 DEF LaunchWithoutSchedules
  <2>2. Overflown
    <3>1. next \in 0 .. tx_queue_nums /\ Made = 0
        BY <1>1, <2>1 DEF Counting, Made
    <3>2. Made # tx_queue_nums
        BY <1>3, <2>1, <3>1
    <3>3. Lost
        BY <1>1, <2>1, <3>2 DEF Schedules
    <3> QED BY <3>3 DEF Lost
  <2> QED BY <1>same, <2>1, <2>2 DEF Schedules
<1>13. CASE UNCHANGED <<phase, flows, next, tx_queue_nums, schedule, pkts, launched>>
  <2>1. Made' = Made /\ (Lost' <=> Lost)
      BY <1>same, <1>13 DEF Made, Lost
  <2> QED BY <1>1, <1>same, <1>13, <2>1 DEF Schedules
<1> QED BY <1>4, <1>5, <1>6, <1>7, <1>8, <1>9, <1>10, <1>11, <1>12, <1>13, ScheduleMoves

\* The schedule of a queue that has one.
LEMMA ScheduleOfQueue ==
    ASSUME Schedules, NEW q \in 0 .. Made - 1
    PROVE  /\ schedule[q + 1] = ScheduleFor(flows, q)
           /\ schedule[q + 1].cycle_period = calculate_cycle(flows)
           /\ schedule[q + 1].num_frames_per_cycle = Frames(flows, q)
<1>0. Made \in Nat
    BY DEF Schedules, AsFilled
<1>1. q + 1 \in 1 .. Made /\ (q + 1) - 1 = q
    BY <1>0
<1>2. schedule = [i \in 1 .. Made |-> ScheduleFor(flows, i - 1)]
    BY DEF Schedules, AsFilled, SchedulesUpTo
<1>3. schedule[q + 1] = ScheduleFor(flows, q)
    BY <1>1, <1>2
<1>4. /\ ScheduleFor(flows, q).cycle_period = calculate_cycle(flows)
      /\ ScheduleFor(flows, q).num_frames_per_cycle = Frames(flows, q)
    BY DEF ScheduleFor, Frames, init_schedule_state_per_queue
<1> QED BY <1>3, <1>4

LEMMA LcoresStep == SetupInv /\ [Next]_vars => Lcores'
<1> SUFFICES ASSUME SetupInv, [Next]_vars PROVE Lcores'
    OBVIOUS
<1>1. launched = QueuesUpTo(flows, Seen) /\ Counting /\ Schedules
    BY DEF SetupInv, Lcores
<1>2. CASE /\ phase' \in {"eal", "parse", "configure", "start"}
           /\ phase \in {"eal", "parse", "configure", "start"}
           /\ UNCHANGED <<schedule, pkts, launched>>
  <2>1. Seen = 0 /\ Seen' = 0
      BY <1>2 DEF Seen
  <2> QED BY <1>1, <1>2, <2>1, NoSchedules DEF Lcores
<1>3. CASE \/ EndParse \/ StartPorts \/ ScheduleQueue \/ FillOverruns \/ AllocationFails
           \/ PreparePkts
  <2>1. phase \in {"parse", "start", "schedule"} /\ UNCHANGED <<flows, launched>>
      BY <1>3, ParserReturns DEF StartPorts, ScheduleQueue, FillOverruns, AllocationFails, PreparePkts
  <2>2. Seen' = 0
    <3>1. CASE EndParse
        BY <3>1, ParserReturns DEF Seen
    <3>2. CASE StartPorts
        BY <3>2 DEF StartPorts, Seen
    <3>3. CASE ScheduleQueue \/ FillOverruns \/ AllocationFails
        BY <3>3 DEF ScheduleQueue, FillOverruns, AllocationFails, Seen
    <3>4. CASE PreparePkts
        BY <3>4 DEF PreparePkts, Seen
    <3> QED BY <1>3, <3>1, <3>2, <3>3, <3>4
  <2>3. Seen = 0
      BY <2>1 DEF Seen
  <2> QED BY <1>1, <2>1, <2>2, <2>3 DEF Lcores
<1>4. CASE LaunchQueue
  <2>1. /\ phase = "launch" /\ phase' = phase /\ next < tx_queue_nums /\ next' = next + 1
        /\ launched' = IF HasFrames(next) THEN launched \cup {next} ELSE launched
        /\ flows' = flows /\ schedule # <<>>
      BY <1>4 DEF LaunchQueue
  <2>2. next \in 0 .. tx_queue_nums /\ tx_queue_nums \in Nat
      BY <1>1, <2>1, FS_CardinalityType DEF Counting
  <2>3. Seen = next /\ Seen' = next + 1 /\ next \in 0 .. Made - 1
    <3>1. Made = tx_queue_nums
        BY <1>1, <2>1 DEF Schedules, Lost
    <3> QED BY <2>1, <2>2, <3>1 DEF Seen
  <2>4. HasFrames(next) <=> Frames(flows, next) # 0
      BY <1>1, <2>3, ScheduleOfQueue DEF HasFrames
  <2>5. launched' = QueuesUpTo(flows, next + 1)
    <3>1. next \in Nat
        BY <2>2
    <3>2. launched = QueuesUpTo(flows, next)
        BY <1>1, <2>3
    <3> QED BY <2>1, <2>4, <3>1, <3>2, OneQueueMore
  <2> QED BY <2>1, <2>3, <2>5 DEF Lcores
<1>5. CASE LaunchWithoutSchedules
  <2>1. /\ phase = "launch" /\ phase' = "crashed" /\ schedule = <<>> /\ next < tx_queue_nums
        /\ UNCHANGED <<flows, launched>>
      BY <1>5 DEF LaunchWithoutSchedules
  <2>2. next \in 0 .. tx_queue_nums /\ tx_queue_nums \in Nat
      BY <1>1, <2>1, FS_CardinalityType DEF Counting
  <2>3. Made # tx_queue_nums
      BY <2>1, <2>2 DEF Made
  <2>4. next = 0
      BY <1>1, <2>1, <2>3 DEF Schedules, Lost
  <2>5. Seen = 0 /\ Seen' = 0
      BY <2>1, <2>4 DEF Seen
  <2> QED BY <1>1, <2>1, <2>5 DEF Lcores
<1>6. CASE EndLaunch
  <2>1. phase = "launch" /\ phase' = "running" /\ UNCHANGED <<flows, next, launched>>
      BY <1>6 DEF EndLaunch
  <2>2. Seen' = Seen
      BY <2>1 DEF Seen
  <2> QED BY <1>1, <2>1, <2>2 DEF Lcores
<1>7. CASE UNCHANGED <<phase, flows, next, tx_queue_nums, schedule, pkts, launched>>
  <2>1. Seen' = Seen
      BY <1>7 DEF Seen
  <2> QED BY <1>1, <1>7, <2>1 DEF Lcores
<1> QED BY <1>2, <1>3, <1>4, <1>5, <1>6, <1>7, ScheduleMoves

LEMMA FrozenStep == SetupInv /\ [Next]_vars => Frozen'
<1> SUFFICES ASSUME SetupInv, [Next]_vars PROVE Frozen'
    OBVIOUS
<1>1. Frozen
    BY DEF SetupInv
<1>2. CASE PreparePkts
    BY <1>1, <1>2 DEF Frozen, PreparePkts
<1>3. CASE StartPorts \/ ScheduleQueue \/ AllocationFails \/ LaunchQueue \/ EndLaunch
  <2>1. UNCHANGED <<flows, pkts>> /\ phase # "crashed" /\ phase' # "crashed"
        /\ (phase \in {"launch", "running"} <=> phase' \in {"launch", "running"})
      BY <1>3 DEF StartPorts, ScheduleQueue, AllocationFails, LaunchQueue, EndLaunch
  <2> QED BY <1>1, <2>1 DEF Frozen
<1>4. CASE EndParse \/ FillOverruns \/ LaunchWithoutSchedules
  <2>1. /\ UNCHANGED <<flows, pkts>> /\ phase \in {"parse", "schedule", "launch"}
        /\ phase' \in {"configure", "crashed"}
        /\ phase' = "configure" => phase = "parse"
      BY <1>4, ParserReturns DEF FillOverruns, LaunchWithoutSchedules
  <2> QED BY <1>1, <2>1 DEF Frozen
<1>5. CASE /\ phase' \in {"eal", "parse", "configure", "start"}
           /\ phase \in {"eal", "parse", "configure", "start"}
           /\ UNCHANGED <<schedule, pkts, launched>>
    BY <1>1, <1>5 DEF Frozen
<1>6. CASE UNCHANGED <<phase, flows, next, tx_queue_nums, schedule, pkts, launched>>
    BY <1>1, <1>6 DEF Frozen
<1> QED BY <1>2, <1>3, <1>4, <1>5, <1>6, ScheduleMoves

-----------------------------------------------------------------------------
(* Flags, queues and the card.                                             *)

\* The number of ints in the struct of a port.
BlockSize == 4 + 3 * NUM_TX_QUEUE + 3 * NUM_RX_QUEUE

LEMMA SameBlock ==
    ASSUME NEW W \in Nat \ {0}, NEW p \in Nat, NEW r \in Nat,
           NEW k \in 0 .. W - 1, NEW m \in 0 .. W - 1, p * W + k = r * W + m
    PROVE  k = m
<1>1. (W * p + k) % W = k /\ (W * r + m) % W = m
    OBVIOUS
<1>2. W * p + k = p * W + k /\ W * r + m = r * W + m
    OBVIOUS
<1> QED BY <1>1, <1>2

\* A device that fits has the loops of setup_EAL write where its own queues are.
LEMMA OwnPlaces ==
    ASSUME DeviceFits, device \in Devices, NEW p \in Ports, NEW k \in 0 .. BlockSize - 1,
           DevAt(p) + k \in Written
    PROVE  \E j \in Nat : k = 4 + 3 * j
<1> DEFINE W == BlockSize
<1>1. NUM_TX_QUEUE \in Nat \ {0} /\ NUM_RX_QUEUE \in Nat \ {0} /\ Ports \subseteq Nat
      /\ device.tx \in Nat /\ device.rx \in Nat
    BY SetupAssumption
<1>2. W \in Nat \ {0} /\ W = 4 + 3 * NUM_TX_QUEUE + 3 * NUM_RX_QUEUE
    BY <1>1 DEF BlockSize
<1>3. PICK r \in Ports : \/ \E i \in 0 .. device.tx - 1 : DevAt(p) + k = TxqAt(r, i)
                         \/ \E i \in 0 .. device.rx - 1 : DevAt(p) + k = RxqAt(r, i)
    BY DEF Written
<1> HIDE DEF W
<1>4. p \in Nat /\ r \in Nat /\ k \in 0 .. W - 1
    BY <1>1 DEF W
<1>5. DevAt(p) = p * W /\ DevAt(r) = r * W
    BY DEF DevAt, W, BlockSize
<1> DEFINE a == p * W
           b == r * W
<1>6. a \in Nat /\ b \in Nat
    BY <1>2, <1>4
<1>7. ASSUME NEW m \in 0 .. W - 1, a + k = b + m PROVE k = m
  <2>1. p * W + k = r * W + m
      BY <1>7
  <2>2. W \in Nat \ {0} /\ p \in Nat /\ r \in Nat /\ k \in 0 .. W - 1
      BY <1>2, <1>4
  <2> QED BY <2>1, <2>2, SameBlock
<1> HIDE DEF a, b
<1>8. CASE \E i \in 0 .. device.tx - 1 : DevAt(p) + k = TxqAt(r, i)
  <2>1. PICK i \in 0 .. device.tx - 1 : a + k = b + 4 + 3 * i
      BY <1>5, <1>8 DEF TxqAt, a, b
  <2>2. i \in Nat /\ 4 + 3 * i \in 0 .. W - 1 /\ b + 4 + 3 * i = b + (4 + 3 * i)
      BY <1>1, <1>2, <1>6 DEF DeviceFits
  <2>3. k = 4 + 3 * i
      BY <1>7, <2>1, <2>2
  <2> QED BY <2>2, <2>3
<1>9. CASE \E i \in 0 .. device.rx - 1 : DevAt(p) + k = RxqAt(r, i)
  <2>1. PICK i \in 0 .. device.rx - 1 : a + k = b + 4 + 3 * NUM_TX_QUEUE + 3 * i
      BY <1>5, <1>9 DEF RxqAt, a, b
  <2> DEFINE j == NUM_TX_QUEUE + i
  <2>2. j \in Nat /\ 4 + 3 * j \in 0 .. W - 1
        /\ b + 4 + 3 * NUM_TX_QUEUE + 3 * i = b + (4 + 3 * j)
      BY <1>1, <1>2, <1>6 DEF DeviceFits
  <2>3. k = 4 + 3 * j
      BY <1>7, <2>1, <2>2
  <2> QED BY <2>2, <2>3
<1> QED BY <1>3, <1>8, <1>9

\* So no flag is hit, and no queue taken for configured.
LEMMA NothingHit ==
    ASSUME DeviceFits, device \in Devices
    PROVE  /\ \A n \in 1 .. 3 : FlagHit(n) = {}
           /\ {pq \in Ports \X (0 .. NUM_TX_QUEUE - 1) : TxqAt(pq[1], pq[2]) + 1 \in Written} = {}
<1>1. NUM_TX_QUEUE \in Nat \ {0} /\ NUM_RX_QUEUE \in Nat \ {0} /\ Ports \subseteq Nat
    BY SetupAssumption
<1>2. ASSUME NEW n \in 1 .. 3, NEW p \in Ports, DevAt(p) + n \in Written PROVE FALSE
  <2>1. n \in 0 .. BlockSize - 1
      BY <1>1 DEF BlockSize
  <2>2. PICK j \in Nat : n = 4 + 3 * j
      BY <1>2, <2>1, OwnPlaces
  <2> QED BY <2>2
<1>3. ASSUME NEW p \in Ports, NEW i \in 0 .. NUM_TX_QUEUE - 1, TxqAt(p, i) + 1 \in Written
      PROVE  FALSE
  <2> DEFINE k == 5 + 3 * i
  <2>1. k \in 0 .. BlockSize - 1
      BY <1>1 DEF BlockSize
  <2>2. DevAt(p) \in Nat
      BY <1>1 DEF DevAt
  <2>3. TxqAt(p, i) + 1 = DevAt(p) + k
      BY <1>1, <2>2 DEF TxqAt
  <2>4. DevAt(p) + k \in Written
      BY <1>3, <2>3
  <2>5. PICK j \in Nat : k = 4 + 3 * j
    <3> HIDE DEF k
    <3> QED BY <2>1, <2>4, OwnPlaces
  <2> QED BY <1>1, <2>5
<1>4. \A n \in 1 .. 3 : FlagHit(n) = {}
    BY <1>2 DEF FlagHit
<1>5. {pq \in Ports \X (0 .. NUM_TX_QUEUE - 1) : TxqAt(pq[1], pq[2]) + 1 \in Written} = {}
    BY <1>3
<1> QED BY <1>4, <1>5

\* Where flags and card agree, ConfigureTxQueue keeps them so, and has the queue set up.
LEMMA QueueAgrees ==
    ASSUME NEW p, NEW q, txq = queue_setup, ConfigureTxQueue(p, q)
    PROVE  txq' = queue_setup' /\ <<p, q>> \in queue_setup' /\ queue_setup \subseteq queue_setup'
<1>1. CASE <<p, q>> \in txq
    BY <1>1 DEF ConfigureTxQueue
<1>2. CASE <<p, q>> \notin txq
    BY <1>2 DEF ConfigureTxQueue, configure_tx_queue
<1> QED BY <1>1, <1>2

\* The flows up to n have their port and queue.
ReadyUpTo(n) ==
    \A i \in 1 .. n : /\ flows[i].port \in configured
                      /\ <<flows[i].port, flows[i].queue>> \in queue_setup

\* What the ports report stays what it is.
LEMMA DeviceKept == ASSUME [Next]_vars PROVE device' = device
<1>1. CASE setup_EAL
    BY <1>1 DEF setup_EAL
<1>2. CASE CommandLine \/ ConfigLine
    BY <1>2 DEF CommandLine, ConfigLine, devVars
<1>3. CASE EndParse
    BY <1>3, ParserReturns
<1>4. CASE ConfigureFlow \/ ConfigureSyncQueue
    BY <1>4 DEF ConfigureFlow, ConfigureSyncQueue
<1>5. CASE StartPorts
    BY <1>5 DEF StartPorts
<1>6. CASE ScheduleQueue \/ FillOverruns \/ AllocationFails \/ PreparePkts
    BY <1>6 DEF ScheduleQueue, FillOverruns, AllocationFails, PreparePkts, devVars
<1>7. CASE LaunchQueue \/ LaunchWithoutSchedules \/ EndLaunch \/ Over \/ UNCHANGED vars
    BY <1>7 DEF LaunchQueue, LaunchWithoutSchedules, EndLaunch, Over, vars, devVars
<1> QED BY <1>1, <1>2, <1>3, <1>4, <1>5, <1>6, <1>7 DEF Next

LEMMA AgreementStep == SetupInv /\ [Next]_vars => Agreement'
<1> SUFFICES ASSUME SetupInv, [Next]_vars, DeviceFits'
             PROVE  /\ phase' \in {"eal", "parse", "configure", "start"} => running' = {}
                    /\ phase' # "eal" => txq' = queue_setup'
                    /\ ReadyUpTo(Named)'
                    /\ phase' \in {"schedule", "launch", "running"} =>
                          started' = configured' /\ \A p \in configured' : Complete(p)'
                    /\ phase' \in {"launch", "running"} => configured' \subseteq synced'
    BY DEF Agreement, ReadyUpTo
<1>1. FlowTable /\ Counting /\ Agreement /\ phase \in Phases /\ device \in Devices
    BY DEF SetupInv
<1>2. flows \in Seq(FlowType) /\ Len(flows) \in Nat
    BY <1>1 DEF FlowTable
<1>3. device' = device /\ DeviceFits
  <2>1. device' = device
      BY DeviceKept
  <2> QED BY <2>1 DEF DeviceFits
<1>4. /\ phase \in {"eal", "parse", "configure", "start"} => running = {}
      /\ phase # "eal" => txq = queue_setup
      /\ ReadyUpTo(Named)
      /\ phase \in {"schedule", "launch", "running"} =>
            started = configured /\ \A p \in configured : Complete(p)
      /\ phase \in {"launch", "running"} => configured \subseteq synced
    BY <1>1, <1>3 DEF Agreement, ReadyUpTo
<1>5. CASE setup_EAL
  <2>1. phase = "eal" /\ phase' = "parse" /\ running' = {} /\ txq' = {}
        /\ queue_setup' = queue_setup
      BY <1>1, <1>3, <1>5, NothingHit DEF setup_EAL, cardVars
  <2>2. queue_setup = {}
      BY <1>1, <2>1 DEF Counting
  <2>3. ReadyUpTo(Named)'
      BY <2>1 DEF ReadyUpTo, Named
  <2> QED BY <2>1, <2>2, <2>3
<1>6. CASE CommandLine \/ ConfigLine \/ EndParse
  <2>1. phase = "parse" /\ phase' \in {"parse", "configure", "crashed"} /\ next' = next
        /\ UNCHANGED <<running, txq, queue_setup>>
    <3>1. CASE CommandLine \/ ConfigLine
        BY <3>1 DEF CommandLine, ConfigLine, devVars, cardVars
    <3> QED BY <1>6, <3>1, ParserReturns
  <2>2. next = 1
      BY <1>1, <2>1 DEF Counting
  <2>3. phase' = "crashed" => flows' = <<>>
    <3>1. CASE CommandLine \/ ConfigLine
        BY <2>1, <3>1 DEF CommandLine, ConfigLine
    <3> QED BY <1>6, <3>1, ParserReturns
  <2>4. ReadyUpTo(Named)'
      BY <2>1, <2>2, <2>3 DEF ReadyUpTo, Named
  <2> QED BY <1>4, <2>1, <2>4
<1>7. CASE ConfigureFlow
  <2>1. /\ phase = "configure" /\ phase' = "configure" /\ next <= Len(flows) /\ next' = next + 1
        /\ configured' = configured \cup {flows[next].port}
        /\ ConfigureTxQueue(flows[next].port, flows[next].queue)
        /\ flows' = flows /\ running' = running
      BY <1>7 DEF ConfigureFlow
  <2>2. next \in 1 .. Len(flows)
      BY <1>1, <1>2, <2>1 DEF Counting
  <2>3. /\ txq' = queue_setup' /\ <<flows[next].port, flows[next].queue>> \in queue_setup'
        /\ queue_setup \subseteq queue_setup'
      BY <1>4, <2>1, QueueAgrees
  <2>4. ReadyUpTo(next - 1)
      BY <1>4, <2>1 DEF Named
  <2>5. Named' = next
      BY <2>1, <2>2 DEF Named
  <2>6. ReadyUpTo(Named)'
    <3>1. \A i \in 1 .. next : i \in 1 .. next - 1 \/ i = next
        BY <2>2
    <3>2. \A i \in 1 .. next : /\ flows[i].port \in configured'
                               /\ <<flows[i].port, flows[i].queue>> \in queue_setup'
        BY <2>1, <2>3, <2>4, <3>1 DEF ReadyUpTo
    <3> QED BY <2>1, <2>5, <3>2 DEF ReadyUpTo
  <2>7. phase' \in {"eal", "parse", "configure", "start"} => running' = {}
      BY <1>4, <2>1
  <2> QED BY <2>1, <2>3, <2>6, <2>7
<1>8. CASE ConfigureSyncQueue
  <2>1. /\ phase = "configure" /\ phase' = "start" /\ next > Len(flows) /\ next' = next
        /\ ConfigureTxQueue(flows[Len(flows)].port, SYNC_TX_QUEUE_ID)
        /\ UNCHANGED <<flows, running, configured>>
      BY <1>8 DEF ConfigureSyncQueue
  <2>2. txq' = queue_setup' /\ queue_setup \subseteq queue_setup'
      BY <1>4, <2>1, QueueAgrees
  <2>3. next \in 1 .. Len(flows) + 1
      BY <1>1, <2>1 DEF Counting
  <2>4. Named = Len(flows) /\ Named' = Len(flows)
      BY <1>2, <2>1, <2>3 DEF Named
  <2>5. ReadyUpTo(Named)'
      BY <1>4, <2>1, <2>2, <2>4 DEF ReadyUpTo
  <2> QED BY <1>4, <2>1, <2>2, <2>5
<1>9. CASE StartPorts
  <2>1. /\ phase = "start" /\ phase' \in {"schedule", "exited"}
        /\ UNCHANGED <<flows, configured, txq, queue_setup>>
      BY <1>9 DEF StartPorts
  <2>2. Named = Len(flows) /\ Named' = Len(flows)
      BY <2>1 DEF Named
  <2>3. ReadyUpTo(Named)'
      BY <1>4, <2>1, <2>2 DEF ReadyUpTo
  <2>4. ASSUME phase' = "schedule"
        PROVE  started' = configured' /\ \A p \in configured' : Complete(p)'
    <3>1. started' = configured \ running /\ \A p \in configured \ running : Complete(p)
        BY <1>9, <2>4 DEF StartPorts
    <3>2. configured \ running = configured
        BY <1>4, <2>1
    <3>3. \A p : Complete(p)' <=> Complete(p)
        BY <2>1 DEF Complete
    <3> QED BY <2>1, <3>1, <3>2, <3>3
  <2> QED BY <1>4, <2>1, <2>3, <2>4
<1>10. CASE \/ ScheduleQueue \/ FillOverruns \/ AllocationFails \/ PreparePkts
            \/ LaunchQueue \/ LaunchWithoutSchedules \/ EndLaunch
  <2>1. /\ phase \in {"schedule", "launch"}
        /\ phase' \in {"schedule", "launch", "running", "crashed"}
        /\ UNCHANGED <<flows, configured, started, txq, queue_setup>>
      BY <1>10 DEF ScheduleQueue, FillOverruns, AllocationFails, PreparePkts, LaunchQueue,
                   LaunchWithoutSchedules, EndLaunch, devVars, cardVars
  <2>2. Named = Len(flows) /\ Named' = Len(flows)
      BY <2>1 DEF Named
  <2>3. ReadyUpTo(Named)'
      BY <1>4, <2>1, <2>2 DEF ReadyUpTo
  <2>4. \A p : Complete(p)' <=> Complete(p)
      BY <2>1 DEF Complete
  <2>5. phase' \in {"launch", "running"} => configured' \subseteq synced'
    <3>1. CASE PreparePkts
        BY <2>1, <3>1 DEF PreparePkts
    <3>2. CASE ScheduleQueue \/ FillOverruns \/ AllocationFails \/ LaunchWithoutSchedules
        BY <3>2 DEF ScheduleQueue, FillOverruns, AllocationFails, LaunchWithoutSchedules
    <3>3. CASE LaunchQueue \/ EndLaunch
        BY <1>4, <3>3 DEF LaunchQueue, EndLaunch, devVars
    <3> QED BY <1>10, <3>1, <3>2, <3>3
  <2> QED BY <1>4, <2>1, <2>3, <2>4, <2>5
<1>11. CASE Over \/ UNCHANGED vars
  <2>1. UNCHANGED <<phase, flows, next, configured, running, synced, started, txq, queue_setup>>
      BY <1>11 DEF Over, vars, devVars, cardVars
  <2>2. Named' = Named
      BY <2>1 DEF Named
  <2>3. ReadyUpTo(Named)'
      BY <1>4, <2>1, <2>2 DEF ReadyUpTo
  <2>4. \A p : Complete(p)' <=> Complete(p)
      BY <2>1 DEF Complete
  <2> QED BY <1>4, <2>1, <2>3, <2>4
<1> QED BY <1>5, <1>6, <1>7, <1>8, <1>9, <1>10, <1>11 DEF Next

-----------------------------------------------------------------------------
(* The invariant, and what follows from it.                                *)

LEMMA SetupInit == Init => SetupInv
<1> SUFFICES ASSUME Init PROVE SetupInv
    OBVIOUS
<1>1. /\ phase = "eal" /\ device \in Devices /\ locals \in FlowConfigs /\ flows = <<>>
      /\ next = 1 /\ configured = {} /\ running = {} /\ txq = {} /\ tx_queue_nums = 0
      /\ queue_setup = {} /\ started = {} /\ schedule = <<>> /\ pkts = <<>> /\ launched = {}
    BY DEF Init
<1>2. FlowTable
    BY <1>1, ConfigIsFlow, SetupAssumption DEF FlowTable
<1>3. Counting
    BY <1>1, FS_EmptySet DEF Counting
<1>4. Made = 0 /\ Seen = 0 /\ Named = 0 /\ 0 .. 0 - 1 = {}
    BY <1>1 DEF Made, Seen, Named
<1>5. Schedules /\ Lcores /\ Frozen
    BY <1>1, <1>4, NoSchedules DEF Schedules, AsFilled, Lcores, Frozen
<1>6. Agreement
    BY <1>1, <1>4 DEF Agreement
<1> QED BY <1>1, <1>2, <1>3, <1>5, <1>6 DEF SetupInv, Phases

LEMMA PhaseStep == SetupInv /\ [Next]_vars => phase' \in Phases /\ device' \in Devices
<1> SUFFICES ASSUME SetupInv, [Next]_vars PROVE phase' \in Phases /\ device' \in Devices
    OBVIOUS
<1>1. phase \in Phases /\ device \in Devices
    BY DEF SetupInv
<1>2. phase' \in Phases
  <2>1. CASE setup_EAL \/ CommandLine
      BY <2>1 DEF setup_EAL, CommandLine, Phases
  <2>2. CASE ConfigLine \/ ConfigureFlow
      BY <1>1, <2>2 DEF ConfigLine, ConfigureFlow
  <2>3. CASE EndParse
      BY <2>3, ParserReturns DEF Phases
  <2>4. CASE ConfigureSyncQueue
      BY <2>4 DEF ConfigureSyncQueue, Phases
  <2>5. CASE StartPorts
      BY <2>5 DEF StartPorts, Phases
  <2>6. CASE \/ ScheduleQueue \/ AllocationFails \/ LaunchQueue \/ Over \/ UNCHANGED vars
      BY <1>1, <2>6 DEF ScheduleQueue, AllocationFails, LaunchQueue, Over, vars
  <2>7. CASE FillOverruns \/ PreparePkts \/ LaunchWithoutSchedules \/ EndLaunch
      BY <2>7 DEF FillOverruns, PreparePkts, LaunchWithoutSchedules, EndLaunch, Phases
  <2> QED BY <2>1, <2>2, <2>3, <2>4, <2>5, <2>6, <2>7 DEF Next
<1> QED BY <1>1, <1>2, DeviceKept

\* Every reachable state satisfies the invariant.
LEMMA SetupAlways == Spec => []SetupInv
<1>1. Init => SetupInv
    BY SetupInit
<1>2. SetupInv /\ [Next]_vars => SetupInv'
    BY PhaseStep, TableStep, CountingStep, SchedulesStep, LcoresStep, FrozenStep, AgreementStep
       DEF SetupInv
<1> QED BY <1>1, <1>2, PTL DEF Spec

LEMMA CycleOfTable == ASSUME SetupInv, flows # <<>> PROVE calculate_cycle(flows) \in Nat
BY CycleNat DEF SetupInv, FlowTable

\* Only the queues there are have lcores.
LEMMA LcoresInRange == SetupInv => launched \subseteq 0 .. NUM_TX_QUEUE - 1
<1> SUFFICES ASSUME SetupInv, NEW q \in launched PROVE q \in 0 .. NUM_TX_QUEUE - 1
    OBVIOUS
<1>1. q \in 0 .. Seen - 1 /\ Frames(flows, q) # 0
    BY DEF SetupInv, Lcores, QueuesUpTo
<1>2. phase \in {"launch", "running"}
    BY <1>1 DEF Seen
<1>3. flows \in Seq(FlowType) /\ flows # <<>>
    BY <1>2 DEF SetupInv, FlowTable
<1>4. PICK i \in 1 .. Len(flows) : flows[i].queue = q
    BY <1>1, <1>3, CycleNat, NoFlowNoFrames DEF Frames
<1> QED BY <1>3, <1>4, PortOfFlow

\* The state of main(): the table and the list of statistics hold what is put into
\* them, the loops stay in their bounds, and the counter of create_schedule_state's
\* argument is the number of queues the card has set up.
THEOREM SetupTypeCorrect == Spec => []TypeOK
<1>1. SetupInv => TypeOK
  <2> SUFFICES ASSUME SetupInv PROVE TypeOK
      OBVIOUS
  <2>1. FlowTable /\ Counting /\ phase \in Phases
      BY DEF SetupInv
  <2>2. /\ Len(flows) \in Nat /\ Len(flows) <= MAX_NUM_FLOWS
        /\ MAX_NUM_FLOWS \in Nat \ {0} /\ NUM_TX_QUEUE \in Nat \ {0}
      BY <2>1, SetupAssumption DEF FlowTable
  <2>3. tx_queue_nums \in Nat
      BY <2>1, FS_CardinalityType DEF Counting
  <2>4. next \in 0 .. MAX_NUM_FLOWS + NUM_TX_QUEUE
    <3>1. CASE phase \in {"eal", "parse", "configure", "start", "exited"}
        BY <2>1, <2>2, <3>1 DEF Counting
    <3>2. CASE phase \in {"schedule", "launch", "running", "crashed"}
      <4>1. (next \in 0 .. tx_queue_nums \/ next = 1) /\ tx_queue_nums <= Len(flows) + 1
          BY <2>1, <3>2 DEF Counting
      <4> QED BY <2>2, <2>3, <4>1
    <3> QED BY <2>1, <3>1, <3>2 DEF Phases
  <2> QED BY <2>1, <2>2, <2>4, LcoresInRange DEF TypeOK, Counting, Phases
<1> QED BY <1>1, SetupAlways, PTL

-----------------------------------------------------------------------------
(* The cycle, and the flows that are ready.                                *)

\* A common multiple of the periods, as the model and as the lemmas put it.
LEMMA CommonMultipleOf ==
    ASSUME flows \in Seq(FlowType), NEW m \in Nat
    PROVE  CommonMultiple(m) <=> OfFirst(m, flows, Len(flows))
<1>1. DOMAIN flows = 1 .. Len(flows)
    OBVIOUS
<1>2. \A i \in 1 .. Len(flows) : m % Period(flows, i) = 0 <=> Multiple(m, Period(flows, i))
    BY PeriodRange, MultipleRemainder
<1> QED BY <1>1, <1>2 DEF CommonMultiple, OfFirst, Period

LEMMA CycleWhenFits ==
    ASSUME flows \in Seq(FlowType), flows # <<>>, CycleFits
    PROVE  LeastOfFirst(calculate_cycle(flows), flows, Len(flows))
<1>1. PICK m \in 1 .. WORD - 1 : CommonMultiple(m)
    BY DEF CycleFits
<1>2. m \in Nat \ {0} /\ m < WORD
    BY WordAssumption
<1>3. OfFirst(m, flows, Len(flows))
    BY <1>1, <1>2, CommonMultipleOf
<1> QED BY <1>2, <1>3, CycleLeast

\* calculate_cycle is the least common multiple of all the periods whenever that
\* number fits a word, whatever the order of the flows: no intermediate product of
\* lcm_of_array wraps.
THEOREM CycleIsTheLeast == Spec => []CycleIsLeastCommonMultiple
<1>1. SetupInv => CycleIsLeastCommonMultiple
  <2> SUFFICES ASSUME SetupInv, CycleFits, NEW q \in Scheduled
               PROVE  LeastCommonMultipleIs(schedule[q + 1].cycle_period)
      BY DEF CycleIsLeastCommonMultiple
  <2>1. FlowTable /\ Counting /\ Schedules
      BY DEF SetupInv
  <2>2. q \in Nat /\ q < Len(schedule)
      BY SetupAssumption DEF Scheduled
  <2>5. Made \in Nat /\ q \in 0 .. Made - 1
      BY <2>1, <2>2 DEF Schedules, Made
  <2>6. schedule[q + 1].cycle_period = calculate_cycle(flows)
      BY <2>1, <2>5, ScheduleOfQueue
  <2>7. flows \in Seq(FlowType) /\ flows # <<>>
      BY <2>1, <2>5, TableForSchedules
  <2> DEFINE c == calculate_cycle(flows)
  <2>8. LeastOfFirst(c, flows, Len(flows))
      BY <2>7, CycleWhenFits
  <2> HIDE DEF c
  <2>9. c \in Nat \ {0} /\ CommonMultiple(c)
      BY <2>7, <2>8, CommonMultipleOf DEF LeastOfFirst
  <2>10. ASSUME NEW k \in 1 .. c - 1, CommonMultiple(k) PROVE FALSE
    <3>1. k \in Nat \ {0} /\ k < c
        BY <2>9
    <3>2. OfFirst(k, flows, Len(flows))
        BY <2>7, <2>10, <3>1, CommonMultipleOf
    <3>3. Multiple(k, c)
        BY <2>8, <3>1, <3>2 DEF LeastOfFirst
    <3>4. c <= k
        BY <2>9, <3>1, <3>3, MultipleNoSmaller
    <3> QED BY <2>9, <3>1, <3>4
  <2>11. LeastCommonMultipleIs(c)
      BY <2>9, <2>10 DEF LeastCommonMultipleIs
  <2> QED BY <2>6, <2>11 DEF c
<1> QED BY <1>1, SetupAlways, PTL

\* A port with all its queues has them counted.
LEMMA EnoughQueues ==
    ASSUME NEW p, Complete(p), IsFiniteSet(queue_setup)
    PROVE  NUM_TX_QUEUE <= Cardinality(queue_setup)
<1>1. NUM_TX_QUEUE \in Nat \ {0}
    BY SetupAssumption
<1> DEFINE Q == 0 .. NUM_TX_QUEUE - 1
<1>2. IsFiniteSet(Q) /\ Cardinality(Q) = NUM_TX_QUEUE
    BY <1>1, FS_Interval
<1>3. IsFiniteSet({p}) /\ Cardinality({p}) = 1
    BY FS_Singleton
<1> HIDE DEF Q
<1>4. IsFiniteSet({p} \X Q) /\ Cardinality({p} \X Q) = Cardinality({p}) * Cardinality(Q)
    BY <1>2, <1>3, FS_Product
<1>5. Cardinality({p} \X Q) = NUM_TX_QUEUE
    BY <1>1, <1>2, <1>3, <1>4
<1>6. Cardinality({p} \X Q) <= Cardinality(queue_setup)
    BY FS_Subset DEF Complete, Q
<1> QED BY <1>5, <1>6

\* Once the lcores run on a device that fits, with a cycle that fits, every flow has
\* its queue, its port and its lcore, for any number of ports: the queues of several
\* ports are counted together, and so every port has at least as many as are needed.
THEOREM EveryFlowReady == Spec => []FlowsReady
<1>1. SetupInv => FlowsReady
  <2> SUFFICES ASSUME SetupInv, phase = "running", DeviceFits, CycleFits, NEW i \in DOMAIN flows
               PROVE  /\ <<flows[i].port, flows[i].queue>> \in queue_setup
                      /\ flows[i].port \in started \cap synced
                      /\ flows[i].queue \in launched
      BY DEF FlowsReady
  <2>1. FlowTable /\ Counting /\ Schedules /\ Lcores /\ Agreement
      BY DEF SetupInv
  <2>2. flows \in Seq(FlowType) /\ flows # <<>> /\ i \in 1 .. Len(flows) /\ Named = Len(flows)
      BY <2>1 DEF FlowTable, Named
  <2>3. <<flows[i].port, flows[i].queue>> \in queue_setup /\ flows[i].port \in configured
      BY <2>1, <2>2 DEF Agreement
  <2>4. started = configured /\ Complete(flows[i].port) /\ configured \subseteq synced
      BY <2>1, <2>3 DEF Agreement
  <2>5. NUM_TX_QUEUE <= tx_queue_nums /\ next = tx_queue_nums /\ tx_queue_nums \in Nat
      BY <2>1, <2>4, EnoughQueues, FS_CardinalityType DEF Counting
  <2>6. flows[i].queue \in 0 .. NUM_TX_QUEUE - 1
      BY <2>2, PortOfFlow
  <2>7. flows[i].queue \in 0 .. Seen - 1
      BY <2>5, <2>6, SetupAssumption DEF Seen
  <2>8. Frames(flows, flows[i].queue) # 0
    <3> DEFINE c == calculate_cycle(flows)
    <3>1. LeastOfFirst(c, flows, Len(flows))
        BY <2>2, CycleWhenFits
    <3> HIDE DEF c
    <3>2. c \in Nat \ {0} /\ \A j \in 1 .. Len(flows) : Multiple(c, Period(flows, j))
        BY <3>1 DEF LeastOfFirst, OfFirst
    <3>3. \A j \in 1 .. Len(flows) : Period(flows, j) <= c
        BY <2>2, <3>2, PeriodRange, MultipleNoSmaller
    <3>4. Len(QueueFrames(flows, c, flows[i].queue)) # 0
        BY <2>2, <3>2, <3>3, FlowHasFrames
    <3>5. Room(flows[i].queue) = Fill(flows[i].queue)
      <4>1. Made = tx_queue_nums /\ Seen = next
          BY <2>1 DEF Schedules, Seen
      <4>2. \A q \in 0 .. Made - 1 : Room(q) = Fill(q)
          BY <2>1 DEF Schedules, AsFilled
      <4>3. flows[i].queue \in 0 .. Made - 1
          BY <2>5, <2>7, <4>1
      <4> QED BY <4>2, <4>3
    <3> QED BY <3>4, <3>5 DEF Room, Fill, Frames, c
  <2>9. flows[i].queue \in launched
      BY <2>1, <2>7, <2>8 DEF Lcores, QueuesUpTo
  <2> QED BY <2>3, <2>4, <2>9
<1> QED BY <1>1, SetupAlways, PTL

-----------------------------------------------------------------------------
(* The checksum.                                                           *)

\* An empty buffer takes the ethernet header without its tag.
TailroomForHeader == TAILROOM >= 14

Span   == [from : Nat, to : Nat]
Part   == [what : {"eth", "vlan", "ip", "udp", "payload"}, at : Span]
Buffer == [len : Nat, parts : SUBSET Part, sum : Span]

NoPayload(m) == \A x \in m.parts : x.what # "payload"

LEMMA SpanOfBytes ==
    ASSUME NEW n \in Nat, NEW k \in Nat
    PROVE  Bytes(n, k) \in Span /\ Bytes(n, k).from = n /\ Bytes(n, k).to = n + k
BY DEF Bytes, Span

\* append keeps a buffer and its checksum, and writes at its end if it writes.
Appended(r, m, what, n) ==
    /\ r \in Buffer
    /\ r.sum = m.sum
    /\ m.len + n <= TAILROOM => r.len = m.len + n
    /\ \A x \in r.parts : x \in m.parts \/ (x.what = what /\ x.at = Bytes(m.len, n))

LEMMA AppendKeeps ==
    ASSUME NEW m \in Buffer, NEW what \in {"eth", "vlan", "ip", "udp", "payload"}, NEW n \in Nat
    PROVE  Appended(append(m, what, n), m, what, n)
<1> DEFINE new == [what |-> what, at |-> Bytes(m.len, n)]
           r   == append(m, what, n)
<1>1. m.len \in Nat /\ m.parts \in SUBSET Part /\ m.sum \in Span
    BY DEF Buffer
<1>2. new \in Part /\ new.what = what /\ new.at = Bytes(m.len, n)
    BY <1>1, SpanOfBytes DEF Part
<1>3. CASE m.len + n > TAILROOM
  <2>1. r = m
      BY <1>3 DEF append
  <2>2. ~(m.len + n <= TAILROOM)
      BY <1>1, <1>3, TailroomAssumption
  <2>3. Appended(m, m, what, n)
      BY <2>2 DEF Appended
  <2> HIDE DEF r
  <2>4. Appended(r, m, what, n)
      BY <2>1, <2>3
  <2> QED BY <2>4 DEF r
<1>4. CASE ~(m.len + n > TAILROOM)
  <2>1. r = [m EXCEPT !.len = m.len + n, !.parts = m.parts \cup {new}]
      BY <1>4 DEF append
  <2> HIDE DEF new, r
  <2>2. r.len = m.len + n /\ r.parts = m.parts \cup {new} /\ r.sum = m.sum
      BY <2>1 DEF Buffer
  <2>3. m.len + n \in Nat /\ m.parts \cup {new} \in SUBSET Part
      BY <1>1, <1>2
  <2>4. r \in Buffer
      BY <2>1, <2>3 DEF Buffer
  <2>5. ASSUME NEW x \in r.parts
        PROVE  x \in m.parts \/ (x.what = what /\ x.at = Bytes(m.len, n))
    <3>1. x \in m.parts \/ x = new
        BY <2>2
    <3>2. ASSUME x = new PROVE x.what = what /\ x.at = Bytes(m.len, n)
        BY <1>2, <3>2
    <3> QED BY <3>1, <3>2
  <2> QED BY <2>2, <2>4, <2>5 DEF Appended, r
<1> QED BY <1>3, <1>4

LEMMA ChecksumOfFrame ==
    ASSUME TailroomForHeader, NEW f \in FlowType, f.ip, ~f.vlan
    PROVE  /\ prepare_pkt(f).sum.to = prepare_pkt(f).len
           /\ \A r \in Payload(prepare_pkt(f)) : Disjoint(r, prepare_pkt(f).sum)
<1> DEFINE eth  == append(EmptyBuffer, "eth", 14)
           ip   == append(eth, "ip", 20)
           udp  == append(ip, "udp", 8)
           sum  == Bytes(eth.len + 20, 8 + f.size)
           head == [udp EXCEPT !.len = FrameLen(f), !.sum = sum]
           body == append(head, "payload", f.size)
           m    == [body EXCEPT !.len = FrameLen(f)]
<1>1. f.size \in Nat /\ FrameLen(f) = 42 + f.size /\ FrameLen(f) \in Nat
    BY DEF FlowType, FrameLen
<1>2. prepare_pkt(f) = m
    BY DEF prepare_pkt, prepare_packet_payload, prepare_packet_header, setup_ethernet_header,
           setup_ip_header, setup_udp_header
<1>3. EmptyBuffer \in Buffer /\ NoPayload(EmptyBuffer) /\ EmptyBuffer.len = 0
    BY SpanOfBytes DEF EmptyBuffer, Buffer, NoPayload
<1>4. eth \in Buffer /\ NoPayload(eth) /\ eth.len = 14
  <2>1. 0 + 14 <= TAILROOM /\ 0 + 14 = 14
      BY TailroomAssumption DEF TailroomForHeader
  <2> HIDE DEF eth
  <2>2. Appended(eth, EmptyBuffer, "eth", 14)
      BY <1>3, AppendKeeps DEF eth
  <2> QED BY <1>3, <2>1, <2>2 DEF Appended, NoPayload
<1> HIDE DEF eth
<1>5. ip \in Buffer /\ NoPayload(ip)
  <2>1. Appended(ip, eth, "ip", 20)
      BY <1>4, AppendKeeps
  <2> HIDE DEF ip
  <2> QED BY <1>4, <2>1 DEF Appended, NoPayload
<1> HIDE DEF ip
<1>6. udp \in Buffer /\ NoPayload(udp)
  <2>1. Appended(udp, ip, "udp", 8)
      BY <1>5, AppendKeeps
  <2> HIDE DEF udp
  <2> QED BY <1>5, <2>1 DEF Appended, NoPayload
<1> HIDE DEF udp
<1>7. sum \in Span /\ sum.to = 42 + f.size
  <2>1. eth.len + 20 \in Nat /\ 8 + f.size \in Nat /\ eth.len + 20 + (8 + f.size) = 42 + f.size
      BY <1>1, <1>4
  <2> QED BY <2>1, SpanOfBytes
<1> HIDE DEF sum
<1>8. head \in Buffer /\ NoPayload(head) /\ head.len = FrameLen(f) /\ head.sum = sum
    BY <1>1, <1>6, <1>7 DEF Buffer, NoPayload
<1> HIDE DEF head
<1>9. /\ body \in Buffer /\ body.sum = sum
      /\ \A x \in body.parts : x \in head.parts \/ x.at = Bytes(FrameLen(f), f.size)
  <2>1. Appended(body, head, "payload", f.size)
      BY <1>1, <1>8, AppendKeeps
  <2> HIDE DEF body
  <2> QED BY <1>8, <2>1 DEF Appended
<1> HIDE DEF body
<1>10. m.len = FrameLen(f) /\ m.sum = sum /\ m.parts = body.parts
    BY <1>9 DEF Buffer
<1> HIDE DEF m
<1>11. ASSUME NEW r \in Payload(m) PROVE Disjoint(r, m.sum)
  <2>1. PICK x \in m.parts : x.what = "payload" /\ r = x.at
      BY DEF Payload
  <2>2. x.at = Bytes(FrameLen(f), f.size)
      BY <1>8, <1>9, <1>10, <2>1 DEF NoPayload
  <2>3. r.from = 42 + f.size
    <3>1. Bytes(FrameLen(f), f.size).from = FrameLen(f)
        BY <1>1, SpanOfBytes
    <3> QED BY <1>1, <2>1, <2>2, <3>1
  <2> QED BY <1>1, <1>7, <1>10, <2>3 DEF Disjoint
<1> QED BY <1>1, <1>2, <1>7, <1>10, <1>11

\* A frame with headers and without tag is consistent whatever its payload is and
\* whether or not it fits the buffer: the checksum covers the datagram up to the end
\* of the frame, and the payload is written after the bytes it was computed over.
THEOREM ChecksumsStand ==
    ASSUME TailroomForHeader PROVE Spec => []ChecksumStands
<1>1. SetupInv => ChecksumStands
  <2> SUFFICES ASSUME SetupInv, NEW i \in DOMAIN pkts,
                      flows[i].ip, ~flows[i].vlan
               PROVE  /\ pkts[i].sum.to = pkts[i].len
                      /\ \A r \in Payload(pkts[i]) : Disjoint(r, pkts[i].sum)
      BY DEF ChecksumStands
  <2>1. i \in DOMAIN flows /\ pkts[i] = prepare_pkt(flows[i])
    <3>1. Frozen
        BY DEF SetupInv
    <3>2. DOMAIN <<>> = {}
        OBVIOUS
    <3> QED BY <3>1, <3>2 DEF Frozen
  <2>2. flows[i] \in FlowType
      BY <2>1 DEF SetupInv, FlowTable
  <2> QED BY <2>1, <2>2, ChecksumOfFrame
<1> QED BY <1>1, SetupAlways, PTL

-----------------------------------------------------------------------------
(* The configuration file.                                                 *)

\* What a line may have said.
Said == {Given(f, n, badVlan) : f \in FlowConfigs, n \in ReadCounts, badVlan \in BOOLEAN}

\* The lines up to the n-th that gave field k.
Givers(ls, n, k) == {j \in 1 .. n : k \in DOMAIN ls[j]}

\* The last of them gave it v.
LastSaid(ls, n, k, v) ==
    Givers(ls, n, k) # {} => v = ls[Max(Givers(ls, n, k))][k]

\* While the file is read there is a flow for every line, up to the capacity; the
\* locals hold what was said last, and every flow what was said last up to its line.
InStep ==
    /\ Len(flows) = IF Len(lines) <= MAX_NUM_FLOWS THEN Len(lines) ELSE MAX_NUM_FLOWS
    /\ \A k \in FieldNames : LastSaid(lines, Len(lines), k, locals[k])
    /\ \A i \in 1 .. Len(flows), k \in FieldNames : LastSaid(lines, i, k, flows[i][k])

Parsed ==
    /\ lines \in Seq(Said)
    /\ phase # "parse" => lines = <<>>
    /\ phase = "eal" => flows = <<>>
    /\ phase = "parse" => InStep

LEMMA GiversBounded ==
    ASSUME NEW ls, NEW n \in Nat, NEW k, Givers(ls, n, k) # {}
    PROVE  /\ Max(Givers(ls, n, k)) \in Givers(ls, n, k)
           /\ \A y \in Givers(ls, n, k) : y <= Max(Givers(ls, n, k))
<1>1. Givers(ls, n, k) \in SUBSET (1 .. n)
    BY DEF Givers
<1> QED BY <1>1, GreatestPlace

\* Lines that follow do not change what was said before.
LEMMA SaidBefore ==
    ASSUME NEW S, NEW ls \in Seq(S), NEW x \in S, NEW n \in 0 .. Len(ls), NEW k, NEW v
    PROVE  LastSaid(Append(ls, x), n, k, v) <=> LastSaid(ls, n, k, v)
<1>1. \A j \in 1 .. n : Append(ls, x)[j] = ls[j]
    OBVIOUS
<1>2. Givers(Append(ls, x), n, k) = Givers(ls, n, k)
    BY <1>1 DEF Givers
<1>3. CASE Givers(ls, n, k) = {}
    BY <1>2, <1>3 DEF LastSaid
<1>4. CASE Givers(ls, n, k) # {}
  <2>1. Max(Givers(ls, n, k)) \in 1 .. n
    <3>1. Max(Givers(ls, n, k)) \in Givers(ls, n, k)
        BY <1>4, GiversBounded
    <3> QED BY <3>1 DEF Givers
  <2> QED BY <1>1, <1>2, <1>4, <2>1 DEF LastSaid
<1> QED BY <1>3, <1>4

\* The line itself says its own value, or leaves what was said before.
LEMMA SaidNow ==
    ASSUME NEW S, NEW ls \in Seq(S), NEW x \in S, NEW k, NEW old,
           LastSaid(ls, Len(ls), k, old)
    PROVE  LastSaid(Append(ls, x), Len(ls) + 1, k, IF k \in DOMAIN x THEN x[k] ELSE old)
<1> DEFINE n  == Len(ls)
           as == Append(ls, x)
<1>1. n \in Nat /\ as[n + 1] = x /\ \A j \in 1 .. n : as[j] = ls[j]
    OBVIOUS
<1> HIDE DEF n, as
<1>2. CASE k \in DOMAIN x
  <2>1. n + 1 \in Givers(as, n + 1, k)
    <3>1. n + 1 \in 1 .. n + 1 /\ n + 1 \in Nat
        BY <1>1
    <3>2. k \in DOMAIN as[n + 1]
        BY <1>1, <1>2
    <3> QED BY <3>1, <3>2 DEF Givers
  <2> DEFINE m == Max(Givers(as, n + 1, k))
  <2>2. m \in Givers(as, n + 1, k) /\ n + 1 <= m
    <3>1. n + 1 \in Nat
        BY <1>1
    <3>2. Givers(as, n + 1, k) # {}
        BY <2>1
    <3> QED BY <2>1, <3>1, <3>2, GiversBounded
  <2> HIDE DEF m
  <2>3. m = n + 1
    <3>1. m \in 1 .. n + 1
        BY <2>2 DEF Givers
    <3> QED BY <1>1, <2>2, <3>1
  <2> QED BY <1>1, <1>2, <2>3 DEF LastSaid, m, n, as
<1>3. CASE k \notin DOMAIN x
  <2>1. Givers(as, n + 1, k) = Givers(as, n, k)
    <3>1. \A j : j \in 1 .. n + 1 <=> j \in 1 .. n \/ j = n + 1
        BY <1>1
    <3> QED BY <1>1, <1>3, <3>1 DEF Givers
  <2>2. LastSaid(as, n, k, old)
    <3>1. n \in 0 .. Len(ls)
        BY <1>1 DEF n
    <3> QED BY <3>1, SaidBefore DEF n, as
  <2> QED BY <1>3, <2>1, <2>2 DEF LastSaid, n, as
<1> QED BY <1>2, <1>3

\* One line read.
LEMMA LineRead ==
    ASSUME FlowTable, FlowTable', Parsed, ConfigLine
    PROVE  lines' \in Seq(Said) /\ InStep'
<1>1. phase = "parse" /\ phase' = "parse" /\ add_flow(locals')
    BY DEF ConfigLine
<1>2. PICK f \in FlowConfigs, n \in ReadCounts, badVlan \in BOOLEAN :
          /\ locals' = Overwrite(locals, Given(f, n, badVlan))
          /\ lines' = Append(lines, Given(f, n, badVlan))
    BY DEF ConfigLine
<1> DEFINE given == Given(f, n, badVlan)
<1>3. given \in Said /\ lines \in Seq(Said) /\ InStep
    BY <1>1 DEF Said, Parsed
<1>4. /\ flows \in Seq(FlowType) /\ locals \in FlowType /\ locals' \in FlowType
      /\ DOMAIN locals = FieldNames
  <2>1. flows \in Seq(FlowType) /\ locals \in FlowType
      BY <1>1 DEF FlowTable
  <2>2. locals' \in FlowType
      BY <1>2, <2>1, OverwriteFlow
  <2> QED BY <2>1, <2>2, FlowDomain
<1>5. MAX_NUM_FLOWS \in Nat \ {0}
    BY SetupAssumption
<1>6. \A k \in FieldNames : locals'[k] = IF k \in DOMAIN given THEN given[k] ELSE locals[k]
    BY <1>2, <1>4 DEF Overwrite
<1> HIDE DEF given
<1>7. lines' = Append(lines, given)
    BY <1>2 DEF given
<1>8. lines' \in Seq(Said) /\ Len(lines') = Len(lines) + 1 /\ Len(lines) \in Nat
    BY <1>3, <1>7
<1>9. ASSUME NEW k \in FieldNames PROVE LastSaid(lines', Len(lines'), k, locals'[k])
  <2>1. LastSaid(lines, Len(lines), k, locals[k])
      BY <1>3 DEF InStep
  <2>2. LastSaid(Append(lines, given), Len(lines) + 1, k,
                 IF k \in DOMAIN given THEN given[k] ELSE locals[k])
      BY <1>3, <2>1, SaidNow
  <2> QED BY <1>6, <1>7, <1>8, <2>2
<1>10. Len(flows) <= Len(lines) /\ Len(flows) \in Nat
    BY <1>3, <1>4, <1>5, <1>8 DEF InStep
<1>11. ASSUME NEW i \in 1 .. Len(flows), NEW k \in FieldNames
       PROVE  LastSaid(lines', i, k, flows[i][k])
  <2>1. LastSaid(lines, i, k, flows[i][k]) /\ i \in 0 .. Len(lines)
      BY <1>3, <1>8, <1>10 DEF InStep
  <2> QED BY <1>3, <1>7, <2>1, SaidBefore
<1>12. CASE Len(flows) >= MAX_NUM_FLOWS
  <2>1. flows' = flows
      BY <1>1, <1>12 DEF add_flow
  <2>2. Len(flows') = IF Len(lines') <= MAX_NUM_FLOWS THEN Len(lines') ELSE MAX_NUM_FLOWS
      BY <1>3, <1>5, <1>8, <1>10, <1>12, <2>1 DEF InStep
  <2> QED BY <1>8, <1>9, <1>11, <2>1, <2>2 DEF InStep
<1>13. CASE ~(Len(flows) >= MAX_NUM_FLOWS)
  <2>1. flows' = Append(flows, locals')
      BY <1>1, <1>13 DEF add_flow
  <2>2. Len(flows) = Len(lines)
      BY <1>3, <1>5, <1>8, <1>10, <1>13 DEF InStep
  <2>3. /\ Len(flows') = Len(lines')
        /\ flows'[Len(lines')] = locals'
        /\ \A i \in 1 .. Len(flows) : flows'[i] = flows[i]
      BY <1>4, <1>8, <2>1, <2>2
  <2>4. Len(flows') = IF Len(lines') <= MAX_NUM_FLOWS THEN Len(lines') ELSE MAX_NUM_FLOWS
      BY <1>5, <1>8, <1>10, <1>13, <2>2, <2>3
  <2>5. ASSUME NEW i \in 1 .. Len(flows'), NEW k \in FieldNames
        PROVE  LastSaid(lines', i, k, flows'[i][k])
    <3>1. i \in 1 .. Len(flows) \/ i = Len(lines')
        BY <1>8, <1>10, <2>2, <2>3
    <3>2. CASE i \in 1 .. Len(flows)
        BY <1>11, <2>3, <3>2
    <3>3. CASE i = Len(lines')
        BY <1>9, <2>3, <3>3
    <3> QED BY <3>1, <3>2, <3>3
  <2> QED BY <1>8, <1>9, <2>4, <2>5 DEF InStep
<1> QED BY <1>12, <1>13

LEMMA ParsedStep == SetupInv /\ Parsed /\ [Next]_vars => Parsed'
<1> SUFFICES ASSUME SetupInv, Parsed, [Next]_vars PROVE Parsed'
    OBVIOUS
<1>1. FlowTable /\ FlowTable' /\ phase \in Phases
    BY TableStep DEF SetupInv
<1>2. CASE ConfigLine
  <2>1. phase' = "parse"
      BY <1>2 DEF ConfigLine
  <2> QED BY <1>1, <1>2, <2>1, LineRead DEF Parsed
<1>3. CASE setup_EAL
  <2>1. phase = "eal" /\ phase' = "parse" /\ UNCHANGED <<lines, flows, locals>>
      BY <1>3 DEF setup_EAL, parserVars
  <2>2. lines' = <<>> /\ flows' = <<>>
      BY <2>1 DEF Parsed
  <2>3. InStep'
    <3>1. Len(lines') = 0 /\ Len(flows') = 0 /\ 1 .. 0 = {}
        BY <2>2
    <3>2. \A k : Givers(lines', 0, k) = {}
        BY <3>1 DEF Givers
    <3>3. \A k, v : LastSaid(lines', 0, k, v)
        BY <3>2 DEF LastSaid
    <3> QED BY <3>1, <3>3, SetupAssumption DEF InStep
  <2> QED BY <2>1, <2>2, <2>3 DEF Parsed
<1>4. CASE CommandLine \/ EndParse
  <2>1. phase' \notin {"eal", "parse"} /\ lines' = <<>>
    <3>1. CASE CommandLine
        BY <3>1 DEF CommandLine
    <3>2. CASE EndParse
        BY <3>2, ParserReturns DEF EndParse
    <3> QED BY <1>4, <3>1, <3>2
  <2> QED BY <2>1 DEF Parsed
<1>5. CASE \/ ConfigureFlow \/ ConfigureSyncQueue \/ StartPorts
           \/ ScheduleQueue \/ FillOverruns \/ AllocationFails \/ PreparePkts
           \/ LaunchQueue \/ LaunchWithoutSchedules \/ EndLaunch
  <2>1. phase \notin {"eal", "parse"} /\ phase' \notin {"eal", "parse"} /\ lines' = lines
    <3>1. CASE ConfigureFlow \/ ConfigureSyncQueue
        BY <3>1 DEF ConfigureFlow, ConfigureSyncQueue, parserVars
    <3>2. CASE StartPorts
        BY <3>2 DEF StartPorts, parserVars
    <3>3. CASE ScheduleQueue \/ FillOverruns \/ AllocationFails \/ PreparePkts
        BY <3>3 DEF ScheduleQueue, FillOverruns, AllocationFails, PreparePkts, parserVars
    <3>4. CASE LaunchQueue \/ LaunchWithoutSchedules \/ EndLaunch
        BY <3>4 DEF LaunchQueue, LaunchWithoutSchedules, EndLaunch, parserVars
    <3> QED BY <1>5, <3>1, <3>2, <3>3, <3>4
  <2> QED BY <2>1 DEF Parsed
<1>6. CASE Over \/ UNCHANGED vars
  <2>1. UNCHANGED <<phase, lines, flows, locals>>
      BY <1>6 DEF Over, vars, parserVars
  <2> QED BY <2>1 DEF Parsed, InStep
<1> QED BY <1>2, <1>3, <1>4, <1>5, <1>6 DEF Next

\* A flow of the table is what the file says up to the line of its own number,
\* however many fields sscanf converted of each line and however long the file is: a
\* malformed line neither moves the flows that follow it nor changes an earlier one.
THEOREM FlowsFollowTheFile == Spec => []FlowsAsWritten
<1>1. Init => Parsed
  <2> SUFFICES ASSUME Init PROVE Parsed
      OBVIOUS
  <2>1. phase = "eal" /\ lines = <<>> /\ flows = <<>>
      BY DEF Init
  <2> QED BY <2>1 DEF Parsed
<1>2. SetupInv /\ Parsed /\ [Next]_vars => Parsed'
    BY ParsedStep
<1>3. SetupInv /\ Parsed => FlowsAsWritten
  <2> SUFFICES ASSUME SetupInv, Parsed PROVE FlowsAsWritten
      OBVIOUS
  <2>1. flows \in Seq(FlowType) /\ lines \in Seq(Said)
      BY DEF SetupInv, FlowTable, Parsed
  <2>2. Min({Len(lines), Len(flows)}) \in {Len(lines), Len(flows)}
        /\ Min({Len(lines), Len(flows)}) <= Len(lines)
        /\ Min({Len(lines), Len(flows)}) <= Len(flows)
    <3>1. Len(lines) \in Nat /\ Len(flows) \in Nat
        BY <2>1
    <3>2. \E x \in {Len(lines), Len(flows)} : \A y \in {Len(lines), Len(flows)} : x =< y
        BY <3>1
    <3> QED BY <3>2 DEF Min
  <2>3. SUFFICES ASSUME NEW i \in 1 .. Min({Len(lines), Len(flows)}), NEW k \in DOMAIN flows[i]
                 PROVE  LastSaid(lines, i, k, flows[i][k])
      BY DEF FlowsAsWritten, LastSaid, Givers
  <2>4. i \in 1 .. Len(flows) /\ lines # <<>>
      BY <2>1, <2>2
  <2>5. k \in FieldNames
      BY <2>1, <2>4, FlowDomain
  <2> QED BY <2>4, <2>5 DEF Parsed, InStep
<1> QED BY <1>1, <1>2, <1>3, SetupAlways, PTL DEF Spec

-----------------------------------------------------------------------------
(* The bubble sort.                                                        *)

\* The frames of n places.
Slots(n) == [1 .. n -> Frame]

\* t holds the frames of s, each once.
Permuted(s, t, n) ==
    \E p \in [1 .. n -> 1 .. n] :
       /\ \A a, b \in 1 .. n : p[a] = p[b] => a = b
       /\ \A c \in 1 .. n : \E a \in 1 .. n : p[a] = c
       /\ \A a \in 1 .. n : t[a] = s[p[a]]

\* Frames with equal sending times are in the order of their flows.
Stable(s, n) ==
    \A a, b \in 1 .. n : a < b /\ s[a].time = s[b].time => s[a].flow <= s[b].flow

\* Nothing before a place beyond m is later than the frame there.
Settled(s, m, n) ==
    \A a \in 1 .. n, b \in m + 1 .. n : a < b => s[a].time <= s[b].time

\* The frame at place m is the latest of the first m.
LatestAt(s, m) == \A a \in 1 .. m : s[a].time <= s[m].time

LEMMA PermutedSame == ASSUME NEW n \in Nat, NEW s \in Slots(n) PROVE Permuted(s, s, n)
<1> DEFINE p == [a \in 1 .. n |-> a]
<1>1. p \in [1 .. n -> 1 .. n] /\ \A a \in 1 .. n : p[a] = a
    OBVIOUS
<1> HIDE DEF p
<1>2. \A a \in 1 .. n : s[a] = s[p[a]]
    BY <1>1
<1>3. \A a, b \in 1 .. n : p[a] = p[b] => a = b
    BY <1>1
<1>4. \A c \in 1 .. n : \E a \in 1 .. n : p[a] = c
    BY <1>1
<1> QED BY <1>1, <1>2, <1>3, <1>4 DEF Permuted

LEMMA PermutedTwice ==
    ASSUME NEW n \in Nat, NEW r, NEW s, NEW t, Permuted(r, s, n), Permuted(s, t, n)
    PROVE  Permuted(r, t, n)
<1>1. PICK p \in [1 .. n -> 1 .. n] :
          /\ \A a, b \in 1 .. n : p[a] = p[b] => a = b
          /\ \A c \in 1 .. n : \E a \in 1 .. n : p[a] = c
          /\ \A a \in 1 .. n : s[a] = r[p[a]]
    BY DEF Permuted
<1>2. PICK o \in [1 .. n -> 1 .. n] :
          /\ \A a, b \in 1 .. n : o[a] = o[b] => a = b
          /\ \A c \in 1 .. n : \E a \in 1 .. n : o[a] = c
          /\ \A a \in 1 .. n : t[a] = s[o[a]]
    BY DEF Permuted
<1> DEFINE u == [a \in 1 .. n |-> p[o[a]]]
<1>3. u \in [1 .. n -> 1 .. n] /\ \A a \in 1 .. n : u[a] = p[o[a]]
    OBVIOUS
<1> HIDE DEF u
<1>4. ASSUME NEW a \in 1 .. n, NEW b \in 1 .. n, u[a] = u[b] PROVE a = b
  <2>1. o[a] \in 1 .. n /\ o[b] \in 1 .. n /\ p[o[a]] = p[o[b]]
      BY <1>3, <1>4
  <2>2. o[a] = o[b]
      BY <1>1, <2>1
  <2> QED BY <1>2, <2>2
<1>5. ASSUME NEW c \in 1 .. n PROVE \E a \in 1 .. n : u[a] = c
  <2>1. PICK b \in 1 .. n : p[b] = c
      BY <1>1
  <2>2. PICK a \in 1 .. n : o[a] = b
      BY <1>2
  <2> QED BY <1>3, <2>1, <2>2
<1>6. \A a \in 1 .. n : t[a] = r[u[a]]
  <2>1. ASSUME NEW a \in 1 .. n PROVE t[a] = r[u[a]]
    <3>1. o[a] \in 1 .. n /\ t[a] = s[o[a]]
        BY <1>2
    <3>2. s[o[a]] = r[p[o[a]]]
        BY <1>1, <3>1
    <3>3. u[a] = p[o[a]]
        BY <1>3
    <3> QED BY <3>1, <3>2, <3>3
  <2> QED BY <2>1
<1> QED BY <1>3, <1>4, <1>5, <1>6 DEF Permuted

\* One comparison: the later of the two frames is behind, what is settled stays so.
LEMMA CompareSwapStep ==
    ASSUME NEW n \in Nat, NEW s \in Slots(n), NEW j \in 1 .. n - 1,
           NEW m \in j + 1 .. n, Stable(s, n), Settled(s, m, n), LatestAt(s, j)
    PROVE  /\ CompareSwap(s, j) \in Slots(n)
           /\ Permuted(s, CompareSwap(s, j), n)
           /\ Stable(CompareSwap(s, j), n)
           /\ Settled(CompareSwap(s, j), m, n)
           /\ LatestAt(CompareSwap(s, j), j + 1)
<1>1. j \in 1 .. n /\ j + 1 \in 1 .. n /\ j # j + 1 /\ j \in 1 .. j /\ j < j + 1
    OBVIOUS
<1>t. \A a \in 1 .. n : s[a] \in Frame /\ s[a].time \in Nat /\ s[a].flow \in Nat
    BY DEF Slots, Frame
<1>2. CASE ~(s[j].time > s[j + 1].time)
  <2>1. CompareSwap(s, j) = s
      BY <1>2 DEF CompareSwap
  <2>2. ASSUME NEW a \in 1 .. j + 1 PROVE s[a].time <= s[j + 1].time
    <3>1. CASE a = j + 1
        BY <1>1, <1>t, <3>1
    <3>2. CASE a # j + 1
      <4>1. a \in 1 .. j /\ a \in 1 .. n
          BY <3>2
      <4>2. s[a].time <= s[j].time
          BY <4>1 DEF LatestAt
      <4> QED BY <1>1, <1>2, <1>t, <4>1, <4>2
    <3> QED BY <3>1, <3>2
  <2> QED BY <2>1, <2>2, PermutedSame DEF LatestAt
<1>3. CASE s[j].time > s[j + 1].time
  <2> DEFINE t == [s EXCEPT ![j] = s[j + 1], ![j + 1] = s[j]]
  <2>1. CompareSwap(s, j) = t
      BY <1>3 DEF CompareSwap
  <2>2. t \in Slots(n)
      BY <1>1 DEF Slots
  <2>3. /\ t[j] = s[j + 1] /\ t[j + 1] = s[j]
        /\ \A a \in 1 .. n : a # j /\ a # j + 1 => t[a] = s[a]
      BY <1>1 DEF Slots
  <2> HIDE DEF t
  <2>4. Permuted(s, t, n)
    <3> DEFINE p == [a \in 1 .. n |-> IF a = j THEN j + 1 ELSE IF a = j + 1 THEN j ELSE a]
    <3>1. /\ p \in [1 .. n -> 1 .. n]
          /\ p[j] = j + 1 /\ p[j + 1] = j
          /\ \A a \in 1 .. n : a # j /\ a # j + 1 => p[a] = a
      <4>1. \A a \in 1 .. n : (IF a = j THEN j + 1 ELSE IF a = j + 1 THEN j ELSE a) \in 1 .. n
          BY <1>1
      <4>2. p \in [1 .. n -> 1 .. n]
          BY <4>1
      <4>3. j + 1 # j
          OBVIOUS
      <4>4. \A a \in 1 .. n : p[a] = IF a = j THEN j + 1 ELSE IF a = j + 1 THEN j ELSE a
          OBVIOUS
      <4> HIDE DEF p
      <4> QED BY <1>1, <4>2, <4>3, <4>4
    <3> HIDE DEF p
    <3>2. \A a, b \in 1 .. n : p[a] = p[b] => a = b
        BY <1>1, <3>1
    <3>3. \A c \in 1 .. n : \E a \in 1 .. n : p[a] = c
        BY <1>1, <3>1
    <3>4. \A a \in 1 .. n : t[a] = s[p[a]]
        BY <1>1, <2>3, <3>1
    <3> QED BY <3>1, <3>2, <3>3, <3>4 DEF Permuted
  <2>5. Stable(t, n)
    <3> SUFFICES ASSUME NEW a \in 1 .. n, NEW b \in 1 .. n, a < b, t[a].time = t[b].time
                 PROVE  t[a].flow <= t[b].flow
        BY DEF Stable
    <3>1. \A x, y \in 1 .. n : x < y /\ s[x].time = s[y].time => s[x].flow <= s[y].flow
        BY DEF Stable
    <3>2. CASE a = j
      <4>1. b # j + 1
          BY <1>1, <1>3, <1>t, <2>3, <3>2
      <4>2. t[a] = s[j + 1] /\ t[b] = s[b] /\ j + 1 < b
          BY <2>3, <3>2, <4>1
      <4> QED BY <1>1, <3>1, <4>2
    <3>3. CASE a = j + 1
      <4>1. t[a] = s[j] /\ t[b] = s[b] /\ j < b
          BY <2>3, <3>3
      <4> QED BY <1>1, <3>1, <4>1
    <3>4. CASE a # j /\ a # j + 1
      <4>1. t[a] = s[a]
          BY <2>3, <3>4
      <4>2. CASE b = j
        <5>1. t[b] = s[j + 1] /\ a < j + 1
            BY <2>3, <4>2
        <5> QED BY <1>1, <3>1, <4>1, <5>1
      <4>3. CASE b = j + 1
        <5>1. t[b] = s[j] /\ a < j
            BY <2>3, <3>4, <4>3
        <5> QED BY <1>1, <3>1, <4>1, <5>1
      <4>4. CASE b # j /\ b # j + 1
        <5>1. t[b] = s[b]
            BY <2>3, <4>4
        <5> QED BY <3>1, <4>1, <5>1
      <4> QED BY <4>2, <4>3, <4>4
    <3> QED BY <3>2, <3>3, <3>4
  <2>6. Settled(t, m, n)
    <3> SUFFICES ASSUME NEW a \in 1 .. n, NEW b \in m + 1 .. n, a < b
                 PROVE  t[a].time <= t[b].time
        BY DEF Settled
    <3>1. b \in 1 .. n /\ b # j /\ b # j + 1 /\ j < b /\ j + 1 < b
        OBVIOUS
    <3>2. t[b] = s[b]
        BY <2>3, <3>1
    <3>3. \A x \in 1 .. n : x < b => s[x].time <= s[b].time
        BY DEF Settled
    <3>4. s[j].time <= s[b].time /\ s[j + 1].time <= s[b].time /\ s[a].time <= s[b].time
        BY <1>1, <3>1, <3>3
    <3> QED BY <2>3, <3>2, <3>4
  <2>7. LatestAt(t, j + 1)
    <3> SUFFICES ASSUME NEW a \in 1 .. j + 1 PROVE t[a].time <= t[j + 1].time
        BY DEF LatestAt
    <3>1. CASE a = j + 1
        BY <1>1, <1>t, <2>3, <3>1
    <3>2. CASE a = j
        BY <1>1, <1>3, <1>t, <2>3, <3>2
    <3>3. CASE a # j /\ a # j + 1
      <4>1. a \in 1 .. j /\ a \in 1 .. n
          BY <3>3
      <4>2. s[a].time <= s[j].time
          BY <4>1 DEF LatestAt
      <4> QED BY <2>3, <3>3, <4>1, <4>2
    <3> QED BY <3>1, <3>2, <3>3
  <2> QED BY <2>1, <2>2, <2>4, <2>5, <2>6, <2>7
<1> QED BY <1>2, <1>3

\* What the loops of the sort keep of the frames r they began with.
Kept(r, t, n) == t \in Slots(n) /\ Permuted(r, t, n) /\ Stable(t, n)

\* The inner loop, by the comparisons done.
Compares(e, s, last) ==
    e[0] = s /\ \A j \in 1 .. last : e[j] = CompareSwap(e[j - 1], j)

LEMMA SortPassLoop ==
    ASSUME NEW n \in Nat, NEW s \in Slots(n), NEW last \in 0 .. n - 1
    PROVE  \E e \in [0 .. last -> Slots(n)] : Compares(e, s, last) /\ SortPass(s, last) = e[last]
<1> DEFINE step == [p \in Slots(n) \X (1 .. last) |-> CompareSwap(p[1], p[2])]
           after == CHOOSE g : g = [j \in 0 .. last |->
                        IF j = 0 THEN s ELSE CompareSwap(g[j - 1], j)]
<1>1. SortPass(s, last) = after[last]
    BY DEF SortPass
<1>2. step \in [Slots(n) \X (1 .. last) -> Slots(n)]
  <2>1. ASSUME NEW t \in Slots(n), NEW j \in 1 .. last PROVE CompareSwap(t, j) \in Slots(n)
    <3>1. j \in 1 .. n /\ j + 1 \in 1 .. n
        OBVIOUS
    <3>2. t[j] \in Frame /\ t[j + 1] \in Frame
        BY <3>1 DEF Slots
    <3> QED BY <3>2 DEF CompareSwap, Slots
  <2> QED BY <2>1
<1>3. PICK e \in [0 .. last -> Slots(n)] : LoopOf(e, s, step, last)
  <2>1. last \in Nat
      OBVIOUS
  <2> HIDE DEF step
  <2> QED BY <1>2, <2>1, LoopExists
<1>4. e = [j \in 0 .. last |-> IF j = 0 THEN s ELSE CompareSwap(e[j - 1], j)]
  <2>1. ASSUME NEW j \in 0 .. last, j # 0
        PROVE  step[<<e[j - 1], j>>] = CompareSwap(e[j - 1], j)
    <3>1. e[j - 1] \in Slots(n) /\ j \in 1 .. last
      <4>1. j - 1 \in 0 .. last
          BY <2>1
      <4> QED BY <1>3, <2>1, <4>1
    <3> QED BY <3>1
  <2> HIDE DEF step
  <2>2. e = [j \in 0 .. last |-> IF j = 0 THEN s ELSE step[<<e[j - 1], j>>]]
      BY <1>3 DEF LoopOf
  <2> QED BY <2>1, <2>2
<1>5. after = [j \in 0 .. last |-> IF j = 0 THEN s ELSE CompareSwap(after[j - 1], j)]
    BY <1>4
<1> HIDE DEF after, step
<1>6. Compares(after, s, last)
    BY <1>5 DEF Compares
<1>7. ASSUME NEW j \in Nat PROVE j <= last => after[j] \in Slots(n) /\ after[j] = e[j]
  <2> DEFINE P == {k \in Nat : k <= last => after[k] = e[k]}
  <2>1. 0 \in P
      BY <1>4, <1>5
  <2>2. ASSUME NEW k \in Nat, k \in P PROVE k + 1 \in P
    <3>1. SUFFICES ASSUME k + 1 <= last PROVE after[k + 1] = e[k + 1]
        BY <2>2
    <3>2. k + 1 \in 0 .. last /\ k + 1 # 0 /\ (k + 1) - 1 = k /\ k <= last
        BY <3>1
    <3> QED BY <1>4, <1>5, <2>2, <3>2
  <2>3. Nat \subseteq P
    <3> HIDE DEF P
    <3> QED BY <2>1, <2>2, Induction
  <2>4. j <= last => after[j] = e[j] /\ j \in 0 .. last
      BY <2>3
  <2> QED BY <1>3, <2>4
<1>8. after = e
    BY <1>4, <1>5, <1>7
<1> QED BY <1>1, <1>3, <1>6, <1>8

\* One pass of the inner loop settles the last place it compares.
LEMMA SortPassStep ==
    ASSUME NEW n \in Nat, NEW r, NEW s, Kept(r, s, n), NEW last \in 0 .. n - 1,
           Settled(s, last + 1, n)
    PROVE  Kept(r, SortPass(s, last), n) /\ Settled(SortPass(s, last), last, n)
<1>2. s \in Slots(n) /\ last \in Nat
    BY DEF Kept
<1>1. PICK after \in [0 .. last -> Slots(n)] :
          Compares(after, s, last) /\ SortPass(s, last) = after[last]
    BY <1>2, SortPassLoop
<1> DEFINE Holds(j) == /\ Kept(r, after[j], n)
                       /\ Settled(after[j], last + 1, n)
                       /\ LatestAt(after[j], j + 1)
           P == {j \in Nat : j <= last => Holds(j)}
<1>7. 0 \in P
  <2>1. 0 \in 0 .. last /\ after[0] = s
      BY <1>1, <1>2 DEF Compares
  <2>2. 1 \in 1 .. n /\ 0 + 1 = 1
      BY <1>2
  <2>3. s[1].time \in Nat
      BY <1>2, <2>2 DEF Slots, Frame
  <2>4. LatestAt(s, 0 + 1)
      BY <2>2, <2>3 DEF LatestAt
  <2>5. Holds(0)
      BY <2>1, <2>4
  <2> QED BY <2>5
<1>8. ASSUME NEW j \in Nat, j \in P PROVE j + 1 \in P
  <2>1. SUFFICES ASSUME j + 1 <= last PROVE Holds(j + 1)
      BY <1>8
  <2>2. /\ j + 1 \in 0 .. last /\ j + 1 # 0 /\ (j + 1) - 1 = j
        /\ j + 1 \in 1 .. n - 1 /\ last + 1 \in (j + 1) + 1 .. n
      BY <1>2, <2>1
  <2>3. after[j + 1] = CompareSwap(after[j], j + 1)
    <3>1. j + 1 \in 1 .. last
        BY <2>1
    <3> QED BY <1>1, <2>2, <3>1 DEF Compares
  <2>4. Kept(r, after[j], n) /\ Settled(after[j], last + 1, n) /\ LatestAt(after[j], j + 1)
      BY <1>8, <2>1
  <2>5. after[j] \in Slots(n) /\ Permuted(r, after[j], n) /\ Stable(after[j], n)
      BY <2>4 DEF Kept
  <2>6. /\ CompareSwap(after[j], j + 1) \in Slots(n)
        /\ Permuted(after[j], CompareSwap(after[j], j + 1), n)
        /\ Stable(CompareSwap(after[j], j + 1), n)
        /\ Settled(CompareSwap(after[j], j + 1), last + 1, n)
        /\ LatestAt(CompareSwap(after[j], j + 1), (j + 1) + 1)
      BY <2>2, <2>4, <2>5, CompareSwapStep
  <2>7. Permuted(r, CompareSwap(after[j], j + 1), n)
      BY <2>5, <2>6, PermutedTwice
  <2> QED BY <2>3, <2>6, <2>7 DEF Kept
<1>9. Nat \subseteq P
  <2> HIDE DEF P
  <2> QED BY <1>7, <1>8, Induction
<1>10. Holds(last)
  <2>1. last \in P /\ last <= last
    <3> HIDE DEF P
    <3> QED BY <1>2, <1>9
  <2> QED BY <2>1
<1> DEFINE t == after[last]
<1>11. t \in Slots(n) /\ Settled(t, last + 1, n) /\ LatestAt(t, last + 1)
    BY <1>10 DEF Kept
<1> HIDE DEF t
<1>12. Settled(t, last, n)
  <2> SUFFICES ASSUME NEW a \in 1 .. n, NEW b \in last + 1 .. n, a < b
               PROVE  t[a].time <= t[b].time
      BY DEF Settled
  <2>1. CASE b = last + 1
    <3>1. a \in 1 .. last + 1
        BY <2>1
    <3> QED BY <1>11, <2>1, <3>1 DEF LatestAt
  <2>2. CASE b # last + 1
    <3>1. b \in (last + 1) + 1 .. n
        BY <1>2, <2>2
    <3> QED BY <1>11, <3>1 DEF Settled
  <2> QED BY <2>1, <2>2
<1> QED BY <1>1, <1>10, <1>12 DEF t

\* The sort: the frames it was given, by sending time, and those with equal times in
\* the order of their flows, if they came in that order.
LEMMA SortCorrect ==
    ASSUME NEW n \in Nat, NEW s \in Slots(n), Stable(s, n)
    PROVE  Kept(s, sort(s, n), n) /\ Settled(sort(s, n), 1, n)
<1>0. Kept(s, s, n)
    BY PermutedSame DEF Kept
<1>1. CASE n = 0
  <2>1. sort(s, n) = s
      BY <1>1 DEF sort
  <2>2. Settled(s, 1, n)
      BY <1>1 DEF Settled
  <2> QED BY <1>0, <2>1, <2>2
<1>2. CASE n # 0
  <2> DEFINE step == [p \in Slots(n) \X (1 .. n) |-> SortPass(p[1], n - p[2])]
             after == CHOOSE g : g = [i \in 0 .. n |->
                          IF i = 0 THEN s ELSE SortPass(g[i - 1], n - i)]
  <2>1. sort(s, n) = after[n - 1]
      BY <1>2 DEF sort
  <2>2. step \in [Slots(n) \X (1 .. n) -> Slots(n)]
    <3>1. ASSUME NEW t \in Slots(n), NEW i \in 1 .. n PROVE SortPass(t, n - i) \in Slots(n)
      <4>1. n - i \in 0 .. n - 1 /\ n - i \in 0 .. n - i
          OBVIOUS
      <4> QED BY <4>1, SortPassLoop
    <3> QED BY <3>1
  <2>3. PICK e \in [0 .. n -> Slots(n)] : LoopOf(e, s, step, n)
    <3> HIDE DEF step
    <3> QED BY <2>2, LoopExists
  <2>4. e = [i \in 0 .. n |-> IF i = 0 THEN s ELSE SortPass(e[i - 1], n - i)]
    <3>1. ASSUME NEW i \in 0 .. n, i # 0
          PROVE  step[<<e[i - 1], i>>] = SortPass(e[i - 1], n - i)
      <4>1. e[i - 1] \in Slots(n) /\ i \in 1 .. n
        <5>1. i - 1 \in 0 .. n
            BY <3>1
        <5> QED BY <2>3, <3>1, <5>1
      <4> QED BY <4>1
    <3> HIDE DEF step
    <3>2. e = [i \in 0 .. n |-> IF i = 0 THEN s ELSE step[<<e[i - 1], i>>]]
        BY <2>3 DEF LoopOf
    <3> QED BY <3>1, <3>2
  <2>5. after = [i \in 0 .. n |-> IF i = 0 THEN s ELSE SortPass(after[i - 1], n - i)]
      BY <2>4
  <2> HIDE DEF after, step
  <2> DEFINE Holds(i) == Kept(s, after[i], n) /\ Settled(after[i], n - i, n)
             P == {i \in Nat : i <= n - 1 => Holds(i)}
  <2>6. 0 \in P
    <3>1. 0 \in 0 .. n /\ after[0] = s
        BY <2>5
    <3>2. Settled(s, n - 0, n)
        BY DEF Settled
    <3> QED BY <1>0, <3>1, <3>2
  <2>7. ASSUME NEW i \in Nat, i \in P PROVE i + 1 \in P
    <3>1. SUFFICES ASSUME i + 1 <= n - 1 PROVE Holds(i + 1)
        BY <2>7
    <3>2. /\ i + 1 \in 0 .. n /\ i + 1 # 0 /\ (i + 1) - 1 = i
          /\ n - (i + 1) \in 0 .. n - 1 /\ (n - (i + 1)) + 1 = n - i
        BY <3>1
    <3>3. after[i + 1] = SortPass(after[i], n - (i + 1))
        BY <2>5, <3>2
    <3>4. Kept(s, after[i], n) /\ Settled(after[i], (n - (i + 1)) + 1, n)
        BY <2>7, <3>1, <3>2
    <3> QED BY <3>2, <3>3, <3>4, SortPassStep
  <2>8. Nat \subseteq P
    <3> HIDE DEF P
    <3> QED BY <2>6, <2>7, Induction
  <2>9. Holds(n - 1)
    <3>1. n - 1 \in Nat /\ n - 1 <= n - 1
        BY <1>2
    <3>2. n - 1 \in P
      <4> HIDE DEF P
      <4> QED BY <2>8, <3>1
    <3> QED BY <3>1, <3>2
  <2>10. n - (n - 1) = 1
      OBVIOUS
  <2> QED BY <2>1, <2>9, <2>10
<1> QED BY <1>1, <1>2

-----------------------------------------------------------------------------
(* The schedules, sorted and exact.                                        *)

\* The schedule of a queue: its frames, each in the array once, by sending time.
LEMMA ScheduleFrames ==
    ASSUME NEW fs \in Seq(FlowType), fs # <<>>, NEW cycle \in Nat, NEW q,
           calculate_num_frames_per_queue(fs, cycle, q) = Len(QueueFrames(fs, cycle, q)),
           NEW n, n = calculate_num_frames_per_queue(fs, cycle, q),
           NEW w, w = QueueFrames(fs, cycle, q),
           NEW t, t = init_schedule_state_per_queue(fs, cycle, q).frames
    PROVE  /\ n \in Nat /\ w \in Slots(n) /\ Len(w) = n
           /\ Filled(w, fs, cycle, q, Len(fs))
           /\ t \in Slots(n) /\ DOMAIN t = 1 .. n /\ Len(t) = n
           /\ Permuted(w, t, n) /\ Stable(t, n) /\ Settled(t, 1, n)
<1>1. Filled(w, fs, cycle, q, Len(fs)) /\ Len(w) \in Nat
    BY QueueFramesFilled
<1>2. w \in Seq(Frame) /\ \A a, b \in 1 .. Len(w) : a < b => w[a].flow <= w[b].flow
    BY <1>1 DEF Filled
<1>3. n \in Nat /\ w \in Slots(n)
  <2>1. n \in Nat
      BY <1>1, <1>2
  <2>2. w \in [1 .. Len(w) -> Frame]
      BY <1>2
  <2> QED BY <1>1, <2>1, <2>2 DEF Slots
<1>4. Stable(w, n)
    BY <1>1, <1>2 DEF Stable
<1>5. t = sort(w, n)
    BY DEF init_schedule_state_per_queue
<1>6. Kept(w, t, n) /\ Settled(t, 1, n)
    BY <1>3, <1>4, <1>5, SortCorrect
<1>7. t \in Slots(n) /\ Permuted(w, t, n) /\ Stable(t, n)
    BY <1>6 DEF Kept
<1>8. DOMAIN t = 1 .. n /\ Len(t) = n
    BY <1>3, <1>7 DEF Slots
<1> QED BY <1>1, <1>3, <1>6, <1>7, <1>8

\* The schedule of a queue is made from a table that holds a flow, and what is filled
\* has the room it needs.
LEMMA ScheduleMade ==
    ASSUME SetupInv, NEW q \in Scheduled
    PROVE  /\ flows \in Seq(FlowType) /\ flows # <<>>
           /\ schedule[q + 1] = ScheduleFor(flows, q)
           /\ Room(q) = Fill(q)
<1>1. FlowTable /\ Schedules /\ AsFilled
    BY DEF SetupInv, Schedules
<1>2. q \in 0 .. Made - 1
  <2>1. q \in Nat /\ q < Len(schedule) /\ Made \in Nat
      BY <1>1, SetupAssumption DEF Scheduled, AsFilled
  <2> QED BY <2>1 DEF Made
<1>3. Room(q) = Fill(q)
    BY <1>1, <1>2 DEF AsFilled
<1> QED BY <1>1, <1>2, <1>3, TableForSchedules, ScheduleOfQueue

\* The two arrays of a schedule come out of the sort by sending time, and frames with
\* equal times in the order of the flow table, for every table and queue: the bubble
\* sort of sche.c, with its two loop bounds and its strict comparison, is a stable sort.
THEOREM SchedulesSorted == Spec => []SortedStable
<1>1. SetupInv => SortedStable
  <2> SUFFICES ASSUME SetupInv, NEW q \in Scheduled,
                      NEW j \in DOMAIN schedule[q + 1].frames,
                      NEW k \in DOMAIN schedule[q + 1].frames, j < k
               PROVE  \/ schedule[q + 1].frames[j].time < schedule[q + 1].frames[k].time
                      \/ /\ schedule[q + 1].frames[j].time = schedule[q + 1].frames[k].time
                         /\ schedule[q + 1].frames[j].flow <= schedule[q + 1].frames[k].flow
      BY DEF SortedStable
  <2> DEFINE t == schedule[q + 1].frames
             c == calculate_cycle(flows)
             n == calculate_num_frames_per_queue(flows, c, q)
  <2>1. /\ flows \in Seq(FlowType) /\ flows # <<>> /\ schedule[q + 1] = ScheduleFor(flows, q)
        /\ Room(q) = Fill(q)
      BY ScheduleMade
  <2>2. c \in Nat /\ t = init_schedule_state_per_queue(flows, c, q).frames
      BY <2>1, CycleNat DEF ScheduleFor
  <2> HIDE DEF t, c
  <2>3. n \in Nat /\ t \in Slots(n) /\ DOMAIN t = 1 .. n /\ Stable(t, n) /\ Settled(t, 1, n)
    <3> HIDE DEF n
    <3> DEFINE w == QueueFrames(flows, c, q)
    <3>1. n = calculate_num_frames_per_queue(flows, c, q) /\ w = QueueFrames(flows, c, q)
        BY DEF n
    <3>2. calculate_num_frames_per_queue(flows, c, q) = Len(QueueFrames(flows, c, q))
        BY <2>1 DEF c, Room, Fill
    <3> HIDE DEF w
    <3> QED BY <2>1, <2>2, <3>1, <3>2, ScheduleFrames
  <2> HIDE DEF n
  <2>4. j \in 1 .. n /\ k \in 1 .. n /\ k \in 1 + 1 .. n
      BY <2>3 DEF t
  <2>5. t[j].time \in Nat /\ t[k].time \in Nat
      BY <2>3, <2>4 DEF Slots, Frame
  <2>6. t[j].time <= t[k].time
      BY <2>3, <2>4 DEF Settled
  <2>7. t[j].time = t[k].time => t[j].flow <= t[k].flow
      BY <2>3, <2>4 DEF Stable
  <2> QED BY <2>5, <2>6, <2>7 DEF t
<1> QED BY <1>1, SetupAlways, PTL

\* The places of flow i among the frames t.
Mine(t, n, i) == {k \in 1 .. n : t[k].flow = i}

\* The frames of flow i in t are those the inner loop wrote.
FramesLeft(t, n, fs, i, cycle) ==
    /\ Cardinality(Mine(t, n, i)) = FramesOf(fs, i, cycle)
    /\ {t[k].time : k \in Mine(t, n, i)} =
       {FrameOf(fs, i, j).time : j \in 1 .. FramesOf(fs, i, cycle)}

\* The sort leaves each flow its frames.
LEMMA MineOfBlock ==
    ASSUME NEW n \in Nat, NEW w \in Slots(n), Len(w) = n, NEW t \in Slots(n), Permuted(w, t, n),
           NEW fs, NEW cycle, NEW i, FramesOf(fs, i, cycle) \in Nat,
           NEW b \in Nat, BlockAt(w, b, fs, i, cycle)
    PROVE  FramesLeft(t, n, fs, i, cycle)
<1>1. PICK p \in [1 .. n -> 1 .. n] :
          /\ \A x, y \in 1 .. n : p[x] = p[y] => x = y
          /\ \A y \in 1 .. n : \E x \in 1 .. n : p[x] = y
          /\ \A x \in 1 .. n : t[x] = w[p[x]]
    BY DEF Permuted
<1> DEFINE m == FramesOf(fs, i, cycle)
           M == Mine(t, n, i)
           B == b + 1 .. b + m
<1>2. /\ m \in Nat /\ b + m <= n
      /\ \A j \in 1 .. m : w[b + j] = FrameOf(fs, i, j)
      /\ \A a \in 1 .. n : w[a].flow = i => a \in B
    BY DEF BlockAt
<1>3. \A j \in 1 .. m : FrameOf(fs, i, j).flow = i
    BY DEF FrameOf
<1> HIDE DEF m
<1>4. \A k \in M : k \in 1 .. n /\ t[k] = w[p[k]] /\ p[k] \in B
  <2>1. ASSUME NEW k \in M PROVE k \in 1 .. n /\ t[k] = w[p[k]] /\ p[k] \in B
    <3>1. k \in 1 .. n /\ t[k].flow = i
        BY DEF Mine
    <3>2. p[k] \in 1 .. n /\ t[k] = w[p[k]]
        BY <1>1, <3>1
    <3> QED BY <1>2, <3>1, <3>2
  <2> QED BY <2>1
<1>5. \A a \in B : \E k \in M : p[k] = a
  <2>1. ASSUME NEW a \in B PROVE \E k \in M : p[k] = a
    <3>1. a \in 1 .. n /\ a - b \in 1 .. m /\ b + (a - b) = a
        BY <1>2
    <3>2. w[a].flow = i
        BY <1>2, <1>3, <3>1
    <3>3. PICK k \in 1 .. n : p[k] = a
        BY <1>1, <3>1
    <3>4. t[k].flow = i
        BY <1>1, <3>2, <3>3
    <3> QED BY <3>3, <3>4 DEF Mine
  <2> QED BY <2>1
<1> DEFINE f == [k \in M |-> p[k]]
<1>6. f \in Injection(M, B) /\ f \in Surjection(M, B)
  <2>1. f \in [M -> B] /\ DOMAIN f = M /\ \A k \in M : f[k] = p[k]
      BY <1>4
  <2> HIDE DEF f, M, B
  <2>2. \A x, y \in M : f[x] = f[y] => x = y
      BY <1>1, <1>4, <2>1
  <2>3. \A a \in B : \E k \in M : f[k] = a
      BY <1>5, <2>1
  <2> QED BY <2>1, <2>2, <2>3 DEF Injection, Surjection, IsInjective
<1>7. IsFiniteSet(B) /\ Cardinality(B) = m
  <2>1. b + 1 \in Int /\ b + m \in Int
      BY <1>2
  <2>2. IsFiniteSet(B) /\ Cardinality(B) = IF b + 1 > b + m THEN 0 ELSE (b + m) - (b + 1) + 1
      BY <2>1, FS_Interval
  <2>3. (IF b + 1 > b + m THEN 0 ELSE (b + m) - (b + 1) + 1) = m
      BY <1>2
  <2> QED BY <2>2, <2>3
<1>8. Cardinality(M) = m
  <2> HIDE DEF f, M, B
  <2> QED BY <1>6, <1>7, FS_Injection
<1>9. ASSUME NEW k \in M PROVE \E j \in 1 .. m : t[k].time = FrameOf(fs, i, j).time
  <2>0. t[k] = w[p[k]] /\ p[k] \in B
    <3> HIDE DEF M, B
    <3> QED BY <1>4
  <2>1. p[k] - b \in 1 .. m /\ b + (p[k] - b) = p[k] /\ t[k] = w[p[k]]
    <3>1. m \in Nat /\ p[k] \in b + 1 .. b + m
        BY <1>2, <2>0
    <3>2. \A x \in b + 1 .. b + m : x - b \in 1 .. m /\ b + (x - b) = x
        BY <3>1
    <3> QED BY <2>0, <3>1, <3>2
  <2>2. w[b + (p[k] - b)] = FrameOf(fs, i, p[k] - b)
      BY <1>2, <2>1
  <2> QED BY <2>1, <2>2
<1>10. ASSUME NEW j \in 1 .. m PROVE \E k \in M : t[k].time = FrameOf(fs, i, j).time
  <2>1. b + j \in B
      BY <1>2
  <2>2. PICK k \in M : p[k] = b + j
      BY <1>5, <2>1
  <2>3. t[k] = w[b + j]
      BY <1>4, <2>2
  <2> QED BY <1>2, <2>2, <2>3
<1>11. {t[k].time : k \in M} = {FrameOf(fs, i, j).time : j \in 1 .. m}
  <2> HIDE DEF M, m
  <2>1. {t[k].time : k \in M} \subseteq {FrameOf(fs, i, j).time : j \in 1 .. m}
      BY <1>9
  <2>2. {FrameOf(fs, i, j).time : j \in 1 .. m} \subseteq {t[k].time : k \in M}
      BY <1>10
  <2> QED BY <2>1, <2>2
<1> QED BY <1>8, <1>11 DEF m, FramesLeft

\* The frames of a queue are counted in an int and written by loops that go by the
\* cycle: for every table of flows and every width of the two, main() loses its way
\* over them only if some queue has more frames in a cycle than an int can tell.  A
\* schedule that is made holds as many frames as are due, and when the cycle fits a
\* word each flow of the queue has one at every offset + j * period of the cycle and
\* no other.
THEOREM SchedulesExact == Spec => []FramesExact
<1>1. SetupInv => (phase = "crashed" /\ flows # <<>> => Overflown)
    BY DEF SetupInv, Schedules
<1>2. SetupInv => FramesExact
  <2> SUFFICES ASSUME SetupInv, NEW q \in Scheduled
               PROVE  LET s == schedule[q + 1].frames
                          c == schedule[q + 1].cycle_period
                      IN  /\ schedule[q + 1].num_frames_per_cycle = Len(s)
                          /\ Len(s) = Cardinality(Due(q)) /\ Len(s) < INT_HALF
                          /\ \A k \in DOMAIN s : s[k].flow \in FlowsOf(q)
                          /\ CycleFits => \A i \in FlowsOf(q) :
                                LET mine == {k \in DOMAIN s : s[k].flow = i}
                                IN  /\ Cardinality(mine) * flows[i].period = c
                                    /\ {s[k].time : k \in mine} =
                                       {(flows[i].offset + j * flows[i].period) % WORD :
                                           j \in 0 .. c \div flows[i].period - 1}
      BY <1>1 DEF FramesExact, Overflown
  <2> DEFINE s == schedule[q + 1].frames
             c == calculate_cycle(flows)
             n == calculate_num_frames_per_queue(flows, c, q)
             w == QueueFrames(flows, c, q)
  <2>1. /\ flows \in Seq(FlowType) /\ flows # <<>> /\ schedule[q + 1] = ScheduleFor(flows, q)
        /\ Room(q) = Fill(q)
      BY ScheduleMade
  <2>2. /\ c \in Nat /\ s = init_schedule_state_per_queue(flows, c, q).frames
        /\ schedule[q + 1].cycle_period = c
        /\ schedule[q + 1].num_frames_per_cycle = n
    <3>1. /\ init_schedule_state_per_queue(flows, c, q).cycle_period = c
          /\ init_schedule_state_per_queue(flows, c, q).num_frames_per_cycle = n
        BY DEF init_schedule_state_per_queue
    <3> QED BY <2>1, <3>1, CycleNat DEF ScheduleFor
  <2>n. /\ n = calculate_num_frames_per_queue(flows, c, q) /\ w = QueueFrames(flows, c, q)
        /\ n = Len(w)
        /\ calculate_num_frames_per_queue(flows, c, q) = Len(QueueFrames(flows, c, q))
      BY <2>1 DEF Room, Fill
  <2>d. Len(w) = Cardinality(Due(q)) /\ n < INT_HALF
    <3>1. /\ Len(w) = Cardinality(DueUpTo(flows, c, q, Len(flows)))
          /\ n = ToInt(Len(w)) /\ Len(w) \in Nat
        BY <2>1, CycleNat, QueueFramesFilled
    <3>2. Due(q) = DueUpTo(flows, c, q, Len(flows))
        BY <2>1, DueOf
    <3> HIDE DEF w, n
    <3>3. n < INT_HALF
        BY <3>1, ToIntRange
    <3> QED BY <3>1, <3>2, <3>3
  <2> HIDE DEF s, c, n, w
  <2>3. /\ n \in Nat /\ w \in Slots(n) /\ Len(w) = n
        /\ Filled(w, flows, c, q, Len(flows))
        /\ s \in Slots(n) /\ DOMAIN s = 1 .. n /\ Len(s) = n
        /\ Permuted(w, s, n)
      BY <2>1, <2>2, <2>n, ScheduleFrames
  <2>4. ASSUME NEW k \in DOMAIN s PROVE s[k].flow \in FlowsOf(q)
    <3>1. PICK a \in 1 .. n : s[k] = w[a]
      <4>1. k \in 1 .. n
          BY <2>3
      <4> QED BY <2>3, <4>1 DEF Permuted
    <3>2. w[a].flow \in 1 .. Len(flows) /\ flows[w[a].flow].queue = q
        BY <2>3, <3>1 DEF Filled
    <3>3. DOMAIN flows = 1 .. Len(flows)
        BY <2>1
    <3> QED BY <3>1, <3>2, <3>3 DEF FlowsOf
  <2>5. ASSUME CycleFits, NEW i \in FlowsOf(q)
        PROVE  /\ Cardinality({k \in DOMAIN s : s[k].flow = i}) * flows[i].period = c
               /\ {s[k].time : k \in {k \in DOMAIN s : s[k].flow = i}} =
                  {(flows[i].offset + j * flows[i].period) % WORD :
                      j \in 0 .. c \div flows[i].period - 1}
    <3>1. i \in 1 .. Len(flows) /\ flows[i].queue = q
        BY <2>1 DEF FlowsOf
    <3>2. flows[i].period \in Nat \ {0}
        BY <2>1, <3>1, PeriodRange DEF Period
    <3>3. {k \in DOMAIN s : s[k].flow = i} = Mine(s, n, i)
        BY <2>3 DEF Mine
    <3>4. FramesOf(flows, i, c) \in Nat
        BY <2>1, <2>2, <3>1, PieceFrames
    <3>5. PICK b \in Nat : BlockAt(w, b, flows, i, c)
        BY <2>3, <3>1 DEF Filled
    <3>l. FramesLeft(s, n, flows, i, c)
        BY <2>3, <3>4, <3>5, MineOfBlock
    <3>6. /\ Cardinality(Mine(s, n, i)) = FramesOf(flows, i, c)
          /\ {s[k].time : k \in Mine(s, n, i)} =
             {FrameOf(flows, i, j).time : j \in 1 .. FramesOf(flows, i, c)}
        BY <3>l DEF FramesLeft
    <3>7. FramesOf(flows, i, c) * flows[i].period = c
      <4>1. Multiple(c, flows[i].period)
          BY <2>1, <2>5, <3>1, CycleWhenFits DEF LeastOfFirst, OfFirst, Period, c
      <4>2. c % flows[i].period = 0
          BY <2>2, <3>2, <4>1, MultipleRemainder
      <4>3. c = flows[i].period * (c \div flows[i].period) + (c % flows[i].period)
          BY <2>2, <3>2, Division
      <4> QED BY <2>2, <3>2, <3>4, <4>2, <4>3 DEF FramesOf
    <3> DEFINE m == FramesOf(flows, i, c)
               at(j) == (flows[i].offset + j * flows[i].period) % WORD
    <3>8. \A j \in 1 .. m : FrameOf(flows, i, j).time = at(j - 1)
        BY DEF FrameOf
    <3>9. m \in Nat /\ m = c \div flows[i].period
        BY <3>4 DEF FramesOf
    <3> HIDE DEF m, at
    <3>10. {FrameOf(flows, i, j).time : j \in 1 .. m} = {at(j) : j \in 0 .. m - 1}
      <4>1. ASSUME NEW j \in 1 .. m PROVE FrameOf(flows, i, j).time \in {at(l) : l \in 0 .. m - 1}
        <5>1. j - 1 \in 0 .. m - 1
            BY <3>9
        <5> QED BY <3>8, <5>1
      <4>2. ASSUME NEW l \in 0 .. m - 1
            PROVE  at(l) \in {FrameOf(flows, i, j).time : j \in 1 .. m}
        <5>1. l + 1 \in 1 .. m /\ (l + 1) - 1 = l
            BY <3>9
        <5>2. FrameOf(flows, i, l + 1).time = at(l)
            BY <3>8, <5>1
        <5> QED BY <5>1, <5>2
      <4> QED BY <4>1, <4>2
    <3> QED BY <3>3, <3>6, <3>7, <3>9, <3>10 DEF m, at
  <2>6. /\ schedule[q + 1].num_frames_per_cycle = Len(s)
        /\ Len(s) = Cardinality(Due(q)) /\ Len(s) < INT_HALF
        /\ schedule[q + 1].cycle_period = c
        /\ schedule[q + 1].frames = s
      BY <2>2, <2>3, <2>n, <2>d DEF s
  <2> QED BY <2>4, <2>5, <2>6
<1> QED BY <1>2, SetupAlways, PTL
=============================================================================
