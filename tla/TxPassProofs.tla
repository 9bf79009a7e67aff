---------------------------- MODULE TxPassProofs ----------------------------
(***************************************************************************)
(* Theorems about TxLoop that count: the outcomes of the frames, and the   *)
(* passes of an lcore over its schedule.                                   *)
(***************************************************************************)
EXTENDS TxLoopTimelyProofs, FoldLemmas

-----------------------------------------------------------------------------
(* The counters of an lcore are the sums of its flows'.                    *)

\* The sum of a counter over the flows of S.
TotalSum(c, S) == MapThenSumSet(LAMBDA f : c[f].total, S)
MisdlSum(c, S) == MapThenSumSet(LAMBDA f : c[f].misdl, S)
DropSum(c, S)  == MapThenSumSet(LAMBDA f : c[f].drop, S)

Totals(c, S) == [f \in S |-> c[f].total]
Misdls(c, S) == [f \in S |-> c[f].misdl]
Drops(c, S)  == [f \in S |-> c[f].drop]

\* CountersBalance, with the sums by name.
Balance ==
    /\ \A f \in Flows : Balanced(count[f])
    /\ \A q \in Queues :
          /\ Balanced(core[q])
          /\ core[q].total = TotalSum(count, FlowsOf(q))
          /\ core[q].misdl = MisdlSum(count, FlowsOf(q))
          /\ core[q].drop = DropSum(count, FlowsOf(q))

LEMMA FlowsOfFinite ==
    ASSUME NEW q \in Queues
    PROVE  FlowsOf(q) \subseteq Flows /\ IsFiniteSet(FlowsOf(q))
BY FlowAssumption, FS_Subset DEF FlowsOf

\* Each sum is one of the sums of FoldLemmas.
LEMMA TotalSumIs ==
    ASSUME NEW S \in SUBSET Flows, IsFiniteSet(S), NEW c \in [Flows -> Counters]
    PROVE  TotalSum(c, S) = TotalOver(Totals(c, S), S) /\ Totals(c, S) \in [S -> Nat]
<1> DEFINE h == Totals(c, S)
           iter == CHOOSE g : g = [s \in SUBSET S |->
                        IF s = {} THEN 0
                        ELSE c[CHOOSE x \in s : TRUE].total + g[s \ {CHOOSE x \in s : TRUE}]]
<1>0. \A s \in SUBSET S : s # {} => Pick(s) \in S
    BY PickOne
<1>1. h \in [S -> Nat] /\ \A x \in S : h[x] = c[x].total
    BY DEF Totals, Counters
<1> HIDE DEF h
<1>2. PICK g : Sums(g, h, SUBSET S) /\ TotalOver(h, S) = g[S]
    BY <1>1, TotalOverSums
<1>3. g = [s \in SUBSET S |-> IF s = {} THEN 0 ELSE c[Pick(s)].total + g[s \ {Pick(s)}]]
    BY <1>0, <1>1, <1>2 DEF Sums
<1>4. iter = [s \in SUBSET S |-> IF s = {} THEN 0 ELSE c[Pick(s)].total + iter[s \ {Pick(s)}]]
    BY <1>3 DEF Pick
<1>5. TotalSum(c, S) = iter[S]
    BY DEF TotalSum, MapThenSumSet, MapThenFoldSet
<1> HIDE DEF iter
<1>6. AddsUp(iter, h, S)
    BY <1>0, <1>1, <1>4 DEF AddsUp
<1>7. iter = g
    BY <1>1, <1>2, <1>6, SumsUnique
<1> QED BY <1>1, <1>2, <1>5, <1>7 DEF h

LEMMA MisdlSumIs ==
    ASSUME NEW S \in SUBSET Flows, IsFiniteSet(S), NEW c \in [Flows -> Counters]
    PROVE  MisdlSum(c, S) = TotalOver(Misdls(c, S), S) /\ Misdls(c, S) \in [S -> Nat]
<1> DEFINE h == Misdls(c, S)
           iter == CHOOSE g : g = [s \in SUBSET S |->
                        IF s = {} THEN 0
                        ELSE c[CHOOSE x \in s : TRUE].misdl + g[s \ {CHOOSE x \in s : TRUE}]]
<1>0. \A s \in SUBSET S : s # {} => Pick(s) \in S
    BY PickOne
<1>1. h \in [S -> Nat] /\ \A x \in S : h[x] = c[x].misdl
    BY DEF Misdls, Counters
<1> HIDE DEF h
<1>2. PICK g : Sums(g, h, SUBSET S) /\ TotalOver(h, S) = g[S]
    BY <1>1, TotalOverSums
<1>3. g = [s \in SUBSET S |-> IF s = {} THEN 0 ELSE c[Pick(s)].misdl + g[s \ {Pick(s)}]]
    BY <1>0, <1>1, <1>2 DEF Sums
<1>4. iter = [s \in SUBSET S |-> IF s = {} THEN 0 ELSE c[Pick(s)].misdl + iter[s \ {Pick(s)}]]
    BY <1>3 DEF Pick
<1>5. MisdlSum(c, S) = iter[S]
    BY DEF MisdlSum, MapThenSumSet, MapThenFoldSet
<1> HIDE DEF iter
<1>6. AddsUp(iter, h, S)
    BY <1>0, <1>1, <1>4 DEF AddsUp
<1>7. iter = g
    BY <1>1, <1>2, <1>6, SumsUnique
<1> QED BY <1>1, <1>2, <1>5, <1>7 DEF h

LEMMA DropSumIs ==
    ASSUME NEW S \in SUBSET Flows, IsFiniteSet(S), NEW c \in [Flows -> Counters]
    PROVE  DropSum(c, S) = TotalOver(Drops(c, S), S) /\ Drops(c, S) \in [S -> Nat]
<1> DEFINE h == Drops(c, S)
           iter == CHOOSE g : g = [s \in SUBSET S |->
                        IF s = {} THEN 0
                        ELSE c[CHOOSE x \in s : TRUE].drop + g[s \ {CHOOSE x \in s : TRUE}]]
<1>0. \A s \in SUBSET S : s # {} => Pick(s) \in S
    BY PickOne
<1>1. h \in [S -> Nat] /\ \A x \in S : h[x] = c[x].drop
    BY DEF Drops, Counters
<1> HIDE DEF h
<1>2. PICK g : Sums(g, h, SUBSET S) /\ TotalOver(h, S) = g[S]
    BY <1>1, TotalOverSums
<1>3. g = [s \in SUBSET S |-> IF s = {} THEN 0 ELSE c[Pick(s)].drop + g[s \ {Pick(s)}]]
    BY <1>0, <1>1, <1>2 DEF Sums
<1>4. iter = [s \in SUBSET S |-> IF s = {} THEN 0 ELSE c[Pick(s)].drop + iter[s \ {Pick(s)}]]
    BY <1>3 DEF Pick
<1>5. DropSum(c, S) = iter[S]
    BY DEF DropSum, MapThenSumSet, MapThenFoldSet
<1> HIDE DEF iter
<1>6. AddsUp(iter, h, S)
    BY <1>0, <1>1, <1>4 DEF AddsUp
<1>7. iter = g
    BY <1>1, <1>2, <1>6, SumsUnique
<1> QED BY <1>1, <1>2, <1>5, <1>7 DEF h
\* The counters e are c, with one more outcome of g.
OneMore(e, c, g, m, d) == \A f \in Flows : e[f] = IF f = g THEN Counted(c[f], m, d) ELSE c[f]

LEMMA SumsRaised ==
    ASSUME NEW S \in SUBSET Flows, IsFiniteSet(S), NEW c \in [Flows -> Counters],
           NEW e \in [Flows -> Counters], NEW g, NEW i \in Nat, NEW j \in Nat, NEW k \in Nat,
           Raised(Totals(e, S), Totals(c, S), S, g, i),
           Raised(Misdls(e, S), Misdls(c, S), S, g, j),
           Raised(Drops(e, S), Drops(c, S), S, g, k)
    PROVE  /\ TotalSum(e, S) = TotalSum(c, S) + IF g \in S THEN i ELSE 0
           /\ MisdlSum(e, S) = MisdlSum(c, S) + IF g \in S THEN j ELSE 0
           /\ DropSum(e, S) = DropSum(c, S) + IF g \in S THEN k ELSE 0
<1>1. /\ TotalSum(e, S) = TotalOver(Totals(e, S), S) /\ Totals(e, S) \in [S -> Nat]
      /\ TotalSum(c, S) = TotalOver(Totals(c, S), S) /\ Totals(c, S) \in [S -> Nat]
    BY TotalSumIs
<1>2. /\ MisdlSum(e, S) = TotalOver(Misdls(e, S), S) /\ Misdls(e, S) \in [S -> Nat]
      /\ MisdlSum(c, S) = TotalOver(Misdls(c, S), S) /\ Misdls(c, S) \in [S -> Nat]
    BY MisdlSumIs
<1>3. /\ DropSum(e, S) = TotalOver(Drops(e, S), S) /\ Drops(e, S) \in [S -> Nat]
      /\ DropSum(c, S) = TotalOver(Drops(c, S), S) /\ Drops(c, S) \in [S -> Nat]
    BY DropSumIs
<1>4. TotalSum(e, S) = TotalSum(c, S) + IF g \in S THEN i ELSE 0
    BY <1>1, TotalOverAdd
<1>5. MisdlSum(e, S) = MisdlSum(c, S) + IF g \in S THEN j ELSE 0
    BY <1>2, TotalOverAdd
<1>6. DropSum(e, S) = DropSum(c, S) + IF g \in S THEN k ELSE 0
    BY <1>3, TotalOverAdd
<1> QED BY <1>4, <1>5, <1>6

\* An outcome of one flow raises its sums by what its counters are raised by.
LEMMA SumsStep ==
    ASSUME NEW S \in SUBSET Flows, IsFiniteSet(S), NEW c \in [Flows -> Counters],
           NEW e \in [Flows -> Counters], NEW g \in Flows, NEW m \in BOOLEAN, NEW d \in BOOLEAN,
           OneMore(e, c, g, m, d)
    PROVE  /\ TotalSum(e, S) = TotalSum(c, S) + IF g \in S THEN 1 ELSE 0
           /\ MisdlSum(e, S) = MisdlSum(c, S) + IF g \in S /\ m THEN 1 ELSE 0
           /\ DropSum(e, S) = DropSum(c, S) + IF g \in S /\ d THEN 1 ELSE 0
<1> DEFINE mm == IF m THEN 1 ELSE 0
           dd == IF d THEN 1 ELSE 0
<1>0. ASSUME NEW f \in S
      PROVE  /\ e[f].total = c[f].total + IF f = g THEN 1 ELSE 0
             /\ e[f].misdl = c[f].misdl + IF f = g THEN mm ELSE 0
             /\ e[f].drop = c[f].drop + IF f = g THEN dd ELSE 0
  <2>1. /\ c[f].total \in Nat /\ c[f].misdl \in Nat /\ c[f].drop \in Nat
        /\ e[f] = IF f = g THEN Counted(c[f], m, d) ELSE c[f]
      BY DEF OneMore, Counters
  <2>2. CASE f = g
      BY <2>1, <2>2 DEF Counted
  <2>3. CASE f # g
      BY <2>1, <2>3
  <2> QED BY <2>2, <2>3
<1>1. Raised(Totals(e, S), Totals(c, S), S, g, 1)
    BY <1>0 DEF Raised, Totals
<1>2. Raised(Misdls(e, S), Misdls(c, S), S, g, mm)
    BY <1>0 DEF Raised, Misdls
<1>3. Raised(Drops(e, S), Drops(c, S), S, g, dd)
    BY <1>0 DEF Raised, Drops
<1>4. mm \in Nat /\ dd \in Nat /\ 1 \in Nat
    OBVIOUS
<1> HIDE DEF mm, dd
<1>5. /\ TotalSum(e, S) = TotalSum(c, S) + IF g \in S THEN 1 ELSE 0
      /\ MisdlSum(e, S) = MisdlSum(c, S) + IF g \in S THEN mm ELSE 0
      /\ DropSum(e, S) = DropSum(c, S) + IF g \in S THEN dd ELSE 0
    BY <1>1, <1>2, <1>3, <1>4, SumsRaised
<1> QED BY <1>5 DEF mm, dd

LEMMA BalanceInit == Init => Balance
<1> SUFFICES ASSUME Init PROVE Balance
    OBVIOUS
<1>1. count = [f \in Flows |-> InitCounters] /\ core = [q \in Queues |-> InitCounters]
    BY DEF Init
<1>2. count \in [Flows -> Counters] /\ \A f \in Flows : count[f] = InitCounters
    BY <1>1 DEF InitCounters, Counters
<1>3. ASSUME NEW q \in Queues
      PROVE  /\ TotalSum(count, FlowsOf(q)) = 0
             /\ MisdlSum(count, FlowsOf(q)) = 0
             /\ DropSum(count, FlowsOf(q)) = 0
  <2> DEFINE S == FlowsOf(q)
  <2>1. S \in SUBSET Flows /\ IsFiniteSet(S)
      BY FlowsOfFinite
  <2>2. /\ Totals(count, S) = [y \in S |-> 0]
        /\ Misdls(count, S) = [y \in S |-> 0]
        /\ Drops(count, S) = [y \in S |-> 0]
      BY <1>2, <2>1 DEF Totals, Misdls, Drops, InitCounters
  <2> HIDE DEF S
  <2>3. TotalSum(count, S) = 0
      BY <1>2, <2>1, <2>2, TotalSumIs, TotalOverZero
  <2>4. MisdlSum(count, S) = 0
      BY <1>2, <2>1, <2>2, MisdlSumIs, TotalOverZero
  <2>5. DropSum(count, S) = 0
      BY <1>2, <2>1, <2>2, DropSumIs, TotalOverZero
  <2> QED BY <2>3, <2>4, <2>5 DEF S
<1>4. Balanced(InitCounters)
    BY DEF Balanced, InitCounters
<1> QED
    BY <1>1, <1>3, <1>4 DEF Balance, InitCounters

LEMMA BalanceInductive == IInv /\ Balance /\ [Next]_vars => Balance'
<1> SUFFICES ASSUME IInv, Balance, [Next]_vars PROVE Balance'
    OBVIOUS
<1>0. count \in [Flows -> Counters] /\ core \in [Queues -> Counters]
    BY DEF IInv, TypeOK
<1>1. CASE count' = count /\ core' = core
    BY <1>1 DEF Balance
<1>2. ASSUME NEW q \in Queues, NEW g \in Flows, NEW m \in BOOLEAN, NEW d \in BOOLEAN,
             queue(g) = q, ~(m /\ d), update_nums(q, g, m, d)
      PROVE  Balance'
  <2>1. /\ count' = [count EXCEPT ![g] = Counted(@, m, d)]
        /\ core' = [core EXCEPT ![q] = Counted(@, m, d)]
      BY <1>2 DEF update_nums
  <2>2. ASSUME NEW c \in Counters, Balanced(c)
        PROVE  Balanced(Counted(c, m, d))
      BY <1>2, <2>2 DEF Balanced, Counted, Counters
  <2>3. \A f \in Flows : Balanced(count'[f])
      BY <1>0, <2>1, <2>2 DEF Balance
  <2>4. ASSUME NEW p \in Queues
        PROVE  /\ Balanced(core'[p])
               /\ core'[p].total = TotalSum(count', FlowsOf(p))
               /\ core'[p].misdl = MisdlSum(count', FlowsOf(p))
               /\ core'[p].drop = DropSum(count', FlowsOf(p))
    <3>1. FlowsOf(p) \in SUBSET Flows /\ IsFiniteSet(FlowsOf(p)) /\ (g \in FlowsOf(p) <=> p = q)
        BY <1>2, FlowsOfFinite DEF FlowsOf
    <3>b. count' \in [Flows -> Counters] /\ OneMore(count', count, g, m, d)
        BY <1>0, <2>1, CountedType DEF OneMore
    <3>a. /\ TotalSum(count', FlowsOf(p)) =
                  TotalSum(count, FlowsOf(p)) + IF g \in FlowsOf(p) THEN 1 ELSE 0
          /\ MisdlSum(count', FlowsOf(p)) =
                  MisdlSum(count, FlowsOf(p)) + IF g \in FlowsOf(p) /\ m THEN 1 ELSE 0
          /\ DropSum(count', FlowsOf(p)) =
                  DropSum(count, FlowsOf(p)) + IF g \in FlowsOf(p) /\ d THEN 1 ELSE 0
        BY <1>0, <3>1, <3>b, SumsStep
    <3>2. /\ TotalSum(count', FlowsOf(p)) = TotalSum(count, FlowsOf(p)) + IF p = q THEN 1 ELSE 0
          /\ MisdlSum(count', FlowsOf(p)) =
                  MisdlSum(count, FlowsOf(p)) + IF p = q /\ m THEN 1 ELSE 0
          /\ DropSum(count', FlowsOf(p)) =
                  DropSum(count, FlowsOf(p)) + IF p = q /\ d THEN 1 ELSE 0
        BY <3>1, <3>a
    <3>3. Balanced(core'[p])
        BY <1>0, <2>1, <2>2 DEF Balance
    <3>4. /\ core[p].total = TotalSum(count, FlowsOf(p))
          /\ core[p].misdl = MisdlSum(count, FlowsOf(p))
          /\ core[p].drop = DropSum(count, FlowsOf(p))
        BY DEF Balance
    <3>5. core[p].total \in Nat /\ core[p].misdl \in Nat /\ core[p].drop \in Nat
        BY <1>0 DEF Counters
    <3>6. core'[p] = IF p = q THEN Counted(core[p], m, d) ELSE core[p]
        BY <1>0, <2>1
    <3>7. CASE p = q
      <4>1. /\ core'[p].total = core[p].total + 1
            /\ core'[p].misdl = core[p].misdl + IF m THEN 1 ELSE 0
            /\ core'[p].drop = core[p].drop + IF d THEN 1 ELSE 0
          BY <3>5, <3>6, <3>7 DEF Counted
      <4> QED BY <3>2, <3>3, <3>4, <3>7, <4>1
    <3>8. CASE p # q
        BY <3>2, <3>3, <3>4, <3>5, <3>6, <3>8
    <3> QED BY <3>7, <3>8
  <2> QED BY <2>3, <2>4 DEF Balance
<1> QED BY <1>1, <1>2, CountingStep

\* Every frame an lcore counts has one outcome, and the record of an lcore is the sum of
\* its flows' records, whatever the order in which the lcores count.
THEOREM OutcomesAddUp == Spec => []CountersBalance
<1>1. Balance => CountersBalance
    BY DEF Balance, CountersBalance, TotalSum, MisdlSum, DropSum
<1> QED
    BY <1>1, InitIInv, IInvInductive, BalanceInit, BalanceInductive, PTL DEF Spec

-----------------------------------------------------------------------------
(* The passes of an lcore over its schedule.                               *)

\* The positions of the schedule the current pass has taken: the first Taken(q).
Taken(q) == IF pc[q] = "for" THEN it_frame[q] - 1
            ELSE IF pc[q] \in {"sleep", "send", "stamp"} THEN it_frame[q]
            ELSE 0

\* How often a flow is in the schedule of its queue.
Freq(f) == Hits(f, 1 .. NumFrames(queue(f)))

\* The flows of q have used the launch times of p passes, and those of the n first positions.
Passed(q, p, n) == \A f \in FlowsOf(q) : Slots(f) = p * Freq(f) + Hits(f, 1 .. n)

\* p passes end no later than the run, and the delta of the schedule's last flow.
InRunTime(q, p) ==
    p * Cycle(q) <= PIT_RUNTIME * ONE_SECOND + delta(Order[q][NumFrames(q)])

PassAt(q) ==
    \E p \in Nat :
        /\ Passed(q, p, Taken(q))
        /\ pc[q] \in {"for", "sleep", "send", "stamp"} => InRunTime(q, p)

\* The lcore has not left a frame before its wake time.
ReadyAt(q) ==
    pc[q] \in {"while", "for", "send", "stamp"} /\ flow[q] # NoFlow
        => current_time[q] >= WakeTime(flow[q], txtime[q])

Passes == \A q \in Queues : PassAt(q) /\ ReadyAt(q)

-----------------------------------------------------------------------------

LEMMA HitsType ==
    ASSUME NEW f, NEW n \in Nat
    PROVE  Hits(f, 1 .. n) \in Nat
<1>1. IsFiniteSet(1 .. n)
    BY FS_Interval
<1>2. IsFiniteSet({i \in 1 .. n : Order[queue(f)][i] = f})
    BY <1>1, FS_Subset
<1> QED BY <1>2, FS_CardinalityType DEF Hits

LEMMA HitsNone ==
    ASSUME NEW f
    PROVE  Hits(f, 1 .. 0) = 0
<1>1. {i \in 1 .. 0 : Order[queue(f)][i] = f} = {}
    OBVIOUS
<1> QED BY <1>1, FS_EmptySet DEF Hits

LEMMA HitsNext ==
    ASSUME NEW f, NEW n \in Nat \ {0}
    PROVE  Hits(f, 1 .. n) = Hits(f, 1 .. n - 1) + IF Order[queue(f)][n] = f THEN 1 ELSE 0
<1> DEFINE S == {i \in 1 .. n - 1 : Order[queue(f)][i] = f}
           T == {i \in 1 .. n : Order[queue(f)][i] = f}
<1>1. IsFiniteSet(1 .. n - 1)
    BY FS_Interval
<1>2. IsFiniteSet(S) /\ n \notin S
    BY <1>1, FS_Subset
<1>3. Cardinality(S) \in Nat
    BY <1>2, FS_CardinalityType
<1>4. T = IF Order[queue(f)][n] = f THEN S \cup {n} ELSE S
  <2>1. \A i : i \in 1 .. n <=> i \in 1 .. n - 1 \/ i = n
      OBVIOUS
  <2> QED BY <2>1
<1>5. Cardinality(S \cup {n}) = Cardinality(S) + 1
    BY <1>2, FS_AddElement
<1>6. Hits(f, 1 .. n) = Cardinality(T) /\ Hits(f, 1 .. n - 1) = Cardinality(S)
    BY DEF Hits
<1> HIDE DEF S, T
<1> QED BY <1>3, <1>4, <1>5, <1>6

LEMMA HitsGrow ==
    ASSUME NEW f, NEW m \in Nat, NEW n \in Nat, m <= n
    PROVE  Hits(f, 1 .. m) <= Hits(f, 1 .. n)
<1> DEFINE S == {i \in 1 .. m : Order[queue(f)][i] = f}
           T == {i \in 1 .. n : Order[queue(f)][i] = f}
<1>1. IsFiniteSet(1 .. n)
    BY FS_Interval
<1>2. IsFiniteSet(T)
    BY <1>1, FS_Subset
<1>3. S \subseteq T
    OBVIOUS
<1> QED BY <1>2, <1>3, FS_Subset DEF Hits

\* The step of another lcore leaves the passes of p alone.
LEMMA OtherPasses ==
    ASSUME IInv, Passes, NEW q \in Queues, Lcore(q), NEW p \in Queues \ {q}
    PROVE  PassAt(p)' /\ ReadyAt(p)'
<1>1. /\ pc'[p] = pc[p] /\ flow'[p] = flow[p] /\ it_frame'[p] = it_frame[p]
      /\ txtime'[p] = txtime[p] /\ current_time'[p] = current_time[p]
    BY OtherLcores
<1>2. \A f \in FlowsOf(p) : Slots(f)' = Slots(f)
  <2>1. ASSUME NEW f \in FlowsOf(p) PROVE Slots(f)' = Slots(f)
    <3>1. f \in Flows /\ queue(f) # q
        BY DEF FlowsOf
    <3> QED BY <3>1, OtherQueueStep DEF Slots
  <2> QED BY <2>1
<1>3. Taken(p)' = Taken(p)
    BY <1>1 DEF Taken
<1>4. ReadyAt(p)'
    BY <1>1 DEF Passes, ReadyAt, WakeTime, delta
<1>5. PICK k \in Nat : /\ Passed(p, k, Taken(p))
                       /\ pc[p] \in {"for", "sleep", "send", "stamp"} => InRunTime(p, k)
    BY DEF Passes, PassAt
<1>6. Passed(p, k, Taken(p))'
    BY <1>2, <1>3, <1>5 DEF Passed, FlowsOf, Freq, Hits, queue, NumFrames
<1>7. InRunTime(p, k)' <=> InRunTime(p, k)
    BY DEF InRunTime, Cycle, Hits, NumFrames, delta, period, queue
<1>8. PassAt(p)'
    BY <1>1, <1>5, <1>6, <1>7 DEF PassAt
<1> QED BY <1>4, <1>8

\* With the frame of this position behind it, the lcore is one position further, or has
\* one pass more behind it.
LEMMA NextFramePass ==
    ASSUME IInv, NEW q \in Queues, pc[q] # "idle", NextFrame(q), NEW k \in Nat,
           \A f \in FlowsOf(q) : Slots(f)' = k * Freq(f) + Hits(f, 1 .. it_frame[q]),
           InRunTime(q, k)
    PROVE  PassAt(q)'
<1>a. TypeOK
    BY DEF IInv
<1>0. it_frame[q] \in 1 .. NumFrames(q) /\ NumFrames(q) \in Nat
    BY <1>a, OrderAssumption DEF TypeOK, NumFrames
<1>1. CASE it_frame[q] = NumFrames(q)
  <2>1. pc'[q] = "while" /\ Taken(q)' = 0
      BY <1>0, <1>a, <1>1 DEF NextFrame, Goto, TypeOK, Taken
  <2>2. ASSUME NEW f \in FlowsOf(q)
        PROVE  Slots(f)' = (k + 1) * Freq(f) + Hits(f, 1 .. 0)
    <3>1. queue(f) = q
        BY DEF FlowsOf
    <3>2. Slots(f)' = k * Freq(f) + Freq(f)
        BY <1>1, <3>1 DEF Freq
    <3>3. Freq(f) \in Nat /\ Hits(f, 1 .. 0) = 0
        BY <1>0, <3>1, HitsType, HitsNone DEF Freq
    <3>4. (k + 1) * Freq(f) = k * Freq(f) + Freq(f)
        BY <3>3
    <3> QED BY <3>2, <3>3, <3>4
  <2>3. Passed(q, k + 1, Taken(q))'
      BY <2>1, <2>2 DEF Passed, FlowsOf, Freq, Hits, queue, NumFrames
  <2>4. k + 1 \in Nat
      OBVIOUS
  <2> QED BY <2>1, <2>3, <2>4 DEF PassAt
<1>2. CASE it_frame[q] # NumFrames(q)
  <2>1. pc'[q] = "for" /\ it_frame'[q] = it_frame[q] + 1
      BY <1>0, <1>a, <1>2 DEF NextFrame, Goto, TypeOK
  <2>2. Taken(q)' = it_frame[q]
      BY <1>0, <2>1 DEF Taken
  <2>3. Passed(q, k, Taken(q))'
      BY <2>2 DEF Passed, FlowsOf, Freq, Hits, queue, NumFrames
  <2>4. InRunTime(q, k)'
      BY DEF InRunTime, Cycle, Hits, NumFrames, delta, period, queue
  <2> QED BY <2>3, <2>4 DEF PassAt
<1> QED BY <1>1, <1>2

LEMMA Expand ==
    ASSUME NEW a \in Nat, NEW b \in Nat, NEW c \in Nat, NEW d \in Nat
    PROVE  a * (b * c + d) = b * (a * c) + a * d
<1>1. a * (b * c + d) = a * (b * c) + a * d
    OBVIOUS
<1>2. a * (b * c) = b * (a * c)
    OBVIOUS
<1> QED BY <1>1, <1>2

LEMMA QuotientBelow ==
    ASSUME NEW x \in Nat, NEW d \in Nat \ {0}, NEW r \in Nat, x \div d < r
    PROVE  x <= r * d
<1> DEFINE k == x \div d
<1>1. k \in Nat /\ x <= k * d + d
    OBVIOUS
<1> HIDE DEF k
<1>2. PICK j \in Nat : r = k + 1 + j
  <2>1. k < r
      BY DEF k
  <2>2. r - k - 1 \in Nat /\ r = k + 1 + (r - k - 1)
      BY <1>1, <2>1
  <2> QED BY <2>2
<1>3. r * d = k * d + d + j * d
    BY <1>1, <1>2
<1>4. j * d \in Nat /\ k * d \in Nat
    BY <1>1, <1>2
<1> QED BY <1>1, <1>3, <1>4

\* While the loop goes on, the clock reading it is tested with is within the run.
LEMMA StillRunning ==
    ASSUME NEW t \in Nat, base_time \in Nat, KeepsRunning(t)
    PROVE  t <= base_time + PIT_RUNTIME * ONE_SECOND
<1>0. PIT_RUNTIME * ONE_SECOND \in Nat
    BY ParameterAssumption
<1>1. CASE t < base_time
    BY <1>0, <1>1
<1>2. CASE ~(t < base_time)
  <2>1. t - base_time \in Nat /\ (t - base_time) \div ONE_SECOND < PIT_RUNTIME
      BY <1>2 DEF KeepsRunning
  <2>2. t - base_time <= PIT_RUNTIME * ONE_SECOND
      BY <2>1, QuotientBelow, ParameterAssumption
  <2> QED BY <1>0, <2>1, <2>2
<1> QED BY <1>1, <1>2

\* A schedule is a whole cycle: a flow's share of it takes the flow one cycle on.
LEMMA CycleType ==
    ASSUME ExactSchedules, NEW f \in Flows
    PROVE  /\ period(f) * Freq(f) = Cycle(queue(f))
           /\ Freq(f) \in Nat
           /\ Cycle(queue(f)) \in Nat
<1>1. period(f) * Freq(f) = Cycle(queue(f))
    BY DEF ExactSchedules, Freq
<1>2. Freq(f) \in Nat
  <2>1. NumFrames(queue(f)) \in Nat
      BY OrderAssumption, FlowTypes DEF NumFrames
  <2> QED BY <2>1, HitsType DEF Freq
<1>3. period(f) \in Nat
    BY FlowTypes
<1>4. period(f) * Freq(f) \in Nat
    BY <1>2, <1>3
<1> QED BY <1>1, <1>2, <1>4

\* The timer of a flow after k passes and n positions.
LEMMA LaunchTimes ==
    ASSUME ExactSchedules, IInv, GridInv, main # "setup", NEW q \in Queues, NEW k \in Nat,
           NEW n \in Nat, Passed(q, k, n), NEW f \in FlowsOf(q)
    PROVE  /\ sche_time[f] = base_time + offset(f) + k * Cycle(q) + period(f) * Hits(f, 1 .. n)
           /\ k * Cycle(q) \in Nat
           /\ period(f) * Hits(f, 1 .. n) \in Nat
<1>1. f \in Flows /\ queue(f) = q
    BY DEF FlowsOf
<1>2. /\ period(f) \in Nat /\ offset(f) \in Nat
      /\ Freq(f) \in Nat /\ period(f) * Freq(f) = Cycle(q) /\ Cycle(q) \in Nat
      /\ Hits(f, 1 .. n) \in Nat
    BY <1>1, FlowTypes, CycleType, HitsType
<1>3. sche_time[f] = base_time + offset(f) + period(f) * Slots(f)
    BY <1>1 DEF GridInv, GridAligned, Slots
<1>4. Slots(f) = k * Freq(f) + Hits(f, 1 .. n)
    BY DEF Passed
<1>5. period(f) * Slots(f) = k * Cycle(q) + period(f) * Hits(f, 1 .. n)
  <2> DEFINE h == Hits(f, 1 .. n)
  <2>1. h \in Nat
      BY <1>2
  <2> HIDE DEF h
  <2>2. period(f) * (k * Freq(f) + h) = k * (period(f) * Freq(f)) + period(f) * h
      BY <1>2, <2>1, Expand
  <2> QED BY <1>2, <1>4, <2>2 DEF h
<1>6. k * Cycle(q) \in Nat /\ period(f) * Hits(f, 1 .. n) \in Nat
    BY <1>2
<1> DEFINE u == k * Cycle(q)
           v == period(f) * Hits(f, 1 .. n)
           x == period(f) * Slots(f)
<1>7. base_time \in Nat /\ offset(f) \in Nat /\ u \in Nat /\ v \in Nat
    BY <1>2, <1>6 DEF IInv, TypeOK
<1>8. sche_time[f] = base_time + offset(f) + x /\ x = u + v
    BY <1>3, <1>5
<1> HIDE DEF u, v, x
<1>9. sche_time[f] = base_time + offset(f) + u + v
    BY <1>7, <1>8
<1> QED BY <1>7, <1>9 DEF u, v

\* The pass that starts is one of the run's.
LEMMA StartPass ==
    ASSUME ExactSchedules, IInv, GridInv, Locals, Passes, NEW q \in Queues, pc[q] = "while",
           KeepsRunning(current_time[q]), NEW k \in Nat, Passed(q, k, 0)
    PROVE  InRunTime(q, k)
<1> DEFINE g == Order[q][NumFrames(q)]
<1>0. TypeOK /\ main # "setup"
    BY DEF IInv, Shape
<1>a. it_frame[q] \in 1 .. NumFrames(q)
    BY <1>0 DEF TypeOK
<1>b. NumFrames(q) \in Nat
    BY OrderAssumption DEF NumFrames
<1>1. NumFrames(q) \in 1 .. NumFrames(q) /\ NumFrames(q) \in Nat
    BY <1>a, <1>b
<1>2. g \in Flows /\ queue(g) = q /\ g \in FlowsOf(q)
    BY <1>1, ScheduledFlow DEF FlowsOf
<1>3. delta(g) \in Nat /\ offset(g) \in Nat
    BY <1>2, FlowTypes
<1>4. /\ sche_time[g] = base_time + offset(g) + k * Cycle(q) + period(g) * Hits(g, 1 .. 0)
      /\ k * Cycle(q) \in Nat
    BY <1>0, <1>2, LaunchTimes
<1>5. period(g) * Hits(g, 1 .. 0) = 0
  <2>1. Hits(g, 1 .. 0) = 0 /\ period(g) \in Nat
      BY <1>2, HitsNone, FlowTypes
  <2> QED BY <2>1
<1>6. /\ base_time \in Nat /\ current_time[q] \in Nat
      /\ PIT_RUNTIME * ONE_SECOND \in Nat
    BY <1>0, ParameterAssumption DEF TypeOK
<1>7. current_time[q] <= base_time + PIT_RUNTIME * ONE_SECOND
    BY <1>6, StillRunning
<1>8. CASE flow[q] = NoFlow
  <2>1. count[g].total = 0
      BY <1>2, <1>8 DEF Locals, LocalsAt
  <2>2. ~InHand(g)
      BY <1>2 DEF InHand
  <2>3. sche_time[g] = base_time + offset(g) + period(g) * 0
      BY <1>0, <1>2, <2>1, <2>2 DEF GridInv, GridAligned
  <2>4. period(g) * 0 = 0
      BY <1>2, FlowTypes
  <2>5. k * Cycle(q) = 0
      BY <1>3, <1>4, <1>5, <1>6, <2>3, <2>4
  <2> QED BY <1>3, <1>6, <2>5 DEF InRunTime
<1>9. CASE flow[q] # NoFlow
  <2>1. flow[q] = g /\ txtime[q] = sche_time[g]
      BY <1>9 DEF Locals, LocalsAt
  <2>2. current_time[q] >= sche_time[g] - delta(g)
      BY <1>9, <2>1 DEF Passes, ReadyAt, WakeTime
  <2>3. k * Cycle(q) <= PIT_RUNTIME * ONE_SECOND + delta(g)
      BY <1>3, <1>4, <1>5, <1>6, <1>7, <2>2
  <2> QED BY <2>3 DEF InRunTime
<1> QED BY <1>8, <1>9

\* A step that stays at its position, or starts a pass, keeps what is taken.
LEMMA SamePass ==
    ASSUME NEW q \in Queues, NEW k \in Nat, Passed(q, k, Taken(q)), Taken(q)' = Taken(q),
           \A f \in FlowsOf(q) : Slots(f)' = Slots(f),
           pc'[q] \in {"for", "sleep", "send", "stamp"} => InRunTime(q, k)
    PROVE  PassAt(q)'
<1>1. Passed(q, k, Taken(q))'
    BY DEF Passed, FlowsOf, Freq, Hits, queue, NumFrames
<1>2. InRunTime(q, k)' <=> InRunTime(q, k)
    BY DEF InRunTime, Cycle, Hits, NumFrames, delta, period, queue
<1> QED BY <1>1, <1>2 DEF PassAt

\* The passes of an lcore, step by step.
LEMMA OwnPasses ==
    ASSUME ExactSchedules, IInv, GridInv, Locals, Passes, NEW q \in Queues, Lcore(q)
    PROVE  PassAt(q)'
<1>0. TypeOK /\ Shape /\ pc[q] # "idle" /\ FlowsOf(q) \subseteq Flows
    BY LcoreMoves DEF IInv, FlowsOf
<1>1. it_frame[q] \in 1 .. NumFrames(q) /\ NumFrames(q) \in Nat
    BY <1>0, OrderAssumption DEF TypeOK, NumFrames
<1>2. PICK k \in Nat : /\ Passed(q, k, Taken(q))
                       /\ pc[q] \in {"for", "sleep", "send", "stamp"} => InRunTime(q, k)
    BY DEF Passes, PassAt
<1>3. CASE FrameMissed(q) \/ FrameKept(q)
  <2>1. pc[q] = "for" /\ Taken(q) = it_frame[q] - 1 /\ InRunTime(q, k)
      BY <1>2, <1>3 DEF FrameMissed, FrameKept, BeginFrame, Taken
  <2>2. ASSUME NEW f \in FlowsOf(q)
        PROVE  Slots(f)' = k * Freq(f) + Hits(f, 1 .. it_frame[q])
    <3>1. f \in Flows /\ queue(f) = q
        BY DEF FlowsOf
    <3>2. Slots(f)' = Slots(f) + IF f = FlowHere(q) THEN 1 ELSE 0
        BY <1>3, <3>1, SlotMoves
    <3>3. Hits(f, 1 .. it_frame[q]) = Hits(f, 1 .. it_frame[q] - 1)
                                          + IF f = FlowHere(q) THEN 1 ELSE 0
        BY <1>1, <3>1, HitsNext DEF FlowHere
    <3>4. Slots(f) = k * Freq(f) + Hits(f, 1 .. it_frame[q] - 1)
        BY <1>2, <2>1 DEF Passed
    <3>5. Hits(f, 1 .. it_frame[q] - 1) \in Nat /\ k * Freq(f) \in Nat
      <4>1. it_frame[q] - 1 \in Nat
          BY <1>1
      <4>2. Freq(f) \in Nat
          BY <1>1, <3>1, HitsType DEF Freq
      <4> QED BY <4>1, <4>2, HitsType
    <3> QED BY <3>2, <3>3, <3>4, <3>5
  <2>3. CASE FrameMissed(q)
    <3>1. NextFrame(q)
        BY <2>3 DEF FrameMissed
    <3> QED BY <1>0, <2>1, <2>2, <3>1, NextFramePass
  <2>4. CASE FrameKept(q)
    <3>1. pc'[q] = "sleep" /\ it_frame' = it_frame
        BY <1>0, <2>4 DEF FrameKept, Goto, TypeOK
    <3>2. Taken(q)' = it_frame[q]
        BY <3>1 DEF Taken
    <3>3. Passed(q, k, Taken(q))'
        BY <2>2, <3>2 DEF Passed, FlowsOf, Freq, Hits, queue, NumFrames
    <3>4. InRunTime(q, k)'
        BY <2>1 DEF InRunTime, Cycle, Hits, NumFrames, delta, period, queue
    <3> QED BY <3>3, <3>4 DEF PassAt
  <2> QED BY <1>3, <2>3, <2>4
<1>4. CASE ~(FrameMissed(q) \/ FrameKept(q))
  <2>1. ASSUME NEW f \in FlowsOf(q)
        PROVE  Slots(f)' = Slots(f)
    <3>1. Slots(f)' = Slots(f) + 0 /\ Slots(f) \in Nat
        BY <1>0, <1>4, SlotMoves DEF TypeOK, Slots, Counters
    <3> QED BY <3>1
  <2>2. CASE StartLoop(q) \/ Wake(q) \/ (SendOk(q) /\ PIT_HW)
    <3>1. Taken(q)' = Taken(q)
        BY <1>0, <2>2 DEF StartLoop, Wake, SendOk, Goto, Taken, TypeOK
    <3>2. pc'[q] \in {"for", "sleep", "send", "stamp"} => pc[q] \in {"sleep", "send"}
        BY <1>0, <2>2 DEF StartLoop, Wake, SendOk, Goto, TypeOK
    <3> QED BY <1>2, <2>1, <3>1, <3>2, SamePass
  <2>3. CASE LoopTest(q)
    <3>1. pc[q] = "while" /\ Taken(q) = 0
        BY <2>3 DEF LoopTest, Taken
    <3>2. /\ pc'[q] = "for" /\ it_frame'[q] = 1 /\ KeepsRunning(current_time[q])
          \/ pc'[q] = "done"
        BY <1>0, <2>3 DEF LoopTest, Goto, TypeOK
    <3>3. Taken(q)' = Taken(q)
        BY <3>1, <3>2 DEF Taken
    <3>4. pc'[q] \in {"for", "sleep", "send", "stamp"} => InRunTime(q, k)
        BY <1>2, <3>1, <3>2, StartPass
    <3> QED BY <1>2, <2>1, <3>3, <3>4, SamePass
  <2>4. CASE (SendOk(q) /\ ~PIT_HW) \/ SendFail(q) \/ ReadStamp(q) \/ StampTimeout(q)
    <3>1. NextFrame(q) /\ pc[q] \in {"send", "stamp"}
        BY <2>4 DEF SendOk, SendFail, ReadStamp, StampTimeout
    <3>2. Taken(q) = it_frame[q] /\ InRunTime(q, k)
        BY <1>2, <3>1 DEF Taken
    <3>3. ASSUME NEW f \in FlowsOf(q)
          PROVE  Slots(f)' = k * Freq(f) + Hits(f, 1 .. it_frame[q])
        BY <1>2, <2>1, <3>2 DEF Passed
    <3> QED BY <1>0, <3>1, <3>2, <3>3, NextFramePass
  <2> QED BY <1>4, <2>2, <2>3, <2>4 DEF Lcore
<1> QED BY <1>3, <1>4

\* An lcore goes on from a frame when its wake time has come, or has passed.
LEMMA OwnReady ==
    ASSUME IInv, Locals, Passes, NEW q \in Queues, Lcore(q)
    PROVE  ReadyAt(q)'
<1>0. TypeOK /\ pc[q] # "idle"
    BY LcoreMoves DEF IInv
<1>1. CASE StartLoop(q)
  <2>1. pc[q] = "start" /\ flow' = flow
      BY <1>1 DEF StartLoop
  <2>2. flow'[q] = NoFlow
      BY <2>1 DEF Locals, LocalsAt
  <2> QED BY <2>2 DEF ReadyAt
<1>2. CASE FrameMissed(q)
  <2>1. /\ flow'[q] = FlowHere(q) /\ current_time'[q] = now
        /\ TooLate(FlowHere(q), now, txtime'[q])
      BY <1>0, <1>2 DEF FrameMissed, BeginFrame, ReadClock, TypeOK
  <2>2. txtime'[q] \in Nat /\ delta(FlowHere(q)) \in Nat /\ now \in Nat /\ FUDGE_FACTOR \in Nat
    <3>1. FlowHere(q) \in Flows
        BY <1>0, FlowHereType
    <3>2. sche_time'[FlowHere(q)] \in Nat
        BY <1>0, <1>2, <3>1, FlowTypes DEF FrameMissed, BeginFrame, inc_flow_timer, TypeOK
    <3>3. txtime'[q] = sche_time'[FlowHere(q)]
        BY <1>0, <1>2 DEF FrameMissed, BeginFrame, TypeOK
    <3> QED BY <1>0, <3>1, <3>2, <3>3, FlowTypes, ParameterAssumption DEF TypeOK
  <2> QED BY <2>1, <2>2 DEF ReadyAt, TooLate, WakeTime, delta
<1>3. CASE FrameKept(q)
  <2>1. pc'[q] = "sleep"
      BY <1>3, LcoreMoves
  <2> QED BY <2>1 DEF ReadyAt
<1>4. CASE Wake(q)
  <2>1. /\ now >= WakeTime(flow[q], txtime[q])
        /\ current_time'[q] = now /\ flow' = flow /\ txtime' = txtime
      BY <1>0, <1>4 DEF Wake, ReadClock, TypeOK
  <2> QED BY <2>1 DEF ReadyAt, WakeTime, delta
<1>5. CASE LoopTest(q) \/ SendOk(q) \/ SendFail(q) \/ ReadStamp(q) \/ StampTimeout(q)
  <2>1. /\ pc[q] \in {"while", "for", "send", "stamp"}
        /\ current_time' = current_time /\ flow' = flow /\ txtime' = txtime
      BY <1>5 DEF LoopTest, SendOk, SendFail, ReadStamp, StampTimeout
  <2> QED BY <2>1 DEF Passes, ReadyAt, WakeTime, delta
<1> QED BY <1>1, <1>2, <1>3, <1>4, <1>5 DEF Lcore

\* Before its lcore starts a queue has used no launch time.
LEMMA PassesInit == Init => Passes
<1> SUFFICES ASSUME Init, NEW q \in Queues PROVE PassAt(q) /\ ReadyAt(q)
    BY DEF Passes
<1>1. pc[q] = "idle" /\ Taken(q) = 0
    BY DEF Init, Taken
<1>2. ASSUME NEW f \in FlowsOf(q)
      PROVE  Slots(f) = 0 * Freq(f) + Hits(f, 1 .. 0)
  <2>1. f \in Flows /\ queue(f) = q
      BY DEF FlowsOf
  <2>2. Slots(f) = 0
      BY <1>1, <2>1 DEF Init, Slots, InHand, InitCounters
  <2>3. Hits(f, 1 .. 0) = 0
      BY HitsNone
  <2>4. Freq(f) \in Nat
    <3>1. NumFrames(q) \in Nat
        BY OrderAssumption DEF NumFrames
    <3> QED BY <2>1, <3>1, HitsType DEF Freq
  <2> QED BY <2>2, <2>3, <2>4
<1>3. Passed(q, 0, Taken(q))
    BY <1>1, <1>2 DEF Passed
<1>4. PassAt(q)
    BY <1>1, <1>3 DEF PassAt
<1> QED BY <1>1, <1>4 DEF ReadyAt

LEMMA PassesInductive ==
    ExactSchedules /\ IInv /\ GridInv /\ Locals /\ Passes /\ [Next]_vars => Passes'
<1> SUFFICES ASSUME ExactSchedules, IInv, GridInv, Locals, Passes, [Next]_vars,
                    NEW p \in Queues
             PROVE  PassAt(p)' /\ ReadyAt(p)'
    BY DEF Passes
<1>1. ASSUME NEW q \in Queues, Lcore(q) PROVE PassAt(p)' /\ ReadyAt(p)'
    BY <1>1, OtherPasses, OwnPasses, OwnReady
<1>2. CASE LaunchLcore
  <2>1. /\ pc'[p] = pc[p] \/ (pc[p] = "idle" /\ pc'[p] = "start")
        /\ flow' = flow /\ txtime' = txtime /\ current_time' = current_time
        /\ it_frame' = it_frame /\ count' = count
      BY <1>2 DEF LaunchLcore, IInv, TypeOK, Shape, localVars, statVars
  <2>2. Taken(p)' = Taken(p) /\ \A f \in FlowsOf(p) : Slots(f)' = Slots(f)
      BY <2>1 DEF Taken, Slots, InHand, FlowsOf, queue
  <2>3. PICK k \in Nat : /\ Passed(p, k, Taken(p))
                         /\ pc[p] \in {"for", "sleep", "send", "stamp"} => InRunTime(p, k)
      BY DEF Passes, PassAt
  <2>4. PassAt(p)'
      BY <2>1, <2>2, <2>3, SamePass
  <2> QED BY <2>1, <2>4 DEF Passes, ReadyAt, WakeTime, delta
<1>3. CASE SetBaseTime \/ AllLaunched \/ Cleanup \/ Tick \/ Stopped \/ UNCHANGED vars
           \/ \E q \in Queues : NicLaunch(q)
  <2>1. /\ pc' = pc /\ flow' = flow /\ txtime' = txtime /\ current_time' = current_time
        /\ it_frame' = it_frame /\ count' = count
      BY <1>3 DEF SetBaseTime, AllLaunched, Cleanup, Tick, Stopped, NicLaunch, vars,
         localVars, statVars
  <2>2. Taken(p)' = Taken(p) /\ \A f \in FlowsOf(p) : Slots(f)' = Slots(f)
      BY <2>1 DEF Taken, Slots, InHand, FlowsOf, queue
  <2>3. PICK k \in Nat : /\ Passed(p, k, Taken(p))
                         /\ pc[p] \in {"for", "sleep", "send", "stamp"} => InRunTime(p, k)
      BY DEF Passes, PassAt
  <2>4. PassAt(p)'
      BY <2>1, <2>2, <2>3, SamePass
  <2> QED BY <2>1, <2>4 DEF Passes, ReadyAt, WakeTime, delta
<1> QED BY <1>1, <1>2, <1>3 DEF Next, Main

\* What the theorems below need of a state, and of the schedules.
PassInv == ExactSchedules /\ IInv /\ GridInv /\ Locals /\ Passes

LEMMA PassInvHolds == ExactSchedules /\ Spec => []PassInv
<1>1. ExactSchedules /\ Init => PassInv
    BY InitIInv, GridInit, LocalsInit, PassesInit DEF PassInv
<1>2. PassInv /\ [Next]_vars => PassInv'
    BY IInvInductive, GridInductive, LocalsInductive, PassesInductive
       DEF PassInv, ExactSchedules, Cycle, Hits, NumFrames, period, queue
<1> QED BY <1>1, <1>2, PTL DEF Spec

\* Where an lcore tests whether to go on, the flows of its queue stand at whole passes.
LEMMA WholePasses ==
    ASSUME PassInv, NEW q \in Queues, pc[q] \in {"while", "done"}, NEW k \in Nat,
           Passed(q, k, Taken(q)), NEW f \in FlowsOf(q)
    PROVE  count[f].total * period(f) = k * Cycle(q)
<1>1. f \in Flows /\ queue(f) = q /\ ExactSchedules /\ TypeOK
    BY DEF FlowsOf, PassInv, IInv
<1>2. count[f].total = Slots(f) /\ count[f].total \in Nat
    BY <1>1 DEF Slots, InHand, TypeOK, Counters
<1>3. Slots(f) = k * Freq(f) + Hits(f, 1 .. 0)
    BY DEF Passed, Taken
<1>4. Hits(f, 1 .. 0) = 0 /\ Freq(f) \in Nat /\ period(f) * Freq(f) = Cycle(q)
      /\ period(f) \in Nat
    BY <1>1, HitsNone, CycleType, FlowTypes
<1>5. (k * Freq(f)) * period(f) = k * (period(f) * Freq(f))
    BY <1>4
<1> QED BY <1>2, <1>3, <1>4, <1>5

\* Whenever an lcore tests whether to go on, and when it has ended, its flows have moved by
\* the same number of whole cycles: however many frames are missed or refused, a pass over
\* the schedule takes each flow of the queue one cycle on.
THEOREM FlowsStayInStep == ExactSchedules /\ Spec => []CycleAligned
<1>1. PassInv => CycleAligned
  <2> SUFFICES ASSUME PassInv, NEW q \in Queues, pc[q] \in {"while", "done"},
                      NEW f \in FlowsOf(q), NEW g \in FlowsOf(q)
               PROVE  count[f].total * period(f) = count[g].total * period(g)
      BY DEF CycleAligned
  <2>1. PICK k \in Nat : Passed(q, k, Taken(q))
      BY DEF PassInv, Passes, PassAt
  <2> QED BY <2>1, WholePasses
<1> QED BY <1>1, PassInvHolds, PTL

\* No frame is scheduled further beyond the end of the run than one cycle and the delta of
\* the flow that ends the schedule, although the run time is tested once per pass only.
THEOREM RunEndsInTime == ExactSchedules /\ Spec => []OverrunBounded
<1>1. PassInv => OverrunBounded
  <2> SUFFICES ASSUME PassInv, NEW q \in Queues, pc[q] \in {"sleep", "send", "stamp"}
               PROVE  txtime[q] <= base_time + PIT_RUNTIME * ONE_SECOND
                          + offset(flow[q]) + Cycle(q) + delta(Order[q][NumFrames(q)])
      BY DEF OverrunBounded
  <2> DEFINE f == flow[q]
             n == it_frame[q]
             d == delta(Order[q][NumFrames(q)])
  <2>0. ExactSchedules /\ IInv /\ GridInv /\ TypeOK /\ main # "setup"
      BY DEF PassInv, IInv, Shape
  <2>1. PICK k \in Nat : Passed(q, k, n) /\ InRunTime(q, k)
      BY DEF PassInv, Passes, PassAt, Taken
  <2>2. n \in 1 .. NumFrames(q) /\ NumFrames(q) \in Nat
      BY <2>0, OrderAssumption DEF TypeOK, NumFrames
  <2>3. f = FlowHere(q) /\ f \in Flows /\ queue(f) = q /\ f \in FlowsOf(q) /\ f # NoFlow
      BY <2>0, FlowHereType, FlowTypes DEF IInv, Shape, FlowsOf
  <2>4. txtime[q] = sche_time[f]
      BY <2>3 DEF PassInv, Locals, LocalsAt
  <2>5. /\ sche_time[f] = base_time + offset(f) + k * Cycle(q) + period(f) * Hits(f, 1 .. n)
        /\ k * Cycle(q) \in Nat
        /\ period(f) * Hits(f, 1 .. n) \in Nat
      BY <2>0, <2>1, <2>2, <2>3, LaunchTimes
  <2>6. period(f) * Hits(f, 1 .. n) <= Cycle(q)
    <3>1. Hits(f, 1 .. n) <= Freq(f) /\ Hits(f, 1 .. n) \in Nat
        BY <2>2, <2>3, HitsGrow, HitsType DEF Freq
    <3>2. period(f) \in Nat /\ Freq(f) \in Nat /\ period(f) * Freq(f) = Cycle(q)
        BY <2>0, <2>3, CycleType, FlowTypes
    <3>3. \A a, b, c \in Nat : b <= c => a * b <= a * c
        OBVIOUS
    <3> QED BY <3>1, <3>2, <3>3
  <2>7. k * Cycle(q) <= PIT_RUNTIME * ONE_SECOND + d
      BY <2>1 DEF InRunTime
  <2>8. Cycle(q) \in Nat /\ offset(f) \in Nat /\ base_time \in Nat /\ d \in Nat
        /\ PIT_RUNTIME * ONE_SECOND \in Nat
    <3>1. Order[q][NumFrames(q)] \in Flows
        BY <2>2, ScheduledFlow
    <3>2. Cycle(q) \in Nat /\ offset(f) \in Nat /\ d \in Nat
        BY <2>0, <2>3, <3>1, CycleType, FlowTypes
    <3>3. base_time \in Nat
        BY <2>0 DEF TypeOK
    <3>4. PIT_RUNTIME * ONE_SECOND \in Nat
        BY ParameterAssumption
    <3> QED BY <3>2, <3>3, <3>4
  <2>9. sche_time[f] <= base_time + PIT_RUNTIME * ONE_SECOND + offset(f) + Cycle(q) + d
    <3> DEFINE u == k * Cycle(q)
               v == period(f) * Hits(f, 1 .. n)
               r == PIT_RUNTIME * ONE_SECOND
               c == Cycle(q)
               o == offset(f)
               s == sche_time[f]
    <3>1. /\ u \in Nat /\ v \in Nat /\ r \in Nat /\ c \in Nat /\ o \in Nat /\ d \in Nat
          /\ base_time \in Nat
          /\ s = base_time + o + u + v /\ v <= c /\ u <= r + d
        BY <2>5, <2>6, <2>7, <2>8
    <3> HIDE DEF u, v, r, c, o, s, d
    <3>2. s <= base_time + r + o + c + d
        BY <3>1
    <3> QED BY <3>2 DEF r, c, o, s
  <2> QED BY <2>4, <2>9
<1> QED BY <1>1, PassInvHolds, PTL

\* The launch time that a frame is given, and the one before it on its queue: they are
\* those of their positions in the schedule, in the same pass.
LEMMA NextLaunchTime ==
    ASSUME PassInv, NEW q \in Queues, pc[q] = "for", flow[q] # NoFlow,
           FrameMissed(q) \/ FrameKept(q)
    PROVE  \E d \in Nat : /\ txtime[q] = d + LaunchBefore(q, it_frame[q])
                          /\ txtime'[q] = d + SlotTime(q, it_frame[q])
<1> DEFINE g == FlowPrev(q)
           h == FlowHere(q)
           n == it_frame[q]
<1>0. /\ ExactSchedules /\ IInv /\ GridInv /\ TypeOK /\ main # "setup"
      /\ txtime[q] \in Nat
    BY DEF PassInv, IInv, Shape, TypeOK
<1>1. n \in 1 .. NumFrames(q) /\ NumFrames(q) \in Nat
    BY <1>0, OrderAssumption DEF TypeOK, NumFrames
<1>2. g \in FlowsOf(q) /\ h \in FlowsOf(q) /\ g \in Flows /\ h \in Flows
      /\ queue(g) = q /\ queue(h) = q
    BY <1>0, FlowHereType DEF FlowsOf
<1>3. txtime[q] = sche_time[g]
    BY DEF PassInv, Locals, LocalsAt
<1>4. txtime'[q] = sche_time[h] + period(h)
  <2>1. BeginFrame(q)
      BY DEF FrameMissed, FrameKept
  <2>2. sche_time \in [Flows -> Nat] /\ txtime \in [Queues -> Nat]
      BY <1>0 DEF TypeOK
  <2> QED BY <1>2, <2>1, <2>2 DEF BeginFrame, inc_flow_timer
<1>5. PICK k \in Nat : Passed(q, k, n - 1)
    BY DEF PassInv, Passes, PassAt, Taken
<1>6. n - 1 \in Nat
    BY <1>1
<1>7. /\ sche_time[g] = base_time + offset(g) + k * Cycle(q) + period(g) * Hits(g, 1 .. n - 1)
      /\ sche_time[h] = base_time + offset(h) + k * Cycle(q) + period(h) * Hits(h, 1 .. n - 1)
      /\ k * Cycle(q) \in Nat /\ base_time \in Nat
      /\ period(g) * Hits(g, 1 .. n - 1) \in Nat
      /\ period(h) * Hits(h, 1 .. n - 1) \in Nat
    BY <1>0, <1>2, <1>5, <1>6, LaunchTimes DEF TypeOK
<1>8. /\ period(h) \in Nat /\ offset(h) \in Nat /\ period(g) \in Nat /\ offset(g) \in Nat
    BY <1>2, FlowTypes
<1>9. Hits(h, 1 .. n) = Hits(h, 1 .. n - 1) + 1 /\ Hits(h, 1 .. n - 1) \in Nat
  <2>1. Order[queue(h)][n] = h /\ n \in Nat \ {0}
      BY <1>1, <1>2 DEF FlowHere
  <2> QED BY <1>6, <2>1, HitsNext, HitsType
<1>10. period(h) * Hits(h, 1 .. n) = period(h) * Hits(h, 1 .. n - 1) + period(h)
  <2>1. \A a, b \in Nat : a * (b + 1) = a * b + a
      OBVIOUS
  <2> QED BY <1>8, <1>9, <2>1
<1>11. SlotTime(q, n) = offset(h) + period(h) * Hits(h, 1 .. n)
    BY DEF SlotTime, FlowHere
<1>12. LaunchBefore(q, n) = offset(g) + period(g) * Hits(g, 1 .. n - 1)
  <2>1. CASE n = 1
    <3>1. Hits(g, 1 .. n - 1) = 0
        BY <2>1, HitsNone
    <3>2. period(g) * Hits(g, 1 .. n - 1) = 0
        BY <1>8, <3>1
    <3>3. LaunchBefore(q, n) = offset(g)
        BY <2>1 DEF LaunchBefore, FlowPrev
    <3> QED BY <1>8, <3>2, <3>3
  <2>2. CASE n # 1
    <3>1. g = Order[q][n - 1]
        BY <2>2 DEF FlowPrev
    <3>2. LaunchBefore(q, n) = SlotTime(q, n - 1)
        BY <2>2 DEF LaunchBefore
    <3> QED BY <3>1, <3>2 DEF SlotTime
  <2> QED BY <2>1, <2>2
<1> DEFINE u == k * Cycle(q)
           v == period(g) * Hits(g, 1 .. n - 1)
           w == period(h) * Hits(h, 1 .. n - 1)
           x == period(h) * Hits(h, 1 .. n)
<1>13. /\ u \in Nat /\ v \in Nat /\ w \in Nat /\ base_time \in Nat
       /\ txtime[q] = base_time + offset(g) + u + v
       /\ txtime'[q] = base_time + offset(h) + u + w + period(h)
       /\ x = w + period(h)
       /\ SlotTime(q, n) = offset(h) + x
       /\ LaunchBefore(q, n) = offset(g) + v
    BY <1>3, <1>4, <1>7, <1>10, <1>11, <1>12
<1> HIDE DEF g, h, u, v, w, x, n
<1>14. /\ base_time + u \in Nat
       /\ txtime[q] = (base_time + u) + LaunchBefore(q, n)
       /\ txtime'[q] = (base_time + u) + SlotTime(q, n)
    BY <1>8, <1>13
<1> QED BY <1>14 DEF n

LEMMA SlotTimeType ==
    ASSUME NEW q \in Queues, NEW i \in 1 .. NumFrames(q)
    PROVE  SlotTime(q, i) \in Nat
<1> DEFINE f == Order[q][i]
<1>1. period(f) \in Nat /\ offset(f) \in Nat
    BY ScheduledFlow, FlowTypes
<1>2. Hits(f, 1 .. i) \in Nat
    BY HitsType
<1>3. period(f) * Hits(f, 1 .. i) \in Nat
    BY <1>1, <1>2
<1> QED BY <1>1, <1>3 DEF SlotTime

LEMMA FirstSlotTime ==
    ASSUME NEW q \in Queues, NumFrames(q) \in Nat \ {0}
    PROVE  SlotTime(q, 1) = offset(Order[q][1]) + period(Order[q][1])
<1> DEFINE f == Order[q][1]
<1>1. period(f) \in Nat /\ offset(f) \in Nat /\ queue(f) = q
  <2>1. 1 \in 1 .. NumFrames(q)
      OBVIOUS
  <2> QED BY <2>1, ScheduledFlow, FlowTypes
<1>2. Hits(f, 1 .. 1) = 1
  <2>1. \A n \in Nat \ {0} : Hits(f, 1 .. n) =
                Hits(f, 1 .. n - 1) + IF Order[queue(f)][n] = f THEN 1 ELSE 0
      BY HitsNext
  <2>2. 1 \in Nat \ {0} /\ Order[queue(f)][1] = f /\ 1 - 1 = 0
      BY <1>1
  <2>3. Hits(f, 1 .. 0) = 0
      BY HitsNone
  <2>4. ASSUME NEW n \in Nat \ {0}, n = 1 PROVE Hits(f, 1 .. n) = 1
    <3>1. Hits(f, 1 .. n) = Hits(f, 1 .. n - 1) + IF Order[queue(f)][n] = f THEN 1 ELSE 0
        BY <2>1
    <3>2. 1 .. n - 1 = 1 .. 0 /\ Order[queue(f)][n] = f
        BY <2>2, <2>4
    <3>3. Hits(f, 1 .. n - 1) = 0
        BY <2>3, <3>2
    <3> HIDE DEF f
    <3> QED BY <3>1, <3>2, <3>3
  <2> QED BY <2>2, <2>4
<1>3. period(f) * 1 = period(f)
    BY <1>1
<1> QED BY <1>2, <1>3 DEF SlotTime

\* Frames are taken in the order in which their periods begin, whatever the periods of a
\* queue's flows and from pass to pass as well, when the schedule is one cycle in that order
\* (what sche.c makes) and no flow begins more than a period after another: a frame stands in
\* the first-in first-out ring behind later ones only as far as their periods differ.
THEOREM LaunchTimesInOrder ==
    ExactSchedules /\ SortedStarts /\ NearOffsets /\ Spec => LaunchOrder
<1>1. ASSUME PassInv, [Next]_vars, SortedStarts, NearOffsets, NEW q \in Queues, pc[q] = "for",
             flow[q] # NoFlow
      PROVE  txtime'[q] + period(flow[q]) >= txtime[q] + period(flow'[q])
  <2> DEFINE n == it_frame[q]
             g == FlowPrev(q)
             h == FlowHere(q)
  <2>0. /\ IInv /\ TypeOK /\ txtime[q] \in Nat
        /\ flow[q] \in Flows /\ flow[q] = g /\ pc[q] # "idle"
    <3>1. IInv /\ TypeOK /\ LocalsAt(q)
        BY <1>1 DEF PassInv, IInv, Locals
    <3>2. flow[q] \in Flows /\ txtime[q] \in Nat
        BY <1>1, <3>1 DEF TypeOK
    <3> QED BY <1>1, <3>1, <3>2 DEF LocalsAt
  <2>1. CASE txtime'[q] = txtime[q] /\ flow'[q] = flow[q]
    <3>1. period(flow[q]) \in Nat
        BY <2>0, FlowTypes
    <3> QED BY <2>0, <2>1, <3>1
  <2>2. CASE FrameMissed(q) \/ FrameKept(q)
    <3>1. n \in 1 .. NumFrames(q) /\ NumFrames(q) \in Nat
        BY <1>1, <2>0, OrderAssumption DEF TypeOK, NumFrames
    <3>2. PICK d \in Nat : txtime[q] = d + LaunchBefore(q, n) /\ txtime'[q] = d + SlotTime(q, n)
        BY <1>1, <2>2, NextLaunchTime
    <3>3. \A i \in 1 .. NumFrames(q) : SlotTime(q, i) \in Nat
        BY SlotTimeType
    <3>4. flow'[q] = h
        BY <2>0, <2>2 DEF FrameMissed, FrameKept, BeginFrame, TypeOK
    <3>5. /\ g \in Flows /\ h \in Flows /\ queue(g) = q /\ queue(h) = q
          /\ period(g) \in Nat /\ period(h) \in Nat /\ offset(g) \in Nat /\ offset(h) \in Nat
        BY <2>0, FlowHereType, FlowTypes
    <3>6. /\ LaunchBefore(q, n) + period(h) <= SlotTime(q, n) + period(g)
          /\ LaunchBefore(q, n) \in Nat
      <4>1. CASE n = 1
        <5>1. g = Order[q][NumFrames(q)] /\ h = Order[q][1]
            BY <4>1 DEF FlowPrev, FlowHere
        <5>2. offset(g) <= offset(h) + period(g)
            BY <1>1, <3>5 DEF NearOffsets
        <5>3. SlotTime(q, 1) = offset(h) + period(h)
            BY <3>1, <5>1, FirstSlotTime
        <5>4. LaunchBefore(q, n) = offset(g)
            BY <4>1, <5>1 DEF LaunchBefore
        <5> HIDE DEF n, g, h
        <5> QED BY <3>5, <4>1, <5>2, <5>3, <5>4
      <4>2. CASE n # 1
        <5>1. n - 1 \in 1 .. NumFrames(q) - 1 /\ n - 1 \in 1 .. NumFrames(q) /\ (n - 1) + 1 = n
            BY <3>1, <4>2
        <5>2. g = Order[q][n - 1] /\ h = Order[q][n] /\ LaunchBefore(q, n) = SlotTime(q, n - 1)
            BY <4>2 DEF FlowPrev, FlowHere, LaunchBefore
        <5>3. SlotTime(q, n - 1) + period(Order[q][(n - 1) + 1])
                  <= SlotTime(q, (n - 1) + 1) + period(Order[q][n - 1])
            BY <1>1, <5>1 DEF SortedStarts
        <5> QED BY <3>3, <5>1, <5>2, <5>3
      <4> QED BY <4>1, <4>2
    <3>7. SlotTime(q, n) \in Nat
        BY <3>1, <3>3
    <3> HIDE DEF n, g, h
    <3> QED BY <2>0, <3>2, <3>4, <3>5, <3>6, <3>7
  <2>3. \/ txtime'[q] = txtime[q] /\ flow'[q] = flow[q]
        \/ FrameMissed(q) \/ FrameKept(q)
    <3>1. ASSUME NEW p \in Queues, Lcore(p)
          PROVE  \/ txtime'[q] = txtime[q] /\ flow'[q] = flow[q]
                 \/ FrameMissed(q) \/ FrameKept(q)
      <4>1. CASE p = q
          BY <1>1, <3>1, <4>1 DEF Lcore, StartLoop, LoopTest, Wake, SendOk, SendFail, ReadStamp,
             StampTimeout
      <4>2. CASE p # q
          BY <2>0, <3>1, <4>2, OtherLcores
      <4> QED BY <4>1, <4>2
    <3>2. CASE Main \/ Tick \/ Stopped \/ UNCHANGED vars \/ \E p \in Queues : NicLaunch(p)
        BY <3>2 DEF Main, SetBaseTime, LaunchLcore, AllLaunched, Cleanup, Tick, Stopped,
           NicLaunch, vars, localVars
    <3> QED BY <1>1, <3>1, <3>2 DEF Next
  <2> QED BY <2>1, <2>2, <2>3
<1>2. PassInv /\ SortedStarts /\ NearOffsets /\ [Next]_vars
          => [\A q \in Queues : pc[q] = "for" /\ flow[q] # NoFlow =>
                 txtime'[q] + period(flow[q]) >= txtime[q] + period(flow'[q])]_vars
    BY <1>1
<1>3. SortedStarts /\ NearOffsets /\ [Next]_vars => (SortedStarts /\ NearOffsets)'
    BY DEF SortedStarts, NearOffsets, SlotTime, Hits, NumFrames, offset, period, queue
<1> QED BY <1>2, <1>3, PassInvHolds, PTL DEF LaunchOrder, Spec

-----------------------------------------------------------------------------
(* An lcore that has begun to send stays in time.                          *)

\* What an lcore has sent before it takes its first frame: nothing.
Fresh ==
    \A q \in Queues : pc[q] \in {"idle", "start"} \/ flow[q] = NoFlow =>
        ring[q] = <<>> /\ core[q].send = 1

\* No frame in a ring is launched after the one in hand, and an lcore that has sent
\* a frame is done with the one in hand at its launch time.
AheadAt(q) ==
    /\ \A i \in 1 .. Len(ring[q]) : ring[q][i].txtime <= txtime[q]
    /\ core[q].send > 1 /\ pc[q] \in {"while", "for", "stamp"} => now <= txtime[q]

Ahead == Fresh /\ \A q \in Queues : AheadAt(q)

LEMMA AheadInit == Init => Ahead
<1> SUFFICES ASSUME Init PROVE Ahead
    OBVIOUS
<1>1. \A q \in Queues : ring[q] = <<>> /\ core[q].send = 1 /\ pc[q] = "idle"
    BY DEF Init, InitCounters
<1> QED BY <1>1 DEF Ahead, Fresh, AheadAt

\* The frame that is taken next leaves its delta but FUDGE_FACTOR after the launch time
\* of the one before.
LEMMA NextFrameAhead ==
    ASSUME PassInv, SpacedSchedules, NEW q \in Queues, pc[q] = "for", flow[q] # NoFlow,
           FrameMissed(q) \/ FrameKept(q)
    PROVE  /\ delta(FlowHere(q)) \in Nat /\ delta(FlowHere(q)) >= FUDGE_FACTOR
           /\ txtime[q] \in Nat /\ txtime'[q] \in Nat
           /\ txtime[q] + delta(FlowHere(q)) <= txtime'[q] + FUDGE_FACTOR
           /\ txtime[q] <= txtime'[q]
<1>0. IInv /\ TypeOK /\ txtime[q] \in Nat /\ FUDGE_FACTOR \in Nat
    BY ParameterAssumption DEF PassInv, IInv, TypeOK
<1>1. it_frame[q] \in 1 .. NumFrames(q) /\ NumFrames(q) \in Nat
    BY <1>0, OrderAssumption DEF TypeOK, NumFrames
<1>2. PICK d \in Nat : /\ txtime[q] = d + LaunchBefore(q, it_frame[q])
                       /\ txtime'[q] = d + SlotTime(q, it_frame[q])
    BY NextLaunchTime
<1>3. FlowHere(q) \in Flows /\ delta(FlowHere(q)) \in Nat
    BY <1>0, FlowHereType, FlowTypes
<1>4. /\ delta(FlowHere(q)) >= FUDGE_FACTOR
      /\ LaunchBefore(q, it_frame[q]) + delta(FlowHere(q))
             <= SlotTime(q, it_frame[q]) + FUDGE_FACTOR
    BY <1>1 DEF SpacedSchedules, FlowHere
<1>5. SlotTime(q, it_frame[q]) \in Nat
    BY <1>1, SlotTimeType
<1>6. LaunchBefore(q, it_frame[q]) \in Nat
  <2>1. CASE it_frame[q] = 1
    <3>1. NumFrames(q) \in 1 .. NumFrames(q)
        BY <1>1
    <3> QED BY <2>1, <3>1, ScheduledFlow, FlowTypes DEF LaunchBefore
  <2>2. CASE it_frame[q] # 1
    <3>1. it_frame[q] - 1 \in 1 .. NumFrames(q)
        BY <1>1, <2>2
    <3> QED BY <2>2, <3>1, SlotTimeType DEF LaunchBefore
  <2> QED BY <2>1, <2>2
<1>7. txtime'[q] \in Nat
    BY <1>2, <1>5
<1> QED BY <1>0, <1>2, <1>3, <1>4, <1>5, <1>6, <1>7

\* What an lcore does to another one's ring and counters: nothing.
LEMMA OtherRings ==
    ASSUME IInv, NEW q \in Queues, Lcore(q), NEW p \in Queues \ {q}
    PROVE  ring'[p] = ring[p] /\ core'[p] = core[p]
<1>1. TypeOK
    BY DEF IInv
<1> QED
    BY <1>1 DEF Lcore, StartLoop, LoopTest, BeginFrame, FrameMissed, FrameKept, Wake, SendOk,
       SendFail, ReadStamp, StampTimeout, update_nums, statVars, nicVars, TypeOK

LEMMA FreshStep == IInv /\ Fresh /\ [Next]_vars => Fresh'
<1> SUFFICES ASSUME IInv, Fresh, [Next]_vars, NEW q \in Queues,
                    pc'[q] \in {"idle", "start"} \/ flow'[q] = NoFlow
             PROVE  ring'[q] = <<>> /\ core'[q].send = 1
    BY DEF Fresh
<1>0. TypeOK /\ Shape
    BY DEF IInv
<1>1. ASSUME NEW p \in Queues, Lcore(p), p # q PROVE ring'[q] = <<>> /\ core'[q].send = 1
  <2>1. pc'[q] = pc[q] /\ flow'[q] = flow[q] /\ ring'[q] = ring[q] /\ core'[q] = core[q]
      BY <1>1, OtherLcores, OtherRings
  <2> QED BY <2>1 DEF Fresh
<1>2. CASE Lcore(q)
  <2>1. CASE FrameMissed(q) \/ FrameKept(q)
    <3>1. FlowHere(q) \in Flows /\ flow'[q] = FlowHere(q) /\ pc[q] = "for"
        BY <1>0, <1>2, <2>1, FlowHereType, LcoreMoves DEF FrameMissed, FrameKept, BeginFrame, TypeOK
    <3>2. pc'[q] \notin {"idle", "start"}
        BY <1>0, <2>1 DEF FrameMissed, FrameKept, NextFrame, Goto, TypeOK
    <3> QED BY <3>1, <3>2, FlowTypes
  <2>2. CASE SendOk(q) \/ SendFail(q) \/ ReadStamp(q) \/ StampTimeout(q)
    <3>1. pc[q] \in {"send", "stamp"} /\ flow'[q] = flow[q]
        BY <2>2 DEF SendOk, SendFail, ReadStamp, StampTimeout
    <3>2. flow[q] \in Flows
        BY <3>1, AwaitedFrame
    <3>3. pc'[q] \notin {"idle", "start"}
        BY <1>0, <2>2 DEF SendOk, SendFail, ReadStamp, StampTimeout, NextFrame, Goto, TypeOK
    <3> QED BY <3>1, <3>2, <3>3, FlowTypes
  <2>3. CASE StartLoop(q) \/ LoopTest(q) \/ Wake(q)
    <3>1. /\ pc'[q] \notin {"idle", "start"} /\ flow'[q] = flow[q]
          /\ ring'[q] = ring[q] /\ core'[q] = core[q]
        BY <1>0, <2>3 DEF StartLoop, LoopTest, Wake, Goto, TypeOK, statVars, nicVars
    <3> QED BY <3>1 DEF Fresh
  <2> QED BY <1>2, <2>1, <2>2, <2>3 DEF Lcore
<1>3. CASE LaunchLcore
  <2>1. pc'[q] # pc[q] => pc[q] = "idle"
      BY <1>0, <1>3, OrderAssumption DEF LaunchLcore, Shape, TypeOK
  <2>2. UNCHANGED <<flow, ring, core>>
      BY <1>3 DEF LaunchLcore, localVars, statVars, nicVars
  <2> QED BY <2>1, <2>2 DEF Fresh
<1>4. ASSUME NEW p \in Queues, NicLaunch(p) PROVE ring'[q] = <<>> /\ core'[q].send = 1
  <2>1. /\ UNCHANGED <<pc, flow, core>> /\ ring[p] # <<>>
        /\ ring' = [ring EXCEPT ![p] = Tail(@)]
      BY <1>4 DEF NicLaunch, localVars, statVars
  <2>2. ring[q] = <<>> /\ core[q].send = 1
      BY <2>1 DEF Fresh
  <2> QED BY <2>1, <2>2
<1>5. CASE Cleanup
  <2>1. UNCHANGED <<pc, flow, core>> /\ ring'[q] = <<>>
      BY <1>5 DEF Cleanup, localVars, statVars
  <2> QED BY <2>1 DEF Fresh
<1>6. CASE SetBaseTime \/ AllLaunched \/ Tick \/ Stopped \/ UNCHANGED vars
  <2>1. UNCHANGED <<pc, flow, ring, core>>
      BY <1>6 DEF SetBaseTime, AllLaunched, Tick, Stopped, vars, localVars, statVars, nicVars
  <2> QED BY <2>1 DEF Fresh
<1> QED BY <1>1, <1>2, <1>3, <1>4, <1>5, <1>6 DEF Next, Main

\* The step of an lcore that has begun to send.
LEMMA AheadLcore ==
    ASSUME PassInv, SpacedSchedules, InTime, Ahead, NEW q \in Queues, PatientLcore(q),
           core'[q].send > 1, pc'[q] \in {"while", "for", "stamp"}
    PROVE  now' <= txtime'[q]
<1>0. /\ IInv /\ TypeOK /\ Shape /\ Lcore(q) /\ now' = now /\ now \in Nat /\ FUDGE_FACTOR \in Nat
      /\ core[q] \in Counters
    BY PatientIsLcore, ParameterAssumption DEF PassInv, IInv, TypeOK, Lcore, StartLoop, LoopTest,
       BeginFrame, FrameMissed, FrameKept, Wake, SendOk, SendFail, ReadStamp, StampTimeout
<1>1. CASE StartLoop(q)
  <2>1. core'[q] = core[q] /\ pc[q] = "start"
      BY <1>1 DEF StartLoop, statVars
  <2>2. core[q].send = 1
      BY <2>1 DEF Ahead, Fresh
  <2> QED BY <2>1, <2>2
<1>2. CASE LoopTest(q)
  <2>1. core'[q] = core[q] /\ pc[q] = "while" /\ txtime' = txtime
      BY <1>2 DEF LoopTest, statVars
  <2> QED BY <1>0, <2>1 DEF Ahead, AheadAt
<1>3. CASE FrameMissed(q)
  <2>1. core[q].send > 1 /\ pc[q] = "for"
    <3>1. core'[q] = Counted(core[q], TRUE, FALSE)
        BY <1>0, <1>3 DEF FrameMissed, update_nums, TypeOK
    <3>2. core'[q].send = core[q].send
        BY <3>1 DEF Counted
    <3> QED BY <1>3, <3>2 DEF FrameMissed, BeginFrame
  <2>2. flow[q] # NoFlow
      BY <1>0, <2>1 DEF Ahead, Fresh
  <2>3. now <= txtime[q]
      BY <2>1 DEF Ahead, AheadAt
  <2> QED BY <1>0, <1>3, <2>1, <2>2, <2>3, NextFrameAhead
<1>4. CASE FrameKept(q) \/ Wake(q)
    BY <1>0, <1>4, LcoreMoves
<1>5. CASE SendOk(q) \/ SendFail(q)
  <2>1. pc[q] = "send" /\ txtime' = txtime
      BY <1>5 DEF SendOk, SendFail
  <2>2. flow[q] = FlowHere(q) /\ flow[q] \in Flows /\ it_frame[q] \in 1 .. NumFrames(q)
      BY <1>0, <2>1, AwaitedFrame DEF Shape, TypeOK
  <2>3. delta(flow[q]) \in Nat /\ delta(flow[q]) >= FUDGE_FACTOR
      BY <2>2, FlowTypes DEF SpacedSchedules, FlowHere
  <2>4. now <= txtime[q] - delta(flow[q]) + FUDGE_FACTOR
      BY <2>1 DEF InTime, WakeTime
  <2>5. txtime[q] \in Nat
      BY <1>0 DEF TypeOK
  <2> QED BY <1>0, <2>1, <2>3, <2>4, <2>5
<1>6. CASE ReadStamp(q) \/ PatientTimeout(q)
  <2>1. core'[q] = core[q] /\ pc[q] = "stamp" /\ txtime' = txtime
      BY <1>6 DEF ReadStamp, PatientTimeout, StampTimeout, statVars
  <2> QED BY <1>0, <2>1 DEF Ahead, AheadAt
<1> QED BY <1>1, <1>2, <1>3, <1>4, <1>5, <1>6 DEF PatientLcore

\* The frames in the ring of an lcore's queue, after a step of the lcore.
LEMMA RingLcore ==
    ASSUME PassInv, SpacedSchedules, Ahead, NEW q \in Queues, Lcore(q),
           NEW i \in 1 .. Len(ring'[q])
    PROVE  ring'[q][i].txtime <= txtime'[q]
<1>0. /\ IInv /\ TypeOK /\ Shape
      /\ ring[q] \in Seq(Frame) /\ txtime[q] \in Nat
    BY DEF PassInv, IInv, TypeOK
<1>1. CASE SendOk(q)
  <2>1. /\ txtime' = txtime
        /\ ring'[q] = Append(ring[q], [flow |-> flow[q], txtime |-> txtime[q]])
      BY <1>0, <1>1 DEF SendOk, TypeOK
  <2>2. CASE i \in 1 .. Len(ring[q])
    <3>1. ring'[q][i] = ring[q][i]
        BY <1>0, <2>1, <2>2
    <3> QED BY <2>1, <2>2, <3>1 DEF Ahead, AheadAt
  <2>3. CASE i \notin 1 .. Len(ring[q])
    <3>1. i = Len(ring[q]) + 1
        BY <1>0, <2>1, <2>3
    <3>2. ring'[q][i] = [flow |-> flow[q], txtime |-> txtime[q]]
        BY <1>0, <2>1, <3>1
    <3> QED BY <1>0, <2>1, <3>2
  <2> QED BY <2>2, <2>3
<1>2. CASE ~SendOk(q)
  <2>1. ring'[q] = ring[q]
      BY <1>2 DEF Lcore, StartLoop, LoopTest, FrameMissed, FrameKept, Wake, SendFail,
         ReadStamp, StampTimeout, nicVars
  <2>2. ring[q][i].txtime <= txtime[q] /\ ring[q][i].txtime \in Nat
    <3>1. i \in 1 .. Len(ring[q])
        BY <2>1
    <3>2. ring[q][i] \in Frame
        BY <1>0, <3>1
    <3> QED BY <3>1, <3>2 DEF Ahead, AheadAt, Frame
  <2>3. pc[q] # "start" /\ flow[q] # NoFlow
    <3>1. ring[q] # <<>>
        BY <1>0, <2>1
    <3> QED BY <3>1 DEF Ahead, Fresh
  <2>4. CASE FrameMissed(q) \/ FrameKept(q)
    <3>1. pc[q] = "for"
        BY <2>4 DEF FrameMissed, FrameKept, BeginFrame
    <3>2. txtime'[q] \in Nat /\ txtime[q] <= txtime'[q]
        BY <2>3, <2>4, <3>1, NextFrameAhead
    <3> QED BY <1>0, <2>1, <2>2, <3>2
  <2>5. CASE ~FrameMissed(q) /\ ~FrameKept(q)
    <3>1. txtime' = txtime
        BY <1>2, <2>3, <2>5 DEF Lcore, StartLoop, LoopTest, Wake, SendFail, ReadStamp, StampTimeout
    <3> QED BY <2>1, <2>2, <3>1
  <2> QED BY <2>4, <2>5
<1> QED BY <1>1, <1>2

LEMMA AheadStep ==
    ASSUME PassInv, SpacedSchedules, InTime, Ahead, [PromptNext]_vars
    PROVE  Ahead'
<1>0. IInv /\ TypeOK /\ Shape /\ [Next]_vars
    BY PromptIsNext DEF PassInv, IInv
<1>1. Fresh'
    BY <1>0, FreshStep DEF Ahead
<1> SUFFICES ASSUME NEW q \in Queues PROVE AheadAt(q)'
    BY <1>1 DEF Ahead
<1>2. AheadAt(q) /\ ring[q] \in Seq(Frame) /\ txtime[q] \in Nat /\ now \in Nat
    BY <1>0 DEF Ahead, TypeOK
<1>3. ASSUME NEW p \in Queues, PatientLcore(p), p # q PROVE AheadAt(q)'
  <2>1. Lcore(p)
      BY <1>3, PatientIsLcore
  <2>2. pc'[q] = pc[q] /\ txtime'[q] = txtime[q] /\ ring'[q] = ring[q] /\ core'[q] = core[q]
      BY <1>0, <1>3, <2>1, OtherLcores, OtherRings
  <2>3. now' = now
      BY <2>1 DEF Lcore, StartLoop, LoopTest, FrameMissed, FrameKept, Wake, SendOk,
         SendFail, ReadStamp, StampTimeout
  <2> QED BY <1>2, <2>2, <2>3 DEF AheadAt
<1>4. CASE PatientLcore(q)
  <2>1. Lcore(q)
      BY <1>4, PatientIsLcore
  <2>2. \A i \in 1 .. Len(ring'[q]) : ring'[q][i].txtime <= txtime'[q]
      BY <2>1, RingLcore
  <2>3. core'[q].send > 1 /\ pc'[q] \in {"while", "for", "stamp"} => now' <= txtime'[q]
      BY <1>4, AheadLcore
  <2> QED BY <2>2, <2>3 DEF AheadAt
<1>5. ASSUME NEW p \in Queues, NicLaunch(p) PROVE AheadAt(q)'
  <2>1. UNCHANGED <<now, pc, txtime, core>>
      BY <1>5 DEF NicLaunch, localVars, statVars
  <2>2. CASE p = q
    <3>1. ring'[q] = Tail(ring[q]) /\ ring[q] # <<>>
        BY <1>0, <1>5, <2>2 DEF NicLaunch, TypeOK
    <3>2. \A i \in 1 .. Len(ring'[q]) : ring'[q][i] = ring[q][i + 1] /\ i + 1 \in 1 .. Len(ring[q])
        BY <1>2, <3>1
    <3> QED BY <1>2, <2>1, <3>2 DEF AheadAt
  <2>3. CASE p # q
    <3>1. ring'[q] = ring[q]
        BY <1>0, <1>5, <2>3 DEF NicLaunch, TypeOK
    <3> QED BY <1>2, <2>1, <3>1 DEF AheadAt
  <2> QED BY <2>2, <2>3
<1>6. CASE PromptTick
  <2>1. /\ UNCHANGED <<pc, txtime, ring, core>> /\ now' = now + 1
        /\ ~LcoreReady(q) /\ ~NicReady(q)
      BY <1>6 DEF PromptTick, Tick, localVars, statVars, nicVars
  <2>2. ASSUME core[q].send > 1, pc[q] \in {"while", "for", "stamp"} PROVE now' <= txtime[q]
    <3>1. pc[q] = "stamp" /\ ring[q] # <<>>
        BY <2>1, <2>2 DEF LcoreReady
    <3>2. ~(now >= Head(ring[q]).txtime)
        BY <2>1, <3>1 DEF NicReady
    <3>3. Head(ring[q]) = ring[q][1] /\ 1 \in 1 .. Len(ring[q]) /\ ring[q][1] \in Frame
        BY <1>2, <3>1
    <3>4. ring[q][1].txtime <= txtime[q] /\ ring[q][1].txtime \in Nat
        BY <1>2, <3>3 DEF AheadAt, Frame
    <3> QED BY <1>2, <2>1, <3>2, <3>3, <3>4
  <2> QED BY <1>2, <2>1, <2>2 DEF AheadAt
<1>7. CASE LaunchLcore
  <2>1. UNCHANGED <<now, txtime, ring, core>>
      BY <1>7 DEF LaunchLcore, localVars, statVars, nicVars
  <2>2. pc'[q] # pc[q] => pc'[q] = "start"
      BY <1>0, <1>7 DEF LaunchLcore, TypeOK
  <2> QED BY <1>2, <2>1, <2>2 DEF AheadAt
<1>8. CASE Cleanup
  <2>1. UNCHANGED <<now, pc, txtime, core>> /\ ring'[q] = <<>>
      BY <1>8 DEF Cleanup, localVars, statVars
  <2>2. 1 .. Len(ring'[q]) = {}
      BY <2>1
  <2> QED BY <1>2, <2>1, <2>2 DEF AheadAt
<1>9. CASE SetBaseTime \/ AllLaunched \/ Stopped \/ UNCHANGED vars
  <2>1. UNCHANGED <<now, pc, txtime, ring, core>>
      BY <1>9 DEF SetBaseTime, AllLaunched, Stopped, vars, localVars, statVars, nicVars
  <2> QED BY <1>2, <2>1 DEF AheadAt
<1> QED BY <1>3, <1>4, <1>5, <1>6, <1>7, <1>8, <1>9 DEF PromptNext, Main

\* Only a frame that is too late counts as missed.
LEMMA MissedByFrameMissed ==
    ASSUME IInv, [PromptNext]_vars, NEW q \in Queues, core'[q].misdl # core[q].misdl
    PROVE  FrameMissed(q)
<1>0. TypeOK
    BY DEF IInv
<1>1. PICK p \in Queues : PatientLcore(p)
    BY DEF PromptNext, PromptTick, Main, SetBaseTime, LaunchLcore, AllLaunched, Cleanup, Tick,
       Stopped, NicLaunch, vars, statVars
<1>2. p = q
    BY <1>1, PatientIsLcore, OtherRings
<1>3. CASE StartLoop(q) \/ LoopTest(q) \/ FrameKept(q) \/ Wake(q) \/ ReadStamp(q)
           \/ PatientTimeout(q)
    BY <1>3 DEF StartLoop, LoopTest, FrameKept, Wake, ReadStamp, PatientTimeout, StampTimeout,
       statVars
<1>4. CASE SendOk(q) \/ SendFail(q)
  <2>1. \/ core'[q] = Counted(core[q], FALSE, FALSE)
        \/ core'[q] = Counted(core[q], FALSE, TRUE)
      BY <1>0, <1>4 DEF SendOk, SendFail, update_nums, TypeOK
  <2> QED BY <2>1 DEF Counted
<1> QED BY <1>1, <1>2, <1>3, <1>4 DEF PatientLcore

\* On a prompt machine, with any number of queues that share the stamp register, an lcore
\* whose launch times are spaced misses none once it has sent a frame: it is busy with a
\* frame until its launch at most, whosever stamp ends its wait and whether or not the
\* card took the frame.
THEOREM InTimeOnceSpaced ==
    ASSUME ExactSchedules, SpacedSchedules
    PROVE  PromptSpec => InTimeOnceSending
<1>1. ASSUME PassInv, Ahead, [PromptNext]_vars, NEW q \in Queues, core[q].send > 1,
             core'[q].misdl # core[q].misdl
      PROVE  FALSE
  <2>0. IInv /\ TypeOK /\ now \in Nat /\ FUDGE_FACTOR \in Nat
      BY <1>1, ParameterAssumption DEF PassInv, IInv, TypeOK
  <2>1. FrameMissed(q)
      BY <1>1, <2>0, MissedByFrameMissed
  <2>2. pc[q] = "for" /\ TooLate(FlowHere(q), now, txtime'[q])
      BY <2>1 DEF FrameMissed, BeginFrame
  <2>3. flow[q] # NoFlow /\ now <= txtime[q]
    <3>1. core[q].send # 1
        BY <1>1
    <3> QED BY <1>1, <2>2, <3>1 DEF Ahead, Fresh, AheadAt
  <2>4. /\ delta(FlowHere(q)) \in Nat /\ txtime[q] \in Nat /\ txtime'[q] \in Nat
        /\ txtime[q] + delta(FlowHere(q)) <= txtime'[q] + FUDGE_FACTOR
      BY <1>1, <2>1, <2>2, <2>3, NextFrameAhead
  <2>5. now > txtime'[q] - delta(FlowHere(q)) + FUDGE_FACTOR
      BY <2>2 DEF TooLate, WakeTime
  <2> QED BY <2>0, <2>3, <2>4, <2>5
<1>2. PassInv /\ Ahead /\ [PromptNext]_vars =>
          [\A q \in Queues : core[q].send > 1 => core'[q].misdl = core[q].misdl]_vars
    BY <1>1
<1>3. PassInv /\ InTime /\ Ahead /\ [PromptNext]_vars => Ahead'
    BY AheadStep
<1>4. PassInv => IInv
    BY DEF PassInv
<1>5. PassInv /\ InTime /\ [PromptNext]_vars => InTime'
    BY <1>4, InTimeInductive
<1>6. PromptSpec => Spec
    BY PromptIsNext, PTL DEF PromptSpec, Spec
<1>7. Spec => []PassInv
    BY PassInvHolds
<1> QED
    BY <1>2, <1>3, <1>5, <1>6, <1>7, AheadInit, InTimeInit, PTL DEF PromptSpec, InTimeOnceSending
=============================================================================
