------------------------- MODULE TxStatisticsProofs -------------------------
(***************************************************************************)
(* Theorems about TxStatistics, for every flow table, schedule and         *)
(* parameter, and every width of an int.                                   *)
(***************************************************************************)
EXTENDS TxStatistics, TxLoopTimelyProofs

Record == {r \in [avg : Nat, max : Nat] : r.avg <= r.max}

\* Every record's average is in range, and every time a natural number.
StatInv ==
    /\ swtime \in [Flows -> Nat]
    /\ hwtime \in [Flows -> Nat]
    /\ stamp_at \in Nat
    /\ st \in [Flows -> [Metrics -> Record]]
    /\ core_st \in [Queues -> [CoreMetrics -> Record]]

\* num_pkt_send starts at one and never shrinks: nothing is divided by zero.
SendPositive ==
    /\ \A f \in Flows : count[f].send > 0
    /\ \A q \in Queues : core[q].send > 0

-----------------------------------------------------------------------------
(* The arithmetic of an average.                                           *)

LEMMA AbsIntNat == ASSUME NEW x \in Int PROVE AbsInt(x) \in Nat
<1> DEFINE i == ((x + INT_HALF) % (2 * INT_HALF)) - INT_HALF
<1>1. 2 * INT_HALF \in Nat \ {0} /\ x + INT_HALF \in Int
    BY IntAssumption
<1>2. (x + INT_HALF) % (2 * INT_HALF) \in Int
    BY <1>1
<1>3. i \in Int
    BY <1>2, IntAssumption
<1>4. AbsInt(x) = IF i < 0 THEN -i ELSE i
    BY DEF AbsInt
<1> HIDE DEF i
<1> QED BY <1>3, <1>4

Magnitude(x) == IF x < 0 THEN -x ELSE x

\* A multiple of a positive number is zero or no smaller than the number.
LEMMA Multiple ==
    ASSUME NEW m \in Nat \ {0}, NEW k \in Int, k # 0
    PROVE  m * k \in Int /\ Magnitude(m * k) >= m
<1>1. CASE k >= 1
  <2>1. m * k >= m /\ m * k \in Int
      BY <1>1
  <2> QED BY <2>1 DEF Magnitude
<1>2. CASE -k >= 1
  <2>1. m * (-k) >= m /\ m * (-k) = -(m * k) /\ m * k \in Int
      BY <1>2
  <2> QED BY <2>1 DEF Magnitude
<1> QED BY <1>1, <1>2

\* abs() of a truncated difference is the difference but for whole turns of the int ...
LEMMA AbsIntTurns ==
    ASSUME NEW x \in Int
    PROVE  \E k, i \in Int : /\ x = (2 * INT_HALF) * k + i
                             /\ -INT_HALF <= i /\ i < INT_HALF
                             /\ AbsInt(x) = Magnitude(i)
<1> DEFINE M == 2 * INT_HALF
           y == x + INT_HALF
           r == y % M
           k == y \div M
<1>1. M \in Nat \ {0} /\ y \in Int /\ INT_HALF \in Nat \ {0} /\ M = INT_HALF + INT_HALF
    BY IntAssumption
<1>2. AbsInt(x) = IF r - INT_HALF < 0 THEN -(r - INT_HALF) ELSE r - INT_HALF
    BY DEF AbsInt
<1>3. x = y - INT_HALF
    BY <1>1
<1> HIDE DEF M, y
<1>4. r \in 0 .. M - 1
    BY <1>1
<1>5. k \in Int
    BY <1>1
<1>6. y = M * k + r
    BY <1>1
<1>7. M * k \in Int
    BY <1>1, <1>5
<1> HIDE DEF r, k
<1>8. x = M * k + (r - INT_HALF) /\ r - INT_HALF \in Int
    BY <1>1, <1>3, <1>4, <1>6, <1>7
<1>9. -INT_HALF <= r - INT_HALF /\ r - INT_HALF < INT_HALF
    BY <1>1, <1>4
<1> QED BY <1>2, <1>5, <1>8, <1>9 DEF M, Magnitude

\* ... and no whole number of turns leaves less.
LEMMA AbsIntLeast ==
    ASSUME NEW x \in Int, NEW k \in Int, NEW i \in Int, x = (2 * INT_HALF) * k + i
    PROVE  AbsInt(x) <= Magnitude(i)
<1>1. PICK l \in Int, j \in Int : /\ x = (2 * INT_HALF) * l + j
                                  /\ -INT_HALF <= j /\ j < INT_HALF
                                  /\ AbsInt(x) = Magnitude(j)
    BY AbsIntTurns
<1> DEFINE M == 2 * INT_HALF
<1>2. M \in Nat \ {0} /\ INT_HALF \in Nat \ {0} /\ M = INT_HALF + INT_HALF
    BY IntAssumption
<1>3. x = M * k + i /\ x = M * l + j
    BY <1>1
<1> HIDE DEF M
<1>4. M * (l - k) = M * l - M * k /\ M * l \in Int /\ M * k \in Int
    BY <1>2
<1>5. i = M * (l - k) + j
    BY <1>3, <1>4
<1>6. CASE l = k
  <2>1. l - k = 0 /\ M * 0 = 0
      BY <1>2, <1>6
  <2>2. i = j
      BY <1>5, <2>1
  <2> QED BY <1>1, <2>2 DEF Magnitude
<1>7. CASE l # k
  <2>1. l - k \in Int /\ l - k # 0
      BY <1>7
  <2>2. M * (l - k) \in Int /\ Magnitude(M * (l - k)) >= M
      BY <1>2, <2>1, Multiple
  <2> QED BY <1>1, <1>2, <1>5, <2>2 DEF Magnitude
<1> QED BY <1>6, <1>7

\* The truncated distance of two numbers is no more than the sum of theirs.
LEMMA AbsIntTriangle ==
    ASSUME NEW x \in Int, NEW y \in Int
    PROVE  AbsInt(x - y) <= AbsInt(x) + AbsInt(y)
<1> DEFINE M == 2 * INT_HALF
<1>1. PICK k \in Int, i \in Int : x = M * k + i /\ AbsInt(x) = Magnitude(i)
    BY AbsIntTurns
<1>2. PICK l \in Int, j \in Int : y = M * l + j /\ AbsInt(y) = Magnitude(j)
    BY AbsIntTurns
<1>3. M \in Nat \ {0}
    BY IntAssumption
<1>4. x - y = M * (k - l) + (i - j)
  <2> HIDE DEF M
  <2>1. M * (k - l) = M * k - M * l /\ M * k \in Int /\ M * l \in Int
      BY <1>3
  <2> QED BY <1>1, <1>2, <2>1
<1>5. x - y \in Int /\ k - l \in Int /\ i - j \in Int
    OBVIOUS
<1>6. AbsInt(x - y) <= Magnitude(i - j)
    BY <1>4, <1>5, AbsIntLeast
<1>7. Magnitude(i - j) <= Magnitude(i) + Magnitude(j)
    BY DEF Magnitude
<1>8. AbsInt(x - y) \in Nat
    BY <1>5, AbsIntNat
<1>9. Magnitude(i - j) \in Nat /\ Magnitude(i) \in Nat /\ Magnitude(j) \in Nat
    BY DEF Magnitude
<1> QED BY <1>1, <1>2, <1>6, <1>7, <1>8, <1>9

LEMMA Quotient ==
    ASSUME NEW x \in Nat, NEW n \in Nat \ {0}, NEW m \in Nat, x <= m * n
    PROVE  x \div n \in Nat /\ x \div n <= m
<1> DEFINE k == x \div n
<1>1. k \in Nat /\ k * n <= x
    OBVIOUS
<1> HIDE DEF k
<1>2. ~(k >= m + 1)
  <2>1. ASSUME k >= m + 1 PROVE FALSE
    <3>1. PICK j \in Nat : k = (m + 1) + j
        <4>1. k - (m + 1) \in Nat /\ k = (m + 1) + (k - (m + 1))
            BY <1>1, <2>1
        <4> QED BY <4>1
    <3>2. k * n = m * n + n + j * n /\ j * n \in Nat /\ m * n \in Nat
        BY <3>1
    <3> QED BY <1>1, <3>2
  <2> QED BY <2>1
<1>3. x \div n \in Nat /\ x \div n <= m
    BY <1>1, <1>2 DEF k
<1> QED BY <1>3

\* A sample keeps a record in range, whatever the number it is divided by.
LEMMA AveragedRecord ==
    ASSUME NEW r \in Record, NEW d \in Nat, NEW n \in Nat, n > 0
    PROVE  Averaged(r, d, n) \in Record
<1> DEFINE m == IF d > r.max THEN d ELSE r.max
           x == r.avg * (n - 1) + d
<1>1. r.avg \in Nat /\ m \in Nat /\ r.avg <= m /\ d <= m /\ n - 1 \in Nat
    BY DEF Record
<1>2. Averaged(r, d, n) = [avg |-> x \div n, max |-> m]
    BY DEF Averaged
<1> HIDE DEF m
<1>3. PICK a \in Nat : m = r.avg + a
  <2>1. m - r.avg \in Nat /\ m = r.avg + (m - r.avg)
      BY <1>1
  <2> QED BY <2>1
<1>4. x \in Nat /\ x <= m * n
  <2>1. r.avg * (n - 1) \in Nat /\ a * (n - 1) \in Nat
      BY <1>1
  <2>2. m * (n - 1) = r.avg * (n - 1) + a * (n - 1)
      BY <1>1, <1>3
  <2>3. m * n = m * (n - 1) + m
      BY <1>1
  <2> QED BY <1>1, <2>1, <2>2, <2>3
<1> HIDE DEF x
<1>5. x \div n \in Nat /\ x \div n <= m
    BY <1>1, <1>4, Quotient
<1> QED
    BY <1>1, <1>2, <1>5 DEF Record

-----------------------------------------------------------------------------

LEMMA SendInit == Init => SendPositive
BY DEF Init, SendPositive, InitCounters

LEMMA SendInductive == IInv /\ SendPositive /\ [Next]_vars => SendPositive'
<1> SUFFICES ASSUME IInv, SendPositive, [Next]_vars PROVE SendPositive'
    OBVIOUS
<1>0. TypeOK
    BY DEF IInv
<1>1. \/ count' = count /\ core' = core
      \/ \E q \in Queues, f \in Flows, m, d \in BOOLEAN : update_nums(q, f, m, d)
    BY CountingStep
<1>2. ASSUME NEW c \in Counters, c.send > 0, NEW m \in BOOLEAN, NEW d \in BOOLEAN
      PROVE  Counted(c, m, d).send > 0
    BY <1>2 DEF Counted, Counters
<1>3. ASSUME NEW q \in Queues, NEW f \in Flows, NEW m \in BOOLEAN, NEW d \in BOOLEAN,
             update_nums(q, f, m, d)
      PROVE  SendPositive'
    BY <1>0, <1>2, <1>3 DEF update_nums, SendPositive, TypeOK
<1> QED
    BY <1>1, <1>3 DEF SendPositive

-----------------------------------------------------------------------------
(* The records.                                                            *)

\* Apart from its records a step is one of TxLoop.
LEMMA StatIsNext == [StatNext]_<<vars, records, stamp_at>> => [Next]_vars
BY DEF StatNext, StatLcore, StatLaunch, PatientTimeout, Next, Lcore

LEMMA StatRecordsInit == StatInit => StatInv
BY DEF StatInit, StatInv, Record

\* Two metrics of a flow may be given new records.
LEMMA TwoMetrics ==
    ASSUME NEW s \in [Flows -> [Metrics -> Record]], NEW f \in Flows,
           NEW a \in Record, NEW b \in Record, NEW m \in Metrics, NEW k \in Metrics
    PROVE  [s EXCEPT ![f][m] = a, ![f][k] = b] \in [Flows -> [Metrics -> Record]]
OBVIOUS

\* The samples by the lcore's clock.
LEMMA SoftwareRecords ==
    ASSUME IInv, Locals, SendPositive, StatInv, NEW q \in Queues, BeginFrame(q), SampleSoftware(q)
    PROVE  StatInv'
<1> DEFINE f == FlowPrev(q)
           delta_sw == Delta(now, txtime[q])
           jitter_sw == Jitter(swtime[f], now, SampledPeriod(q))
           a == IF count[f].total # 0 THEN Averaged(st[f]["delta_sw"], delta_sw, count[f].send)
                                      ELSE st[f]["delta_sw"]
           b == IF prev_time[f] THEN Averaged(st[f]["jitter_sw"], jitter_sw, count[f].send)
                                ELSE st[f]["jitter_sw"]
<1>0. /\ TypeOK /\ pc[q] = "for" /\ f \in Flows /\ queue(f) = q /\ LocalsAt(q)
    BY FlowHereType DEF IInv, BeginFrame, Locals
<1>a. now \in Nat /\ txtime[q] \in Nat /\ swtime[f] \in Nat
    BY <1>0 DEF TypeOK, StatInv
<1>b. count[f] \in Counters /\ core[q] \in Counters
    BY <1>0 DEF TypeOK
<1>c. /\ count[f].send \in Nat /\ count[f].send > 0
      /\ core[q].send \in Nat /\ core[q].send > 0
    BY <1>0, <1>b DEF Counters, SendPositive
<1>d. /\ st[f]["delta_sw"] \in Record /\ st[f]["jitter_sw"] \in Record
      /\ core_st[q]["delta_sw"] \in Record
    BY <1>0 DEF StatInv, Metrics, CoreMetrics
<1>2. delta_sw \in Nat
    BY <1>a, AbsIntNat DEF Delta
<1>3. prev_time[f] => jitter_sw \in Nat
  <2>1. prev_time[f] => flow[q] = f
      BY <1>0 DEF LocalsAt
  <2>2. prev_time[f] => SampledPeriod(q) \in Nat
      BY <1>0, <2>1, FlowTypes DEF SampledPeriod
  <2> QED BY <1>a, <2>2, AbsIntNat DEF Jitter
<1>4. a \in Record /\ b \in Record
    BY <1>c, <1>d, <1>2, <1>3, AveragedRecord
<1>5. /\ st' = [st EXCEPT ![f]["delta_sw"] = a, ![f]["jitter_sw"] = b]
      /\ swtime' = [swtime EXCEPT ![f] = now]
      /\ hwtime' = hwtime /\ stamp_at' = stamp_at
      /\ \/ core_st' = core_st
         \/ core_st' = [core_st EXCEPT ![q]["delta_sw"] =
                            Averaged(@, delta_sw, core[q].send)]
    BY DEF SampleSoftware, update_time
<1> HIDE DEF a, b, f, delta_sw
<1>6. st' \in [Flows -> [Metrics -> Record]]
  <2>1. "delta_sw" \in Metrics /\ "jitter_sw" \in Metrics
      BY DEF Metrics
  <2>2. st \in [Flows -> [Metrics -> Record]]
      BY DEF StatInv
  <2> QED BY <1>0, <1>4, <1>5, <2>1, <2>2, TwoMetrics
<1>7. core_st' \in [Queues -> [CoreMetrics -> Record]]
  <2>1. Averaged(core_st[q]["delta_sw"], delta_sw, core[q].send) \in Record
      BY <1>c, <1>d, <1>2, AveragedRecord
  <2> QED
      BY <1>5, <2>1 DEF StatInv, CoreMetrics
<1>8. swtime' \in [Flows -> Nat]
    BY <1>0, <1>a, <1>5 DEF StatInv
<1> QED
    BY <1>5, <1>6, <1>7, <1>8 DEF StatInv

\* The samples by the card's clock.
LEMMA HardwareRecords ==
    ASSUME IInv, SendPositive, StatInv, NEW q \in Queues, ReadStamp(q), SampleHardware(q)
    PROVE  StatInv'
<1> DEFINE f == flow[q]
           delta_hw == Delta(stamp_at, txtime[q])
           jitter_hw == Jitter(hwtime[f], stamp_at, period(f))
           a == Averaged(st[f]["delta_hw"], delta_hw, count[f].send)
           b == IF prev_hwtime[f] # NoFrame
                THEN Averaged(st[f]["jitter_hw"], jitter_hw, count[f].send) ELSE st[f]["jitter_hw"]
<1>0. TypeOK /\ f \in Flows
    BY FlowHereType DEF IInv, Shape, ReadStamp
<1>a. txtime[q] \in Nat /\ stamp_at \in Nat /\ hwtime[f] \in Nat /\ period(f) \in Nat
    BY <1>0, FlowTypes DEF TypeOK, StatInv
<1>b. count[f] \in Counters /\ core[q] \in Counters
    BY <1>0 DEF TypeOK
<1>c. /\ count[f].send \in Nat /\ count[f].send > 0
      /\ core[q].send \in Nat /\ core[q].send > 0
    BY <1>0, <1>b DEF Counters, SendPositive
<1>d. /\ st[f]["delta_hw"] \in Record /\ st[f]["jitter_hw"] \in Record
      /\ core_st[q]["delta_hw"] \in Record
    BY <1>0 DEF StatInv, Metrics, CoreMetrics
<1>2. delta_hw \in Nat /\ jitter_hw \in Nat
    BY <1>a, AbsIntNat DEF Delta, Jitter
<1>3. a \in Record /\ b \in Record
    BY <1>c, <1>d, <1>2, AveragedRecord
<1>4. /\ st' = [st EXCEPT ![f]["delta_hw"] = a, ![f]["jitter_hw"] = b]
      /\ hwtime' = [hwtime EXCEPT ![f] = stamp_at]
      /\ swtime' = swtime /\ stamp_at' = stamp_at
      /\ core_st' = [core_st EXCEPT ![q]["delta_hw"] = Averaged(@, delta_hw, core[q].send)]
    BY DEF SampleHardware, update_time
<1> HIDE DEF a, b, f, delta_hw
<1>5. st' \in [Flows -> [Metrics -> Record]]
  <2>1. "delta_hw" \in Metrics /\ "jitter_hw" \in Metrics
      BY DEF Metrics
  <2>2. st \in [Flows -> [Metrics -> Record]]
      BY DEF StatInv
  <2> QED BY <1>0, <1>3, <1>4, <2>1, <2>2, TwoMetrics
<1>6. core_st' \in [Queues -> [CoreMetrics -> Record]]
  <2>1. Averaged(core_st[q]["delta_hw"], delta_hw, core[q].send) \in Record
      BY <1>c, <1>d, <1>2, AveragedRecord
  <2> QED
      BY <1>4, <2>1 DEF StatInv, CoreMetrics
<1>7. hwtime' \in [Flows -> Nat]
    BY <1>0, <1>a, <1>4 DEF StatInv
<1> QED
    BY <1>4, <1>5, <1>6, <1>7 DEF StatInv

LEMMA StatInductive ==
    ASSUME IInv, Locals, SendPositive, StatInv, [StatNext]_<<vars, records, stamp_at>>
    PROVE  StatInv'
<1>1. CASE UNCHANGED <<records, stamp_at>>
    BY <1>1 DEF StatInv, records
<1>2. ASSUME NEW q \in Queues, StatLaunch(q) PROVE StatInv'
    BY <1>2 DEF StatLaunch, StatInv, records, IInv, TypeOK
<1>3. ASSUME NEW q \in Queues, StatLcore(q), ~UNCHANGED <<records, stamp_at>> PROVE StatInv'
    BY <1>3, SoftwareRecords, HardwareRecords DEF StatLcore, FrameMissed, FrameKept
<1> QED
    BY <1>1, <1>2, <1>3 DEF StatNext

\* No average exceeds the largest of its samples, however many frames gave none and
\* however many of the samples were not counted.  (An average may lie below all of its
\* samples: the first hardware sample enters with half its weight.)
THEOREM AveragesBelowMaximum == StatSpec => []AverageBelowMaximum
<1>1. StatInv => AverageBelowMaximum
    BY DEF StatInv, AverageBelowMaximum, Record
<1>2. StatInit => Init
    BY DEF StatInit
<1> QED
    BY <1>1, <1>2, InitIInv, IInvInductive, LocalsInit, LocalsInductive, SendInit, SendInductive,
       StatRecordsInit, StatInductive, StatIsNext, PTL DEF StatSpec

\* What the theorems below need of a state.
StatIInv == IInv /\ GridInv /\ Locals /\ SendPositive /\ StatInv

LEMMA StatIInvHolds == StatSpec => []StatIInv
<1>1. StatInit => Init
    BY DEF StatInit
<1> QED
    BY <1>1, InitIInv, IInvInductive, GridInit, GridInductive, LocalsInit, LocalsInductive,
       SendInit, SendInductive, StatRecordsInit, StatInductive, StatIsNext, PTL
       DEF StatSpec, StatIInv

-----------------------------------------------------------------------------
(* What a step records.                                                    *)

Larger(d, c) == IF d > c THEN d ELSE c

LEMMA AveragedMax ==
    ASSUME NEW r, NEW d, NEW n
    PROVE  Averaged(r, d, n).max = Larger(d, r.max)
BY DEF Averaged, Larger

\* The head of the for body, for the flow of the previous position.
LEMMA SoftwareSample ==
    ASSUME StatIInv, NEW q \in Queues, BeginFrame(q), SampleSoftware(q),
           NEW f, f = FlowPrev(q), NEW d, d = Delta(now, txtime[q])
    PROVE  /\ pc[q] = "for" /\ f \in Flows /\ queue(f) = q /\ d \in Nat
           /\ st'[f]["delta_sw"].max = IF count[f].total # 0
                  THEN Larger(d, st[f]["delta_sw"].max) ELSE st[f]["delta_sw"].max
           /\ core_st'[q]["delta_sw"].max = IF count[f].total # 0
                  THEN Larger(d, core_st[q]["delta_sw"].max) ELSE core_st[q]["delta_sw"].max
           /\ st'[f]["jitter_sw"].max = IF prev_time[f]
                  THEN Larger(Jitter(swtime[f], now, SampledPeriod(q)), st[f]["jitter_sw"].max)
                  ELSE st[f]["jitter_sw"].max
           /\ swtime'[f] = now
           /\ \A g \in Flows \ {f} : st'[g] = st[g] /\ swtime'[g] = swtime[g]
           /\ \A m \in {"delta_hw", "jitter_hw"} : st'[f][m] = st[f][m]
           /\ core_st'[q]["delta_hw"] = core_st[q]["delta_hw"]
           /\ \A p \in Queues \ {q} : core_st'[p] = core_st[p]
           /\ hwtime' = hwtime /\ stamp_at' = stamp_at
<1>1. TypeOK /\ pc[q] = "for"
    BY DEF StatIInv, IInv, BeginFrame
<1>2. f \in Flows /\ queue(f) = q
    BY <1>1, FlowHereType
<1>3. now \in Nat /\ txtime[q] \in Nat
    BY <1>1 DEF TypeOK
<1>4. d \in Nat
    BY <1>3, AbsIntNat DEF Delta
<1>5. /\ swtime \in [Flows -> Nat] /\ st \in [Flows -> [Metrics -> Record]]
      /\ core_st \in [Queues -> [CoreMetrics -> Record]]
    BY DEF StatIInv, StatInv
<1> DEFINE j == Jitter(swtime[f], now, SampledPeriod(q))
           a == IF count[f].total # 0 THEN Averaged(st[f]["delta_sw"], d, count[f].send)
                                      ELSE st[f]["delta_sw"]
           b == IF prev_time[f] THEN Averaged(st[f]["jitter_sw"], j, count[f].send)
                                ELSE st[f]["jitter_sw"]
           c == Averaged(core_st[q]["delta_sw"], d, core[q].send)
<1>6. /\ st' = [st EXCEPT ![f]["delta_sw"] = a, ![f]["jitter_sw"] = b]
      /\ swtime' = [swtime EXCEPT ![f] = now]
      /\ core_st' = IF count[f].total # 0 THEN [core_st EXCEPT ![q]["delta_sw"] = c] ELSE core_st
      /\ hwtime' = hwtime /\ stamp_at' = stamp_at
    BY DEF SampleSoftware, update_time
<1>7. /\ a.max = IF count[f].total # 0
                 THEN Larger(d, st[f]["delta_sw"].max) ELSE st[f]["delta_sw"].max
      /\ b.max = IF prev_time[f] THEN Larger(j, st[f]["jitter_sw"].max)
                                 ELSE st[f]["jitter_sw"].max
      /\ c.max = Larger(d, core_st[q]["delta_sw"].max)
    BY AveragedMax
<1> HIDE DEF a, b, c, j
<1>8. /\ st'[f]["delta_sw"] = a /\ st'[f]["jitter_sw"] = b
      /\ \A m \in {"delta_hw", "jitter_hw"} : st'[f][m] = st[f][m]
      /\ \A g \in Flows \ {f} : st'[g] = st[g]
    BY <1>2, <1>5, <1>6 DEF Metrics
<1>9. /\ core_st'[q]["delta_sw"] = IF count[f].total # 0 THEN c ELSE core_st[q]["delta_sw"]
      /\ core_st'[q]["delta_hw"] = core_st[q]["delta_hw"]
      /\ \A p \in Queues \ {q} : core_st'[p] = core_st[p]
    BY <1>5, <1>6 DEF CoreMetrics
<1>10. swtime'[f] = now /\ \A g \in Flows \ {f} : swtime'[g] = swtime[g]
    BY <1>2, <1>5, <1>6
<1> QED BY <1>1, <1>2, <1>4, <1>6, <1>7, <1>8, <1>9, <1>10 DEF j

\* The frame whose stamp is read.
LEMMA HardwareSample ==
    ASSUME StatIInv, NEW q \in Queues, ReadStamp(q), SampleHardware(q),
           NEW f, f = flow[q], NEW d, d = Delta(stamp_at, txtime[q])
    PROVE  /\ f \in Flows /\ queue(f) = q /\ d \in Nat
           /\ st'[f]["delta_hw"].max = Larger(d, st[f]["delta_hw"].max)
           /\ core_st'[q]["delta_hw"].max = Larger(d, core_st[q]["delta_hw"].max)
           /\ st'[f]["jitter_hw"].max = IF prev_hwtime[f] # NoFrame
                  THEN Larger(Jitter(hwtime[f], stamp_at, period(f)), st[f]["jitter_hw"].max)
                  ELSE st[f]["jitter_hw"].max
           /\ hwtime'[f] = stamp_at
           /\ \A g \in Flows \ {f} : st'[g] = st[g] /\ hwtime'[g] = hwtime[g]
           /\ \A m \in {"delta_sw", "jitter_sw"} : st'[f][m] = st[f][m]
           /\ core_st'[q]["delta_sw"] = core_st[q]["delta_sw"]
           /\ \A p \in Queues \ {q} : core_st'[p] = core_st[p]
           /\ swtime' = swtime /\ stamp_at' = stamp_at
<1>1. IInv /\ TypeOK /\ pc[q] = "stamp"
    BY DEF StatIInv, IInv, ReadStamp
<1>2. f \in Flows /\ queue(f) = q
    BY <1>1, AwaitedFrame
<1>3. stamp_at \in Nat /\ txtime[q] \in Nat
    BY <1>1 DEF TypeOK, StatIInv, StatInv
<1>4. d \in Nat
    BY <1>3, AbsIntNat DEF Delta
<1>5. /\ hwtime \in [Flows -> Nat] /\ st \in [Flows -> [Metrics -> Record]]
      /\ core_st \in [Queues -> [CoreMetrics -> Record]]
    BY DEF StatIInv, StatInv
<1> DEFINE j == Jitter(hwtime[f], stamp_at, period(f))
           a == Averaged(st[f]["delta_hw"], d, count[f].send)
           b == IF prev_hwtime[f] # NoFrame THEN Averaged(st[f]["jitter_hw"], j, count[f].send)
                                            ELSE st[f]["jitter_hw"]
           c == Averaged(core_st[q]["delta_hw"], d, core[q].send)
<1>6. /\ st' = [st EXCEPT ![f]["delta_hw"] = a, ![f]["jitter_hw"] = b]
      /\ hwtime' = [hwtime EXCEPT ![f] = stamp_at]
      /\ core_st' = [core_st EXCEPT ![q]["delta_hw"] = c]
      /\ swtime' = swtime /\ stamp_at' = stamp_at
    BY DEF SampleHardware, update_time
<1>7. /\ a.max = Larger(d, st[f]["delta_hw"].max)
      /\ b.max = IF prev_hwtime[f] # NoFrame THEN Larger(j, st[f]["jitter_hw"].max)
                                             ELSE st[f]["jitter_hw"].max
      /\ c.max = Larger(d, core_st[q]["delta_hw"].max)
    BY AveragedMax
<1> HIDE DEF a, b, c, j
<1>8. /\ st'[f]["delta_hw"] = a /\ st'[f]["jitter_hw"] = b
      /\ \A m \in {"delta_sw", "jitter_sw"} : st'[f][m] = st[f][m]
      /\ \A g \in Flows \ {f} : st'[g] = st[g]
    BY <1>2, <1>5, <1>6 DEF Metrics
<1>9. /\ core_st'[q]["delta_hw"] = c
      /\ core_st'[q]["delta_sw"] = core_st[q]["delta_sw"]
      /\ \A p \in Queues \ {q} : core_st'[p] = core_st[p]
    BY <1>5, <1>6 DEF CoreMetrics
<1>10. hwtime'[f] = stamp_at /\ \A g \in Flows \ {f} : hwtime'[g] = hwtime[g]
    BY <1>2, <1>5, <1>6
<1> QED BY <1>2, <1>4, <1>6, <1>7, <1>8, <1>9, <1>10 DEF j

\* Every other step leaves the records alone.
LEMMA NoSample ==
    ASSUME [StatNext]_<<vars, records, stamp_at>>
    PROVE  \/ UNCHANGED records
           \/ \E q \in Queues : (FrameMissed(q) \/ FrameKept(q)) /\ SampleSoftware(q)
           \/ \E q \in Queues : ReadStamp(q) /\ SampleHardware(q)
BY DEF StatNext, StatLcore, StatLaunch

-----------------------------------------------------------------------------
(* The maxima of the flows and of their lcore.                             *)

\* c is the largest of the maxima that s holds for the flows of q, or zero without flows.
Worst(c, s, q, m) ==
    /\ c = 0 \/ \E f \in FlowsOf(q) : c = s[f][m].max
    /\ \A f \in FlowsOf(q) : s[f][m].max <= c

\* t has a further sample d of f's, and is otherwise s.
Sampled(t, s, q, m, f, d) ==
    \A g \in FlowsOf(q) : t[g][m].max = IF g = f THEN Larger(d, s[g][m].max) ELSE s[g][m].max

\* t has the same maxima as s.
SameMaxima(t, s, q, m) == \A g \in FlowsOf(q) : t[g][m].max = s[g][m].max

WorstInv == \A q \in Queues : \A m \in CoreMetrics : Worst(core_st[q][m].max, st, q, m)

LEMMA MaximaTypes ==
    ASSUME StatInv, NEW f \in Flows, NEW m \in Metrics
    PROVE  st[f][m] \in Record /\ st[f][m].max \in Nat
<1>1. st[f][m] \in Record
    BY DEF StatInv
<1> QED BY <1>1 DEF Record

\* A sample that both records are given keeps the one the worst of the others.
LEMMA WorstSampled ==
    ASSUME NEW q \in Queues, NEW m \in Metrics, NEW s \in [Flows -> [Metrics -> Record]],
           NEW t, NEW f \in FlowsOf(q), NEW c \in Nat, NEW d \in Nat,
           Worst(c, s, q, m), Sampled(t, s, q, m, f, d)
    PROVE  Worst(Larger(d, c), t, q, m)
<1>1. ASSUME NEW g \in FlowsOf(q) PROVE s[g][m].max \in Nat /\ s[g][m].max <= c
  <2>1. g \in Flows
      BY DEF FlowsOf
  <2>2. s[g][m] \in Record
      BY <2>1
  <2> QED BY <2>2 DEF Record, Worst
<1>2. ASSUME NEW g \in FlowsOf(q) PROVE t[g][m].max <= Larger(d, c)
    BY <1>1 DEF Sampled, Larger
<1>3. Larger(d, c) = 0 \/ \E g \in FlowsOf(q) : Larger(d, c) = t[g][m].max
  <2>1. CASE d > c
    <3>1. t[f][m].max = d /\ Larger(d, c) = d
        BY <1>1, <2>1 DEF Sampled, Larger
    <3> QED BY <3>1
  <2>2. CASE ~(d > c) /\ c = 0
      BY <2>2 DEF Larger
  <2>3. CASE ~(d > c) /\ c # 0
    <3>1. PICK g \in FlowsOf(q) : c = s[g][m].max
        BY <2>3 DEF Worst
    <3>2. t[g][m].max = c
        BY <2>3, <3>1 DEF Sampled, Larger
    <3> QED BY <2>3, <3>1, <3>2 DEF Larger
  <2> QED BY <2>1, <2>2, <2>3
<1> QED BY <1>2, <1>3 DEF Worst

LEMMA WorstSame ==
    ASSUME NEW q \in Queues, NEW m, NEW s, NEW t, NEW c, Worst(c, s, q, m), SameMaxima(t, s, q, m)
    PROVE  Worst(c, t, q, m)
BY DEF Worst, SameMaxima

LEMMA WorstInit == StatInit => WorstInv
<1> SUFFICES ASSUME StatInit, NEW q \in Queues, NEW m \in CoreMetrics
             PROVE  Worst(core_st[q][m].max, st, q, m)
    BY DEF WorstInv
<1>1. core_st[q][m].max = 0 /\ m \in Metrics
    BY DEF StatInit, CoreMetrics, Metrics
<1>2. \A f \in FlowsOf(q) : st[f][m].max = 0
    BY <1>1 DEF StatInit, FlowsOf
<1> QED BY <1>1, <1>2 DEF Worst

\* The other queues are not concerned by the samples of q.
LEMMA WorstElsewhere ==
    ASSUME StatIInv, WorstInv, NEW q \in Queues, NEW f \in Flows, queue(f) = q,
           \A g \in Flows \ {f} : st'[g] = st[g],
           NEW p \in Queues \ {q}, core_st'[p] = core_st[p], NEW m \in CoreMetrics
    PROVE  Worst(core_st'[p][m].max, st', p, m)
<1>1. \A g \in FlowsOf(p) : g \in Flows \ {f}
    BY DEF FlowsOf
<1>2. SameMaxima(st', st, p, m)
    BY <1>1 DEF SameMaxima
<1> QED BY <1>2, WorstSame DEF WorstInv

LEMMA WorstInductive ==
    ASSUME StatIInv, WorstInv, [StatNext]_<<vars, records, stamp_at>>
    PROVE  WorstInv'
<1>0. st \in [Flows -> [Metrics -> Record]] /\ core_st \in [Queues -> [CoreMetrics -> Record]]
    BY DEF StatIInv, StatInv
<1>a. ASSUME NEW p \in Queues, NEW m \in CoreMetrics
      PROVE  core_st[p][m].max \in Nat /\ m \in Metrics
  <2>1. core_st[p][m] \in Record
      BY <1>0
  <2> QED BY <2>1 DEF Record, CoreMetrics, Metrics
<1>1. CASE UNCHANGED records
    BY <1>1 DEF records, WorstInv, Worst, FlowsOf, queue
<1>2. ASSUME NEW q \in Queues, BeginFrame(q), SampleSoftware(q), NEW p \in Queues,
             NEW m \in CoreMetrics
      PROVE  Worst(core_st'[p][m].max, st', p, m)
  <2> DEFINE f == FlowPrev(q)
             d == Delta(now, txtime[q])
  <2>1. /\ f \in Flows /\ queue(f) = q /\ d \in Nat
        /\ st'[f]["delta_sw"].max = IF count[f].total # 0
                  THEN Larger(d, st[f]["delta_sw"].max) ELSE st[f]["delta_sw"].max
        /\ core_st'[q]["delta_sw"].max = IF count[f].total # 0
                  THEN Larger(d, core_st[q]["delta_sw"].max) ELSE core_st[q]["delta_sw"].max
        /\ \A g \in Flows \ {f} : st'[g] = st[g]
        /\ st'[f]["delta_hw"] = st[f]["delta_hw"]
        /\ core_st'[q]["delta_hw"] = core_st[q]["delta_hw"]
        /\ \A r \in Queues \ {q} : core_st'[r] = core_st[r]
      BY <1>2, SoftwareSample
  <2> HIDE DEF f, d
  <2>2. f \in FlowsOf(q)
      BY <2>1 DEF FlowsOf
  <2>3. CASE p # q
      BY <2>1, <2>3, WorstElsewhere
  <2>4. CASE p = q /\ m = "delta_sw" /\ count[f].total # 0
    <3>1. Sampled(st', st, q, m, f, d)
        BY <2>1, <2>4 DEF Sampled, FlowsOf
    <3>2. Worst(core_st[q][m].max, st, q, m)
        BY DEF WorstInv
    <3> QED BY <1>0, <1>a, <2>1, <2>2, <2>4, <3>1, <3>2, WorstSampled
  <2>5. CASE p = q /\ ~(m = "delta_sw" /\ count[f].total # 0)
    <3>1. SameMaxima(st', st, q, m) /\ core_st'[q][m].max = core_st[q][m].max
        BY <2>1, <2>5 DEF SameMaxima, FlowsOf, CoreMetrics
    <3>2. Worst(core_st[q][m].max, st, q, m)
        BY DEF WorstInv
    <3> QED BY <2>5, <3>1, <3>2, WorstSame
  <2> QED BY <2>3, <2>4, <2>5
<1>3. ASSUME NEW q \in Queues, ReadStamp(q), SampleHardware(q), NEW p \in Queues,
             NEW m \in CoreMetrics
      PROVE  Worst(core_st'[p][m].max, st', p, m)
  <2> DEFINE f == flow[q]
             d == Delta(stamp_at, txtime[q])
  <2>1. /\ f \in Flows /\ queue(f) = q /\ d \in Nat
        /\ st'[f]["delta_hw"].max = Larger(d, st[f]["delta_hw"].max)
        /\ core_st'[q]["delta_hw"].max = Larger(d, core_st[q]["delta_hw"].max)
        /\ \A g \in Flows \ {f} : st'[g] = st[g]
        /\ st'[f]["delta_sw"] = st[f]["delta_sw"]
        /\ core_st'[q]["delta_sw"] = core_st[q]["delta_sw"]
        /\ \A r \in Queues \ {q} : core_st'[r] = core_st[r]
      BY <1>3, HardwareSample
  <2> HIDE DEF f, d
  <2>2. f \in FlowsOf(q)
      BY <2>1 DEF FlowsOf
  <2>3. CASE p # q
      BY <2>1, <2>3, WorstElsewhere
  <2>4. CASE p = q /\ m = "delta_hw"
    <3>1. Sampled(st', st, q, m, f, d)
        BY <2>1, <2>4 DEF Sampled, FlowsOf
    <3>2. Worst(core_st[q][m].max, st, q, m)
        BY DEF WorstInv
    <3> QED BY <1>0, <1>a, <2>1, <2>2, <2>4, <3>1, <3>2, WorstSampled
  <2>5. CASE p = q /\ m # "delta_hw"
    <3>1. SameMaxima(st', st, q, m) /\ core_st'[q][m].max = core_st[q][m].max
        BY <2>1, <2>5 DEF SameMaxima, FlowsOf, CoreMetrics
    <3>2. Worst(core_st[q][m].max, st, q, m)
        BY DEF WorstInv
    <3> QED BY <2>5, <3>1, <3>2, WorstSame
  <2> QED BY <2>3, <2>4, <2>5
<1>4. WorstInv' <=> \A p \in Queues : \A m \in CoreMetrics : Worst(core_st'[p][m].max, st', p, m)
    BY DEF WorstInv, Worst, FlowsOf, queue
<1> QED BY <1>1, <1>2, <1>3, <1>4, NoSample DEF FrameMissed, FrameKept

\* The worst case an lcore reports is one of its flows', and none of its flows has a worse
\* one: its record and theirs never part, whichever of them a sample is given to first.
THEOREM CoreReportsWorst == StatSpec => []CoreMaximum
<1>1. StatIInv /\ WorstInv => CoreMaximum
  <2> SUFFICES ASSUME StatIInv, WorstInv, NEW q \in Queues, NEW m \in CoreMetrics
               PROVE  core_st[q][m].max = Max({0} \cup {st[f][m].max : f \in FlowsOf(q)})
      BY DEF CoreMaximum
  <2> DEFINE c == core_st[q][m].max
             S == {0} \cup {st[f][m].max : f \in FlowsOf(q)}
  <2>1. Worst(c, st, q, m)
      BY DEF WorstInv
  <2>2. c \in S
      BY <2>1 DEF Worst
  <2>3. S \subseteq Nat
    <3>1. ASSUME NEW f \in FlowsOf(q) PROVE st[f][m].max \in Nat
      <4>1. f \in Flows /\ m \in Metrics
          BY DEF FlowsOf, CoreMetrics, Metrics
      <4> QED BY <4>1, MaximaTypes DEF StatIInv
    <3> QED BY <3>1
  <2>4. \A y \in S : c >= y
      BY <2>1, <2>2, <2>3 DEF Worst
  <2> HIDE DEF c, S
  <2>5. \A x \in S : (\A y \in S : x >= y) => x = c
      BY <2>2, <2>3, <2>4
  <2>6. Max(S) = c
      BY <2>2, <2>4, <2>5 DEF Max
  <2> QED BY <2>6 DEF c, S
<1> QED
    BY <1>1, StatIInvHolds, WorstInit, WorstInductive, PTL DEF StatSpec

-----------------------------------------------------------------------------
(* The software times that are compared.                                   *)

\* An lcore that has had a frame has used a launch time of its flow, and one that has had
\* none stands at the first position of the schedule.
Begun(q) ==
    /\ flow[q] # NoFlow => Slots(flow[q]) # 0
    /\ pc[q] = "for" /\ flow[q] = NoFlow => it_frame[q] = 1

LEMMA BegunInit == Init => \A q \in Queues : Begun(q)
BY DEF Init, Begun

\* An lcore's own steps.
LEMMA BegunLcore ==
    ASSUME IInv, Locals, NEW q \in Queues, Begun(q), Lcore(q)
    PROVE  Begun(q)'
<1>0. TypeOK /\ pc[q] # "idle" /\ flow[q] \in Flows \cup {NoFlow}
    BY LcoreMoves DEF IInv, TypeOK
<1>a. ASSUME NEW f \in Flows PROVE Slots(f) \in Nat
  <2>1. count[f] \in Counters
      BY <1>0 DEF TypeOK
  <2> QED BY <2>1 DEF Slots, Counters
<1>1. CASE FrameMissed(q) \/ FrameKept(q)
  <2>a. FlowHere(q) \in Flows /\ FlowHere(q) # NoFlow
      BY <1>0, FlowHereType, FlowTypes
  <2>b. flow' = [flow EXCEPT ![q] = FlowHere(q)]
      BY <1>1 DEF FrameMissed, FrameKept, BeginFrame
  <2>1. flow'[q] = FlowHere(q) /\ FlowHere(q) \in Flows /\ FlowHere(q) # NoFlow
      BY <1>0, <2>a, <2>b DEF TypeOK
  <2>2. Slots(FlowHere(q)) \in Nat
      BY <1>a, <2>1
  <2>3. \A f \in Flows : f = FlowHere(q) => Slots(f)' = Slots(f) + 1
      BY <1>1, SlotMoves
  <2>4. \A f \in Flows : f = flow'[q] => Slots(f)' # 0
      BY <1>a, <2>1, <2>3
  <2> QED BY <2>1, <2>4 DEF Begun, Slots, InHand, queue
<1>2. CASE ~(FrameMissed(q) \/ FrameKept(q))
  <2>1. flow' = flow
      BY <1>2 DEF Lcore, StartLoop, LoopTest, Wake, SendOk, SendFail, ReadStamp, StampTimeout
  <2>2. \A f \in Flows : Slots(f)' = Slots(f)
      BY <1>2, <1>a, SlotMoves
  <2>3. flow'[q] # NoFlow => Slots(flow[q])' # 0
      BY <1>0, <2>1, <2>2 DEF Begun, Slots, InHand, queue
  <2>4. pc'[q] = "for" /\ flow[q] = NoFlow => it_frame'[q] = 1
    <3>1. CASE LoopTest(q)
        BY <1>0, <3>1 DEF LoopTest, Goto, TypeOK
    <3>2. CASE StartLoop(q) \/ Wake(q)
        BY <1>0, <3>2, GotoType DEF StartLoop, Wake
    <3>3. CASE SendOk(q) \/ SendFail(q) \/ ReadStamp(q) \/ StampTimeout(q)
      <4>1. pc[q] \in {"send", "stamp"}
          BY <3>3 DEF SendOk, SendFail, ReadStamp, StampTimeout
      <4> QED BY <4>1, AwaitedFrame, FlowTypes
    <3> QED BY <1>2, <3>1, <3>2, <3>3 DEF Lcore
  <2> QED BY <2>1, <2>3, <2>4 DEF Begun, Slots, InHand, queue
<1> QED BY <1>1, <1>2

LEMMA BegunInductive ==
    ASSUME IInv, Locals, \A q \in Queues : Begun(q), [Next]_vars, NEW p \in Queues
    PROVE  Begun(p)'
<1>0. TypeOK /\ Shape /\ flow[p] \in Flows \cup {NoFlow}
    BY DEF IInv, TypeOK
<1>1. ASSUME NEW q \in Queues, Lcore(q), q # p PROVE Begun(p)'
  <2>1. pc'[p] = pc[p] /\ flow'[p] = flow[p] /\ it_frame'[p] = it_frame[p]
      BY <1>1, OtherLcores
  <2>2. flow[p] # NoFlow => queue(flow[p]) # q
      BY <1>1 DEF Locals, LocalsAt
  <2>3. ASSUME NEW f \in Flows, f = flow[p] PROVE Slots(f)' = Slots(f)
    <3>1. queue(f) # q
        BY <2>2, <2>3, FlowTypes
    <3> QED BY <1>1, <3>1, OtherQueueStep DEF Slots
  <2> QED BY <1>0, <2>1, <2>3 DEF Begun, Slots, InHand, queue
<1>2. CASE LaunchLcore
  <2>1. /\ \A r \in Queues : pc'[r] = pc[r] \/ (pc[r] = "idle" /\ pc'[r] = "start")
        /\ flow' = flow /\ it_frame' = it_frame /\ count' = count
      BY <1>0, <1>2 DEF LaunchLcore, TypeOK, Shape, localVars, statVars
  <2>2. ASSUME flow[p] # NoFlow PROVE InHand(flow[p])' <=> InHand(flow[p])
    <3>1. queue(flow[p]) \in Queues
        BY <1>0, <2>2, FlowTypes
    <3> QED BY <2>1, <3>1 DEF InHand, queue
  <2> QED BY <2>1, <2>2 DEF Begun, Slots
<1>3. CASE SetBaseTime \/ AllLaunched \/ Cleanup \/ Tick \/ Stopped \/ UNCHANGED vars
           \/ \E q \in Queues : NicLaunch(q)
  <2>1. pc' = pc /\ flow' = flow /\ it_frame' = it_frame /\ count' = count
      BY <1>3 DEF SetBaseTime, AllLaunched, Cleanup, Tick, Stopped, NicLaunch, vars,
         localVars, statVars
  <2> QED BY <2>1 DEF Begun, Slots, InHand, queue
<1> QED BY <1>1, <1>2, <1>3, BegunLcore DEF Next, Main

\* The flow that ends the schedule of q.
LastFlow(q) == Order[q][NumFrames(q)]

\* What the lcore has taken from the timer of f for the frame it has in hand, or had last:
\* the software time of that launch time is taken when the next frame begins.
Undated(f) == IF flow[queue(f)] = f THEN period(f) ELSE 0

\* The distance of f's previous software time from its launch time has been recorded.
SoftwareAt(f) ==
    f # LastFlow(queue(f)) =>
        /\ prev_time[f] =>
              AbsInt(swtime[f] - (sche_time[f] - Undated(f))) <= st[f]["delta_sw"].max
        /\ st[f]["jitter_sw"].max <= 2 * st[f]["delta_sw"].max

SoftwareInv == \A f \in Flows : SoftwareAt(f)

\* A second sample of a flow: the launch times are one period apart.
LEMMA JitterOfTwo ==
    ASSUME NEW b \in Nat, NEW a \in Nat, NEW x \in Nat, NEW p \in Nat
    PROVE  Jitter(b, a, p) <= AbsInt(a - x) + AbsInt(b - (x - p))
<1>1. a - x \in Int /\ b - (x - p) \in Int /\ (a - x) - (b - (x - p)) = a - b - p
    OBVIOUS
<1>2. AbsInt((a - x) - (b - (x - p))) <= AbsInt(a - x) + AbsInt(b - (x - p))
    BY <1>1, AbsIntTriangle
<1> QED BY <1>1, <1>2 DEF Jitter

\* The head of the for body, for the flow whose software time it takes.
LEMMA SoftwareDated ==
    ASSUME StatIInv, NEW q \in Queues, Begun(q), FrameMissed(q) \/ FrameKept(q), SampleSoftware(q),
           NEW f, f = FlowPrev(q), SoftwareAt(f)
    PROVE  SoftwareAt(f)'
<1> DEFINE h == FlowHere(q)
           d == Delta(now, txtime[q])
           j == Jitter(swtime[f], now, SampledPeriod(q))
           x == sche_time[f]
<1>0. IInv /\ TypeOK /\ LocalsAt(q) /\ Lcore(q) /\ BeginFrame(q)
    BY DEF StatIInv, IInv, Locals, Lcore, FrameMissed, FrameKept
<1>1. /\ pc[q] = "for" /\ f \in Flows /\ queue(f) = q /\ d \in Nat
      /\ st'[f]["delta_sw"].max = IF count[f].total # 0
             THEN Larger(d, st[f]["delta_sw"].max) ELSE st[f]["delta_sw"].max
      /\ st'[f]["jitter_sw"].max = IF prev_time[f]
             THEN Larger(j, st[f]["jitter_sw"].max) ELSE st[f]["jitter_sw"].max
      /\ swtime'[f] = now
    BY <1>0, SoftwareSample
<1>2. CASE f = LastFlow(q)
    BY <1>1, <1>2 DEF SoftwareAt, LastFlow, NumFrames, queue
<1>3. CASE f # LastFlow(q)
  <2>1. flow[q] = f /\ txtime[q] = x /\ f # NoFlow
    <3>1. it_frame[q] # 1
        BY <1>3 DEF FlowPrev, LastFlow
    <3>2. flow[q] = f /\ f # NoFlow
        BY <1>0, <1>1, <3>1, FlowTypes DEF Begun, LocalsAt
    <3> QED BY <1>0, <3>2 DEF LocalsAt
  <2>2. count[f].total # 0
    <3>1. ~InHand(f) /\ count[f].total \in Nat
        BY <1>0, <1>1 DEF InHand, TypeOK, Counters
    <3> QED BY <2>1, <3>1 DEF Begun, Slots
  <2>3. /\ now \in Nat /\ x \in Nat /\ swtime[f] \in Nat /\ period(f) \in Nat
        /\ st[f]["delta_sw"].max \in Nat /\ st[f]["jitter_sw"].max \in Nat
    <3>1. StatInv /\ "delta_sw" \in Metrics /\ "jitter_sw" \in Metrics
        BY DEF StatIInv, Metrics
    <3>2. swtime[f] \in Nat
        BY <1>1, <3>1 DEF StatInv
    <3> QED BY <1>0, <1>1, <3>1, <3>2, MaximaTypes, FlowTypes DEF TypeOK
  <2>4. d = AbsInt(now - x)
      BY <2>1 DEF Delta
  <2>5. sche_time'[f] - Undated(f)' = x
    <3>1. h \in Flows /\ sche_time' = [sche_time EXCEPT ![h] = @ + period(h)]
          /\ flow' = [flow EXCEPT ![q] = h]
        BY <1>0, <1>1, FlowHereType DEF BeginFrame, inc_flow_timer
    <3>2. flow'[q] = h /\ sche_time'[f] = IF f = h THEN x + period(f) ELSE x
        BY <1>0, <1>1, <3>1 DEF TypeOK
    <3>3. Undated(f)' = IF f = h THEN period(f) ELSE 0
        BY <1>1, <3>2 DEF Undated, queue, period
    <3> QED BY <2>3, <3>2, <3>3
  <2>6. prev_time[f] => j <= d + st[f]["delta_sw"].max
    <3>1. ASSUME prev_time[f] PROVE j <= d + st[f]["delta_sw"].max
      <4>1. AbsInt(swtime[f] - (x - period(f))) <= st[f]["delta_sw"].max
          BY <1>1, <1>3, <2>1, <3>1 DEF SoftwareAt, Undated
      <4>2. j <= AbsInt(now - x) + AbsInt(swtime[f] - (x - period(f)))
          BY <2>1, <2>3, JitterOfTwo DEF SampledPeriod
      <4>3. AbsInt(swtime[f] - (x - period(f))) \in Nat /\ j \in Nat
        <5>1. swtime[f] - (x - period(f)) \in Int /\ now - swtime[f] - period(f) \in Int
            BY <2>3
        <5> QED BY <2>1, <5>1, AbsIntNat DEF Jitter, SampledPeriod
      <4> HIDE DEF j, d, x
      <4> QED BY <1>1, <2>3, <2>4, <4>1, <4>2, <4>3
    <3> QED BY <3>1
  <2>7. st[f]["jitter_sw"].max <= 2 * st[f]["delta_sw"].max
      BY <1>1, <1>3 DEF SoftwareAt
  <2>8. prev_time[f] => j \in Nat
    <3>1. now - swtime[f] - period(f) \in Int
        BY <2>3
    <3> QED BY <2>1, <3>1, AbsIntNat DEF Jitter, SampledPeriod
  <2> HIDE DEF h, d, j, x
  <2>9. st'[f]["delta_sw"].max = Larger(d, st[f]["delta_sw"].max)
      BY <1>1, <2>2
  <2>10. d <= st'[f]["delta_sw"].max
      BY <1>1, <2>3, <2>9 DEF Larger
  <2>11. st'[f]["jitter_sw"].max <= 2 * st'[f]["delta_sw"].max
    <3>1. CASE prev_time[f]
        BY <1>1, <2>3, <2>6, <2>7, <2>8, <2>9, <3>1 DEF Larger
    <3>2. CASE ~prev_time[f]
        BY <1>1, <2>3, <2>7, <2>9, <3>2 DEF Larger
    <3> QED BY <3>1, <3>2
  <2>12. AbsInt(swtime'[f] - (sche_time'[f] - Undated(f)')) <= st'[f]["delta_sw"].max
      BY <1>1, <2>4, <2>5, <2>10
  <2> QED BY <2>11, <2>12 DEF SoftwareAt
<1> QED BY <1>2, <1>3

\* The head of the for body, for the other flows of the queue: the one that is begun moves
\* its timer, and what is undated of it, on together.
LEMMA SoftwareBegun ==
    ASSUME StatIInv, NEW q \in Queues, FrameMissed(q) \/ FrameKept(q), SampleSoftware(q),
           NEW f \in Flows, f # FlowPrev(q), queue(f) = q, SoftwareAt(f)
    PROVE  SoftwareAt(f)'
<1> DEFINE h == FlowHere(q)
<1>0. IInv /\ TypeOK /\ LocalsAt(q) /\ Lcore(q) /\ BeginFrame(q) /\ pc[q] = "for"
    BY DEF StatIInv, IInv, Locals, Lcore, FrameMissed, FrameKept, BeginFrame
<1>1. st'[f] = st[f] /\ swtime'[f] = swtime[f]
    BY <1>0, SoftwareSample
<1>2. flow[q] # f
    BY <1>0, FlowTypes DEF LocalsAt
<1>3. prev_time'[f] = prev_time[f]
    BY <1>0 DEF BeginFrame, TypeOK
<1>4. sche_time'[f] - Undated(f)' = sche_time[f] - Undated(f)
  <2>1. h \in Flows /\ sche_time' = [sche_time EXCEPT ![h] = @ + period(h)]
        /\ flow' = [flow EXCEPT ![q] = h]
      BY <1>0, FlowHereType DEF BeginFrame, inc_flow_timer
  <2>2. flow'[q] = h /\ sche_time'[f] = IF f = h THEN sche_time[f] + period(f) ELSE sche_time[f]
      BY <1>0, <2>1 DEF TypeOK
  <2>3. Undated(f)' = IF f = h THEN period(f) ELSE 0
      BY <2>2 DEF Undated, queue, period
  <2>4. Undated(f) = 0
      BY <1>2 DEF Undated
  <2>5. sche_time[f] \in Nat /\ period(f) \in Nat
      BY <1>0, FlowTypes DEF TypeOK
  <2> QED BY <2>2, <2>3, <2>4, <2>5
<1>5. LastFlow(queue(f))' = LastFlow(queue(f))
    BY DEF LastFlow, NumFrames, queue
<1> QED BY <1>1, <1>3, <1>4, <1>5 DEF SoftwareAt

\* A step without a software sample of f leaves f's timer, its lcore's flow and its times.
LEMMA SoftwareSame ==
    ASSUME NEW f \in Flows, SoftwareAt(f), sche_time'[f] = sche_time[f],
           flow'[queue(f)] = flow[queue(f)], prev_time'[f] = prev_time[f],
           swtime'[f] = swtime[f], st'[f]["delta_sw"] = st[f]["delta_sw"],
           st'[f]["jitter_sw"] = st[f]["jitter_sw"]
    PROVE  SoftwareAt(f)'
BY DEF SoftwareAt, Undated, LastFlow, NumFrames, queue, period

LEMMA SoftwareInit == StatInit => SoftwareInv
<1> SUFFICES ASSUME StatInit, NEW f \in Flows PROVE SoftwareAt(f)
    BY DEF SoftwareInv
<1>1. ~prev_time[f]
    BY DEF StatInit, Init
<1>2. st[f]["jitter_sw"].max = 0 /\ st[f]["delta_sw"].max = 0
    BY DEF StatInit, Metrics
<1> QED BY <1>1, <1>2 DEF SoftwareAt

\* A step that takes no software sample.
LEMMA SoftwareOther ==
    ASSUME StatIInv, SoftwareInv, [StatNext]_<<vars, records, stamp_at>>,
           ~\E q \in Queues : (FrameMissed(q) \/ FrameKept(q)) /\ SampleSoftware(q),
           NEW f \in Flows
    PROVE  SoftwareAt(f)'
<1>0. IInv /\ SoftwareAt(f) /\ TypeOK /\ Locals
    BY DEF StatIInv, IInv, SoftwareInv
<1>1. /\ swtime' = swtime
      /\ st'[f]["delta_sw"] = st[f]["delta_sw"] /\ st'[f]["jitter_sw"] = st[f]["jitter_sw"]
  <2>1. CASE UNCHANGED records
      BY <2>1 DEF records
  <2>2. ASSUME NEW q \in Queues, ReadStamp(q), SampleHardware(q)
        PROVE  /\ swtime' = swtime
               /\ st'[f]["delta_sw"] = st[f]["delta_sw"]
               /\ st'[f]["jitter_sw"] = st[f]["jitter_sw"]
      BY <2>2, HardwareSample
  <2> QED BY <2>1, <2>2, NoSample
<1>2. CASE SetBaseTime
  <2>1. main = "setup" /\ prev_time' = prev_time /\ queue(f) \in Queues
      BY <1>2, FlowTypes DEF SetBaseTime, localVars
  <2>2. pc[queue(f)] = "idle"
      BY <1>0, <2>1 DEF IInv, Shape
  <2>3. ~prev_time[f]
      BY <1>0, <2>1, <2>2 DEF Locals, LocalsAt
  <2> QED BY <1>0, <1>1, <2>1, <2>3 DEF SoftwareAt, LastFlow, NumFrames, queue
<1>3. CASE ~SetBaseTime
  <2>1. sche_time' = sche_time /\ flow' = flow /\ prev_time' = prev_time
      BY <1>3 DEF StatNext, StatLcore, StatLaunch, Main, LaunchLcore, AllLaunched,
         Cleanup, Tick, Stopped, NicLaunch, StartLoop, LoopTest, Wake, SendOk, SendFail, ReadStamp,
         PatientTimeout, StampTimeout, vars, localVars
  <2> QED BY <1>0, <1>1, <2>1, SoftwareSame
<1> QED BY <1>2, <1>3

LEMMA SoftwareInductive ==
    ASSUME StatIInv, SoftwareInv, \A q \in Queues : Begun(q), [StatNext]_<<vars, records, stamp_at>>
    PROVE  SoftwareInv'
<1> SUFFICES ASSUME NEW f \in Flows PROVE SoftwareAt(f)'
    BY DEF SoftwareInv
<1>0. IInv /\ SoftwareAt(f) /\ TypeOK
    BY DEF StatIInv, IInv, SoftwareInv
<1>1. ASSUME NEW q \in Queues, FrameMissed(q) \/ FrameKept(q), SampleSoftware(q)
      PROVE  SoftwareAt(f)'
  <2>1. Lcore(q) /\ BeginFrame(q) /\ pc[q] # "idle"
      BY <1>1 DEF Lcore, FrameMissed, FrameKept, BeginFrame
  <2>2. CASE f = FlowPrev(q)
      BY <1>0, <1>1, <2>2, SoftwareDated
  <2>3. CASE f # FlowPrev(q) /\ queue(f) = q
      BY <1>0, <1>1, <2>3, SoftwareBegun
  <2>4. CASE queue(f) # q
    <3>1. sche_time'[f] = sche_time[f]
        BY <1>0, <2>1, <2>4, OtherQueueStep
    <3>2. queue(f) \in Queues \ {q} /\ FlowPrev(q) # f
        BY <1>0, <2>1, <2>4, FlowTypes, FlowHereType
    <3>3. flow'[queue(f)] = flow[queue(f)]
        BY <1>0, <2>1, <3>2, OtherLcores
    <3>4. prev_time'[f] = prev_time[f]
        BY <1>0, <2>1, <3>2 DEF BeginFrame, TypeOK
    <3>5. st'[f] = st[f] /\ swtime'[f] = swtime[f]
        BY <1>1, <2>1, <3>2, SoftwareSample
    <3> QED BY <1>0, <3>1, <3>3, <3>4, <3>5, SoftwareSame
  <2> QED BY <2>2, <2>3, <2>4
<1> QED BY <1>1, SoftwareOther

\* The software jitter of a flow, but for the last one of a schedule, is no more than twice
\* the distance of its frames from their launch times, however many of them are missed, whatever the load and however wide
\* an int is: two times compared are of launch times one period apart, and truncating the
\* difference to an int truncates the two distances with it.
THEOREM SoftwareJitterBounded == StatSpec => []SoftwareJitterExplained
<1>1. SoftwareInv => SoftwareJitterExplained
    BY DEF SoftwareInv, SoftwareAt, SoftwareJitterExplained, LastFlow
<1>2. StatInit => Init
    BY DEF StatInit
<1>3. StatIInv => IInv /\ Locals
    BY DEF StatIInv
<1> DEFINE AllBegun == \A q \in Queues : Begun(q)
<1>4. Init => AllBegun
    BY BegunInit
<1>5. IInv /\ Locals /\ AllBegun /\ [Next]_vars => AllBegun'
    BY BegunInductive
<1>6. StatIInv /\ SoftwareInv /\ AllBegun /\ [StatNext]_<<vars, records, stamp_at>> => SoftwareInv'
    BY SoftwareInductive
<1> HIDE DEF AllBegun
<1> QED
    BY <1>1, <1>2, <1>3, <1>4, <1>5, <1>6, StatIInvHolds, SoftwareInit, StatIsNext, PTL DEF StatSpec

-----------------------------------------------------------------------------
(* The hardware times that are compared.                                   *)

\* Apart from its records a step is one of TxLoopTimely's patient loop.
LEMMA StatIsPatient == [StatNext]_<<vars, records, stamp_at>> => [PatientNext]_vars
BY DEF StatNext, StatLcore, StatLaunch, PatientNext, PatientLcore

\* No stamped frame left early, and none whose time is a flow's previous one left further
\* from its launch time than the flow's record says.
HardwareAt(f) ==
    /\ prev_hwtime[f] # NoFrame =>
          /\ hwtime[f] - prev_hwtime[f].txtime \in 0 .. st[f]["delta_hw"].max
          /\ hwtime[f] - prev_hwtime[f].txtime < INT_HALF
    /\ st[f]["jitter_hw"].max <= st[f]["delta_hw"].max

HardwareInv ==
    /\ stamp # NoFrame => stamp_at >= stamp.txtime
    /\ \A f \in Flows : HardwareAt(f)

\* What an int can hold it keeps.
LEMMA AbsIntSmall ==
    ASSUME NEW x \in Int, -INT_HALF <= x, x < INT_HALF
    PROVE  AbsInt(x) = Magnitude(x)
<1> DEFINE M == 2 * INT_HALF
           y == x + INT_HALF
<1>1. M \in Nat \ {0} /\ y \in Int /\ 0 <= y /\ y < M
    BY IntAssumption
<1>2. y % M = y
  <2> HIDE DEF y, M
  <2> QED BY <1>1
<1>3. y - INT_HALF = x
    BY IntAssumption
<1>4. AbsInt(x) = IF (y % M) - INT_HALF < 0 THEN -((y % M) - INT_HALF) ELSE (y % M) - INT_HALF
    BY DEF AbsInt
<1> HIDE DEF y, M
<1> QED BY <1>2, <1>3, <1>4 DEF Magnitude

LEMMA HardwareInit == StatInit => HardwareInv
<1> SUFFICES ASSUME StatInit PROVE HardwareInv
    OBVIOUS
<1>1. stamp = NoFrame /\ \A f \in Flows : prev_hwtime[f] = NoFrame
    BY DEF StatInit, Init
<1>2. \A f \in Flows : st[f]["jitter_hw"].max = 0 /\ st[f]["delta_hw"].max = 0
    BY DEF StatInit, Metrics
<1> QED BY <1>1, <1>2 DEF HardwareInv, HardwareAt

\* Two hardware times: both frames left after their launch times, and the later launch time
\* is one period after the earlier.
LEMMA JitterOfStamps ==
    ASSUME NEW b \in Nat, NEW a \in Nat, NEW x \in Nat, NEW p \in Nat, NEW m \in Nat,
           a - x \in 0 .. m, a - x < INT_HALF,
           b - (x - p) \in 0 .. m, b - (x - p) < INT_HALF
    PROVE  Jitter(b, a, p) <= m
<1> DEFINE e == a - b - p
<1>1. e \in Int /\ e = (a - x) - (b - (x - p)) /\ INT_HALF \in Nat
    BY IntAssumption
<1>2. -INT_HALF <= e /\ e < INT_HALF /\ -m <= e /\ e <= m
    BY <1>1
<1> HIDE DEF e
<1>3. AbsInt(e) = Magnitude(e)
    BY <1>1, <1>2, AbsIntSmall
<1>4. Magnitude(e) <= m
    BY <1>1, <1>2 DEF Magnitude
<1> QED BY <1>3, <1>4 DEF Jitter, e

\* The stamp that is read is of the frame just sent.
LEMMA HardwareRead ==
    ASSUME PIT_HW, OneQueue, StatIInv, Card, History, SamplesFit, HardwareInv,
           NEW q \in Queues, ReadStamp(q), SampleHardware(q), NEW f \in Flows
    PROVE  HardwareAt(f)'
<1> DEFINE g == flow[q]
           x == txtime[q]
           d == Delta(stamp_at, x)
           j == Jitter(hwtime[g], stamp_at, period(g))
           m == st'[g]["delta_hw"].max
<1>0. /\ IInv /\ TypeOK /\ CardAt(q) /\ LocalsAt(q) /\ HardwareAt(f) /\ HardwareAt(g)
      /\ pc[q] = "stamp" /\ stamp # NoFrame
      /\ prev_hwtime' = [prev_hwtime EXCEPT ![g] = stamp]
  <2>1. IInv /\ pc[q] = "stamp" /\ stamp # NoFrame
        /\ prev_hwtime' = [prev_hwtime EXCEPT ![g] = stamp]
      BY DEF StatIInv, ReadStamp
  <2>2. g \in Flows
      BY <2>1, AwaitedFrame
  <2> QED BY <2>1, <2>2 DEF StatIInv, IInv, Card, Locals, HardwareInv
<1>1. /\ g \in Flows /\ queue(g) = q /\ d \in Nat
      /\ st'[g]["delta_hw"].max = Larger(d, st[g]["delta_hw"].max)
      /\ st'[g]["jitter_hw"].max = IF prev_hwtime[g] # NoFrame
             THEN Larger(j, st[g]["jitter_hw"].max) ELSE st[g]["jitter_hw"].max
      /\ hwtime'[g] = stamp_at
      /\ \A h \in Flows \ {g} : st'[h] = st[h] /\ hwtime'[h] = hwtime[h]
    BY HardwareSample
<1>2. CASE f # g
  <2>1. prev_hwtime'[f] = prev_hwtime[f] /\ st'[f] = st[f] /\ hwtime'[f] = hwtime[f]
      BY <1>0, <1>1, <1>2 DEF TypeOK
  <2> QED BY <1>0, <2>1 DEF HardwareAt
<1>3. CASE f = g
  <2>1. /\ stamp = Awaited(q) /\ stamp.txtime = x /\ prev_hwtime'[g] = stamp
        /\ stamp_at >= x /\ stamp_at - x < INT_HALF
    <3>1. stamp = Awaited(q)
        BY <1>0 DEF CardAt
    <3>2. stamp.txtime = x
        BY <3>1 DEF Awaited
    <3>3. prev_hwtime'[g] = stamp
        BY <1>0, <1>1 DEF TypeOK
    <3> QED BY <1>0, <3>1, <3>2, <3>3 DEF HardwareInv, SamplesFit
  <2>2. /\ stamp_at \in Nat /\ x \in Nat /\ hwtime[g] \in Nat /\ period(g) \in Nat
        /\ st[g]["delta_hw"].max \in Nat /\ st[g]["jitter_hw"].max \in Nat
        /\ INT_HALF \in Nat
    <3>1. StatInv /\ "delta_hw" \in Metrics /\ "jitter_hw" \in Metrics
        BY DEF StatIInv, Metrics
    <3>2. hwtime[g] \in Nat /\ stamp_at \in Nat
        BY <1>1, <3>1 DEF StatInv
    <3>3. x \in Nat
        BY <1>0 DEF TypeOK
    <3> QED BY <1>1, <3>1, <3>2, <3>3, MaximaTypes, FlowTypes, IntAssumption
  <2>3. d = stamp_at - x
    <3>1. stamp_at - x \in Int /\ 0 <= stamp_at - x
        BY <2>1, <2>2
    <3>2. AbsInt(stamp_at - x) = Magnitude(stamp_at - x)
        BY <2>1, <2>2, <3>1, AbsIntSmall
    <3> QED BY <3>1, <3>2 DEF Delta, Magnitude
  <2>4. m \in Nat /\ d <= m /\ st[g]["delta_hw"].max <= m
      BY <1>1, <2>2 DEF Larger
  <2>5. stamp_at - x \in 0 .. m
      BY <2>1, <2>2, <2>3, <2>4
  <2>6. prev_hwtime[g] # NoFrame => j \in Nat /\ j <= m
    <3> SUFFICES ASSUME prev_hwtime[g] # NoFrame PROVE j \in Nat /\ j <= m
        OBVIOUS
    <3>1. prev_hwtime[g].txtime = sche_time[g] - period(g)
        BY <1>0, <1>1 DEF History, Pending
    <3>2. x = sche_time[g]
        BY <1>0, <1>1, FlowTypes DEF LocalsAt
    <3>3. /\ hwtime[g] - prev_hwtime[g].txtime \in 0 .. st[g]["delta_hw"].max
          /\ hwtime[g] - prev_hwtime[g].txtime < INT_HALF
        BY <1>0 DEF HardwareAt
    <3>4. hwtime[g] - (x - period(g)) \in 0 .. st[g]["delta_hw"].max
          /\ hwtime[g] - (x - period(g)) < INT_HALF
        BY <3>1, <3>2, <3>3
    <3>5. hwtime[g] - (x - period(g)) \in 0 .. m
        BY <2>2, <2>4, <3>4
    <3>6. j <= m
        BY <2>1, <2>2, <2>4, <2>5, <3>4, <3>5, JitterOfStamps
    <3>7. stamp_at - hwtime[g] - period(g) \in Int
        BY <2>2
    <3> QED BY <3>6, <3>7, AbsIntNat DEF Jitter
  <2>7. st'[g]["jitter_hw"].max <= m
    <3>1. st[g]["jitter_hw"].max <= m
        BY <1>0, <2>2, <2>4 DEF HardwareAt
    <3> HIDE DEF j, m
    <3> QED BY <1>1, <2>6, <3>1 DEF Larger
  <2> QED BY <1>1, <1>3, <2>1, <2>5, <2>7 DEF HardwareAt
<1> QED BY <1>2, <1>3

\* A step that reads no stamp keeps f's time, or forgets it.
LEMMA HardwareSame ==
    ASSUME NEW f \in Flows, HardwareAt(f),
           prev_hwtime'[f] = prev_hwtime[f] \/ prev_hwtime'[f] = NoFrame,
           hwtime'[f] = hwtime[f], st'[f]["delta_hw"] = st[f]["delta_hw"],
           st'[f]["jitter_hw"] = st[f]["jitter_hw"]
    PROVE  HardwareAt(f)'
BY DEF HardwareAt

LEMMA HardwareInductive ==
    ASSUME PIT_HW, OneQueue, StatIInv, Card, History, SamplesFit, HardwareInv,
           [StatNext]_<<vars, records, stamp_at>>
    PROVE  HardwareInv'
<1>0. IInv /\ TypeOK
    BY DEF StatIInv, IInv
<1>1. ASSUME NEW f \in Flows PROVE HardwareAt(f)'
  <2>1. CASE \E q \in Queues : ReadStamp(q) /\ SampleHardware(q)
      BY <2>1, HardwareRead
  <2>2. CASE ~\E q \in Queues : ReadStamp(q) /\ SampleHardware(q)
    <3>1. /\ hwtime' = hwtime
          /\ st'[f]["delta_hw"] = st[f]["delta_hw"] /\ st'[f]["jitter_hw"] = st[f]["jitter_hw"]
      <4>1. CASE UNCHANGED records
          BY <4>1 DEF records
      <4>2. ASSUME NEW q \in Queues, BeginFrame(q), SampleSoftware(q)
            PROVE  /\ hwtime' = hwtime
                   /\ st'[f]["delta_hw"] = st[f]["delta_hw"]
                   /\ st'[f]["jitter_hw"] = st[f]["jitter_hw"]
          BY <4>2, SoftwareSample
      <4> QED BY <2>2, <4>1, <4>2, NoSample DEF FrameMissed, FrameKept
    <3>2. \/ prev_hwtime' = prev_hwtime
          \/ \E g : prev_hwtime' = [prev_hwtime EXCEPT ![g] = NoFrame]
        BY <2>2 DEF StatNext, StatLcore, StatLaunch, Main, SetBaseTime, LaunchLcore, AllLaunched,
           Cleanup, Tick, Stopped, NicLaunch, StartLoop, LoopTest, Wake, SendOk, SendFail,
           FrameMissed, FrameKept, ForgetStamp, PatientTimeout, StampTimeout, vars, localVars
    <3>3. prev_hwtime'[f] = prev_hwtime[f] \/ prev_hwtime'[f] = NoFrame
        BY <1>0, <3>2 DEF TypeOK
    <3>4. HardwareAt(f)
        BY DEF HardwareInv
    <3> QED BY <3>1, <3>3, <3>4, HardwareSame
  <2> QED BY <2>1, <2>2
<1>2. stamp' # NoFrame => stamp_at' >= stamp'.txtime
  <2>1. ASSUME NEW q \in Queues, StatLaunch(q)
        PROVE  stamp' # NoFrame => stamp_at' >= stamp'.txtime
    <3>1. now >= Head(ring[q]).txtime
        BY <2>1 DEF StatLaunch, NicLaunch, OffloadFlags
    <3>2. stamp' = stamp \/ stamp' = Head(ring[q])
        BY <2>1 DEF StatLaunch, NicLaunch
    <3>3. stamp_at' = IF stamp' # stamp THEN now ELSE stamp_at
        BY <2>1 DEF StatLaunch
    <3> QED BY <3>1, <3>2, <3>3 DEF HardwareInv
  <2>2. ASSUME ~\E q \in Queues : StatLaunch(q)
        PROVE  stamp' # NoFrame => stamp_at' >= stamp'.txtime
    <3>1. stamp_at' = stamp_at
        BY <2>2 DEF StatNext, StatLcore, SampleSoftware, SampleHardware
    <3>2. stamp' = stamp \/ stamp' = NoFrame
        BY <2>2 DEF StatNext, StatLcore, Main, SetBaseTime, LaunchLcore, AllLaunched,
           Cleanup, Tick, Stopped, StartLoop, LoopTest, Wake, SendOk, SendFail, ReadStamp,
           FrameMissed, FrameKept, PatientTimeout, StampTimeout, vars, nicVars
    <3> QED BY <3>1, <3>2 DEF HardwareInv
  <2> QED BY <2>1, <2>2
<1> QED BY <1>1, <1>2 DEF HardwareInv

\* The hardware jitter a flow reports is no more than the distance of one of its frames from
\* its launch time, on one queue with hardware times, as long as an int holds the distances;
\* beyond that the two distances may be truncated to either side.
THEOREM HardwareJitterBounded ==
    ASSUME PIT_HW, OneQueue
    PROVE  StatSpec /\ []SamplesFit => []HardwareJitterExplained
<1>1. HardwareInv => HardwareJitterExplained
    BY DEF HardwareInv, HardwareAt, HardwareJitterExplained
<1>2. StatInit => Init
    BY DEF StatInit
<1>3. StatIInv => IInv /\ Locals
    BY DEF StatIInv
<1>4. StatIInv /\ Card /\ History /\ SamplesFit /\ HardwareInv
          /\ [StatNext]_<<vars, records, stamp_at>> => HardwareInv'
    BY HardwareInductive
<1> QED
    BY <1>1, <1>2, <1>3, <1>4, StatIInvHolds, CardInit, CardInductive, HistoryInit,
       HistoryInductive, HardwareInit, StatIsPatient, PTL DEF StatSpec
=============================================================================
