---------------------------- MODULE TxLoopProofs ----------------------------
(***************************************************************************)
(* Theorems about TxLoop, for every flow table, schedule and parameter.    *)
(***************************************************************************)
EXTENDS TxLoop, TLAPS

\* How the program counters, positions and locals fit together.
Shape ==
    /\ main = "setup" => /\ base_time = 0
                         /\ sche_time = [f \in Flows |-> 0]
                         /\ now = Start
    /\ \A q \in Queues : next_queue <= q \/ main = "setup" => pc[q] = "idle"
    /\ \A q \in Queues : pc[q] = "idle" => it_frame[q] = 1
    /\ \A q \in Queues : pc[q] \in {"sleep", "send", "stamp"} => flow[q] = FlowHere(q)

IInv == TypeOK /\ Shape

-----------------------------------------------------------------------------

\* A schedule names flows of its own queue.
LEMMA ScheduledFlow ==
    ASSUME NEW q \in Queues, NEW i \in 1 .. NumFrames(q)
    PROVE  Order[q][i] \in Flows /\ queue(Order[q][i]) = q
BY OrderAssumption DEF NumFrames, queue

\* The parameters of a flow, and the base time, are natural numbers.
LEMMA FlowTypes ==
    ASSUME NEW f \in Flows
    PROVE  /\ queue(f) \in Queues
           /\ period(f) \in Nat \ {0}
           /\ offset(f) \in Nat
           /\ delta(f) \in Nat
           /\ f # NoFlow
BY FlowAssumption DEF queue, period, offset, delta

LEMMA DivNat ==
    ASSUME NEW a \in Nat, NEW b \in Nat \ {0}
    PROVE  a \div b \in Nat
OBVIOUS

LEMMA BaseTimeNat == ASSUME NEW t \in Nat PROVE BaseTime(t) \in Nat
BY DivNat, ParameterAssumption DEF BaseTime

\* One more outcome keeps a record of counters a record of counters.
LEMMA CountedType ==
    ASSUME NEW c \in Counters, NEW m \in BOOLEAN, NEW d \in BOOLEAN
    PROVE  Counted(c, m, d) \in Counters
BY DEF Counted, Counters

\* A jump of one lcore touches its own program counter only.
LEMMA GotoType ==
    ASSUME TypeOK, NEW q \in Queues, NEW label, Goto(q, label),
           label \in {"while", "for", "sleep", "send", "stamp", "done"}
    PROVE  /\ pc' \in [Queues -> {"idle", "start", "while", "for", "sleep", "send",
                                  "stamp", "done"}]
           /\ pc'[q] = label
           /\ \A p \in Queues \ {q} : pc'[p] = pc[p]
BY DEF TypeOK, Goto

\* A step of one lcore that leaves the others and main() alone keeps the shape.
LEMMA LcoreShape ==
    ASSUME TypeOK, Shape, NEW q \in Queues, pc[q] # "idle", UNCHANGED mainVars,
           pc'[q] \in {"while", "for", "sleep", "send", "stamp", "done"},
           \A p \in Queues \ {q} :
                pc'[p] = pc[p] /\ it_frame'[p] = it_frame[p] /\ flow'[p] = flow[p],
           pc'[q] \in {"sleep", "send", "stamp"} => flow'[q] = Order[q][it_frame'[q]]
    PROVE  Shape'
<1>1. main # "setup" /\ main' # "setup"
    BY DEF Shape, mainVars
<1>2. ~(next_queue <= q)
    BY DEF Shape
<1>3. ASSUME NEW p \in Queues
      PROVE  /\ next_queue' <= p \/ main' = "setup" => pc'[p] = "idle"
             /\ pc'[p] = "idle" => it_frame'[p] = 1
             /\ pc'[p] \in {"sleep", "send", "stamp"} => flow'[p] = Order[p][it_frame'[p]]
  <2>1. CASE p = q
      BY <1>1, <1>2, <2>1 DEF mainVars
  <2>2. CASE p # q
      BY <1>1, <2>2 DEF mainVars, Shape, FlowHere
  <2> QED BY <2>1, <2>2
<1> QED
    BY <1>1, <1>3 DEF Shape, FlowHere

\* The frames a queue's lcore handles, position by position.
LEMMA FlowHereType ==
    ASSUME TypeOK, NEW q \in Queues, pc[q] # "idle"
    PROVE  /\ FlowHere(q) \in Flows /\ queue(FlowHere(q)) = q
           /\ FlowPrev(q) \in Flows /\ queue(FlowPrev(q)) = q
<1>1. it_frame[q] \in 1 .. NumFrames(q) /\ NumFrames(q) \in Nat
    BY OrderAssumption DEF TypeOK, NumFrames
<1>2. NumFrames(q) \in 1 .. NumFrames(q)
    BY <1>1
<1>3. it_frame[q] # 1 => it_frame[q] - 1 \in 1 .. NumFrames(q)
    BY <1>1
<1> QED
    BY <1>1, <1>2, <1>3, ScheduledFlow DEF FlowHere, FlowPrev

\* update_nums keeps the counters typed.
LEMMA UpdateNumsType ==
    ASSUME TypeOK, NEW q \in Queues, NEW f \in Flows,
           NEW m \in BOOLEAN, NEW d \in BOOLEAN, update_nums(q, f, m, d)
    PROVE  count' \in [Flows -> Counters] /\ core' \in [Queues -> Counters]
BY CountedType DEF TypeOK, update_nums

\* NextFrame leads to the while test or to a position of the schedule.
LEMMA NextFrameType ==
    ASSUME TypeOK, Shape, NEW q \in Queues, pc[q] # "idle", NextFrame(q)
    PROVE  /\ pc' \in [Queues -> {"idle", "start", "while", "for", "sleep", "send",
                                  "stamp", "done"}]
           /\ pc'[q] \in {"while", "for"}
           /\ \A p \in Queues \ {q} : pc'[p] = pc[p] /\ it_frame'[p] = it_frame[p]
           /\ it_frame' \in [Queues -> Nat]
           /\ it_frame'[q] \in 1 .. NumFrames(q)
<1>1. it_frame[q] \in 1 .. NumFrames(q) /\ NumFrames(q) \in Nat
    BY OrderAssumption DEF TypeOK, NumFrames
<1>2. CASE it_frame[q] = NumFrames(q)
  <2>1. Goto(q, "while") /\ it_frame' = it_frame
      BY <1>2 DEF NextFrame
  <2> QED
      BY <1>1, <2>1, GotoType DEF TypeOK
<1>3. CASE it_frame[q] # NumFrames(q)
  <2>1. it_frame[q] + 1 \in 1 .. NumFrames(q)
      BY <1>1, <1>3
  <2>2. Goto(q, "for") /\ it_frame' = [it_frame EXCEPT ![q] = @ + 1]
      BY <1>3 DEF NextFrame
  <2>3. /\ it_frame' \in [Queues -> Nat]
        /\ it_frame'[q] = it_frame[q] + 1
        /\ \A p \in Queues \ {q} : it_frame'[p] = it_frame[p]
      BY <2>2 DEF TypeOK
  <2> QED
      BY <2>1, <2>2, <2>3, GotoType
<1> QED
    BY <1>2, <1>3

LEMMA InitIInv == Init => IInv
<1> SUFFICES ASSUME Init PROVE TypeOK /\ Shape
    BY DEF IInv
<1>1. TypeOK
    BY ParameterAssumption DEF Init, TypeOK, InitCounters, Counters
<1>2. Shape
    BY DEF Init, Shape
<1> QED BY <1>1, <1>2

\* The steps of main(), of the card and of the clock.
LEMMA MainTyped ==
    ASSUME TypeOK, Shape, Main \/ Tick \/ Stopped \/ \E q \in Queues : NicLaunch(q)
    PROVE  TypeOK' /\ Shape'
<1>1. CASE SetBaseTime
  <2>1. base_time' \in Nat
      BY <1>1, BaseTimeNat DEF SetBaseTime, TypeOK
  <2>2. sche_time' \in [Flows -> Nat]
      BY <1>1, <2>1, FlowTypes DEF SetBaseTime
  <2> QED
      BY <1>1, <2>1, <2>2 DEF SetBaseTime, TypeOK, Shape, localVars, statVars, nicVars,
         NumFrames, FlowHere
<1>2. CASE LaunchLcore
  <2>1. NumFrames(next_queue) \in Nat
      BY <1>2, OrderAssumption DEF LaunchLcore, NumFrames
  <2>2. pc[next_queue] = "idle" /\ it_frame[next_queue] = 1
      BY <1>2, OrderAssumption DEF LaunchLcore, Shape
  <2>3. pc' \in [Queues -> {"idle", "start", "while", "for", "sleep", "send", "stamp", "done"}]
      BY <1>2 DEF LaunchLcore, TypeOK
  <2>4. \A q \in Queues : \/ pc'[q] = pc[q]
                          \/ q = next_queue /\ pc'[q] = "start" /\ NumFrames(q) # 0
      BY <1>2 DEF LaunchLcore, TypeOK
  <2>5. \A q \in Queues : pc'[q] # "idle" => it_frame[q] \in 1 .. NumFrames(q)
      BY <2>1, <2>2, <2>4 DEF TypeOK
  <2>6. TypeOK'
    <3>1. /\ main' = main /\ next_queue' = next_queue + 1 /\ next_queue \in Nat
          /\ UNCHANGED <<now, base_time, sche_time, localVars, statVars, nicVars>>
        BY <1>2 DEF LaunchLcore, TypeOK
    <3>2. next_queue' \in Nat
        BY <3>1
    <3>3. \A q \in Queues : pc'[q] # "idle" => it_frame'[q] \in 1 .. NumFrames(q)
        BY <2>5, <3>1 DEF localVars
    <3> QED
        BY <2>3, <3>1, <3>2, <3>3 DEF TypeOK, localVars, statVars, nicVars, NumFrames
  <2>7. Shape'
      BY <1>2, <2>4, OrderAssumption DEF LaunchLcore, TypeOK, Shape, localVars, FlowHere
  <2> QED BY <2>6, <2>7
<1>3. CASE AllLaunched
    BY <1>3 DEF AllLaunched, TypeOK, Shape, localVars, statVars, nicVars, NumFrames, FlowHere
<1>4. CASE Cleanup
    BY <1>4 DEF Cleanup, TypeOK, Shape, localVars, statVars, NumFrames, FlowHere
<1>5. CASE Tick
    BY <1>5 DEF Tick, TypeOK, Shape, mainVars, localVars, statVars, nicVars, NumFrames, FlowHere
<1>6. CASE Stopped
    BY <1>6 DEF Stopped, vars, TypeOK, Shape, mainVars, localVars, statVars, nicVars,
       NumFrames, FlowHere
<1>7. ASSUME NEW q \in Queues, NicLaunch(q) PROVE TypeOK' /\ Shape'
  <2>1. Head(ring[q]) \in Frame /\ Tail(ring[q]) \in Seq(Frame)
      BY <1>7 DEF NicLaunch, TypeOK
  <2>2. ring' \in [Queues -> Seq(Frame)] /\ stamp' \in Frame \cup {NoFrame}
      BY <1>7, <2>1 DEF NicLaunch, TypeOK
  <2> QED
      BY <1>7, <2>2 DEF NicLaunch, TypeOK, Shape, mainVars, localVars, statVars,
         NumFrames, FlowHere
<1> QED BY <1>1, <1>2, <1>3, <1>4, <1>5, <1>6, <1>7 DEF Main

\* The steps of an lcore.
LEMMA LcoreTyped ==
    ASSUME TypeOK, Shape, NEW q \in Queues, Lcore(q)
    PROVE  TypeOK' /\ Shape'
<1>0. pc[q] # "idle"
    BY DEF Lcore, StartLoop, LoopTest, BeginFrame, FrameMissed, FrameKept, Wake, SendOk,
       SendFail, ReadStamp, StampTimeout
<1>1. CASE StartLoop(q)
  <2>1. Goto(q, "while")
      BY <1>1 DEF StartLoop
  <2>2. TypeOK'
      BY <1>0, <1>1, <2>1, GotoType
         DEF StartLoop, ReadClock, TypeOK, mainVars, statVars, nicVars, NumFrames
  <2>3. Shape'
      BY <1>0, <1>1, <2>1, GotoType, LcoreShape DEF StartLoop
  <2> QED BY <2>2, <2>3
<1>2. CASE LoopTest(q)
  <2>1. NumFrames(q) \in Nat /\ 1 \in 1 .. NumFrames(q)
      BY <1>0, OrderAssumption DEF TypeOK, NumFrames
  <2>2. \/ Goto(q, "for") /\ it_frame' = [it_frame EXCEPT ![q] = 1]
        \/ Goto(q, "done") /\ it_frame' = it_frame
      BY <1>2 DEF LoopTest
  <2>3. /\ pc' \in [Queues -> {"idle", "start", "while", "for", "sleep", "send", "stamp",
                               "done"}]
        /\ pc'[q] \in {"for", "done"}
        /\ \A p \in Queues \ {q} : pc'[p] = pc[p] /\ it_frame'[p] = it_frame[p]
        /\ it_frame' \in [Queues -> Nat]
        /\ it_frame'[q] \in 1 .. NumFrames(q)
    <3>1. CASE Goto(q, "for") /\ it_frame' = [it_frame EXCEPT ![q] = 1]
      <4>1. /\ it_frame' \in [Queues -> Nat]
            /\ it_frame'[q] = 1
            /\ \A p \in Queues \ {q} : it_frame'[p] = it_frame[p]
          BY <3>1 DEF TypeOK
      <4> QED
          BY <2>1, <3>1, <4>1, GotoType
    <3>2. CASE Goto(q, "done") /\ it_frame' = it_frame
        BY <1>0, <3>2, GotoType DEF TypeOK
    <3> QED BY <2>2, <3>1, <3>2
  <2>4. TypeOK'
      BY <1>0, <1>2, <2>3 DEF LoopTest, TypeOK, mainVars, statVars, nicVars, NumFrames
  <2>5. Shape'
      BY <1>0, <1>2, <2>3, LcoreShape DEF LoopTest
  <2> QED BY <2>4, <2>5
<1>3. ASSUME BeginFrame(q)
      PROVE  /\ current_time' \in [Queues -> Nat]
             /\ prev_time' \in [Flows -> BOOLEAN]
             /\ flow' \in [Queues -> Flows \cup {NoFlow}]
             /\ sche_time' \in [Flows -> Nat]
             /\ txtime' \in [Queues -> Nat]
             /\ flow'[q] = FlowHere(q)
             /\ \A p \in Queues \ {q} : flow'[p] = flow[p]
  <2>1. FlowHere(q) \in Flows /\ FlowPrev(q) \in Flows
      BY <1>0, FlowHereType
  <2>2. sche_time' \in [Flows -> Nat]
    <3>1. sche_time' = [sche_time EXCEPT ![FlowHere(q)] = @ + period(FlowHere(q))]
        BY <1>3 DEF BeginFrame, inc_flow_timer
    <3>2. sche_time \in [Flows -> Nat]
        BY DEF TypeOK
    <3>3. period(FlowHere(q)) \in Nat
        BY <2>1, FlowTypes
    <3> QED BY <2>1, <3>1, <3>2, <3>3
  <2>3. /\ current_time' = [current_time EXCEPT ![q] = now]
        /\ prev_time' = [prev_time EXCEPT ![FlowPrev(q)] = TRUE]
        /\ flow' = [flow EXCEPT ![q] = FlowHere(q)]
        /\ txtime' = [txtime EXCEPT ![q] = sche_time'[FlowHere(q)]]
      BY <1>3 DEF BeginFrame, ReadClock
  <2>4. /\ current_time \in [Queues -> Nat] /\ now \in Nat
        /\ prev_time \in [Flows -> BOOLEAN]
        /\ flow \in [Queues -> Flows \cup {NoFlow}]
        /\ txtime \in [Queues -> Nat]
      BY DEF TypeOK
  <2> QED
      BY <2>1, <2>2, <2>3, <2>4
<1>4. CASE FrameMissed(q)
  <2>1. FlowHere(q) \in Flows
      BY <1>0, FlowHereType
  <2>2. count' \in [Flows -> Counters] /\ core' \in [Queues -> Counters]
      BY <1>4, <2>1, UpdateNumsType DEF FrameMissed
  <2>3. prev_hwtime' \in [Flows -> Frame \cup {NoFrame}]
      BY <1>4 DEF FrameMissed, ForgetStamp, TypeOK
  <2>4. BeginFrame(q) /\ NextFrame(q)
      BY <1>4 DEF FrameMissed
  <2>5. TypeOK'
      BY <1>0, <1>3, <1>4, <2>2, <2>3, <2>4, NextFrameType
         DEF FrameMissed, mainVars, nicVars, TypeOK, NumFrames
  <2>6. Shape'
      BY <1>0, <1>3, <1>4, <2>4, NextFrameType, LcoreShape DEF FrameMissed
  <2> QED BY <2>5, <2>6
<1>5. CASE FrameKept(q)
  <2>1. BeginFrame(q) /\ Goto(q, "sleep") /\ it_frame' = it_frame
      BY <1>5 DEF FrameKept
  <2>2. TypeOK'
      BY <1>0, <1>3, <1>5, <2>1, GotoType
         DEF FrameKept, mainVars, statVars, nicVars, TypeOK, NumFrames
  <2>3. Shape'
      BY <1>0, <1>3, <1>5, <2>1, GotoType, LcoreShape DEF FrameKept, FlowHere
  <2> QED BY <2>2, <2>3
<1>6. CASE Wake(q)
  <2>1. Goto(q, "send") /\ it_frame' = it_frame /\ flow[q] = Order[q][it_frame[q]]
      BY <1>6 DEF Wake, Shape, FlowHere
  <2>2. TypeOK'
      BY <1>0, <1>6, <2>1, GotoType
         DEF Wake, ReadClock, TypeOK, mainVars, statVars, nicVars, NumFrames
  <2>3. Shape'
      BY <1>0, <1>6, <2>1, GotoType, LcoreShape DEF Wake
  <2> QED BY <2>2, <2>3
<1>7. CASE SendOk(q)
  <2>1. flow[q] \in Flows /\ flow[q] = Order[q][it_frame[q]]
      BY <1>0, <1>7, FlowHereType DEF SendOk, Shape, FlowHere
  <2>2. count' \in [Flows -> Counters] /\ core' \in [Queues -> Counters]
      BY <1>7, <2>1, UpdateNumsType DEF SendOk
  <2>3. ring' \in [Queues -> Seq(Frame)]
    <3>1. [flow |-> flow[q], txtime |-> txtime[q]] \in Frame
        BY <2>1 DEF TypeOK, Frame
    <3>2. Append(ring[q], [flow |-> flow[q], txtime |-> txtime[q]]) \in Seq(Frame)
        BY <3>1 DEF TypeOK
    <3> QED
        BY <1>7, <3>2 DEF SendOk, TypeOK
  <2>4. CASE PIT_HW
    <3>1. Goto(q, "stamp") /\ it_frame' = it_frame
        BY <1>7, <2>4 DEF SendOk
    <3>2. TypeOK'
        BY <1>0, <1>7, <2>2, <2>3, <3>1, GotoType DEF SendOk, TypeOK, mainVars, NumFrames
    <3>3. Shape'
        BY <1>0, <1>7, <2>1, <3>1, GotoType, LcoreShape DEF SendOk
    <3> QED BY <3>2, <3>3
  <2>5. CASE ~PIT_HW
    <3>1. NextFrame(q)
        BY <1>7, <2>5 DEF SendOk
    <3>2. TypeOK'
        BY <1>0, <1>7, <2>2, <2>3, <3>1, NextFrameType DEF SendOk, TypeOK, mainVars, NumFrames
    <3>3. Shape'
        BY <1>0, <1>7, <3>1, NextFrameType, LcoreShape DEF SendOk
    <3> QED BY <3>2, <3>3
  <2> QED BY <2>4, <2>5
<1>8. CASE SendFail(q)
  <2>1. flow[q] \in Flows
      BY <1>0, <1>8, FlowHereType DEF SendFail, Shape
  <2>2. count' \in [Flows -> Counters] /\ core' \in [Queues -> Counters]
      BY <1>8, <2>1, UpdateNumsType DEF SendFail
  <2>3. prev_hwtime' \in [Flows -> Frame \cup {NoFrame}] /\ NextFrame(q)
      BY <1>8 DEF SendFail, ForgetStamp, TypeOK
  <2>4. TypeOK'
      BY <1>0, <1>8, <2>2, <2>3, NextFrameType DEF SendFail, TypeOK, mainVars, nicVars, NumFrames
  <2>5. Shape'
      BY <1>0, <1>8, <2>3, NextFrameType, LcoreShape DEF SendFail
  <2> QED BY <2>4, <2>5
<1>9. CASE ReadStamp(q) \/ StampTimeout(q)
  <2>1. NextFrame(q) /\ stamp' = NoFrame
      BY <1>9 DEF ReadStamp, StampTimeout
  <2>2. prev_hwtime' \in [Flows -> Frame \cup {NoFrame}]
      BY <1>9 DEF ReadStamp, StampTimeout, TypeOK
  <2>3. TypeOK'
      BY <1>0, <1>9, <2>1, <2>2, NextFrameType
         DEF ReadStamp, StampTimeout, TypeOK, mainVars, statVars, NumFrames
  <2>4. Shape'
      BY <1>0, <1>9, <2>1, NextFrameType, LcoreShape DEF ReadStamp, StampTimeout
  <2> QED BY <2>3, <2>4
<1> QED
    BY <1>1, <1>2, <1>4, <1>5, <1>6, <1>7, <1>8, <1>9 DEF Lcore

LEMMA IInvInductive == IInv /\ [Next]_vars => IInv'
<1> SUFFICES ASSUME IInv, [Next]_vars PROVE IInv'
    OBVIOUS
<1>1. CASE Next
    BY <1>1, MainTyped, LcoreTyped DEF IInv, Next
<1>2. CASE UNCHANGED vars
    BY <1>2 DEF IInv, TypeOK, Shape, vars, mainVars, localVars, statVars, nicVars,
       NumFrames, FlowHere
<1> QED BY <1>1, <1>2

\* Every variable keeps its type, and no lcore's position leaves its schedule.
THEOREM TypeCorrect == Spec => []TypeOK
<1>1. IInv => TypeOK
    BY DEF IInv
<1> QED BY <1>1, InitIInv, IInvInductive, PTL DEF Spec

-----------------------------------------------------------------------------
(* The grid of launch times.                                               *)

\* The launch times flow f has used, the one in hand included.
Slots(f) == count[f].total + IF InHand(f) THEN 1 ELSE 0

\* A step leaves f's timer and its slots alone, or moves both on by one.
SlotStep(f) ==
    \/ sche_time'[f] = sche_time[f] /\ Slots(f)' = Slots(f)
    \/ sche_time'[f] = sche_time[f] + period(f) /\ Slots(f)' = Slots(f) + 1

\* Where a step of an lcore leads, and that it is alone on its queue.
LEMMA LcoreMoves ==
    ASSUME IInv, NEW q \in Queues, Lcore(q)
    PROVE  /\ pc[q] # "idle"
           /\ UNCHANGED mainVars
           /\ \A p \in Queues \ {q} : pc'[p] = pc[p] /\ flow'[p] = flow[p]
           /\ FrameKept(q) => pc'[q] = "sleep"
           /\ Wake(q) => pc'[q] = "send"
           /\ ~FrameKept(q) /\ ~Wake(q) => pc'[q] \notin {"sleep", "send"}
<1>0. TypeOK /\ Shape
    BY DEF IInv
<1>1. pc[q] # "idle" /\ UNCHANGED mainVars
    BY DEF Lcore, StartLoop, LoopTest, BeginFrame, FrameMissed, FrameKept, Wake, SendOk,
       SendFail, ReadStamp, StampTimeout
<1>2. \/ flow' = flow
      \/ BeginFrame(q) /\ flow' = [flow EXCEPT ![q] = FlowHere(q)]
    BY DEF Lcore, StartLoop, LoopTest, BeginFrame, FrameMissed, FrameKept, Wake, SendOk,
       SendFail, ReadStamp, StampTimeout
<1>3. \A p \in Queues \ {q} : flow'[p] = flow[p]
    BY <1>0, <1>2 DEF TypeOK
<1>4. \/ NextFrame(q) /\ ~FrameKept(q) /\ ~Wake(q)
      \/ \E label \in {"while", "for", "stamp", "done"} :
            Goto(q, label) /\ ~FrameKept(q) /\ ~Wake(q)
      \/ FrameKept(q) /\ ~Wake(q) /\ Goto(q, "sleep")
      \/ Wake(q) /\ ~FrameKept(q) /\ Goto(q, "send")
  <2>1. CASE StartLoop(q)
      BY <2>1 DEF StartLoop, FrameKept, BeginFrame, Wake
  <2>2. CASE LoopTest(q)
      BY <2>2 DEF LoopTest, FrameKept, BeginFrame, Wake
  <2>3. CASE FrameMissed(q)
      BY <2>3 DEF FrameMissed, FrameKept, BeginFrame, Wake
  <2>4. CASE FrameKept(q)
      BY <2>4 DEF FrameKept, BeginFrame, Wake
  <2>5. CASE Wake(q)
      BY <2>5 DEF FrameKept, BeginFrame, Wake
  <2>6. CASE SendOk(q)
      BY <2>6 DEF SendOk, FrameKept, BeginFrame, Wake
  <2>7. CASE SendFail(q)
      BY <2>7 DEF SendFail, FrameKept, BeginFrame, Wake
  <2>8. CASE ReadStamp(q) \/ StampTimeout(q)
      BY <2>8 DEF ReadStamp, StampTimeout, FrameKept, BeginFrame, Wake
  <2> QED
      BY <2>1, <2>2, <2>3, <2>4, <2>5, <2>6, <2>7, <2>8 DEF Lcore
<1> QED
    BY <1>0, <1>1, <1>3, <1>4, NextFrameType, GotoType

\* An lcore has its position, clock reading and locals to itself.
LEMMA OtherLcores ==
    ASSUME IInv, NEW q \in Queues, Lcore(q), NEW p \in Queues \ {q}
    PROVE  /\ pc'[p] = pc[p] /\ flow'[p] = flow[p] /\ it_frame'[p] = it_frame[p]
           /\ txtime'[p] = txtime[p] /\ current_time'[p] = current_time[p]
<1>0. TypeOK /\ Shape /\ pc[q] # "idle"
    BY LcoreMoves DEF IInv
<1>1. pc'[p] = pc[p] /\ flow'[p] = flow[p]
    BY LcoreMoves
<1>2. txtime'[p] = txtime[p] /\ current_time'[p] = current_time[p]
    BY <1>0 DEF Lcore, StartLoop, LoopTest, BeginFrame, FrameMissed, FrameKept, Wake, SendOk,
       SendFail, ReadStamp, StampTimeout, ReadClock, TypeOK
<1>3. \/ it_frame' = it_frame
      \/ it_frame' = [it_frame EXCEPT ![q] = 1]
      \/ NextFrame(q)
    BY DEF Lcore, StartLoop, LoopTest, FrameMissed, FrameKept, Wake, SendOk,
       SendFail, ReadStamp, StampTimeout
<1>4. it_frame'[p] = it_frame[p]
    BY <1>0, <1>3, NextFrameType DEF TypeOK
<1> QED BY <1>1, <1>2, <1>4

\* A flow of another queue is not concerned.
LEMMA OtherQueueStep ==
    ASSUME IInv, NEW q \in Queues, Lcore(q), NEW f \in Flows, queue(f) # q
    PROVE  sche_time'[f] = sche_time[f] /\ count'[f] = count[f] /\ (InHand(f)' <=> InHand(f))
<1>0. TypeOK /\ Shape /\ pc[q] # "idle"
    BY LcoreMoves DEF IInv
<1>1. FlowHere(q) # f
    BY <1>0, FlowHereType
<1>2. pc[q] = "send" => flow[q] # f
    BY <1>0, <1>1 DEF Shape
<1>3. sche_time'[f] = sche_time[f]
  <2>1. \/ sche_time' = sche_time
        \/ inc_flow_timer(FlowHere(q))
      BY DEF Lcore, StartLoop, LoopTest, BeginFrame, FrameMissed, FrameKept, Wake, SendOk,
         SendFail, ReadStamp, StampTimeout
  <2> QED
      BY <1>0, <1>1, <2>1 DEF inc_flow_timer, TypeOK
<1>4. count'[f] = count[f]
  <2>1. \/ count' = count
        \/ \E g \in {FlowHere(q)}, m, d \in BOOLEAN : update_nums(q, g, m, d)
        \/ pc[q] = "send" /\ \E m, d \in BOOLEAN : update_nums(q, flow[q], m, d)
      BY DEF Lcore, StartLoop, LoopTest, BeginFrame, FrameMissed, FrameKept, Wake, SendOk,
         SendFail, ReadStamp, StampTimeout, statVars
  <2> QED
      BY <1>0, <1>1, <1>2, <2>1 DEF update_nums, TypeOK
<1>5. InHand(f)' <=> InHand(f)
    BY LcoreMoves, FlowTypes DEF InHand
<1> QED BY <1>3, <1>4, <1>5

\* One more outcome raises the total by one.
LEMMA CountedTotal ==
    ASSUME TypeOK, NEW q \in Queues, NEW g \in Flows, NEW f \in Flows,
           NEW m \in BOOLEAN, NEW d \in BOOLEAN, update_nums(q, g, m, d)
    PROVE  count'[f].total = IF f = g THEN count[f].total + 1 ELSE count[f].total
BY DEF TypeOK, update_nums, Counted

LEMMA LcoreSlotStep ==
    ASSUME IInv, NEW q \in Queues, Lcore(q), NEW f \in Flows
    PROVE  SlotStep(f)
<1>0. TypeOK /\ Shape /\ pc[q] # "idle" /\ count[f].total \in Nat
    BY LcoreMoves DEF IInv, TypeOK, Counters
<1>1. CASE queue(f) # q
    BY <1>1, OtherQueueStep DEF SlotStep, Slots
<1>2. CASE queue(f) = q
  <2>0. FlowHere(q) \in Flows /\ queue(FlowHere(q)) = q
      BY <1>0, FlowHereType
  <2>1. CASE FrameMissed(q)
    <3>1. /\ ~InHand(f) /\ ~InHand(f)'
          /\ inc_flow_timer(FlowHere(q)) /\ update_nums(q, FlowHere(q), TRUE, FALSE)
        BY <1>2, <2>1, LcoreMoves DEF FrameMissed, FrameKept, BeginFrame, Wake, InHand, queue
    <3>2. count'[f].total =
              IF f = FlowHere(q) THEN count[f].total + 1 ELSE count[f].total
        BY <1>0, <2>0, <3>1, CountedTotal
    <3> QED
        BY <1>0, <2>0, <3>1, <3>2 DEF SlotStep, Slots, inc_flow_timer, TypeOK
  <2>2. CASE FrameKept(q)
    <3>1. /\ ~InHand(f) /\ pc'[q] = "sleep" /\ flow'[q] = FlowHere(q)
          /\ inc_flow_timer(FlowHere(q)) /\ count' = count
        BY <1>0, <1>2, <2>2, LcoreMoves
           DEF FrameKept, BeginFrame, InHand, queue, statVars, TypeOK
    <3>2. InHand(f)' <=> f = FlowHere(q)
        BY <1>2, <3>1 DEF InHand, queue
    <3> QED
        BY <1>0, <2>0, <3>1, <3>2 DEF SlotStep, Slots, inc_flow_timer, TypeOK
  <2>3. CASE Wake(q)
    <3>1. /\ pc[q] = "sleep" /\ pc'[q] = "send" /\ flow' = flow
          /\ sche_time' = sche_time /\ count' = count
        BY <2>3, LcoreMoves DEF Wake, statVars
    <3> QED
        BY <1>2, <3>1 DEF SlotStep, Slots, InHand, queue
  <2>4. CASE SendOk(q) \/ SendFail(q)
    <3>1. /\ pc[q] = "send" /\ pc'[q] \notin {"sleep", "send"}
          /\ sche_time' = sche_time
          /\ \E d \in BOOLEAN : update_nums(q, flow[q], FALSE, d)
        BY <2>4, LcoreMoves DEF SendOk, SendFail, FrameKept, BeginFrame, Wake
    <3>2. flow[q] = FlowHere(q)
        BY <1>0, <3>1 DEF Shape
    <3>3. count'[f].total =
              IF f = FlowHere(q) THEN count[f].total + 1 ELSE count[f].total
      <4>1. PICK d \in BOOLEAN : update_nums(q, FlowHere(q), FALSE, d)
          BY <3>1, <3>2
      <4> QED BY <1>0, <2>0, <4>1, CountedTotal
    <3>4. (InHand(f) <=> f = FlowHere(q)) /\ ~InHand(f)'
        BY <1>2, <3>1, <3>2 DEF InHand, queue
    <3> QED
        BY <1>0, <3>1, <3>3, <3>4 DEF SlotStep, Slots
  <2>5. CASE StartLoop(q) \/ LoopTest(q) \/ ReadStamp(q) \/ StampTimeout(q)
    <3>1. /\ pc[q] \notin {"sleep", "send"} /\ pc'[q] \notin {"sleep", "send"}
          /\ sche_time' = sche_time /\ count' = count
        BY <2>5, LcoreMoves DEF StartLoop, LoopTest, ReadStamp, StampTimeout, FrameKept,
           BeginFrame, Wake, statVars
    <3> QED
        BY <1>2, <3>1 DEF SlotStep, Slots, InHand, queue
  <2> QED
      BY <2>1, <2>2, <2>3, <2>4, <2>5 DEF Lcore
<1> QED BY <1>1, <1>2

\* Where a step of an lcore leaves the slots of the flows.
LEMMA SlotMoves ==
    ASSUME IInv, NEW q \in Queues, Lcore(q), NEW f \in Flows
    PROVE  Slots(f)' = Slots(f) + IF (FrameMissed(q) \/ FrameKept(q)) /\ f = FlowHere(q)
                                  THEN 1 ELSE 0
<1>a. TypeOK /\ pc[q] # "idle" /\ period(f) \in Nat \ {0}
    BY LcoreMoves, FlowTypes DEF IInv
<1>b. sche_time \in [Flows -> Nat] /\ count[f] \in Counters
    BY <1>a DEF TypeOK
<1>0. sche_time[f] \in Nat /\ Slots(f) \in Nat
    BY <1>b DEF Slots, Counters
<1>1. SlotStep(f)
    BY LcoreSlotStep
<1>2. FlowHere(q) \in Flows
    BY <1>a, FlowHereType
<1>3. CASE FrameMissed(q) \/ FrameKept(q)
  <2>0. sche_time' = [sche_time EXCEPT ![FlowHere(q)] = @ + period(FlowHere(q))]
      BY <1>3 DEF FrameMissed, FrameKept, BeginFrame, inc_flow_timer
  <2>1. sche_time'[f] = sche_time[f] + IF f = FlowHere(q) THEN period(f) ELSE 0
      BY <1>0, <1>b, <1>2, <2>0
  <2> QED BY <1>0, <1>a, <1>1, <1>3, <2>1 DEF SlotStep
<1>4. CASE ~(FrameMissed(q) \/ FrameKept(q))
  <2>1. sche_time' = sche_time
      BY <1>4 DEF Lcore, StartLoop, LoopTest, Wake, SendOk, SendFail, ReadStamp, StampTimeout
  <2> QED BY <1>0, <1>a, <1>1, <1>4, <2>1 DEF SlotStep
<1> QED BY <1>3, <1>4

\* One slot more is one period more.
LEMMA GridStep ==
    ASSUME NEW b \in Nat, NEW p \in Nat, NEW k \in Nat, NEW s \in Nat,
           s = b + p * k
    PROVE  s + p = b + p * (k + 1)
<1>1. p * (k + 1) = p * k + p
    OBVIOUS
<1> QED BY <1>1

\* Before the base time is fixed nothing has been counted.
GridInv ==
    /\ GridAligned
    /\ main = "setup" => \A f \in Flows : count[f].total = 0

LEMMA GridInit == Init => GridInv
BY DEF Init, GridInv, GridAligned, InitCounters

LEMMA GridInductive == IInv /\ GridInv /\ [Next]_vars => GridInv'
<1> SUFFICES ASSUME IInv, GridInv, [Next]_vars PROVE GridInv'
    OBVIOUS
<1>0. TypeOK /\ Shape
    BY DEF IInv
<1>1. CASE SetBaseTime
  <2>1. /\ main = "setup" /\ main' = "launch" /\ base_time' \in Nat
        /\ sche_time' = [f \in Flows |-> base_time' + offset(f)]
        /\ pc' = pc /\ count' = count
      BY <1>0, <1>1, BaseTimeNat DEF SetBaseTime, statVars, TypeOK
  <2>2. ASSUME NEW f \in Flows
        PROVE  sche_time'[f] = base_time' + offset(f)
                    + period(f) * (count'[f].total + IF InHand(f)' THEN 1 ELSE 0)
    <3>1. ~InHand(f)' /\ count'[f].total = 0
        BY <1>0, <2>1, FlowTypes DEF Shape, InHand, GridInv
    <3>2. period(f) * 0 = 0 /\ offset(f) \in Nat
        BY FlowTypes
    <3> QED
        BY <2>1, <3>1, <3>2
  <2> QED
      BY <2>1, <2>2 DEF GridInv, GridAligned
<1>2. ASSUME NEW q \in Queues, Lcore(q)
      PROVE GridInv'
  <2>1. main # "setup" /\ UNCHANGED mainVars
      BY <1>0, <1>2, LcoreMoves DEF Shape
  <2>2. ASSUME NEW f \in Flows
        PROVE  sche_time'[f] = base_time' + offset(f) + period(f) * Slots(f)'
    <3>1. /\ sche_time[f] = base_time + offset(f) + period(f) * Slots(f)
          /\ base_time' = base_time
        BY <2>1 DEF GridInv, GridAligned, Slots, mainVars
    <3>2. /\ sche_time[f] \in Nat /\ base_time + offset(f) \in Nat
          /\ period(f) \in Nat /\ Slots(f) \in Nat
      <4>1. count[f].total \in Nat
          BY <1>0 DEF TypeOK, Counters
      <4>2. Slots(f) \in Nat
          BY <4>1 DEF Slots
      <4>3. sche_time[f] \in Nat /\ base_time \in Nat
          BY <1>0 DEF TypeOK
      <4> QED
          BY <4>2, <4>3, FlowTypes
    <3>3. SlotStep(f)
        BY <1>2, LcoreSlotStep
    <3>4. sche_time[f] + period(f) = base_time + offset(f) + period(f) * (Slots(f) + 1)
        BY <3>1, <3>2, GridStep
    <3>5. CASE sche_time'[f] = sche_time[f] /\ Slots(f)' = Slots(f)
        BY <3>1, <3>5
    <3>6. CASE sche_time'[f] = sche_time[f] + period(f) /\ Slots(f)' = Slots(f) + 1
        BY <3>1, <3>4, <3>6
    <3> QED
        BY <3>3, <3>5, <3>6 DEF SlotStep
  <2> QED
      BY <2>1, <2>2 DEF GridInv, GridAligned, Slots, mainVars
<1>3. CASE LaunchLcore
  <2>1. \A p \in Queues : pc'[p] # pc[p] => pc[p] = "idle" /\ pc'[p] = "start"
      BY <1>0, <1>3, OrderAssumption DEF LaunchLcore, TypeOK, Shape
  <2>2. \A f \in Flows : InHand(f)' <=> InHand(f)
      BY <1>3, <2>1, FlowTypes DEF LaunchLcore, InHand, localVars
  <2> QED
      BY <1>3, <2>2 DEF LaunchLcore, GridInv, GridAligned, statVars
<1>4. CASE AllLaunched \/ Cleanup \/ Tick \/ Stopped \/ \E q \in Queues : NicLaunch(q)
  <2>1. /\ pc' = pc /\ flow' = flow /\ sche_time' = sche_time /\ count' = count
        /\ base_time' = base_time /\ (main' = "setup" <=> main = "setup")
      BY <1>4 DEF AllLaunched, Cleanup, Tick, Stopped, NicLaunch, vars, mainVars, localVars,
         statVars
  <2> QED
      BY <2>1 DEF GridInv, GridAligned, InHand
<1>5. CASE UNCHANGED vars
    BY <1>5 DEF GridInv, GridAligned, InHand, vars, mainVars, localVars, statVars
<1> QED
    BY <1>1, <1>2, <1>3, <1>4, <1>5 DEF Next, Main

\* The timers of all flows stay on their grids: every launch time is used exactly
\* once, whatever becomes of its frame and in whatever order the lcores run.
THEOREM LaunchTimesOnGrid == Spec => []GridAligned
<1>1. GridInv => GridAligned
    BY DEF GridInv
<1> QED
    BY <1>1, InitIInv, IInvInductive, GridInit, GridInductive, PTL DEF Spec

-----------------------------------------------------------------------------
(* The locals of tx_loop that survive an iteration.                        *)

\* Once the lcore has had a frame: flow and txtime are the last frame's, and in
\* the for loop that is the frame of the previous position.  Before: nothing of
\* the queue's flows has been recorded.
LocalsAt(q) ==
    /\ flow[q] # NoFlow => queue(flow[q]) = q /\ txtime[q] = sche_time[flow[q]]
    /\ flow[q] = NoFlow => \A f \in Flows : queue(f) = q =>
                                ~prev_time[f] /\ count[f].total = 0
    /\ pc[q] \in {"idle", "start"} => flow[q] = NoFlow
    /\ pc[q] = "for" => flow[q] \in {NoFlow, FlowPrev(q)}
    /\ pc[q] = "while" => flow[q] \in {NoFlow, Order[q][NumFrames(q)]}
    /\ pc[q] = "send" => now >= WakeTime(flow[q], txtime[q])

Locals == \A q \in Queues : LocalsAt(q)

\* A step of one lcore leaves the locals of the others in order.
LEMMA OtherLocals ==
    ASSUME IInv, Locals, NEW q \in Queues, Lcore(q), NEW p \in Queues \ {q}
    PROVE  LocalsAt(p)'
<1>0. TypeOK /\ Shape /\ LocalsAt(p)
    BY DEF IInv, Locals
<1>1. now' = now /\ pc[q] # "idle"
    BY LcoreMoves DEF Lcore, StartLoop, LoopTest, BeginFrame, FrameMissed, FrameKept, Wake, SendOk,
       SendFail, ReadStamp, StampTimeout
<1>2. /\ pc'[p] = pc[p] /\ flow'[p] = flow[p] /\ it_frame'[p] = it_frame[p]
      /\ txtime'[p] = txtime[p]
    BY OtherLcores
<1>4. ASSUME NEW f \in Flows, queue(f) = p
      PROVE  sche_time'[f] = sche_time[f] /\ count'[f] = count[f] /\ prev_time'[f] = prev_time[f]
  <2>1. FlowPrev(q) # f
      BY <1>0, <1>1, <1>4, FlowHereType
  <2>2. \/ prev_time' = prev_time
        \/ prev_time' = [prev_time EXCEPT ![FlowPrev(q)] = TRUE]
      BY DEF Lcore, StartLoop, LoopTest, BeginFrame, FrameMissed, FrameKept, Wake, SendOk,
         SendFail, ReadStamp, StampTimeout
  <2>3. prev_time'[f] = prev_time[f]
      BY <1>0, <2>1, <2>2 DEF TypeOK
  <2> QED BY <1>4, <2>3, OtherQueueStep
<1>5. flow[p] \in Flows \cup {NoFlow}
    BY <1>0 DEF TypeOK
<1> QED
    BY <1>0, <1>1, <1>2, <1>4, <1>5 DEF LocalsAt, FlowPrev, NumFrames, WakeTime, delta

\* The end of the for body, with the frame of this position behind it.
LEMMA NextFrameLocals ==
    ASSUME TypeOK, NEW q \in Queues, pc[q] # "idle", NextFrame(q)
    PROVE  /\ pc'[q] = "for" => FlowHere(q) = FlowPrev(q)'
           /\ pc'[q] = "while" => FlowHere(q) = Order[q][NumFrames(q)]
           /\ pc'[q] \in {"for", "while"}
<1>1. it_frame[q] \in 1 .. NumFrames(q) /\ NumFrames(q) \in Nat
    BY OrderAssumption DEF TypeOK, NumFrames
<1>2. CASE it_frame[q] = NumFrames(q)
    BY <1>2 DEF TypeOK, NextFrame, Goto, FlowHere
<1>3. CASE it_frame[q] # NumFrames(q)
  <2>1. pc'[q] = "for" /\ it_frame'[q] = it_frame[q] + 1
      BY <1>3 DEF TypeOK, NextFrame, Goto
  <2>2. it_frame'[q] # 1 /\ it_frame'[q] - 1 = it_frame[q]
      BY <1>1, <2>1
  <2> QED
      BY <2>1, <2>2 DEF FlowHere, FlowPrev
<1> QED BY <1>2, <1>3

\* An lcore's own locals, step by step.
LEMMA OwnLocals ==
    ASSUME IInv, Locals, NEW q \in Queues, Lcore(q)
    PROVE  LocalsAt(q)'
<1>0. TypeOK /\ Shape /\ LocalsAt(q) /\ pc[q] # "idle" /\ now' = now
    BY LcoreMoves DEF IInv, Locals, Lcore, StartLoop, LoopTest, BeginFrame, FrameMissed,
       FrameKept, Wake, SendOk, SendFail, ReadStamp, StampTimeout
<1>a. /\ FlowHere(q) \in Flows /\ queue(FlowHere(q)) = q /\ FlowHere(q) # NoFlow
      /\ FlowPrev(q) \in Flows
    BY <1>0, FlowHereType, FlowTypes
<1>1. CASE StartLoop(q)
  <2>1. /\ pc[q] = "start" /\ pc'[q] = "while" /\ flow' = flow
        /\ prev_time' = prev_time /\ count' = count /\ sche_time' = sche_time
      BY <1>0, <1>1, GotoType DEF StartLoop, statVars
  <2> QED
      BY <1>0, <2>1 DEF LocalsAt
<1>2. CASE LoopTest(q)
  <2>1. /\ pc[q] = "while" /\ flow' = flow /\ txtime' = txtime
        /\ prev_time' = prev_time /\ count' = count /\ sche_time' = sche_time
        /\ \/ pc'[q] = "done"
           \/ pc'[q] = "for" /\ it_frame'[q] = 1
      BY <1>0, <1>2, GotoType DEF LoopTest, statVars, TypeOK
  <2>2. it_frame'[q] = 1 => FlowPrev(q)' = Order[q][NumFrames(q)]
      BY DEF FlowPrev, NumFrames
  <2>3. pc'[q] = "for" => flow'[q] \in {NoFlow, FlowPrev(q)'}
      BY <1>0, <2>1, <2>2 DEF LocalsAt
  <2> QED
      BY <1>0, <2>1, <2>3 DEF LocalsAt
<1>3. ASSUME FrameMissed(q) \/ FrameKept(q)
      PROVE  /\ flow'[q] = FlowHere(q) /\ txtime'[q] = sche_time'[FlowHere(q)]
             /\ pc'[q] \in {"for", "while", "sleep"}
             /\ pc'[q] = "for" => FlowHere(q) = FlowPrev(q)'
             /\ pc'[q] = "while" => FlowHere(q) = Order[q][NumFrames(q)]
  <2>1. BeginFrame(q)
      BY <1>3 DEF FrameMissed, FrameKept
  <2>2. flow'[q] = FlowHere(q) /\ txtime'[q] = sche_time'[FlowHere(q)]
      BY <1>0, <2>1 DEF BeginFrame, TypeOK
  <2>3. NextFrame(q) \/ Goto(q, "sleep")
      BY <1>3 DEF FrameMissed, FrameKept
  <2> QED
      BY <1>0, <2>2, <2>3, NextFrameLocals, GotoType
<1>4. CASE FrameMissed(q) \/ FrameKept(q)
    BY <1>a, <1>3, <1>4 DEF LocalsAt
<1>5. CASE Wake(q)
  <2>1. /\ pc[q] = "sleep" /\ pc'[q] = "send" /\ flow' = flow /\ txtime' = txtime
        /\ prev_time' = prev_time /\ count' = count /\ sche_time' = sche_time
        /\ now >= WakeTime(flow[q], txtime[q])
      BY <1>0, <1>5, GotoType DEF Wake, statVars
  <2> QED
      BY <1>0, <2>1 DEF LocalsAt, WakeTime
<1>6. CASE SendOk(q) \/ SendFail(q) \/ ReadStamp(q) \/ StampTimeout(q)
  <2>1. /\ flow' = flow /\ txtime' = txtime /\ sche_time' = sche_time
        /\ flow[q] = FlowHere(q)
        /\ NextFrame(q) \/ Goto(q, "stamp")
      BY <1>0, <1>6 DEF SendOk, SendFail, ReadStamp, StampTimeout, Shape
  <2>2. /\ pc'[q] \in {"for", "while", "stamp"}
        /\ pc'[q] = "for" => FlowHere(q) = FlowPrev(q)'
        /\ pc'[q] = "while" => FlowHere(q) = Order[q][NumFrames(q)]
      BY <1>0, <2>1, NextFrameLocals, GotoType
  <2> QED
      BY <1>0, <1>a, <2>1, <2>2 DEF LocalsAt
<1> QED
    BY <1>1, <1>2, <1>4, <1>5, <1>6 DEF Lcore

LEMMA LocalsInit == Init => Locals
BY DEF Init, Locals, LocalsAt, InitCounters, NumFrames

LEMMA LocalsInductive == IInv /\ Locals /\ [Next]_vars => Locals'
<1> SUFFICES ASSUME IInv, Locals, [Next]_vars PROVE Locals'
    OBVIOUS
<1>0. TypeOK /\ Shape
    BY DEF IInv
<1>1. CASE SetBaseTime
  <2>1. /\ main = "setup" /\ pc' = pc /\ flow' = flow /\ prev_time' = prev_time
        /\ count' = count
      BY <1>1 DEF SetBaseTime, localVars, statVars
  <2>2. \A q \in Queues : pc[q] = "idle" /\ flow[q] = NoFlow
      BY <1>0, <2>1 DEF Shape, Locals, LocalsAt
  <2> QED
      BY <2>1, <2>2 DEF Locals, LocalsAt
<1>2. CASE LaunchLcore
  <2>1. \A p \in Queues : pc'[p] # pc[p] => pc[p] = "idle" /\ pc'[p] = "start"
      BY <1>0, <1>2, OrderAssumption DEF LaunchLcore, TypeOK, Shape
  <2>2. UNCHANGED <<now, sche_time, it_frame, flow, txtime, prev_time, count>>
      BY <1>2 DEF LaunchLcore, localVars, statVars
  <2> QED
      BY <2>1, <2>2 DEF Locals, LocalsAt, FlowPrev, NumFrames, WakeTime
<1>3. ASSUME NEW q \in Queues, Lcore(q) PROVE Locals'
    BY <1>3, OtherLocals, OwnLocals DEF Locals
<1>4. CASE AllLaunched \/ Cleanup \/ Tick \/ Stopped \/ UNCHANGED vars
           \/ \E q \in Queues : NicLaunch(q)
  <2>1. UNCHANGED <<sche_time, pc, it_frame, flow, txtime, prev_time, count>>
      BY <1>4 DEF AllLaunched, Cleanup, Tick, Stopped, NicLaunch, vars, mainVars, localVars,
         statVars
  <2>2. now' \in Nat /\ now' >= now
      BY <1>0, <1>4 DEF AllLaunched, Cleanup, Tick, Stopped, NicLaunch, vars, TypeOK
  <2>3. ASSUME NEW q \in Queues, pc[q] = "send"
        PROVE  WakeTime(flow[q], txtime[q]) \in Int
    <3>1. flow[q] \in Flows
        BY <1>0, <2>3, FlowHereType DEF Shape
    <3> QED BY <1>0, <3>1, FlowTypes DEF WakeTime, TypeOK
  <2>4. \A q \in Queues : pc'[q] = "send" => now' >= WakeTime(flow'[q], txtime'[q])
      BY <1>0, <2>1, <2>2, <2>3 DEF Locals, LocalsAt, TypeOK
  <2> QED
      BY <2>1, <2>4 DEF Locals, LocalsAt, FlowPrev, NumFrames, WakeTime
<1> QED
    BY <1>1, <1>2, <1>3, <1>4 DEF Next, Main

\* Every software sample is computed from locals that belong to the flow it is
\* recorded for, also right after missed deadlines and refused frames.
THEOREM SampleLocalsBelong == Spec => []SampleLocals
<1>1. IInv /\ Locals => SampleLocals
  <2> SUFFICES ASSUME IInv, Locals, NEW q \in Queues, pc[q] = "for",
                      prev_time[FlowPrev(q)] \/ count[FlowPrev(q)].total # 0
               PROVE  flow[q] = FlowPrev(q) /\ txtime[q] = sche_time[FlowPrev(q)]
      BY DEF SampleLocals
  <2>1. FlowPrev(q) \in Flows /\ queue(FlowPrev(q)) = q
      BY FlowHereType DEF IInv
  <2> QED
      BY <2>1 DEF Locals, LocalsAt
<1> QED
    BY <1>1, InitIInv, IInvInductive, LocalsInit, LocalsInductive, PTL DEF Spec

-----------------------------------------------------------------------------
(* The counters.                                                           *)

\* A step counts one outcome of one flow, in its record and its lcore's, or none.
LEMMA CountingStep ==
    ASSUME IInv, [Next]_vars
    PROVE  \/ count' = count /\ core' = core
           \/ \E q \in Queues, f \in Flows, m, d \in BOOLEAN :
                 queue(f) = q /\ ~(m /\ d) /\ update_nums(q, f, m, d)
<1>0. TypeOK
    BY DEF IInv
<1>1. ASSUME NEW q \in Queues, Lcore(q)
      PROVE  \/ count' = count /\ core' = core
             \/ \E f \in Flows, m, d \in BOOLEAN :
                   queue(f) = q /\ ~(m /\ d) /\ update_nums(q, f, m, d)
  <2>1. FlowHere(q) \in Flows /\ queue(FlowHere(q)) = q
      BY <1>0, <1>1, LcoreMoves, FlowHereType
  <2>2. pc[q] = "send" => flow[q] = FlowHere(q)
      BY DEF IInv, Shape
  <2>3. CASE FrameMissed(q)
      BY <2>1, <2>3 DEF FrameMissed
  <2>4. CASE SendOk(q)
      BY <2>1, <2>2, <2>4 DEF SendOk
  <2>5. CASE SendFail(q)
      BY <2>1, <2>2, <2>5 DEF SendFail
  <2>6. CASE StartLoop(q) \/ LoopTest(q) \/ FrameKept(q) \/ Wake(q) \/ ReadStamp(q)
             \/ StampTimeout(q)
      BY <2>6 DEF StartLoop, LoopTest, FrameKept, Wake, ReadStamp, StampTimeout, statVars
  <2> QED BY <1>1, <2>3, <2>4, <2>5, <2>6 DEF Lcore
<1>2. CASE Main \/ Tick \/ Stopped \/ UNCHANGED vars \/ \E q \in Queues : NicLaunch(q)
    BY <1>2 DEF Main, SetBaseTime, LaunchLcore, AllLaunched, Cleanup, Tick, Stopped,
       NicLaunch, vars, statVars
<1> QED BY <1>1, <1>2 DEF Next

-----------------------------------------------------------------------------
(* The lcores implement the abstract service of the flows.                 *)

\* The flow whose frame queue q has in its hands.
OpenFlow(q) == IF pc[q] \in {"sleep", "send"} THEN flow[q] ELSE NoFlow

\* The outcomes of flow f, as the service counts them.
Tally(f) == [sent    |-> count[f].send - 1,
             refused |-> count[f].drop,
             missed  |-> count[f].misdl]

LEMMA ServiceInit == Init => Service!Init
BY ParameterAssumption DEF Init, Service!Init, InitCounters

\* A step that leaves each queue's open flow and the timers and tallies alone is
\* no step of the service.
LEMMA ServiceStutter ==
    ASSUME UNCHANGED <<now, base_time, sche_time, count>>,
           \A q \in Queues : OpenFlow(q)' = OpenFlow(q)
    PROVE  UNCHANGED Service!vars
BY DEF OpenFlow, Service!vars

LEMMA ServiceStep ==
    ASSUME NEW f \in Flows,
           \/ Service!Open(f)
           \/ Service!Miss(f)
           \/ Service!Close(f, "sent")
           \/ Service!Close(f, "refused")
    PROVE  Service!Next
BY DEF Service!Next

LEMMA LcoreService ==
    ASSUME IInv, Locals, NEW q \in Queues, Lcore(q)
    PROVE  Service!Next \/ UNCHANGED Service!vars
<1>0. TypeOK /\ Shape /\ LocalsAt(q) /\ pc[q] # "idle" /\ now' = now /\ base_time' = base_time
    BY LcoreMoves DEF IInv, Locals, mainVars, Lcore, StartLoop, LoopTest, BeginFrame, FrameMissed,
       FrameKept, Wake, SendOk, SendFail, ReadStamp, StampTimeout
<1>c. /\ FlowHere(q) \in Flows /\ queue(FlowHere(q)) = q /\ FlowHere(q) # NoFlow
    BY <1>0, FlowHereType, FlowTypes
<1>p. PICK g \in Flows : g = FlowHere(q)
    BY <1>c
<1>a. queue(g) = q /\ g # NoFlow /\ g = FlowHere(q)
    BY <1>c, <1>p
<1>b. \A p \in Queues \ {q} : OpenFlow(p)' = OpenFlow(p)
    BY LcoreMoves DEF OpenFlow
<1>1. CASE StartLoop(q) \/ LoopTest(q) \/ ReadStamp(q) \/ StampTimeout(q)
  <2>1. /\ pc[q] \notin {"sleep", "send"} /\ pc'[q] \notin {"sleep", "send"}
        /\ sche_time' = sche_time /\ count' = count
      BY <1>1, LcoreMoves DEF StartLoop, LoopTest, ReadStamp, StampTimeout, FrameKept,
         BeginFrame, Wake, statVars
  <2> QED
      BY <1>0, <1>b, <2>1, ServiceStutter DEF OpenFlow
<1>2. CASE Wake(q)
  <2>1. /\ pc[q] = "sleep" /\ pc'[q] = "send" /\ flow' = flow
        /\ sche_time' = sche_time /\ count' = count
      BY <1>2, LcoreMoves DEF Wake, statVars
  <2> QED
      BY <1>0, <1>b, <2>1, ServiceStutter DEF OpenFlow
<1>3. CASE FrameKept(q)
  <2>1. /\ pc[q] = "for" /\ pc'[q] = "sleep" /\ flow'[q] = g
        /\ sche_time' = [sche_time EXCEPT ![g] = @ + period(g)]
        /\ count' = count
      BY <1>0, <1>a, <1>3, LcoreMoves DEF FrameKept, BeginFrame, inc_flow_timer, statVars, TypeOK
  <2>2. Service!Open(g)
      BY <1>0, <1>a, <1>b, <2>1
         DEF Service!Open, Service!NextLaunch, OpenFlow, queue, period
  <2> QED
      BY <1>a, <2>2, ServiceStep
<1>4. CASE FrameMissed(q)
  <2>1. /\ pc[q] = "for" /\ pc'[q] \notin {"sleep", "send"}
        /\ sche_time' = [sche_time EXCEPT ![g] = @ + period(g)]
        /\ txtime'[q] = sche_time'[g]
        /\ now > WakeTime(g, txtime'[q]) + FUDGE_FACTOR
        /\ count' = [count EXCEPT ![g] = Counted(@, TRUE, FALSE)]
      BY <1>0, <1>a, <1>4, LcoreMoves DEF FrameMissed, FrameKept, Wake, BeginFrame, inc_flow_timer,
         TooLate, update_nums, TypeOK
  <2>2. Service!Miss(g)
      BY <1>0, <1>a, <1>b, <2>1
         DEF Service!Miss, Service!NextLaunch, Service!WakeTime, WakeTime, OpenFlow, Counted,
             queue, period, delta, TypeOK
  <2> QED
      BY <1>a, <2>2, ServiceStep
<1>5. CASE SendOk(q) \/ SendFail(q)
  <2>1. /\ pc[q] = "send" /\ pc'[q] \notin {"sleep", "send"} /\ flow[q] = g
        /\ sche_time' = sche_time
        /\ now >= WakeTime(g, sche_time[g])
      BY <1>0, <1>a, <1>5, LcoreMoves DEF SendOk, SendFail, FrameKept, BeginFrame, Wake, Shape,
         LocalsAt, WakeTime
  <2>2. CASE SendOk(q)
    <3>1. count' = [count EXCEPT ![g] = Counted(@, FALSE, FALSE)]
        BY <1>a, <2>1, <2>2 DEF SendOk, update_nums
    <3>2. /\ count \in [Flows -> Counters]
          /\ count'[g].send = count[g].send + 1
          /\ count'[g].drop = count[g].drop /\ count'[g].misdl = count[g].misdl
          /\ \A f \in Flows \ {g} : count'[f] = count[f]
        BY <1>0, <3>1 DEF Counted, TypeOK
    <3>3. (count[g].send + 1) - 1 = (count[g].send - 1) + 1
        BY <3>2 DEF Counters
    <3>4. [f \in Flows |-> Tally(f)]' = [[f \in Flows |-> Tally(f)] EXCEPT ![g].sent = @ + 1]
        BY <3>2, <3>3 DEF Tally
    <3>5. Service!Close(g, "sent")
        BY <1>0, <1>a, <1>b, <2>1, <3>4
           DEF Service!Close, Service!WakeTime, WakeTime, OpenFlow, Tally, queue, delta
    <3> QED BY <1>a, <3>5, ServiceStep
  <2>3. CASE SendFail(q)
    <3>1. count' = [count EXCEPT ![g] = Counted(@, FALSE, TRUE)]
        BY <1>a, <2>1, <2>3 DEF SendFail, update_nums
    <3>2. Service!Close(g, "refused")
        BY <1>0, <1>a, <1>b, <2>1, <3>1
           DEF Service!Close, Service!WakeTime, WakeTime, OpenFlow, Counted, queue, delta, TypeOK,
               Counters
    <3> QED BY <1>a, <3>2, ServiceStep
  <2> QED BY <1>5, <2>2, <2>3
<1> QED
    BY <1>1, <1>2, <1>3, <1>4, <1>5 DEF Lcore

\* Every step of the talker and its card is a step of the service or none.
LEMMA StepRefines ==
    ASSUME IInv, Locals, [Next]_vars
    PROVE  Service!Next \/ UNCHANGED Service!vars
<1>0. TypeOK /\ Shape
    BY DEF IInv
<1>1. CASE SetBaseTime
  <2>1. /\ base_time = 0 /\ sche_time = [f \in Flows |-> 0]
        /\ sche_time' = [f \in Flows |-> base_time' + offset(f)]
        /\ UNCHANGED <<now, pc, flow, count>>
      BY <1>0, <1>1 DEF SetBaseTime, Shape, localVars, statVars
  <2>2. base_time' \in Nat
      BY <1>0, <1>1, BaseTimeNat DEF SetBaseTime, TypeOK
  <2>3. Service!Fix
      BY <2>1, <2>2 DEF Service!Fix, Service!Grid, offset
  <2> QED
      BY <2>3 DEF Service!Next
<1>2. CASE LaunchLcore
  <2>1. \A p \in Queues : pc'[p] # pc[p] => pc[p] = "idle" /\ pc'[p] = "start"
      BY <1>0, <1>2, OrderAssumption DEF LaunchLcore, TypeOK, Shape
  <2>2. UNCHANGED <<now, base_time, sche_time, flow, count>>
      BY <1>2 DEF LaunchLcore, localVars, statVars
  <2>3. \A p \in Queues : OpenFlow(p)' = OpenFlow(p)
      BY <2>1, <2>2 DEF OpenFlow
  <2> QED
      BY <2>2, <2>3, ServiceStutter
<1>3. CASE AllLaunched \/ Cleanup \/ Stopped \/ UNCHANGED vars \/ \E q \in Queues : NicLaunch(q)
  <2>1. UNCHANGED <<now, base_time, sche_time, pc, flow, count>>
      BY <1>3 DEF AllLaunched, Cleanup, Stopped, NicLaunch, vars, mainVars, localVars, statVars
  <2> QED
      BY <2>1, ServiceStutter DEF OpenFlow
<1>4. CASE Tick
  <2>1. now' = now + 1 /\ UNCHANGED <<base_time, sche_time, pc, flow, count>>
      BY <1>4 DEF Tick, mainVars, localVars, statVars
  <2>2. Service!Tick
      BY <2>1 DEF Service!Tick
  <2> QED
      BY <2>2 DEF Service!Next
<1>5. ASSUME NEW q \in Queues, Lcore(q) PROVE Service!Next \/ UNCHANGED Service!vars
    BY <1>5, LcoreService
<1> QED
    BY <1>1, <1>2, <1>3, <1>4, <1>5 DEF Next, Main

\* tx_loop, main() and the card implement the service: each flow takes its launch
\* times one by one, each gets one outcome, and none is given up too early.
THEOREM RefinesFlowService == Spec => ImplementsFlowService
<1>1. IInv /\ Locals /\ [Next]_vars => [Service!Next]_Service!vars
    BY StepRefines
<1> QED
    BY <1>1, ServiceInit, InitIInv, IInvInductive, LocalsInit, LocalsInductive, PTL
       DEF Spec, ImplementsFlowService, Service!Spec

-----------------------------------------------------------------------------
(* The frames behind the hardware times.                                   *)

\* If fr is a frame of f, its launch time is one of the first n.
GridFrame(f, fr, n) ==
    fr.flow = f => \E j \in 1 .. n : fr.txtime = base_time + offset(f) + period(f) * j

\* If both are frames of f, a is launched before b.
Earlier(f, a, b) == a.flow = f /\ b.flow = f => a.txtime < b.txtime

\* The frames of f counted, but for one whose stamp the lcore waits for.
Dated(f) ==
    count[f].total - IF pc[queue(f)] = "stamp" /\ flow[queue(f)] = f THEN 1 ELSE 0

FramesOnGrid(f) ==
    /\ GridFrame(f, prev_hwtime[f], Dated(f))
    /\ GridFrame(f, stamp, count[f].total)
    /\ \A i \in 1 .. Len(ring[queue(f)]) : GridFrame(f, ring[queue(f)][i], count[f].total)

\* First the frame whose time the flow has, then the register's, then those of the ring.
FramesInOrder(f) ==
    LET r == ring[queue(f)]
    IN  /\ Earlier(f, prev_hwtime[f], stamp)
        /\ \A i \in 1 .. Len(r) : Earlier(f, prev_hwtime[f], r[i]) /\ Earlier(f, stamp, r[i])
        /\ \A i, j \in 1 .. Len(r) : i < j => Earlier(f, r[i], r[j])

\* A ring holds frames of its own queue.
OwnRings == \A q \in Queues : \A i \in 1 .. Len(ring[q]) : queue(ring[q][i].flow) = q

Trail == OwnRings /\ \A f \in Flows : FramesOnGrid(f) /\ FramesInOrder(f)

LEMMA DatedType ==
    ASSUME TypeOK, NEW f \in Flows
    PROVE  count[f].total \in Nat /\ Dated(f) \in Int /\ Dated(f) <= count[f].total
<1>1. count[f].total \in Nat
    BY DEF TypeOK, Counters
<1> QED BY <1>1 DEF Dated

\* Counting on does no harm.
LEMMA GridFrameKept ==
    ASSUME NEW f \in Flows, NEW fr, NEW m \in Int, NEW n \in Int, m <= n,
           GridFrame(f, fr, m), base_time' = base_time
    PROVE  GridFrame(f, fr, n) /\ (fr.flow = f => \E j \in 1 .. n :
                fr.txtime = base_time' + offset(f) + period(f) * j)
BY DEF GridFrame

LEMMA NoFrameIsNone ==
    ASSUME NEW f \in Flows
    PROVE  NoFrame.flow # f
BY FlowTypes DEF NoFrame

\* A step that takes nothing in.
LEMMA TrailKept ==
    ASSUME TypeOK, TypeOK', NEW f \in Flows, FramesOnGrid(f), FramesInOrder(f),
           base_time' = base_time,
           ring'[queue(f)] \in {ring[queue(f)], <<>>},
           stamp' \in {stamp, NoFrame},
           prev_hwtime'[f] \in {prev_hwtime[f], NoFrame},
           count'[f].total >= count[f].total, Dated(f)' >= Dated(f)
    PROVE  FramesOnGrid(f)' /\ FramesInOrder(f)'
<1>1. /\ count[f].total \in Nat /\ Dated(f) \in Int
      /\ count'[f].total \in Nat /\ Dated(f)' \in Int
  <2>1. count[f].total \in Nat /\ Dated(f) \in Int
      BY DatedType
  <2>2. count'[f].total \in Nat
      BY DEF TypeOK, Counters
  <2> QED BY <2>1, <2>2 DEF Dated
<1>2. NoFrame.flow # f
    BY NoFrameIsNone
<1>3. GridFrame(f, prev_hwtime[f], Dated(f))'
  <2>1. GridFrame(f, prev_hwtime[f], Dated(f))
      BY DEF FramesOnGrid
  <2>2. prev_hwtime[f].flow = f => \E j \in 1 .. Dated(f)' :
            prev_hwtime[f].txtime = base_time' + offset(f) + period(f) * j
      BY <1>1, <2>1, GridFrameKept
  <2> QED BY <1>2, <2>2 DEF GridFrame
<1>4. GridFrame(f, stamp, count[f].total)'
  <2>1. GridFrame(f, stamp, count[f].total)
      BY DEF FramesOnGrid
  <2>2. stamp.flow = f => \E j \in 1 .. count'[f].total :
            stamp.txtime = base_time' + offset(f) + period(f) * j
      BY <1>1, <2>1, GridFrameKept
  <2> QED BY <1>2, <2>2 DEF GridFrame
<1>5. ASSUME NEW i \in 1 .. Len(ring'[queue(f)])
      PROVE  i \in 1 .. Len(ring[queue(f)]) /\ ring'[queue(f)][i] = ring[queue(f)][i]
    BY <1>5
<1>6. ASSUME NEW i \in 1 .. Len(ring'[queue(f)])
      PROVE  GridFrame(f, ring[queue(f)][i], count[f].total)'
  <2>1. GridFrame(f, ring[queue(f)][i], count[f].total)
      BY <1>5 DEF FramesOnGrid
  <2>2. ring[queue(f)][i].flow = f => \E j \in 1 .. count'[f].total :
            ring[queue(f)][i].txtime = base_time' + offset(f) + period(f) * j
      BY <1>1, <2>1, GridFrameKept
  <2> QED BY <1>5, <2>2 DEF GridFrame
<1>7. FramesOnGrid(f)'
    BY <1>3, <1>4, <1>6 DEF FramesOnGrid
<1>8. FramesInOrder(f)'
    BY <1>2, <1>5 DEF FramesInOrder, Earlier
<1> QED BY <1>7, <1>8

\* A launch time of f is later than those before it.
LEMMA LaterLaunch ==
    ASSUME NEW f \in Flows, base_time \in Nat, NEW a, NEW b, NEW n \in Nat,
           GridFrame(f, a, n), b.txtime = base_time + offset(f) + period(f) * (n + 1)
    PROVE  Earlier(f, a, b)
<1> SUFFICES ASSUME a.flow = f PROVE a.txtime < b.txtime
    BY DEF Earlier
<1>1. PICK j \in 1 .. n : a.txtime = base_time + offset(f) + period(f) * j
    BY DEF GridFrame
<1>2. period(f) \in Nat \ {0} /\ offset(f) \in Nat
    BY FlowTypes
<1>3. \A p \in Nat \ {0}, i, k \in Nat : p * (i + k + 1) = p * i + p * k + p
    OBVIOUS
<1>4. j \in Nat /\ n - j \in Nat /\ j + (n - j) + 1 = n + 1
    BY <1>1
<1>5. period(f) * (n + 1) = period(f) * j + period(f) * (n - j) + period(f)
    BY <1>2, <1>3, <1>4
<1>6. period(f) * (n - j) \in Nat /\ period(f) * j \in Nat
    BY <1>2, <1>4
<1> DEFINE u == period(f) * (n + 1)
           v == period(f) * j
           w == period(f) * (n - j)
<1>7. /\ u = v + w + period(f) /\ w \in Nat /\ v \in Nat
      /\ b.txtime = base_time + offset(f) + u /\ a.txtime = base_time + offset(f) + v
    BY <1>1, <1>5, <1>6
<1> HIDE DEF u, v, w
<1> QED BY <1>2, <1>7

\* The lcore hands a frame over.
LEMMA TrailSent ==
    ASSUME IInv, GridInv, Locals, Trail, NEW q \in Queues, SendOk(q), TypeOK',
           NEW f \in Flows, queue(f) = q
    PROVE  FramesOnGrid(f)' /\ FramesInOrder(f)'
<1> DEFINE fr == [flow |-> flow[q], txtime |-> txtime[q]]
           r == ring[q]
           n == count[f].total
<1>0. /\ TypeOK /\ Lcore(q) /\ pc[q] = "send" /\ main # "setup"
      /\ flow[q] \in Flows /\ queue(flow[q]) = q /\ flow[q] # NoFlow
  <2>1. TypeOK /\ Lcore(q) /\ pc[q] = "send"
      BY DEF IInv, Lcore, SendOk
  <2>2. main # "setup"
      BY <2>1 DEF IInv, Shape
  <2>3. flow[q] = FlowHere(q)
      BY <2>1 DEF IInv, Shape
  <2> QED BY <2>1, <2>2, <2>3, FlowHereType, FlowTypes
<1>1. /\ ring' = [ring EXCEPT ![q] = Append(@, fr)] /\ stamp' = stamp
      /\ prev_hwtime' = prev_hwtime /\ base_time' = base_time /\ flow' = flow
      /\ update_nums(q, flow[q], FALSE, FALSE)
    BY DEF SendOk, mainVars
<1>2. n \in Nat /\ base_time \in Nat /\ r \in Seq(Frame) /\ ring'[q] = Append(r, fr)
    BY <1>0, <1>1 DEF TypeOK, Counters
<1>3. count'[f].total = IF f = flow[q] THEN n + 1 ELSE n
    BY <1>0, <1>1, CountedTotal
<1>4. pc[q] # "stamp" /\ Dated(f) = n
    BY <1>0, <1>2 DEF Dated
<1>5. Dated(f)' \in Int /\ Dated(f)' >= n /\ count'[f].total \in Nat /\ count'[f].total >= n
  <2>1. CASE flow[q] = f
    <3>1. count'[f].total = n + 1
        BY <1>3, <2>1
    <3>2. Dated(f)' = count'[f].total \/ Dated(f)' = count'[f].total - 1
        BY <1>2, <3>1 DEF Dated
    <3> QED BY <1>2, <3>1, <3>2
  <2>2. CASE flow[q] # f
    <3>1. count'[f].total = n
        BY <1>3, <2>2
    <3>2. Dated(f)' = count'[f].total
        BY <1>1, <1>2, <2>2, <3>1 DEF Dated
    <3> QED BY <1>2, <3>1, <3>2
  <2> QED BY <2>1, <2>2
<1>6. flow[q] = f => fr.txtime = base_time + offset(f) + period(f) * (n + 1)
  <2>1. txtime[q] = sche_time[flow[q]]
      BY <1>0 DEF Locals, LocalsAt
  <2>2. flow[q] = f => InHand(f)
      BY <1>0 DEF InHand
  <2>3. sche_time[f] = base_time + offset(f) + period(f) * (n + IF InHand(f) THEN 1 ELSE 0)
      BY <1>0 DEF GridInv, GridAligned
  <2> QED BY <2>1, <2>2, <2>3
<1>7. /\ GridFrame(f, prev_hwtime[f], n) /\ GridFrame(f, stamp, n)
      /\ \A i \in 1 .. Len(r) : GridFrame(f, r[i], n)
    BY <1>4 DEF Trail, FramesOnGrid
<1>8. /\ Earlier(f, prev_hwtime[f], fr) /\ Earlier(f, stamp, fr)
      /\ \A i \in 1 .. Len(r) : Earlier(f, r[i], fr)
  <2>1. CASE flow[q] = f
      BY <1>2, <1>6, <1>7, <2>1, LaterLaunch
  <2>2. CASE flow[q] # f
      BY <2>2 DEF Earlier
  <2> QED BY <2>1, <2>2
<1>9. /\ Len(ring'[q]) = Len(r) + 1 /\ Len(r) \in Nat
      /\ \A i \in 1 .. Len(r) : ring'[q][i] = r[i]
      /\ ring'[q][Len(r) + 1] = fr
    BY <1>2
<1>10. \A i \in 1 .. Len(ring'[q]) : i \in 1 .. Len(r) \/ i = Len(r) + 1
    BY <1>9
<1>11. FramesOnGrid(f)'
  <2>1. GridFrame(f, prev_hwtime[f], Dated(f))'
    <3>1. prev_hwtime[f].flow = f => \E j \in 1 .. Dated(f)' :
              prev_hwtime[f].txtime = base_time' + offset(f) + period(f) * j
        BY <1>1, <1>2, <1>5, <1>7, GridFrameKept
    <3> QED BY <1>1, <3>1 DEF GridFrame
  <2>2. GridFrame(f, stamp, count[f].total)'
    <3>1. stamp.flow = f => \E j \in 1 .. count'[f].total :
              stamp.txtime = base_time' + offset(f) + period(f) * j
        BY <1>1, <1>2, <1>5, <1>7, GridFrameKept
    <3> QED BY <1>1, <3>1 DEF GridFrame
  <2>3. ASSUME NEW i \in 1 .. Len(ring'[q])
        PROVE  GridFrame(f, ring[q][i], count[f].total)'
    <3>1. CASE i \in 1 .. Len(r)
      <4>1. r[i].flow = f => \E j \in 1 .. count'[f].total :
                r[i].txtime = base_time' + offset(f) + period(f) * j
          BY <1>1, <1>2, <1>5, <1>7, <3>1, GridFrameKept
      <4> QED BY <1>9, <3>1, <4>1 DEF GridFrame
    <3>2. CASE i = Len(r) + 1
      <4>1. fr.flow = f => count'[f].total = n + 1 /\ n + 1 \in 1 .. n + 1
          BY <1>2, <1>3
      <4>2. fr.flow = f => \E j \in 1 .. count'[f].total :
                fr.txtime = base_time' + offset(f) + period(f) * j
          BY <1>1, <1>6, <4>1
      <4> QED BY <1>9, <3>2, <4>2 DEF GridFrame
    <3> QED BY <1>10, <3>1, <3>2
  <2> QED BY <2>1, <2>2, <2>3 DEF FramesOnGrid
<1>12. FramesInOrder(f)'
  <2>1. /\ Earlier(f, prev_hwtime[f], stamp)
        /\ \A i \in 1 .. Len(r) : Earlier(f, prev_hwtime[f], r[i]) /\ Earlier(f, stamp, r[i])
        /\ \A i, j \in 1 .. Len(r) : i < j => Earlier(f, r[i], r[j])
      BY DEF Trail, FramesInOrder
  <2>2. \A i \in 1 .. Len(ring'[q]) :
            Earlier(f, prev_hwtime[f], ring'[q][i]) /\ Earlier(f, stamp, ring'[q][i])
      BY <1>8, <1>9, <1>10, <2>1
  <2>3. ASSUME NEW i \in 1 .. Len(ring'[q]), NEW j \in 1 .. Len(ring'[q]), i < j
        PROVE  Earlier(f, ring'[q][i], ring'[q][j])
    <3>1. i \in 1 .. Len(r)
        BY <1>9, <2>3
    <3>2. CASE j \in 1 .. Len(r)
        BY <1>9, <2>1, <2>3, <3>1, <3>2
    <3>3. CASE j = Len(r) + 1
        BY <1>8, <1>9, <3>1, <3>3
    <3> QED BY <1>10, <3>2, <3>3
  <2>4. /\ Earlier(f, prev_hwtime'[f], stamp')
        /\ \A i \in 1 .. Len(ring'[q]) :
              Earlier(f, prev_hwtime'[f], ring'[q][i]) /\ Earlier(f, stamp', ring'[q][i])
      BY <1>1, <2>1, <2>2
  <2> QED BY <2>3, <2>4 DEF FramesInOrder, Earlier
<1> QED BY <1>11, <1>12

\* The card sends the oldest frame of a ring.
LEMMA TrailLaunched ==
    ASSUME TypeOK, TypeOK', Trail, NEW p \in Queues, NicLaunch(p), NEW f \in Flows
    PROVE  FramesOnGrid(f)' /\ FramesInOrder(f)'
<1> DEFINE q == queue(f)
<1>0. /\ ring[p] # <<>> /\ ring[p] \in Seq(Frame) /\ q \in Queues
      /\ ring' = [ring EXCEPT ![p] = Tail(@)]
      /\ stamp' \in {stamp, Head(ring[p])}
      /\ UNCHANGED <<pc, flow, prev_hwtime, base_time, count>>
    BY FlowTypes DEF NicLaunch, TypeOK, mainVars, localVars, statVars
<1>1. Dated(f)' = Dated(f)
    BY <1>0 DEF Dated
<1>2. CASE p # q
  <2>1. ring'[q] = ring[q]
      BY <1>0, <1>2 DEF TypeOK
  <2>2. Head(ring[p]).flow # f
    <3>1. 1 \in 1 .. Len(ring[p]) /\ Head(ring[p]) = ring[p][1]
        BY <1>0
    <3>2. queue(ring[p][1].flow) = p
        BY <3>1 DEF Trail, OwnRings
    <3> QED BY <1>2, <3>1, <3>2
  <2>3. FramesOnGrid(f) /\ FramesInOrder(f)
      BY DEF Trail
  <2>4. FramesOnGrid(f)'
      BY <1>0, <1>1, <2>1, <2>2, <2>3 DEF FramesOnGrid, GridFrame
  <2>5. FramesInOrder(f)'
      BY <1>0, <2>1, <2>2, <2>3 DEF FramesInOrder, Earlier
  <2> QED BY <2>4, <2>5
<1>3. CASE p = q
  <2> DEFINE r == ring[q]
  <2>1. /\ ring'[q] = Tail(r) /\ Head(r) = r[1] /\ 1 \in 1 .. Len(r)
        /\ \A i \in 1 .. Len(ring'[q]) : i + 1 \in 1 .. Len(r) /\ ring'[q][i] = r[i + 1]
    <3>1. ring'[q] = Tail(r) /\ r \in Seq(Frame) /\ r # <<>>
        BY <1>0, <1>3 DEF TypeOK
    <3>2. Len(Tail(r)) = Len(r) - 1 /\ Len(r) \in Nat \ {0}
        BY <3>1
    <3>3. \A i \in 1 .. Len(Tail(r)) : i + 1 \in 1 .. Len(r) /\ Tail(r)[i] = r[i + 1]
        BY <3>1, <3>2
    <3> QED BY <3>1, <3>2, <3>3
  <2>2. /\ GridFrame(f, prev_hwtime[f], Dated(f)) /\ GridFrame(f, stamp, count[f].total)
        /\ \A i \in 1 .. Len(r) : GridFrame(f, r[i], count[f].total)
      BY DEF Trail, FramesOnGrid
  <2>3. /\ Earlier(f, prev_hwtime[f], stamp)
        /\ \A i \in 1 .. Len(r) : Earlier(f, prev_hwtime[f], r[i]) /\ Earlier(f, stamp, r[i])
        /\ \A i, j \in 1 .. Len(r) : i < j => Earlier(f, r[i], r[j])
      BY DEF Trail, FramesInOrder
  <2>4. stamp' \in {stamp, r[1]}
      BY <1>0, <1>3, <2>1
  <2>5. FramesOnGrid(f)'
    <3>1. GridFrame(f, stamp', count[f].total)
        BY <2>1, <2>2, <2>4
    <3>2. \A i \in 1 .. Len(ring'[q]) : GridFrame(f, ring'[q][i], count[f].total)
        BY <2>1, <2>2
    <3> QED BY <1>0, <1>1, <2>2, <3>1, <3>2 DEF FramesOnGrid, GridFrame
  <2>6. FramesInOrder(f)'
    <3>1. Earlier(f, prev_hwtime[f], stamp')
        BY <2>1, <2>3, <2>4
    <3>2. ASSUME NEW i \in 1 .. Len(ring'[q])
          PROVE  Earlier(f, prev_hwtime[f], ring'[q][i]) /\ Earlier(f, stamp', ring'[q][i])
      <4>1. i + 1 \in 1 .. Len(r) /\ ring'[q][i] = r[i + 1] /\ 1 < i + 1
          BY <2>1, <3>2
      <4>2. Earlier(f, r[1], r[i + 1])
          BY <2>1, <2>3, <4>1
      <4> QED BY <2>3, <2>4, <4>1, <4>2
    <3>3. ASSUME NEW i \in 1 .. Len(ring'[q]), NEW j \in 1 .. Len(ring'[q]), i < j
          PROVE  Earlier(f, ring'[q][i], ring'[q][j])
      <4>1. /\ i + 1 \in 1 .. Len(r) /\ ring'[q][i] = r[i + 1]
            /\ j + 1 \in 1 .. Len(r) /\ ring'[q][j] = r[j + 1] /\ i + 1 < j + 1
          BY <2>1, <3>3
      <4> QED BY <2>3, <4>1
    <3> QED BY <1>0, <3>1, <3>2, <3>3 DEF FramesInOrder, Earlier
  <2> QED BY <2>5, <2>6
<1> QED BY <1>2, <1>3

\* The lcore takes the stamp there is, for the flow in hand.
LEMMA TrailRead ==
    ASSUME IInv, Trail, TypeOK', NEW q \in Queues, ReadStamp(q), NEW f \in Flows, queue(f) = q
    PROVE  FramesOnGrid(f)' /\ FramesInOrder(f)'
<1>0. /\ TypeOK /\ Lcore(q) /\ pc[q] = "stamp" /\ pc[q] # "idle" /\ NextFrame(q)
      /\ prev_hwtime' = [prev_hwtime EXCEPT ![flow[q]] = stamp] /\ stamp' = NoFrame
      /\ UNCHANGED <<base_time, count, ring, flow>>
    BY DEF IInv, Lcore, ReadStamp, mainVars, statVars
<1>1. pc'[q] # "stamp"
    BY <1>0, NextFrameLocals
<1>2. Dated(f)' = count[f].total /\ Dated(f) <= count[f].total /\ count[f].total \in Nat
      /\ Dated(f) \in Int
  <2>1. count[f].total \in Nat /\ Dated(f) \in Int /\ Dated(f) <= count[f].total
      BY <1>0, DatedType
  <2> QED BY <1>0, <1>1, <2>1 DEF Dated
<1>3. prev_hwtime'[f] \in {prev_hwtime[f], stamp}
    BY <1>0 DEF TypeOK
<1>4. NoFrame.flow # f
    BY NoFrameIsNone
<1>5. FramesOnGrid(f) /\ FramesInOrder(f)
    BY DEF Trail
<1>6. GridFrame(f, prev_hwtime[f], count[f].total)
  <2>1. GridFrame(f, prev_hwtime[f], Dated(f))
      BY <1>5 DEF FramesOnGrid
  <2> QED BY <1>2, <2>1 DEF GridFrame
<1>7. GridFrame(f, prev_hwtime'[f], count[f].total)
    BY <1>3, <1>5, <1>6 DEF FramesOnGrid
<1>8. FramesOnGrid(f)'
    BY <1>0, <1>2, <1>4, <1>5, <1>7 DEF FramesOnGrid, GridFrame
<1>9. FramesInOrder(f)'
    BY <1>0, <1>3, <1>4, <1>5 DEF FramesInOrder, Earlier
<1> QED BY <1>8, <1>9

\* The other steps of the lcore take nothing in.
LEMMA TrailOwn ==
    ASSUME IInv, GridInv, Locals, Trail, TypeOK', NEW q \in Queues, Lcore(q), NEW f \in Flows,
           queue(f) = q
    PROVE  FramesOnGrid(f)' /\ FramesInOrder(f)'
<1>0. /\ TypeOK /\ Shape /\ pc[q] # "idle" /\ base_time' = base_time
      /\ FramesOnGrid(f) /\ FramesInOrder(f)
      /\ count[f].total \in Nat /\ Dated(f) \in Int /\ Dated(f) <= count[f].total
    BY LcoreMoves, DatedType DEF IInv, Trail, mainVars
<1>1. CASE SendOk(q)
    BY <1>1, TrailSent
<1>2. CASE ReadStamp(q)
    BY <1>2, TrailRead
<1>3. CASE ~SendOk(q) /\ ~ReadStamp(q)
  <2>1. ring' = ring /\ stamp' \in {stamp, NoFrame}
      BY <1>3 DEF Lcore, StartLoop, LoopTest, FrameMissed, FrameKept, BeginFrame, Wake, SendFail,
         StampTimeout, nicVars
  <2>2. prev_hwtime'[f] \in {prev_hwtime[f], NoFrame}
    <3>1. \/ prev_hwtime' = prev_hwtime
          \/ ForgetStamp(FlowHere(q)) \/ ForgetStamp(flow[q])
        BY <1>3 DEF Lcore, StartLoop, LoopTest, FrameMissed, FrameKept, BeginFrame, Wake,
           SendFail, StampTimeout
    <3> QED BY <1>0, <3>1 DEF ForgetStamp, TypeOK
  <2>3. count'[f].total >= count[f].total /\ count'[f].total \in Nat
    <3>0. FlowHere(q) \in Flows /\ (pc[q] = "send" => flow[q] = FlowHere(q))
        BY <1>0, FlowHereType DEF Shape
    <3>1. \/ count' = count
          \/ update_nums(q, FlowHere(q), TRUE, FALSE)
          \/ pc[q] = "send" /\ update_nums(q, flow[q], FALSE, TRUE)
        BY <1>3 DEF Lcore, StartLoop, LoopTest, FrameMissed, FrameKept, BeginFrame, Wake,
           SendFail, StampTimeout, statVars
    <3>2. CASE count' = count
        BY <1>0, <3>2
    <3>3. CASE update_nums(q, FlowHere(q), TRUE, FALSE)
      <4>1. count'[f].total = IF f = FlowHere(q) THEN count[f].total + 1 ELSE count[f].total
          BY <1>0, <3>0, <3>3, CountedTotal
      <4> QED BY <1>0, <4>1
    <3>4. CASE pc[q] = "send" /\ update_nums(q, flow[q], FALSE, TRUE)
      <4>1. count'[f].total = IF f = FlowHere(q) THEN count[f].total + 1 ELSE count[f].total
          BY <1>0, <3>0, <3>4, CountedTotal
      <4> QED BY <1>0, <4>1
    <3> QED BY <3>1, <3>2, <3>3, <3>4
  <2>4. pc'[q] # "stamp"
    <3>1. \/ NextFrame(q)
          \/ \E label \in {"while", "for", "done", "sleep", "send"} : Goto(q, label)
        BY <1>3 DEF Lcore, StartLoop, LoopTest, FrameMissed, FrameKept, BeginFrame, Wake,
           SendFail, StampTimeout
    <3> QED BY <1>0, <3>1, NextFrameLocals, GotoType
  <2>5. Dated(f)' >= Dated(f)
    <3>1. Dated(f)' = count'[f].total
        BY <2>3, <2>4 DEF Dated
    <3> QED BY <1>0, <2>3, <3>1
  <2>6. ring'[queue(f)] \in {ring[queue(f)], <<>>}
      BY <2>1
  <2> QED BY <1>0, <2>1, <2>2, <2>3, <2>5, <2>6, TrailKept
<1> QED BY <1>1, <1>2, <1>3

\* An lcore takes stamps from another one, but never writes to its flows.
LEMMA TrailOther ==
    ASSUME IInv, Trail, TypeOK', NEW q \in Queues, Lcore(q), NEW f \in Flows, queue(f) # q
    PROVE  FramesOnGrid(f)' /\ FramesInOrder(f)'
<1>0. /\ TypeOK /\ Shape /\ pc[q] # "idle" /\ base_time' = base_time
      /\ FramesOnGrid(f) /\ FramesInOrder(f) /\ queue(f) \in Queues \ {q}
    BY LcoreMoves, FlowTypes DEF IInv, Trail, mainVars
<1>1. count'[f] = count[f]
    BY OtherQueueStep
<1>2. pc'[queue(f)] = pc[queue(f)] /\ flow'[queue(f)] = flow[queue(f)]
    BY <1>0, LcoreMoves
<1>3. Dated(f)' = Dated(f)
    BY <1>1, <1>2 DEF Dated
<1>4. ring'[queue(f)] = ring[queue(f)] /\ stamp' \in {stamp, NoFrame}
    BY <1>0 DEF Lcore, StartLoop, LoopTest, FrameMissed, FrameKept, BeginFrame, Wake, SendOk,
       SendFail, ReadStamp, StampTimeout, nicVars, TypeOK
<1>5. prev_hwtime'[f] = prev_hwtime[f]
  <2>1. FlowHere(q) # f /\ (pc[q] \in {"send", "stamp"} => flow[q] # f)
      BY <1>0, FlowHereType DEF Shape
  <2>2. \/ prev_hwtime' = prev_hwtime
        \/ ForgetStamp(FlowHere(q))
        \/ pc[q] = "send" /\ ForgetStamp(flow[q])
        \/ pc[q] = "stamp" /\ prev_hwtime' = [prev_hwtime EXCEPT ![flow[q]] = stamp]
      BY DEF Lcore, StartLoop, LoopTest, FrameMissed, FrameKept, BeginFrame, Wake, SendOk,
         SendFail, ReadStamp, StampTimeout
  <2> QED BY <1>0, <2>1, <2>2 DEF ForgetStamp, TypeOK
<1>6. Dated(f) \in Int /\ count[f].total \in Nat
    BY <1>0, DatedType
<1>7. Dated(f)' >= Dated(f) /\ count'[f].total >= count[f].total
    BY <1>1, <1>3, <1>6
<1> QED BY <1>0, <1>4, <1>5, <1>7, TrailKept

\* Frames enter a ring at the hand-over only.
LEMMA OwnRingsInductive ==
    ASSUME IInv, OwnRings, [Next]_vars
    PROVE  OwnRings'
<1>0. TypeOK /\ Shape
    BY DEF IInv
<1>1. ASSUME NEW q \in Queues, SendOk(q) PROVE OwnRings'
  <2> DEFINE fr == [flow |-> flow[q], txtime |-> txtime[q]]
  <2>1. pc[q] = "send" /\ flow[q] = FlowHere(q) /\ ring' = [ring EXCEPT ![q] = Append(@, fr)]
      BY <1>0, <1>1 DEF SendOk, Shape
  <2>2. queue(flow[q]) = q
      BY <1>0, <2>1, FlowHereType
  <2>3. ASSUME NEW p \in Queues, NEW i \in 1 .. Len(ring'[p])
        PROVE  queue(ring'[p][i].flow) = p
    <3>1. CASE p # q
      <4>1. ring'[p] = ring[p]
          BY <1>0, <2>1, <3>1 DEF TypeOK
      <4> QED BY <2>3, <4>1 DEF OwnRings
    <3>2. CASE p = q
      <4>1. ring'[q] = Append(ring[q], fr) /\ ring[q] \in Seq(Frame)
          BY <1>0, <2>1 DEF TypeOK
      <4>2. \/ i \in 1 .. Len(ring[q]) /\ ring'[q][i] = ring[q][i]
            \/ ring'[q][i] = fr
          BY <2>3, <3>2, <4>1
      <4> QED BY <2>2, <3>2, <4>2 DEF OwnRings
    <3> QED BY <3>1, <3>2
  <2> QED BY <2>3 DEF OwnRings
<1>2. ASSUME NEW q \in Queues, NicLaunch(q) PROVE OwnRings'
  <2>1. /\ ring' = [ring EXCEPT ![q] = Tail(@)] /\ ring[q] # <<>> /\ ring[q] \in Seq(Frame)
      BY <1>0, <1>2 DEF NicLaunch, TypeOK
  <2>2. \A i \in 1 .. Len(Tail(ring[q])) :
            i + 1 \in 1 .. Len(ring[q]) /\ Tail(ring[q])[i] = ring[q][i + 1]
    <3>1. Len(Tail(ring[q])) = Len(ring[q]) - 1 /\ Len(ring[q]) \in Nat \ {0}
        BY <2>1
    <3> QED BY <2>1, <3>1
  <2>3. \A p \in Queues : ring'[p] = IF p = q THEN Tail(ring[q]) ELSE ring[p]
      BY <1>0, <2>1 DEF TypeOK
  <2>4. ASSUME NEW p \in Queues, NEW i \in 1 .. Len(ring'[p])
        PROVE  queue(ring'[p][i].flow) = p
    <3>1. CASE p # q
        BY <2>3, <2>4, <3>1 DEF OwnRings
    <3>2. CASE p = q
      <4>1. ring'[p] = Tail(ring[q]) /\ i \in 1 .. Len(Tail(ring[q]))
          BY <2>3, <2>4, <3>2
      <4>2. i + 1 \in 1 .. Len(ring[q]) /\ ring'[p][i] = ring[q][i + 1]
          BY <2>2, <4>1
      <4> QED BY <3>2, <4>2 DEF OwnRings
    <3> QED BY <3>1, <3>2
  <2> QED BY <2>4 DEF OwnRings
<1>3. CASE Cleanup
    BY <1>3 DEF Cleanup, OwnRings
<1>4. CASE ~(\E q \in Queues : SendOk(q) \/ NicLaunch(q)) /\ ~Cleanup
  <2>1. ring' = ring
      BY <1>4 DEF Next, Main, SetBaseTime, LaunchLcore, AllLaunched, Tick, Stopped, Lcore,
         StartLoop, LoopTest, FrameMissed, FrameKept, BeginFrame, Wake, SendFail, ReadStamp,
         StampTimeout, vars, nicVars
  <2> QED BY <2>1 DEF OwnRings
<1> QED BY <1>1, <1>2, <1>3, <1>4

LEMMA TrailInit == Init => Trail
<1> SUFFICES ASSUME Init PROVE Trail
    OBVIOUS
<1>1. /\ \A q \in Queues : ring[q] = <<>>
      /\ \A f \in Flows : prev_hwtime[f] = NoFrame /\ queue(f) \in Queues
      /\ stamp = NoFrame
    BY FlowTypes DEF Init
<1>2. \A q \in Queues : 1 .. Len(ring[q]) = {}
    BY <1>1
<1>3. OwnRings
    BY <1>2 DEF OwnRings
<1>4. ASSUME NEW f \in Flows PROVE FramesOnGrid(f) /\ FramesInOrder(f)
  <2>1. NoFrame.flow # f
      BY NoFrameIsNone
  <2>2. prev_hwtime[f] = NoFrame /\ stamp = NoFrame /\ 1 .. Len(ring[queue(f)]) = {}
      BY <1>1, <1>2
  <2>3. FramesOnGrid(f)
      BY <2>1, <2>2 DEF FramesOnGrid, GridFrame
  <2>4. FramesInOrder(f)
      BY <2>1, <2>2 DEF FramesInOrder, Earlier
  <2> QED BY <2>3, <2>4
<1> QED BY <1>3, <1>4 DEF Trail

LEMMA TrailInductive ==
    ASSUME IInv, GridInv, Locals, Trail, [Next]_vars
    PROVE  Trail'
<1>0. TypeOK /\ Shape /\ TypeOK'
    BY IInvInductive DEF IInv
<1>1. ASSUME NEW f \in Flows
      PROVE  FramesOnGrid(f)' /\ FramesInOrder(f)'
  <2>0. FramesOnGrid(f) /\ FramesInOrder(f) /\ queue(f) \in Queues
        /\ count[f].total \in Nat /\ Dated(f) \in Int
      BY <1>0, DatedType, FlowTypes DEF Trail
  <2>1. CASE SetBaseTime
    <3>1. /\ main = "setup" /\ UNCHANGED <<pc, flow, count, ring, stamp, prev_hwtime>>
        BY <2>1 DEF SetBaseTime, localVars, statVars, nicVars
    <3>2. count[f].total = 0 /\ pc[queue(f)] = "idle"
        BY <1>0, <2>0, <3>1 DEF GridInv, Shape
    <3>3. Dated(f) = 0
        BY <3>2 DEF Dated
    <3>4. /\ prev_hwtime[f].flow # f /\ stamp.flow # f
          /\ \A i \in 1 .. Len(ring[queue(f)]) : ring[queue(f)][i].flow # f
        BY <2>0, <3>2, <3>3 DEF FramesOnGrid, GridFrame
    <3>5. FramesOnGrid(f)'
        BY <3>1, <3>4 DEF FramesOnGrid, GridFrame
    <3>6. FramesInOrder(f)'
        BY <3>1, <3>4 DEF FramesInOrder, Earlier
    <3> QED BY <3>5, <3>6
  <2>2. CASE LaunchLcore \/ AllLaunched \/ Cleanup \/ Tick \/ Stopped \/ UNCHANGED vars
    <3>1. /\ UNCHANGED <<base_time, flow, count, prev_hwtime>>
          /\ stamp' \in {stamp, NoFrame}
        BY <2>2 DEF LaunchLcore, AllLaunched, Cleanup, Tick, Stopped, vars, mainVars, localVars,
           statVars, nicVars
    <3>2. ring'[queue(f)] \in {ring[queue(f)], <<>>}
        BY <2>0, <2>2 DEF LaunchLcore, AllLaunched, Cleanup, Tick, Stopped, vars, nicVars
    <3>3. \/ pc'[queue(f)] = pc[queue(f)]
          \/ pc[queue(f)] = "idle" /\ pc'[queue(f)] = "start"
      <4>1. CASE LaunchLcore
        <5>1. \A p \in Queues : pc'[p] # pc[p] => pc[p] = "idle" /\ pc'[p] = "start"
            BY <1>0, <4>1, OrderAssumption DEF LaunchLcore, TypeOK, Shape
        <5> QED BY <2>0, <5>1
      <4>2. CASE AllLaunched \/ Cleanup \/ Tick \/ Stopped \/ UNCHANGED vars
        <5>1. pc' = pc
            BY <4>2 DEF AllLaunched, Cleanup, Tick, Stopped, vars, localVars
        <5> QED BY <5>1
      <4> QED BY <2>2, <4>1, <4>2
    <3>4. Dated(f)' = Dated(f)
        BY <3>1, <3>3 DEF Dated
    <3>5. Dated(f)' >= Dated(f) /\ count'[f].total >= count[f].total
        BY <2>0, <3>1, <3>4
    <3>6. prev_hwtime'[f] \in {prev_hwtime[f], NoFrame}
        BY <3>1
    <3> QED BY <1>0, <2>0, <3>1, <3>2, <3>5, <3>6, TrailKept
  <2>3. ASSUME NEW q \in Queues, Lcore(q)
        PROVE  FramesOnGrid(f)' /\ FramesInOrder(f)'
      BY <1>0, <2>3, TrailOwn, TrailOther
  <2>4. ASSUME NEW q \in Queues, NicLaunch(q)
        PROVE  FramesOnGrid(f)' /\ FramesInOrder(f)'
      BY <1>0, <2>4, TrailLaunched
  <2> QED BY <2>1, <2>2, <2>3, <2>4 DEF Next, Main
<1>2. OwnRings'
    BY OwnRingsInductive DEF Trail
<1> QED BY <1>1, <1>2 DEF Trail

\* The stamp found for the flow in hand and the previous one of that flow are of launch times
\* whole periods apart, the later one later, for any number of queues, with missed deadlines,
\* refused frames, polls that run out and stamps that come late or to another lcore.
THEOREM JitterInWholePeriods == Spec => []JitterWholePeriods
<1>1. ASSUME IInv, Trail, NEW q \in Queues, pc[q] = "stamp", stamp.flow = flow[q],
             prev_hwtime[flow[q]].flow = flow[q]
      PROVE  \E k \in 1 .. count[flow[q]].total - 1 :
                 stamp.txtime - prev_hwtime[flow[q]].txtime = k * period(flow[q])
  <2> DEFINE f == flow[q]
             n == count[f].total
  <2>1. TypeOK /\ f \in Flows /\ queue(f) = q
    <3>1. TypeOK /\ f = FlowHere(q)
        BY <1>1 DEF IInv, Shape
    <3> QED BY <1>1, <3>1, FlowHereType
  <2>2. n \in Nat /\ Dated(f) = n - 1
      BY <1>1, <2>1, DatedType DEF Dated
  <2>3. PICK i \in 1 .. n - 1 :
            prev_hwtime[f].txtime = base_time + offset(f) + period(f) * i
      BY <1>1, <2>1, <2>2 DEF Trail, FramesOnGrid, GridFrame
  <2>4. PICK j \in 1 .. n : stamp.txtime = base_time + offset(f) + period(f) * j
      BY <1>1, <2>1 DEF Trail, FramesOnGrid, GridFrame
  <2>5. prev_hwtime[f].txtime < stamp.txtime
      BY <1>1, <2>1 DEF Trail, FramesInOrder, Earlier
  <2>6. base_time \in Nat /\ offset(f) \in Nat /\ period(f) \in Nat \ {0}
      BY <2>1, FlowTypes DEF TypeOK
  <2>7. i \in Nat /\ j \in Nat
      BY <2>2
  <2>8. i < j
    <3>1. \A p, a, b \in Nat : p * (a + b) = p * a + p * b /\ p * b \in Nat
        OBVIOUS
    <3>2. ASSUME ~(i < j) PROVE FALSE
      <4>1. i - j \in Nat /\ i = j + (i - j)
          BY <2>7, <3>2
      <4>2. period(f) * i = period(f) * j + period(f) * (i - j) /\ period(f) * (i - j) \in Nat
          BY <2>6, <2>7, <3>1, <4>1
      <4>3. period(f) * j \in Nat
          BY <2>6, <2>7
      <4> DEFINE u == period(f) * i
                 v == period(f) * j
                 w == period(f) * (i - j)
      <4>4. /\ u = v + w /\ v \in Nat /\ w \in Nat
            /\ prev_hwtime[f].txtime = base_time + offset(f) + u
            /\ stamp.txtime = base_time + offset(f) + v
          BY <2>3, <2>4, <4>2, <4>3
      <4> HIDE DEF u, v, w, f
      <4> QED BY <2>5, <2>6, <4>4
    <3> QED BY <3>2
  <2>9. j - i \in 1 .. n - 1 /\ j = i + (j - i)
      BY <2>2, <2>8
  <2>10. stamp.txtime - prev_hwtime[f].txtime = (j - i) * period(f)
    <3>1. \A p, a, b \in Nat : p * (a + b) = p * a + b * p /\ p * a \in Nat /\ b * p \in Nat
        OBVIOUS
    <3>2. /\ period(f) * j = period(f) * i + (j - i) * period(f)
          /\ period(f) * i \in Nat /\ (j - i) * period(f) \in Nat
      <4>1. j - i \in Nat
          BY <2>9
      <4> QED BY <2>6, <2>7, <2>9, <3>1, <4>1
    <3> DEFINE u == period(f) * i
               v == period(f) * j
               w == (j - i) * period(f)
    <3>3. /\ v = u + w /\ u \in Nat /\ w \in Nat
          /\ prev_hwtime[f].txtime = base_time + offset(f) + u
          /\ stamp.txtime = base_time + offset(f) + v
        BY <2>3, <2>4, <3>2
    <3> HIDE DEF u, v, f
    <3>4. stamp.txtime - prev_hwtime[f].txtime = w
      <4> HIDE DEF w
      <4> QED BY <2>6, <3>3
    <3> QED BY <3>4
  <2> QED BY <2>9, <2>10
<1>2. IInv /\ Trail => JitterWholePeriods
    BY <1>1 DEF JitterWholePeriods
<1> QED
    BY <1>2, InitIInv, IInvInductive, GridInit, GridInductive, LocalsInit, LocalsInductive,
       TrailInit, TrailInductive, PTL DEF Spec
=============================================================================
