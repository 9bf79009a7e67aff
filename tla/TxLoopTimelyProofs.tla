------------------------- MODULE TxLoopTimelyProofs -------------------------
(***************************************************************************)
(* Theorems about TxLoopTimely, for every flow table, schedule and         *)
(* parameter.  Those about PatientSpec are for hardware timestamps and one *)
(* queue; with two queues they fail: StampIsOwn is refuted by a run.       *)
(***************************************************************************)
EXTENDS TxLoopTimely, TxLoopProofs

OneQueue == \A p, q \in Queues : p = q

\* The frame whose stamp the lcore waits for.
Awaited(q) == [flow |-> flow[q], txtime |-> txtime[q]]

\* While the lcore polls, its frame is in the ring or its time in the register.
\* At any other moment the card is empty.
CardAt(q) ==
    /\ pc[q] = "stamp" => \/ ring[q] = <<Awaited(q)>> /\ stamp = NoFrame
                          \/ ring[q] = <<>> /\ stamp = Awaited(q)
    /\ pc[q] # "stamp" => ring[q] = <<>> /\ stamp = NoFrame

Card == \A q \in Queues : CardAt(q)

\* What an lcore has taken from the timer of f, and not yet dated.
Pending(f) ==
    IF pc[queue(f)] \in {"sleep", "send", "stamp"} /\ flow[queue(f)] = f
    THEN period(f) ELSE 0

\* The previous hardware time of a flow is that of the launch time before the one
\* in hand, or of the last one taken.
History ==
    \A f \in Flows : prev_hwtime[f] # NoFrame =>
        main # "setup" /\ prev_hwtime[f].txtime = sche_time[f] - Pending(f)

-----------------------------------------------------------------------------

\* A patient step is a step of TxLoop, and each lcore does what it does there.
LEMMA PatientIsNext == [PatientNext]_vars => [Next]_vars
BY DEF PatientNext, PatientLcore, PatientTimeout, Next, Lcore

LEMMA PatientIsLcore ==
    ASSUME NEW q \in Queues, PatientLcore(q)
    PROVE  Lcore(q)
BY DEF PatientLcore, PatientTimeout, Lcore

\* An awaited frame is a frame.
LEMMA AwaitedFrame ==
    ASSUME IInv, NEW q \in Queues, pc[q] \in {"sleep", "send", "stamp"}
    PROVE  /\ flow[q] \in Flows /\ queue(flow[q]) = q
           /\ Awaited(q) # NoFrame /\ Awaited(q).txtime = txtime[q]
<1>1. flow[q] \in Flows /\ queue(flow[q]) = q
    BY FlowHereType DEF IInv, Shape
<1>2. flow[q] # NoFlow
    BY <1>1, FlowTypes
<1>3. Awaited(q).flow # NoFrame.flow
    BY <1>2 DEF Awaited, NoFrame
<1> QED
    BY <1>1, <1>3 DEF Awaited

\* In this state the polls cannot run out.
LEMMA NoTimeout ==
    ASSUME IInv, Card, NEW q \in Queues, PatientTimeout(q)
    PROVE  FALSE
<1>1. pc[q] = "stamp" /\ stamp = NoFrame /\ ring[q] = <<>>
    BY DEF PatientTimeout, StampTimeout
<1>2. Awaited(q) # NoFrame
    BY <1>1, AwaitedFrame
<1>3. CardAt(q)
    BY DEF Card
<1> QED
    BY <1>1, <1>2, <1>3 DEF CardAt

\* Nor can a frame be refused: the ring is empty at every hand-over.
LEMMA NoRefusal ==
    ASSUME IInv, Card, NEW q \in Queues, SendFail(q)
    PROVE  FALSE
<1>1. pc[q] = "send" /\ Len(ring[q]) = NUM_TX_DESC
    BY DEF SendFail
<1>2. ring[q] = <<>>
    BY <1>1 DEF Card, CardAt
<1> QED
    BY <1>1, <1>2, ParameterAssumption

-----------------------------------------------------------------------------
(* The card.                                                               *)

LEMMA CardInit == Init => Card
BY DEF Init, Card, CardAt

\* A step of the only lcore.
LEMMA CardLcore ==
    ASSUME PIT_HW, OneQueue, IInv, Card, NEW q \in Queues, PatientLcore(q)
    PROVE  Card'
<1>0. TypeOK /\ CardAt(q) /\ pc[q] # "idle"
    BY PatientIsLcore, LcoreMoves DEF IInv, Card
<1>1. CASE SendOk(q)
  <2>1. /\ pc[q] = "send" /\ pc'[q] = "stamp"
        /\ ring' = [ring EXCEPT ![q] = Append(@, Awaited(q))]
        /\ stamp' = stamp /\ flow' = flow /\ txtime' = txtime
      BY <1>0, <1>1, GotoType DEF SendOk, Awaited
  <2>2. ring'[q] = Append(<<>>, Awaited(q)) /\ stamp = NoFrame
      BY <1>0, <2>1 DEF CardAt, TypeOK
  <2>3. ring'[q] = <<Awaited(q)>>
      BY <2>2
  <2>4. CardAt(q)'
      BY <2>1, <2>2, <2>3 DEF CardAt, Awaited
  <2> QED
      BY <2>4 DEF Card, OneQueue
<1>2. CASE ReadStamp(q)
  <2>1. pc[q] = "stamp" /\ stamp # NoFrame /\ stamp' = NoFrame /\ ring' = ring
      BY <1>2 DEF ReadStamp
  <2>2. pc'[q] \in {"for", "while"}
      BY <1>0, <1>2, NextFrameLocals DEF ReadStamp
  <2>3. CardAt(q)'
      BY <1>0, <2>1, <2>2 DEF CardAt
  <2> QED
      BY <2>3 DEF Card, OneQueue
<1>3. ASSUME \/ StartLoop(q) \/ LoopTest(q) \/ FrameMissed(q) \/ FrameKept(q)
             \/ Wake(q) \/ SendFail(q)
      PROVE  Card'
  <2>1. pc[q] # "stamp" /\ ring' = ring /\ stamp' = stamp
      BY <1>3 DEF StartLoop, LoopTest, FrameMissed, FrameKept, BeginFrame, Wake, SendFail,
         nicVars
  <2>2. \/ NextFrame(q)
        \/ \E label \in {"while", "for", "done", "sleep", "send"} : Goto(q, label)
      BY <1>3 DEF StartLoop, LoopTest, FrameMissed, FrameKept, BeginFrame, Wake, SendFail
  <2>3. pc'[q] # "stamp"
      BY <1>0, <2>2, NextFrameLocals, GotoType
  <2>4. CardAt(q)'
      BY <1>0, <2>1, <2>3 DEF CardAt
  <2> QED
      BY <2>4 DEF Card, OneQueue
<1> QED
    BY <1>1, <1>2, <1>3, NoTimeout DEF PatientLcore

LEMMA CardInductive ==
    ASSUME PIT_HW, OneQueue, IInv, Card, [PatientNext]_vars
    PROVE  Card'
<1>0. TypeOK /\ Shape
    BY DEF IInv
<1>1. CASE SetBaseTime \/ AllLaunched \/ Tick \/ Stopped \/ UNCHANGED vars
  <2>1. UNCHANGED <<pc, flow, txtime, ring, stamp>>
      BY <1>1 DEF SetBaseTime, AllLaunched, Tick, Stopped, vars, localVars, nicVars
  <2> QED
      BY <2>1 DEF Card, CardAt, Awaited
<1>2. CASE LaunchLcore
  <2>1. \A p \in Queues : pc'[p] # pc[p] => pc[p] = "idle" /\ pc'[p] = "start"
      BY <1>0, <1>2, OrderAssumption DEF LaunchLcore, TypeOK, Shape
  <2>2. UNCHANGED <<flow, txtime, ring, stamp>>
      BY <1>2 DEF LaunchLcore, localVars, nicVars
  <2> QED
      BY <2>1, <2>2 DEF Card, CardAt, Awaited
<1>3. CASE Cleanup
  <2>1. /\ \A q \in Queues : pc[q] # "stamp"
        /\ pc' = pc /\ stamp' = NoFrame /\ ring' = [q \in Queues |-> <<>>]
      BY <1>3 DEF Cleanup
  <2> QED
      BY <2>1 DEF Card, CardAt
<1>4. ASSUME NEW q \in Queues, PatientLcore(q) PROVE Card'
    BY <1>4, CardLcore
<1>5. ASSUME NEW q \in Queues, NicLaunch(q) PROVE Card'
  <2>1. CardAt(q) /\ ring[q] # <<>>
      BY <1>5 DEF NicLaunch, Card
  <2>2. pc[q] = "stamp" /\ ring[q] = <<Awaited(q)>> /\ stamp = NoFrame
      BY <2>1 DEF CardAt
  <2>3. Head(ring[q]) = Awaited(q) /\ Tail(ring[q]) = <<>>
      BY <2>2
  <2>4. /\ ring'[q] = Tail(ring[q]) /\ stamp' = Head(ring[q])
        /\ UNCHANGED <<pc, flow, txtime>>
      BY <1>0, <1>5, <2>2 DEF NicLaunch, OffloadFlags, TypeOK, localVars
  <2>5. CardAt(q)'
      BY <2>2, <2>3, <2>4 DEF CardAt, Awaited
  <2> QED
      BY <2>5 DEF Card, OneQueue
<1> QED
    BY <1>1, <1>2, <1>3, <1>4, <1>5 DEF PatientNext, Main

\* The hardware time the only lcore records is that of the frame it has just sent.
THEOREM StampOwnOneQueue ==
    ASSUME PIT_HW, OneQueue
    PROVE  PatientSpec => StampIsOwn
<1>1. ASSUME IInv, Card, [PatientNext]_vars, NEW q \in Queues, pc[q] = "stamp",
             prev_hwtime'[flow[q]] # prev_hwtime[flow[q]]
      PROVE  prev_hwtime'[flow[q]] = Awaited(q)
  <2>1. TypeOK /\ CardAt(q) /\ flow[q] \in Flows
      BY <1>1, AwaitedFrame DEF IInv, Card
  <2>2. PICK p \in Queues : PatientLcore(p)
      BY <1>1 DEF PatientNext, Main, SetBaseTime, LaunchLcore, AllLaunched, Cleanup, Tick,
         Stopped, NicLaunch, vars, localVars
  <2>3. PatientLcore(q)
      BY <2>2 DEF OneQueue
  <2>4. ReadStamp(q)
      BY <1>1, <2>3, NoTimeout DEF PatientLcore, StartLoop, LoopTest, FrameMissed, FrameKept,
         BeginFrame, Wake, SendOk, SendFail
  <2>5. prev_hwtime'[flow[q]] = stamp /\ stamp # NoFrame
      BY <2>1, <2>4 DEF ReadStamp, TypeOK
  <2> QED
      BY <1>1, <2>1, <2>5 DEF CardAt
<1>2. IInv /\ Card /\ [PatientNext]_vars =>
          [\A q \in Queues :
              pc[q] = "stamp" /\ prev_hwtime'[flow[q]] # prev_hwtime[flow[q]]
                  => prev_hwtime'[flow[q]] = [flow |-> flow[q], txtime |-> txtime[q]]]_vars
    BY <1>1 DEF Awaited
<1> QED
    BY <1>2, InitIInv, IInvInductive, CardInit, CardInductive, PatientIsNext, PTL
       DEF PatientSpec, StampIsOwn

\* When the only lcore has returned the card holds no frame, so stopping the port
\* discards none.
THEOREM DrainedOneQueue ==
    ASSUME PIT_HW, OneQueue
    PROVE  PatientSpec => []DrainedAtStop
<1>1. Card => DrainedAtStop
    BY DEF Card, CardAt, DrainedAtStop
<1> QED
    BY <1>1, InitIInv, IInvInductive, CardInit, CardInductive, PatientIsNext, PTL
       DEF PatientSpec

-----------------------------------------------------------------------------
(* The launch times behind two hardware times that are compared.           *)

LEMMA HistoryInit == Init => History
BY DEF Init, History

\* A step of the only lcore.
LEMMA HistoryLcore ==
    ASSUME PIT_HW, OneQueue, IInv, Locals, Card, History, NEW q \in Queues, PatientLcore(q),
           NEW f \in Flows, prev_hwtime'[f] # NoFrame
    PROVE  main' # "setup" /\ prev_hwtime'[f].txtime = sche_time'[f] - Pending(f)'
<1>0. /\ TypeOK /\ Shape /\ CardAt(q) /\ LocalsAt(q)
      /\ Lcore(q) /\ pc[q] # "idle" /\ main' = main /\ main # "setup"
    BY PatientIsLcore, LcoreMoves DEF IInv, Card, Locals, mainVars, Shape
<1>1. /\ queue(f) = q /\ period(f) \in Nat /\ sche_time[f] \in Nat
      /\ prev_hwtime[f] # NoFrame => prev_hwtime[f].txtime = sche_time[f] - Pending(f)
    BY <1>0, FlowTypes DEF OneQueue, TypeOK, History
<1>2. CASE StartLoop(q) \/ LoopTest(q)
  <2>1. /\ pc[q] \in {"start", "while"} /\ prev_hwtime' = prev_hwtime /\ sche_time' = sche_time
        /\ \E label \in {"while", "for", "done"} : Goto(q, label)
      BY <1>2 DEF StartLoop, LoopTest
  <2>2. pc'[q] \in {"while", "for", "done"}
      BY <1>0, <2>1, GotoType
  <2> QED
      BY <1>0, <1>1, <2>1, <2>2 DEF Pending
<1>3. CASE Wake(q) \/ SendOk(q)
  <2>1. /\ pc[q] \in {"sleep", "send"} /\ flow' = flow
        /\ prev_hwtime' = prev_hwtime /\ sche_time' = sche_time
        /\ Goto(q, "send") \/ Goto(q, "stamp")
      BY <1>3 DEF Wake, SendOk
  <2>2. pc'[q] \in {"send", "stamp"}
      BY <1>0, <2>1, GotoType
  <2> QED
      BY <1>0, <1>1, <2>1, <2>2 DEF Pending
<1>4. CASE SendFail(q)
  <2>1. /\ pc[q] = "send" /\ sche_time' = sche_time /\ flow[q] \in Flows
        /\ prev_hwtime' = [prev_hwtime EXCEPT ![flow[q]] = NoFrame]
      BY <1>4, AwaitedFrame DEF SendFail, ForgetStamp
  <2>2. f # flow[q] /\ prev_hwtime'[f] = prev_hwtime[f]
      BY <1>0, <2>1 DEF TypeOK
  <2>3. pc'[q] \in {"for", "while"}
      BY <1>0, <1>4, NextFrameLocals DEF SendFail
  <2> QED
      BY <1>0, <1>1, <2>1, <2>2, <2>3 DEF Pending
<1>5. CASE ReadStamp(q)
  <2>1. /\ pc[q] = "stamp" /\ sche_time' = sche_time /\ flow[q] \in Flows
        /\ prev_hwtime' = [prev_hwtime EXCEPT ![flow[q]] = Awaited(q)]
      BY <1>0, <1>5, AwaitedFrame DEF ReadStamp, CardAt
  <2>2. pc'[q] \in {"for", "while"}
      BY <1>0, <1>5, NextFrameLocals DEF ReadStamp
  <2>3. Pending(f)' = 0
      BY <1>1, <2>2 DEF Pending
  <2>4. CASE f = flow[q]
    <3>1. flow[q] # NoFlow /\ txtime[q] = sche_time[flow[q]]
        BY <1>0, <2>1, FlowTypes DEF LocalsAt
    <3>2. prev_hwtime'[f].txtime = txtime[q]
        BY <1>0, <2>1, <2>4 DEF TypeOK, Awaited
    <3> QED
        BY <1>0, <1>1, <2>1, <2>3, <2>4, <3>1, <3>2
  <2>5. CASE f # flow[q]
    <3>1. prev_hwtime'[f] = prev_hwtime[f] /\ Pending(f) = 0
        BY <1>0, <1>1, <2>1, <2>5 DEF TypeOK, Pending
    <3> QED
        BY <1>0, <1>1, <2>1, <2>3, <3>1
  <2> QED BY <2>4, <2>5
<1>6. CASE FrameMissed(q) \/ FrameKept(q)
  <2>1. /\ pc[q] = "for" /\ FlowHere(q) \in Flows /\ Pending(f) = 0
        /\ flow' = [flow EXCEPT ![q] = FlowHere(q)]
        /\ sche_time' = [sche_time EXCEPT ![FlowHere(q)] = @ + period(FlowHere(q))]
      BY <1>0, <1>1, <1>6, FlowHereType
         DEF FrameMissed, FrameKept, BeginFrame, inc_flow_timer, Pending
  <2>2. flow'[q] = FlowHere(q)
      BY <1>0, <2>1 DEF TypeOK
  <2>3. CASE FrameMissed(q)
    <3>1. f # FlowHere(q) /\ prev_hwtime'[f] = prev_hwtime[f]
        BY <1>0, <2>1, <2>3 DEF FrameMissed, ForgetStamp, TypeOK
    <3>2. pc'[q] \in {"for", "while"}
        BY <1>0, <2>3, NextFrameLocals DEF FrameMissed
    <3>3. Pending(f)' = 0 /\ sche_time'[f] = sche_time[f]
        BY <1>0, <1>1, <2>1, <3>1, <3>2 DEF Pending, TypeOK
    <3> QED
        BY <1>0, <1>1, <2>1, <3>1, <3>3
  <2>4. CASE FrameKept(q)
    <3>1. prev_hwtime' = prev_hwtime /\ pc'[q] = "sleep"
        BY <1>0, <2>4, GotoType DEF FrameKept
    <3>2. Pending(f)' = IF f = FlowHere(q) THEN period(f) ELSE 0
        BY <1>1, <2>2, <3>1 DEF Pending
    <3>3. sche_time'[f] = IF f = FlowHere(q) THEN sche_time[f] + period(f) ELSE sche_time[f]
        BY <1>0, <2>1 DEF TypeOK
    <3> QED
        BY <1>0, <1>1, <2>1, <3>1, <3>2, <3>3
  <2> QED BY <1>6, <2>3, <2>4
<1> QED
    BY <1>2, <1>3, <1>4, <1>5, <1>6, NoTimeout DEF PatientLcore

LEMMA HistoryInductive ==
    ASSUME PIT_HW, OneQueue, IInv, Locals, Card, History, [PatientNext]_vars
    PROVE  History'
<1>0. TypeOK /\ Shape
    BY DEF IInv
<1>1. CASE SetBaseTime
  <2>1. main = "setup" /\ prev_hwtime' = prev_hwtime
      BY <1>1 DEF SetBaseTime, localVars
  <2> QED
      BY <2>1 DEF History
<1>2. CASE LaunchLcore
  <2>1. \A p \in Queues : pc'[p] # pc[p] => pc[p] = "idle" /\ pc'[p] = "start"
      BY <1>0, <1>2, OrderAssumption DEF LaunchLcore, TypeOK, Shape
  <2>2. UNCHANGED <<main, flow, sche_time, prev_hwtime>>
      BY <1>2 DEF LaunchLcore, localVars
  <2>3. \A f \in Flows : Pending(f)' = Pending(f)
      BY <2>1, <2>2, FlowTypes DEF Pending
  <2> QED
      BY <2>2, <2>3 DEF History
<1>3. ASSUME NEW q \in Queues, PatientLcore(q) PROVE History'
    BY <1>3, HistoryLcore DEF History
<1>4. CASE AllLaunched \/ Cleanup \/ Tick \/ Stopped \/ UNCHANGED vars
           \/ \E q \in Queues : NicLaunch(q)
  <2>1. UNCHANGED <<pc, flow, sche_time, prev_hwtime>> /\ (main' = "setup" => main = "setup")
      BY <1>4 DEF AllLaunched, Cleanup, Tick, Stopped, NicLaunch, vars, mainVars, localVars
  <2>2. \A f \in Flows : Pending(f)' = Pending(f)
      BY <2>1 DEF Pending
  <2> QED
      BY <2>1, <2>2 DEF History
<1> QED
    BY <1>1, <1>2, <1>3, <1>4 DEF PatientNext, Main

\* With one queue and polls that outlast the frame, two hardware times that are compared
\* are of launch times one period apart, whatever deadlines were missed: a missed frame
\* takes its flow's previous time with it.  Refused frames and missing stamps do not occur
\* there (NoRefusal, NoTimeout); JitterInWholePeriods is about them.
THEOREM JitterConsecutiveOneQueue ==
    ASSUME PIT_HW, OneQueue
    PROVE  PatientSpec => []JitterConsecutive
<1>1. ASSUME IInv, Locals, Card, History, NEW q \in Queues,
             pc[q] = "stamp", stamp # NoFrame, prev_hwtime[flow[q]] # NoFrame
      PROVE  stamp.txtime - prev_hwtime[flow[q]].txtime = period(flow[q])
  <2>1. /\ TypeOK /\ CardAt(q) /\ LocalsAt(q)
        /\ flow[q] \in Flows /\ queue(flow[q]) = q /\ Awaited(q).txtime = txtime[q]
      BY <1>1, AwaitedFrame DEF IInv, Card, Locals
  <2>2. stamp.txtime = sche_time[flow[q]]
      BY <1>1, <2>1, FlowTypes DEF CardAt, LocalsAt
  <2>3. prev_hwtime[flow[q]].txtime = sche_time[flow[q]] - period(flow[q])
      BY <1>1, <2>1 DEF History, Pending
  <2>4. sche_time[flow[q]] \in Nat /\ period(flow[q]) \in Nat
      BY <2>1, FlowTypes DEF TypeOK
  <2> QED
      BY <2>2, <2>3, <2>4
<1>2. IInv /\ Locals /\ Card /\ History => JitterConsecutive
    BY <1>1 DEF JitterConsecutive
<1> QED
    BY <1>2, InitIInv, IInvInductive, LocalsInit, LocalsInductive, CardInit, CardInductive,
       HistoryInit, HistoryInductive, PatientIsNext, PTL DEF PatientSpec

-----------------------------------------------------------------------------
(* A machine on which nothing takes time; any number of queues.            *)

\* A frame in hand has its delta but FUDGE_FACTOR left: while the lcore sleeps this is
\* so at its wake time at the latest, and then the clock stands until it is handed over.
InTime ==
    \A q \in Queues : pc[q] \in {"sleep", "send"} =>
        now <= WakeTime(flow[q], txtime[q]) + FUDGE_FACTOR

LEMMA PromptIsNext == [PromptNext]_vars => [Next]_vars
BY DEF PromptNext, PromptTick, PatientLcore, PatientTimeout, Next, Lcore

LEMMA InTimeInit == Init => InTime
BY DEF Init, InTime

\* A step of an lcore: the deadline test is the only way to a frame in hand.
LEMMA InTimeLcore ==
    ASSUME IInv, InTime, NEW q \in Queues, PatientLcore(q), NEW p \in Queues,
           pc'[p] \in {"sleep", "send"}
    PROVE  now' <= WakeTime(flow'[p], txtime'[p]) + FUDGE_FACTOR
<1>0. TypeOK /\ Lcore(q) /\ now' = now
    BY PatientIsLcore DEF IInv, Lcore, StartLoop, LoopTest, BeginFrame, FrameMissed,
       FrameKept, Wake, SendOk, SendFail, ReadStamp, StampTimeout
<1>1. CASE p # q
  <2>1. pc'[p] = pc[p] /\ flow'[p] = flow[p]
      BY <1>0, <1>1, LcoreMoves
  <2>2. txtime'[p] = txtime[p]
      BY <1>0, <1>1 DEF Lcore, StartLoop, LoopTest, BeginFrame, FrameMissed, FrameKept, Wake,
         SendOk, SendFail, ReadStamp, StampTimeout, TypeOK
  <2> QED
      BY <1>0, <2>1, <2>2 DEF InTime
<1>2. CASE p = q /\ FrameKept(q)
  <2>1. flow'[q] = FlowHere(q) /\ ~TooLate(FlowHere(q), now, txtime'[q]) /\ txtime'[q] \in Nat
      BY <1>0, <1>2, LcoreTyped DEF FrameKept, BeginFrame, TypeOK, IInv
  <2>2. FlowHere(q) \in Flows
      BY <1>0, LcoreMoves, FlowHereType
  <2>3. now \in Nat /\ WakeTime(FlowHere(q), txtime'[q]) + FUDGE_FACTOR \in Int
    <3>1. now \in Nat /\ FUDGE_FACTOR \in Nat
        BY <1>0, ParameterAssumption DEF TypeOK
    <3>2. delta(FlowHere(q)) \in Nat
        BY <2>2, FlowTypes
    <3> QED BY <2>1, <3>1, <3>2 DEF WakeTime
  <2>4. now <= WakeTime(FlowHere(q), txtime'[q]) + FUDGE_FACTOR
      BY <2>1, <2>3 DEF TooLate
  <2>5. WakeTime(flow'[p], txtime'[p]) = WakeTime(FlowHere(q), txtime'[q])
      BY <1>2, <2>1
  <2> QED BY <1>0, <2>4, <2>5
<1>3. CASE p = q /\ Wake(q)
  <2>1. pc[q] = "sleep" /\ flow' = flow /\ txtime' = txtime
      BY <1>3 DEF Wake
  <2> QED
      BY <1>0, <1>3, <2>1 DEF InTime
<1>4. CASE p = q /\ ~FrameKept(q) /\ ~Wake(q)
    BY <1>0, <1>4, LcoreMoves
<1> QED BY <1>1, <1>2, <1>3, <1>4

LEMMA InTimeInductive ==
    ASSUME IInv, InTime, [PromptNext]_vars
    PROVE  InTime'
<1>0. TypeOK /\ Shape
    BY DEF IInv
<1>1. CASE PromptTick
  <2>1. /\ now' = now + 1 /\ now \in Nat /\ UNCHANGED <<pc, flow, txtime>>
        /\ \A q \in Queues : ~LcoreReady(q)
      BY <1>0, <1>1 DEF PromptTick, Tick, localVars, TypeOK
  <2>2. ASSUME NEW q \in Queues, pc[q] \in {"sleep", "send"}
        PROVE  now' <= WakeTime(flow[q], txtime[q]) + FUDGE_FACTOR
    <3>1. pc[q] = "sleep" /\ ~(now >= WakeTime(flow[q], txtime[q]))
        BY <2>1, <2>2 DEF LcoreReady
    <3>2. WakeTime(flow[q], txtime[q]) \in Int
        BY <1>0, <2>2, AwaitedFrame, FlowTypes DEF IInv, WakeTime, TypeOK
    <3> QED
        BY <2>1, <3>1, <3>2, ParameterAssumption
  <2> QED
      BY <2>1, <2>2 DEF InTime
<1>2. ASSUME NEW q \in Queues, PatientLcore(q) PROVE InTime'
    BY <1>2, InTimeLcore DEF InTime
<1>3. CASE LaunchLcore
  <2>1. \A p \in Queues : pc'[p] # pc[p] => pc[p] = "idle" /\ pc'[p] = "start"
      BY <1>0, <1>3, OrderAssumption DEF LaunchLcore, TypeOK, Shape
  <2>2. UNCHANGED <<now, flow, txtime>>
      BY <1>3 DEF LaunchLcore, localVars
  <2> QED
      BY <2>1, <2>2 DEF InTime
<1>4. CASE SetBaseTime \/ AllLaunched \/ Cleanup \/ Stopped \/ UNCHANGED vars
           \/ \E q \in Queues : NicLaunch(q)
  <2>1. UNCHANGED <<now, pc, flow, txtime>>
      BY <1>4 DEF SetBaseTime, AllLaunched, Cleanup, Stopped, NicLaunch, vars, localVars
  <2> QED
      BY <2>1 DEF InTime
<1> QED
    BY <1>1, <1>2, <1>3, <1>4 DEF PromptNext, Main
=============================================================================
