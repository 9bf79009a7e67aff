------------------------------- MODULE TxLoop -------------------------------
(***************************************************************************)
(* The transmission of time-triggered frames: the tx_loop lcores of        *)
(* src/talker.c, the part of main() that fixes the base time, launches     *)
(* them and waits for them, and the network card they drive.               *)
(*                                                                         *)
(* One lcore serves each queue with a non-empty schedule.  All lcores use  *)
(* one port: its clock, and its single transmit-timestamp register.        *)
(*                                                                         *)
(* What is abstracted: the content of a frame (it is the flow id and the   *)
(* launch time), the values of the software and hardware timing samples    *)
(* and the number of polls and retries (an lcore gives up after some       *)
(* number of them).  The TSC that sleep() counts and the port clock        *)
(* advance at the same rate.                                               *)
(***************************************************************************)
EXTENDS Integers, Sequences, FiniteSets, FiniteSetsExt

CONSTANTS
    Flows,          \* the flow ids, all of one port
    Queues,         \* 0 .. tx_queue_nums - 1
    FlowTable,      \* FlowTable[f] = [queue, period, offset, delta]
    Order,          \* Order[q] = schedule[q].order, computed by src/sche.c
    FUDGE_FACTOR,   \* flow.h:21
    ONE_SECOND,     \* ONE_SECOND_IN_NS, flow.h:20
    LeadSeconds,    \* the 5 of talker.c:477
    PIT_OFFSET,     \* -b: base time given by the user, 0 if none
    PIT_RUNTIME,    \* seconds to run after the base time
    PIT_HW,         \* FALSE under -w, --no-stamp
    PIT_ETF,        \* FALSE under -s, --no-rt
    NUM_TX_DESC,    \* capacity of a queue's descriptor ring
    Start,          \* port clock when main() reads it
    MaxTime         \* bound: the clock stops here

NoFlow  == 0
NoFrame == [flow |-> NoFlow, txtime |-> 0]

queue(f)  == FlowTable[f].queue
period(f) == FlowTable[f].period
offset(f) == FlowTable[f].offset
delta(f)  == FlowTable[f].delta

NumFrames(q) == Len(Order[q])   \* schedule->num_frames_per_cycle

\* main(): the base time is -b's value, or the next whole second but LeadSeconds.
BaseTime(t) ==
    IF PIT_OFFSET # 0 THEN PIT_OFFSET
                      ELSE (t \div ONE_SECOND + LeadSeconds) * ONE_SECOND

ASSUME FlowAssumption ==
    /\ Flows \subseteq Nat \ {NoFlow} /\ IsFiniteSet(Flows)
    /\ FlowTable \in [Flows -> [queue  : Queues, period : Nat \ {0},
                                offset : Nat,    delta  : Nat]]

\* A schedule holds flows of its own queue only (init_schedule_state_per_queue).
ASSUME OrderAssumption ==
    /\ Queues \subseteq Nat
    /\ Order \in [Queues -> Seq(Flows)]
    /\ \A q \in Queues : \A i \in 1 .. Len(Order[q]) :
          FlowTable[Order[q][i]].queue = q

ASSUME ParameterAssumption ==
    /\ FUDGE_FACTOR \in Nat
    /\ ONE_SECOND \in Nat \ {0}
    /\ LeadSeconds \in Nat
    /\ PIT_OFFSET \in Nat
    /\ PIT_RUNTIME \in Nat
    /\ PIT_HW \in BOOLEAN
    /\ PIT_ETF \in BOOLEAN
    /\ NUM_TX_DESC \in Nat \ {0}
    /\ Start \in Nat
    /\ MaxTime \in Nat

\* txtime - flow->delta is computed in uint64_t: no flow's first launch time is
\* below its delta, so the subtraction does not wrap.
ASSUME DeltaAssumption ==
    \A f \in Flows :
        FlowTable[f].delta <= BaseTime(Start) + FlowTable[f].offset + FlowTable[f].period

VARIABLES
    now,            \* the port's clock
    main,           \* where main() is
    next_queue,     \* queues main() has dealt with in its launch loop
    base_time,
    sche_time,      \* flow->sche_time
    pc,             \* where each lcore is
    it_frame,       \* its position in the schedule, from 1
    current_time,   \* its last reading of the clock
    txtime,         \* launch time of the frame in hand, or of the last one
    flow,           \* flow of the frame in hand, or of the last one
    prev_time,      \* prev_time[f] # 0: flow f has a previous software time
    prev_hwtime,    \* the frame whose hardware stamp is the flow's previous one
    count,          \* stats->st[f]: the counters of a flow
    core,           \* stats->st[num_flows]: the counters of an lcore
    ring,           \* descriptor ring of each queue, oldest first
    stamp           \* the frame whose time the port's stamp register holds

mainVars  == <<main, next_queue, base_time>>
localVars == <<it_frame, current_time, txtime, flow, prev_time, prev_hwtime>>
statVars  == <<count, core>>
nicVars   == <<ring, stamp>>
vars == <<now, mainVars, sche_time, pc, localVars, statVars, nicVars>>

Frame == [flow : Flows, txtime : Nat]
Counters == [total : Nat, send : Nat, drop : Nat, misdl : Nat]

\* init_statistics: num_pkt_send starts at one.
InitCounters == [total |-> 0, send |-> 1, drop |-> 0, misdl |-> 0]

Init ==
    /\ now = Start
    /\ main = "setup"
    /\ next_queue = 0
    /\ base_time = 0
    /\ sche_time = [f \in Flows |-> 0]
    /\ pc = [q \in Queues |-> "idle"]
    /\ it_frame = [q \in Queues |-> 1]
    /\ current_time = [q \in Queues |-> 0]
    /\ txtime = [q \in Queues |-> 0]
    /\ flow = [q \in Queues |-> NoFlow]
    /\ prev_time = [f \in Flows |-> FALSE]
    /\ prev_hwtime = [f \in Flows |-> NoFrame]
    /\ count = [f \in Flows |-> InitCounters]
    /\ core = [q \in Queues |-> InitCounters]
    /\ ring = [q \in Queues |-> <<>>]
    /\ stamp = NoFrame

-----------------------------------------------------------------------------
(* main()                                                                  *)

\* Read the clock, fix the base time and start every flow's timer from it.
SetBaseTime ==
    /\ main = "setup"
    /\ base_time' = BaseTime(now)
    /\ sche_time' = [f \in Flows |-> base_time' + offset(f)]
    /\ main' = "launch"
    /\ UNCHANGED <<now, next_queue, pc, localVars, statVars, nicVars>>

\* Launch the next queue's lcore; a queue without frames gets none.
LaunchLcore ==
    /\ main = "launch"
    /\ next_queue \in Queues
    /\ pc' = IF NumFrames(next_queue) = 0
             THEN pc ELSE [pc EXCEPT ![next_queue] = "start"]
    /\ next_queue' = next_queue + 1
    /\ UNCHANGED <<now, main, base_time, sche_time, localVars, statVars, nicVars>>

AllLaunched ==
    /\ main = "launch"
    /\ next_queue \notin Queues
    /\ main' = "wait"
    /\ UNCHANGED <<now, next_queue, base_time, sche_time, pc, localVars, statVars, nicVars>>

\* Every lcore has returned: stop the port, which discards what it still holds.
Cleanup ==
    /\ main = "wait"
    /\ \A q \in Queues : pc[q] \in {"idle", "done"}
    /\ main' = "stopped"
    /\ ring' = [q \in Queues |-> <<>>]
    /\ stamp' = NoFrame
    /\ UNCHANGED <<now, next_queue, base_time, sche_time, pc, localVars, statVars>>

-----------------------------------------------------------------------------
(* tx_loop                                                                 *)

ReadClock(q) == current_time' = [current_time EXCEPT ![q] = now]

Goto(q, label) == pc' = [pc EXCEPT ![q] = label]

\* Mutant: the for loop ends before the last position of the schedule.
NextFrame_LastSkipped(q) ==
    IF it_frame[q] + 1 >= NumFrames(q)
    THEN Goto(q, "while") /\ UNCHANGED it_frame
    ELSE Goto(q, "for") /\ it_frame' = [it_frame EXCEPT ![q] = @ + 1]

\* Mutant: the for loop runs past the last position.
NextFrame_PastEnd(q) ==
    IF it_frame[q] > NumFrames(q)
    THEN Goto(q, "while") /\ UNCHANGED it_frame
    ELSE Goto(q, "for") /\ it_frame' = [it_frame EXCEPT ![q] = @ + 1]

\* The end of the for body: the next position, or the while test.
NextFrame(q) ==
    IF it_frame[q] = NumFrames(q)
    THEN Goto(q, "while") /\ UNCHANGED it_frame
    ELSE Goto(q, "for") /\ it_frame' = [it_frame EXCEPT ![q] = @ + 1]

StartLoop(q) ==
    /\ pc[q] = "start"
    /\ ReadClock(q)
    /\ txtime' = [txtime EXCEPT ![q] = now]
    /\ Goto(q, "while")
    /\ UNCHANGED <<now, mainVars, sche_time, it_frame, flow, prev_time, prev_hwtime,
                   statVars, nicVars>>

\* Mutant: one second too many.
KeepsRunning_Inclusive(t) ==
    \/ t < base_time
    \/ (t - base_time) \div ONE_SECOND <= PIT_RUNTIME

\* The condition of the while loop.
KeepsRunning(t) ==
    \/ t < base_time
    \/ (t - base_time) \div ONE_SECOND < PIT_RUNTIME

LoopTest(q) ==
    /\ pc[q] = "while"
    /\ IF KeepsRunning(current_time[q])
       THEN Goto(q, "for") /\ it_frame' = [it_frame EXCEPT ![q] = 1]
       ELSE Goto(q, "done") /\ UNCHANGED it_frame
    /\ UNCHANGED <<now, mainVars, sche_time, current_time, txtime, flow, prev_time,
                   prev_hwtime, statVars, nicVars>>

\* Mutant: the current position's flow.
FlowPrev_Current(q) == Order[q][it_frame[q]]

\* The flow before the current position, cyclically.
FlowPrev(q) ==
    IF it_frame[q] = 1 THEN Order[q][NumFrames(q)] ELSE Order[q][it_frame[q] - 1]

\* Mutant: the position after the current one.
FlowHere_NextPosition(q) == Order[q][(it_frame[q] % NumFrames(q)) + 1]

FlowHere(q) == Order[q][it_frame[q]]

\* When the lcore should have the frame ready: delta before its launch.
WakeTime(f, tx) == tx - delta(f)

\* Mutant: no allowance for the time the loop itself takes.
TooLate_NoFudge(f, t, tx) == t > WakeTime(f, tx)

TooLate(f, t, tx) == t > WakeTime(f, tx) + FUDGE_FACTOR

\* Mutant: a missed frame is counted as sent, too.
Counted_MissedSent(c, missed, failed) ==
    [total |-> c.total + 1,
     misdl |-> IF missed THEN c.misdl + 1 ELSE c.misdl,
     drop  |-> IF failed THEN c.drop + 1 ELSE c.drop,
     send  |-> IF failed THEN c.send ELSE c.send + 1]

\* update_nums_st on one record.
Counted(c, missed, failed) ==
    [total |-> c.total + 1,
     misdl |-> IF missed THEN c.misdl + 1 ELSE c.misdl,
     drop  |-> IF failed THEN c.drop + 1 ELSE c.drop,
     send  |-> IF missed \/ failed THEN c.send ELSE c.send + 1]

\* update_nums: the flow's record and the lcore's.
update_nums(q, f, missed, failed) ==
    /\ count' = [count EXCEPT ![f] = Counted(@, missed, failed)]
    /\ core' = [core EXCEPT ![q] = Counted(@, missed, failed)]

\* Mutant: the next launch time is counted from the present.
inc_flow_timer_FromNow(f) == sche_time' = [sche_time EXCEPT ![f] = now + period(f)]

\* Mutant: a launch time that has passed is replaced by the present.
inc_flow_timer_CatchUp(f) ==
    sche_time' = [sche_time EXCEPT ![f] = IF @ + period(f) < now THEN now ELSE @ + period(f)]

inc_flow_timer(f) == sche_time' = [sche_time EXCEPT ![f] = @ + period(f)]

\* Mutant: the previous stamp survives a frame that was not sent.
ForgetStamp_Kept(f) == UNCHANGED prev_hwtime

\* prev_hwtime[flow_id] = 0
ForgetStamp(f) == prev_hwtime' = [prev_hwtime EXCEPT ![f] = NoFrame]

\* The head of the for body: read the clock, date the previous position's flow
\* with it, take the next flow and move its timer on by one period.
BeginFrame(q) ==
    /\ pc[q] = "for"
    /\ ReadClock(q)
    /\ prev_time' = [prev_time EXCEPT ![FlowPrev(q)] = TRUE]
    /\ flow' = [flow EXCEPT ![q] = FlowHere(q)]
    /\ inc_flow_timer(FlowHere(q))
    /\ txtime' = [txtime EXCEPT ![q] = sche_time'[FlowHere(q)]]

\* The deadline has passed: count the frame as missed and go on.
FrameMissed(q) ==
    /\ BeginFrame(q)
    /\ TooLate(FlowHere(q), now, txtime'[q])
    /\ update_nums(q, FlowHere(q), TRUE, FALSE)
    /\ ForgetStamp(FlowHere(q))
    /\ NextFrame(q)
    /\ UNCHANGED <<now, mainVars, nicVars>>

\* There is time: sleep until the wake time (not at all if it has passed).
FrameKept(q) ==
    /\ BeginFrame(q)
    /\ ~TooLate(FlowHere(q), now, txtime'[q])
    /\ Goto(q, "sleep")
    /\ UNCHANGED <<now, mainVars, it_frame, prev_hwtime, statVars, nicVars>>

\* sleep() returns; the clock is read once more, and not compared again.
Wake(q) ==
    /\ pc[q] = "sleep"
    /\ now >= WakeTime(flow[q], txtime[q])
    /\ ReadClock(q)
    /\ Goto(q, "send")
    /\ UNCHANGED <<now, mainVars, sche_time, it_frame, txtime, flow, prev_time,
                   prev_hwtime, statVars, nicVars>>

\* sche_single succeeds: a descriptor was free.  With PIT_HW the lcore goes on
\* to poll for the frame's hardware timestamp.
SendOk(q) ==
    /\ pc[q] = "send"
    /\ Len(ring[q]) < NUM_TX_DESC
    /\ ring' = [ring EXCEPT ![q] = Append(@, [flow |-> flow[q], txtime |-> txtime[q]])]
    /\ update_nums(q, flow[q], FALSE, FALSE)
    /\ IF PIT_HW THEN Goto(q, "stamp") /\ UNCHANGED it_frame
                 ELSE NextFrame(q)
    /\ UNCHANGED <<now, mainVars, sche_time, current_time, txtime, flow, prev_time,
                   prev_hwtime, stamp>>

\* sche_single gives up: the ring stayed full for FUDGE_FACTOR timer cycles.
SendFail(q) ==
    /\ pc[q] = "send"
    /\ Len(ring[q]) = NUM_TX_DESC
    /\ update_nums(q, flow[q], FALSE, TRUE)
    /\ ForgetStamp(flow[q])
    /\ NextFrame(q)
    /\ UNCHANGED <<now, mainVars, sche_time, current_time, txtime, flow, prev_time, nicVars>>

\* get_tx_hardware_timestamp finds the register valid.  Reading it frees it.
ReadStamp(q) ==
    /\ pc[q] = "stamp"
    /\ stamp # NoFrame
    /\ prev_hwtime' = [prev_hwtime EXCEPT ![flow[q]] = stamp]
    /\ stamp' = NoFrame
    /\ NextFrame(q)
    /\ UNCHANGED <<now, mainVars, sche_time, current_time, txtime, flow, prev_time,
                   statVars, ring>>

\* Mutant: the polls have no limit.
StampTimeout_Never(q) ==
    /\ pc[q] = "stamp"
    /\ FALSE
    /\ UNCHANGED vars

\* The polls run out: the register was empty every time, or it became valid for
\* the last read, which empties it and is reported as a failure all the same.
StampTimeout(q) ==
    /\ pc[q] = "stamp"
    /\ stamp' = NoFrame
    /\ NextFrame(q)
    /\ UNCHANGED <<now, mainVars, sche_time, current_time, txtime, flow, prev_time,
                   prev_hwtime, statVars, ring>>

Lcore(q) ==
    \/ StartLoop(q)
    \/ LoopTest(q)
    \/ FrameMissed(q)
    \/ FrameKept(q)
    \/ Wake(q)
    \/ SendOk(q)
    \/ SendFail(q)
    \/ ReadStamp(q)
    \/ StampTimeout(q)

-----------------------------------------------------------------------------
(* The environment: the card and time.                                     *)

\* prepare_packet_offload(pkt, pit_hw, pit_etf): which offloads a frame asks for.
OffloadFlags ==
    IF PIT_HW THEN {"TXTIME", "TMST"} ELSE IF PIT_ETF THEN {"TMST"} ELSE {}

\* The card sends the oldest frame of a ring, not before its launch time if the
\* frame asks for that, and stamps it if it asks and the register is free.
NicLaunch(q) ==
    /\ ring[q] # <<>>
    /\ "TXTIME" \in OffloadFlags => now >= Head(ring[q]).txtime
    /\ ring' = [ring EXCEPT ![q] = Tail(@)]
    /\ stamp' = IF "TMST" \in OffloadFlags /\ stamp = NoFrame THEN Head(ring[q]) ELSE stamp
    /\ UNCHANGED <<now, mainVars, sche_time, pc, localVars, statVars>>

Tick ==
    /\ main \in {"launch", "wait"}
    /\ now < MaxTime
    /\ now' = now + 1
    /\ UNCHANGED <<mainVars, sche_time, pc, localVars, statVars, nicVars>>

Main == SetBaseTime \/ LaunchLcore \/ AllLaunched \/ Cleanup

Stopped ==
    /\ main = "stopped"
    /\ UNCHANGED vars

Next ==
    \/ Main
    \/ \E q \in Queues : Lcore(q) \/ NicLaunch(q)
    \/ Tick
    \/ Stopped

Spec == Init /\ [][Next]_vars

\* main() and the lcores are threads on cores of their own, and time passes.
\* Nothing is assumed of the card: the loop never waits for it without bound.
FairSpec ==
    /\ Spec
    /\ WF_vars(Main)
    /\ \A q \in Queues : WF_vars(Lcore(q))
    /\ WF_vars(Tick)
-----------------------------------------------------------------------------
(* Properties.                                                             *)

\* Types of the state.
TypeOK ==
    /\ now \in Nat
    /\ main \in {"setup", "launch", "wait", "stopped"}
    /\ next_queue \in Nat
    /\ base_time \in Nat
    /\ sche_time \in [Flows -> Nat]
    /\ pc \in [Queues -> {"idle", "start", "while", "for", "sleep", "send", "stamp", "done"}]
    /\ it_frame \in [Queues -> Nat]
    /\ \A q \in Queues : pc[q] # "idle" => it_frame[q] \in 1 .. NumFrames(q)
    /\ current_time \in [Queues -> Nat]
    /\ txtime \in [Queues -> Nat]
    /\ flow \in [Queues -> Flows \cup {NoFlow}]
    /\ prev_time \in [Flows -> BOOLEAN]
    /\ prev_hwtime \in [Flows -> Frame \cup {NoFrame}]
    /\ count \in [Flows -> Counters]
    /\ core \in [Queues -> Counters]
    /\ ring \in [Queues -> Seq(Frame)]
    /\ stamp \in Frame \cup {NoFrame}

\* The lcore holds a frame of f whose outcome is not counted yet.
InHand(f) == pc[queue(f)] \in {"sleep", "send"} /\ flow[queue(f)] = f

\* Over any run of missed deadlines, refused and accepted frames, the timer of
\* a flow stays on the flow's grid base + offset + k * period, and k is the
\* number of outcomes counted: no period is skipped, used or counted twice.
GridAligned ==
    main # "setup" =>
        \A f \in Flows :
            sche_time[f] = base_time + offset(f)
                + period(f) * (count[f].total + IF InHand(f) THEN 1 ELSE 0)

Balanced(c) == c.total = c.misdl + c.drop + (c.send - 1)

FlowsOf(q) == {f \in Flows : queue(f) = q}

\* Every frame counted has one outcome, and the counters of an lcore are the
\* sums of its flows' (num_pkt_send starts at one, in both).
CountersBalance ==
    /\ \A f \in Flows : Balanced(count[f])
    /\ \A q \in Queues :
          /\ Balanced(core[q])
          /\ core[q].total = MapThenSumSet(LAMBDA f : count[f].total, FlowsOf(q))
          /\ core[q].misdl = MapThenSumSet(LAMBDA f : count[f].misdl, FlowsOf(q))
          /\ core[q].drop = MapThenSumSet(LAMBDA f : count[f].drop, FlowsOf(q))

\* Whenever an lcore tests whether to go on, all of its flows stand at the same
\* multiple of the cycle: a pass over the schedule moves each by one cycle.
CycleAligned ==
    \A q \in Queues : pc[q] \in {"while", "done"} =>
        \A f, g \in FlowsOf(q) : count[f].total * period(f) = count[g].total * period(g)

\* How often f is at one of the positions of S in its queue's schedule.
Hits(f, S) == Cardinality({i \in S : Order[queue(f)][i] = f})

\* The time one pass over the schedule moves each flow of a queue on by.
Cycle(q) ==
    LET f == Order[q][1]
    IN  period(f) * Hits(f, 1 .. NumFrames(q))

\* The launch time of a position, from the base time on, in the first pass.
SlotTime(q, i) ==
    LET f == Order[q][i]
    IN  offset(f) + period(f) * Hits(f, 1 .. i)

\* What src/sche.c makes of a flow table: every flow of a queue as often as its
\* period fits into the cycle.
ExactSchedules ==
    \A f \in Flows : period(f) * Hits(f, 1 .. NumFrames(queue(f))) = Cycle(queue(f))

\* It sorts by the starts of the periods; a frame is launched at the end of one.
SortedStarts ==
    \A q \in Queues : \A i \in 1 .. NumFrames(q) - 1 :
        SlotTime(q, i) + period(Order[q][i + 1]) <= SlotTime(q, i + 1) + period(Order[q][i])

\* No flow begins its first period more than a period of its own after another flow of
\* the queue does.
NearOffsets ==
    \A f, g \in Flows : queue(f) = queue(g) => offset(f) <= offset(g) + period(f)

\* The run time is tested once per pass and against a clock reading that may lie
\* delta before the last launch time.  No frame is scheduled further beyond the
\* end of the run than one cycle and the delta of the schedule's last flow.
OverrunBounded ==
    \A q \in Queues : pc[q] \in {"sleep", "send", "stamp"} =>
        txtime[q] <= base_time + PIT_RUNTIME * ONE_SECOND
                        + offset(flow[q]) + Cycle(q) + delta(Order[q][NumFrames(q)])

\* The head of the for body dates the previous position's flow, with locals left
\* over from the previous iteration.  Whenever that records a sample, they are
\* that flow's: flow points to it (it is uninitialised at first) and txtime is
\* its launch time.
SampleLocals ==
    \A q \in Queues :
        pc[q] = "for" /\ (prev_time[FlowPrev(q)] \/ count[FlowPrev(q)].total # 0) =>
            flow[q] = FlowPrev(q) /\ txtime[q] = sche_time[FlowPrev(q)]

\* The ring of a queue is first-in first-out, and a frame behind a later one is sent
\* late.  Frames are taken in the order in which their periods begin, from pass to pass
\* as well: launch times of flows with the same period never go back, others by no
\* more than the difference of the periods.
LaunchOrder ==
    [][\A q \in Queues : pc[q] = "for" /\ flow[q] # NoFlow =>
          txtime'[q] + period(flow[q]) >= txtime[q] + period(flow'[q])]_vars

\* When polls run out the hardware time of a flow is kept (talker.c:338), and a late
\* stamp is read with a later frame, or by another lcore.  As long as the stamp found is
\* of the flow in hand, it and the previous one of that flow are of launch times whole
\* periods apart, and in this order: the jitter, for which the code takes one period off,
\* is wrong by whole periods if at all, and never from a stamp used twice.
JitterWholePeriods ==
    \A q \in Queues :
        LET f == flow[q]
        IN  pc[q] = "stamp" /\ stamp.flow = f /\ prev_hwtime[f].flow = f =>
                \E k \in 1 .. count[f].total - 1 :
                    stamp.txtime - prev_hwtime[f].txtime = k * period(f)

\* With --no-stamp the launch-time offload is still on (engine_dpdk.c:241, "0 1 ->
\* both"): the card sends no frame before its launch time.
NoEarlyLaunch ==
    [][\A q \in Queues :
          main # "stopped" /\ main' # "stopped" /\ Len(ring'[q]) < Len(ring[q])
              => now >= Head(ring[q]).txtime]_vars

\* The hardware time credited to a frame is that frame's own.
StampIsOwn ==
    [][\A q \in Queues :
          pc[q] = "stamp" /\ prev_hwtime'[flow[q]] # prev_hwtime[flow[q]]
              => prev_hwtime'[flow[q]] = [flow |-> flow[q], txtime |-> txtime[q]]]_vars

\* The service the lcores implement together; a queue has a frame in its hands
\* from inc_flow_timer to update_nums.
Service == INSTANCE FlowService WITH
    base   <- base_time,
    launch <- sche_time,
    open   <- [q \in Queues |-> IF pc[q] \in {"sleep", "send"} THEN flow[q] ELSE NoFlow],
    tally  <- [f \in Flows |-> [sent    |-> count[f].send - 1,
                                refused |-> count[f].drop,
                                missed  |-> count[f].misdl]]

\* tx_loop, main() and the card implement the abstract service of the flows.
ImplementsFlowService == Service!Spec

\* The talker ends by itself, however the deadlines, the ring and the stamps turn
\* out, and whatever the card does.
Finishes == <>(main = "stopped")
=============================================================================
