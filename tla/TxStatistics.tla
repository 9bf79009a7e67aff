---------------------------- MODULE TxStatistics ----------------------------
(***************************************************************************)
(* The timing records of src/statistic.c, kept by the transmission loop of *)
(* TxLoopTimely (PatientSpec): how far a frame was from its launch time,   *)
(* by the lcore's clock and by the card's, and how far apart from one      *)
(* period two frames of a flow were.                                       *)
(*                                                                         *)
(* A record is an average and a maximum; the last sample, which is only    *)
(* printed, and the identifiers are left out.  Every sample passes through *)
(* abs(), which takes an int.                                              *)
(***************************************************************************)
EXTENDS TxLoopTimely

CONSTANT INT_HALF   \* an int is at least -INT_HALF and below INT_HALF

ASSUME IntAssumption == INT_HALF \in Nat \ {0}

VARIABLES
    swtime,     \* prev_time[f], where TxLoop knows only whether it is set
    hwtime,     \* prev_hwtime[f], where TxLoop knows only whose time it is
    stamp_at,   \* the card: the time the stamp register holds
    st,         \* stats->st[f]: the timing records of a flow
    core_st     \* stats->st[num_flows]: those of an lcore

records == <<swtime, hwtime, st, core_st>>

Metrics     == {"delta_sw", "delta_hw", "jitter_sw", "jitter_hw"}
CoreMetrics == {"delta_sw", "delta_hw"}

StatInit ==
    /\ Init
    /\ swtime = [f \in Flows |-> 0]
    /\ hwtime = [f \in Flows |-> 0]
    /\ stamp_at = 0
    /\ st = [f \in Flows |-> [m \in Metrics |-> [avg |-> 0, max |-> 0]]]
    /\ core_st = [q \in Queues |-> [m \in CoreMetrics |-> [avg |-> 0, max |-> 0]]]

-----------------------------------------------------------------------------

\* abs() of a difference of two times.  For -INT_HALF its result is undefined in C.
AbsInt(x) ==
    LET i == ((x + INT_HALF) % (2 * INT_HALF)) - INT_HALF
    IN  IF i < 0 THEN -i ELSE i

\* Of a sending time from the launch time, in update_time_sw_st and update_time_hw_st.
Delta(time, tx) == AbsInt(time - tx)

\* Of the distance of two sending times from the period, in the jitter functions.
Jitter(before, time, p) == AbsInt(time - before - p)

\* Mutant: the old average keeps its full weight.
Averaged_FullWeight(r, d, n) ==
    [avg |-> (r.avg * n + d) \div n, max |-> IF d > r.max THEN d ELSE r.max]

\* The end of every update function: n is num_pkt_send, one more than were sent.
Averaged(r, d, n) ==
    [avg |-> (r.avg * (n - 1) + d) \div n, max |-> IF d > r.max THEN d ELSE r.max]

\* Mutant: only the flow's record is kept.
update_time_FlowOnly(m, q, f, d) == UNCHANGED core_st

\* update_time_sw, update_time_hw: the lcore's record, beside the flow's own.
update_time(m, q, f, d) ==
    core_st' = [core_st EXCEPT ![q][m] = Averaged(@, d, core[q].send)]

\* Mutant: the next flow has already been fetched.
SampledPeriod_NextFlow(q) == period(FlowHere(q))

\* flow->period, with the flow of the iteration before.
SampledPeriod(q) == period(flow[q])

\* The samples at the head of the for body, for the previous position's flow; they
\* are taken whether its frame was sent or missed.
SampleSoftware(q) ==
    LET f == FlowPrev(q)
        delta_sw == Delta(now, txtime[q])
        jitter_sw == Jitter(swtime[f], now, SampledPeriod(q))
        Flow(m, d) == Averaged(st[f][m], d, count[f].send)
    IN  /\ IF count[f].total # 0
           THEN update_time("delta_sw", q, f, delta_sw) ELSE UNCHANGED core_st
        /\ st' = [st EXCEPT
               ![f]["delta_sw"] = IF count[f].total # 0 THEN Flow("delta_sw", delta_sw) ELSE @,
               ![f]["jitter_sw"] = IF prev_time[f] THEN Flow("jitter_sw", jitter_sw) ELSE @]
        /\ swtime' = [swtime EXCEPT ![f] = now]
        /\ UNCHANGED <<hwtime, stamp_at>>

\* The samples of a frame whose stamp was read.
SampleHardware(q) ==
    LET f == flow[q]
        delta_hw == Delta(stamp_at, txtime[q])
        jitter_hw == Jitter(hwtime[f], stamp_at, period(f))
        Flow(m, d) == Averaged(st[f][m], d, count[f].send)
    IN  /\ update_time("delta_hw", q, f, delta_hw)
        /\ st' = [st EXCEPT
               ![f]["delta_hw"] = Flow("delta_hw", delta_hw),
               ![f]["jitter_hw"] = IF prev_hwtime[f] # NoFrame THEN Flow("jitter_hw", jitter_hw)
                                                            ELSE @]
        /\ hwtime' = [hwtime EXCEPT ![f] = stamp_at]
        /\ UNCHANGED <<swtime, stamp_at>>

StatLcore(q) ==
    \/ (FrameMissed(q) \/ FrameKept(q)) /\ SampleSoftware(q)
    \/ ReadStamp(q) /\ SampleHardware(q)
    \/ /\ \/ StartLoop(q) \/ LoopTest(q) \/ Wake(q)
          \/ SendOk(q) \/ SendFail(q) \/ PatientTimeout(q)
       /\ UNCHANGED <<records, stamp_at>>

StatLaunch(q) ==
    /\ NicLaunch(q)
    /\ stamp_at' = IF stamp' # stamp THEN now ELSE stamp_at
    /\ UNCHANGED records

StatNext ==
    \/ (Main \/ Tick \/ Stopped) /\ UNCHANGED <<records, stamp_at>>
    \/ \E q \in Queues : StatLcore(q) \/ StatLaunch(q)

StatSpec == StatInit /\ [][StatNext]_<<vars, records, stamp_at>>

-----------------------------------------------------------------------------
(* Properties.                                                             *)

\* However many of the frames counted gave no sample, and although missed frames
\* give samples that are not counted, no average (statistic.c:114) exceeds the largest
\* of its samples: the weights never add up to more than one.  They may add up to less:
\* num_pkt_send is two at the first hardware sample, and half of it is the average.
AverageBelowMaximum ==
    /\ \A f \in Flows : \A m \in Metrics : st[f][m].avg <= st[f][m].max
    /\ \A q \in Queues : \A m \in CoreMetrics : core_st[q][m].avg <= core_st[q][m].max

\* The worst case an lcore reports is the worst case of one of its flows.
CoreMaximum ==
    \A q \in Queues : \A m \in CoreMetrics :
        core_st[q][m].max = Max({0} \cup {st[f][m].max : f \in FlowsOf(q)})

\* No frame leaves the card so late after its launch time that an int cannot hold it.
SamplesFit ==
    \A q \in Queues : pc[q] = "stamp" /\ stamp # NoFrame => stamp_at - txtime[q] < INT_HALF

\* No frame leaves early and two stamps compared are of launch times one period
\* apart, hence the hardware jitter of a flow (statistic.h:29) is no more than its
\* frames' distance from their launch times explains.
HardwareJitterExplained ==
    \A f \in Flows : st[f]["jitter_hw"].max <= st[f]["delta_hw"].max

\* The software times compared belong to launch times one period apart, too, those
\* of missed frames included.  Nothing is said of the last flow of a schedule: its
\* first previous time is the beginning of the loop and belongs to no frame.
SoftwareJitterExplained ==
    \A f \in Flows :
        f # Order[queue(f)][NumFrames(queue(f))] =>
            st[f]["jitter_sw"].max <= 2 * st[f]["delta_sw"].max
=============================================================================
