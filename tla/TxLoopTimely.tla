---------------------------- MODULE TxLoopTimely ----------------------------
(***************************************************************************)
(* TxLoop under the timing the program is meant to have.                   *)
(*                                                                         *)
(* PatientSpec: the HW_TIMESTAMP_TRY_TIMES polls of the stamp register     *)
(* last longer than a frame waits in the ring, so that an lcore gives up   *)
(* only when its frame has left and the register is empty.                 *)
(*                                                                         *)
(* PromptSpec: in addition the lcores and the card take no time: the clock *)
(* moves only when each of them waits for a later moment.                  *)
(***************************************************************************)
EXTENDS TxLoop

\* Mutant: a single poll of the register.
PatientTimeout_OnePoll(q) == StampTimeout(q) /\ stamp = NoFrame

\* The poll loop of get_tx_hardware_timestamp, which outlasts the frame's wait.
PatientTimeout(q) ==
    /\ StampTimeout(q)
    /\ stamp = NoFrame
    /\ ring[q] = <<>>

PatientLcore(q) ==
    \/ StartLoop(q)
    \/ LoopTest(q)
    \/ FrameMissed(q)
    \/ FrameKept(q)
    \/ Wake(q)
    \/ SendOk(q)
    \/ SendFail(q)
    \/ ReadStamp(q)
    \/ PatientTimeout(q)

PatientNext ==
    \/ Main
    \/ \E q \in Queues : PatientLcore(q) \/ NicLaunch(q)
    \/ Tick
    \/ Stopped

PatientSpec == Init /\ [][PatientNext]_vars

\* An lcore or the card has something to do at the present moment.
LcoreReady(q) ==
    \/ pc[q] \in {"start", "while", "for", "send"}
    \/ pc[q] = "sleep" /\ now >= WakeTime(flow[q], txtime[q])
    \/ pc[q] = "stamp" /\ (stamp # NoFrame \/ ring[q] = <<>>)

NicReady(q) ==
    /\ ring[q] # <<>>
    /\ "TXTIME" \in OffloadFlags => now >= Head(ring[q]).txtime

PromptTick ==
    /\ main # "launch"
    /\ \A q \in Queues : ~LcoreReady(q) /\ ~NicReady(q)
    /\ Tick

PromptNext ==
    \/ Main
    \/ \E q \in Queues : PatientLcore(q) \/ NicLaunch(q)
    \/ PromptTick
    \/ Stopped

PromptSpec == Init /\ [][PromptNext]_vars

-----------------------------------------------------------------------------
(* Properties.                                                             *)

\* update_jitter_hw_st subtracts one period from the distance of two hardware
\* times (statistic.h:29): they belong to launch times one period apart, also when
\* deadlines are missed in between.  (With one patient lcore no frame is refused and no
\* stamp fails to come; TxLoop!JitterWholePeriods is what is left when they do.)
JitterConsecutive ==
    \A q \in Queues :
        pc[q] = "stamp" /\ stamp # NoFrame /\ prev_hwtime[flow[q]] # NoFrame =>
            stamp.txtime - prev_hwtime[flow[q]].txtime = period(flow[q])

\* main() stops the port as soon as the lcores have returned: no frame is left in
\* a ring then.
DrainedAtStop ==
    (\A q \in Queues : pc[q] \in {"idle", "done"}) => \A q \in Queues : ring[q] = <<>>

\* The launch time before that of position i.
LaunchBefore(q, i) ==
    IF i = 1 THEN offset(Order[q][NumFrames(q)]) ELSE SlotTime(q, i - 1)

\* Each launch time of a queue is delta - FUDGE_FACTOR or more behind the one before it.
SpacedSchedules ==
    \A q \in Queues : \A i \in 1 .. NumFrames(q) :
        /\ delta(Order[q][i]) >= FUDGE_FACTOR
        /\ LaunchBefore(q, i) + delta(Order[q][i]) <= SlotTime(q, i) + FUDGE_FACTOR

\* The lcore is busy with a frame until its launch, for its stamp.  If the launch
\* times of a queue are delta - FUDGE_FACTOR apart, it is in time for every frame
\* once it has sent one: only launch times that passed before it began are missed.
InTimeOnceSending ==
    [][\A q \in Queues : core[q].send > 1 => core'[q].misdl = core[q].misdl]_vars
=============================================================================
