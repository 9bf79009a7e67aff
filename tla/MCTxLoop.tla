------------------------------ MODULE MCTxLoop ------------------------------
(***************************************************************************)
(* TxLoop for TLC: small flow tables and the schedules that src/sche.c     *)
(* computes for them.  (The orders are written out because TLC evaluates a *)
(* constant's definition again for every ENABLED; the assumption says that *)
(* they are the computed ones.)                                            *)
(***************************************************************************)
EXTENDS TxLoop, TLC

Sche == INSTANCE ScheduleOps WITH WORD <- 4096, INT_HALF <- 2048

Scheduled(table, order) ==
    \A q \in DOMAIN order :
        order[q] = Sche!OrderOf(Sche!init_schedule_state_per_queue(
                        table, Sche!calculate_cycle(table), q))

MCFlows == DOMAIN FlowTable

\* Two flows of different periods on one queue.
MixedTable == <<[queue |-> 0, period |-> 2, offset |-> 0, delta |-> 1],
                [queue |-> 0, period |-> 4, offset |-> 1, delta |-> 2]>>

MixedOrder == 0 :> <<1, 2, 1>>

\* Two queues, the flows of a queue having the same period.
QueueTable == <<[queue |-> 0, period |-> 3, offset |-> 1, delta |-> 2],
                [queue |-> 1, period |-> 3, offset |-> 0, delta |-> 1],
                [queue |-> 0, period |-> 3, offset |-> 0, delta |-> 1]>>

QueueOrder == 0 :> <<3, 1>> @@ 1 :> <<2>>

ASSUME OrdersAreScheduled ==
    Scheduled(MixedTable, MixedOrder) /\ Scheduled(QueueTable, QueueOrder)

\* The hypotheses of TxPassProofs: every schedule is one whole cycle, in the order in
\* which the periods begin.
ASSUME OrdersArePasses == ExactSchedules /\ SortedStarts /\ NearOffsets
=============================================================================
