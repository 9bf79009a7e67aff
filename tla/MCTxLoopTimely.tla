--------------------------- MODULE MCTxLoopTimely ---------------------------
(* TxLoopTimely for TLC, with the flow tables of MCTxLoop and tighter ones. *)
EXTENDS MCTxLoop, TxLoopTimely

\* Three flows on one queue, each launch time delta - FUDGE_FACTOR = 2 after the
\* one before it; a flow of another period on the other queue.
TightTable == <<[queue |-> 0, period |-> 6, offset |-> 0, delta |-> 3],
                [queue |-> 0, period |-> 6, offset |-> 4, delta |-> 3],
                [queue |-> 1, period |-> 4, offset |-> 1, delta |-> 5],
                [queue |-> 0, period |-> 6, offset |-> 2, delta |-> 3]>>

TightOrder == 0 :> <<1, 4, 2, 1, 4, 2>> @@ 1 :> <<3, 3, 3>>

\* config/flow_config_queue.txt in units of 0.5 ms: period 2 ms, delta 1.5 ms, the
\* second queue's flow 1 ms after the first's.
ConfigQueueTable == <<[queue |-> 0, period |-> 4, offset |-> 0, delta |-> 3],
                      [queue |-> 1, period |-> 4, offset |-> 2, delta |-> 3]>>

ConfigQueueOrder == 0 :> <<1>> @@ 1 :> <<2>>

ASSUME TimelyOrdersAreScheduled ==
    Scheduled(TightTable, TightOrder) /\ Scheduled(ConfigQueueTable, ConfigQueueOrder)

\* The hypothesis of TxPassProofs!InTimeOnceSpaced.
ASSUME OrdersAreSpaced == SpacedSchedules
=============================================================================
