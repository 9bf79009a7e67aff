--------------------------- MODULE MCTxStatistics ---------------------------
(* TxStatistics for TLC, with the flow tables of MCTxLoop. *)
EXTENDS MCTxLoop, TxStatistics
=============================================================================
