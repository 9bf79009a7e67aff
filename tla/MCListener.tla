----------------------------- MODULE MCListener -----------------------------
(* Listener for TLC: all values are in the configuration.                  *)
EXTENDS Listener
=============================================================================
