---------------------------- MODULE MCExecution -----------------------------
(* Execution for TLC; the numbers are in the cfg files. *)
EXTENDS Execution
=============================================================================
