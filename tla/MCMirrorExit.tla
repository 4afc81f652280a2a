---------------------------- MODULE MCMirrorExit ----------------------------
(* MirrorExit for TLC; the numbers are in the cfg files. *)
EXTENDS MirrorExit
=============================================================================
