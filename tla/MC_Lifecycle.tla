---------------------------- MODULE MC_Lifecycle ----------------------------
(* Instances of Lifecycle for TLC. *)
EXTENDS Lifecycle

CONSTANTS t1, t2
=============================================================================
