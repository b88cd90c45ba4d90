---------------------------- MODULE MC_Launcher ----------------------------
(* The launcher with one start request at a time, or two that interleave. *)
EXTENDS Launcher, TLC

CONSTANTS a, b, r1, r2, c1, c2, c3, none

\* Processes are interchangeable: nothing chooses among them but Spawn's \E.
Processes == Permutations(Child)
=============================================================================
