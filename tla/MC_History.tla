---------------------------- MODULE MC_History ----------------------------
(* One text out, one text in, one file in, in a list of two: all three in   *)
(* a life, any two of them in a life and the next.                          *)
EXTENDS History

CONSTANTS out, in, file
=============================================================================
