--------------------------- MODULE MC_Connection ---------------------------
(* Connection with concrete streams: frames that are cut anywhere. *)
EXTENDS Connection
=============================================================================
