----------------------------- MODULE MC_Fanout -----------------------------
(* One group of b's making and one send of a, to the group or to everybody  *)
(* online; processing it throws at b in the status run.                     *)
EXTENDS Fanout

CONSTANTS a, b, c, g1, s1

ByB == [g \in Group |-> b]
NamesA == [g \in Group |-> {a}]
FaultyAtB == {<<s1, b>>}
AddsC == [g \in Group |-> {c}]
=============================================================================
