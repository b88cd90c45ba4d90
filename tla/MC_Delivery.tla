---------------------------- MODULE MC_Delivery ----------------------------
(* Instances of Delivery for TLC.                                           *)
EXTENDS Delivery, TLC

CONSTANTS a, b, c, m1, m2, m3, m4, s1, s2

ThreePeers == {a, b, c}
TwoPeers == {a, b}

\* Every message is from a to b (c can relay).
FromA == [m \in Msg |-> a]
ToB == [m \in Msg |-> b]

AllDirect == [m \in Msg |-> "direct"]
EachMode == [m \in {m1, m2, m3, m4} |->
    CASE m = m1 -> "direct" [] m = m2 -> "relay" [] OTHER -> "file"]

\* The messages of a run are alike, and so are the activations of
\* consolidatedSync: sound for the safety runs that use it.
Alike == Permutations(Msg) \cup Permutations(Slot)
=============================================================================
