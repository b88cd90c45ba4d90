---------------------------- MODULE MessageFate ----------------------------
(***************************************************************************)
(* What the delivery of messages promises, without saying how: a message    *)
(* is taken by its target, its sender is told one fate for good, and a copy *)
(* may wait in a queue.  The promise is in the guards: "delivered" is only  *)
(* said of a message its target has taken, "queued" only of one that has a   *)
(* record, and a record is only retired once the target has the message.    *)
(* A queue that is not durable may lose all its records at once; a message   *)
(* has one record at most in its life.                                      *)
(***************************************************************************)
CONSTANTS
    Message,
    Durable     \* does the queue survive for ever?

VARIABLES
    taken,  \* messages in their target's list
    told,   \* what the sender knows of each message
    queue   \* the record kept for each message

Told == {"nothing", "delivered", "queued", "failed"}

FateInit ==
    /\ taken = {}
    /\ told = [m \in Message |-> "nothing"]
    /\ queue = [m \in Message |-> "none"]

Take(m) ==
    /\ taken' = taken \cup {m}
    /\ UNCHANGED <<told, queue>>

TellDelivered(m) ==
    /\ told[m] = "nothing" /\ m \in taken
    /\ told' = [told EXCEPT ![m] = "delivered"]
    /\ UNCHANGED <<taken, queue>>

\* The sender gives up.  It may not have learned that its record was stored.
TellFailed(m) ==
    /\ told[m] = "nothing"
    /\ told' = [told EXCEPT ![m] = "failed"]
    /\ \/ UNCHANGED queue
       \/ queue[m] = "none" /\ queue' = [queue EXCEPT ![m] = "pending"]
    /\ UNCHANGED taken

TellQueued(m) ==
    /\ told[m] = "nothing" /\ queue[m] = "none"
    /\ told' = [told EXCEPT ![m] = "queued"]
    /\ queue' = [queue EXCEPT ![m] = "pending"]
    /\ UNCHANGED taken

Retire(S) ==
    /\ S \subseteq taken /\ \A m \in S : queue[m] \in {"pending", "delivered"}
    /\ queue' = [m \in Message |-> IF m \in S THEN "delivered" ELSE queue[m]]
    /\ UNCHANGED <<taken, told>>

LoseQueue ==
    /\ ~Durable
    /\ queue' = [m \in Message |-> IF queue[m] = "none" THEN "none" ELSE "lost"]
    /\ UNCHANGED <<taken, told>>

FateNext ==
    \/ \E m \in Message : \/ Take(m) \/ TellDelivered(m)
                          \/ TellFailed(m) \/ TellQueued(m)
    \/ \E S \in SUBSET Message : Retire(S)
    \/ LoseQueue

FateSpec == FateInit /\ [][FateNext]_<<taken, told, queue>>
=============================================================================
