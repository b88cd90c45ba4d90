------------------------------ MODULE History ------------------------------
(***************************************************************************)
(* What one peer shows of its messages: the list this.messages of its       *)
(* PeerRuntime, the history it loads from the bootstrap while messages      *)
(* already come and go, the row of each message, which its sender and its   *)
(* target both write, and the list of a browser, fed by Socket.IO events.   *)
(* Whether a message arrives is the business of Delivery; here the other    *)
(* end does anything Delivery allows.                                       *)
(*                                                                         *)
(* An event is applied by the browser in the step that emits it: Socket.IO  *)
(* keeps their order, and a browser that lost its connection gets a         *)
(* snapshot when it is back.  A save takes effect at the bootstrap, or not,  *)
(* in the step in which its await ends.  The rows last: a bootstrap that     *)
(* restarts with its tables in memory meanwhile has none left to load, and   *)
(* is left out here (Delivery has it).                                      *)
(***************************************************************************)
EXTENDS Naturals, Sequences, FiniteSets

CONSTANTS
    Msg,            \* message ids
    Sent,           \* texts of this peer; the others are sent to it
    File,           \* files sent to this peer
    Unlisted,       \* texts whose row names nobody: broadcasts ("*") it takes
    Limit,          \* the literal 300 of upsertLocalMessage
    MaxRestarts,    \* bound on the crashes of this peer
    MaxAcross       \* bound on the messages in play around a crash

ASSUME HistoryConstants ==
    /\ Sent \subseteq Msg /\ File \subseteq Msg /\ Unlisted \subseteq Msg
    /\ Sent \cap File = {} /\ Sent \cap Unlisted = {} /\ File \cap Unlisted = {}
    /\ IsFiniteSet(Msg) /\ Limit \in Nat \ {0}
    /\ MaxRestarts \in Nat /\ MaxAcross \in Nat

VARIABLES
    messages,       \* this.messages: entries [id, status]
    mine,           \* ids whose entry is the object a send still refers to
    load,           \* loadMessageHistory
    answer,         \* the rows listMessages has answered with
    send,           \* sendDirect of each message of this peer
    verdict,        \* localMessage.status once the delivery has ended
    seen,           \* seenMessageIds
    receiving,      \* handleIncomingPayload suspended: id -> message.status
    row,            \* status of the row, direct_messages or file_transfers
    disk,           \* files written to received_files
    remote,         \* the other end of each message
    open, browser,  \* is the page connected? its list: id -> status (a page
                    \* that is not connected will be given a new one)
    restarts,
    \* History variables: what was taken ever, what entered the list since the
    \* history was loaded, which rows there were when the process started.
    taken, late, before

listVars == <<messages, mine, load, answer>>
runVars == <<send, verdict, seen, receiving>>
storeVars == <<row, disk>>
pageVars == <<open, browser>>
vars == <<listVars, runVars, storeVars, remote, pageVars, restarts,
          taken, late, before>>

Status == {"sending", "failed", "failed_queued", "received",
           "delivered_from_queue", "delivered"}
Row == Status \cup {"none"}
Entry == [id : Msg, status : Status]
Text == Msg \ File
Incoming == Msg \ Sent

TypeOK ==
    /\ messages \in Seq(Entry) /\ mine \subseteq Sent
    /\ load \in {"none", "asked", "answered", "done", "failed"}
    /\ answer \in [Msg -> Row]
    /\ send \in [Msg -> {"idle", "trying", "saving", "done", "crashed"}]
    /\ verdict \in [Msg -> Row]
    /\ seen \subseteq Msg /\ receiving \in [Msg -> Row]
    /\ row \in [Msg -> Row] /\ disk \subseteq File
    /\ remote \in [Msg -> {"sending", "took", "queued", "saved",
                         "ended"}]
    /\ open \in BOOLEAN /\ browser \in [Msg -> Row]
    /\ restarts \in 0 .. MaxRestarts
    /\ taken \subseteq Incoming /\ late \subseteq Msg
    /\ before \subseteq Msg

NoRows == [m \in Msg |-> "none"]

Init ==
    /\ messages = <<>> /\ mine = {} /\ load = "none" /\ answer = NoRows
    /\ send = [m \in Msg |-> "idle"] /\ verdict = NoRows
    /\ seen = {} /\ receiving = NoRows
    /\ row = NoRows /\ disk = {}
    /\ remote = [m \in Msg |-> "sending"]
    /\ open = FALSE /\ browser = NoRows
    /\ restarts = 0 /\ taken = {} /\ late = {} /\ before = {}

\* The bound: a message comes into play where Start says so.
Used == {m \in Msg : \/ send[m] # "idle" \/ m \in taken \cup seen
                     \/ remote[m] # "sending"}
Start(m) == m \in Used \/ restarts = 0 \/ Cardinality(Used) < MaxAcross

-----------------------------------------------------------------------------
(* The lists *)

Listed(s) == {s[i].id : i \in 1 .. Len(s)}
Of(m, st) == [id |-> m, status |-> st]

\* slice(-300)
Latest(s) == IF Len(s) > Limit THEN SubSeq(s, Len(s) - Limit + 1, Len(s)) ELSE s

\* upsertLocalMessage: replace the entry of this id in place, or append.
Upsert_Appends(s, e) == Latest(Append(s, e))
Upsert(s, e) ==
    IF e.id \in Listed(s)
    THEN Latest([i \in 1 .. Len(s) |-> IF s[i].id = e.id THEN e ELSE s[i]])
    ELSE Latest(Append(s, e))

\* public/app.js: statusRank and mergeMessage.
Rank == [st \in Row |->
    CASE st = "none" -> 0 [] st = "sending" -> 1 [] st = "failed" -> 2
      [] st = "failed_queued" -> 3 [] st = "received" -> 5
      [] st = "delivered_from_queue" -> 6 [] st = "delivered" -> 8]

Merge_KeepsTheFirst(old, new) == IF old = "none" THEN new ELSE old
Merge(old, new) == IF Rank[new] >= Rank[old] THEN new ELSE old

\* socket.on("message") and socket.on("message:update"): upsertMessage.
Emit(m, st) ==
    browser' = IF open THEN [browser EXCEPT ![m] = Merge(@, st)] ELSE browser

\* saveDirectMessage / saveFileTransfer: the row takes the status of the last
\* request that is carried out.
Save(m, st) == UNCHANGED row \/ row' = [row EXCEPT ![m] = st]

\* The list as the events "state" and "messages" carry it.
Snapshot(s) == [m \in Msg |->
    IF m \in Listed(s)
    THEN (CHOOSE e \in {s[i] : i \in 1 .. Len(s)} : e.id = m).status
    ELSE "none"]

-----------------------------------------------------------------------------
(* loadMessageHistory, once, near the end of start *)

AskHistory ==
    /\ load = "none" /\ load' = "asked"
    /\ UNCHANGED <<messages, mine, answer, runVars, storeVars, remote,
                   pageVars, restarts, taken, late, before>>

\* listMessages: the rows from or to this peer; no row of a file.
Shown_OwnOnly == Sent
Shown == Text \ Unlisted

StoreAnswers ==
    /\ load = "asked" /\ load' = "answered"
    /\ answer' = [m \in Msg |-> IF m \in Shown THEN row[m] ELSE "none"]
    /\ UNCHANGED <<messages, mine, runVars, storeVars, remote, pageVars,
                   restarts, taken, late, before>>

\* The rows in the order of createdAt, which may be any.
Orders(rows) ==
    LET S == {m \in Msg : rows[m] # "none"} IN
    {[i \in 1 .. Cardinality(S) |-> Of(f[i], rows[f[i]])] :
        f \in {g \in [1 .. Cardinality(S) -> S] :
                  \A i, j \in 1 .. Cardinality(S) : g[i] = g[j] => i = j}}

\* The list is replaced, whatever came meanwhile; "messages" and, at the end
\* of start, "state" are emitted.
HistoryArrives ==
    /\ load = "answered" /\ load' = "done"
    /\ \E s \in Orders(answer) :
          /\ messages' = s
          /\ browser' = IF open THEN Snapshot(s) ELSE browser
    /\ mine' = {} /\ late' = {}
    /\ UNCHANGED <<answer, runVars, storeVars, remote, open, restarts,
                   taken, before>>

\* The request fails: safeRun logs it, the list stays; "state" is emitted.
HistoryFails ==
    /\ load \in {"asked", "answered"} /\ load' = "failed"
    /\ browser' = IF open THEN Snapshot(messages) ELSE browser
    /\ UNCHANGED <<messages, mine, answer, runVars, storeVars, remote, open,
                   restarts, taken, late, before>>

-----------------------------------------------------------------------------
(* Messages of this peer *)

\* trackOutgoing: the list holds the very object the send goes on to change.
Track_ACopy(m) ==
    /\ messages' = Upsert(messages, Of(m, "sending")) /\ UNCHANGED mine
Track(m) ==
    /\ messages' = Upsert(messages, Of(m, "sending"))
    /\ mine' = mine \cup {m}

Send(m) ==
    /\ m \in Sent /\ send[m] = "idle" /\ Start(m)
    /\ send' = [send EXCEPT ![m] = "trying"]
    /\ Track(m)
    /\ late' = late \cup {m}
    /\ Emit(m, "sending")
    /\ UNCHANGED <<load, answer, verdict, seen, receiving, storeVars, remote,
                   open, restarts, taken, before>>

\* updateDelivery: localMessage.status, and saveDirectMessage is called.
Decide(m, st) ==
    /\ send[m] = "trying" /\ st \in {"delivered", "failed_queued"}
    /\ st = "delivered" => remote[m] # "sending"
    /\ send' = [send EXCEPT ![m] = "saving"]
    /\ verdict' = [verdict EXCEPT ![m] = st]
    /\ messages' = IF m \in mine
                   THEN [i \in 1 .. Len(messages) |->
                            IF messages[i].id = m THEN Of(m, st) ELSE messages[i]]
                   ELSE messages
    /\ UNCHANGED <<mine, load, answer, seen, receiving, storeVars, remote,
                   pageVars, restarts, taken, late, before>>

\* The save ends under safeRun; "message:update".
SendEnds(m) ==
    /\ send[m] = "saving"
    /\ send' = [send EXCEPT ![m] = "done"]
    /\ Save(m, verdict[m])
    /\ Emit(m, verdict[m])
    /\ UNCHANGED <<listVars, verdict, seen, receiving, disk, remote, open, restarts, taken, late, before>>

-----------------------------------------------------------------------------
(* Messages to this peer *)

\* The status of a text that comes from the offline queue.
FromQueue_AckStatus == "queued_offline"
FromQueue == "delivered_from_queue"

\* handleIncomingPayload of a text up to its save, live or from the queue (its
\* record may come again after a restart: the acknowledgement gets lost).
TakeText(m, st) ==
    /\ m \in Incoming \cap Text /\ m \notin seen /\ Start(m)
    /\ \/ st = "received"
       \/ st = FromQueue /\ remote[m] \in {"queued", "saved"}
    /\ seen' = seen \cup {m} /\ taken' = taken \cup {m}
    /\ messages' = Upsert(messages, Of(m, st))
    /\ late' = late \cup {m}
    /\ receiving' = [receiving EXCEPT ![m] = st]
    /\ UNCHANGED <<mine, load, answer, send, verdict, storeVars, remote, pageVars, restarts, before>>

TextTaken(m) ==
    /\ m \in Text /\ receiving[m] # "none"
    /\ receiving' = [receiving EXCEPT ![m] = "none"]
    /\ Save(m, receiving[m])
    /\ Emit(m, receiving[m])
    /\ UNCHANGED <<listVars, send, verdict, seen, disk, remote, open,
                   restarts, taken, late, before>>

\* receiveFile: the disk, then saveFileTransfer, then the list.
TakeFile(m) ==
    /\ m \in File /\ m \notin seen /\ Start(m)
    /\ seen' = seen \cup {m}
    /\ receiving' = [receiving EXCEPT ![m] = "received"]
    /\ UNCHANGED <<listVars, send, verdict, storeVars, remote, pageVars,
                   restarts, taken, late, before>>

WriteFile(m) ==
    /\ m \in File /\ receiving[m] # "none" /\ m \notin disk
    /\ disk' = disk \cup {m}
    /\ UNCHANGED <<listVars, runVars, row, remote, pageVars, restarts, taken,
                   late, before>>

\* saveFileTransfer is awaited before the list is touched.
FileTaken_NotAwaited(m) ==
    /\ m \in File /\ receiving[m] # "none"
    /\ receiving' = [receiving EXCEPT ![m] = "none"]
    /\ taken' = taken \cup {m}
    /\ Save(m, "received")
    /\ messages' = Upsert(messages, Of(m, "received"))
    /\ late' = late \cup {m}
    /\ Emit(m, "received")
    /\ UNCHANGED <<mine, load, answer, send, verdict, seen, disk, remote, open,
                   restarts, before>>
FileTaken(m) ==
    /\ m \in File /\ receiving[m] # "none" /\ m \in disk
    /\ receiving' = [receiving EXCEPT ![m] = "none"]
    /\ taken' = taken \cup {m}
    /\ Save(m, "received")
    /\ messages' = Upsert(messages, Of(m, "received"))
    /\ late' = late \cup {m}
    /\ Emit(m, "received")
    /\ UNCHANGED <<mine, load, answer, send, verdict, seen, disk, remote, open,
                   restarts, before>>

-----------------------------------------------------------------------------
(* The other end of each message *)

\* The target of a message of this peer takes it, and saves it (or not).
TargetTakes(m) ==
    /\ m \in Sent /\ send[m] # "idle" /\ remote[m] = "sending"
    /\ remote' = [remote EXCEPT ![m] = "took"]
    /\ UNCHANGED <<listVars, runVars, storeVars, pageVars, restarts, taken, late,
                   before>>

TargetSaves(m, st) ==
    /\ m \in Sent /\ remote[m] = "took"
    /\ \/ st = "received"
       \/ st = "delivered_from_queue" /\ verdict[m] = "failed_queued"
    /\ remote' = [remote EXCEPT ![m] = "ended"]
    /\ row' = [row EXCEPT ![m] = st]
    /\ UNCHANGED <<listVars, runVars, disk, pageVars, restarts, taken, late,
                   before>>

\* The sender of a message to this peer gives up and queues it ...
SenderQueues(m) ==
    /\ m \in Incoming \cap Text /\ remote[m] = "sending" /\ Start(m)
    /\ remote' = [remote EXCEPT ![m] = "queued"]
    /\ UNCHANGED <<listVars, runVars, storeVars, pageVars, restarts, taken, late,
                   before>>

\* ... and writes its verdict, over what this peer may have written.
SenderSaves(m, st) ==
    /\ m \in Incoming /\ Start(m)
    /\ \/ /\ st = "delivered" /\ remote[m] = "sending"
          /\ m \in taken \cup (File \cap seen)
          /\ remote' = [remote EXCEPT ![m] = "ended"]
       \/ /\ st = "failed_queued" /\ remote[m] = "queued"
          /\ remote' = [remote EXCEPT ![m] = "saved"]
       \/ /\ st = "failed" /\ remote[m] = "sending" /\ m \in File
          /\ remote' = [remote EXCEPT ![m] = "ended"]
    /\ row' = [row EXCEPT ![m] = st]
    /\ UNCHANGED <<listVars, runVars, disk, pageVars, restarts, taken, late,
                   before>>

-----------------------------------------------------------------------------
(* The page and the process *)

\* io.on('connection') sends the state.
Connect ==
    /\ ~open /\ open' = TRUE
    /\ browser' = Snapshot(messages)
    /\ UNCHANGED <<listVars, runVars, storeVars, remote, restarts, taken,
                   late, before>>

Disconnect ==
    /\ open /\ open' = FALSE /\ browser' = NoRows
    /\ UNCHANGED <<listVars, runVars, storeVars, remote, restarts, taken,
                   late, before>>

\* The process dies and starts again with an empty list.
Restart ==
    /\ restarts < MaxRestarts /\ Cardinality(Used) <= MaxAcross
    /\ restarts' = restarts + 1
    /\ messages' = <<>> /\ mine' = {} /\ load' = "none" /\ answer' = NoRows
    /\ send' = [m \in Msg |-> IF send[m] \in {"trying", "saving"} THEN "crashed"
                              ELSE send[m]]
    /\ seen' = {} /\ receiving' = NoRows
    /\ open' = FALSE /\ browser' = NoRows
    /\ late' = {} /\ before' = {m \in Msg : row[m] # "none"}
    /\ UNCHANGED <<verdict, storeVars, remote, taken>>

-----------------------------------------------------------------------------

Next ==
    \/ AskHistory \/ StoreAnswers \/ HistoryArrives \/ HistoryFails
    \/ \E m \in Msg :
          \/ Send(m) \/ SendEnds(m) \/ TextTaken(m)
          \/ TakeFile(m) \/ WriteFile(m) \/ FileTaken(m)
          \/ TargetTakes(m) \/ SenderQueues(m)
          \/ \E st \in Status \cup {FromQueue} :
                \/ Decide(m, st) \/ TakeText(m, st)
                \/ TargetSaves(m, st) \/ SenderSaves(m, st)
    \/ Connect \/ Disconnect \/ Restart

Spec == Init /\ [][Next]_vars

-----------------------------------------------------------------------------
(* Properties *)

\* The list never shows one message twice, whether its entry came from the
\* history, from a send, from a frame or from the queue; and once the history
\* is in, nothing that enters the list leaves it but for want of room.
ListIsSound ==
    /\ Cardinality(Listed(messages)) = Len(messages)
    /\ \A m \in late : m \in Listed(messages) \/ Len(messages) >= Limit

\* What the store held of this peer's texts when the process started is in the
\* list once the history is loaded, unless later messages pushed it out (or the
\* store itself was lost, which this module leaves out).
SavedSurvivesRestart ==
    load = "done" =>
        \A m \in Text \ Unlisted :
            m \in before => m \in Listed(messages) \/ Len(messages) >= Limit

\* A send that began after the history was loaded and has ended shows its
\* verdict in the list, though nothing writes it there but a reference to the
\* object that was listed when the send began.
VerdictIsShown ==
    \A i \in 1 .. Len(messages) :
        LET m == messages[i].id IN
        m \in Sent \cap late /\ load \in {"done", "failed"}
            /\ send[m] \in {"saving", "done"} =>
                messages[i].status = verdict[m]

Quiet == \A m \in Msg : receiving[m] = "none" /\ send[m] \notin {"trying", "saving"}

\* A connected page misses nothing: when no send and no receipt is under way it
\* shows every message of the list, with a status no worse than the list's,
\* although the list takes the last status and the page the highest.
BrowserKeepsUp ==
    open /\ Quiet =>
        \A i \in 1 .. Len(messages) :
            Rank[browser[messages[i].id]] >= Rank[messages[i].status]

\* A file transfer recorded as received is on the disk, whatever crashes and
\* whoever wrote the row before.
FileRowIsBacked ==
    \A m \in File : row[m] = "received" => m \in disk
=============================================================================
