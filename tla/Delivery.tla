------------------------------ MODULE Delivery ------------------------------
(***************************************************************************)
(* Delivery of one-to-one messages between peers: the sender's             *)
(* PeerRuntime.deliverPayload (TCP attempts, one-hop relay, offline queue), *)
(* the receiver's PeerRuntime.handleIncomingPayload behind its TCP server,  *)
(* the relay's handleRelay, and the receiver's consolidatedSync that        *)
(* drains the offline queue kept by the bootstrap store.                    *)
(*                                                                         *)
(* A JavaScript function runs atomically between two awaits; every action   *)
(* below is such a run, or a run merged with the remote effect of the one   *)
(* HTTP request it awaits.                                                 *)
(***************************************************************************)
EXTENDS Naturals, Sequences, FiniteSets

CONSTANTS
    Peer,           \* peer ids
    Msg,            \* message ids (randomUUID), each with one target
    Src, Dst,       \* [Msg -> Peer]: the sending and the target peer
    Mode,           \* [Msg -> {"direct", "file", "relay"}]: the API call
    Faulty,         \* messages whose processing throws at the target: a text
                    \* it cannot decrypt, a file it may fail to write
    SendRetries,    \* config.peer.sendRetries
    RelayRetries,   \* the literal 1 of handleRelay
    SeenLimit,      \* the literal 1000 of handleIncomingPayload
    Slot,           \* activations of consolidatedSync that may overlap
    Churner,        \* the peers that run the churn simulation
    HttpFaults,     \* may a request to the bootstrap fail?
    InMemory,       \* does the bootstrap run on a MemoryStore?
    MaxSends,       \* bound on the messages that are sent
    MaxRestarts     \* bound on the number of crashes of a peer process

ASSUME ConstantsOK ==
    /\ Src \in [Msg -> Peer] /\ Dst \in [Msg -> Peer]
    /\ Mode \in [Msg -> {"direct", "file", "relay"}]
    /\ Faulty \subseteq Msg /\ Churner \subseteq Peer
    /\ SendRetries \in Nat /\ RelayRetries \in Nat
    /\ SeenLimit \in Nat \ {0} /\ MaxSends \in Nat /\ MaxRestarts \in Nat
    /\ HttpFaults \in BOOLEAN /\ InMemory \in BOOLEAN

VARIABLES
    \* The sender's activation of sendDirect / sendFile / sendViaRelay for m.
    stage,          \* the await it is suspended at
    attempt,        \* number of the TCP attempt whose socket is open
    relayPeer,      \* the relay it is talking to
    relays,         \* relays it has not tried yet (tryRelay)
    result,         \* what deliverPayload is going to return
    status,         \* localMessage.status
    stats,          \* this.stats of each peer
    \* The network: frames written to a socket and not yet read, ACK frames
    \* on a socket whose client still waits.
    frames, acks,
    \* The receiving side.
    seenMessageIds, \* per peer, insertion-ordered
    churnOffline,
    handling,       \* handler runs suspended after the duplicate check
    relayRun,       \* per relay run, the inner attempt it waits for (0: none)
    sync,           \* activations of consolidatedSync
    restarts,
    \* The bootstrap store.
    offlineMessages, messageAcks, directMessages,
    \* History variables: what the target has put in its message list ever,
    \* how often since its last start (2: more than once), and the ids its duplicate set dropped.
    handled, handledCount, forgotten

senderVars == <<stage, attempt, relayPeer, relays, result, status, stats>>
netVars == <<frames, acks>>
memVars == <<seenMessageIds, forgotten>>
peerVars == <<memVars, churnOffline, handling, relayRun, sync, restarts>>
storeVars == <<offlineMessages, messageAcks, directMessages>>
ghostVars == <<handled, handledCount>>
vars == <<senderVars, netVars, peerVars, storeVars, ghostVars>>

-----------------------------------------------------------------------------
(* Types *)

Attempt == 1 .. SendRetries + 1
InnerAttempt == 1 .. RelayRetries + 1
RelayRun == Msg \X Peer \X Attempt

Stage == {"idle", "tcp", "tryRelay", "viaRelay", "queue", "saveAck", "save",
          "done", "crashed"}
Result == {"none", "ok", "relayed", "queued", "failed"}
Status == {"none", "sending", "delivered", "delivered_via_relay",
           "failed_queued", "failed"}
AckStatus == {"none", "delivered", "delivered_via_relay", "queued_offline",
              "failed"}
\* "lost": there was a record, and it went with the memory of the bootstrap.  To
\* the code that is no record; only the properties tell the two apart.
Record == {"none", "pending", "delivered"} \cup (IF InMemory THEN {"lost"} ELSE {})
RowStatus == Status \cup {"received", "delivered_from_queue"}

\* One call of sendOnce: a TCP connection that carries one frame and at most
\* one reply.  run is the relay run an inner call belongs to.
Call == [hop : {"direct", "relay"}, msg : Msg, relay : Peer, run : {0},
         try : Attempt]
        \cup
        [hop : {"inner"}, msg : Msg, relay : Peer, run : Attempt,
         try : InnerAttempt]

DirectCall(m, n) ==
    [hop |-> "direct", msg |-> m, relay |-> Src[m], run |-> 0, try |-> n]
RelayCall(m, r, n) ==
    [hop |-> "relay", msg |-> m, relay |-> r, run |-> 0, try |-> n]
InnerCall(run, k) ==
    [hop |-> "inner", msg |-> run[1], relay |-> run[2], run |-> run[3],
     try |-> k]

SyncState == [on : BOOLEAN, todo : SUBSET Msg, saving : SUBSET Msg,
              done : SUBSET Msg]
NoSync == [on |-> FALSE, todo |-> {}, saving |-> {}, done |-> {}]

Stats == [sent : Nat, delivered : Nat, failed : Nat, queuedOffline : Nat]
NoStats == [sent |-> 0, delivered |-> 0, failed |-> 0, queuedOffline |-> 0]

SenderTypes ==
    /\ stage \in [Msg -> Stage]
    /\ attempt \in [Msg -> Attempt]
    /\ relayPeer \in [Msg -> Peer]
    /\ relays \in [Msg -> SUBSET Peer]
    /\ result \in [Msg -> Result]
    /\ status \in [Msg -> Status]
    /\ stats \in [Peer -> Stats]

NetTypes == frames \subseteq Call /\ acks \subseteq Call

MemTypes ==
    /\ seenMessageIds \in [Peer -> Seq(Msg)]
    /\ forgotten \in [Peer -> SUBSET Msg]

PeerTypes ==
    /\ churnOffline \in [Peer -> BOOLEAN]
    /\ handling \subseteq Call
    /\ relayRun \in [RelayRun -> 0 .. RelayRetries + 1]
    /\ sync \in [Peer \X Slot -> SyncState]
    /\ restarts \in 0 .. MaxRestarts

StoreTypes ==
    /\ offlineMessages \in [Msg -> Record]
    /\ messageAcks \in [Msg -> AckStatus]
    /\ directMessages \in [Msg -> RowStatus]

GhostTypes ==
    /\ handled \subseteq Msg
    /\ handledCount \in [Msg -> 0 .. 2]

TypeOK == /\ SenderTypes /\ NetTypes /\ MemTypes /\ PeerTypes
          /\ StoreTypes /\ GhostTypes

Init ==
    /\ stage = [m \in Msg |-> "idle"]
    /\ attempt = [m \in Msg |-> 1]
    /\ relayPeer = [m \in Msg |-> Src[m]]
    /\ relays = [m \in Msg |-> {}]
    /\ result = [m \in Msg |-> "none"]
    /\ status = [m \in Msg |-> "none"]
    /\ stats = [p \in Peer |-> NoStats]
    /\ frames = {} /\ acks = {} /\ handling = {}
    /\ seenMessageIds = [p \in Peer |-> <<>>]
    /\ churnOffline = [p \in Peer |-> FALSE]
    /\ relayRun = [run \in RelayRun |-> 0]
    /\ sync = [k \in Peer \X Slot |-> NoSync]
    /\ restarts = 0
    /\ offlineMessages = [m \in Msg |-> "none"]
    /\ messageAcks = [m \in Msg |-> "none"]
    /\ directMessages = [m \in Msg |-> "none"]
    /\ handled = {}
    /\ handledCount = [m \in Msg |-> 0]
    /\ forgotten = [p \in Peer |-> {}]

-----------------------------------------------------------------------------
(* Requests to the bootstrap: answered, carried out but not answered within *)
(* the 10 s of requestJson, or never carried out.                           *)

HttpOutcome == IF HttpFaults THEN {"ok", "unanswered", "refused"} ELSE {"ok"}
Reaches(o) == o # "refused"

\* The row of table t for m after a save with outcome o.
Saved(t, m, row, o) == IF Reaches(o) THEN [t EXCEPT ![m] = row] ELSE t

(* TCP calls.  A refused connection, an ERROR frame and the timer all end   *)
(* an attempt through finish(error), so a failed reply is not a message of  *)
(* its own: DirectFails and its kin may happen whenever the client waits.   *)

Waiting(c) ==
    \/ /\ c.hop = "direct" /\ stage[c.msg] = "tcp" /\ attempt[c.msg] = c.try
    \/ /\ c.hop = "relay" /\ stage[c.msg] \in {"tryRelay", "viaRelay"}
       /\ relayPeer[c.msg] = c.relay /\ attempt[c.msg] = c.try
    \/ /\ c.hop = "inner" /\ relayRun[<<c.msg, c.relay, c.run>>] = c.try

\* The ACK frame is lost on the server when the client destroyed its socket.
Reply(c) == IF Waiting(c) THEN acks \cup {c} ELSE acks

\* The peer whose server reads the frame.
Reader(c) == IF c.hop = "relay" THEN c.relay ELSE Dst[c.msg]

\* sendTcpPayload: attempts 1 .. retries + 1.
MayRetry_OffByOne(m) == attempt[m] <= SendRetries + 1
MayRetry(m) == attempt[m] <= SendRetries

Bump(p, field) == [stats EXCEPT ![p][field] = @ + 1]

IsText(m) == Mode[m] # "file"

-----------------------------------------------------------------------------
(* The sender *)

MaySend(m) ==
    stage[m] = "idle" /\ Cardinality({x \in Msg : stage[x] # "idle"}) < MaxSends

\* trackOutgoing, then deliverPayload up to its first await.
Track(m) ==
    /\ status' = [status EXCEPT ![m] = "sending"]
    /\ stats' = Bump(Src[m], "sent")

FirstAttempt(m) ==
    /\ stage' = [stage EXCEPT ![m] = "tcp"]
    /\ frames' = frames \cup {DirectCall(m, 1)}

\* sendDirect and forwardMessage.  The peer record may be stale, so the target
\* may look online or offline whatever it is.
SendDirect(m) ==
    /\ MaySend(m) /\ Mode[m] = "direct"
    /\ Track(m)
    /\ \/ FirstAttempt(m)
       \/ stage' = [stage EXCEPT ![m] = "queue"] /\ UNCHANGED frames
    /\ UNCHANGED <<attempt, relayPeer, relays, result, acks, peerVars,
                   storeVars, ghostVars>>

\* sendFile throws before it tracks anything when the target looks offline.
SendFile(m) ==
    /\ MaySend(m) /\ Mode[m] = "file"
    /\ Track(m)
    /\ FirstAttempt(m)
    /\ UNCHANGED <<attempt, relayPeer, relays, result, acks, peerVars,
                   storeVars, ghostVars>>

\* sendViaRelay: the relay differs from the target and is thought online.
SendViaRelay(m, r) ==
    /\ MaySend(m) /\ Mode[m] = "relay" /\ r \notin {Src[m], Dst[m]}
    /\ Track(m)
    /\ stage' = [stage EXCEPT ![m] = "viaRelay"]
    /\ relayPeer' = [relayPeer EXCEPT ![m] = r]
    /\ frames' = frames \cup {RelayCall(m, r, 1)}
    /\ UNCHANGED <<attempt, relays, result, acks, peerVars, storeVars,
                   ghostVars>>

\* sendTcpPayload returns ok: the ACK of the current attempt arrives.  Only
\* sendViaRelay assigns the status before it saves the acknowledgement.
AckArrives(m) ==
    /\ \/ /\ stage[m] = "tcp" /\ DirectCall(m, attempt[m]) \in acks
          /\ result' = [result EXCEPT ![m] = "ok"]
          /\ UNCHANGED status
       \/ /\ stage[m] = "tryRelay"
          /\ RelayCall(m, relayPeer[m], attempt[m]) \in acks
          /\ result' = [result EXCEPT ![m] = "relayed"]
          /\ UNCHANGED status
       \/ /\ stage[m] = "viaRelay"
          /\ RelayCall(m, relayPeer[m], attempt[m]) \in acks
          /\ result' = [result EXCEPT ![m] = "relayed"]
          /\ status' = [status EXCEPT ![m] = "delivered_via_relay"]
    /\ stage' = [stage EXCEPT ![m] = "saveAck"]
    /\ stats' = Bump(Src[m], "delivered")
    /\ acks' = {c \in acks : c.msg # m \/ c.hop = "inner"}
    /\ UNCHANGED <<attempt, relayPeer, relays, frames, peerVars, storeVars,
                   ghostVars>>

\* Next relay of tryRelay's loop, or queueOrFail when none is left.
NextRelay_KeepsTried(m, left) ==
    \/ \E r \in left :
          /\ stage' = [stage EXCEPT ![m] = "tryRelay"]
          /\ relayPeer' = [relayPeer EXCEPT ![m] = r]
          /\ relays' = [relays EXCEPT ![m] = left]
          /\ attempt' = [attempt EXCEPT ![m] = 1]
          /\ frames' = frames \cup {RelayCall(m, r, 1)}
    \/ /\ left = {}
       /\ stage' = [stage EXCEPT ![m] = "queue"]
       /\ UNCHANGED <<relayPeer, relays, attempt, frames>>

NextRelay(m, left) ==
    \/ \E r \in left :
          /\ stage' = [stage EXCEPT ![m] = "tryRelay"]
          /\ relayPeer' = [relayPeer EXCEPT ![m] = r]
          /\ relays' = [relays EXCEPT ![m] = left \ {r}]
          /\ attempt' = [attempt EXCEPT ![m] = 1]
          /\ frames' = frames \cup {RelayCall(m, r, 1)}
    \/ /\ left = {}
       /\ stage' = [stage EXCEPT ![m] = "queue"]
       /\ UNCHANGED <<relayPeer, relays, attempt, frames>>

\* The open attempt of a direct call ends with an error: retry, else relay
\* through the peers the cache says are online.
DirectFails(m) ==
    /\ stage[m] = "tcp"
    /\ acks' = acks \ {DirectCall(m, attempt[m])}
    /\ \/ /\ MayRetry(m)
          /\ attempt' = [attempt EXCEPT ![m] = @ + 1]
          /\ frames' = frames \cup {DirectCall(m, attempt[m] + 1)}
          /\ UNCHANGED <<stage, relayPeer, relays>>
       \/ /\ ~MayRetry(m)
          /\ \E online \in SUBSET (Peer \ {Src[m], Dst[m]}) :
                NextRelay(m, online)
    /\ UNCHANGED <<result, status, stats, peerVars, storeVars, ghostVars>>

\* tryRelay: no retry, the next relay of the loop.
TryRelayFails(m) ==
    /\ stage[m] = "tryRelay"
    /\ acks' = acks \ {RelayCall(m, relayPeer[m], attempt[m])}
    /\ NextRelay(m, relays[m])
    /\ UNCHANGED <<result, status, stats, peerVars, storeVars, ghostVars>>

\* sendViaRelay: retries the same relay, then gives up without queueing.
ViaRelayFails(m) ==
    /\ stage[m] = "viaRelay"
    /\ acks' = acks \ {RelayCall(m, relayPeer[m], attempt[m])}
    /\ \/ /\ MayRetry(m)
          /\ attempt' = [attempt EXCEPT ![m] = @ + 1]
          /\ frames' = frames \cup {RelayCall(m, relayPeer[m], attempt[m] + 1)}
          /\ UNCHANGED <<stage, result, status, stats>>
       \/ /\ ~MayRetry(m)
          /\ stage' = [stage EXCEPT ![m] = "saveAck"]
          /\ result' = [result EXCEPT ![m] = "failed"]
          /\ status' = [status EXCEPT ![m] = "failed"]
          /\ stats' = Bump(Src[m], "failed")
          /\ UNCHANGED <<attempt, frames>>
    /\ UNCHANGED <<relayPeer, relays, peerVars, storeVars, ghostVars>>

CountFailure_OneOrTheOther(m, queued) ==
    Bump(Src[m], IF queued THEN "queuedOffline" ELSE "failed")
CountFailure(m, queued) ==
    [stats EXCEPT ![Src[m]].failed = @ + 1,
                  ![Src[m]].queuedOffline = IF queued THEN @ + 1 ELSE @]

\* queueOrFail with its storeOfflineMessage request; a file is not queued.
QueueOrFail(m) ==
    /\ stage[m] = "queue"
    /\ stage' = [stage EXCEPT ![m] = "saveAck"]
    /\ \/ /\ Mode[m] = "direct"
          /\ \E o \in HttpOutcome :
                /\ offlineMessages' = Saved(offlineMessages, m, "pending", o)
                /\ result' = [result EXCEPT
                                 ![m] = IF o = "ok" THEN "queued" ELSE "failed"]
                /\ stats' = CountFailure(m, o = "ok")
       \/ /\ Mode[m] = "file"
          /\ result' = [result EXCEPT ![m] = "failed"]
          /\ stats' = CountFailure(m, FALSE)
          /\ UNCHANGED offlineMessages
    /\ UNCHANGED <<attempt, relayPeer, relays, status, netVars, peerVars,
                   messageAcks, directMessages, ghostVars>>

AckRow_BeforeAnswer(m) ==
    CASE result[m] = "ok" -> "delivered"
      [] result[m] = "relayed" -> "delivered_via_relay"
      [] OTHER -> "queued_offline"
AckRow(m) ==
    CASE result[m] = "ok" -> "delivered"
      [] result[m] = "relayed" -> "delivered_via_relay"
      [] result[m] = "queued" -> "queued_offline"
      [] OTHER -> "failed"

FinalStatus_QueuedIsDelivered(m) ==
    IF result[m] # "failed"
    THEN IF Mode[m] = "relay" THEN "delivered_via_relay" ELSE "delivered"
    ELSE IF Mode[m] = "direct" THEN "failed_queued" ELSE "failed"
FinalStatus(m) ==
    IF result[m] \in {"ok", "relayed"}
    THEN IF Mode[m] = "relay" THEN "delivered_via_relay" ELSE "delivered"
    ELSE IF Mode[m] = "direct" THEN "failed_queued" ELSE "failed"

\* saveAck, then the caller assigns localMessage.status (sendViaRelay has).
SaveAck(m) ==
    /\ stage[m] = "saveAck"
    /\ \E o \in HttpOutcome :
          messageAcks' = Saved(messageAcks, m, AckRow(m), o)
    /\ status' = [status EXCEPT ![m] = FinalStatus(m)]
    /\ stage' = [stage EXCEPT ![m] = "save"]
    /\ UNCHANGED <<attempt, relayPeer, relays, result, stats, netVars,
                   peerVars, offlineMessages, directMessages, ghostVars>>

\* updateDelivery: saveDirectMessage with the sender's view, over whatever row
\* the target may have written (a file has its row in another table).
SaveSent(m) ==
    /\ stage[m] = "save"
    /\ IF IsText(m)
       THEN \E o \in HttpOutcome :
               directMessages' = Saved(directMessages, m, status[m], o)
       ELSE UNCHANGED directMessages
    /\ stage' = [stage EXCEPT ![m] = "done"]
    /\ UNCHANGED <<attempt, relayPeer, relays, result, status, stats, netVars,
                   peerVars, offlineMessages, messageAcks, ghostVars>>

-----------------------------------------------------------------------------
(* The relay *)

\* handleRelay throws: the relay is churn-offline, or the target is unknown or
\* (as far as the bootstrap knows) offline.  No reply but an ERROR frame.
RelayRefuses(c) ==
    /\ c \in frames /\ c.hop = "relay"
    /\ frames' = frames \ {c}
    /\ UNCHANGED <<senderVars, acks, peerVars, storeVars, ghostVars>>

RelayForwards(c) ==
    LET run == <<c.msg, c.relay, c.try>> IN
    /\ c \in frames /\ c.hop = "relay" /\ ~churnOffline[c.relay]
    /\ frames' = (frames \ {c}) \cup {InnerCall(run, 1)}
    /\ relayRun' = [relayRun EXCEPT ![run] = 1]
    /\ UNCHANGED <<senderVars, acks, memVars, churnOffline, handling, sync,
                   restarts, storeVars, ghostVars>>

\* The target acknowledged the inner payload: the relay acknowledges its own.
InnerAckArrives(run) ==
    /\ relayRun[run] # 0 /\ InnerCall(run, relayRun[run]) \in acks
    /\ relayRun' = [relayRun EXCEPT ![run] = 0]
    /\ acks' = Reply(RelayCall(run[1], run[2], run[3]))
                  \ {InnerCall(run, relayRun[run])}
    /\ UNCHANGED <<senderVars, frames, memVars, churnOffline, handling, sync,
                   restarts, storeVars, ghostVars>>

\* sendTcpPayload with retries: 1, then handleRelay throws.
InnerRetries(run) ==
    /\ relayRun[run] \in 1 .. RelayRetries
    /\ acks' = acks \ {InnerCall(run, relayRun[run])}
    /\ relayRun' = [relayRun EXCEPT ![run] = @ + 1]
    /\ frames' = frames \cup {InnerCall(run, relayRun[run] + 1)}
    /\ UNCHANGED <<senderVars, memVars, churnOffline, handling, sync,
                   restarts, storeVars, ghostVars>>

InnerGivesUp_Acknowledges(run) ==
    /\ relayRun[run] > RelayRetries
    /\ acks' = Reply(RelayCall(run[1], run[2], run[3]))
                  \ {InnerCall(run, relayRun[run])}
    /\ relayRun' = [relayRun EXCEPT ![run] = 0]
    /\ UNCHANGED <<senderVars, frames, memVars, churnOffline, handling, sync,
                   restarts, storeVars, ghostVars>>
InnerGivesUp(run) ==
    /\ relayRun[run] > RelayRetries
    /\ acks' = acks \ {InnerCall(run, relayRun[run])}
    /\ relayRun' = [relayRun EXCEPT ![run] = 0]
    /\ UNCHANGED <<senderVars, frames, memVars, churnOffline, handling, sync,
                   restarts, storeVars, ghostVars>>

-----------------------------------------------------------------------------
(* The target: handleIncomingPayload *)

Ids(s) == {s[i] : i \in 1 .. Len(s)}
Seen(m) == m \in Ids(seenMessageIds[Dst[m]])

\* seenMessageIds.add and the eviction of the oldest id above the limit.
Remember_Nothing(m) == UNCHANGED memVars
Remember_OneTooMany(m) ==
    LET p == Dst[m]
        s == Append(seenMessageIds[p], m)
    IN /\ seenMessageIds' = [seenMessageIds EXCEPT
                                ![p] = IF Len(s) > SeenLimit + 1 THEN Tail(s)
                                       ELSE s]
       /\ UNCHANGED forgotten
Remember(m) ==
    LET p == Dst[m]
        s == Append(seenMessageIds[p], m)
    IN IF Len(s) > SeenLimit
       THEN /\ seenMessageIds' = [seenMessageIds EXCEPT ![p] = Tail(s)]
            /\ forgotten' = [forgotten EXCEPT ![p] = @ \cup {Head(s)}]
       ELSE /\ seenMessageIds' = [seenMessageIds EXCEPT ![p] = s]
            /\ UNCHANGED forgotten

\* upsertLocalMessage and stats.received.
Accept(m) ==
    /\ handled' = handled \cup {m}
    /\ handledCount' = [handledCount EXCEPT ![m] = IF @ = 0 THEN 1 ELSE 2]

\* Peer is offline by churn simulation: the handler throws.
HandleAway_Acknowledges(c) ==
    /\ c \in frames /\ c.hop # "relay" /\ churnOffline[Dst[c.msg]]
    /\ frames' = frames \ {c}
    /\ acks' = Reply(c)
    /\ UNCHANGED <<senderVars, peerVars, storeVars, ghostVars>>
HandleAway(c) ==
    /\ c \in frames /\ c.hop # "relay" /\ churnOffline[Dst[c.msg]]
    /\ frames' = frames \ {c}
    /\ UNCHANGED <<senderVars, acks, peerVars, storeVars, ghostVars>>

\* An id already seen returns at once and the TCP server acknowledges it.
HandleDuplicate(c) ==
    /\ c \in frames /\ c.hop # "relay" /\ ~churnOffline[Dst[c.msg]]
    /\ Seen(c.msg)
    /\ frames' = frames \ {c}
    /\ acks' = Reply(c)
    /\ UNCHANGED <<senderVars, peerVars, storeVars, ghostVars>>

\* A new id is remembered first; then a text is decrypted and shown, and the
\* run waits for saveDirectMessage; an undecryptable text throws; a file
\* waits for the file system.
HandleNew(c) ==
    LET m == c.msg IN
    /\ c \in frames /\ c.hop # "relay" /\ ~churnOffline[Dst[m]]
    /\ ~Seen(m)
    /\ frames' = frames \ {c}
    /\ Remember(m)
    /\ \/ /\ IsText(m) /\ m \notin Faulty
          /\ Accept(m)
          /\ handling' = handling \cup {c}
       \/ /\ IsText(m) /\ m \in Faulty
          /\ UNCHANGED <<handling, ghostVars>>
       \/ /\ ~IsText(m)
          /\ handling' = handling \cup {c}
          /\ UNCHANGED ghostVars
    /\ UNCHANGED <<senderVars, acks, churnOffline, relayRun, sync, restarts,
                   storeVars>>

\* The end of a text's run: the row is saved (or not), the ACK is written.
TextSaved(c) ==
    /\ c \in handling /\ IsText(c.msg)
    /\ \E o \in HttpOutcome :
          directMessages' = Saved(directMessages, c.msg, "received", o)
    /\ handling' = handling \ {c}
    /\ acks' = Reply(c)
    /\ UNCHANGED <<senderVars, frames, memVars, churnOffline, relayRun, sync,
                   restarts, offlineMessages, messageAcks, ghostVars>>

\* receiveFile after mkdir and writeFile; a failed write throws.
FileWritten(c) ==
    /\ c \in handling /\ ~IsText(c.msg)
    /\ Accept(c.msg)
    /\ handling' = handling \ {c}
    /\ acks' = Reply(c)
    /\ UNCHANGED <<senderVars, frames, memVars, churnOffline, relayRun, sync,
                   restarts, storeVars>>

FileWriteFails(c) ==
    /\ c \in handling /\ ~IsText(c.msg) /\ c.msg \in Faulty
    /\ handling' = handling \ {c}
    /\ UNCHANGED <<senderVars, netVars, memVars, churnOffline, relayRun, sync,
                   restarts, storeVars, ghostVars>>

-----------------------------------------------------------------------------
(* The target: consolidatedSync, which may run several times at once (timer, *)
(* /api/sync, createGroup, broadcast).  The queue keeps arrival order; the   *)
(* properties do not depend on it, so todo is a set.                        *)

Pending(p) == {m \in Msg : Dst[m] = p /\ offlineMessages[m] = "pending"}

SyncFetch(p, s) ==
    /\ ~sync[<<p, s>>].on /\ ~churnOffline[p] /\ Pending(p) # {}
    /\ sync' = [sync EXCEPT ![<<p, s>>] = [NoSync EXCEPT !.on = TRUE,
                                                     !.todo = Pending(p)]]
    /\ UNCHANGED <<senderVars, netVars, memVars, churnOffline, handling,
                   relayRun, restarts, storeVars, ghostVars>>

AtRecord(p, s, m) ==
    sync[<<p, s>>].on /\ sync[<<p, s>>].saving = {} /\ m \in sync[<<p, s>>].todo

SyncDuplicate_NotAcknowledged(p, s, m) ==
    /\ AtRecord(p, s, m) /\ ~churnOffline[p] /\ Seen(m)
    /\ sync' = [sync EXCEPT ![<<p, s>>].todo = @ \ {m}]
    /\ UNCHANGED <<senderVars, netVars, memVars, churnOffline, handling,
                   relayRun, restarts, storeVars, ghostVars>>
SyncDuplicate(p, s, m) ==
    /\ AtRecord(p, s, m) /\ ~churnOffline[p] /\ Seen(m)
    /\ sync' = [sync EXCEPT ![<<p, s>>].todo = @ \ {m},
                            ![<<p, s>>].done = @ \cup {m}]
    /\ UNCHANGED <<senderVars, netVars, memVars, churnOffline, handling,
                   relayRun, restarts, storeVars, ghostVars>>

SyncNew(p, s, m) ==
    /\ AtRecord(p, s, m) /\ ~churnOffline[p] /\ ~Seen(m)
    /\ m \notin Faulty
    /\ Remember(m)
    /\ Accept(m)
    /\ sync' = [sync EXCEPT ![<<p, s>>].todo = @ \ {m}, ![<<p, s>>].saving = {m}]
    /\ UNCHANGED <<senderVars, netVars, churnOffline, handling, relayRun,
                   restarts, storeVars>>

\* handleIncomingPayload throws: the whole batch is abandoned unacknowledged.
BatchAfterError_Acks(p, s) ==
    [sync EXCEPT ![<<p, s>>].todo = {}, ![<<p, s>>].done = @ \cup sync[<<p, s>>].todo]
BatchAfterError(p, s) == [sync EXCEPT ![<<p, s>>] = NoSync]

SyncThrows(p, s, m) ==
    /\ AtRecord(p, s, m)
    /\ \/ churnOffline[p] /\ UNCHANGED memVars
       \/ ~churnOffline[p] /\ ~Seen(m) /\ m \in Faulty /\ Remember(m)
    /\ sync' = BatchAfterError(p, s)
    /\ UNCHANGED <<senderVars, netVars, churnOffline, handling, relayRun,
                   restarts, storeVars, ghostVars>>

SyncSaved(p, s, m) ==
    /\ m \in sync[<<p, s>>].saving
    /\ \E o \in HttpOutcome : directMessages' =
          Saved(directMessages, m, "delivered_from_queue", o)
    /\ sync' = [sync EXCEPT ![<<p, s>>].saving = {}, ![<<p, s>>].done = @ \cup {m}]
    /\ UNCHANGED <<senderVars, netVars, memVars, churnOffline, handling,
                   relayRun, restarts, offlineMessages, messageAcks,
                   ghostVars>>

\* ackOfflineMessages / markOfflineDelivered: of the records that are there.
SyncAck(p, s, o) ==
    /\ sync[<<p, s>>].on /\ sync[<<p, s>>].todo = {} /\ sync[<<p, s>>].saving = {}
    /\ offlineMessages' =
          IF Reaches(o)
          THEN [m \in Msg |->
                  IF m \in sync[<<p, s>>].done /\ offlineMessages[m] # "lost"
                  THEN "delivered" ELSE offlineMessages[m]]
          ELSE offlineMessages
    /\ sync' = [sync EXCEPT ![<<p, s>>] = NoSync]
    /\ UNCHANGED <<senderVars, netVars, memVars, churnOffline, handling,
                   relayRun, restarts, messageAcks, directMessages, ghostVars>>

-----------------------------------------------------------------------------
(* Churn and crashes *)

ToggleChurn(p) ==
    /\ p \in Churner
    /\ churnOffline' = [churnOffline EXCEPT ![p] = ~@]
    /\ UNCHANGED <<senderVars, netVars, memVars, handling, relayRun, sync,
                   restarts, storeVars, ghostVars>>

\* The process dies and a new one starts: everything it held in memory is
\* gone, the runs suspended in it never resume, its sockets are closed (what
\* it had written to them may still be read by the other end).
Restart(p) ==
    /\ restarts < MaxRestarts
    /\ restarts' = restarts + 1
    /\ stage' = [m \in Msg |->
          IF Src[m] = p /\ stage[m] \notin {"idle", "done"} THEN "crashed"
          ELSE stage[m]]
    /\ stats' = [stats EXCEPT ![p] = NoStats]
    /\ frames' = {c \in frames : Reader(c) # p}
    /\ acks' = {c \in acks : IF c.hop = "inner" THEN c.relay # p
                             ELSE Src[c.msg] # p}
    /\ seenMessageIds' = [seenMessageIds EXCEPT ![p] = <<>>]
    /\ forgotten' = [forgotten EXCEPT ![p] = {}]
    /\ churnOffline' = [churnOffline EXCEPT ![p] = FALSE]
    /\ handling' = {c \in handling : Dst[c.msg] # p}
    /\ relayRun' = [run \in RelayRun |-> IF run[2] = p THEN 0
                                         ELSE relayRun[run]]
    /\ sync' = [k \in Peer \X Slot |-> IF k[1] = p THEN NoSync ELSE sync[k]]
    /\ handledCount' = [m \in Msg |-> IF Dst[m] = p THEN 0
                                      ELSE handledCount[m]]
    /\ UNCHANGED <<attempt, relayPeer, relays, result, status, storeVars,
                   handled>>

\* A bootstrap whose tables are in memory is started again: they are empty.
Wipe ==
    /\ InMemory
    /\ offlineMessages' =
          [m \in Msg |-> IF offlineMessages[m] = "none" THEN "none" ELSE "lost"]
    /\ messageAcks' = [m \in Msg |-> "none"]
    /\ directMessages' = [m \in Msg |-> "none"]
    /\ UNCHANGED <<senderVars, netVars, peerVars, ghostVars>>

-----------------------------------------------------------------------------

SenderNext(m) ==
    \/ SendDirect(m) \/ SendFile(m) \/ AckArrives(m) \/ DirectFails(m)
    \/ TryRelayFails(m) \/ ViaRelayFails(m) \/ QueueOrFail(m)
    \/ SaveAck(m) \/ SaveSent(m)
    \/ \E r \in Peer : SendViaRelay(m, r)

RelayNext ==
    \/ \E c \in frames : RelayRefuses(c) \/ RelayForwards(c)
    \/ \E run \in RelayRun :
          InnerAckArrives(run) \/ InnerRetries(run) \/ InnerGivesUp(run)

TargetNext ==
    \/ \E c \in frames : HandleAway(c) \/ HandleDuplicate(c) \/ HandleNew(c)
    \/ \E c \in handling : TextSaved(c) \/ FileWritten(c) \/ FileWriteFails(c)

SyncNext(p, s) ==
    \/ SyncFetch(p, s)
    \/ \E m \in Msg : \/ SyncDuplicate(p, s, m) \/ SyncNew(p, s, m)
                      \/ SyncThrows(p, s, m) \/ SyncSaved(p, s, m)
    \/ \E o \in HttpOutcome : SyncAck(p, s, o)

Next ==
    \/ \E m \in Msg : SenderNext(m)
    \/ RelayNext
    \/ TargetNext
    \/ \E p \in Peer, s \in Slot : SyncNext(p, s)
    \/ \E p \in Peer : ToggleChurn(p) \/ Restart(p)
    \/ Wipe

Spec == Init /\ [][Next]_vars

(***************************************************************************)
(* Fairness.  Every await of a sender ends: a TCP attempt has a timer, a    *)
(* request to the bootstrap a 10 s limit.  consolidatedSync runs on an      *)
(* interval for ever, and a bootstrap that is asked again and again answers *)
(* some acknowledgement.  Nothing is assumed of frames, of the relays, of   *)
(* the churn or of crashes.                                                 *)
(***************************************************************************)

SenderStep(m) ==
    \/ AckArrives(m) \/ DirectFails(m) \/ TryRelayFails(m)
    \/ ViaRelayFails(m) \/ QueueOrFail(m) \/ SaveAck(m) \/ SaveSent(m)

SyncStep(p, s) ==
    \E m \in Msg : \/ SyncDuplicate(p, s, m) \/ SyncNew(p, s, m)
                   \/ SyncThrows(p, s, m) \/ SyncSaved(p, s, m)

Fairness ==
    /\ \A m \in Msg : WF_vars(SenderStep(m))
    /\ \A p \in Peer, s \in Slot :
          /\ WF_vars(SyncFetch(p, s)) /\ WF_vars(SyncStep(p, s))
          /\ SF_vars(SyncAck(p, s, "ok"))

FairSpec == Spec /\ Fairness

-----------------------------------------------------------------------------
(* Properties                                                              *)

\* Texts whose processing at the target does not throw.
Sound == {m \in Msg \ Faulty : IsText(m)}

\* A handler run for m is under way at its target.
UnderWay(m) == \E c \in handling : c.msg = m

\* What a sender shows its user as delivered, directly or through a relay, the
\* target has in its message list: however attempts time out, duplicates are
\* answered, relays succeed late, and either process is restarted.
DeliveredWasHandled ==
    \A m \in Sound :
        status[m] \in {"delivered", "delivered_via_relay"} => m \in handled

\* A file shown as delivered is in the target's list, or is still being written
\* (the duplicate check answers a retry before the first run is finished).
\* Only a failed write or a crash of the target's process can lose it.
DeliveredFileArrives ==
    \A m \in Msg \ Faulty :
        ~IsText(m) /\ status[m] = "delivered" =>
            m \in handled \/ UnderWay(m) \/ restarts > 0

\* The record of a message reported as queued waits in the store until the
\* target has the message, so long as there is the store: no peer, no overlap of
\* syncs, batch abandoned half-way, lost acknowledgement or crash of a peer
\* retires it too early.  What a bootstrap has in memory goes with it.
NoSilentLoss ==
    \A m \in Sound :
        /\ result[m] = "queued" =>
              \/ m \in handled \/ offlineMessages[m] = "pending"
              \/ InMemory /\ offlineMessages[m] = "lost"
        /\ offlineMessages[m] = "delivered" => m \in handled

\* Between two starts a peer takes a message once, on whichever of the direct,
\* relayed and queued paths its copies come, and however their runs overlap,
\* unless its bounded set of seen ids has dropped the id.
AtMostOnce ==
    \A m \in Msg : m \notin forgotten[Dst[m]] => handledCount[m] <= 1

\* The set of seen ids never outgrows its limit, never holds an id twice, and
\* drops an id only to make room.
SeenIsBounded ==
    \A p \in Peer :
        LET s == seenMessageIds[p] IN
        /\ Len(s) <= SeenLimit
        /\ Cardinality(Ids(s)) = Len(s)
        /\ forgotten[p] # {} => Len(s) = SeenLimit

\* The acknowledgement table of the bootstrap never claims more than happened:
\* a queued message has its record, or had it in a store that is gone, and a
\* delivered one was taken by the target.
LedgerTruthful ==
    \A m \in Sound :
        /\ messageAcks[m] \in {"delivered", "delivered_via_relay"} =>
              m \in handled
        /\ messageAcks[m] = "queued_offline" => offlineMessages[m] # "none"

\* Sender, target and sync write the same row of the message table, in any
\* order and each over the other; whichever of them comes last, a row that says
\* the message got through is about a message the target has taken.
RowsTruthful ==
    \A m \in Sound :
        directMessages[m] \in {"received", "delivered_from_queue", "delivered",
                              "delivered_via_relay"} => m \in handled

InFlight(p) ==
    {m \in Msg : Src[m] = p /\ stage[m] \in {"tcp", "tryRelay", "viaRelay",
                                             "queue"}}

\* The counters of a peer balance at every moment: each message sent since it
\* started is delivered, failed or still on its way, never two of them, and
\* only failed messages count as queued.
StatsBalance ==
    \A p \in Peer :
        /\ stats[p].sent =
              stats[p].delivered + stats[p].failed + Cardinality(InFlight(p))
        /\ stats[p].queuedOffline <= stats[p].failed

\* The order in which a send goes through its awaits.
Progress == [idle |-> 0, tcp |-> 1, viaRelay |-> 1, tryRelay |-> 2, queue |-> 3,
             saveAck |-> 4, save |-> 5, done |-> 6, crashed |-> 6]

\* A step takes the send of m forward: to a later await, to a relay it has not
\* tried, or to the next of its attempts.
GoesOn(m) ==
    \/ Progress[stage[m]] < Progress[stage'[m]]
    \/ stage'[m] = stage[m] /\ relays'[m] \subseteq relays[m] \ {relayPeer'[m]}
       /\ relayPeer'[m] \in relays[m]
    \/ stage'[m] = stage[m] /\ relays'[m] = relays[m]
       /\ relayPeer'[m] = relayPeer[m]
       /\ attempt'[m] = attempt[m] + 1 /\ attempt[m] <= SendRetries

\* A send never goes back to where it was, and no copy of a message is put on
\* the network but by a step that takes its send forward or by a relay within
\* its attempts: the copies and the steps of a send are finite, whatever
\* answers are lost and whichever peers come and go.
SendAdvances ==
    [][/\ \A m \in Msg :
             <<stage[m], relays[m], relayPeer[m], attempt[m]>>' #
                <<stage[m], relays[m], relayPeer[m], attempt[m]>> => GoesOn(m)
       /\ \A c \in frames' \ frames :
             \/ c.hop # "inner" /\ GoesOn(c.msg)
             \/ /\ c.hop = "inner" /\ c.try = 1
                /\ RelayCall(c.msg, c.relay, c.run) \in frames \ frames'
             \/ /\ c.hop = "inner" /\ c.try \in 2 .. RelayRetries + 1
                /\ relayRun[<<c.msg, c.relay, c.run>>] = c.try - 1]_vars

\* Every send comes to an end: retries, relays and the queue are finite, and
\* no path leaves the caller suspended for ever (unless its process dies).
SendTerminates ==
    \A m \in Msg : []<>(stage[m] \in {"idle", "done", "crashed"})

\* No queued message waits for ever, whatever syncs are abandoned, whatever
\* acknowledgements are lost and whichever peer crashes, provided the target does
\* not keep on leaving (and the store is not lost).
QueueDrains ==
    \A m \in {x \in Msg : Mode[x] = "direct"} :
        <>[]~churnOffline[Dst[m]] => []<>(offlineMessages[m] # "pending")

-----------------------------------------------------------------------------
(* What the documents say and the code does not do; see the README.         *)

\* README: the ACK confirms that the application parsed and handled the
\* message.  The id is remembered before the message is handled, so a retry is
\* acknowledged as a duplicate even after a first run that threw (a text that
\* cannot be decrypted), or while it still waits for the disk (a file).
AckMeansHandled ==
    \A m \in Msg : status[m] = "delivered" => m \in handled

-----------------------------------------------------------------------------
(* The abstract specification: each sound message has one fate.             *)

Verdict == [m \in Sound |->
    CASE result[m] = "none" -> "nothing"
      [] result[m] \in {"ok", "relayed"} -> "delivered"
      [] result[m] = "queued" -> "queued"
      [] result[m] = "failed" -> "failed"]

Fate == INSTANCE MessageFate WITH
    Message <- Sound,
    Durable <- ~InMemory,
    taken <- handled \cap Sound,
    told <- Verdict,
    queue <- [m \in Sound |-> offlineMessages[m]]

\* Delivery implements MessageFate: the sender is told one fate and never
\* another, "delivered" only of what the target took, "queued" only of what
\* has a record, and a batch acknowledgement retires only what was taken.
ImplementsFate == Fate!FateSpec
=============================================================================
