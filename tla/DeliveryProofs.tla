--------------------------- MODULE DeliveryProofs ---------------------------
(***************************************************************************)
(* Theorems about Delivery for every set of peers and messages, every       *)
(* number of retries and every limit of the duplicate set.                  *)
(***************************************************************************)
EXTENDS Delivery, SequenceTheorems, TLAPS

USE ConstantsOK DEF ConstantsOK

-----------------------------------------------------------------------------
(* The calls and the counters have their types. *)

LEMMA CallTypes ==
    /\ \A m \in Msg, n \in Attempt : DirectCall(m, n) \in Call
    /\ \A m \in Msg, r \in Peer, n \in Attempt : RelayCall(m, r, n) \in Call
    /\ \A run \in RelayRun, k \in InnerAttempt : InnerCall(run, k) \in Call
BY DEF Attempt, InnerAttempt, RelayRun, Call, DirectCall, RelayCall, InnerCall

LEMMA BumpType ==
    ASSUME TypeOK, NEW p \in Peer,
           NEW field \in {"sent", "delivered", "failed", "queuedOffline"}
    PROVE  Bump(p, field) \in [Peer -> Stats]
<1>1. stats \in [Peer -> Stats]
    BY DEF TypeOK, SenderTypes, MemTypes
<1>2. stats[p] \in Stats
    BY <1>1
<1>3. CASE field = "sent"
    <2>1. [stats[p] EXCEPT !["sent"] = @ + 1] \in Stats
        BY <1>2 DEF Stats
    <2> QED
        BY <1>1, <1>2, <1>3, <2>1 DEF Bump
<1>4. CASE field = "delivered"
    <2>1. [stats[p] EXCEPT !["delivered"] = @ + 1] \in Stats
        BY <1>2 DEF Stats
    <2> QED
        BY <1>1, <1>2, <1>4, <2>1 DEF Bump
<1>5. CASE field = "failed"
    <2>1. [stats[p] EXCEPT !["failed"] = @ + 1] \in Stats
        BY <1>2 DEF Stats
    <2> QED
        BY <1>1, <1>2, <1>5, <2>1 DEF Bump
<1>6. CASE field = "queuedOffline"
    <2>1. [stats[p] EXCEPT !["queuedOffline"] = @ + 1] \in Stats
        BY <1>2 DEF Stats
    <2> QED
        BY <1>1, <1>2, <1>6, <2>1 DEF Bump
<1> QED
    BY <1>3, <1>4, <1>5, <1>6

LEMMA CountFailureType ==
    ASSUME TypeOK, NEW m \in Msg, NEW queued \in BOOLEAN
    PROVE  CountFailure(m, queued) \in [Peer -> Stats]
<1>1. stats \in [Peer -> Stats] /\ Src[m] \in Peer
    BY DEF TypeOK, SenderTypes, MemTypes
<1>2. stats[Src[m]] \in Stats
    BY <1>1
<1> DEFINE old == stats[Src[m]]
           new == [old EXCEPT !.failed = @ + 1,
                     !.queuedOffline = IF queued THEN @ + 1 ELSE @]
<1>3. new \in Stats
    <2>1. [old EXCEPT !.failed = @ + 1] \in Stats
        BY <1>2 DEF Stats
    <2>2. \A r \in Stats : [r EXCEPT !.queuedOffline = @ + 1] \in Stats
        BY DEF Stats
    <2>3. \A r \in Stats : [r EXCEPT !.queuedOffline = @] = r
        BY DEF Stats
    <2> QED
        BY <1>2, <2>1, <2>2, <2>3 DEF Stats
<1>4. CountFailure(m, queued) = [stats EXCEPT ![Src[m]] = new]
    BY <1>1, <1>2 DEF CountFailure, Stats
<1> QED
    BY <1>1, <1>3, <1>4

LEMMA ReplyType ==
    ASSUME TypeOK, NEW c \in Call
    PROVE  Reply(c) \subseteq Call
BY DEF TypeOK, NetTypes, Reply

LEMMA RememberType ==
    ASSUME TypeOK, NEW m \in Msg, Remember(m)
    PROVE  /\ seenMessageIds' \in [Peer -> Seq(Msg)]
           /\ forgotten' \in [Peer -> SUBSET Msg]
<1> DEFINE p == Dst[m]
           s == Append(seenMessageIds[p], m)
<1>1. p \in Peer /\ seenMessageIds[p] \in Seq(Msg)
    BY DEF TypeOK, SenderTypes, MemTypes
<1>2. s \in Seq(Msg) /\ Len(s) = Len(seenMessageIds[p]) + 1
    BY <1>1
<1>3. Head(s) \in Msg /\ Tail(s) \in Seq(Msg)
    <2>1. s # << >>
        BY <1>1, <1>2
    <2> QED
        BY <1>2, <2>1, HeadTailProperties
<1>4. seenMessageIds \in [Peer -> Seq(Msg)] /\ forgotten \in [Peer -> SUBSET Msg]
    BY DEF TypeOK, SenderTypes, MemTypes
<1>5. \/ /\ seenMessageIds' = [seenMessageIds EXCEPT ![p] = Tail(s)]
         /\ forgotten' = [forgotten EXCEPT ![p] = @ \cup {Head(s)}]
      \/ /\ seenMessageIds' = [seenMessageIds EXCEPT ![p] = s]
         /\ forgotten' = forgotten
    BY DEF Remember
<1> HIDE DEF s, p
<1>6. seenMessageIds' \in [Peer -> Seq(Msg)]
    BY <1>1, <1>2, <1>3, <1>4, <1>5
<1>7. forgotten[p] \in SUBSET Msg /\ forgotten[p] \cup {Head(s)} \in SUBSET Msg
    BY <1>1, <1>3, <1>4
<1>8. forgotten' \in [Peer -> SUBSET Msg]
    <2>1. CASE forgotten' = [forgotten EXCEPT ![p] = @ \cup {Head(s)}]
        BY <1>4, <1>7, <2>1
    <2> QED
        BY <1>4, <1>5, <2>1
<1> QED
    BY <1>6, <1>8

-----------------------------------------------------------------------------
(* Type correctness *)

LEMMA UnchangedTypes ==
    ASSUME TypeOK
    PROVE  /\ UNCHANGED senderVars => SenderTypes'
           /\ UNCHANGED netVars => NetTypes'
           /\ UNCHANGED memVars => MemTypes'
           /\ UNCHANGED peerVars => MemTypes' /\ PeerTypes'
           /\ UNCHANGED storeVars => StoreTypes'
           /\ UNCHANGED ghostVars => GhostTypes'
<1> USE DEF TypeOK
<1>1. UNCHANGED senderVars => SenderTypes'
    BY DEF SenderTypes, senderVars
<1>2. UNCHANGED netVars => NetTypes'
    BY DEF NetTypes, netVars
<1>3. UNCHANGED memVars => MemTypes'
    BY DEF MemTypes, memVars
<1>4. UNCHANGED peerVars => MemTypes' /\ PeerTypes'
    BY DEF MemTypes, memVars, PeerTypes, peerVars
<1>5. UNCHANGED storeVars => StoreTypes'
    BY DEF StoreTypes, storeVars
<1>6. UNCHANGED ghostVars => GhostTypes'
    BY DEF GhostTypes, ghostVars
<1> QED
    BY <1>1, <1>2, <1>3, <1>4, <1>5, <1>6

LEMMA SenderType ==
    ASSUME TypeOK, NEW m \in Msg, SenderNext(m)
    PROVE  TypeOK'
<1> USE UnchangedTypes DEF TypeOK
<1>0. ASSUME Track(m), stage' \in {[stage EXCEPT ![m] = "tcp"],
                                   [stage EXCEPT ![m] = "queue"]},
             UNCHANGED <<attempt, relayPeer, relays, result>>
      PROVE  SenderTypes'
    BY <1>0, BumpType DEF Track, SenderTypes, Stage, Status
<1>1. CASE SendDirect(m)
    <2>1. SenderTypes'
        BY <1>0, <1>1 DEF SendDirect, FirstAttempt
    <2>2. NetTypes'
        BY <1>1, CallTypes DEF SendDirect, FirstAttempt, NetTypes, Attempt
    <2> QED
        BY <1>1, <2>1, <2>2 DEF SendDirect
<1>11. CASE SendFile(m)
    <2>1. SenderTypes'
        BY <1>0, <1>11 DEF SendFile, FirstAttempt
    <2>2. NetTypes'
        BY <1>11, CallTypes DEF SendFile, FirstAttempt, NetTypes, Attempt
    <2> QED
        BY <1>11, <2>1, <2>2 DEF SendFile
<1>2. ASSUME NEW r \in Peer, SendViaRelay(m, r)
      PROVE  TypeOK'
    <2>1. SenderTypes'
        BY <1>2, BumpType DEF SendViaRelay, Track, SenderTypes, Stage, Status
    <2>2. NetTypes'
        BY <1>2, CallTypes DEF SendViaRelay, NetTypes, Attempt
    <2> QED
        BY <1>2, <2>1, <2>2 DEF SendViaRelay
<1>3. CASE AckArrives(m)
    <2>1. SenderTypes'
        <3>1. /\ stage' = [stage EXCEPT ![m] = "saveAck"]
              /\ stats' = Bump(Src[m], "delivered")
              /\ UNCHANGED <<attempt, relayPeer, relays>>
            BY <1>3 DEF AckArrives
        <3>2. PICK r \in Result : result' = [result EXCEPT ![m] = r]
            BY <1>3 DEF AckArrives, Result
        <3>3. status' \in [Msg -> Status]
            BY <1>3 DEF AckArrives, SenderTypes, Status
        <3>4. stats' \in [Peer -> Stats]
            BY <3>1, BumpType
        <3> QED
            BY <3>1, <3>2, <3>3, <3>4 DEF SenderTypes, Stage
    <2>2. NetTypes'
        BY <1>3 DEF AckArrives, NetTypes
    <2> QED
        BY <1>3, <2>1, <2>2 DEF AckArrives
<1>4. ASSUME NEW left \in SUBSET Peer, NextRelay(m, left),
             UNCHANGED <<result, status, stats>>
      PROVE  /\ SenderTypes'
             /\ frames' \subseteq Call
    <2>1. CASE left = {} /\ stage' = [stage EXCEPT ![m] = "queue"]
                 /\ UNCHANGED <<relayPeer, relays, attempt, frames>>
        BY <1>4, <2>1 DEF SenderTypes, NetTypes, Stage
    <2>2. ASSUME NEW r \in left,
                 stage' = [stage EXCEPT ![m] = "tryRelay"],
                 relayPeer' = [relayPeer EXCEPT ![m] = r],
                 relays' = [relays EXCEPT ![m] = left \ {r}],
                 attempt' = [attempt EXCEPT ![m] = 1],
                 frames' = frames \cup {RelayCall(m, r, 1)}
          PROVE  SenderTypes' /\ frames' \subseteq Call
        <3>1. RelayCall(m, r, 1) \in Call /\ 1 \in Attempt
            BY CallTypes DEF Attempt
        <3>2. left \ {r} \in SUBSET Peer
            OBVIOUS
        <3>3. SenderTypes'
            BY <1>4, <2>2, <3>1, <3>2 DEF SenderTypes, Stage
        <3> QED
            BY <2>2, <3>1, <3>3 DEF NetTypes
    <2> QED
        BY <1>4, <2>1, <2>2 DEF NextRelay
<1>5. CASE DirectFails(m)
    <2>1. CASE MayRetry(m)
        <3>1. attempt[m] + 1 \in Attempt
            BY <2>1 DEF MayRetry, SenderTypes, Attempt
        <3>2. SenderTypes' /\ frames' \subseteq Call
            BY <1>5, <2>1, <3>1, CallTypes DEF DirectFails, SenderTypes, NetTypes
        <3> QED
            BY <1>5, <3>2 DEF DirectFails, NetTypes
    <2>2. CASE ~MayRetry(m)
        <3>1. SenderTypes' /\ frames' \subseteq Call
            BY <1>4, <1>5, <2>2 DEF DirectFails
        <3> QED
            BY <1>5, <3>1 DEF DirectFails, NetTypes
    <2> QED
        BY <2>1, <2>2
<1>6. CASE TryRelayFails(m)
    <2>1. SenderTypes' /\ frames' \subseteq Call
        BY <1>4, <1>6 DEF TryRelayFails, SenderTypes
    <2> QED
        BY <1>6, <2>1 DEF TryRelayFails, NetTypes
<1>7. CASE ViaRelayFails(m)
    <2>1. MayRetry(m) => attempt[m] + 1 \in Attempt
        BY DEF MayRetry, SenderTypes, Attempt
    <2>2. SenderTypes'
        <3>1. CASE MayRetry(m)
            BY <1>7, <2>1, <3>1 DEF ViaRelayFails, SenderTypes
        <3>2. CASE ~MayRetry(m)
            <4>1. Bump(Src[m], "failed") \in [Peer -> Stats]
                BY BumpType
            <4>2. /\ stage' = [stage EXCEPT ![m] = "saveAck"]
                  /\ result' = [result EXCEPT ![m] = "failed"]
                  /\ status' = [status EXCEPT ![m] = "failed"]
                  /\ stats' = Bump(Src[m], "failed")
                  /\ UNCHANGED <<attempt, relayPeer, relays>>
                BY <1>7, <3>2 DEF ViaRelayFails
            <4> QED
                BY <4>1, <4>2 DEF SenderTypes, Stage, Result, Status
        <3> QED
            BY <3>1, <3>2
    <2>3. NetTypes'
        BY <1>7, <2>1, CallTypes DEF ViaRelayFails, NetTypes, SenderTypes
    <2> QED
        BY <1>7, <2>2, <2>3 DEF ViaRelayFails
<1>8. CASE QueueOrFail(m)
    <2>1. SenderTypes'
        <3>1. /\ stage' = [stage EXCEPT ![m] = "saveAck"]
              /\ UNCHANGED <<attempt, relayPeer, relays, status>>
            BY <1>8 DEF QueueOrFail
        <3>2. PICK r \in Result : result' = [result EXCEPT ![m] = r]
            BY <1>8 DEF QueueOrFail, Result
        <3>3. PICK q \in BOOLEAN : stats' = CountFailure(m, q)
            BY <1>8 DEF QueueOrFail
        <3>4. stats' \in [Peer -> Stats]
            BY <3>3, CountFailureType
        <3> QED
            BY <3>1, <3>2, <3>4 DEF SenderTypes, Stage
    <2>2. StoreTypes'
        BY <1>8 DEF QueueOrFail, StoreTypes, Saved, Record
    <2> QED
        BY <1>8, <2>1, <2>2 DEF QueueOrFail, peerVars
<1>9. CASE SaveAck(m)
    <2>1. SenderTypes'
        BY <1>9 DEF SaveAck, SenderTypes, Stage, Status, FinalStatus
    <2>2. StoreTypes'
        BY <1>9 DEF SaveAck, StoreTypes, AckStatus, AckRow, Saved
    <2> QED
        BY <1>9, <2>1, <2>2 DEF SaveAck
<1>10. CASE SaveSent(m)
    <2>1. SenderTypes'
        BY <1>10 DEF SaveSent, SenderTypes, Stage
    <2>2. status[m] \in RowStatus
        BY DEF SenderTypes, RowStatus
    <2>3. StoreTypes'
        BY <1>10, <2>2 DEF SaveSent, StoreTypes, Saved
    <2> QED
        BY <1>10, <2>1, <2>3 DEF SaveSent
<1> QED
    BY <1>1, <1>2, <1>3, <1>5, <1>6, <1>7, <1>8, <1>9, <1>10,
       <1>11 DEF SenderNext

LEMMA RelayType ==
    ASSUME TypeOK, RelayNext
    PROVE  TypeOK'
<1> USE UnchangedTypes DEF TypeOK
<1>1. ASSUME NEW c \in frames, RelayRefuses(c)
      PROVE  TypeOK'
    BY <1>1 DEF RelayRefuses, NetTypes
<1>2. ASSUME NEW c \in frames, RelayForwards(c)
      PROVE  TypeOK'
    <2>1. c \in Call /\ c.hop = "relay"
        BY <1>2 DEF RelayForwards, NetTypes
    <2>2. <<c.msg, c.relay, c.try>> \in RelayRun
        BY <2>1 DEF Call, RelayRun
    <2>3. NetTypes'
        BY <1>2, <2>2, CallTypes DEF RelayForwards, NetTypes, InnerAttempt
    <2>4. PeerTypes'
        BY <1>2, <2>2 DEF RelayForwards, PeerTypes
    <2> QED
        BY <1>2, <2>3, <2>4 DEF RelayForwards
<1>3. ASSUME NEW run \in RelayRun, InnerAckArrives(run)
      PROVE  TypeOK'
    <2>1. RelayCall(run[1], run[2], run[3]) \in Call
        BY CallTypes DEF RelayRun
    <2>2. NetTypes'
        BY <1>3, <2>1, ReplyType DEF InnerAckArrives, NetTypes
    <2>3. PeerTypes'
        BY <1>3 DEF InnerAckArrives, PeerTypes
    <2> QED
        BY <1>3, <2>2, <2>3 DEF InnerAckArrives
<1>4. ASSUME NEW run \in RelayRun, InnerRetries(run)
      PROVE  TypeOK'
    <2>1. relayRun[run] + 1 \in InnerAttempt
        BY <1>4 DEF InnerRetries, InnerAttempt
    <2>2. NetTypes'
        BY <1>4, <2>1, CallTypes DEF InnerRetries, NetTypes
    <2>3. PeerTypes'
        BY <1>4 DEF InnerRetries, PeerTypes
    <2> QED
        BY <1>4, <2>2, <2>3 DEF InnerRetries
<1>5. ASSUME NEW run \in RelayRun, InnerGivesUp(run)
      PROVE  TypeOK'
    <2>1. NetTypes'
        BY <1>5 DEF InnerGivesUp, NetTypes
    <2>2. PeerTypes'
        BY <1>5 DEF InnerGivesUp, PeerTypes
    <2> QED
        BY <1>5, <2>1, <2>2 DEF InnerGivesUp
<1> QED
    BY <1>1, <1>2, <1>3, <1>4, <1>5 DEF RelayNext

LEMMA TargetType ==
    ASSUME TypeOK, TargetNext
    PROVE  TypeOK'
<1> USE UnchangedTypes DEF TypeOK
<1>1. \A c \in Call : c.msg \in Msg
    BY DEF Call
<1>2. ASSUME NEW c \in Call, Accept(c.msg)
      PROVE  GhostTypes'
    BY <1>1, <1>2 DEF Accept, GhostTypes
<1>3. ASSUME NEW c \in frames, HandleAway(c)
      PROVE  TypeOK'
    BY <1>3 DEF HandleAway, NetTypes
<1>4. ASSUME NEW c \in frames, HandleDuplicate(c)
      PROVE  TypeOK'
    <2>1. NetTypes'
        BY <1>4, ReplyType DEF HandleDuplicate, NetTypes
    <2> QED
        BY <1>4, <2>1 DEF HandleDuplicate
<1>5. ASSUME NEW c \in frames, HandleNew(c)
      PROVE  TypeOK'
    <2>1. c \in Call /\ c.msg \in Msg
        BY <1>1 DEF NetTypes
    <2>2. NetTypes'
        BY <1>5 DEF HandleNew, NetTypes
    <2>3. MemTypes'
        BY <1>5, <2>1, RememberType DEF HandleNew, MemTypes
    <2>4. PeerTypes'
        BY <1>5, <2>1 DEF HandleNew, PeerTypes
    <2>5. GhostTypes'
        BY <1>2, <1>5, <2>1 DEF HandleNew
    <2> QED
        BY <1>5, <2>2, <2>3, <2>4, <2>5 DEF HandleNew
<1>6. ASSUME NEW c \in handling, TextSaved(c)
      PROVE  TypeOK'
    <2>1. c \in Call /\ c.msg \in Msg
        BY <1>1 DEF PeerTypes
    <2>2. NetTypes'
        BY <1>6, <2>1, ReplyType DEF TextSaved, NetTypes
    <2>3. PeerTypes'
        BY <1>6 DEF TextSaved, PeerTypes
    <2>4. StoreTypes'
        BY <1>6, <2>1 DEF TextSaved, StoreTypes, Saved, RowStatus
    <2> QED
        BY <1>6, <2>2, <2>3, <2>4 DEF TextSaved
<1>7. ASSUME NEW c \in handling, FileWritten(c)
      PROVE  TypeOK'
    <2>1. c \in Call
        BY DEF PeerTypes
    <2>2. NetTypes'
        BY <1>7, <2>1, ReplyType DEF FileWritten, NetTypes
    <2>3. PeerTypes'
        BY <1>7 DEF FileWritten, PeerTypes
    <2>4. GhostTypes'
        BY <1>2, <1>7, <2>1 DEF FileWritten
    <2> QED
        BY <1>7, <2>2, <2>3, <2>4 DEF FileWritten
<1>8. ASSUME NEW c \in handling, FileWriteFails(c)
      PROVE  TypeOK'
    BY <1>8 DEF FileWriteFails, PeerTypes
<1> QED
    BY <1>3, <1>4, <1>5, <1>6, <1>7, <1>8 DEF TargetNext

LEMMA SyncType ==
    ASSUME TypeOK, NEW p \in Peer, NEW s \in Slot, SyncNext(p, s)
    PROVE  TypeOK'
<1> USE UnchangedTypes DEF TypeOK
<1>1. NoSync \in SyncState /\ sync[<<p, s>>] \in SyncState
    BY DEF PeerTypes, SyncState, NoSync
<1>2. ASSUME NEW state \in SyncState, sync' = [sync EXCEPT ![<<p, s>>] = state],
             UNCHANGED <<churnOffline, handling, relayRun, restarts>>
      PROVE  PeerTypes'
    BY <1>2 DEF PeerTypes
<1>3. CASE SyncFetch(p, s)
    <2>1. [NoSync EXCEPT !.on = TRUE, !.todo = Pending(p)] \in SyncState
        BY DEF NoSync, SyncState, Pending
    <2>2. PeerTypes'
        BY <1>2, <1>3, <2>1 DEF SyncFetch
    <2> QED
        BY <1>3, <2>2 DEF SyncFetch
<1>4. ASSUME NEW m \in Msg, SyncDuplicate(p, s, m)
      PROVE  TypeOK'
    <2>1. [sync[<<p, s>>] EXCEPT !.todo = @ \ {m}, !.done = @ \cup {m}]
             \in SyncState
        BY <1>1 DEF SyncState
    <2>2. PeerTypes'
        BY <1>2, <1>4, <2>1 DEF SyncDuplicate, PeerTypes
    <2> QED
        BY <1>4, <2>2 DEF SyncDuplicate
<1>5. ASSUME NEW m \in Msg, SyncNew(p, s, m)
      PROVE  TypeOK'
    <2>1. [sync[<<p, s>>] EXCEPT !.todo = @ \ {m}, !.saving = {m}]
             \in SyncState
        BY <1>1 DEF SyncState
    <2>2. PeerTypes'
        BY <1>2, <1>5, <2>1 DEF SyncNew, PeerTypes
    <2>3. MemTypes'
        BY <1>5, RememberType DEF SyncNew, MemTypes
    <2>4. GhostTypes'
        BY <1>5 DEF SyncNew, Accept, GhostTypes
    <2> QED
        BY <1>5, <2>2, <2>3, <2>4 DEF SyncNew
<1>6. ASSUME NEW m \in Msg, SyncThrows(p, s, m)
      PROVE  TypeOK'
    <2>1. PeerTypes'
        BY <1>1, <1>2, <1>6 DEF SyncThrows, BatchAfterError
    <2>2. MemTypes'
        BY <1>6, RememberType DEF SyncThrows, MemTypes
    <2> QED
        BY <1>6, <2>1, <2>2 DEF SyncThrows
<1>7. ASSUME NEW m \in Msg, SyncSaved(p, s, m)
      PROVE  TypeOK'
    <2>1. [sync[<<p, s>>] EXCEPT !.saving = {}, !.done = @ \cup {m}]
             \in SyncState
        BY <1>1 DEF SyncState
    <2>2. PeerTypes'
        BY <1>2, <1>7, <2>1 DEF SyncSaved, PeerTypes
    <2>3. StoreTypes'
        BY <1>7 DEF SyncSaved, StoreTypes, Saved, RowStatus
    <2> QED
        BY <1>7, <2>2, <2>3 DEF SyncSaved
<1>8. ASSUME NEW o, SyncAck(p, s, o)
      PROVE  TypeOK'
    <2>1. PeerTypes'
        BY <1>1, <1>2, <1>8 DEF SyncAck
    <2>2. StoreTypes'
        BY <1>8 DEF SyncAck, StoreTypes, Record
    <2> QED
        BY <1>8, <2>1, <2>2 DEF SyncAck
<1> QED
    BY <1>3, <1>4, <1>5, <1>6, <1>7, <1>8 DEF SyncNext

LEMMA OtherType ==
    ASSUME TypeOK, NEW p \in Peer, ToggleChurn(p) \/ Restart(p)
    PROVE  TypeOK'
<1> USE UnchangedTypes DEF TypeOK
<1>1. CASE ToggleChurn(p)
    <2>1. PeerTypes'
        BY <1>1 DEF ToggleChurn, PeerTypes
    <2> QED
        BY <1>1, <2>1 DEF ToggleChurn
<1>2. CASE Restart(p)
    <2>1. SenderTypes'
        BY <1>2 DEF Restart, SenderTypes, Stage, NoStats, Stats
    <2>2. NetTypes'
        BY <1>2 DEF Restart, NetTypes
    <2>3. MemTypes'
        BY <1>2 DEF Restart, MemTypes
    <2>4. PeerTypes'
        BY <1>2 DEF Restart, PeerTypes, NoSync, SyncState
    <2>5. GhostTypes'
        BY <1>2 DEF Restart, GhostTypes
    <2> QED
        BY <1>2, <2>1, <2>2, <2>3, <2>4, <2>5 DEF Restart
<1> QED
    BY <1>1, <1>2

LEMMA WipeType ==
    ASSUME TypeOK, Wipe
    PROVE  TypeOK'
<1>1. StoreTypes'
    BY DEF Wipe, TypeOK, StoreTypes, Record, AckStatus, RowStatus, Status
<1> QED
    BY <1>1, UnchangedTypes DEF Wipe, TypeOK

LEMMA InitType == Init => TypeOK
BY DEF Init, TypeOK, SenderTypes, NetTypes, MemTypes, PeerTypes, StoreTypes,
       GhostTypes, Stage, Attempt, Result, Status, AckStatus, RowStatus,
       Record, NoStats, Stats, NoSync, SyncState

LEMMA NextType == TypeOK /\ [Next]_vars => TypeOK'
<1> SUFFICES ASSUME TypeOK, [Next]_vars
             PROVE  TypeOK'
    OBVIOUS
<1>1. CASE UNCHANGED vars
    BY <1>1, UnchangedTypes DEF vars, TypeOK
<1>2. CASE Next
    BY <1>2, SenderType, RelayType, TargetType, SyncType, OtherType, WipeType
    DEF Next
<1> QED
    BY <1>1, <1>2

\* Every variable keeps to the values the code can give it.
THEOREM TypeCorrect == Spec => []TypeOK
BY InitType, NextType, PTL DEF Spec

-----------------------------------------------------------------------------
(***************************************************************************)
(* The inductive invariant.  DeliveredWasHandled, NoSilentLoss and          *)
(* LedgerTruthful are not inductive: what the sender believes was once an   *)
(* ACK on a socket, that ACK was a handler run or an id in the duplicate    *)
(* set, and a retired record was an id on a batch.  Each of these places    *)
(* only ever holds sound messages that the target has taken.                *)
(***************************************************************************)

SeenHandled == \A m \in Sound : Seen(m) => m \in handled
AcksHandled == \A c \in acks : c.msg \in Sound => c.msg \in handled
RunsHandled == \A c \in handling : c.msg \in Sound => c.msg \in handled
ResultTrue ==
    \A m \in Sound :
        /\ result[m] \in {"ok", "relayed"} => m \in handled
        /\ result[m] = "queued" => offlineMessages[m] # "none"
SyncHandled ==
    \A k \in Peer \X Slot : \A m \in Sound :
        m \in sync[k].saving \cup sync[k].done => m \in handled
RetiredHandled ==
    \A m \in Sound : offlineMessages[m] = "delivered" => m \in handled

IInv ==
    /\ TypeOK
    /\ SeenHandled /\ AcksHandled /\ RunsHandled /\ SyncHandled
    /\ ResultTrue /\ RetiredHandled
    /\ DeliveredWasHandled /\ LedgerTruthful

\* What an action leaves alone stays true as long as no message is un-taken.
LEMMA Frame ==
    ASSUME IInv, handled \subseteq handled'
    PROVE  /\ UNCHANGED memVars => SeenHandled'
           /\ acks' \subseteq acks => AcksHandled'
           /\ handling' \subseteq handling => RunsHandled'
           /\ UNCHANGED sync => SyncHandled'
           /\ UNCHANGED <<result, offlineMessages>> => ResultTrue'
           /\ UNCHANGED offlineMessages => RetiredHandled'
           /\ UNCHANGED status => DeliveredWasHandled'
           /\ UNCHANGED <<messageAcks, offlineMessages>> => LedgerTruthful'
<1> USE DEF IInv
<1>1. UNCHANGED memVars => SeenHandled'
    BY DEF SeenHandled, Seen, memVars
<1>2. acks' \subseteq acks => AcksHandled'
    BY DEF AcksHandled
<1>3. handling' \subseteq handling => RunsHandled'
    BY DEF RunsHandled
<1>4. UNCHANGED sync => SyncHandled'
    BY DEF SyncHandled
<1>5. UNCHANGED <<result, offlineMessages>> => ResultTrue'
    BY DEF ResultTrue
<1>6. UNCHANGED offlineMessages => RetiredHandled'
    BY DEF RetiredHandled
<1>7. UNCHANGED status => DeliveredWasHandled'
    BY DEF DeliveredWasHandled
<1>8. UNCHANGED <<messageAcks, offlineMessages>> => LedgerTruthful'
    BY DEF LedgerTruthful
<1> QED
    BY <1>1, <1>2, <1>3, <1>4, <1>5, <1>6, <1>7, <1>8

\* A remembered id is the only new one, wherever the oldest one goes.
LEMMA IdsRemember ==
    ASSUME TypeOK, NEW m \in Msg, Remember(m), NEW q \in Peer
    PROVE  Ids(seenMessageIds'[q]) \subseteq
               Ids(seenMessageIds[q]) \cup (IF q = Dst[m] THEN {m} ELSE {})
<1> DEFINE p == Dst[m]
           old == seenMessageIds[p]
           s == Append(old, m)
<1>1. p \in Peer /\ old \in Seq(Msg)
    BY DEF TypeOK, MemTypes
<1>2. s \in Seq(Msg) /\ Len(s) = Len(old) + 1 /\ s # << >>
    BY <1>1
<1>3. Ids(s) \subseteq Ids(old) \cup {m}
    BY <1>1, <1>2 DEF Ids
<1>4. Ids(Tail(s)) \subseteq Ids(s)
    BY <1>2, HeadTailProperties DEF Ids
<1>5. seenMessageIds \in [Peer -> Seq(Msg)]
    BY DEF TypeOK, MemTypes
<1>6. \/ seenMessageIds' = [seenMessageIds EXCEPT ![p] = Tail(s)]
      \/ seenMessageIds' = [seenMessageIds EXCEPT ![p] = s]
    BY DEF Remember
<1> HIDE DEF s, old
<1>7. CASE q = p
    <2>1. seenMessageIds'[q] \in {Tail(s), s}
        BY <1>1, <1>5, <1>6, <1>7
    <2> QED
        BY <1>3, <1>4, <1>7, <2>1 DEF old
<1>8. CASE q # p
    BY <1>1, <1>5, <1>6, <1>8
<1> QED
    BY <1>7, <1>8

\* An ACK is written for a message that the target has taken.
LEMMA ReplyHandled ==
    ASSUME IInv, NEW c, c.msg \in Sound => c.msg \in handled',
           handled \subseteq handled', acks' \subseteq Reply(c)
    PROVE  AcksHandled'
BY DEF IInv, AcksHandled, Reply

\* A remembered message is taken, or is not sound.
LEMMA RememberHandled ==
    ASSUME IInv, NEW m \in Msg, Remember(m), handled \subseteq handled',
           m \in Sound => m \in handled'
    PROVE  SeenHandled'
<1>1. ASSUME NEW x \in Sound, Seen(x)', x # m
      PROVE  Seen(x)
    <2>1. x \in Msg /\ Dst[x] \in Peer
        BY DEF Sound
    <2> QED
        BY <1>1, <2>1, IdsRemember DEF IInv, Seen
<1> QED
    BY <1>1 DEF IInv, SeenHandled

LEMMA SenderIInv ==
    ASSUME IInv, IInv => TypeOK', NEW m \in Msg, SenderNext(m)
    PROVE  IInv'
<1> USE Frame DEF IInv
<1>0. ASSUME Track(m), UNCHANGED ghostVars
      PROVE  DeliveredWasHandled'
    BY <1>0 DEF Track, DeliveredWasHandled, Sound, TypeOK, SenderTypes, ghostVars
<1>1. CASE SendDirect(m)
    <2>1. DeliveredWasHandled'
        BY <1>0, <1>1 DEF SendDirect
    <2> QED
        BY <1>1, <2>1 DEF SendDirect, peerVars, storeVars, ghostVars
<1>10. CASE SendFile(m)
    <2>1. DeliveredWasHandled'
        BY <1>0, <1>10 DEF SendFile
    <2> QED
        BY <1>10, <2>1 DEF SendFile, peerVars, storeVars, ghostVars
<1>2. ASSUME NEW r \in Peer, SendViaRelay(m, r)
      PROVE  IInv'
    <2>1. DeliveredWasHandled'
        BY <1>2 DEF SendViaRelay, Track, DeliveredWasHandled, TypeOK, SenderTypes,
                    ghostVars
    <2> QED
        BY <1>2, <2>1 DEF SendViaRelay, peerVars, storeVars, ghostVars
<1>3. CASE AckArrives(m)
    <2>1. m \in Sound => m \in handled
        BY <1>3 DEF AckArrives, AcksHandled, DirectCall, RelayCall
    <2>2. ResultTrue'
        BY <1>3, <2>1 DEF AckArrives, ResultTrue, Sound, TypeOK, SenderTypes,
                          storeVars, ghostVars
    <2>3. DeliveredWasHandled'
        <3>1. UNCHANGED handled
            BY <1>3 DEF AckArrives, ghostVars
        <3>2. \A x \in Msg : x # m => status'[x] = status[x]
            BY <1>3 DEF AckArrives, TypeOK, SenderTypes
        <3> QED
            BY <2>1, <3>1, <3>2 DEF DeliveredWasHandled, Sound
    <2> QED
        BY <1>3, <2>2, <2>3 DEF AckArrives, peerVars, storeVars, ghostVars
<1>4. CASE DirectFails(m)
    BY <1>4 DEF DirectFails, peerVars, storeVars, ghostVars
<1>5. CASE TryRelayFails(m)
    BY <1>5 DEF TryRelayFails, peerVars, storeVars, ghostVars
<1>6. CASE ViaRelayFails(m)
    <2>1. ResultTrue'
        BY <1>6 DEF ViaRelayFails, ResultTrue, Sound, TypeOK, SenderTypes, storeVars,
                    ghostVars
    <2>2. DeliveredWasHandled'
        <3>1. UNCHANGED handled
            BY <1>6 DEF ViaRelayFails, ghostVars
        <3>2. \A x \in Msg : status'[x] \in {status[x], "failed"}
            BY <1>6 DEF ViaRelayFails, TypeOK, SenderTypes
        <3> QED
            BY <3>1, <3>2 DEF DeliveredWasHandled, Sound
    <2> QED
        BY <1>6, <2>1, <2>2 DEF ViaRelayFails, peerVars, storeVars, ghostVars
<1>7. CASE QueueOrFail(m)
    <2>1. /\ \/ offlineMessages' = [offlineMessages EXCEPT ![m] = "pending"]
             \/ offlineMessages' = offlineMessages
          /\ \/ result' = [result EXCEPT ![m] = "failed"]
             \/ /\ result' = [result EXCEPT ![m] = "queued"]
                /\ offlineMessages' = [offlineMessages EXCEPT ![m] = "pending"]
          /\ handled' = handled
        BY <1>7 DEF QueueOrFail, Saved, Reaches, ghostVars
    <2>2. ResultTrue'
        BY <2>1 DEF ResultTrue, Sound, TypeOK, SenderTypes, StoreTypes
    <2>3. RetiredHandled'
        BY <2>1 DEF RetiredHandled, Sound, TypeOK, StoreTypes
    <2>4. LedgerTruthful'
        BY <1>7, <2>1 DEF QueueOrFail, LedgerTruthful, Sound, TypeOK,
                          StoreTypes
    <2> QED
        BY <1>7, <2>2, <2>3, <2>4 DEF QueueOrFail, netVars, peerVars, ghostVars
<1>8. CASE SaveAck(m)
    <2>1. /\ messageAcks' \in {messageAcks,
                               [messageAcks EXCEPT ![m] = AckRow(m)]}
          /\ status' = [status EXCEPT ![m] = FinalStatus(m)]
          /\ UNCHANGED <<handled, offlineMessages>>
        BY <1>8 DEF SaveAck, Saved, ghostVars
    <2>2. DeliveredWasHandled'
        BY <2>1 DEF DeliveredWasHandled, FinalStatus, ResultTrue, TypeOK,
                    SenderTypes
    <2>3. LedgerTruthful'
        BY <2>1 DEF LedgerTruthful, AckRow, ResultTrue, Sound, TypeOK, StoreTypes
    <2> QED
        BY <1>8, <2>2, <2>3 DEF SaveAck, netVars, peerVars, ghostVars
<1>9. CASE SaveSent(m)
    BY <1>9 DEF SaveSent, netVars, peerVars, ghostVars
<1> QED
    BY <1>1, <1>2, <1>3, <1>4, <1>5, <1>6, <1>7, <1>8, <1>9, <1>10
    DEF SenderNext

LEMMA RelayIInv ==
    ASSUME IInv, IInv => TypeOK', RelayNext
    PROVE  IInv'
<1> USE Frame DEF IInv
<1>1. ASSUME NEW c \in frames, RelayRefuses(c)
      PROVE  IInv'
    BY <1>1 DEF RelayRefuses, senderVars, peerVars, storeVars, ghostVars
<1>2. ASSUME NEW c \in frames, RelayForwards(c)
      PROVE  IInv'
    BY <1>2 DEF RelayForwards, senderVars, storeVars, ghostVars
<1>3. ASSUME NEW run \in RelayRun, InnerAckArrives(run)
      PROVE  IInv'
    <2>1. run[1] \in Sound => run[1] \in handled
        BY <1>3 DEF InnerAckArrives, AcksHandled, InnerCall
    <2>2. AcksHandled'
        BY <1>3, <2>1, ReplyHandled
        DEF InnerAckArrives, RelayCall, ghostVars
    <2> QED
        BY <1>3, <2>2 DEF InnerAckArrives, senderVars, storeVars, ghostVars
<1>4. ASSUME NEW run \in RelayRun, InnerRetries(run)
      PROVE  IInv'
    BY <1>4 DEF InnerRetries, senderVars, storeVars, ghostVars
<1>5. ASSUME NEW run \in RelayRun, InnerGivesUp(run)
      PROVE  IInv'
    BY <1>5 DEF InnerGivesUp, senderVars, storeVars, ghostVars
<1> QED
    BY <1>1, <1>2, <1>3, <1>4, <1>5 DEF RelayNext

LEMMA TargetIInv ==
    ASSUME IInv, IInv => TypeOK', TargetNext
    PROVE  IInv'
<1> USE Frame DEF IInv
<1>1. ASSUME NEW c \in frames, HandleAway(c)
      PROVE  IInv'
    BY <1>1 DEF HandleAway, senderVars, peerVars, storeVars, ghostVars
<1>2. ASSUME NEW c \in frames, HandleDuplicate(c)
      PROVE  IInv'
    <2>1. c.msg \in Sound => c.msg \in handled
        BY <1>2 DEF HandleDuplicate, SeenHandled
    <2>2. AcksHandled'
        BY <1>2, <2>1, ReplyHandled DEF HandleDuplicate, ghostVars
    <2> QED
        BY <1>2, <2>2
        DEF HandleDuplicate, senderVars, peerVars, storeVars, ghostVars
<1>3. ASSUME NEW c \in frames, HandleNew(c)
      PROVE  IInv'
    <2>1. c.msg \in Msg
        BY DEF TypeOK, NetTypes, Call
    <2>2. /\ handled \subseteq handled'
          /\ c.msg \in Sound => c.msg \in handled'
        BY <1>3 DEF HandleNew, Accept, Sound, ghostVars
    <2>3. SeenHandled'
        BY <1>3, <2>1, <2>2, RememberHandled DEF HandleNew
    <2>4. RunsHandled'
        BY <1>3, <2>2 DEF HandleNew, RunsHandled
    <2> QED
        BY <1>3, <2>2, <2>3, <2>4 DEF HandleNew, senderVars, storeVars
<1>4. ASSUME NEW c \in handling, TextSaved(c)
      PROVE  IInv'
    <2>1. c.msg \in Sound => c.msg \in handled
        BY DEF RunsHandled
    <2>2. AcksHandled'
        BY <1>4, <2>1, ReplyHandled DEF TextSaved, ghostVars
    <2> QED
        BY <1>4, <2>2 DEF TextSaved, senderVars, ghostVars
<1>5. ASSUME NEW c \in handling, FileWritten(c)
      PROVE  IInv'
    <2>1. handled \subseteq handled' /\ c.msg \in handled'
        BY <1>5 DEF FileWritten, Accept
    <2>2. AcksHandled'
        BY <1>5, <2>1, ReplyHandled DEF FileWritten
    <2> QED
        BY <1>5, <2>1, <2>2 DEF FileWritten, senderVars, storeVars
<1>6. ASSUME NEW c \in handling, FileWriteFails(c)
      PROVE  IInv'
    BY <1>6 DEF FileWriteFails, senderVars, netVars, storeVars, ghostVars
<1> QED
    BY <1>1, <1>2, <1>3, <1>4, <1>5, <1>6 DEF TargetNext

LEMMA SyncIInv ==
    ASSUME IInv, IInv => TypeOK', NEW p \in Peer, NEW s \in Slot,
           SyncNext(p, s)
    PROVE  IInv'
<1> USE Frame DEF IInv
<1> DEFINE k == <<p, s>>
<1>1. k \in Peer \X Slot /\ sync[k] \in SyncState
    BY DEF TypeOK, PeerTypes
<1>2. ASSUME NEW state, sync' = [sync EXCEPT ![k] = state],
             handled \subseteq handled',
             \A m \in Sound : m \in state.saving \cup state.done =>
                 m \in handled'
      PROVE  SyncHandled'
    BY <1>1, <1>2 DEF SyncHandled, TypeOK, PeerTypes
<1>3. NoSync.saving = {} /\ NoSync.done = {}
    BY DEF NoSync
<1>4. CASE SyncFetch(p, s)
    <2> DEFINE state == [NoSync EXCEPT !.on = TRUE, !.todo = Pending(p)]
    <2>1. state.saving = {} /\ state.done = {}
        BY DEF NoSync
    <2>2. SyncHandled'
        BY <1>2, <1>4, <2>1 DEF SyncFetch, ghostVars
    <2> QED
        BY <1>4, <2>2 DEF SyncFetch, senderVars, netVars, storeVars, ghostVars
<1>5. ASSUME NEW m \in Msg, SyncDuplicate(p, s, m)
      PROVE  IInv'
    <2> DEFINE state == [sync[k] EXCEPT !.todo = @ \ {m}, !.done = @ \cup {m}]
    <2>1. m \in Sound => m \in handled
        BY <1>5 DEF SyncDuplicate, SeenHandled
    <2>2. /\ state.saving = sync[k].saving
          /\ state.done = sync[k].done \cup {m}
        BY <1>1 DEF SyncState
    <2>3. sync' = [sync EXCEPT ![k] = state]
        BY <1>1, <1>5 DEF SyncDuplicate, TypeOK, PeerTypes
    <2>4. SyncHandled'
        <3>1. \A x \in Sound : x \in state.saving \cup state.done => x \in handled
            BY <1>1, <2>1, <2>2 DEF SyncHandled
        <3>2. handled' = handled
            BY <1>5 DEF SyncDuplicate, ghostVars
        <3> HIDE DEF state
        <3> QED
            BY <1>2, <2>3, <3>1, <3>2
    <2> QED
        BY <1>5, <2>4
        DEF SyncDuplicate, senderVars, netVars, storeVars, ghostVars
<1>6. ASSUME NEW m \in Msg, SyncNew(p, s, m)
      PROVE  IInv'
    <2> DEFINE state == [sync[k] EXCEPT !.todo = @ \ {m}, !.saving = {m}]
    <2>1. handled \subseteq handled' /\ m \in handled'
        BY <1>6 DEF SyncNew, Accept
    <2>2. state.saving = {m} /\ state.done = sync[k].done
        BY <1>1 DEF SyncState
    <2>3. sync' = [sync EXCEPT ![k] = state]
        BY <1>1, <1>6 DEF SyncNew, TypeOK, PeerTypes
    <2>4. SyncHandled'
        <3>1. \A x \in Sound : x \in state.saving \cup state.done => x \in handled'
            BY <1>1, <2>1, <2>2 DEF SyncHandled
        <3> HIDE DEF state
        <3> QED
            BY <1>2, <2>1, <2>3, <3>1
    <2>5. SeenHandled'
        BY <1>6, <2>1, RememberHandled DEF SyncNew
    <2> QED
        BY <1>6, <2>1, <2>4, <2>5 DEF SyncNew, senderVars, netVars, storeVars
<1>7. ASSUME NEW m \in Msg, SyncThrows(p, s, m)
      PROVE  IInv'
    <2>1. SyncHandled'
        BY <1>2, <1>3, <1>7 DEF SyncThrows, BatchAfterError, ghostVars
    <2>2. m \notin Sound \/ UNCHANGED memVars
        BY <1>7 DEF SyncThrows, Sound
    <2>4. SeenHandled'
        BY <1>7, <2>2, RememberHandled DEF SyncThrows, ghostVars
    <2> QED
        BY <1>7, <2>1, <2>4
        DEF SyncThrows, senderVars, netVars, storeVars, ghostVars
<1>8. ASSUME NEW m \in Msg, SyncSaved(p, s, m)
      PROVE  IInv'
    <2> DEFINE state == [sync[k] EXCEPT !.saving = {}, !.done = @ \cup {m}]
    <2>1. m \in Sound => m \in handled
        BY <1>1, <1>8 DEF SyncSaved, SyncHandled
    <2>2. state.saving = {} /\ state.done = sync[k].done \cup {m}
        BY <1>1 DEF SyncState
    <2>3. sync' = [sync EXCEPT ![k] = state]
        BY <1>1, <1>8 DEF SyncSaved, TypeOK, PeerTypes
    <2>4. SyncHandled'
        <3>1. \A x \in Sound : x \in state.saving \cup state.done => x \in handled
            BY <1>1, <2>1, <2>2 DEF SyncHandled
        <3>2. handled' = handled
            BY <1>8 DEF SyncSaved, ghostVars
        <3> HIDE DEF state
        <3> QED
            BY <1>2, <2>3, <3>1, <3>2
    <2> QED
        BY <1>8, <2>4 DEF SyncSaved, senderVars, netVars, ghostVars
<1>9. ASSUME NEW o, SyncAck(p, s, o)
      PROVE  IInv'
    <2>1. SyncHandled'
        BY <1>2, <1>3, <1>9 DEF SyncAck, ghostVars
    <2>2. /\ \A m \in Msg : offlineMessages'[m] \in
                {offlineMessages[m],
                 IF m \in sync[k].done THEN "delivered" ELSE offlineMessages[m]}
          /\ UNCHANGED <<handled, result, messageAcks>>
        BY <1>9 DEF SyncAck, senderVars, ghostVars, TypeOK, StoreTypes
    <2>3. RetiredHandled'
        BY <1>1, <2>2 DEF RetiredHandled, SyncHandled, Sound
    <2>4. ResultTrue'
        BY <2>2 DEF ResultTrue, Sound
    <2>5. LedgerTruthful'
        BY <2>2 DEF LedgerTruthful, Sound
    <2> QED
        BY <1>9, <2>1, <2>3, <2>4, <2>5
        DEF SyncAck, senderVars, netVars, ghostVars
<1> QED
    BY <1>4, <1>5, <1>6, <1>7, <1>8, <1>9 DEF SyncNext

LEMMA OtherIInv ==
    ASSUME IInv, IInv => TypeOK', NEW p \in Peer, ToggleChurn(p) \/ Restart(p)
    PROVE  IInv'
<1> USE Frame DEF IInv
<1>1. CASE ToggleChurn(p)
    BY <1>1 DEF ToggleChurn, senderVars, netVars, storeVars, ghostVars
<1>2. CASE Restart(p)
    <2>1. SeenHandled'
        <3>1. \A m \in Msg : Seen(m)' => Seen(m)
            BY <1>2 DEF Restart, Seen, Ids, TypeOK, MemTypes
        <3> QED
            BY <1>2, <3>1 DEF Restart, SeenHandled, Sound
    <2>2. SyncHandled'
        BY <1>2 DEF Restart, SyncHandled, NoSync
    <2> QED
        BY <1>2, <2>1, <2>2 DEF Restart, storeVars
<1> QED
    BY <1>1, <1>2

\* A wipe leaves no record that is retired and no acknowledgement that claims
\* anything; a record that was there is remembered as lost.
LEMMA WipeIInv ==
    ASSUME IInv, IInv => TypeOK', Wipe
    PROVE  IInv'
<1> USE Frame DEF IInv
<1>1. /\ \A m \in Msg : /\ offlineMessages'[m] # "delivered"
                        /\ offlineMessages[m] # "none" => offlineMessages'[m] # "none"
                        /\ messageAcks'[m] = "none"
      /\ UNCHANGED <<handled, result>>
    BY DEF Wipe, senderVars, ghostVars
<1>2. RetiredHandled'
    BY <1>1 DEF RetiredHandled, Sound
<1>3. ResultTrue'
    BY <1>1 DEF ResultTrue, Sound
<1>4. LedgerTruthful'
    BY <1>1 DEF LedgerTruthful, Sound
<1> QED
    BY <1>2, <1>3, <1>4 DEF Wipe, senderVars, netVars, peerVars, ghostVars

LEMMA InitIInv == Init => IInv
<1> SUFFICES ASSUME Init
             PROVE  IInv
    OBVIOUS
<1>1. SeenHandled
    BY DEF Init, SeenHandled, Seen, Ids, Sound
<1>2. AcksHandled /\ RunsHandled /\ ResultTrue /\ RetiredHandled
    BY DEF Init, AcksHandled, RunsHandled, ResultTrue, RetiredHandled, Sound
<1>3. SyncHandled
    BY DEF Init, SyncHandled, NoSync
<1>4. DeliveredWasHandled /\ LedgerTruthful
    BY DEF Init, DeliveredWasHandled, LedgerTruthful, Sound
<1> QED
    BY <1>1, <1>2, <1>3, <1>4, InitType DEF IInv

LEMMA NextIInv == IInv /\ [Next]_vars => IInv'
<1> SUFFICES ASSUME IInv, [Next]_vars
             PROVE  IInv'
    OBVIOUS
<1>1. TypeOK'
    BY NextType DEF IInv
<1>2. CASE UNCHANGED vars
    BY <1>1, <1>2, Frame
    DEF IInv, vars, senderVars, netVars, peerVars, storeVars, ghostVars
<1>3. CASE Next
    BY <1>1, <1>3, SenderIInv, RelayIInv, TargetIInv, SyncIInv, OtherIInv,
       WipeIInv DEF Next
<1> QED
    BY <1>2, <1>3

LEMMA Invariance == Spec => []IInv
BY InitIInv, NextIInv, PTL DEF Spec

\* A sound message shown to its sender as delivered, directly or through a
\* relay, has been taken by its target, for any number of peers, messages,
\* retries, relays, overlapping syncs and crashes.
THEOREM DeliveredIsTrue == Spec => []DeliveredWasHandled
<1>1. IInv => DeliveredWasHandled
    BY DEF IInv
<1> QED
    BY <1>1, Invariance, PTL

\* The record of a message reported as queued waits in the store until the
\* target has the message; only a store in memory that is gone with its
\* bootstrap has it no more.
THEOREM QueuedIsNeverLost == Spec => []NoSilentLoss
<1>1. IInv => NoSilentLoss
    BY DEF IInv, NoSilentLoss, ResultTrue, RetiredHandled, TypeOK, StoreTypes,
           Record, Sound
<1> QED
    BY <1>1, Invariance, PTL

\* The acknowledgement table claims only what happened.
THEOREM LedgerIsTrue == Spec => []LedgerTruthful
<1>1. IInv => LedgerTruthful
    BY DEF IInv
<1> QED
    BY <1>1, Invariance, PTL

-----------------------------------------------------------------------------
(***************************************************************************)
(* A send never goes back.  The order of the awaits, the relays not tried   *)
(* and the number of the attempt are what a step uses up; a relay puts out  *)
(* the first of its copies for a frame it reads, the others for a retry.    *)
(***************************************************************************)

\* Where the send of m is.
Position(m) == <<stage[m], relays[m], relayPeer[m], attempt[m]>>

\* A step of m's sender that sends to the next relay, or gives up.
LEMMA NextRelayGoesOn ==
    ASSUME TypeOK, NEW m \in Msg, NEW left \in SUBSET Peer, NextRelay(m, left),
           \/ stage[m] = "tcp"
           \/ stage[m] = "tryRelay" /\ left = relays[m]
    PROVE  /\ GoesOn(m)
           /\ \A x \in Msg \ {m} : UNCHANGED Position(x)
           /\ \A c \in frames' \ frames : c.hop # "inner" /\ c.msg = m
<1>1. ASSUME NEW r \in left,
             stage' = [stage EXCEPT ![m] = "tryRelay"],
             relayPeer' = [relayPeer EXCEPT ![m] = r],
             relays' = [relays EXCEPT ![m] = left \ {r}],
             attempt' = [attempt EXCEPT ![m] = 1],
             frames' = frames \cup {RelayCall(m, r, 1)}
      PROVE  /\ GoesOn(m)
             /\ \A x \in Msg \ {m} : UNCHANGED Position(x)
             /\ \A c \in frames' \ frames : c.hop # "inner" /\ c.msg = m
    <2>1. /\ stage'[m] = "tryRelay" /\ relayPeer'[m] = r /\ relays'[m] = left \ {r}
          /\ \A x \in Msg \ {m} : UNCHANGED Position(x)
        BY <1>1 DEF TypeOK, SenderTypes, Position
    <2>2. GoesOn(m)
        <3>1. CASE stage[m] = "tcp"
            BY <2>1, <3>1 DEF GoesOn, Progress
        <3>2. CASE stage[m] = "tryRelay" /\ left = relays[m]
            BY <2>1, <3>2 DEF GoesOn
        <3> QED
            BY <3>1, <3>2
    <2>3. \A c \in frames' \ frames : c.hop # "inner" /\ c.msg = m
        BY <1>1 DEF RelayCall
    <2> QED
        BY <2>1, <2>2, <2>3
<1>2. CASE stage' = [stage EXCEPT ![m] = "queue"]
           /\ UNCHANGED <<relayPeer, relays, attempt, frames>>
    <2>1. stage'[m] = "queue" /\ \A x \in Msg \ {m} : UNCHANGED Position(x)
        BY <1>2 DEF TypeOK, SenderTypes, Position
    <2> QED
        BY <1>2, <2>1 DEF GoesOn, Progress
<1> QED
    BY <1>1, <1>2 DEF NextRelay

\* The next attempt of a call.
LEMMA RetryGoesOn ==
    ASSUME TypeOK, NEW m \in Msg, MayRetry(m),
           attempt' = [attempt EXCEPT ![m] = @ + 1],
           UNCHANGED <<stage, relayPeer, relays>>
    PROVE  GoesOn(m) /\ \A x \in Msg \ {m} : UNCHANGED Position(x)
BY DEF TypeOK, SenderTypes, Position, GoesOn, MayRetry

\* A step to a later await.
LEMMA StageGoesOn ==
    ASSUME TypeOK, NEW m \in Msg, NEW s \in Stage,
           stage' = [stage EXCEPT ![m] = s],
           Progress[stage[m]] < Progress[s],
           UNCHANGED <<attempt, relays>>,
           \A x \in Msg \ {m} : relayPeer'[x] = relayPeer[x]
    PROVE  GoesOn(m) /\ \A x \in Msg \ {m} : UNCHANGED Position(x)
BY DEF TypeOK, SenderTypes, Position, GoesOn

LEMMA SenderGoesOn ==
    ASSUME TypeOK, NEW m \in Msg, SenderNext(m)
    PROVE  /\ GoesOn(m)
           /\ \A x \in Msg \ {m} : UNCHANGED Position(x)
           /\ \A c \in frames' \ frames : c.hop # "inner" /\ c.msg = m
<1> USE DEF Progress, Stage
<1>1. CASE SendDirect(m) \/ SendFile(m)
    <2>1. /\ stage[m] = "idle" /\ UNCHANGED <<attempt, relayPeer, relays>>
          /\ \E s \in {"tcp", "queue"} : stage' = [stage EXCEPT ![m] = s]
          /\ frames' \in {frames, frames \cup {DirectCall(m, 1)}}
        BY <1>1 DEF SendDirect, SendFile, MaySend, FirstAttempt
    <2>2. Progress[stage[m]] < Progress["tcp"] /\ Progress[stage[m]] < Progress["queue"]
        BY <2>1
    <2>3. PICK s \in {"tcp", "queue"} : stage' = [stage EXCEPT ![m] = s]
        BY <2>1
    <2>4. GoesOn(m) /\ \A x \in Msg \ {m} : UNCHANGED Position(x)
        BY <2>1, <2>2, <2>3, StageGoesOn
    <2>5. \A c \in frames' \ frames : c.hop # "inner" /\ c.msg = m
        BY <2>1 DEF DirectCall
    <2> QED
        BY <2>4, <2>5
<1>2. ASSUME NEW r \in Peer, SendViaRelay(m, r)
      PROVE  /\ GoesOn(m)
             /\ \A x \in Msg \ {m} : UNCHANGED Position(x)
             /\ \A c \in frames' \ frames : c.hop # "inner" /\ c.msg = m
    <2>1. /\ stage[m] = "idle" /\ UNCHANGED <<attempt, relays>>
          /\ stage' = [stage EXCEPT ![m] = "viaRelay"]
          /\ relayPeer' = [relayPeer EXCEPT ![m] = r]
          /\ frames' = frames \cup {RelayCall(m, r, 1)}
        BY <1>2 DEF SendViaRelay, MaySend
    <2>2. \A x \in Msg \ {m} : relayPeer'[x] = relayPeer[x]
        BY <2>1 DEF TypeOK, SenderTypes
    <2>3. Progress[stage[m]] < Progress["viaRelay"]
        BY <2>1
    <2>4. GoesOn(m) /\ \A x \in Msg \ {m} : UNCHANGED Position(x)
        BY <2>1, <2>2, <2>3, StageGoesOn
    <2>5. \A c \in frames' \ frames : c.hop # "inner" /\ c.msg = m
        BY <2>1 DEF RelayCall
    <2> QED
        BY <2>4, <2>5
<1>3. CASE AckArrives(m) \/ QueueOrFail(m)
    <2>1. /\ stage[m] \in {"tcp", "tryRelay", "viaRelay", "queue"}
          /\ stage' = [stage EXCEPT ![m] = "saveAck"]
          /\ UNCHANGED <<attempt, relayPeer, relays, frames>>
        BY <1>3 DEF AckArrives, QueueOrFail, netVars
    <2>2. Progress[stage[m]] < Progress["saveAck"]
        BY <2>1
    <2> QED
        BY <2>1, <2>2, StageGoesOn
<1>4. CASE SaveAck(m) \/ SaveSent(m)
    <2>1. /\ UNCHANGED <<attempt, relayPeer, relays, frames>>
          /\ \/ stage[m] = "saveAck" /\ stage' = [stage EXCEPT ![m] = "save"]
             \/ stage[m] = "save" /\ stage' = [stage EXCEPT ![m] = "done"]
        BY <1>4 DEF SaveAck, SaveSent, netVars
    <2> QED
        BY <2>1, StageGoesOn
<1>5. CASE DirectFails(m)
    <2>1. CASE MayRetry(m)
        <3>1. /\ attempt' = [attempt EXCEPT ![m] = @ + 1]
              /\ frames' = frames \cup {DirectCall(m, attempt[m] + 1)}
              /\ UNCHANGED <<stage, relayPeer, relays>>
            BY <1>5, <2>1 DEF DirectFails
        <3>2. GoesOn(m) /\ \A x \in Msg \ {m} : UNCHANGED Position(x)
            BY <2>1, <3>1, RetryGoesOn
        <3>3. \A c \in frames' \ frames : c.hop # "inner" /\ c.msg = m
            BY <3>1 DEF DirectCall
        <3> QED
            BY <3>2, <3>3
    <2>2. CASE ~MayRetry(m)
        <3>1. PICK online \in SUBSET (Peer \ {Src[m], Dst[m]}) : NextRelay(m, online)
            BY <1>5, <2>2 DEF DirectFails
        <3>2. stage[m] = "tcp" /\ online \in SUBSET Peer
            BY <1>5 DEF DirectFails
        <3> QED
            BY <3>1, <3>2, NextRelayGoesOn
    <2> QED
        BY <2>1, <2>2
<1>6. CASE TryRelayFails(m)
    <2>1. /\ stage[m] = "tryRelay" /\ NextRelay(m, relays[m])
          /\ relays[m] \in SUBSET Peer
        BY <1>6 DEF TryRelayFails, TypeOK, SenderTypes
    <2> QED
        BY <2>1, NextRelayGoesOn
<1>7. CASE ViaRelayFails(m)
    <2>1. CASE MayRetry(m)
        <3>1. /\ attempt' = [attempt EXCEPT ![m] = @ + 1]
              /\ frames' = frames \cup {RelayCall(m, relayPeer[m], attempt[m] + 1)}
              /\ UNCHANGED <<stage, relayPeer, relays>>
            BY <1>7, <2>1 DEF ViaRelayFails
        <3>2. GoesOn(m) /\ \A x \in Msg \ {m} : UNCHANGED Position(x)
            BY <2>1, <3>1, RetryGoesOn
        <3>3. \A c \in frames' \ frames : c.hop # "inner" /\ c.msg = m
            BY <3>1 DEF RelayCall
        <3> QED
            BY <3>2, <3>3
    <2>2. CASE ~MayRetry(m)
        <3>1. /\ stage[m] = "viaRelay" /\ stage' = [stage EXCEPT ![m] = "saveAck"]
              /\ UNCHANGED <<attempt, relayPeer, relays, frames>>
            BY <1>7, <2>2 DEF ViaRelayFails
        <3>2. Progress[stage[m]] < Progress["saveAck"]
            BY <3>1
        <3> QED
            BY <3>1, <3>2, StageGoesOn
    <2> QED
        BY <2>1, <2>2
<1> QED
    BY <1>1, <1>2, <1>3, <1>4, <1>5, <1>6, <1>7 DEF SenderNext

\* The copies a relay puts out.
Relayed(c) ==
    \/ /\ c.hop = "inner" /\ c.try = 1
       /\ RelayCall(c.msg, c.relay, c.run) \in frames \ frames'
    \/ /\ c.hop = "inner" /\ c.try \in 2 .. RelayRetries + 1
       /\ relayRun[<<c.msg, c.relay, c.run>>] = c.try - 1

LEMMA RelaySends ==
    ASSUME TypeOK, RelayNext
    PROVE  UNCHANGED senderVars /\ \A c \in frames' \ frames : Relayed(c)
<1>1. ASSUME NEW f \in frames, RelayForwards(f)
      PROVE  \A c \in frames' \ frames : Relayed(c)
    <2> DEFINE run == <<f.msg, f.relay, f.try>>
               c == InnerCall(run, 1)
    <2>1. f \in Call /\ f.hop = "relay" /\ frames' = (frames \ {f}) \cup {c}
        BY <1>1 DEF RelayForwards, TypeOK, NetTypes
    <2>2. f = RelayCall(f.msg, f.relay, f.try)
        BY <2>1 DEF Call, RelayCall
    <2>3. /\ c.hop = "inner" /\ c.try = 1
          /\ c.msg = f.msg /\ c.relay = f.relay /\ c.run = f.try
        BY DEF InnerCall
    <2> HIDE DEF c
    <2>4. f \in frames \ frames'
        BY <2>1, <2>3
    <2>5. Relayed(c)
        BY <2>2, <2>3, <2>4 DEF Relayed
    <2> QED
        BY <2>1, <2>5
<1>2. ASSUME NEW run \in RelayRun, InnerRetries(run)
      PROVE  \A c \in frames' \ frames : Relayed(c)
    <2> DEFINE k == relayRun[run]
               c == InnerCall(run, k + 1)
    <2>1. k \in 1 .. RelayRetries /\ frames' = frames \cup {c}
        BY <1>2 DEF InnerRetries
    <2>2. run = <<run[1], run[2], run[3]>>
        BY DEF RelayRun
    <2>3. /\ c.hop = "inner" /\ c.try = k + 1
          /\ c.msg = run[1] /\ c.relay = run[2] /\ c.run = run[3]
        BY DEF InnerCall
    <2>4. c.try \in 2 .. RelayRetries + 1 /\ k = c.try - 1
        BY <2>1, <2>3
    <2>5. relayRun[<<c.msg, c.relay, c.run>>] = k
        BY <2>2, <2>3
    <2> HIDE DEF c, k
    <2>6. Relayed(c)
        BY <2>3, <2>4, <2>5 DEF Relayed
    <2> QED
        BY <2>1, <2>6
<1>3. ASSUME NEW f \in frames, RelayRefuses(f)
      PROVE  frames' \subseteq frames
    BY <1>3 DEF RelayRefuses
<1>4. ASSUME NEW run \in RelayRun, InnerAckArrives(run) \/ InnerGivesUp(run)
      PROVE  frames' \subseteq frames
    BY <1>4 DEF InnerAckArrives, InnerGivesUp
<1>5. UNCHANGED senderVars
    BY DEF RelayNext, RelayRefuses, RelayForwards, InnerAckArrives, InnerRetries,
           InnerGivesUp
<1> QED
    BY <1>1, <1>2, <1>3, <1>4, <1>5 DEF RelayNext

\* Nobody else moves a send or puts a copy on the network, but a crash, which
\* ends the sends of its peer.
LEMMA OthersSendNothing ==
    ASSUME TypeOK,
           \/ TargetNext
           \/ \E p \in Peer, s \in Slot : SyncNext(p, s)
           \/ \E p \in Peer : ToggleChurn(p)
           \/ Wipe
           \/ UNCHANGED vars
    PROVE  UNCHANGED senderVars /\ frames' \subseteq frames
<1>1. CASE TargetNext
    BY <1>1 DEF TargetNext, HandleAway, HandleDuplicate, HandleNew, TextSaved,
                FileWritten, FileWriteFails, netVars
<1>2. ASSUME NEW p \in Peer, NEW s \in Slot, SyncNext(p, s)
      PROVE  UNCHANGED senderVars /\ frames' \subseteq frames
    BY <1>2 DEF SyncNext, SyncFetch, SyncDuplicate, SyncNew, SyncThrows, SyncSaved,
                SyncAck, netVars
<1>3. CASE (\E p \in Peer : ToggleChurn(p)) \/ Wipe \/ UNCHANGED vars
    BY <1>3 DEF ToggleChurn, Wipe, netVars, vars
<1> QED
    BY <1>1, <1>2, <1>3

LEMMA RestartEnds ==
    ASSUME TypeOK, NEW p \in Peer, Restart(p)
    PROVE  /\ frames' \subseteq frames
           /\ \A m \in Msg : Position(m)' # Position(m) => GoesOn(m)
<1>1. frames' \subseteq frames /\ UNCHANGED <<attempt, relayPeer, relays>>
    BY DEF Restart
<1>2. ASSUME NEW m \in Msg
      PROVE  \/ stage'[m] = stage[m]
             \/ stage'[m] = "crashed" /\ stage[m] \in Stage \ {"idle", "done", "crashed"}
    BY DEF Restart, TypeOK, SenderTypes
<1>3. ASSUME NEW m \in Msg, Position(m)' # Position(m)
      PROVE  GoesOn(m)
    <2>1. stage'[m] # stage[m]
        BY <1>1, <1>3 DEF Position
    <2> QED
        BY <1>2, <2>1 DEF GoesOn, Progress, Stage
<1> QED
    BY <1>1, <1>3

LEMMA AllGoesOn ==
    ASSUME TypeOK, [Next]_vars
    PROVE  /\ \A m \in Msg : Position(m)' # Position(m) => GoesOn(m)
           /\ \A c \in frames' \ frames :
                 (c.hop # "inner" /\ GoesOn(c.msg)) \/ Relayed(c)
<1>1. ASSUME NEW m \in Msg, SenderNext(m)
      PROVE  /\ \A x \in Msg : Position(x)' # Position(x) => GoesOn(x)
             /\ \A c \in frames' \ frames : c.hop # "inner" /\ GoesOn(c.msg)
    BY <1>1, SenderGoesOn
<1>2. UNCHANGED senderVars => \A m \in Msg : Position(m)' = Position(m)
    BY DEF senderVars, Position
<1> QED
    BY <1>1, <1>2, RelaySends, OthersSendNothing, RestartEnds DEF Next

\* deliverPayload, tryRelay, sendViaRelay, handleRelay: no step takes a send
\* back, and each copy on the network is one of the attempts its send or its
\* relay is allowed, for any number of retries and relays.
THEOREM SendGoesForward == Spec => SendAdvances
<1> USE DEF Position
<1>1. TypeOK /\ [Next]_vars =>
        [/\ \A m \in Msg :
              <<stage[m], relays[m], relayPeer[m], attempt[m]>>' #
                 <<stage[m], relays[m], relayPeer[m], attempt[m]>> => GoesOn(m)
         /\ \A c \in frames' \ frames :
              \/ c.hop # "inner" /\ GoesOn(c.msg)
              \/ /\ c.hop = "inner" /\ c.try = 1
                 /\ RelayCall(c.msg, c.relay, c.run) \in frames \ frames'
              \/ /\ c.hop = "inner" /\ c.try \in 2 .. RelayRetries + 1
                 /\ relayRun[<<c.msg, c.relay, c.run>>] = c.try - 1]_vars
    BY AllGoesOn DEF Relayed
<1> QED
    BY <1>1, TypeCorrect, PTL DEF Spec, SendAdvances
=============================================================================
