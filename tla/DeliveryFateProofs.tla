------------------------- MODULE DeliveryFateProofs -------------------------
(***************************************************************************)
(* Delivery implements MessageFate, the rows of the message table are       *)
(* truthful, and a file shown as delivered arrives, for every value of the  *)
(* constants.  All rest on the invariant of DeliveryProofs.                 *)
(***************************************************************************)
EXTENDS DeliveryProofs

-----------------------------------------------------------------------------
(* The rows of the message table *)

Through == {"received", "delivered_from_queue", "delivered",
            "delivered_via_relay"}

\* No step takes a message back.
LEMMA HandledGrows == Next => handled \subseteq handled'
<1> SUFFICES ASSUME Next
             PROVE  handled \subseteq handled'
    OBVIOUS
<1>1. ASSUME NEW m \in Msg, SenderNext(m)
      PROVE  handled' = handled
    BY <1>1 DEF SenderNext, SendDirect, SendFile, SendViaRelay, AckArrives,
                DirectFails, TryRelayFails, ViaRelayFails, QueueOrFail, SaveAck,
                SaveSent, ghostVars
<1>2. CASE RelayNext
    BY <1>2 DEF RelayNext, RelayRefuses, RelayForwards, InnerAckArrives,
                InnerRetries, InnerGivesUp, ghostVars
<1>3. CASE TargetNext
    <2>1. ASSUME NEW c \in frames, HandleAway(c) \/ HandleDuplicate(c)
          PROVE  handled \subseteq handled'
        BY <2>1 DEF HandleAway, HandleDuplicate, ghostVars
    <2>2. ASSUME NEW c \in frames, HandleNew(c)
          PROVE  handled \subseteq handled'
        BY <2>2 DEF HandleNew, Accept, ghostVars
    <2>3. ASSUME NEW c \in handling,
                 TextSaved(c) \/ FileWritten(c) \/ FileWriteFails(c)
          PROVE  handled \subseteq handled'
        BY <2>3 DEF TextSaved, FileWritten, FileWriteFails, Accept, ghostVars
    <2> QED
        BY <1>3, <2>1, <2>2, <2>3 DEF TargetNext
<1>4. ASSUME NEW p \in Peer, NEW s \in Slot, SyncNext(p, s)
      PROVE  handled \subseteq handled'
    BY <1>4 DEF SyncNext, SyncFetch, SyncDuplicate, SyncNew, SyncThrows,
                SyncSaved, SyncAck, Accept, ghostVars
<1>5. ASSUME NEW p \in Peer, ToggleChurn(p) \/ Restart(p)
      PROVE  handled' = handled
    BY <1>5 DEF ToggleChurn, Restart, ghostVars
<1>6. CASE Wipe
    BY <1>6 DEF Wipe, ghostVars
<1> QED
    BY <1>1, <1>2, <1>3, <1>4, <1>5, <1>6 DEF Next

RowWritten ==
    \/ UNCHANGED directMessages
    \/ \A m \in Msg : directMessages'[m] = "none"
    \/ \E m \in Msg, row \in RowStatus :
          /\ directMessages' = [directMessages EXCEPT ![m] = row]
          /\ m \in Sound /\ row \in Through => m \in handled

\* A row is written by three steps, and each of them knows that the message
\* has been taken if the row says so; a wipe takes all rows.
LEMMA RowsWritten ==
    ASSUME IInv, Next
    PROVE  RowWritten
<1> DEFINE Write(m, row) ==
              \/ UNCHANGED directMessages
              \/ directMessages' = [directMessages EXCEPT ![m] = row]
<1>0. ASSUME NEW m \in Msg, NEW row \in RowStatus, Write(m, row),
             m \in Sound /\ row \in Through => m \in handled
      PROVE  RowWritten
    BY <1>0 DEF RowWritten
<1>1. ASSUME NEW m \in Msg, SenderNext(m)
      PROVE  RowWritten
    <2>1. CASE SaveSent(m)
        <3>1. Write(m, status[m])
            BY <2>1 DEF SaveSent, Saved
        <3>2. status[m] \in RowStatus /\ status[m] \in Status
            BY DEF IInv, TypeOK, SenderTypes, RowStatus
        <3>3. m \in Sound /\ status[m] \in Through => m \in handled
            BY <3>2 DEF IInv, DeliveredWasHandled, Through, Status
        <3> QED
            BY <1>0, <3>1, <3>2, <3>3
    <2>2. CASE ~SaveSent(m)
        BY <1>1, <2>2
        DEF SenderNext, SendDirect, SendFile, SendViaRelay, AckArrives,
            DirectFails, TryRelayFails, ViaRelayFails, QueueOrFail, SaveAck,
            storeVars, RowWritten
    <2> QED
        BY <2>1, <2>2
<1>2. CASE RelayNext
    BY <1>2 DEF RelayNext, RelayRefuses, RelayForwards, InnerAckArrives,
                InnerRetries, InnerGivesUp, storeVars, RowWritten
<1>3. CASE TargetNext
    <2>1. ASSUME NEW c \in frames,
                 HandleAway(c) \/ HandleDuplicate(c) \/ HandleNew(c)
          PROVE  RowWritten
        BY <2>1 DEF HandleAway, HandleDuplicate, HandleNew, storeVars, RowWritten
    <2>2. ASSUME NEW c \in handling, TextSaved(c)
          PROVE  RowWritten
        <3>1. c.msg \in Msg
            BY DEF IInv, TypeOK, PeerTypes, Call
        <3>2. Write(c.msg, "received")
            BY <2>2 DEF TextSaved, Saved
        <3>3. c.msg \in Sound => c.msg \in handled
            BY DEF IInv, RunsHandled
        <3> QED
            BY <1>0, <3>1, <3>2, <3>3 DEF RowStatus
    <2>3. ASSUME NEW c \in handling, FileWritten(c) \/ FileWriteFails(c)
          PROVE  RowWritten
        BY <2>3 DEF FileWritten, FileWriteFails, storeVars, RowWritten
    <2> QED
        BY <1>3, <2>1, <2>2, <2>3 DEF TargetNext
<1>4. ASSUME NEW p \in Peer, NEW s \in Slot, SyncNext(p, s)
      PROVE  RowWritten
    <2>1. ASSUME NEW m \in Msg, SyncSaved(p, s, m)
          PROVE  RowWritten
        <3>1. Write(m, "delivered_from_queue")
            BY <2>1 DEF SyncSaved, Saved
        <3>2. m \in Sound => m \in handled
            BY <2>1 DEF SyncSaved, IInv, SyncHandled
        <3> QED
            BY <1>0, <3>1, <3>2 DEF RowStatus
    <2>2. ASSUME NEW m \in Msg,
                 SyncDuplicate(p, s, m) \/ SyncNew(p, s, m) \/ SyncThrows(p, s, m)
          PROVE  RowWritten
        BY <2>2 DEF SyncDuplicate, SyncNew, SyncThrows, storeVars, RowWritten
    <2>3. CASE SyncFetch(p, s)
        BY <2>3 DEF SyncFetch, storeVars, RowWritten
    <2>4. ASSUME NEW o \in HttpOutcome, SyncAck(p, s, o)
          PROVE  RowWritten
        BY <2>4 DEF SyncAck, RowWritten
    <2> QED
        BY <1>4, <2>1, <2>2, <2>3, <2>4 DEF SyncNext
<1>5. ASSUME NEW p \in Peer, ToggleChurn(p) \/ Restart(p)
      PROVE  RowWritten
    BY <1>5 DEF ToggleChurn, Restart, storeVars, RowWritten
<1>6. CASE Wipe
    BY <1>6 DEF Wipe, RowWritten
<1> QED
    BY <1>1, <1>2, <1>3, <1>4, <1>5, <1>6 DEF Next

\* Whichever of sender, target and sync writes a row last, a row that says the
\* message got through is about a message the target has taken.
THEOREM RowsAreTrue == Spec => []RowsTruthful
<1>1. Init => RowsTruthful
    BY DEF Init, RowsTruthful, Sound
<1>2. IInv /\ RowsTruthful /\ [Next]_vars => RowsTruthful'
    <2> SUFFICES ASSUME IInv, RowsTruthful, [Next]_vars
                 PROVE  RowsTruthful'
        OBVIOUS
    <2>1. CASE UNCHANGED vars
        BY <2>1 DEF RowsTruthful, vars, storeVars, ghostVars
    <2>2. CASE Next
        <3>1. handled \subseteq handled'
            BY <2>2, HandledGrows
        <3>2. directMessages \in [Msg -> RowStatus]
            BY DEF IInv, TypeOK, StoreTypes
        <3> QED
            BY <2>2, <3>1, <3>2, RowsWritten
            DEF RowsTruthful, RowWritten, Through, Sound
    <2> QED
        BY <2>1, <2>2
<1> QED
    BY <1>1, <1>2, Invariance, PTL DEF Spec

-----------------------------------------------------------------------------
(***************************************************************************)
(* The refinement.  Two more facts are needed: a sender that has not        *)
(* finished deliverPayload has said nothing and stored nothing yet, and what *)
(* a sync works on has a record.                                            *)
(***************************************************************************)

Unfinished == {"idle", "tcp", "tryRelay", "viaRelay", "queue"}

NothingSaid ==
    \A m \in Msg : stage[m] \in Unfinished =>
        result[m] = "none" /\ offlineMessages[m] = "none"

BatchStored ==
    \A k \in Peer \X Slot : \A m \in Msg :
        m \in sync[k].todo \cup sync[k].saving \cup sync[k].done =>
            offlineMessages[m] # "none"

FInv == NothingSaid /\ BatchStored

\* Steps that say nothing to the sender and leave the queue and the batches.
LEMMA Quiet ==
    ASSUME FInv, UNCHANGED <<result, offlineMessages>>,
           \A m \in Msg : stage'[m] \in Unfinished => stage[m] \in Unfinished
    PROVE  /\ NothingSaid'
           /\ UNCHANGED sync => BatchStored'
BY DEF FInv, NothingSaid, BatchStored

LEMMA SenderFInv ==
    ASSUME TypeOK, FInv, NEW m \in Msg, SenderNext(m)
    PROVE  FInv'
<1> USE DEF FInv
<1>1. UNCHANGED sync
    BY DEF SenderNext, SendDirect, SendFile, SendViaRelay, AckArrives,
           DirectFails, TryRelayFails, ViaRelayFails, QueueOrFail, SaveAck,
           SaveSent, peerVars
<1>2. stage \in [Msg -> Stage]
    BY DEF TypeOK, SenderTypes
<1>3. CASE SendDirect(m) \/ SendFile(m)
    <2>1. /\ stage[m] = "idle" /\ UNCHANGED <<result, offlineMessages>>
          /\ \A x \in Msg \ {m} : stage'[x] = stage[x]
        BY <1>2, <1>3
        DEF SendDirect, SendFile, MaySend, FirstAttempt, storeVars
    <2> QED
        BY <1>1, <2>1, Quiet DEF Unfinished
<1>4. ASSUME NEW r \in Peer, SendViaRelay(m, r)
      PROVE  FInv'
    <2>1. /\ stage[m] = "idle" /\ UNCHANGED <<result, offlineMessages>>
          /\ \A x \in Msg \ {m} : stage'[x] = stage[x]
        BY <1>2, <1>4 DEF SendViaRelay, MaySend, storeVars
    <2> QED
        BY <1>1, <2>1, Quiet DEF Unfinished
<1>5. CASE AckArrives(m)
    <2>1. /\ stage' = [stage EXCEPT ![m] = "saveAck"]
          /\ UNCHANGED offlineMessages
          /\ \A x \in Msg \ {m} : result'[x] = result[x]
        BY <1>5 DEF AckArrives, storeVars, TypeOK, SenderTypes
    <2> QED
        BY <1>1, <1>2, <2>1 DEF NothingSaid, BatchStored, Unfinished
<1>6. ASSUME NEW left, NextRelay(m, left), stage[m] \in {"tcp", "tryRelay"}
      PROVE  \A x \in Msg : stage'[x] \in Unfinished => stage[x] \in Unfinished
    BY <1>2, <1>6 DEF NextRelay, Unfinished
<1>7. CASE DirectFails(m) \/ TryRelayFails(m)
    <2>1. UNCHANGED <<result, offlineMessages>>
        BY <1>7 DEF DirectFails, TryRelayFails, storeVars
    <2>2. \A x \in Msg : stage'[x] \in Unfinished => stage[x] \in Unfinished
        BY <1>6, <1>7 DEF DirectFails, TryRelayFails
    <2> QED
        BY <1>1, <2>1, <2>2, Quiet
<1>8. CASE ViaRelayFails(m)
    <2>1. UNCHANGED offlineMessages
        BY <1>8 DEF ViaRelayFails, storeVars
    <2>2. \/ UNCHANGED <<stage, result>>
          \/ /\ stage' = [stage EXCEPT ![m] = "saveAck"]
             /\ \A x \in Msg \ {m} : result'[x] = result[x]
        BY <1>8 DEF ViaRelayFails, TypeOK, SenderTypes
    <2> QED
        BY <1>1, <1>2, <2>1, <2>2 DEF NothingSaid, BatchStored, Unfinished
<1>9. CASE QueueOrFail(m)
    <2>1. stage' = [stage EXCEPT ![m] = "saveAck"]
        BY <1>9 DEF QueueOrFail
    <2>2. \A x \in Msg \ {m} :
             result'[x] = result[x] /\ offlineMessages'[x] = offlineMessages[x]
        BY <1>9 DEF QueueOrFail, Saved, TypeOK, SenderTypes, StoreTypes
    <2>3. \A x \in Msg : offlineMessages[x] # "none" => offlineMessages'[x] # "none"
        BY <1>9 DEF QueueOrFail, Saved, TypeOK, StoreTypes
    <2> QED
        BY <1>1, <1>2, <2>1, <2>2, <2>3 DEF NothingSaid, BatchStored, Unfinished
<1>10. CASE SaveAck(m) \/ SaveSent(m)
    <2>1. /\ UNCHANGED <<result, offlineMessages>>
          /\ \A x \in Msg : stage'[x] \in {stage[x], "save", "done"}
        BY <1>2, <1>10 DEF SaveAck, SaveSent
    <2> QED
        BY <1>1, <2>1, Quiet DEF Unfinished
<1> QED
    BY <1>3, <1>4, <1>5, <1>7, <1>8, <1>9, <1>10 DEF SenderNext

LEMMA SyncFInv ==
    ASSUME TypeOK, FInv, NEW p \in Peer, NEW s \in Slot, SyncNext(p, s)
    PROVE  FInv'
<1> USE DEF FInv
<1> DEFINE k == <<p, s>>
<1>1. k \in Peer \X Slot /\ sync[k] \in SyncState /\ sync \in [Peer \X Slot -> SyncState]
    BY DEF TypeOK, PeerTypes
<1>2. ASSUME NEW state, sync' = [sync EXCEPT ![k] = state],
             UNCHANGED offlineMessages,
             \A m \in Msg : m \in state.todo \cup state.saving \cup state.done =>
                 offlineMessages[m] # "none"
      PROVE  BatchStored'
    BY <1>1, <1>2 DEF BatchStored
<1>3. \A m \in Msg :
         m \in sync[k].todo \cup sync[k].saving \cup sync[k].done =>
             offlineMessages[m] # "none"
    BY <1>1 DEF BatchStored
<1>4. CASE SyncFetch(p, s)
    <2> DEFINE state == [NoSync EXCEPT !.on = TRUE, !.todo = Pending(p)]
    <2>1. state.saving = {} /\ state.done = {} /\ state.todo = Pending(p)
        BY DEF NoSync
    <2>2. sync' = [sync EXCEPT ![k] = state]
        BY <1>4 DEF SyncFetch
    <2>3. UNCHANGED <<stage, result, offlineMessages>>
        BY <1>4 DEF SyncFetch, senderVars, storeVars
    <2> HIDE DEF state
    <2>4. BatchStored'
        BY <1>2, <2>1, <2>2, <2>3 DEF Pending
    <2> QED
        BY <2>3, <2>4, Quiet
<1>5. ASSUME NEW m \in Msg, SyncDuplicate(p, s, m)
      PROVE  FInv'
    <2> DEFINE state == [sync[k] EXCEPT !.todo = @ \ {m}, !.done = @ \cup {m}]
    <2>1. /\ state.saving = sync[k].saving /\ state.todo = sync[k].todo \ {m}
          /\ state.done = sync[k].done \cup {m} /\ m \in sync[k].todo
        BY <1>1, <1>5 DEF SyncState, SyncDuplicate, AtRecord
    <2>2. sync' = [sync EXCEPT ![k] = state]
        BY <1>1, <1>5 DEF SyncDuplicate
    <2>3. UNCHANGED <<stage, result, offlineMessages>>
        BY <1>5 DEF SyncDuplicate, senderVars, storeVars
    <2> HIDE DEF state
    <2>4. BatchStored'
        BY <1>2, <1>3, <2>1, <2>2, <2>3
    <2> QED
        BY <2>3, <2>4, Quiet
<1>6. ASSUME NEW m \in Msg, SyncNew(p, s, m)
      PROVE  FInv'
    <2> DEFINE state == [sync[k] EXCEPT !.todo = @ \ {m}, !.saving = {m}]
    <2>1. /\ state.saving = {m} /\ state.todo = sync[k].todo \ {m}
          /\ state.done = sync[k].done /\ m \in sync[k].todo
        BY <1>1, <1>6 DEF SyncState, SyncNew, AtRecord
    <2>2. sync' = [sync EXCEPT ![k] = state]
        BY <1>1, <1>6 DEF SyncNew
    <2>3. UNCHANGED <<stage, result, offlineMessages>>
        BY <1>6 DEF SyncNew, senderVars, storeVars
    <2> HIDE DEF state
    <2>4. BatchStored'
        BY <1>2, <1>3, <2>1, <2>2, <2>3
    <2> QED
        BY <2>3, <2>4, Quiet
<1>7. ASSUME NEW m \in Msg, SyncSaved(p, s, m)
      PROVE  FInv'
    <2> DEFINE state == [sync[k] EXCEPT !.saving = {}, !.done = @ \cup {m}]
    <2>1. /\ state.saving = {} /\ state.todo = sync[k].todo
          /\ state.done = sync[k].done \cup {m} /\ m \in sync[k].saving
        BY <1>1, <1>7 DEF SyncState, SyncSaved
    <2>2. sync' = [sync EXCEPT ![k] = state]
        BY <1>1, <1>7 DEF SyncSaved
    <2>3. UNCHANGED <<stage, result, offlineMessages>>
        BY <1>7 DEF SyncSaved, senderVars
    <2> HIDE DEF state
    <2>4. BatchStored'
        BY <1>2, <1>3, <2>1, <2>2, <2>3
    <2> QED
        BY <2>3, <2>4, Quiet
<1>8. ASSUME NEW m \in Msg, SyncThrows(p, s, m)
      PROVE  FInv'
    <2>1. /\ sync' = [sync EXCEPT ![k] = NoSync]
          /\ UNCHANGED <<stage, result, offlineMessages>>
        BY <1>8 DEF SyncThrows, BatchAfterError, senderVars, storeVars
    <2>2. NoSync.todo = {} /\ NoSync.saving = {} /\ NoSync.done = {}
        BY DEF NoSync
    <2>3. BatchStored'
        BY <1>2, <2>1, <2>2
    <2> QED
        BY <2>1, <2>3, Quiet
<1>9. ASSUME NEW o \in HttpOutcome, SyncAck(p, s, o)
      PROVE  FInv'
    <2>1. /\ sync' = [sync EXCEPT ![k] = NoSync]
          /\ UNCHANGED <<stage, result>>
        BY <1>9 DEF SyncAck, senderVars
    <2>2. \A m \in Msg :
             \/ offlineMessages'[m] = offlineMessages[m]
             \/ m \in sync[k].done /\ offlineMessages'[m] = "delivered"
        BY <1>9 DEF SyncAck, TypeOK, StoreTypes
    <2>3. \A m \in Msg : offlineMessages[m] = "none" <=> offlineMessages'[m] = "none"
        BY <1>3, <2>2
    <2>4. \A x \in Peer \X Slot :
             sync'[x] = sync[x] \/ sync'[x] = NoSync
        BY <1>1, <2>1
    <2> QED
        BY <2>1, <2>3, <2>4 DEF NothingSaid, BatchStored, NoSync
<1> QED
    BY <1>4, <1>5, <1>6, <1>7, <1>8, <1>9 DEF SyncNext

LEMMA InitFInv == Init => FInv
BY DEF Init, FInv, NothingSaid, BatchStored, NoSync

LEMMA NextFInv == TypeOK /\ FInv /\ [Next]_vars => FInv'
<1> SUFFICES ASSUME TypeOK, FInv, [Next]_vars
             PROVE  FInv'
    OBVIOUS
<1>1. CASE UNCHANGED vars
    BY <1>1, Quiet DEF FInv, vars, senderVars, peerVars, storeVars
<1>2. ASSUME NEW m \in Msg, SenderNext(m)
      PROVE  FInv'
    BY <1>2, SenderFInv
<1>3. CASE RelayNext
    <2>1. UNCHANGED <<stage, result, offlineMessages, sync>>
        BY <1>3 DEF RelayNext, RelayRefuses, RelayForwards, InnerAckArrives,
                    InnerRetries, InnerGivesUp, senderVars, peerVars, storeVars
    <2> QED
        BY <2>1, Quiet DEF FInv
<1>4. CASE TargetNext
    <2>1. UNCHANGED <<stage, result, offlineMessages, sync>>
        <3>1. ASSUME NEW c \in frames,
                     HandleAway(c) \/ HandleDuplicate(c) \/ HandleNew(c)
              PROVE  UNCHANGED <<stage, result, offlineMessages, sync>>
            BY <3>1 DEF HandleAway, HandleDuplicate, HandleNew, senderVars,
                        peerVars, storeVars
        <3>2. ASSUME NEW c \in handling,
                     TextSaved(c) \/ FileWritten(c) \/ FileWriteFails(c)
              PROVE  UNCHANGED <<stage, result, offlineMessages, sync>>
            BY <3>2 DEF TextSaved, FileWritten, FileWriteFails, senderVars,
                        storeVars
        <3> QED
            BY <1>4, <3>1, <3>2 DEF TargetNext
    <2> QED
        BY <2>1, Quiet DEF FInv
<1>5. ASSUME NEW p \in Peer, NEW s \in Slot, SyncNext(p, s)
      PROVE  FInv'
    BY <1>5, SyncFInv
<1>6. ASSUME NEW p \in Peer, ToggleChurn(p)
      PROVE  FInv'
    BY <1>6, Quiet DEF FInv, ToggleChurn, senderVars, storeVars
<1>7. ASSUME NEW p \in Peer, Restart(p)
      PROVE  FInv'
    <2>1. /\ UNCHANGED <<result, offlineMessages>>
          /\ \A m \in Msg : stage'[m] \in {stage[m], "crashed"}
          /\ \A k \in Peer \X Slot : sync'[k] = sync[k] \/ sync'[k] = NoSync
        BY <1>7 DEF Restart, storeVars
    <2>2. NothingSaid'
        BY <2>1, Quiet DEF Unfinished
    <2>3. BatchStored'
        BY <2>1 DEF FInv, BatchStored, NoSync
    <2> QED
        BY <2>2, <2>3 DEF FInv
<1>8. CASE Wipe
    <2>1. /\ UNCHANGED <<stage, result, sync>>
          /\ \A m \in Msg : offlineMessages[m] = "none" <=> offlineMessages'[m] = "none"
        BY <1>8 DEF Wipe, senderVars, peerVars
    <2> QED
        BY <2>1 DEF FInv, NothingSaid, BatchStored
<1> QED
    BY <1>1, <1>2, <1>3, <1>4, <1>5, <1>6, <1>7, <1>8 DEF Next

\* The state as the abstract specification sees it.
Queue == [m \in Sound |-> offlineMessages[m]]
View == <<handled \cap Sound, Verdict, Queue>>
FateStep == [Fate!FateNext]_View

LEMMA Stutter ==
    ASSUME UNCHANGED <<result, offlineMessages>>,
           UNCHANGED (handled \cap Sound)
    PROVE  FateStep
BY DEF FateStep, View, Verdict, Queue

Fates(r) ==
    CASE r = "none" -> "nothing"
      [] r \in {"ok", "relayed"} -> "delivered"
      [] r = "queued" -> "queued"
      [] r = "failed" -> "failed"

LEMMA VerdictOfResult ==
    ASSUME TypeOK, NEW m \in Msg, NEW r \in Result,
           result' = [result EXCEPT ![m] = r]
    PROVE  Verdict' = [Verdict EXCEPT ![m] = Fates(r)]
<1>1. Verdict = [x \in Sound |-> Fates(result[x])]
    BY DEF Verdict, Fates
<1>2. Verdict' = [x \in Sound |-> Fates(result'[x])]
    BY DEF Verdict, Fates
<1>3. \A x \in Sound : result'[x] = IF x = m THEN r ELSE result[x]
    BY DEF Sound, TypeOK, SenderTypes
<1> HIDE DEF Verdict, Fates, Sound
<1> QED
    BY <1>1, <1>2, <1>3

\* The sender learns that its message was delivered.
LEMMA SaysDelivered ==
    ASSUME TypeOK, NEW m \in Msg, NEW r \in {"ok", "relayed"},
           result[m] = "none", m \in Sound => m \in handled,
           result' = [result EXCEPT ![m] = r],
           UNCHANGED <<handled, offlineMessages>>
    PROVE  FateStep
<1>1. Verdict' = [Verdict EXCEPT ![m] = "delivered"]
    BY VerdictOfResult DEF Fates, Result
<1>2. UNCHANGED (handled \cap Sound) /\ UNCHANGED Queue
    BY DEF Queue
<1>3. CASE m \in Sound
    <2>1. Verdict[m] = "nothing"
        BY <1>3 DEF Verdict
    <2>2. Fate!TellDelivered(m)
        BY <1>1, <1>2, <1>3, <2>1 DEF Fate!TellDelivered, Queue
    <2> QED
        BY <1>3, <2>2 DEF FateStep, Fate!FateNext
<1>4. CASE m \notin Sound
    <2>1. UNCHANGED Verdict
        BY <1>1, <1>4 DEF Verdict
    <2> QED
        BY <1>2, <2>1 DEF FateStep, View
<1> QED
    BY <1>3, <1>4

\* The sender gives up; it may have stored a record without learning of it.
LEMMA SaysFailed ==
    ASSUME TypeOK, NEW m \in Msg, result[m] = "none",
           result' = [result EXCEPT ![m] = "failed"], UNCHANGED handled,
           \/ UNCHANGED offlineMessages
           \/ /\ offlineMessages[m] = "none"
              /\ offlineMessages' = [offlineMessages EXCEPT ![m] = "pending"]
    PROVE  FateStep
<1>1. Verdict' = [Verdict EXCEPT ![m] = "failed"]
    BY VerdictOfResult DEF Fates, Result
<1>2. UNCHANGED (handled \cap Sound)
    OBVIOUS
<1>3. \/ UNCHANGED Queue
      \/ Queue' = [Queue EXCEPT ![m] = "pending"] /\ offlineMessages[m] = "none"
    BY DEF Queue, TypeOK, StoreTypes, Sound
<1>4. CASE m \in Sound
    <2>1. Verdict[m] = "nothing"
        BY <1>4 DEF Verdict
    <2>2. Queue[m] = offlineMessages[m]
        BY <1>4 DEF Queue
    <2>3. Fate!TellFailed(m)
        BY <1>1, <1>2, <1>3, <2>1, <2>2 DEF Fate!TellFailed, Queue
    <2> QED
        BY <1>4, <2>3 DEF FateStep, Fate!FateNext
<1>5. CASE m \notin Sound
    <2>1. UNCHANGED Verdict /\ UNCHANGED Queue
        BY <1>1, <1>3, <1>5 DEF Verdict, Queue
    <2> QED
        BY <1>2, <2>1 DEF FateStep, View
<1> QED
    BY <1>4, <1>5

\* The sender learns that its message is queued.
LEMMA SaysQueued ==
    ASSUME TypeOK, NEW m \in Msg, result[m] = "none",
           offlineMessages[m] = "none",
           result' = [result EXCEPT ![m] = "queued"], UNCHANGED handled,
           offlineMessages' = [offlineMessages EXCEPT ![m] = "pending"]
    PROVE  FateStep
<1>1. Verdict' = [Verdict EXCEPT ![m] = "queued"]
    BY VerdictOfResult DEF Fates, Result
<1>2. UNCHANGED (handled \cap Sound)
    OBVIOUS
<1>3. Queue' = [Queue EXCEPT ![m] = "pending"]
    BY DEF Queue, TypeOK, StoreTypes, Sound
<1>4. CASE m \in Sound
    <2>1. Verdict[m] = "nothing" /\ Queue[m] = "none"
        BY <1>4 DEF Verdict, Queue
    <2>2. Fate!TellQueued(m)
        BY <1>1, <1>2, <1>3, <2>1 DEF Fate!TellQueued, Queue
    <2> QED
        BY <1>4, <2>2 DEF FateStep, Fate!FateNext
<1>5. CASE m \notin Sound
    <2>1. UNCHANGED Verdict /\ UNCHANGED Queue
        BY <1>1, <1>3, <1>5 DEF Verdict, Queue
    <2> QED
        BY <1>2, <2>1 DEF FateStep, View
<1> QED
    BY <1>4, <1>5

\* The target takes a message.
LEMMA Takes ==
    ASSUME NEW m \in Msg, Accept(m), UNCHANGED <<result, offlineMessages>>
    PROVE  FateStep
<1>1. UNCHANGED Verdict /\ UNCHANGED Queue
    BY DEF Verdict, Queue
<1>2. handled' = handled \cup {m}
    BY DEF Accept
<1>3. CASE m \in Sound
    <2>1. Fate!Take(m)
        BY <1>1, <1>2, <1>3 DEF Fate!Take, Queue
    <2> QED
        BY <1>3, <2>1 DEF FateStep, Fate!FateNext
<1>4. CASE m \notin Sound
    BY <1>1, <1>2, <1>4 DEF FateStep, View
<1> QED
    BY <1>3, <1>4

LEMMA SenderFate ==
    ASSUME IInv, FInv, NEW m \in Msg, SenderNext(m)
    PROVE  FateStep
<1> USE DEF IInv
<1>1. ASSUME stage[m] \in Unfinished
      PROVE  result[m] = "none" /\ offlineMessages[m] = "none"
    BY <1>1 DEF FInv, NothingSaid
<1>2. CASE AckArrives(m)
    <2>1. m \in Sound => m \in handled
        BY <1>2 DEF AckArrives, AcksHandled, DirectCall, RelayCall
    <2>2. PICK r \in {"ok", "relayed"} : result' = [result EXCEPT ![m] = r]
        BY <1>2 DEF AckArrives
    <2>3. stage[m] \in Unfinished /\ UNCHANGED <<handled, offlineMessages>>
        BY <1>2 DEF AckArrives, Unfinished, storeVars, ghostVars
    <2> QED
        BY <1>1, <2>1, <2>2, <2>3, SaysDelivered
<1>3. CASE ViaRelayFails(m)
    <2>1. stage[m] \in Unfinished /\ UNCHANGED <<handled, offlineMessages>>
        BY <1>3 DEF ViaRelayFails, Unfinished, storeVars, ghostVars
    <2>2. UNCHANGED result \/ result' = [result EXCEPT ![m] = "failed"]
        BY <1>3 DEF ViaRelayFails
    <2> QED
        BY <1>1, <2>1, <2>2, SaysFailed, Stutter
<1>4. CASE QueueOrFail(m)
    <2>1. stage[m] \in Unfinished /\ UNCHANGED handled
        BY <1>4 DEF QueueOrFail, Unfinished, ghostVars
    <2>2. \/ /\ result' = [result EXCEPT ![m] = "queued"]
             /\ offlineMessages' = [offlineMessages EXCEPT ![m] = "pending"]
          \/ /\ result' = [result EXCEPT ![m] = "failed"]
             /\ offlineMessages' \in
                   {offlineMessages, [offlineMessages EXCEPT ![m] = "pending"]}
        BY <1>4 DEF QueueOrFail, Saved, Reaches
    <2> QED
        BY <1>1, <2>1, <2>2, SaysQueued, SaysFailed
<1>5. CASE ~(AckArrives(m) \/ ViaRelayFails(m) \/ QueueOrFail(m))
    <2>1. UNCHANGED <<result, offlineMessages, handled>>
        BY <1>5 DEF SenderNext, SendDirect, SendFile, SendViaRelay, DirectFails,
                    TryRelayFails, SaveAck, SaveSent, storeVars, ghostVars
    <2> QED
        BY <2>1, Stutter
<1> QED
    BY <1>2, <1>3, <1>4, <1>5

LEMMA TargetFate ==
    ASSUME IInv, TargetNext
    PROVE  FateStep
<1>1. ASSUME NEW c \in frames, HandleAway(c) \/ HandleDuplicate(c)
      PROVE  FateStep
    BY <1>1, Stutter DEF HandleAway, HandleDuplicate, senderVars, storeVars,
                         ghostVars
<1>2. ASSUME NEW c \in frames, HandleNew(c)
      PROVE  FateStep
    <2>1. c.msg \in Msg
        BY DEF IInv, TypeOK, NetTypes, Call
    <2>2. UNCHANGED <<result, offlineMessages>>
        BY <1>2 DEF HandleNew, senderVars, storeVars
    <2>3. Accept(c.msg) \/ UNCHANGED handled
        BY <1>2 DEF HandleNew, ghostVars
    <2> QED
        BY <2>1, <2>2, <2>3, Takes, Stutter
<1>3. ASSUME NEW c \in handling, FileWritten(c)
      PROVE  FateStep
    <2>1. c.msg \in Msg
        BY DEF IInv, TypeOK, PeerTypes, Call
    <2> QED
        BY <1>3, <2>1, Takes DEF FileWritten, senderVars, storeVars
<1>4. ASSUME NEW c \in handling, TextSaved(c) \/ FileWriteFails(c)
      PROVE  FateStep
    BY <1>4, Stutter DEF TextSaved, FileWriteFails, senderVars, storeVars,
                         ghostVars
<1> QED
    BY <1>1, <1>2, <1>3, <1>4 DEF TargetNext

LEMMA SyncFate ==
    ASSUME IInv, FInv, NEW p \in Peer, NEW s \in Slot, SyncNext(p, s)
    PROVE  FateStep
<1> USE DEF IInv
<1>1. ASSUME NEW m \in Msg, SyncNew(p, s, m)
      PROVE  FateStep
    BY <1>1, Takes DEF SyncNew, senderVars, storeVars
<1>2. ASSUME NEW m \in Msg,
             SyncDuplicate(p, s, m) \/ SyncThrows(p, s, m) \/ SyncSaved(p, s, m)
      PROVE  FateStep
    BY <1>2, Stutter DEF SyncDuplicate, SyncThrows, SyncSaved, senderVars,
                         storeVars, ghostVars
<1>3. CASE SyncFetch(p, s)
    BY <1>3, Stutter DEF SyncFetch, senderVars, storeVars, ghostVars
<1>4. ASSUME NEW o \in HttpOutcome, SyncAck(p, s, o)
      PROVE  FateStep
    <2> DEFINE S == {m \in Sound : /\ m \in sync[<<p, s>>].done
                                   /\ offlineMessages[m] # "lost"}
    <2>1. S \subseteq handled /\ \A m \in S : Queue[m] \in {"pending", "delivered"}
        <3>1. \A m \in Msg : offlineMessages[m] \in {"none", "pending", "delivered", "lost"}
            BY DEF TypeOK, StoreTypes, Record
        <3> QED
            BY <3>1 DEF FInv, BatchStored, SyncHandled, Sound, Queue
    <2>2. UNCHANGED <<result, handled>>
        BY <1>4 DEF SyncAck, senderVars, ghostVars
    <2>3. CASE UNCHANGED offlineMessages
        BY <2>2, <2>3, Stutter
    <2>4. CASE offlineMessages' =
                  [m \in Msg |->
                      IF m \in sync[<<p, s>>].done /\ offlineMessages[m] # "lost"
                      THEN "delivered" ELSE offlineMessages[m]]
        <3>1. Queue' = [m \in Sound |-> IF m \in S THEN "delivered" ELSE Queue[m]]
            BY <2>4 DEF Queue, Sound
        <3>2. UNCHANGED Verdict
            BY <2>2 DEF Verdict
        <3>3. PICK T \in SUBSET Sound : T = S
            OBVIOUS
        <3>4. Fate!Retire(T)
            BY <2>1, <2>2, <3>1, <3>2, <3>3 DEF Fate!Retire, Queue
        <3> QED
            BY <3>4 DEF FateStep, Fate!FateNext
    <2> QED
        BY <1>4, <2>3, <2>4 DEF SyncAck
<1> QED
    BY <1>1, <1>2, <1>3, <1>4 DEF SyncNext

LEMMA NextFate == IInv /\ FInv /\ [Next]_vars => FateStep
<1> SUFFICES ASSUME IInv, FInv, [Next]_vars
             PROVE  FateStep
    OBVIOUS
<1>1. CASE UNCHANGED vars
    BY <1>1, Stutter DEF vars, senderVars, storeVars, ghostVars
<1>2. CASE RelayNext
    BY <1>2, Stutter DEF RelayNext, RelayRefuses, RelayForwards,
        InnerAckArrives, InnerRetries, InnerGivesUp, senderVars, storeVars,
        ghostVars
<1>3. ASSUME NEW p \in Peer, ToggleChurn(p) \/ Restart(p)
      PROVE  FateStep
    BY <1>3, Stutter DEF ToggleChurn, Restart, senderVars, storeVars, ghostVars
<1>4. CASE Wipe
    <2>1. InMemory /\ UNCHANGED <<handled, Verdict>>
        BY <1>4 DEF Wipe, senderVars, ghostVars, Verdict
    <2>2. Queue' = [m \in Sound |-> IF Queue[m] = "none" THEN "none" ELSE "lost"]
        BY <1>4 DEF Wipe, Queue, Sound
    <2>3. Fate!LoseQueue
        BY <2>1, <2>2 DEF Fate!LoseQueue, Queue
    <2> QED
        BY <2>3 DEF FateStep, Fate!FateNext
<1> QED
    BY <1>1, <1>2, <1>3, <1>4, SenderFate, TargetFate, SyncFate DEF Next

LEMMA InitFate == Init => Fate!FateInit
<1> SUFFICES ASSUME Init
             PROVE  Fate!FateInit
    OBVIOUS
<1>1. handled \cap Sound = {}
    BY DEF Init
<1>2. Verdict = [m \in Sound |-> "nothing"]
    BY DEF Init, Verdict, Sound
<1>3. [m \in Sound |-> offlineMessages[m]] = [m \in Sound |-> "none"]
    BY DEF Init, Sound
<1> QED
    BY <1>1, <1>2, <1>3 DEF Fate!FateInit

\* Delivery implements MessageFate: the sender of a sound message is told one
\* fate and never another, "delivered" only of what the target has taken and
\* "queued" only of what has a record, and no acknowledgement retires the
\* record of a message that was not taken; only a store in memory loses records.
THEOREM DeliveryImplementsFate == Spec => ImplementsFate
<1>1. Spec => [](IInv /\ FInv)
    <2>1. IInv /\ FInv /\ [Next]_vars => (IInv /\ FInv)'
        BY NextIInv, NextFInv DEF IInv
    <2> QED
        BY <2>1, InitIInv, InitFInv, PTL DEF Spec
<1>2. IInv /\ FInv /\ [Next]_vars =>
          [Fate!FateNext]_<<handled \cap Sound, Verdict,
                            [m \in Sound |-> offlineMessages[m]]>>
    BY NextFate DEF FateStep, View, Queue
<1> QED
    BY <1>1, <1>2, InitFate, PTL DEF Spec, ImplementsFate, Fate!FateSpec

-----------------------------------------------------------------------------
(* A file shown as delivered arrives.  The sender's "delivered" was an ACK   *)
(* on a socket, directly or through relays, and the ACK was the end of a run *)
(* or an id in the duplicate set; an id enters that set with a run that only *)
(* ends by writing the file, by a failed write or by a crash.                *)

USE ConstantsOK DEF ConstantsOK

\* Files whose write cannot fail.
Files == {m \in Msg \ Faulty : ~IsText(m)}

Arrives(m) == m \in handled \/ UnderWay(m) \/ restarts > 0

FilesUnqueued == \A m \in Files : offlineMessages[m] = "none"
FileSeen == \A m \in Files : Seen(m) => Arrives(m)
FileAcks == \A c \in acks : c.msg \in Files => Arrives(c.msg)
FileResult == \A m \in Files : result[m] \in {"ok", "relayed"} => Arrives(m)
FileStatus == \A m \in Files : status[m] = "delivered" => Arrives(m)

DInv == FilesUnqueued /\ FileSeen /\ FileAcks /\ FileResult /\ FileStatus

-----------------------------------------------------------------------------
(* What one step can change *)

LEMMA HandlingType ==
    ASSUME TypeOK
    PROVE  /\ \A c \in handling : c \in Call /\ c.msg \in Msg
           /\ \A c \in frames : c \in Call /\ c.msg \in Msg
           /\ restarts \in Nat
BY DEF TypeOK, NetTypes, PeerTypes, Call

\* A run for a file ends by writing it, or with the target's process.
LEMMA ArrivesStays ==
    ASSUME TypeOK, Next, NEW m \in Files, Arrives(m)
    PROVE  Arrives(m)'
<1> DEFINE Stays == handling \subseteq handling' /\ restarts' = restarts
<1>0. handled \subseteq handled'
    BY HandledGrows
<1>1. CASE Stays
    BY <1>0, <1>1 DEF Arrives, UnderWay
<1>2. ASSUME NEW x \in Msg, SenderNext(x)
      PROVE  Stays
    BY <1>2 DEF SenderNext, SendDirect, SendFile, SendViaRelay, AckArrives,
                DirectFails, TryRelayFails, ViaRelayFails, QueueOrFail, SaveAck,
                SaveSent, peerVars
<1>3. CASE RelayNext
    BY <1>1, <1>3 DEF RelayNext, RelayRefuses, RelayForwards, InnerAckArrives,
                InnerRetries, InnerGivesUp, peerVars
<1>4. ASSUME NEW c \in frames,
             HandleAway(c) \/ HandleDuplicate(c) \/ HandleNew(c)
      PROVE  Stays
    BY <1>4 DEF HandleAway, HandleDuplicate, HandleNew, peerVars
<1>5. ASSUME NEW c \in handling, TextSaved(c)
      PROVE  Arrives(m)'
    <2>1. /\ IsText(c.msg) /\ ~IsText(m) /\ handling' = handling \ {c}
          /\ restarts' = restarts
        BY <1>5 DEF TextSaved, Files
    <2> QED
        BY <1>0, <2>1 DEF Arrives, UnderWay
<1>6. ASSUME NEW c \in handling, FileWritten(c)
      PROVE  Arrives(m)'
    <2>1. /\ c.msg \in handled' /\ handling' = handling \ {c}
          /\ restarts' = restarts
        BY <1>6 DEF FileWritten, Accept
    <2> QED
        BY <1>0, <2>1 DEF Arrives, UnderWay
<1>7. ASSUME NEW c \in handling, FileWriteFails(c)
      PROVE  Arrives(m)'
    <2>1. /\ c.msg \in Faulty /\ m \notin Faulty /\ handling' = handling \ {c}
          /\ restarts' = restarts
        BY <1>7 DEF FileWriteFails, Files
    <2> QED
        BY <1>0, <2>1 DEF Arrives, UnderWay
<1>8. ASSUME NEW p \in Peer, NEW s \in Slot, SyncNext(p, s)
      PROVE  Stays
    BY <1>8 DEF SyncNext, SyncFetch, SyncDuplicate, SyncNew, SyncThrows,
                SyncSaved, SyncAck
<1>9. ASSUME NEW p \in Peer, ToggleChurn(p)
      PROVE  Stays
    BY <1>9 DEF ToggleChurn
<1>10. ASSUME NEW p \in Peer, Restart(p)
       PROVE  Arrives(m)'
    <2>1. restarts' = restarts + 1
        BY <1>10 DEF Restart
    <2> QED
        BY <2>1, HandlingType DEF Arrives
<1>11. CASE Wipe
    BY <1>1, <1>11 DEF Wipe, peerVars
<1> QED
    BY <1>1, <1>2, <1>3, <1>4, <1>5, <1>6, <1>7, <1>8, <1>9, <1>10, <1>11
    DEF Next, TargetNext

\* What the sender believes was an ACK or a result before.
LEMMA BeliefSource ==
    ASSUME TypeOK, Next, NEW m \in Files
    PROVE  /\ result'[m] \in {"ok", "relayed"} =>
                 \/ result[m] \in {"ok", "relayed"}
                 \/ \E c \in acks : c.msg = m
           /\ status'[m] = "delivered" =>
                 status[m] = "delivered" \/ result[m] \in {"ok", "relayed"}
<1> DEFINE Same == UNCHANGED <<result, status>>
<1>0. /\ m \in Msg /\ result \in [Msg -> Result] /\ status \in [Msg -> Status]
    BY DEF Files, TypeOK, SenderTypes
<1>1. ASSUME NEW x \in Msg,
             SendDirect(x) \/ SendFile(x) \/ \E r \in Peer : SendViaRelay(x, r)
      PROVE  result' = result /\ status' = [status EXCEPT ![x] = "sending"]
    BY <1>1 DEF SendDirect, SendFile, SendViaRelay, Track
<1>2. ASSUME NEW x \in Msg, AckArrives(x)
      PROVE  /\ \E c \in acks : c.msg = x
             /\ \/ result' = [result EXCEPT ![x] = "ok"]
                \/ result' = [result EXCEPT ![x] = "relayed"]
             /\ \/ UNCHANGED status
                \/ status' = [status EXCEPT ![x] = "delivered_via_relay"]
    BY <1>2 DEF AckArrives, DirectCall, RelayCall
<1>3. ASSUME NEW x \in Msg, DirectFails(x) \/ TryRelayFails(x) \/ SaveSent(x)
      PROVE  Same
    BY <1>3 DEF DirectFails, TryRelayFails, SaveSent
<1>4. ASSUME NEW x \in Msg, ViaRelayFails(x) \/ QueueOrFail(x)
      PROVE  /\ \/ UNCHANGED result
                \/ result' = [result EXCEPT ![x] = "failed"]
                \/ result' = [result EXCEPT ![x] = "queued"]
             /\ UNCHANGED status \/ status' = [status EXCEPT ![x] = "failed"]
    BY <1>4 DEF ViaRelayFails, QueueOrFail
<1>5. ASSUME NEW x \in Msg, SaveAck(x)
      PROVE  /\ result' = result
             /\ \/ status' = [status EXCEPT ![x] = "delivered_via_relay"]
                \/ status' = [status EXCEPT ![x] = "failed_queued"]
                \/ status' = [status EXCEPT ![x] = "failed"]
                \/ /\ status' = [status EXCEPT ![x] = "delivered"]
                   /\ result[x] \in {"ok", "relayed"}
    BY <1>5 DEF SaveAck, FinalStatus
<1>6. CASE RelayNext
    BY <1>6 DEF RelayNext, RelayRefuses, RelayForwards, InnerAckArrives,
                InnerRetries, InnerGivesUp, senderVars
<1>7. CASE TargetNext
    BY <1>7 DEF TargetNext, HandleAway, HandleDuplicate, HandleNew, TextSaved,
                FileWritten, FileWriteFails, senderVars
<1>8. ASSUME NEW p \in Peer, NEW s \in Slot, SyncNext(p, s)
      PROVE  Same
    BY <1>8 DEF SyncNext, SyncFetch, SyncDuplicate, SyncNew, SyncThrows,
                SyncSaved, SyncAck, senderVars
<1>9. ASSUME NEW p \in Peer, ToggleChurn(p) \/ Restart(p)
      PROVE  Same
    BY <1>9 DEF ToggleChurn, Restart, senderVars
<1>10. ASSUME NEW x \in Msg, SenderNext(x)
       PROVE  /\ result'[m] \in {"ok", "relayed"} =>
                    \/ result[m] \in {"ok", "relayed"}
                    \/ \E c \in acks : c.msg = m
              /\ status'[m] = "delivered" =>
                    status[m] = "delivered" \/ result[m] \in {"ok", "relayed"}
    <2>1. CASE SendDirect(x) \/ SendFile(x) \/ \E r \in Peer : SendViaRelay(x, r)
        BY <1>0, <1>1, <2>1
    <2>2. CASE AckArrives(x)
        BY <1>0, <1>2, <2>2
    <2>3. CASE DirectFails(x) \/ TryRelayFails(x) \/ SaveSent(x)
        BY <1>3, <2>3
    <2>4. CASE ViaRelayFails(x) \/ QueueOrFail(x)
        BY <1>0, <1>4, <2>4
    <2>5. CASE SaveAck(x)
        BY <1>0, <1>5, <2>5
    <2> QED
        BY <1>10, <2>1, <2>2, <2>3, <2>4, <2>5 DEF SenderNext
<1>11. CASE Wipe
    BY <1>11 DEF Wipe, senderVars
<1> QED
    BY <1>6, <1>7, <1>8, <1>9, <1>10, <1>11 DEF Next

\* An ACK for a file is written at the end of its run, for an id already seen,
\* or by a relay that has one.
LEMMA AckSource ==
    ASSUME TypeOK, Next, NEW c \in acks', c.msg \in Files
    PROVE  \/ \E d \in acks : d.msg = c.msg
           \/ Seen(c.msg)
           \/ c.msg \in handled'
<1> DEFINE Older == acks' \subseteq acks
<1>1. CASE Older
    BY <1>1
<1>2. ASSUME NEW x \in Msg, SenderNext(x)
      PROVE  Older
    BY <1>2 DEF SenderNext, SendDirect, SendFile, SendViaRelay, AckArrives,
                DirectFails, TryRelayFails, ViaRelayFails, QueueOrFail, SaveAck,
                SaveSent, netVars
<1>3. ASSUME NEW x \in frames, RelayRefuses(x) \/ RelayForwards(x)
      PROVE  Older
    BY <1>3 DEF RelayRefuses, RelayForwards
<1>4. ASSUME NEW run \in RelayRun, InnerRetries(run) \/ InnerGivesUp(run)
      PROVE  Older
    BY <1>4 DEF InnerRetries, InnerGivesUp
<1>5. ASSUME NEW run \in RelayRun, InnerAckArrives(run)
      PROVE  \E d \in acks : d.msg = c.msg
    <2>1. /\ InnerCall(run, relayRun[run]) \in acks
          /\ InnerCall(run, relayRun[run]).msg = run[1]
        BY <1>5 DEF InnerAckArrives, InnerCall
    <2>2. c \in acks \/ c.msg = run[1]
        BY <1>5 DEF InnerAckArrives, Reply, RelayCall
    <2> QED
        BY <2>1, <2>2
<1>6. ASSUME NEW x \in frames, HandleAway(x) \/ HandleNew(x)
      PROVE  Older
    BY <1>6 DEF HandleAway, HandleNew
<1>7. ASSUME NEW x \in frames, HandleDuplicate(x)
      PROVE  c \in acks \/ Seen(c.msg)
    BY <1>7 DEF HandleDuplicate, Reply
<1>8. ASSUME NEW x \in handling, TextSaved(x)
      PROVE  c \in acks
    BY <1>8 DEF TextSaved, Reply, Files
<1>9. ASSUME NEW x \in handling, FileWritten(x)
      PROVE  c \in acks \/ c.msg \in handled'
    BY <1>9 DEF FileWritten, Reply, Accept
<1>10. ASSUME NEW x \in handling, FileWriteFails(x)
       PROVE  Older
    BY <1>10 DEF FileWriteFails, netVars
<1>11. ASSUME NEW p \in Peer, NEW s \in Slot, SyncNext(p, s)
       PROVE  Older
    BY <1>11 DEF SyncNext, SyncFetch, SyncDuplicate, SyncNew, SyncThrows,
                 SyncSaved, SyncAck, netVars
<1>12. ASSUME NEW p \in Peer, ToggleChurn(p) \/ Restart(p)
       PROVE  Older
    BY <1>12 DEF ToggleChurn, Restart, netVars
<1>13. CASE RelayNext
    BY <1>1, <1>3, <1>4, <1>5, <1>13 DEF RelayNext
<1>14. CASE TargetNext
    BY <1>1, <1>6, <1>7, <1>8, <1>9, <1>10, <1>14 DEF TargetNext
<1>15. CASE Wipe
    BY <1>1, <1>15 DEF Wipe, netVars
<1> QED
    BY <1>1, <1>2, <1>11, <1>12, <1>13, <1>14, <1>15 DEF Next

\* The id of a file enters the duplicate set with a run that will write it.
LEMMA SeenSource ==
    ASSUME TypeOK, FInv, FilesUnqueued, Next, NEW m \in Files, Seen(m)'
    PROVE  Seen(m) \/ UnderWay(m)'
<1>0. m \in Msg /\ Dst[m] \in Peer
    BY DEF Files
<1>1. ASSUME UNCHANGED memVars
      PROVE  Seen(m)
    BY <1>1 DEF memVars, Seen
<1>2. ASSUME NEW x \in Msg, Remember(x), x # m
      PROVE  Seen(m)
    BY <1>0, <1>2, IdsRemember DEF Seen
<1>3. ASSUME NEW x \in Msg, SenderNext(x)
      PROVE  UNCHANGED memVars
    BY <1>3 DEF SenderNext, SendDirect, SendFile, SendViaRelay, AckArrives,
                DirectFails, TryRelayFails, ViaRelayFails, QueueOrFail, SaveAck,
                SaveSent, peerVars
<1>4. CASE RelayNext
    BY <1>1, <1>4 DEF RelayNext, RelayRefuses, RelayForwards, InnerAckArrives,
                InnerRetries, InnerGivesUp, peerVars
<1>5. ASSUME NEW c \in frames, HandleAway(c) \/ HandleDuplicate(c)
      PROVE  UNCHANGED memVars
    BY <1>5 DEF HandleAway, HandleDuplicate, peerVars
<1>6. ASSUME NEW c \in frames, HandleNew(c)
      PROVE  Seen(m) \/ UnderWay(m)'
    <2>1. c.msg \in Msg /\ Remember(c.msg)
        BY <1>6, HandlingType DEF HandleNew
    <2>2. c.msg = m => c \in handling'
        BY <1>6 DEF HandleNew, Files
    <2> QED
        BY <1>2, <2>1, <2>2 DEF UnderWay
<1>7. ASSUME NEW c \in handling,
             TextSaved(c) \/ FileWritten(c) \/ FileWriteFails(c)
      PROVE  UNCHANGED memVars
    BY <1>7 DEF TextSaved, FileWritten, FileWriteFails
<1>8. ASSUME NEW p \in Peer, NEW s \in Slot, SyncNext(p, s)
      PROVE  Seen(m)
    <2>1. \A x \in Msg : AtRecord(p, s, x) => x # m
        BY DEF AtRecord, FInv, BatchStored, FilesUnqueued
    <2>2. ASSUME NEW x \in Msg, SyncNew(p, s, x) \/ SyncThrows(p, s, x)
          PROVE  Seen(m)
        <3>1. x # m
            BY <2>1, <2>2 DEF SyncNew, SyncThrows
        <3>2. Remember(x) \/ UNCHANGED memVars
            BY <2>2 DEF SyncNew, SyncThrows
        <3> QED
            BY <1>1, <1>2, <3>1, <3>2
    <2> QED
        BY <1>1, <1>8, <2>2
        DEF SyncNext, SyncFetch, SyncDuplicate, SyncSaved, SyncAck
<1>9. ASSUME NEW p \in Peer, ToggleChurn(p)
      PROVE  UNCHANGED memVars
    BY <1>9 DEF ToggleChurn
<1>10. ASSUME NEW p \in Peer, Restart(p)
       PROVE  Seen(m)
    BY <1>0, <1>10 DEF Restart, Seen, Ids, TypeOK, MemTypes
<1>11. CASE Wipe
    BY <1>1, <1>11 DEF Wipe, peerVars
<1> QED
    BY <1>1, <1>3, <1>4, <1>5, <1>6, <1>7, <1>8, <1>9, <1>10, <1>11
    DEF Next, TargetNext

\* Only direct texts are queued.
LEMMA UnqueuedStays ==
    ASSUME TypeOK, FInv, FilesUnqueued, Next
    PROVE  FilesUnqueued'
<1>1. CASE UNCHANGED offlineMessages
    BY <1>1 DEF FilesUnqueued, Files
<1>2. ASSUME NEW x \in Msg, QueueOrFail(x)
      PROVE  FilesUnqueued'
    <2>1. offlineMessages' = offlineMessages \/ IsText(x)
        BY <1>2 DEF QueueOrFail, IsText
    <2>2. \A m \in Msg \ {x} : offlineMessages'[m] = offlineMessages[m]
        BY <1>2 DEF QueueOrFail, Saved, TypeOK, StoreTypes
    <2> QED
        BY <2>1, <2>2 DEF FilesUnqueued, Files
<1>3. ASSUME NEW x \in Msg, SenderNext(x), ~QueueOrFail(x)
      PROVE  UNCHANGED offlineMessages
    BY <1>3 DEF SenderNext, SendDirect, SendFile, SendViaRelay, AckArrives,
                DirectFails, TryRelayFails, ViaRelayFails, SaveAck, SaveSent,
                storeVars
<1>4. CASE RelayNext
    BY <1>1, <1>4 DEF RelayNext, RelayRefuses, RelayForwards, InnerAckArrives,
                InnerRetries, InnerGivesUp, storeVars
<1>5. CASE TargetNext
    BY <1>1, <1>5 DEF TargetNext, HandleAway, HandleDuplicate, HandleNew,
                TextSaved, FileWritten, FileWriteFails, storeVars
<1>6. ASSUME NEW p \in Peer, NEW s \in Slot, SyncNext(p, s)
      PROVE  FilesUnqueued'
    <2>1. ASSUME NEW o \in HttpOutcome, SyncAck(p, s, o)
          PROVE  FilesUnqueued'
        <3>1. \A m \in Files : m \in Msg /\ m \notin sync[<<p, s>>].done
            BY DEF Files, FInv, BatchStored, FilesUnqueued
        <3>2. \A m \in Files : offlineMessages'[m] = offlineMessages[m]
            BY <2>1, <3>1 DEF SyncAck, TypeOK, StoreTypes
        <3> QED
            BY <3>2 DEF FilesUnqueued, Files
    <2> QED
        BY <1>1, <1>6, <2>1
        DEF SyncNext, SyncFetch, SyncDuplicate, SyncNew, SyncThrows, SyncSaved,
            storeVars
<1>7. ASSUME NEW p \in Peer, ToggleChurn(p) \/ Restart(p)
      PROVE  UNCHANGED offlineMessages
    BY <1>7 DEF ToggleChurn, Restart, storeVars
<1>8. CASE Wipe
    BY <1>8 DEF Wipe, FilesUnqueued, Files
<1> QED
    BY <1>1, <1>2, <1>3, <1>4, <1>5, <1>6, <1>7, <1>8 DEF Next

-----------------------------------------------------------------------------

LEMMA InitDInv == Init => DInv
<1> SUFFICES ASSUME Init
             PROVE  DInv
    OBVIOUS
<1>1. \A m \in Msg : ~Seen(m)
    BY DEF Init, Seen, Ids
<1>2. FileSeen
    BY <1>1 DEF FileSeen, Files
<1>3. FilesUnqueued /\ FileAcks /\ FileResult /\ FileStatus
    BY DEF Init, FilesUnqueued, FileAcks, FileResult, FileStatus, Files
<1> QED
    BY <1>2, <1>3 DEF DInv

LEMMA NextDInv == TypeOK /\ FInv /\ DInv /\ [Next]_vars => DInv'
<1> SUFFICES ASSUME TypeOK, FInv, DInv, [Next]_vars
             PROVE  DInv'
    OBVIOUS
<1>1. CASE UNCHANGED vars
    BY <1>1 DEF DInv, FilesUnqueued, FileSeen, FileAcks, FileResult, FileStatus,
        Arrives, UnderWay, Files, Seen, vars, senderVars, netVars, memVars,
        peerVars, storeVars, ghostVars
<1>2. CASE Next
    <2>1. FilesUnqueued'
        BY <1>2, UnqueuedStays DEF DInv
    <2>2. FileSeen'
        <3>1. ASSUME NEW m \in Files, Seen(m)'
              PROVE  Arrives(m)'
            <4>1. CASE Seen(m)
                BY <1>2, <3>1, <4>1, ArrivesStays DEF DInv, FileSeen
            <4>2. CASE UnderWay(m)'
                BY <4>2 DEF Arrives
            <4> QED
                BY <1>2, <3>1, <4>1, <4>2, SeenSource DEF DInv
        <3> QED
            BY <3>1 DEF FileSeen, Files
    <2>3. FileAcks'
        <3>1. ASSUME NEW c \in acks', c.msg \in Files
              PROVE  Arrives(c.msg)'
            <4>1. CASE c.msg \in handled'
                BY <4>1 DEF Arrives
            <4>2. CASE Seen(c.msg) \/ \E d \in acks : d.msg = c.msg
                <5>1. Arrives(c.msg)
                    BY <3>1, <4>2 DEF DInv, FileSeen, FileAcks
                <5> QED
                    BY <1>2, <3>1, <5>1, ArrivesStays
            <4> QED
                BY <1>2, <3>1, <4>1, <4>2, AckSource
        <3> QED
            BY <3>1 DEF FileAcks, Files
    <2>4. ASSUME NEW m \in Files,
                 \/ result'[m] \in {"ok", "relayed"}
                 \/ status'[m] = "delivered"
          PROVE  Arrives(m)'
        <3>1. Arrives(m)
            BY <1>2, <2>4, BeliefSource
            DEF DInv, FileResult, FileStatus, FileAcks
        <3> QED
            BY <1>2, <3>1, ArrivesStays
    <2>5. FileResult' /\ FileStatus'
        BY <2>4 DEF FileResult, FileStatus, Files
    <2> QED
        BY <2>1, <2>2, <2>3, <2>5 DEF DInv
<1> QED
    BY <1>1, <1>2

\* A file whose write cannot fail, shown to its sender as delivered, is in the
\* target's list or is being written, unless a process has crashed.
THEOREM DeliveredFileIsThere == Spec => []DeliveredFileArrives
<1>1. DInv => DeliveredFileArrives
    BY DEF DInv, FileStatus, Files, Arrives, DeliveredFileArrives
<1>2. Spec => [](IInv /\ FInv /\ DInv)
    <2>1. IInv /\ FInv /\ DInv /\ [Next]_vars => (IInv /\ FInv /\ DInv)'
        BY NextIInv, NextFInv, NextDInv DEF IInv
    <2> QED
        BY <2>1, InitIInv, InitFInv, InitDInv, PTL DEF Spec
<1> QED
    BY <1>1, <1>2, PTL
=============================================================================
