------------------------- MODULE DeliveryOnceProofs -------------------------
(***************************************************************************)
(* The duplicate set of a peer: it is bounded, and until it drops an id the *)
(* message is taken once, for every limit and on every path.  And the       *)
(* counters of a peer: every message it sends is counted once.              *)
(***************************************************************************)
EXTENDS DeliveryProofs, FiniteSetTheorems, FunctionTheorems

USE ConstantsOK DEF ConstantsOK

-----------------------------------------------------------------------------
(* What remembering an id does to the set *)

Distinct(s) == \A i, j \in 1 .. Len(s) : s[i] = s[j] => i = j

\* A sequence without repetitions has as many elements as positions.
LEMMA DistinctCardinality ==
    ASSUME NEW s \in Seq(Msg), Distinct(s)
    PROVE  IsFiniteSet(Ids(s)) /\ Cardinality(Ids(s)) = Len(s)
<1> DEFINE I == 1 .. Len(s)
           f == [i \in I |-> s[i]]
<1>1. IsFiniteSet(I) /\ Cardinality(I) = Len(s)
    <2>1. Len(s) \in Nat
        OBVIOUS
    <2>2. IsFiniteSet(1 .. Len(s))
        BY <2>1, FS_Interval
    <2>3. Cardinality(1 .. Len(s)) = IF 1 > Len(s) THEN 0 ELSE Len(s) - 1 + 1
        BY <2>1, FS_Interval
    <2> QED
        BY <2>1, <2>2, <2>3
<1>2. f \in Bijection(I, Ids(s))
    <2>1. f \in [I -> Ids(s)]
        BY DEF Ids
    <2>2. \A i, j \in I : f[i] = f[j] => i = j
        BY DEF Distinct
    <2>3. \A t \in Ids(s) : \E i \in I : f[i] = t
        BY DEF Ids
    <2> HIDE DEF f, I
    <2> QED
        BY <2>1, <2>2, <2>3, Fun_IsBij
<1> HIDE DEF I, f
<1>3. ExistsBijection(I, Ids(s))
    BY <1>2 DEF ExistsBijection
<1> QED
    BY <1>1, <1>3, FS_Bijection

\* A new id is the last of the set; the oldest goes when there is no room.
LEMMA Remembered ==
    ASSUME TypeOK, NEW m \in Msg, Remember(m), ~Seen(m),
           Distinct(seenMessageIds[Dst[m]])
    PROVE  LET p == Dst[m]
               old == seenMessageIds[p]
               new == seenMessageIds'[p]
           IN /\ Distinct(new) /\ m \in Ids(new)
              /\ \A x \in Ids(old) : x \in Ids(new) \/ x \in forgotten'[p]
              /\ \/ Len(old) < SeenLimit /\ Len(new) = Len(old) + 1
                    /\ forgotten'[p] = forgotten[p]
                 \/ Len(old) >= SeenLimit /\ Len(new) = Len(old)
              /\ \A q \in Peer : forgotten[q] \subseteq forgotten'[q]
              /\ \A q \in Peer \ {p} : /\ seenMessageIds'[q] = seenMessageIds[q]
                                       /\ forgotten'[q] = forgotten[q]
<1> DEFINE p == Dst[m]
           old == seenMessageIds[p]
           new == seenMessageIds'[p]
           s == Append(old, m)
<1>1. p \in Peer /\ old \in Seq(Msg) /\ Len(old) \in Nat /\ SeenLimit \in Nat \ {0}
    <2>1. p \in Peer /\ old \in Seq(Msg) /\ SeenLimit \in Nat \ {0}
        BY DEF TypeOK, MemTypes
    <2>2. \A q \in Seq(Msg) : Len(q) \in Nat
        OBVIOUS
    <2> HIDE DEF p, old
    <2> QED
        BY <2>1, <2>2
<1>2. seenMessageIds \in [Peer -> Seq(Msg)] /\ forgotten \in [Peer -> SUBSET Msg]
    BY DEF TypeOK, MemTypes
<1>3. /\ s \in Seq(Msg) /\ s # << >> /\ Len(s) = Len(old) + 1
      /\ \A i \in 1 .. Len(old) : s[i] = old[i]
      /\ s[Len(old) + 1] = m
    BY <1>1, AppendProperties
<1>4. \A i \in 1 .. Len(old) : old[i] # m
    BY DEF Seen, Ids
<1>5. Distinct(s) /\ m \in Ids(s) /\ Ids(old) \subseteq Ids(s)
    <2>1. \A i \in 1 .. Len(s) : i \in 1 .. Len(old) \/ i = Len(old) + 1
        BY <1>1, <1>3
    <2>2. Distinct(s)
        BY <1>1, <1>3, <1>4, <2>1 DEF Distinct
    <2>3. 1 .. Len(old) \subseteq 1 .. Len(s) /\ Len(old) + 1 \in 1 .. Len(s)
        BY <1>1, <1>3
    <2> QED
        BY <1>3, <2>2, <2>3 DEF Ids
<1>6. CASE Len(s) > SeenLimit
    <2>1. /\ seenMessageIds' = [seenMessageIds EXCEPT ![p] = Tail(s)]
          /\ forgotten' = [forgotten EXCEPT ![p] = @ \cup {Head(s)}]
        BY <1>6 DEF Remember
    <2>2. new = Tail(s) /\ forgotten'[p] = forgotten[p] \cup {Head(s)}
        BY <1>1, <1>2, <2>1
    <2>3. /\ Len(Tail(s)) = Len(old) /\ Head(s) = s[1]
          /\ \A i \in 1 .. Len(old) : Tail(s)[i] = s[i + 1]
        BY <1>1, <1>3, HeadTailProperties
    <2>4. Distinct(Tail(s))
        <3>1. \A i \in 1 .. Len(old) : i + 1 \in 1 .. Len(s)
            BY <1>1, <1>3
        <3>2. \A i, j \in 1 .. Len(s) : s[i] = s[j] => i = j
            BY <1>5 DEF Distinct
        <3>3. ASSUME NEW i \in 1 .. Len(old), NEW j \in 1 .. Len(old),
                     Tail(s)[i] = Tail(s)[j]
              PROVE  i = j
            <4>1. s[i + 1] = s[j + 1]
                BY <2>3, <3>3
            <4>2. i + 1 = j + 1
                BY <3>1, <3>2, <4>1
            <4> QED
                BY <1>1, <4>2
        <3> QED
            BY <2>3, <3>3 DEF Distinct
    <2>5. \A i \in 1 .. Len(s) : s[i] \in Ids(Tail(s)) \/ s[i] = Head(s)
        <3>1. ASSUME NEW i \in 1 .. Len(s), i # 1
              PROVE  s[i] \in Ids(Tail(s))
            <4>1. i - 1 \in 1 .. Len(old) /\ s[i] = Tail(s)[i - 1]
                BY <1>1, <1>3, <2>3, <3>1
            <4> QED
                BY <2>3, <4>1 DEF Ids
        <3> QED
            BY <2>3, <3>1
    <2>6. m \in Ids(Tail(s))
        <3>1. Len(old) \in 1 .. Len(old) /\ Tail(s)[Len(old)] = m
            BY <1>1, <1>3, <1>6, <2>3
        <3> QED
            BY <2>3, <3>1 DEF Ids
    <2>7. \A x \in Ids(old) : x \in Ids(new) \/ x \in forgotten'[p]
        <3>1. ASSUME NEW x \in Ids(s)
              PROVE  x \in Ids(Tail(s)) \/ x = Head(s)
            BY <2>5, <3>1 DEF Ids
        <3> QED
            BY <1>5, <2>2, <3>1
    <2>8. Len(old) >= SeenLimit
        BY <1>1, <1>3, <1>6
    <2> HIDE DEF s, old
    <2> QED
        BY <1>1, <1>2, <2>1, <2>2, <2>3, <2>4, <2>6, <2>7, <2>8 DEF old
<1>7. CASE ~(Len(s) > SeenLimit)
    <2>1. /\ seenMessageIds' = [seenMessageIds EXCEPT ![p] = s]
          /\ forgotten' = forgotten
        BY <1>7 DEF Remember
    <2>2. new = s
        BY <1>1, <1>2, <2>1
    <2>3. Len(old) < SeenLimit
        BY <1>1, <1>3, <1>7
    <2> HIDE DEF s, old
    <2> QED
        BY <1>1, <1>2, <1>3, <1>5, <2>1, <2>2, <2>3 DEF old
<1> QED
    BY <1>6, <1>7

-----------------------------------------------------------------------------
(***************************************************************************)
(* The invariant.  A message whose id was not dropped is in the set as soon *)
(* as it was taken or a run for it is under way, so that no other copy gets *)
(* past the duplicate check; and a file, which is taken at the end of its   *)
(* run only, has one run.                                                   *)
(***************************************************************************)

Bounded(p) ==
    LET s == seenMessageIds[p] IN
    /\ Distinct(s) /\ Len(s) <= SeenLimit
    /\ forgotten[p] # {} => Len(s) = SeenLimit

KnownOnce(m) ==
    /\ handledCount[m] # 0 \/ UnderWay(m) => Seen(m)
    /\ handledCount[m] <= 1

OneFileRun(m) ==
    ~IsText(m) /\ UnderWay(m) =>
        /\ handledCount[m] = 0
        /\ \A c, d \in handling : c.msg = m /\ d.msg = m => c = d

Once(m) == m \notin forgotten[Dst[m]] => KnownOnce(m) /\ OneFileRun(m)

OInv ==
    /\ TypeOK
    /\ \A p \in Peer : Bounded(p)
    /\ \A m \in Msg : Once(m)

\* Steps that only end runs.
LEMMA OnceFrame ==
    ASSUME OInv, UNCHANGED <<memVars, handledCount>>, handling' \subseteq handling
    PROVE  /\ \A p \in Peer : Bounded(p)'
           /\ \A m \in Msg : Once(m)'
<1>1. \A p \in Peer : Bounded(p)'
    BY DEF OInv, Bounded, memVars
<1>2. \A m \in Msg : UnderWay(m)' => UnderWay(m)
    BY DEF UnderWay
<1>3. \A m \in Msg : Seen(m)' <=> Seen(m)
    BY DEF Seen, memVars
<1>4. \A m \in Msg : KnownOnce(m) => KnownOnce(m)'
    BY <1>2, <1>3 DEF KnownOnce
<1>5. \A m \in Msg : OneFileRun(m) => OneFileRun(m)'
    BY <1>2 DEF OneFileRun
<1> QED
    BY <1>1, <1>4, <1>5 DEF OInv, Once, memVars

\* A step that remembers m, takes it at most once, and may start a run for it
\* (of a file only if it does not take it).
LEMMA OnceRemember ==
    ASSUME OInv, TypeOK', NEW m \in Msg, Remember(m), ~Seen(m), NEW c, c.msg = m,
           \/ UNCHANGED handledCount
           \/ handledCount' = [handledCount EXCEPT ![m] = IF @ = 0 THEN 1 ELSE 2],
           \/ UNCHANGED handling
           \/ /\ handling' = handling \cup {c}
              /\ IsText(m) \/ UNCHANGED handledCount
    PROVE  /\ \A p \in Peer : Bounded(p)'
           /\ \A x \in Msg : Once(x)'
<1> DEFINE p == Dst[m]
           old == seenMessageIds[p]
           new == seenMessageIds'[p]
<1>1. p \in Peer /\ Distinct(old) /\ Len(old) <= SeenLimit
      /\ (forgotten[p] # {} => Len(old) = SeenLimit)
    BY DEF OInv, Bounded
<1>2. /\ Distinct(new) /\ m \in Ids(new)
      /\ \A x \in Ids(old) : x \in Ids(new) \/ x \in forgotten'[p]
      /\ \/ /\ Len(old) < SeenLimit /\ Len(new) = Len(old) + 1
            /\ forgotten'[p] = forgotten[p]
         \/ Len(old) >= SeenLimit /\ Len(new) = Len(old)
      /\ \A q \in Peer : forgotten[q] \subseteq forgotten'[q]
      /\ \A q \in Peer \ {p} : /\ seenMessageIds'[q] = seenMessageIds[q]
                               /\ forgotten'[q] = forgotten[q]
    BY <1>1, Remembered DEF OInv
<1>3. Len(old) \in Nat /\ Len(new) \in Nat /\ SeenLimit \in Nat
    <2>1. old \in Seq(Msg) /\ new \in Seq(Msg)
        BY <1>1 DEF OInv, TypeOK, MemTypes
    <2>2. \A q \in Seq(Msg) : Len(q) \in Nat
        OBVIOUS
    <2> QED
        BY <2>1, <2>2
<1>4. \A q \in Peer : Bounded(q)'
    <2>1. Bounded(p)'
        <3>1. Distinct(seenMessageIds[p])'
            BY <1>2 DEF Distinct
        <3> QED
            BY <1>1, <1>2, <1>3, <3>1 DEF Bounded
    <2>2. ASSUME NEW q \in Peer \ {p}
          PROVE  Bounded(q)'
        BY <1>2, <2>2 DEF OInv, Bounded, Distinct
    <2> QED
        BY <2>1, <2>2
<1>5. Seen(m)' /\ \A x \in Msg : Seen(x) => Seen(x)' \/ x \in forgotten'[Dst[x]]
    <2>1. ASSUME NEW x \in Msg, Seen(x)
          PROVE  Seen(x)' \/ x \in forgotten'[Dst[x]]
        <3>1. CASE Dst[x] = p
            BY <1>2, <2>1, <3>1 DEF Seen
        <3>2. CASE Dst[x] # p
            BY <1>2, <2>1, <3>2 DEF Seen
        <3> QED
            BY <3>1, <3>2
    <2> QED
        BY <1>2, <2>1 DEF Seen
<1>6. \A x \in Msg : x \notin forgotten'[Dst[x]] => x \notin forgotten[Dst[x]]
    BY <1>2
<1>7. handledCount \in [Msg -> 0 .. 2] /\ handledCount' \in [Msg -> 0 .. 2]
    BY DEF OInv, TypeOK, GhostTypes
<1>8. ASSUME NEW x \in Msg, x # m, x \notin forgotten'[Dst[x]]
      PROVE  KnownOnce(x)' /\ OneFileRun(x)'
    <2>1. handledCount'[x] = handledCount[x]
        BY <1>7, <1>8
    <2>2. \A d \in handling' : d.msg = x => d \in handling
        BY <1>8
    <2>3. KnownOnce(x) /\ OneFileRun(x)
        BY <1>6, <1>8 DEF OInv, Once
    <2>4. UnderWay(x)' => UnderWay(x)
        BY <2>2 DEF UnderWay
    <2>5. KnownOnce(x)'
        BY <1>5, <1>8, <2>1, <2>3, <2>4 DEF KnownOnce
    <2>6. OneFileRun(x)'
        BY <2>1, <2>2, <2>3, <2>4 DEF OneFileRun, IsText
    <2> QED
        BY <2>5, <2>6
<1>9. ASSUME m \notin forgotten'[p]
      PROVE  KnownOnce(m)' /\ OneFileRun(m)'
    <2>1. handledCount[m] = 0 /\ ~UnderWay(m)
        BY <1>6, <1>9 DEF OInv, Once, KnownOnce
    <2>2. handledCount'[m] <= 1
        BY <1>7, <2>1
    <2>3. \A d \in handling' : d.msg = m => d = c
        BY <2>1 DEF UnderWay
    <2>4. UnderWay(m)' /\ ~IsText(m) => handledCount'[m] = 0
        BY <2>1 DEF UnderWay
    <2> QED
        BY <1>5, <2>2, <2>3, <2>4 DEF KnownOnce, OneFileRun, IsText
<1> QED
    BY <1>4, <1>8, <1>9 DEF Once

LEMMA NextOnce == OInv /\ TypeOK' /\ [Next]_vars => OInv'
<1> SUFFICES ASSUME OInv, TypeOK', [Next]_vars
             PROVE  OInv'
    OBVIOUS
<1> USE DEF OInv
<1>1. ASSUME UNCHANGED <<memVars, handledCount>>, handling' \subseteq handling
      PROVE  OInv'
    BY <1>1, OnceFrame
<1>2. CASE UNCHANGED vars
    BY <1>1, <1>2 DEF vars, peerVars, ghostVars
<1>3. ASSUME NEW m \in Msg, SenderNext(m)
      PROVE  OInv'
    <2>1. UNCHANGED <<memVars, handledCount, handling>>
        BY <1>3 DEF SenderNext, SendDirect, SendFile, SendViaRelay, AckArrives,
                    DirectFails, TryRelayFails, ViaRelayFails, QueueOrFail,
                    SaveAck, SaveSent, peerVars, ghostVars
    <2> QED
        BY <1>1, <2>1
<1>4. CASE RelayNext
    <2>1. UNCHANGED <<memVars, handledCount, handling>>
        BY <1>4 DEF RelayNext, RelayRefuses, RelayForwards, InnerAckArrives,
                    InnerRetries, InnerGivesUp, peerVars, ghostVars
    <2> QED
        BY <1>1, <2>1
<1>5. ASSUME NEW c \in frames, HandleAway(c) \/ HandleDuplicate(c)
      PROVE  OInv'
    BY <1>1, <1>5 DEF HandleAway, HandleDuplicate, peerVars, ghostVars
<1>6. ASSUME NEW c \in frames, HandleNew(c)
      PROVE  OInv'
    <2>1. c.msg \in Msg
        BY DEF TypeOK, NetTypes, Call
    <2>2. Remember(c.msg) /\ ~Seen(c.msg)
        BY <1>6 DEF HandleNew
    <2>3. \/ UNCHANGED handledCount
          \/ handledCount' = [handledCount EXCEPT ![c.msg] = IF @ = 0 THEN 1 ELSE 2]
        BY <1>6 DEF HandleNew, Accept, ghostVars
    <2>4. \/ UNCHANGED handling
          \/ /\ handling' = handling \cup {c}
             /\ IsText(c.msg) \/ UNCHANGED handledCount
        BY <1>6 DEF HandleNew, ghostVars
    <2> QED
        BY <2>1, <2>2, <2>3, <2>4, OnceRemember
<1>7. ASSUME NEW c \in handling, TextSaved(c) \/ FileWriteFails(c)
      PROVE  OInv'
    BY <1>1, <1>7 DEF TextSaved, FileWriteFails, ghostVars
<1>8. ASSUME NEW c \in handling, FileWritten(c)
      PROVE  OInv'
    <2> DEFINE m == c.msg
    <2>1. m \in Msg /\ ~IsText(m) /\ UnderWay(m)
        BY <1>8 DEF FileWritten, TypeOK, PeerTypes, Call, UnderWay
    <2>2. UNCHANGED memVars /\ handling' = handling \ {c} /\ Accept(m)
        BY <1>8 DEF FileWritten
    <2>3. \A p \in Peer : Bounded(p)'
        BY <2>2 DEF Bounded, memVars
    <2>4. \A x \in Msg : Seen(x)' <=> Seen(x)
        BY <2>2 DEF Seen, memVars
    <2>5. \A x \in Msg : UnderWay(x)' => UnderWay(x)
        BY <2>2 DEF UnderWay
    <2>6. handledCount \in [Msg -> 0 .. 2]
        BY DEF TypeOK, GhostTypes
    <2>7. ASSUME NEW x \in Msg, x # m
          PROVE  Once(x)'
        <3>1. handledCount'[x] = handledCount[x]
            BY <2>2, <2>6, <2>7 DEF Accept
        <3> QED
            BY <2>2, <2>4, <2>5, <3>1
            DEF Once, KnownOnce, OneFileRun, IsText, memVars
    <2>8. Once(m)'
        <3>1. SUFFICES ASSUME m \notin forgotten[Dst[m]]
                       PROVE  KnownOnce(m)' /\ OneFileRun(m)'
            BY <2>2 DEF Once, memVars
        <3>2. KnownOnce(m) /\ OneFileRun(m)
            BY <2>1, <3>1 DEF Once
        <3>3. handledCount'[m] = 1 /\ ~UnderWay(m)'
            BY <2>1, <2>2, <2>6, <3>2 DEF Accept, OneFileRun, UnderWay
        <3>4. Seen(m)'
            BY <2>1, <2>4, <3>2 DEF KnownOnce
        <3> QED
            BY <3>3, <3>4 DEF KnownOnce, OneFileRun
    <2> QED
        BY <2>3, <2>7, <2>8
<1>9. ASSUME NEW p \in Peer, NEW s \in Slot, SyncNext(p, s)
      PROVE  OInv'
    <2>1. ASSUME NEW m \in Msg, SyncNew(p, s, m)
          PROVE  OInv'
        <3>1. PICK c : c = DirectCall(m, 1)
            OBVIOUS
        <3>2. c.msg = m
            BY <3>1 DEF DirectCall
        <3>3. /\ Remember(m) /\ ~Seen(m) /\ UNCHANGED handling
              /\ handledCount' = [handledCount EXCEPT ![m] = IF @ = 0 THEN 1 ELSE 2]
            BY <2>1 DEF SyncNew, Accept
        <3> QED
            BY <3>2, <3>3, OnceRemember
    <2>2. ASSUME NEW m \in Msg, SyncThrows(p, s, m)
          PROVE  OInv'
        <3>1. UNCHANGED <<handling, handledCount>>
            BY <2>2 DEF SyncThrows, ghostVars
        <3>2. CASE UNCHANGED memVars
            BY <1>1, <3>1, <3>2
        <3>3. CASE Remember(m) /\ ~Seen(m)
            <4>1. PICK c : c = DirectCall(m, 1)
                OBVIOUS
            <4>2. c.msg = m
                BY <4>1 DEF DirectCall
            <4> QED
                BY <3>1, <3>3, <4>2, OnceRemember
        <3> QED
            BY <2>2, <3>2, <3>3 DEF SyncThrows
    <2>3. ASSUME NEW m \in Msg, SyncDuplicate(p, s, m) \/ SyncSaved(p, s, m)
          PROVE  OInv'
        BY <1>1, <2>3 DEF SyncDuplicate, SyncSaved, ghostVars
    <2>4. CASE SyncFetch(p, s)
        BY <1>1, <2>4 DEF SyncFetch, ghostVars
    <2>5. ASSUME NEW o \in HttpOutcome, SyncAck(p, s, o)
          PROVE  OInv'
        BY <1>1, <2>5 DEF SyncAck, ghostVars
    <2> QED
        BY <1>9, <2>1, <2>2, <2>3, <2>4, <2>5 DEF SyncNext
<1>10. ASSUME NEW p \in Peer, ToggleChurn(p)
       PROVE  OInv'
    BY <1>1, <1>10 DEF ToggleChurn, ghostVars
<1>11. ASSUME NEW p \in Peer, Restart(p)
       PROVE  OInv'
    <2>1. /\ seenMessageIds' = [seenMessageIds EXCEPT ![p] = << >>]
          /\ forgotten' = [forgotten EXCEPT ![p] = {}]
          /\ handling' = {c \in handling : Dst[c.msg] # p}
          /\ handledCount' = [m \in Msg |-> IF Dst[m] = p THEN 0
                                             ELSE handledCount[m]]
        BY <1>11 DEF Restart
    <2>2. seenMessageIds \in [Peer -> Seq(Msg)] /\ forgotten \in [Peer -> SUBSET Msg]
        BY DEF TypeOK, MemTypes
    <2>3. Distinct(<< >>) /\ Len(<< >>) <= SeenLimit
        BY DEF Distinct
    <2>4. Bounded(p)'
        <3>1. seenMessageIds'[p] = << >> /\ forgotten'[p] = {}
            BY <2>1, <2>2
        <3>2. Distinct(seenMessageIds[p])'
            BY <3>1 DEF Distinct
        <3> QED
            BY <2>3, <3>1, <3>2 DEF Bounded
    <2>5. ASSUME NEW q \in Peer, q # p
          PROVE  Bounded(q)'
        BY <2>1, <2>2, <2>5 DEF Bounded, Distinct
    <2>6. ASSUME NEW m \in Msg, Dst[m] = p
          PROVE  Once(m)'
        <3>1. handledCount'[m] = 0 /\ ~UnderWay(m)'
            BY <2>1, <2>6 DEF UnderWay
        <3> QED
            BY <3>1 DEF Once, KnownOnce, OneFileRun
    <2>7. ASSUME NEW m \in Msg, Dst[m] # p
          PROVE  Once(m)'
        <3>1. handledCount'[m] = handledCount[m] /\ (UnderWay(m)' => UnderWay(m))
            BY <2>1, <2>7 DEF UnderWay
        <3>2. /\ seenMessageIds'[Dst[m]] = seenMessageIds[Dst[m]]
              /\ forgotten'[Dst[m]] = forgotten[Dst[m]]
            BY <2>1, <2>2, <2>7
        <3> QED
            BY <2>1, <3>1, <3>2 DEF Once, KnownOnce, OneFileRun, IsText, Seen
    <2> QED
        BY <2>4, <2>5, <2>6, <2>7
<1>12. CASE Wipe
    BY <1>1, <1>12 DEF Wipe, peerVars, ghostVars
<1> QED
    BY <1>2, <1>3, <1>4, <1>5, <1>6, <1>7, <1>8, <1>9, <1>10, <1>11, <1>12
    DEF Next, TargetNext

LEMMA InitOnce == Init => OInv
<1> SUFFICES ASSUME Init
             PROVE  OInv
    OBVIOUS
<1>1. \A p \in Peer : seenMessageIds[p] = << >> /\ forgotten[p] = {}
    BY DEF Init
<1>2. \A p \in Peer : Bounded(p)
    BY <1>1 DEF Bounded, Distinct
<1>3. \A m \in Msg : handledCount[m] = 0 /\ ~UnderWay(m)
    BY DEF Init, UnderWay
<1>4. \A m \in Msg : Once(m)
    BY <1>3 DEF Once, KnownOnce, OneFileRun
<1> QED
    BY <1>2, <1>4, InitType DEF OInv

LEMMA OnceInvariance == Spec => []OInv
<1>1. OInv /\ [Next]_vars => OInv'
    BY NextOnce, NextType DEF OInv
<1> QED
    BY <1>1, InitOnce, PTL DEF Spec

\* Between two starts a peer takes a message once, on whichever of the direct,
\* relayed and queued paths its copies come and however their runs overlap,
\* unless its duplicate set has dropped the id.
THEOREM TakenOnce == Spec => []AtMostOnce
<1>1. OInv => AtMostOnce
    BY DEF OInv, AtMostOnce, Once, KnownOnce
<1> QED
    BY <1>1, OnceInvariance, PTL

\* The duplicate set never outgrows its limit, never holds an id twice, and
\* drops an id only when it is full.
THEOREM DuplicateSetIsBounded == Spec => []SeenIsBounded
<1>1. OInv => SeenIsBounded
    BY DistinctCardinality DEF OInv, SeenIsBounded, Bounded, TypeOK, MemTypes
<1> QED
    BY <1>1, OnceInvariance, PTL

\* The ids a peer can ever be asked to remember.
To(p) == {m \in Msg : Dst[m] = p}

HasRoom ==
    \A p \in Peer : forgotten[p] = {} /\ Ids(seenMessageIds[p]) \subseteq To(p)

LEMMA MemSteps ==
    ASSUME TypeOK, [Next]_vars
    PROVE  \/ UNCHANGED memVars
           \/ \E m \in Msg : Remember(m) /\ ~Seen(m)
           \/ \E p \in Peer : /\ seenMessageIds' = [seenMessageIds EXCEPT ![p] = <<>>]
                              /\ forgotten' = [forgotten EXCEPT ![p] = {}]
<1>1. CASE UNCHANGED vars
    BY <1>1 DEF vars, peerVars
<1>2. ASSUME NEW m \in Msg, SenderNext(m)
      PROVE  UNCHANGED memVars
    BY <1>2 DEF SenderNext, SendDirect, SendFile, SendViaRelay, AckArrives, DirectFails,
                TryRelayFails, ViaRelayFails, QueueOrFail, SaveAck, SaveSent, peerVars
<1>3. CASE RelayNext
    BY <1>3 DEF RelayNext, RelayRefuses, RelayForwards, InnerAckArrives, InnerRetries,
                InnerGivesUp, peerVars
<1>4. ASSUME NEW c \in frames, HandleNew(c)
      PROVE  \E m \in Msg : Remember(m) /\ ~Seen(m)
    <2>1. Remember(c.msg) /\ ~Seen(c.msg)
        BY <1>4 DEF HandleNew
    <2>2. c.msg \in Msg
        BY DEF TypeOK, NetTypes, Call
    <2> QED
        BY <2>1, <2>2
<1>5. CASE \/ \E c \in frames : HandleAway(c) \/ HandleDuplicate(c)
           \/ \E c \in handling : TextSaved(c) \/ FileWritten(c) \/ FileWriteFails(c)
    BY <1>5 DEF HandleAway, HandleDuplicate, TextSaved, FileWritten, FileWriteFails,
                peerVars
<1>6. ASSUME NEW p \in Peer, NEW s \in Slot, SyncNext(p, s)
      PROVE  UNCHANGED memVars \/ \E m \in Msg : Remember(m) /\ ~Seen(m)
    <2>1. ASSUME NEW m \in Msg, SyncNew(p, s, m)
          PROVE  Remember(m) /\ ~Seen(m)
        BY <2>1 DEF SyncNew
    <2>2. ASSUME NEW m \in Msg, SyncThrows(p, s, m)
          PROVE  UNCHANGED memVars \/ (Remember(m) /\ ~Seen(m))
        BY <2>2 DEF SyncThrows
    <2>3. CASE \/ SyncFetch(p, s) \/ \E o \in HttpOutcome : SyncAck(p, s, o)
               \/ \E m \in Msg : SyncDuplicate(p, s, m) \/ SyncSaved(p, s, m)
        BY <2>3 DEF SyncFetch, SyncAck, SyncDuplicate, SyncSaved
    <2> QED
        BY <1>6, <2>1, <2>2, <2>3 DEF SyncNext
<1>7. ASSUME NEW p \in Peer, Restart(p)
      PROVE  /\ seenMessageIds' = [seenMessageIds EXCEPT ![p] = <<>>]
             /\ forgotten' = [forgotten EXCEPT ![p] = {}]
    BY <1>7 DEF Restart
<1>8. ASSUME NEW p \in Peer, ToggleChurn(p)
      PROVE  UNCHANGED memVars
    BY <1>8 DEF ToggleChurn
<1>9. CASE Wipe
    BY <1>9 DEF Wipe, peerVars
<1> QED
    BY <1>1, <1>2, <1>3, <1>4, <1>5, <1>6, <1>7, <1>8, <1>9 DEF Next, TargetNext

LEMMA NextRoom ==
    ASSUME \A p \in Peer : IsFiniteSet(To(p)) /\ Cardinality(To(p)) <= SeenLimit,
           OInv, TypeOK', HasRoom, [Next]_vars
    PROVE  HasRoom'
<1>1. CASE UNCHANGED memVars
    BY <1>1 DEF HasRoom, memVars
<1>2. ASSUME NEW p \in Peer, seenMessageIds' = [seenMessageIds EXCEPT ![p] = <<>>],
             forgotten' = [forgotten EXCEPT ![p] = {}]
      PROVE  HasRoom'
    <2>1. Ids(<<>>) = {}
        BY DEF Ids
    <2> QED
        BY <1>2, <2>1 DEF HasRoom, OInv, TypeOK, MemTypes
<1>3. ASSUME NEW m \in Msg, Remember(m), ~Seen(m)
      PROVE  HasRoom'
    <2> DEFINE p == Dst[m]
               old == seenMessageIds[p]
    <2>1. /\ p \in Peer /\ old \in Seq(Msg) /\ Distinct(old) /\ m \notin Ids(old)
          /\ Ids(old) \subseteq To(p) /\ m \in To(p)
          /\ IsFiniteSet(Ids(old)) /\ Cardinality(Ids(old)) = Len(old)
        <3>1. p \in Peer /\ old \in Seq(Msg) /\ Distinct(old) /\ m \notin Ids(old)
            BY <1>3 DEF OInv, TypeOK, MemTypes, Bounded, Seen
        <3> QED
            BY <3>1, DistinctCardinality DEF HasRoom, To
    <2>2. Len(old) < SeenLimit
        <3> DEFINE S == Ids(old) \cup {m}
        <3>1. S \subseteq To(p)
            BY <2>1
        <3>2. Cardinality(S) = Len(old) + 1
            BY <2>1, FS_AddElement
        <3> HIDE DEF S
        <3>3. Cardinality(S) <= Cardinality(To(p)) /\ Cardinality(To(p)) <= SeenLimit
            BY <2>1, <3>1, FS_Subset
        <3>4. Len(old) \in Nat /\ Cardinality(To(p)) \in Nat
            BY <2>1, FS_CardinalityType
        <3> QED
            BY <3>2, <3>3, <3>4
    <2>3. /\ seenMessageIds' = [seenMessageIds EXCEPT ![p] = Append(old, m)]
          /\ UNCHANGED forgotten
        <3>1. Len(Append(old, m)) = Len(old) + 1 /\ Len(old) \in Nat
            BY <2>1
        <3>2. ~(Len(Append(old, m)) > SeenLimit)
            BY <2>2, <3>1
        <3> QED
            BY <1>3, <3>2 DEF Remember
    <2>4. Ids(Append(old, m)) \subseteq Ids(old) \cup {m}
        BY <2>1 DEF Ids
    <2> QED
        BY <2>1, <2>3, <2>4 DEF HasRoom, OInv, TypeOK, MemTypes
<1> QED
    BY <1>1, <1>2, <1>3, MemSteps DEF OInv

\* A peer that is sent no more messages than its duplicate set can hold takes
\* each of them once between two starts, whatever becomes of their copies: the
\* limit of the set is the only gap.
THEOREM TakenOnceWithinTheLimit ==
    ASSUME \A p \in Peer : IsFiniteSet(To(p)) /\ Cardinality(To(p)) <= SeenLimit
    PROVE  Spec => [](\A m \in Msg : handledCount[m] <= 1)
<1>1. Init => HasRoom
    BY DEF Init, HasRoom, Ids
<1>2. OInv /\ OInv' /\ HasRoom /\ [Next]_vars => HasRoom'
    BY NextRoom DEF OInv
<1>3. OInv /\ HasRoom => \A m \in Msg : handledCount[m] <= 1
    BY DEF OInv, HasRoom, Once, KnownOnce
<1> QED
    BY <1>1, <1>2, <1>3, OnceInvariance, PTL DEF Spec

-----------------------------------------------------------------------------
(* The counters *)

Flying == {"tcp", "tryRelay", "viaRelay", "queue"}

Balanced(p) ==
    /\ IsFiniteSet(InFlight(p))
    /\ stats[p].sent =
          stats[p].delivered + stats[p].failed + Cardinality(InFlight(p))
    /\ stats[p].queuedOffline <= stats[p].failed

AllBalanced == \A p \in Peer : Balanced(p)

CInv == TypeOK /\ AllBalanced

\* The counters and the messages in flight of the peer of m change; the other
\* peers keep theirs.
LEMMA OthersKeep ==
    ASSUME CInv, NEW m \in Msg, NEW t \in Stage, NEW rec,
           stage' = [stage EXCEPT ![m] = t],
           stats' = [stats EXCEPT ![Src[m]] = rec]
    PROVE  /\ \A q \in Peer \ {Src[m]} : Balanced(q)'
           /\ stats'[Src[m]] = rec
           /\ InFlight(Src[m])' = IF t \in Flying THEN InFlight(Src[m]) \cup {m}
                                  ELSE InFlight(Src[m]) \ {m}
<1>1. stage \in [Msg -> Stage] /\ stats \in [Peer -> Stats] /\ Src[m] \in Peer
    BY DEF CInv, TypeOK, SenderTypes
<1>2. ASSUME NEW q \in Peer \ {Src[m]}
      PROVE  Balanced(q)'
    <2>1. InFlight(q)' = InFlight(q)
        BY <1>1, <1>2 DEF InFlight
    <2>2. stats'[q] = stats[q]
        BY <1>1, <1>2
    <2> QED
        BY <2>1, <2>2 DEF CInv, AllBalanced, Balanced
<1>3. InFlight(Src[m])' = IF t \in Flying THEN InFlight(Src[m]) \cup {m}
                          ELSE InFlight(Src[m]) \ {m}
    BY <1>1 DEF InFlight, Flying
<1> QED
    BY <1>1, <1>2, <1>3

LEMMA CountersOf ==
    ASSUME CInv, NEW p \in Peer
    PROVE  /\ stats \in [Peer -> Stats] /\ stats[p] \in Stats
           /\ stats[p].sent \in Nat /\ stats[p].delivered \in Nat
           /\ stats[p].failed \in Nat /\ stats[p].queuedOffline \in Nat
           /\ IsFiniteSet(InFlight(p)) /\ Cardinality(InFlight(p)) \in Nat
<1>1. stats \in [Peer -> Stats] /\ IsFiniteSet(InFlight(p))
    BY DEF CInv, AllBalanced, TypeOK, SenderTypes, Balanced
<1>2. Cardinality(InFlight(p)) \in Nat
    BY <1>1, FS_CardinalityType
<1>3. stats[p] \in Stats
    BY <1>1
<1> QED
    BY <1>1, <1>2, <1>3 DEF Stats

\* A message that was not in flight is, and is counted as sent.
LEMMA Departs ==
    ASSUME CInv, NEW m \in Msg, NEW t \in Flying, stage[m] = "idle",
           stage' = [stage EXCEPT ![m] = t], stats' = Bump(Src[m], "sent")
    PROVE  AllBalanced'
<1> DEFINE p == Src[m]
           rec == [stats[p] EXCEPT !.sent = @ + 1]
<1>1. p \in Peer /\ t \in Stage
    BY DEF Flying, Stage
<1>2. stats' = [stats EXCEPT ![p] = rec]
    BY DEF Bump
<1>3. /\ rec.sent = stats[p].sent + 1 /\ rec.delivered = stats[p].delivered
      /\ rec.failed = stats[p].failed /\ rec.queuedOffline = stats[p].queuedOffline
    BY <1>1, CountersOf DEF Stats
<1>4. m \notin InFlight(p)
    BY DEF InFlight
<1> HIDE DEF rec
<1>5. /\ \A q \in Peer \ {p} : Balanced(q)'
      /\ stats'[p] = rec /\ InFlight(p)' = InFlight(p) \cup {m}
    BY <1>1, <1>2, OthersKeep
<1>6. IsFiniteSet(InFlight(p))' /\ Cardinality(InFlight(p))' = Cardinality(InFlight(p)) + 1
    <2>1. IsFiniteSet(InFlight(p))
        BY <1>1, CountersOf
    <2>2. /\ IsFiniteSet(InFlight(p) \cup {m})
          /\ Cardinality(InFlight(p) \cup {m}) = Cardinality(InFlight(p)) + 1
        BY <1>4, <2>1, FS_AddElement
    <2> QED
        BY <1>5, <2>2
<1>7. Balanced(p)
    BY <1>1 DEF CInv, AllBalanced
<1>8. Balanced(p)'
    <2>1. /\ stats[p].sent \in Nat /\ stats[p].delivered \in Nat
          /\ stats[p].failed \in Nat /\ Cardinality(InFlight(p)) \in Nat
        BY <1>1, CountersOf
    <2>2. /\ stats[p].sent = stats[p].delivered + stats[p].failed + Cardinality(InFlight(p))
          /\ stats[p].queuedOffline <= stats[p].failed
        BY <1>7 DEF Balanced
    <2>3. rec.sent = rec.delivered + rec.failed + (Cardinality(InFlight(p)) + 1)
        BY <1>3, <2>1, <2>2
    <2>4. /\ stats'[p].sent =
                stats'[p].delivered + stats'[p].failed + Cardinality(InFlight(p))'
          /\ stats'[p].queuedOffline <= stats'[p].failed
        BY <1>3, <1>5, <1>6, <2>2, <2>3
    <2> QED
        BY <1>6, <2>4 DEF Balanced
<1> QED
    BY <1>5, <1>8 DEF AllBalanced

\* A message in flight comes to its end and is counted once, as delivered or as
\* failed, the latter perhaps also as queued.
LEMMA Lands ==
    ASSUME CInv, NEW m \in Msg, stage[m] \in Flying,
           stage' = [stage EXCEPT ![m] = "saveAck"],
           NEW rec, stats' = [stats EXCEPT ![Src[m]] = rec],
           rec.sent = stats[Src[m]].sent,
           \/ /\ rec.delivered = stats[Src[m]].delivered + 1
              /\ rec.failed = stats[Src[m]].failed
              /\ rec.queuedOffline = stats[Src[m]].queuedOffline
           \/ /\ rec.delivered = stats[Src[m]].delivered
              /\ rec.failed = stats[Src[m]].failed + 1
              /\ rec.queuedOffline \in {stats[Src[m]].queuedOffline,
                                        stats[Src[m]].queuedOffline + 1}
    PROVE  AllBalanced'
<1> DEFINE p == Src[m]
<1>1. p \in Peer /\ "saveAck" \in Stage /\ "saveAck" \notin Flying
    BY DEF Flying, Stage
<1>2. m \in InFlight(p)
    BY DEF InFlight, Flying
<1>3. /\ \A q \in Peer \ {p} : Balanced(q)'
      /\ stats'[p] = rec /\ InFlight(p)' = InFlight(p) \ {m}
    BY <1>1, OthersKeep
<1>4. IsFiniteSet(InFlight(p))' /\ Cardinality(InFlight(p))' = Cardinality(InFlight(p)) - 1
    <2>1. IsFiniteSet(InFlight(p))
        BY <1>1, CountersOf
    <2>2. /\ IsFiniteSet(InFlight(p) \ {m})
          /\ Cardinality(InFlight(p) \ {m}) = Cardinality(InFlight(p)) - 1
        BY <1>2, <2>1, FS_RemoveElement
    <2> QED
        BY <1>3, <2>2
<1>5. Balanced(p)
    BY <1>1 DEF CInv, AllBalanced
<1>6. Balanced(p)'
    <2>1. /\ stats[p].sent \in Nat /\ stats[p].delivered \in Nat
          /\ stats[p].failed \in Nat /\ stats[p].queuedOffline \in Nat
          /\ Cardinality(InFlight(p)) \in Nat
        BY <1>1, CountersOf
    <2>2. /\ stats[p].sent =
                stats[p].delivered + stats[p].failed + Cardinality(InFlight(p))
          /\ stats[p].queuedOffline <= stats[p].failed
        BY <1>5 DEF Balanced
    <2>3. rec.sent = rec.delivered + rec.failed + Cardinality(InFlight(p))'
        BY <1>4, <2>1, <2>2
    <2>4. rec.queuedOffline <= rec.failed
        BY <2>1, <2>2
    <2> QED
        BY <1>3, <1>4, <2>3, <2>4 DEF Balanced
<1> QED
    BY <1>3, <1>6 DEF AllBalanced

\* Nothing lands and nothing departs.
LEMMA Holds ==
    ASSUME CInv, UNCHANGED stats,
           \A m \in Msg : stage'[m] \in Flying <=> stage[m] \in Flying
    PROVE  AllBalanced'
<1>1. \A q \in Peer : InFlight(q)' = InFlight(q)
    BY DEF InFlight, Flying
<1> QED
    BY <1>1 DEF CInv, AllBalanced, Balanced

LEMMA SenderBalance ==
    ASSUME CInv, NEW m \in Msg, SenderNext(m)
    PROVE  AllBalanced'
<1> DEFINE p == Src[m]
<1>1. stage \in [Msg -> Stage] /\ p \in Peer
    BY DEF CInv, TypeOK, SenderTypes
<1>2. /\ stats[p] \in Stats
      /\ [stats[p] EXCEPT !.delivered = @ + 1].delivered = stats[p].delivered + 1
    BY <1>1, CountersOf DEF Stats
<1>3. CASE SendDirect(m) \/ SendFile(m)
    <2>1. /\ stage[m] = "idle" /\ stats' = Bump(p, "sent")
          /\ \/ stage' = [stage EXCEPT ![m] = "tcp"]
             \/ stage' = [stage EXCEPT ![m] = "queue"]
        BY <1>3 DEF SendDirect, SendFile, MaySend, FirstAttempt, Track
    <2> QED
        BY <2>1, Departs DEF Flying
<1>4. ASSUME NEW r \in Peer, SendViaRelay(m, r)
      PROVE  AllBalanced'
    <2>1. /\ stage[m] = "idle" /\ stats' = Bump(p, "sent")
          /\ stage' = [stage EXCEPT ![m] = "viaRelay"]
        BY <1>4 DEF SendViaRelay, MaySend, Track
    <2> QED
        BY <2>1, Departs DEF Flying
<1>5. CASE AckArrives(m)
    <2> DEFINE rec == [stats[p] EXCEPT !.delivered = @ + 1]
    <2>1. /\ stage[m] \in Flying /\ stage' = [stage EXCEPT ![m] = "saveAck"]
          /\ stats' = [stats EXCEPT ![p] = rec]
        BY <1>5 DEF AckArrives, Bump, Flying
    <2>2. /\ rec.sent = stats[p].sent /\ rec.delivered = stats[p].delivered + 1
          /\ rec.failed = stats[p].failed
          /\ rec.queuedOffline = stats[p].queuedOffline
        BY <1>2 DEF Stats
    <2> HIDE DEF rec
    <2> QED
        BY <2>1, <2>2, Lands
<1>6. ASSUME NEW left, NextRelay(m, left), stage[m] \in Flying, UNCHANGED stats
      PROVE  AllBalanced'
    <2>1. \A x \in Msg : stage'[x] \in Flying <=> stage[x] \in Flying
        BY <1>1, <1>6 DEF NextRelay, Flying
    <2> QED
        BY <1>6, <2>1, Holds
<1>7. CASE DirectFails(m)
    <2>1. stage[m] \in Flying /\ UNCHANGED stats
        BY <1>7 DEF DirectFails, Flying
    <2>2. UNCHANGED stage \/ \E left : NextRelay(m, left)
        BY <1>7 DEF DirectFails
    <2> QED
        BY <1>6, <2>1, <2>2, Holds
<1>8. CASE TryRelayFails(m)
    BY <1>6, <1>8 DEF TryRelayFails, Flying
<1>9. CASE ViaRelayFails(m)
    <2>1. CASE MayRetry(m)
        BY <1>9, <2>1, Holds DEF ViaRelayFails
    <2>2. CASE ~MayRetry(m)
        <3> DEFINE rec == [stats[p] EXCEPT !.failed = @ + 1]
        <3>1. /\ stage[m] \in Flying /\ stage' = [stage EXCEPT ![m] = "saveAck"]
              /\ stats' = [stats EXCEPT ![p] = rec]
            BY <1>9, <2>2 DEF ViaRelayFails, Bump, Flying
        <3>2. /\ rec.sent = stats[p].sent /\ rec.delivered = stats[p].delivered
              /\ rec.failed = stats[p].failed + 1
              /\ rec.queuedOffline = stats[p].queuedOffline
            BY <1>2 DEF Stats
        <3> HIDE DEF rec
        <3> QED
            BY <3>1, <3>2, Lands
    <2> QED
        BY <2>1, <2>2
<1>10. CASE QueueOrFail(m)
    <2>1. stage[m] \in Flying /\ stage' = [stage EXCEPT ![m] = "saveAck"]
        BY <1>10 DEF QueueOrFail, Flying
    <2>2. PICK q \in BOOLEAN : stats' = CountFailure(m, q)
        BY <1>10 DEF QueueOrFail
    <2> DEFINE rec == [stats[p] EXCEPT !.failed = @ + 1,
                          !.queuedOffline = IF q THEN @ + 1 ELSE @]
    <2>3. stats' = [stats EXCEPT ![p] = rec]
        BY <1>1, <2>2, CountersOf DEF CountFailure, Stats
    <2>4. /\ rec.sent = stats[p].sent /\ rec.delivered = stats[p].delivered
          /\ rec.failed = stats[p].failed + 1
          /\ rec.queuedOffline \in {stats[p].queuedOffline,
                                    stats[p].queuedOffline + 1}
        BY <1>2 DEF Stats
    <2> HIDE DEF rec
    <2> QED
        BY <2>1, <2>3, <2>4, Lands
<1>11. CASE SaveAck(m) \/ SaveSent(m)
    <2>1. /\ UNCHANGED stats
          /\ \A x \in Msg : stage'[x] \in Flying <=> stage[x] \in Flying
        BY <1>1, <1>11 DEF SaveAck, SaveSent, Flying
    <2> QED
        BY <2>1, Holds
<1> QED
    BY <1>3, <1>4, <1>5, <1>7, <1>8, <1>9, <1>10, <1>11 DEF SenderNext

LEMMA NextBalance == CInv /\ TypeOK' /\ [Next]_vars => CInv'
<1> SUFFICES ASSUME CInv, TypeOK', [Next]_vars
             PROVE  AllBalanced'
    BY DEF CInv
<1>1. CASE UNCHANGED <<stage, stats>>
    BY <1>1, Holds
<1>2. CASE UNCHANGED vars
    BY <1>1, <1>2 DEF vars, senderVars
<1>3. ASSUME NEW m \in Msg, SenderNext(m)
      PROVE  AllBalanced'
    BY <1>3, SenderBalance
<1>4. CASE RelayNext
    BY <1>1, <1>4 DEF RelayNext, RelayRefuses, RelayForwards, InnerAckArrives,
                      InnerRetries, InnerGivesUp, senderVars
<1>5. CASE TargetNext
    BY <1>1, <1>5 DEF TargetNext, HandleAway, HandleDuplicate, HandleNew,
                      TextSaved, FileWritten, FileWriteFails, senderVars
<1>6. ASSUME NEW p \in Peer, NEW s \in Slot, SyncNext(p, s)
      PROVE  AllBalanced'
    BY <1>1, <1>6 DEF SyncNext, SyncFetch, SyncDuplicate, SyncNew, SyncThrows,
                      SyncSaved, SyncAck, senderVars
<1>7. ASSUME NEW p \in Peer, ToggleChurn(p)
      PROVE  AllBalanced'
    BY <1>1, <1>7 DEF ToggleChurn, senderVars
<1>8. ASSUME NEW p \in Peer, Restart(p)
      PROVE  AllBalanced'
    <2>1. /\ stage' = [m \in Msg |->
                 IF Src[m] = p /\ stage[m] \notin {"idle", "done"}
                 THEN "crashed" ELSE stage[m]]
          /\ stats' = [stats EXCEPT ![p] = NoStats]
        BY <1>8 DEF Restart
    <2>2. stats \in [Peer -> Stats]
        BY DEF CInv, TypeOK, SenderTypes
    <2>3. Balanced(p)'
        <3>1. InFlight(p)' = {}
            BY <2>1 DEF InFlight
        <3>2. stats'[p] = NoStats
            BY <2>1, <2>2
        <3> QED
            BY <3>1, <3>2, FS_EmptySet DEF Balanced, NoStats
    <2>4. ASSUME NEW q \in Peer, q # p
          PROVE  Balanced(q)'
        <3>1. InFlight(q)' = InFlight(q)
            BY <2>1, <2>4 DEF InFlight
        <3>2. stats'[q] = stats[q]
            BY <2>1, <2>2, <2>4
        <3> QED
            BY <3>1, <3>2 DEF CInv, AllBalanced, Balanced
    <2> QED
        BY <2>3, <2>4 DEF AllBalanced
<1>9. CASE Wipe
    BY <1>1, <1>9 DEF Wipe, senderVars
<1> QED
    BY <1>2, <1>3, <1>4, <1>5, <1>6, <1>7, <1>8, <1>9 DEF Next

LEMMA InitBalance == Init => CInv
<1> SUFFICES ASSUME Init
             PROVE  CInv
    OBVIOUS
<1>1. \A p \in Peer : InFlight(p) = {}
    BY DEF Init, InFlight
<1>2. \A p \in Peer : stats[p] = NoStats
    BY DEF Init
<1>3. \A p \in Peer : Balanced(p)
    BY <1>1, <1>2, FS_EmptySet DEF Balanced, NoStats
<1> QED
    BY <1>3, InitType DEF CInv, AllBalanced

\* The counters of a peer balance: each message it sent since it started is
\* delivered, failed or in flight, never two of them, and only failed messages
\* count as queued.
THEOREM CountersBalance == Spec => []StatsBalance
<1>1. CInv => StatsBalance
    BY DEF CInv, AllBalanced, Balanced, StatsBalance
<1>2. CInv /\ [Next]_vars => CInv'
    BY NextBalance, NextType DEF CInv
<1> QED
    BY <1>1, <1>2, InitBalance, PTL DEF Spec
=============================================================================
