--------------------------- MODULE HistoryProofs ---------------------------
(***************************************************************************)
(* The list of messages a peer shows, for any number of messages, any       *)
(* limit and any number of restarts.                                        *)
(***************************************************************************)
EXTENDS History, FiniteSetTheorems, FunctionTheorems, SequenceTheorems, TLAPS

USE HistoryConstants DEF HistoryConstants

-----------------------------------------------------------------------------
(* Lists *)

Distinct(s) == \A i, j \in 1 .. Len(s) : s[i].id = s[j].id => i = j

\* upsertLocalMessage before its slice.
Put(s, e) == IF e.id \in Listed(s)
             THEN [i \in 1 .. Len(s) |-> IF s[i].id = e.id THEN e ELSE s[i]]
             ELSE Append(s, e)

LEMMA PutFacts ==
    ASSUME NEW s \in Seq(Entry), NEW e \in Entry
    PROVE  /\ Put(s, e) \in Seq(Entry)
           /\ Len(Put(s, e)) >= Len(s)
           /\ \A i \in 1 .. Len(Put(s, e)) :
                 \/ Put(s, e)[i] = e
                 \/ i \in 1 .. Len(s) /\ Put(s, e)[i] = s[i] /\ s[i].id # e.id
           /\ \A i \in 1 .. Len(s) : Put(s, e)[i].id = s[i].id
<1>1. \A i \in 1 .. Len(s) : s[i] \in Entry
    OBVIOUS
<1>2. CASE e.id \in Listed(s)
    <2> DEFINE p == [i \in 1 .. Len(s) |-> IF s[i].id = e.id THEN e ELSE s[i]]
    <2>1. p \in Seq(Entry) /\ Len(p) = Len(s)
        BY <1>1, IsASeq, LenProperties
    <2>2. Put(s, e) = p
        BY <1>2 DEF Put
    <2> QED
        BY <1>2, <2>1, <2>2 DEF Listed
<1>3. CASE e.id \notin Listed(s)
    <2>1. Put(s, e) = Append(s, e)
        BY <1>3 DEF Put
    <2>2. \A i \in 1 .. Len(s) : s[i].id # e.id
        BY <1>3 DEF Listed
    <2> QED
        BY <2>1, <2>2, AppendProperties
<1> QED
    BY <1>2, <1>3

LEMMA PutListed ==
    ASSUME NEW s \in Seq(Entry), NEW e \in Entry
    PROVE  \E i \in 1 .. Len(Put(s, e)) : Put(s, e)[i].id = e.id
<1>1. CASE e.id \in Listed(s)
    <2>1. PICK j \in 1 .. Len(s) : s[j].id = e.id
        BY <1>1 DEF Listed
    <2>2. Put(s, e)[j] = e
        BY <1>1, <2>1 DEF Put
    <2>3. Len(Put(s, e)) \in Nat /\ Len(s) \in Nat /\ Len(Put(s, e)) >= Len(s)
        <3>1. Put(s, e) \in Seq(Entry) /\ Len(Put(s, e)) >= Len(s)
            BY PutFacts
        <3> QED
            BY <3>1, LenProperties
    <2>4. j \in 1 .. Len(Put(s, e))
        BY <2>3
    <2> QED
        BY <2>2, <2>4
<1>2. CASE e.id \notin Listed(s)
    <2>1. Put(s, e) = Append(s, e)
        BY <1>2 DEF Put
    <2>2. Len(Append(s, e)) = Len(s) + 1 /\ Append(s, e)[Len(s) + 1] = e
        BY AppendProperties
    <2>3. Len(s) \in Nat
        BY LenProperties
    <2>4. Len(s) + 1 \in 1 .. Len(Put(s, e))
        BY <2>1, <2>2, <2>3
    <2>5. Put(s, e)[Len(s) + 1].id = e.id
        BY <2>1, <2>2
    <2> QED
        BY <2>4, <2>5
<1> QED
    BY <1>1, <1>2

LEMMA PutDistinct ==
    ASSUME NEW s \in Seq(Entry), NEW e \in Entry, Distinct(s)
    PROVE  Distinct(Put(s, e))
<1>1. CASE e.id \in Listed(s)
    <2>1. Len(Put(s, e)) = Len(s)
        <3> DEFINE p == [i \in 1 .. Len(s) |-> IF s[i].id = e.id THEN e ELSE s[i]]
        <3>1. Len(p) = Len(s)
            BY IsASeq, LenProperties
        <3> QED
            BY <1>1, <3>1 DEF Put
    <2>2. \A i \in 1 .. Len(s) : Put(s, e)[i].id = s[i].id
        BY PutFacts
    <2> QED
        BY <2>1, <2>2 DEF Distinct
<1>2. CASE e.id \notin Listed(s)
    <2>1. Put(s, e) = Append(s, e)
        BY <1>2 DEF Put
    <2>2. /\ Len(Append(s, e)) = Len(s) + 1
          /\ \A i \in 1 .. Len(s) : Append(s, e)[i] = s[i]
          /\ Append(s, e)[Len(s) + 1] = e
        BY AppendProperties
    <2>3. \A i \in 1 .. Len(s) : s[i].id # e.id
        BY <1>2 DEF Listed
    <2>4. \A i \in 1 .. Len(s) + 1 : i \in 1 .. Len(s) \/ i = Len(s) + 1
        OBVIOUS
    <2> QED
        BY <2>1, <2>2, <2>3, <2>4 DEF Distinct
<1> QED
    BY <1>1, <1>2

LEMMA LatestFacts ==
    ASSUME NEW s \in Seq(Entry)
    PROVE  /\ Latest(s) \in Seq(Entry)
           /\ Len(s) >= Limit => Len(Latest(s)) = Limit
           /\ Len(s) < Limit => Latest(s) = s
           /\ \E d \in Nat : /\ d + Len(Latest(s)) = Len(s)
                             /\ \A i \in 1 .. Len(Latest(s)) :
                                    Latest(s)[i] = s[i + d]
<1>1. CASE Len(s) > Limit
    <2> DEFINE a == Len(s) - Limit + 1
    <2>1. a \in Int /\ a \in 1 .. Len(s) /\ Len(s) \in Nat
        BY <1>1
    <2>2. \A i \in a .. Len(s) : s[i] \in Entry
        BY <2>1
    <2>3. /\ SubSeq(s, a, Len(s)) \in Seq(Entry)
          /\ Len(SubSeq(s, a, Len(s))) = Len(s) - a + 1
          /\ \A i \in 1 .. Len(s) - a + 1 : SubSeq(s, a, Len(s))[i] = s[a + i - 1]
        BY <2>1, <2>2, SubSeqProperties
    <2>4. Latest(s) = SubSeq(s, a, Len(s))
        BY <1>1 DEF Latest
    <2> DEFINE d == Len(s) - Limit
    <2>5. d \in Nat /\ Len(s) - a + 1 = Limit
        BY <1>1
    <2>6. d + Len(Latest(s)) = Len(s)
        BY <2>3, <2>4, <2>5, <2>1
    <2>7. ASSUME NEW i \in 1 .. Len(Latest(s))
          PROVE  Latest(s)[i] = s[i + d]
        <3>1. a + i - 1 = i + d
            BY <2>1
        <3> QED
            BY <2>3, <2>4, <2>5, <3>1
    <2>8. \E k \in Nat : /\ k + Len(Latest(s)) = Len(s)
                         /\ \A i \in 1 .. Len(Latest(s)) : Latest(s)[i] = s[i + k]
        <3> HIDE DEF d
        <3> QED
            BY <2>5, <2>6, <2>7
    <2>9. Latest(s) \in Seq(Entry) /\ Len(Latest(s)) = Limit
        BY <2>3, <2>4, <2>5
    <2>10. ~(Len(s) < Limit)
        BY <1>1
    <2> QED
        BY <2>8, <2>9, <2>10
<1>2. CASE Len(s) <= Limit
    <2>1. Latest(s) = s
        BY <1>2 DEF Latest
    <2>2. 0 + Len(Latest(s)) = Len(s) /\ \A i \in 1 .. Len(Latest(s)) : Latest(s)[i] = s[i + 0]
        BY <2>1
    <2>3. Len(s) >= Limit => Len(s) = Limit
        BY <1>2
    <2> QED
        BY <2>1, <2>2, <2>3
<1> QED
    BY <1>1, <1>2

LEMMA LatestDistinct ==
    ASSUME NEW s \in Seq(Entry), Distinct(s)
    PROVE  Distinct(Latest(s))
<1>1. PICK d \in Nat : /\ d + Len(Latest(s)) = Len(s)
                       /\ \A i \in 1 .. Len(Latest(s)) : Latest(s)[i] = s[i + d]
    BY LatestFacts
<1>2. Len(Latest(s)) \in Nat
    BY LatestFacts
<1>3. ASSUME NEW i \in 1 .. Len(Latest(s)), NEW j \in 1 .. Len(Latest(s)),
             Latest(s)[i].id = Latest(s)[j].id
      PROVE  i = j
    <2>1. i + d \in 1 .. Len(s) /\ j + d \in 1 .. Len(s)
        BY <1>1, <1>2
    <2>2. i + d = j + d
        BY <1>1, <1>3, <2>1 DEF Distinct
    <2> QED
        BY <2>2
<1> QED
    BY <1>3 DEF Distinct

\* What upsertLocalMessage does to a list: it puts the entry in, keeps one entry
\* for each id, and lets go of others only when the list is full.
LEMMA UpsertFacts ==
    ASSUME NEW s \in Seq(Entry), NEW e \in Entry
    PROVE  /\ Upsert(s, e) \in Seq(Entry)
           /\ Distinct(s) => Distinct(Upsert(s, e))
           /\ Len(s) >= Limit => Len(Upsert(s, e)) >= Limit
           /\ \A m \in Listed(s) \cup {e.id} :
                 m \in Listed(Upsert(s, e)) \/ Len(Upsert(s, e)) >= Limit
           /\ \A i \in 1 .. Len(Upsert(s, e)) :
                 \/ Upsert(s, e)[i] = e
                 \/ \E j \in 1 .. Len(s) : /\ Upsert(s, e)[i] = s[j]
                                           /\ s[j].id # e.id
<1> DEFINE p == Put(s, e)
<1>1. Upsert(s, e) = Latest(p)
    BY DEF Upsert, Put
<1>2. p \in Seq(Entry) /\ Len(p) \in Nat /\ Len(p) >= Len(s) /\ Len(s) \in Nat
    <2>1. Put(s, e) \in Seq(Entry) /\ Len(Put(s, e)) >= Len(s)
        BY PutFacts
    <2> HIDE DEF p
    <2>2. p \in Seq(Entry) /\ Len(p) >= Len(s)
        BY <2>1 DEF p
    <2> QED
        BY <2>2
<1>3. Distinct(s) => Distinct(Upsert(s, e))
    <2>1. Distinct(s) => Distinct(p)
        BY PutDistinct
    <2> HIDE DEF p
    <2>2. Distinct(p) => Distinct(Latest(p))
        BY <1>2, LatestDistinct
    <2> QED
        BY <1>1, <2>1, <2>2
<1>4. Len(s) >= Limit => Len(Upsert(s, e)) >= Limit
    <2>1. Len(s) >= Limit => Len(p) >= Limit
        BY <1>2
    <2>2. Len(p) >= Limit => Len(Latest(p)) = Limit
        BY <1>2, LatestFacts
    <2> QED
        BY <1>1, <2>1, <2>2
<1>5. ASSUME NEW m \in Listed(s) \cup {e.id}
      PROVE  m \in Listed(Upsert(s, e)) \/ Len(Upsert(s, e)) >= Limit
    <2>1. m \in Listed(p)
        <3>3. \A i \in 1 .. Len(s) : p[i].id = s[i].id
            BY PutFacts
        <3>4. \A i \in 1 .. Len(s) : i \in 1 .. Len(p)
            <4> HIDE DEF p
            <4> QED
                BY <1>2
        <3>1. \A i \in 1 .. Len(s) : i \in 1 .. Len(p) /\ p[i].id = s[i].id
            BY <3>3, <3>4
        <3>2. \E i \in 1 .. Len(p) : p[i].id = e.id
            BY PutListed
        <3> HIDE DEF p
        <3> QED
            BY <3>1, <3>2 DEF Listed
    <2>2. Len(p) >= Limit => Len(Latest(p)) = Limit
        BY <1>2, LatestFacts
    <2>3. Len(p) < Limit => Latest(p) = p
        BY <1>2, LatestFacts
    <2> HIDE DEF p
    <2> QED
        BY <1>1, <1>2, <2>1, <2>2, <2>3
<1>6. ASSUME NEW i \in 1 .. Len(Upsert(s, e))
      PROVE  \/ Upsert(s, e)[i] = e
             \/ \E j \in 1 .. Len(s) : Upsert(s, e)[i] = s[j] /\ s[j].id # e.id
    <2>1. PICK d \in Nat : /\ d + Len(Latest(p)) = Len(p)
                           /\ \A k \in 1 .. Len(Latest(p)) : Latest(p)[k] = p[k + d]
        BY <1>2, LatestFacts
    <2>2. Len(Latest(p)) \in Nat
        BY <1>2, LatestFacts
    <2>3. i + d \in 1 .. Len(p)
        BY <1>1, <1>2, <2>1, <2>2
    <2>4. Upsert(s, e)[i] = p[i + d]
        BY <1>1, <2>1
    <2> QED
        BY <2>3, <2>4, PutFacts
<1>7. Upsert(s, e) \in Seq(Entry)
    BY <1>1, <1>2, LatestFacts
<1> QED
    BY <1>3, <1>4, <1>5, <1>6, <1>7

LEMMA SnapshotFacts ==
    ASSUME NEW s \in Seq(Entry)
    PROVE  /\ Snapshot(s) \in [Msg -> Row]
           /\ Distinct(s) =>
                 \A i \in 1 .. Len(s) : Snapshot(s)[s[i].id] = s[i].status
<1> DEFINE E == {s[i] : i \in 1 .. Len(s)}
<1>1. \A i \in 1 .. Len(s) : s[i] \in Entry /\ s[i].id \in Msg /\ s[i].status \in Status
    <2>1. \A i \in 1 .. Len(s) : s[i] \in Entry
        BY ElementOfSeq
    <2> QED
        BY <2>1 DEF Entry
<1>2. ASSUME NEW m \in Msg, m \in Listed(s)
      PROVE  (CHOOSE e \in E : e.id = m) \in E /\ (CHOOSE e \in E : e.id = m).id = m
    BY <1>2 DEF Listed
<1>3. ASSUME NEW m \in Msg
      PROVE  Snapshot(s)[m] \in Row
    <2>1. CASE m \in Listed(s)
        BY <1>1, <1>2, <2>1 DEF Snapshot, Row
    <2>2. CASE m \notin Listed(s)
        BY <2>2 DEF Snapshot, Row
    <2> QED
        BY <2>1, <2>2
<1>4. ASSUME Distinct(s), NEW i \in 1 .. Len(s)
      PROVE  Snapshot(s)[s[i].id] = s[i].status
    <2>1. s[i].id \in Listed(s)
        BY DEF Listed
    <2>2. PICK j \in 1 .. Len(s) : /\ s[j] = (CHOOSE e \in E : e.id = s[i].id)
                                   /\ s[j].id = s[i].id
        BY <1>1, <1>2, <2>1
    <2>3. s[j] = s[i]
        BY <1>4, <2>2 DEF Distinct
    <2> QED
        BY <1>1, <2>1, <2>2, <2>3 DEF Snapshot
<1>5. Snapshot(s) = [m \in Msg |-> Snapshot(s)[m]]
    BY DEF Snapshot
<1> QED
    BY <1>3, <1>4, <1>5

LEMMA OrdersFacts ==
    ASSUME NEW rows \in [Msg -> Row], NEW s \in Orders(rows)
    PROVE  /\ s \in Seq(Entry) /\ Distinct(s)
           /\ \A m \in Msg : rows[m] # "none" => m \in Listed(s)
<1> DEFINE S == {m \in Msg : rows[m] # "none"}
           n == Cardinality(S)
<1>1. IsFiniteSet(S) /\ n \in Nat
    BY FS_Subset, FS_CardinalityType
<1>2. PICK f \in [1 .. n -> S] :
         /\ s = [i \in 1 .. n |-> Of(f[i], rows[f[i]])]
         /\ \A i, j \in 1 .. n : f[i] = f[j] => i = j
    BY DEF Orders
<1> HIDE DEF n
<1>3. \A i \in 1 .. n : Of(f[i], rows[f[i]]) \in Entry
    BY DEF Of, Entry, Row
<1>4. s \in Seq(Entry) /\ Len(s) = n
    BY <1>1, <1>2, <1>3, IsASeq, LenProperties
<1>5. \A i \in 1 .. n : s[i].id = f[i]
    BY <1>2 DEF Of
<1>6. Distinct(s)
    <2>1. ASSUME NEW i \in 1 .. Len(s), NEW j \in 1 .. Len(s), s[i].id = s[j].id
          PROVE  i = j
        <3>1. i \in 1 .. n /\ j \in 1 .. n
            BY <1>4
        <3>2. f[i] = f[j]
            BY <1>5, <2>1, <3>1
        <3> QED
            BY <1>2, <3>1, <3>2
    <2> QED
        BY <2>1 DEF Distinct
<1>7. ASSUME NEW m \in S
      PROVE  m \in Listed(s)
    <2>1. f \in Injection(1 .. n, S)
        BY <1>2 DEF Injection, IsInjective
    <2>2. Cardinality(1 .. n) = n
        BY <1>1, FS_Interval
    <2>3. f \in Surjection(1 .. n, S)
        BY <1>1, <2>1, <2>2, FS_Injection DEF n
    <2>4. PICK i \in 1 .. n : f[i] = m
        BY <2>3 DEF Surjection
    <2> QED
        BY <1>4, <1>5, <2>4 DEF Listed
<1> QED
    BY <1>4, <1>6, <1>7

LEMMA RankFacts == \A st \in Row : Rank[st] \in Nat
BY DEF Rank, Row, Status

LEMMA EmitFacts ==
    ASSUME browser \in [Msg -> Row], NEW m \in Msg, NEW st \in Status, Emit(m, st)
    PROVE  /\ browser' \in [Msg -> Row]
           /\ \A x \in Msg : Rank[browser'[x]] >= Rank[browser[x]]
           /\ open => Rank[browser'[m]] >= Rank[st]
<1>1. st \in Row /\ \A x \in Msg : browser[x] \in Row
    BY DEF Row
<1>2. CASE open
    <2> DEFINE b == Merge(browser[m], st)
    <2>1. b \in Row /\ Rank[b] >= Rank[browser[m]] /\ Rank[b] >= Rank[st]
        BY <1>1, RankFacts DEF Merge
    <2>2. browser' = [browser EXCEPT ![m] = b]
        BY <1>2 DEF Emit
    <2> HIDE DEF b
    <2>3. browser' \in [Msg -> Row] /\ browser'[m] = b
        BY <2>1, <2>2
    <2>4. \A x \in Msg : x # m => browser'[x] = browser[x]
        BY <2>2
    <2>5. \A x \in Msg : Rank[browser'[x]] >= Rank[browser[x]]
        BY <1>1, <2>1, <2>3, <2>4, RankFacts
    <2> QED
        BY <2>1, <2>3, <2>5
<1>3. CASE ~open
    BY <1>1, <1>3, RankFacts DEF Emit
<1> QED
    BY <1>2, <1>3

-----------------------------------------------------------------------------
(* Type correctness *)

LEMMA UpsertTypes ==
    ASSUME TypeOK, NEW m \in Msg, NEW st \in Status
    PROVE  Of(m, st) \in Entry /\ Upsert(messages, Of(m, st)) \in Seq(Entry)
<1>1. Of(m, st) \in Entry
    BY DEF Of, Entry
<1> QED
    BY <1>1, UpsertFacts DEF TypeOK

LEMMA SaveTypes ==
    ASSUME TypeOK, NEW m \in Msg, NEW st \in Row, Save(m, st)
    PROVE  row' \in [Msg -> Row]
BY DEF TypeOK, Save

LEMMA EmitTypes ==
    ASSUME TypeOK, NEW m \in Msg, NEW st \in Row, Emit(m, st)
    PROVE  browser' \in [Msg -> Row]
<1>1. Merge(browser[m], st) \in Row
    BY DEF TypeOK, Merge
<1> QED
    BY <1>1 DEF TypeOK, Emit

LEMMA StatusIsRow == Status \subseteq Row /\ "none" \in Row
BY DEF Row

LEMMA Literals ==
    {"sending", "failed", "failed_queued", "received",
     "delivered_from_queue", "delivered"} = Status
BY DEF Status

LEMMA LoadTypes ==
    ASSUME TypeOK, AskHistory \/ StoreAnswers \/ HistoryArrives \/ HistoryFails
    PROVE  TypeOK'
<1> USE DEF runVars, storeVars, pageVars
<1>1. CASE AskHistory
    BY <1>1 DEF AskHistory, TypeOK
<1>2. CASE StoreAnswers
    <2>1. answer' \in [Msg -> Row]
        BY <1>2, StatusIsRow DEF StoreAnswers, TypeOK
    <2> QED
        BY <1>2, <2>1 DEF StoreAnswers, TypeOK
<1>3. CASE HistoryArrives
    <2>1. PICK s \in Orders(answer) :
             messages' = s /\ browser' = IF open THEN Snapshot(s) ELSE browser
        BY <1>3 DEF HistoryArrives
    <2>2. messages' \in Seq(Entry) /\ browser' \in [Msg -> Row]
        BY <2>1, OrdersFacts, SnapshotFacts DEF TypeOK
    <2> QED
        BY <1>3, <2>2 DEF HistoryArrives, TypeOK
<1>4. CASE HistoryFails
    <2>1. browser' \in [Msg -> Row]
        BY <1>4, SnapshotFacts DEF HistoryFails, TypeOK
    <2> QED
        BY <1>4, <2>1 DEF HistoryFails, TypeOK
<1> QED
    BY <1>1, <1>2, <1>3, <1>4

LEMMA SendTypes ==
    ASSUME TypeOK, NEW m \in Msg, NEW st \in Status,
           Send(m) \/ Decide(m, st) \/ SendEnds(m)
    PROVE  TypeOK'
<1> USE DEF listVars, storeVars, pageVars
<1>1. CASE Send(m)
    <2>1. browser' \in [Msg -> Row]
        BY <1>1, EmitTypes, StatusIsRow, Literals DEF Send
    <2>2. messages' \in Seq(Entry)
        BY <1>1, UpsertTypes, Literals DEF Send, Track
    <2> QED
        BY <1>1, <2>1, <2>2 DEF Send, Track, TypeOK
<1>2. CASE Decide(m, st)
    <2>1. messages' \in Seq(Entry)
        <3>1. CASE m \in mine
            <4>1. \A i \in 1 .. Len(messages) :
                    (IF messages[i].id = m THEN Of(m, st) ELSE messages[i]) \in Entry
                BY UpsertTypes, ElementOfSeq DEF TypeOK
            <4> QED
                BY <1>2, <3>1, <4>1, IsASeq, LenProperties DEF Decide, TypeOK
        <3>2. CASE m \notin mine
            BY <1>2, <3>2 DEF Decide, TypeOK
        <3> QED
            BY <3>1, <3>2
    <2> QED
        BY <1>2, <2>1, StatusIsRow DEF Decide, TypeOK
<1>3. CASE SendEnds(m)
    <2>1. verdict[m] \in Row
        BY DEF TypeOK
    <2>2. browser' \in [Msg -> Row] /\ row' \in [Msg -> Row]
        BY <1>3, <2>1, EmitTypes, SaveTypes DEF SendEnds
    <2> QED
        BY <1>3, <2>2 DEF SendEnds, TypeOK
<1> QED
    BY <1>1, <1>2, <1>3

LEMMA ReceiptTypes ==
    ASSUME TypeOK, NEW m \in Msg, NEW st \in Status,
           \/ TakeText(m, st) \/ TextTaken(m)
           \/ TakeFile(m) \/ WriteFile(m) \/ FileTaken(m)
    PROVE  TypeOK'
<1> USE DEF storeVars, pageVars
<1>1. CASE TakeText(m, st)
    BY <1>1, UpsertTypes, StatusIsRow DEF TakeText, TypeOK
<1>2. CASE TextTaken(m)
    <2>1. receiving[m] \in Row
        BY DEF TypeOK
    <2>2. browser' \in [Msg -> Row] /\ row' \in [Msg -> Row]
        BY <1>2, <2>1, EmitTypes, SaveTypes DEF TextTaken
    <2> QED
        BY <1>2, <2>2, StatusIsRow DEF TextTaken, TypeOK, listVars
<1>3. CASE TakeFile(m)
    BY <1>3, StatusIsRow, Literals DEF TakeFile, TypeOK, listVars
<1>4. CASE WriteFile(m)
    BY <1>4 DEF WriteFile, TypeOK, listVars, runVars
<1>5. CASE FileTaken(m)
    <2>1. "received" \in Status /\ "received" \in Row
        BY Literals, StatusIsRow
    <2>2. browser' \in [Msg -> Row] /\ row' \in [Msg -> Row]
        BY <1>5, <2>1, EmitTypes, SaveTypes DEF FileTaken
    <2>3. messages' \in Seq(Entry)
        BY <1>5, <2>1, UpsertTypes DEF FileTaken
    <2>4. m \in Incoming
        BY <1>5 DEF FileTaken, Incoming
    <2> QED
        BY <1>5, <2>2, <2>3, <2>4, StatusIsRow DEF FileTaken, TypeOK
<1> QED
    BY <1>1, <1>2, <1>3, <1>4, <1>5

LEMMA OtherTypes ==
    ASSUME TypeOK,
           \/ \E m \in Msg, st \in Status :
                 \/ TargetTakes(m) \/ TargetSaves(m, st)
                 \/ SenderQueues(m) \/ SenderSaves(m, st)
           \/ Connect \/ Disconnect \/ Restart \/ UNCHANGED vars
    PROVE  TypeOK'
<1> USE DEF listVars, runVars, storeVars, pageVars
<1>1. ASSUME NEW m \in Msg, NEW st \in Status,
             \/ TargetTakes(m) \/ TargetSaves(m, st)
             \/ SenderQueues(m) \/ SenderSaves(m, st)
      PROVE  TypeOK'
    <2>1. CASE TargetTakes(m) \/ SenderQueues(m)
        BY <2>1 DEF TargetTakes, SenderQueues, TypeOK
    <2>2. CASE TargetSaves(m, st)
        BY <2>2, StatusIsRow DEF TargetSaves, TypeOK
    <2>3. CASE SenderSaves(m, st)
        <3>1. row' \in [Msg -> Row]
            BY <2>3, StatusIsRow DEF SenderSaves, TypeOK
        <3>2. remote' \in [Msg -> {"sending", "took", "queued", "saved", "ended"}]
            BY <2>3 DEF SenderSaves, TypeOK
        <3> QED
            BY <2>3, <3>1, <3>2 DEF SenderSaves, TypeOK
    <2> QED
        BY <1>1, <2>1, <2>2, <2>3
<1>2. CASE Connect
    BY <1>2, SnapshotFacts DEF Connect, TypeOK
<1>3. CASE Disconnect
    BY <1>3, StatusIsRow DEF Disconnect, TypeOK, NoRows
<1>4. CASE Restart
    <2>1. restarts' \in 0 .. MaxRestarts
        BY <1>4 DEF Restart, TypeOK
    <2>2. messages' \in Seq(Entry)
        BY <1>4, EmptySeq DEF Restart
    <2>3. NoRows \in [Msg -> Row]
        BY StatusIsRow DEF NoRows
    <2>4. send' \in [Msg -> {"idle", "trying", "saving", "done", "crashed"}]
        BY <1>4 DEF Restart, TypeOK
    <2> QED
        BY <1>4, <2>1, <2>2, <2>3, <2>4 DEF Restart, TypeOK
<1>5. CASE UNCHANGED vars
    BY <1>5 DEF vars, TypeOK
<1> QED
    BY <1>1, <1>2, <1>3, <1>4, <1>5

\* One disjunct of Next, with the status it is about.
LEMMA Steps ==
    ASSUME [Next]_vars
    PROVE  \/ AskHistory \/ StoreAnswers \/ HistoryArrives \/ HistoryFails
           \/ \E m \in Msg, st \in Status :
                 \/ Send(m) \/ Decide(m, st) \/ SendEnds(m)
                 \/ TakeText(m, st) \/ TextTaken(m)
                 \/ TakeFile(m) \/ WriteFile(m) \/ FileTaken(m)
                 \/ TargetTakes(m) \/ TargetSaves(m, st)
                 \/ SenderQueues(m) \/ SenderSaves(m, st)
           \/ Connect \/ Disconnect \/ Restart \/ UNCHANGED vars
<1>1. Status \cup {FromQueue} = Status /\ "sending" \in Status
    BY DEF Status, FromQueue
<1> QED
    BY <1>1 DEF Next

LEMMA NextTypes == TypeOK /\ [Next]_vars => TypeOK'
BY Steps, LoadTypes, SendTypes, ReceiptTypes, OtherTypes

LEMMA InitTypes == Init => TypeOK
<1> SUFFICES ASSUME Init
             PROVE  TypeOK
    OBVIOUS
<1>1. NoRows \in [Msg -> Row]
    BY StatusIsRow DEF NoRows
<1>2. messages \in Seq(Entry)
    BY EmptySeq DEF Init
<1>3. restarts \in 0 .. MaxRestarts
    BY DEF Init
<1> QED
    BY <1>1, <1>2, <1>3 DEF Init, TypeOK

\* Every variable of a peer's list, of the store and of the page keeps its type.
THEOREM HistoryTypes == Spec => []TypeOK
BY InitTypes, NextTypes, PTL DEF Spec

-----------------------------------------------------------------------------
(* Sends and receipts: what the suspended handlers know. *)

Handlers ==
    \A m \in Msg :
        /\ send[m] # "idle" => m \in Sent
        /\ send[m] \in {"saving", "done"} => verdict[m] # "none"
        /\ receiving[m] # "none" => m \in seen

BInv == TypeOK /\ Handlers

LEMMA NextHandlers == BInv /\ [Next]_vars => Handlers'
<1> SUFFICES ASSUME BInv, [Next]_vars
             PROVE  Handlers'
    OBVIOUS
<1> USE DEF BInv
<1>1. ASSUME UNCHANGED runVars
      PROVE  Handlers'
    BY <1>1 DEF Handlers, runVars
<1>2. ASSUME NEW m \in Msg, Send(m)
      PROVE  Handlers'
    BY <1>2 DEF Send, Handlers, TypeOK
<1>3. ASSUME NEW m \in Msg, NEW st \in Status, Decide(m, st)
      PROVE  Handlers'
    BY <1>3 DEF Decide, Handlers, TypeOK
<1>4. ASSUME NEW m \in Msg, SendEnds(m)
      PROVE  Handlers'
    BY <1>4 DEF SendEnds, Handlers, TypeOK
<1>5. ASSUME NEW m \in Msg, NEW st \in Status,
             TakeText(m, st) \/ TakeFile(m)
      PROVE  Handlers'
    BY <1>5 DEF TakeText, TakeFile, Handlers, TypeOK
<1>6. ASSUME NEW m \in Msg, TextTaken(m) \/ FileTaken(m)
      PROVE  Handlers'
    BY <1>6 DEF TextTaken, FileTaken, Handlers, TypeOK
<1>7. CASE Restart
    BY <1>7 DEF Restart, Handlers, NoRows, TypeOK
<1>8. CASE \/ AskHistory \/ StoreAnswers \/ HistoryArrives \/ HistoryFails
           \/ Connect \/ Disconnect \/ UNCHANGED vars
    BY <1>1, <1>8 DEF AskHistory, StoreAnswers, HistoryArrives, HistoryFails,
                      Connect, Disconnect, vars, runVars
<1>9. ASSUME NEW m \in Msg, NEW st \in Status,
             \/ WriteFile(m) \/ TargetTakes(m) \/ TargetSaves(m, st)
             \/ SenderQueues(m) \/ SenderSaves(m, st)
      PROVE  Handlers'
    BY <1>1, <1>9 DEF WriteFile, TargetTakes, TargetSaves, SenderQueues, SenderSaves
<1> QED
    BY <1>2, <1>3, <1>4, <1>5, <1>6, <1>7, <1>8, <1>9, Steps

LEMMA HandlersInvariance == Spec => []BInv
<1>1. Init => BInv
    BY InitTypes DEF Init, BInv, Handlers, NoRows
<1>2. BInv /\ [Next]_vars => BInv'
    BY NextTypes, NextHandlers DEF BInv
<1> QED
    BY <1>1, <1>2, PTL DEF Spec

-----------------------------------------------------------------------------
(* The rows of files.  A row that is "received" was written by receiveFile. *)

FInv == BInv /\ FileRowIsBacked

LEMMA NextFileRows == FInv /\ [Next]_vars => FileRowIsBacked'
<1> SUFFICES ASSUME FInv, [Next]_vars
             PROVE  FileRowIsBacked'
    OBVIOUS
<1> USE DEF FInv, BInv
<1>1. ASSUME disk \subseteq disk',
             \A m \in File : row'[m] = "received" => row[m] = "received" \/ m \in disk'
      PROVE  FileRowIsBacked'
    BY <1>1 DEF FileRowIsBacked
<1>2. ASSUME NEW m \in Msg, NEW st, st # "received" \/ m \notin File \/ m \in disk',
             disk \subseteq disk', Save(m, st)
      PROVE  FileRowIsBacked'
    BY <1>1, <1>2 DEF Save, TypeOK
<1>3. CASE AskHistory \/ StoreAnswers \/ HistoryArrives \/ HistoryFails
    BY <1>1, <1>3 DEF AskHistory, StoreAnswers, HistoryArrives, HistoryFails, storeVars
<1>4. ASSUME NEW m \in Msg, NEW st \in Status, Send(m) \/ Decide(m, st)
      PROVE  FileRowIsBacked'
    BY <1>1, <1>4 DEF Send, Decide, storeVars
<1>5. ASSUME NEW m \in Msg, SendEnds(m)
      PROVE  FileRowIsBacked'
    BY <1>2, <1>5 DEF SendEnds, Handlers
<1>6. ASSUME NEW m \in Msg, TextTaken(m)
      PROVE  FileRowIsBacked'
    BY <1>2, <1>6 DEF TextTaken, Text
<1>7. ASSUME NEW m \in Msg, FileTaken(m)
      PROVE  FileRowIsBacked'
    BY <1>2, <1>7 DEF FileTaken
<1>8. ASSUME NEW m \in Msg, NEW st \in Status,
             TakeText(m, st) \/ TakeFile(m) \/ TargetTakes(m) \/ SenderQueues(m)
      PROVE  FileRowIsBacked'
    BY <1>1, <1>8 DEF TakeText, TakeFile, TargetTakes, SenderQueues, storeVars
<1>9. ASSUME NEW m \in Msg, WriteFile(m)
      PROVE  FileRowIsBacked'
    BY <1>1, <1>9 DEF WriteFile
<1>10. ASSUME NEW m \in Msg, NEW st \in Status, TargetSaves(m, st)
       PROVE  FileRowIsBacked'
    BY <1>1, <1>10 DEF TargetSaves, TypeOK
<1>11. ASSUME NEW m \in Msg, NEW st \in Status, SenderSaves(m, st)
       PROVE  FileRowIsBacked'
    BY <1>1, <1>11 DEF SenderSaves, TypeOK
<1>12. CASE Connect \/ Disconnect \/ Restart \/ UNCHANGED vars
    BY <1>1, <1>12 DEF Connect, Disconnect, Restart, vars, storeVars
<1> QED
    BY <1>3, <1>4, <1>5, <1>6, <1>7, <1>8, <1>9, <1>10, <1>11, <1>12, Steps
\* A file transfer recorded as received is on the disk of its target, for any
\* number of files, senders' verdicts and crashes: the row is written after the
\* file, and no sender writes that status.
THEOREM ReceivedFileIsOnDisk == Spec => []FileRowIsBacked
<1>1. Init => FileRowIsBacked
    BY DEF Init, FileRowIsBacked, NoRows
<1>2. BInv /\ FileRowIsBacked /\ [Next]_vars => FileRowIsBacked'
    BY NextFileRows DEF FInv
<1> QED
    BY <1>1, <1>2, HandlersInvariance, PTL DEF Spec

-----------------------------------------------------------------------------
(***************************************************************************)
(* The list.  Before the history is in, an entry may be lost; from then on  *)
(* every step keeps what is listed, but for want of room.                   *)
(***************************************************************************)

Kept(m) == m \in Listed(messages) \/ Len(messages) >= Limit

Loading ==
    /\ \A m \in before : row[m] # "none"
    /\ load = "answered" => \A m \in before \cap Shown : answer[m] # "none"
    /\ load = "done" => \A m \in before \cap Shown : Kept(m)

LInv ==
    /\ Distinct(messages)
    /\ \A m \in late : Kept(m)
    /\ Loading

\* A step at the list: at most one entry is put in or changed in place.
KeepsList ==
    /\ Distinct(messages) => Distinct(messages')
    /\ \A m \in Msg : Kept(m) => Kept(m)'

LEMMA SameList == ASSUME messages' = messages PROVE KeepsList
BY DEF KeepsList, Kept

LEMMA UpsertKeeps ==
    ASSUME TypeOK, NEW m \in Msg, NEW st \in Status,
           messages' = Upsert(messages, Of(m, st))
    PROVE  KeepsList /\ Kept(m)'
<1>1. Of(m, st) \in Entry /\ Of(m, st).id = m /\ messages \in Seq(Entry)
    BY UpsertTypes DEF Of, TypeOK
<1>2. Distinct(messages) => Distinct(messages')
    BY <1>1, UpsertFacts
<1>3. Len(messages) >= Limit => Len(messages') >= Limit
    BY <1>1, UpsertFacts
<1>4. \A x \in Listed(messages) \cup {m} :
         x \in Listed(messages') \/ Len(messages') >= Limit
    BY <1>1, UpsertFacts
<1> QED
    BY <1>2, <1>3, <1>4 DEF KeepsList, Kept

LEMMA DecideKeeps ==
    ASSUME TypeOK, NEW m \in Msg, NEW st \in Status, Decide(m, st)
    PROVE  KeepsList
<1>1. CASE m \in mine
    <2>1. messages' = [i \in 1 .. Len(messages) |->
                         IF messages[i].id = m THEN Of(m, st) ELSE messages[i]]
        BY <1>1 DEF Decide
    <2>2. Len(messages) \in Nat
        BY DEF TypeOK
    <2>3. Len(messages') = Len(messages)
        BY <2>1, <2>2, LenProperties, IsASeq
    <2>4. \A i \in 1 .. Len(messages) : messages'[i].id = messages[i].id
        BY <2>1 DEF Of
    <2> QED
        BY <2>3, <2>4 DEF KeepsList, Kept, Distinct, Listed
<1>2. CASE m \notin mine
    BY <1>2, SameList DEF Decide
<1> QED
    BY <1>1, <1>2

\* A row never disappears.
LEMMA RowsStay ==
    ASSUME BInv, [Next]_vars
    PROVE  \A m \in Msg : row[m] # "none" => row'[m] # "none"
<1> USE DEF BInv
<1>1. ASSUME NEW m \in Msg, NEW st, st # "none", Save(m, st)
      PROVE  \A x \in Msg : row[x] # "none" => row'[x] # "none"
    BY <1>1 DEF Save, TypeOK
<1>2. "none" \notin Status
    BY DEF Status
<1>3. ASSUME NEW m \in Msg, SendEnds(m) \/ TextTaken(m) \/ FileTaken(m)
      PROVE  \A x \in Msg : row[x] # "none" => row'[x] # "none"
    BY <1>1, <1>3 DEF SendEnds, TextTaken, FileTaken, Handlers
<1>4. ASSUME NEW m \in Msg, NEW st \in Status, TargetSaves(m, st) \/ SenderSaves(m, st)
      PROVE  \A x \in Msg : row[x] # "none" => row'[x] # "none"
    BY <1>2, <1>4 DEF TargetSaves, SenderSaves, TypeOK
<1>5. ASSUME UNCHANGED row
      PROVE  \A x \in Msg : row[x] # "none" => row'[x] # "none"
    BY <1>5
<1>6. CASE \/ AskHistory \/ StoreAnswers \/ HistoryArrives \/ HistoryFails
           \/ Connect \/ Disconnect \/ Restart \/ UNCHANGED vars
    BY <1>5, <1>6 DEF AskHistory, StoreAnswers, HistoryArrives, HistoryFails,
                      Connect, Disconnect, Restart, vars, storeVars
<1>7. ASSUME NEW m \in Msg, NEW st \in Status,
             \/ Send(m) \/ Decide(m, st) \/ TakeText(m, st) \/ TakeFile(m)
             \/ WriteFile(m) \/ TargetTakes(m) \/ SenderQueues(m)
      PROVE  \A x \in Msg : row[x] # "none" => row'[x] # "none"
    BY <1>5, <1>7 DEF Send, Decide, TakeText, TakeFile, WriteFile, TargetTakes,
                      SenderQueues, storeVars
<1> QED
    BY <1>3, <1>4, <1>6, <1>7, Steps
LEMMA ListStep ==
    ASSUME BInv, LInv, [Next]_vars, KeepsList, UNCHANGED <<load, answer, before>>,
           \A m \in late' : m \in late \/ Kept(m)'
    PROVE  LInv'
<1>1. before \subseteq Msg /\ late \subseteq Msg
    BY DEF BInv, TypeOK
<1>2. \A m \in before' : row'[m] # "none"
    BY <1>1, RowsStay DEF LInv, Loading
<1>3. Loading'
    BY <1>1, <1>2 DEF LInv, Loading, KeepsList
<1>4. \A m \in late' : Kept(m)'
    BY <1>1 DEF LInv, KeepsList
<1> QED
    BY <1>3, <1>4 DEF LInv, KeepsList

LEMMA LoadSteps ==
    ASSUME BInv, LInv, [Next]_vars,
           \/ AskHistory \/ StoreAnswers \/ HistoryArrives \/ HistoryFails \/ Restart
    PROVE  LInv'
<1> USE DEF BInv
<1>1. before \subseteq Msg /\ late \subseteq Msg
    BY DEF TypeOK
<1>2. \A m \in Msg : row[m] # "none" => row'[m] # "none"
    BY RowsStay
<1>3. CASE AskHistory \/ HistoryFails
    <2>1. UNCHANGED <<messages, before, late>> /\ load' \in {"asked", "failed"}
        BY <1>3 DEF AskHistory, HistoryFails
    <2>2. Loading'
        BY <1>1, <1>2, <2>1 DEF LInv, Loading
    <2> QED
        BY <2>1, <2>2 DEF LInv, Kept
<1>4. CASE StoreAnswers
    <2>1. UNCHANGED <<messages, before, late, row>> /\ load' = "answered"
        BY <1>4 DEF StoreAnswers, storeVars
    <2>2. \A m \in before \cap Shown : answer'[m] # "none"
        BY <1>1, <1>4 DEF StoreAnswers, LInv, Loading
    <2>3. Loading'
        BY <2>1, <2>2 DEF LInv, Loading
    <2> QED
        BY <2>1, <2>3 DEF LInv, Kept
<1>5. CASE HistoryArrives
    <2>1. PICK s \in Orders(answer) : messages' = s
        BY <1>5 DEF HistoryArrives
    <2>2. Distinct(messages') /\ \A m \in Msg : answer[m] # "none" => Kept(m)'
        BY <2>1, OrdersFacts DEF TypeOK, Kept
    <2>3. UNCHANGED <<before, row>> /\ late' = {} /\ load = "answered" /\ load' = "done"
        BY <1>5 DEF HistoryArrives, storeVars
    <2>4. Loading'
        BY <1>1, <2>2, <2>3 DEF LInv, Loading
    <2> QED
        BY <2>2, <2>3, <2>4 DEF LInv
<1>6. CASE Restart
    <2>1. messages' = <<>> /\ late' = {} /\ load' = "none" /\ UNCHANGED row
          /\ before' = {m \in Msg : row[m] # "none"}
        BY <1>6 DEF Restart, storeVars
    <2>2. Distinct(messages')
        BY <2>1, EmptySeq DEF Distinct
    <2>3. Loading'
        BY <2>1 DEF Loading
    <2> QED
        BY <2>1, <2>2, <2>3 DEF LInv
<1> QED
    BY <1>3, <1>4, <1>5, <1>6

LEMMA NextList ==
    ASSUME BInv, LInv, [Next]_vars
    PROVE  LInv'
<1> USE DEF BInv
<1>1. ASSUME UNCHANGED <<messages, load, answer, before, late>>
      PROVE  LInv'
    BY <1>1, SameList, ListStep
<1>2. ASSUME NEW m \in Msg, Send(m)
      PROVE  LInv'
    <2>1. KeepsList /\ Kept(m)'
        BY <1>2, UpsertKeeps, Literals DEF Send, Track
    <2> QED
        BY <1>2, <2>1, ListStep DEF Send
<1>3. ASSUME NEW m \in Msg, NEW st \in Status, Decide(m, st)
      PROVE  LInv'
    BY <1>3, DecideKeeps, ListStep DEF Decide
<1>4. ASSUME NEW m \in Msg, NEW st \in Status, TakeText(m, st)
      PROVE  LInv'
    <2>1. KeepsList /\ Kept(m)'
        BY <1>4, UpsertKeeps DEF TakeText
    <2> QED
        BY <1>4, <2>1, ListStep DEF TakeText
<1>5. ASSUME NEW m \in Msg, FileTaken(m)
      PROVE  LInv'
    <2>1. KeepsList /\ Kept(m)'
        BY <1>5, UpsertKeeps, Literals DEF FileTaken
    <2> QED
        BY <1>5, <2>1, ListStep DEF FileTaken
<1>6. CASE AskHistory \/ StoreAnswers \/ HistoryArrives \/ HistoryFails \/ Restart
    BY <1>6, LoadSteps
<1>7. CASE Connect \/ Disconnect \/ UNCHANGED vars
    BY <1>1, <1>7 DEF Connect, Disconnect, vars, listVars
<1>8. ASSUME NEW m \in Msg, NEW st \in Status,
             \/ SendEnds(m) \/ TextTaken(m) \/ TakeFile(m) \/ WriteFile(m)
             \/ TargetTakes(m) \/ TargetSaves(m, st)
             \/ SenderQueues(m) \/ SenderSaves(m, st)
      PROVE  LInv'
    BY <1>1, <1>8 DEF SendEnds, TextTaken, TakeFile, WriteFile, TargetTakes,
                      TargetSaves, SenderQueues, SenderSaves, listVars
<1> QED
    BY <1>2, <1>3, <1>4, <1>5, <1>6, <1>7, <1>8, Steps

LEMMA ListInvariance == Spec => [](BInv /\ LInv)
<1>1. Init => LInv
    BY EmptySeq DEF Init, LInv, Loading, Distinct
<1>2. BInv /\ LInv /\ [Next]_vars => LInv'
    BY NextList
<1> QED
    BY <1>1, <1>2, HandlersInvariance, PTL DEF Spec

\* A list without two entries of one id has as many ids as entries.
LEMMA CountListed ==
    ASSUME NEW s \in Seq(Entry), Distinct(s)
    PROVE  Cardinality(Listed(s)) = Len(s)
<1> DEFINE f == [i \in 1 .. Len(s) |-> s[i].id]
<1>1. f \in [1 .. Len(s) -> Listed(s)]
    BY DEF Listed
<1>2. f \in Injection(1 .. Len(s), Listed(s))
    BY <1>1 DEF Injection, IsInjective, Distinct
<1>3. f \in Surjection(1 .. Len(s), Listed(s))
    BY <1>1 DEF Surjection, Listed
<1>4. ExistsBijection(1 .. Len(s), Listed(s))
    BY <1>2, <1>3 DEF ExistsBijection, Bijection
<1> QED
    BY <1>4, FS_CountingElements, LenProperties

\* The list never shows one message twice, and once the history is in it only
\* lets go of what does not fit, however sends, frames and records interleave.
THEOREM NothingListedTwice == Spec => []ListIsSound
<1>1. BInv /\ LInv => ListIsSound
    BY CountListed DEF BInv, LInv, ListIsSound, TypeOK, Kept
<1> QED
    BY <1>1, ListInvariance, PTL

\* What the store held when the process started is listed once the history is
\* loaded, whatever was sent, received or saved while the request was out.
THEOREM HistoryIsComplete == Spec => []SavedSurvivesRestart
<1>1. BInv /\ LInv => SavedSurvivesRestart
    BY DEF BInv, LInv, Loading, SavedSurvivesRestart, TypeOK, Kept, Shown
<1> QED
    BY <1>1, ListInvariance, PTL
-----------------------------------------------------------------------------
(***************************************************************************)
(* What the list and the page say of a message.  The entries of a step are  *)
(* old ones, or the one that was put in.                                    *)
(***************************************************************************)

\* An entry of the list that a send refers to has the status the send decided.
Told(x) == x.id \in mine /\ send[x.id] \in {"saving", "done"} => x.status = verdict[x.id]

VInv ==
    /\ late \cap Sent \subseteq mine
    /\ \A i \in 1 .. Len(messages) : Told(messages[i])

\* The page is behind only while the handler that changed the entry is about to
\* emit it.
Pending(x) ==
    \/ x.id \in mine /\ send[x.id] = "saving" /\ x.status = verdict[x.id]
    \/ receiving[x.id] # "none" /\ x.status = receiving[x.id]

PageInv ==
    open => \A i \in 1 .. Len(messages) :
               \/ Rank[browser[messages[i].id]] >= Rank[messages[i].status]
               \/ Pending(messages[i])

LEMMA EntryTypes ==
    ASSUME TypeOK, NEW i \in 1 .. Len(messages)
    PROVE  /\ messages[i] \in Entry /\ messages[i].id \in Msg
           /\ messages[i].status \in Status /\ messages[i].status \in Row
<1>1. messages[i] \in Entry
    BY ElementOfSeq DEF TypeOK
<1> QED
    BY <1>1, StatusIsRow DEF Entry

\* Where an entry of the new list comes from.
LEMMA UpsertEntries ==
    ASSUME TypeOK, NEW m \in Msg, NEW st \in Status,
           messages' = Upsert(messages, Of(m, st)), NEW i \in 1 .. Len(messages')
    PROVE  \/ messages'[i].id = m /\ messages'[i].status = st
           \/ \E j \in 1 .. Len(messages) : /\ messages'[i] = messages[j]
                                            /\ messages[j].id # m
<1>1. Of(m, st) \in Entry /\ Of(m, st).id = m /\ Of(m, st).status = st
    BY UpsertTypes DEF Of
<1>2. messages \in Seq(Entry)
    BY DEF TypeOK
<1>3. \/ messages'[i] = Of(m, st)
      \/ \E j \in 1 .. Len(messages) : /\ messages'[i] = messages[j]
                                       /\ messages[j].id # Of(m, st).id
    <2> DEFINE e == Of(m, st)
               u == Upsert(messages, e)
    <2>1. e \in Entry /\ u = messages'
        BY <1>1
    <2> HIDE DEF e
    <2>2. \A k \in 1 .. Len(u) :
             u[k] = e \/ \E j \in 1 .. Len(messages) : u[k] = messages[j] /\ messages[j].id # e.id
        BY <1>2, <2>1, UpsertFacts
    <2> QED
        BY <2>1, <2>2 DEF e
<1> QED
    BY <1>1, <1>3

LEMMA DecideEntries ==
    ASSUME TypeOK, NEW m \in Msg, NEW st \in Status, Decide(m, st),
           NEW i \in 1 .. Len(messages')
    PROVE  /\ i \in 1 .. Len(messages)
           /\ messages'[i].id = messages[i].id
           /\ IF messages[i].id = m /\ m \in mine
              THEN messages'[i].status = st
              ELSE messages'[i] = messages[i]
<1>1. CASE m \in mine
    <2>1. messages' = [k \in 1 .. Len(messages) |->
                         IF messages[k].id = m THEN Of(m, st) ELSE messages[k]]
        BY <1>1 DEF Decide
    <2>2. Len(messages') = Len(messages)
        BY <2>1, LenProperties, IsASeq DEF TypeOK
    <2> QED
        BY <1>1, <2>1, <2>2 DEF Of
<1>2. CASE m \notin mine
    BY <1>2 DEF Decide
<1> QED
    BY <1>1, <1>2

LEMMA NextVerdicts ==
    ASSUME BInv, VInv, [Next]_vars
    PROVE  VInv'
<1> USE DEF BInv
<1>1. mine \subseteq Sent /\ messages \in Seq(Entry)
    BY DEF TypeOK
<1>2. ASSUME UNCHANGED <<messages, mine, late, verdict>>,
             \A m \in Msg : send'[m] \in {"saving", "done"} => send[m] \in {"saving", "done"}
      PROVE  VInv'
    BY <1>2, EntryTypes DEF VInv, Told
<1>3. ASSUME NEW m \in Msg, NEW st \in Status, messages' = Upsert(messages, Of(m, st)),
             UNCHANGED verdict, mine' \subseteq mine \cup {m}, mine \subseteq mine',
             m \notin mine' \/ send'[m] = "trying",
             \A x \in Msg : x # m => send'[x] = send[x],
             late' \cap Sent \subseteq mine'
      PROVE  VInv'
    <2>1. ASSUME NEW i \in 1 .. Len(messages')
          PROVE  Told(messages[i])'
        <3>1. CASE messages'[i].id = m
            BY <1>3, <3>1 DEF Told
        <3>2. CASE messages'[i].id # m
            <4>1. PICK j \in 1 .. Len(messages) : messages'[i] = messages[j] /\ messages[j].id # m
                BY <1>3, <3>2, UpsertEntries
            <4>2. Told(messages[j]) /\ messages[j].id \in Msg
                BY EntryTypes DEF VInv
            <4> QED
                BY <1>3, <4>1, <4>2 DEF Told
        <3> QED
            BY <3>1, <3>2
    <2> QED
        BY <1>3, <2>1 DEF VInv
<1>4. ASSUME NEW m \in Msg, Send(m)
      PROVE  VInv'
    <2>1. messages' = Upsert(messages, Of(m, "sending")) /\ mine' = mine \cup {m}
        BY <1>4 DEF Send, Track
    <2>2. send'[m] = "trying" /\ \A x \in Msg : x # m => send'[x] = send[x]
        BY <1>4 DEF Send, TypeOK
    <2>3. UNCHANGED verdict /\ late' = late \cup {m}
        BY <1>4 DEF Send
    <2>4. late' \cap Sent \subseteq mine'
        BY <2>1, <2>3 DEF VInv
    <2> QED
        BY <1>3, <2>1, <2>2, <2>3, <2>4, Literals
<1>5. ASSUME NEW m \in Msg, NEW st \in Status, Decide(m, st)
      PROVE  VInv'
    <2>1. /\ send' = [send EXCEPT ![m] = "saving"]
          /\ verdict' = [verdict EXCEPT ![m] = st] /\ UNCHANGED <<mine, late>>
        BY <1>5 DEF Decide
    <2>2. ASSUME NEW i \in 1 .. Len(messages')
          PROVE  Told(messages[i])'
        <3>1. /\ i \in 1 .. Len(messages)
              /\ messages'[i].id = messages[i].id
              /\ IF messages[i].id = m /\ m \in mine
                 THEN messages'[i].status = st ELSE messages'[i] = messages[i]
            BY <1>5, DecideEntries
        <3>2. messages[i].id \in Msg /\ Told(messages[i])
            BY <3>1, EntryTypes DEF VInv
        <3>3. CASE messages[i].id = m
            BY <2>1, <3>1, <3>2, <3>3 DEF Told, TypeOK
        <3>4. CASE messages[i].id # m
            BY <2>1, <3>1, <3>2, <3>4 DEF Told, TypeOK
        <3> QED
            BY <3>3, <3>4
    <2> QED
        BY <2>1, <2>2 DEF VInv
<1>6. ASSUME NEW m \in Msg, SendEnds(m)
      PROVE  VInv'
    BY <1>2, <1>6 DEF SendEnds, listVars, TypeOK
<1>7. ASSUME NEW m \in Msg, NEW st \in Status, TakeText(m, st)
      PROVE  VInv'
    <2>1. m \notin Sent
        BY <1>7 DEF TakeText, Incoming
    <2> QED
        BY <1>1, <1>3, <1>7, <2>1 DEF TakeText, VInv
<1>8. ASSUME NEW m \in Msg, FileTaken(m)
      PROVE  VInv'
    <2>1. m \notin Sent
        BY <1>8 DEF FileTaken
    <2>2. messages' = Upsert(messages, Of(m, "received")) /\ late' = late \cup {m}
          /\ UNCHANGED <<verdict, mine, send>>
        BY <1>8 DEF FileTaken
    <2> QED
        BY <1>1, <1>3, <2>1, <2>2, Literals DEF VInv
<1>9. CASE HistoryArrives \/ Restart
    <2>1. mine' = {} /\ late' = {}
        BY <1>9 DEF HistoryArrives, Restart
    <2> QED
        BY <2>1 DEF VInv, Told
<1>10. CASE \/ AskHistory \/ StoreAnswers \/ HistoryFails \/ Connect \/ Disconnect
            \/ UNCHANGED vars
    BY <1>2, <1>10 DEF AskHistory, StoreAnswers, HistoryFails, Connect, Disconnect,
                       vars, listVars, runVars
<1>11. ASSUME NEW m \in Msg, NEW st \in Status,
             \/ TextTaken(m) \/ TakeFile(m) \/ WriteFile(m)
             \/ TargetTakes(m) \/ TargetSaves(m, st)
             \/ SenderQueues(m) \/ SenderSaves(m, st)
      PROVE  VInv'
    BY <1>2, <1>11 DEF TextTaken, TakeFile, WriteFile, TargetTakes, TargetSaves,
                       SenderQueues, SenderSaves, listVars, runVars
<1> QED
    BY <1>4, <1>5, <1>6, <1>7, <1>8, <1>9, <1>10, <1>11, Steps

\* A send that began after the history was loaded and has ended shows its
\* verdict: the entry stays the object the send refers to.
THEOREM EndedSendShowsVerdict == Spec => []VerdictIsShown
<1>1. Init => VInv
    BY EmptySeq DEF Init, VInv
<1>2. BInv /\ VInv /\ [Next]_vars => VInv'
    BY NextVerdicts
<1>3. BInv /\ VInv => VerdictIsShown
    BY DEF BInv, VInv, VerdictIsShown, Told, TypeOK
<1> QED
    BY <1>1, <1>2, <1>3, HandlersInvariance, PTL DEF Spec
\* The page after a step that shows it nothing of lower rank.
LEMMA PageStep ==
    ASSUME BInv, TypeOK', PageInv, open' => open,
           \A x \in Msg : Rank[browser'[x]] >= Rank[browser[x]],
           UNCHANGED messages,
           open' => \A i \in 1 .. Len(messages) :
              Pending(messages[i]) =>
                 \/ Pending(messages[i])'
                 \/ Rank[browser'[messages[i].id]] >= Rank[messages[i].status]
    PROVE  PageInv'
<1> SUFFICES ASSUME open', NEW i \in 1 .. Len(messages)
             PROVE  \/ Rank[browser'[messages[i].id]] >= Rank[messages[i].status]
                    \/ Pending(messages[i])'
    BY DEF PageInv
<1>1. /\ messages[i].id \in Msg /\ messages[i].status \in Row
      /\ browser[messages[i].id] \in Row /\ browser'[messages[i].id] \in Row
    BY EntryTypes DEF BInv, TypeOK
<1>2. /\ Rank[messages[i].status] \in Nat /\ Rank[browser[messages[i].id]] \in Nat
      /\ Rank[browser'[messages[i].id]] \in Nat
    BY <1>1, RankFacts
<1>3. CASE Pending(messages[i])
    BY <1>3
<1>4. CASE Rank[browser[messages[i].id]] >= Rank[messages[i].status]
    <2>1. Rank[browser'[messages[i].id]] >= Rank[browser[messages[i].id]]
        BY <1>1
    <2> QED
        BY <1>2, <1>4, <2>1
<1> QED
    BY <1>3, <1>4 DEF PageInv

\* A snapshot shows every entry as it is.
LEMMA PageSnapshot ==
    ASSUME messages' \in Seq(Entry), Distinct(messages'), browser' = Snapshot(messages')
    PROVE  PageInv'
<1> SUFFICES ASSUME NEW i \in 1 .. Len(messages')
             PROVE  Rank[browser'[messages'[i].id]] >= Rank[messages'[i].status]
    BY DEF PageInv
<1>1. browser'[messages'[i].id] = messages'[i].status
    BY SnapshotFacts
<1>2. messages'[i].status \in Row
    <2>1. messages'[i] \in Entry
        BY ElementOfSeq
    <2> QED
        BY <2>1, StatusIsRow DEF Entry
<1> QED
    BY <1>1, <1>2, RankFacts

\* An entry is put in, and the page is told now or by the handler later.
LEMMA PageUpsert ==
    ASSUME BInv, TypeOK', PageInv, open' = open,
           NEW m \in Msg, NEW st \in Status, messages' = Upsert(messages, Of(m, st)),
           \A x \in Msg : Rank[browser'[x]] >= Rank[browser[x]],
           \/ open => Rank[browser'[m]] >= Rank[st]
           \/ st # "none" /\ receiving'[m] = st,
           \A x \in Msg \ {m} :
               /\ receiving'[x] = receiving[x] /\ send'[x] = send[x]
               /\ x \in mine => x \in mine',
           UNCHANGED verdict
    PROVE  PageInv'
<1> SUFFICES ASSUME open, NEW i \in 1 .. Len(messages')
             PROVE  \/ Rank[browser'[messages'[i].id]] >= Rank[messages'[i].status]
                    \/ Pending(messages[i])'
    BY DEF PageInv
<1>1. CASE messages'[i].id = m /\ messages'[i].status = st
    BY <1>1 DEF Pending
<1>2. ASSUME NEW j \in 1 .. Len(messages), messages'[i] = messages[j], messages[j].id # m
      PROVE  \/ Rank[browser'[messages'[i].id]] >= Rank[messages'[i].status]
             \/ Pending(messages[i])'
    <2> DEFINE x == messages[j].id
    <2>1. /\ x \in Msg /\ x # m /\ messages[j].status \in Row
          /\ browser[x] \in Row /\ browser'[x] \in Row
        BY <1>2, EntryTypes DEF BInv, TypeOK
    <2>2. /\ Rank[messages[j].status] \in Nat /\ Rank[browser[x]] \in Nat
          /\ Rank[browser'[x]] \in Nat
        BY <2>1, RankFacts
    <2>3. CASE Pending(messages[j])
        <3>6. x \in Msg \ {m}
            BY <2>1
        <3>1. /\ receiving'[x] = receiving[x] /\ send'[x] = send[x]
              /\ x \in mine => x \in mine'
            <4> HIDE DEF x
            <4> QED
                BY <3>6
        <3>2. verdict'[x] = verdict[x]
            OBVIOUS
        <3>3. messages'[i].id = x /\ messages'[i].status = messages[j].status
            BY <1>2
        <3>4. \/ x \in mine /\ send[x] = "saving" /\ messages[j].status = verdict[x]
              \/ receiving[x] # "none" /\ messages[j].status = receiving[x]
            BY <2>3 DEF Pending
        <3> HIDE DEF x
        <3>5. Pending(messages[i])'
            BY <3>1, <3>2, <3>3, <3>4 DEF Pending
        <3> QED
            BY <3>5
    <2>4. CASE Rank[browser[x]] >= Rank[messages[j].status]
        <3>1. Rank[browser'[x]] >= Rank[browser[x]]
            BY <2>1
        <3>2. Rank[browser'[x]] >= Rank[messages[j].status]
            BY <2>2, <2>4, <3>1
        <3> QED
            BY <1>2, <3>2
    <2> QED
        BY <2>3, <2>4 DEF PageInv
<1>3. TypeOK
    BY DEF BInv
<1> QED
    BY <1>1, <1>2, <1>3, UpsertEntries
LEMMA SameRank ==
    ASSUME BInv, UNCHANGED browser
    PROVE  \A x \in Msg : Rank[browser'[x]] >= Rank[browser[x]]
BY RankFacts DEF BInv, TypeOK

\* Steps of the other end, of the store, and those that hide nothing.
LEMMA PageIdle ==
    ASSUME BInv, TypeOK', PageInv, UNCHANGED <<messages, open, browser>>,
           UNCHANGED <<send, verdict, mine>>,
           \A x \in Msg : receiving[x] # "none" => receiving'[x] = receiving[x]
    PROVE  PageInv'
<1>1. \A i \in 1 .. Len(messages) : Pending(messages[i]) => Pending(messages[i])'
    BY EntryTypes DEF Pending, BInv
<1> QED
    BY <1>1, SameRank, PageStep

LEMMA SendPage ==
    ASSUME BInv, TypeOK', PageInv, VInv, NEW m \in Msg, NEW st \in Status,
           Send(m) \/ Decide(m, st) \/ SendEnds(m)
    PROVE  PageInv'
<1> USE DEF BInv
<1>0. browser \in [Msg -> Row]
    BY DEF TypeOK
<1>1. CASE Send(m)
    <2>1. /\ \A x \in Msg : Rank[browser'[x]] >= Rank[browser[x]]
          /\ open => Rank[browser'[m]] >= Rank["sending"]
        BY <1>0, <1>1, EmitFacts, Literals DEF Send
    <2>2. /\ messages' = Upsert(messages, Of(m, "sending")) /\ mine' = mine \cup {m}
          /\ UNCHANGED <<receiving, verdict, open>>
        BY <1>1 DEF Send, Track
    <2>3. \A x \in Msg \ {m} : send'[x] = send[x]
        BY <1>1 DEF Send, TypeOK
    <2> QED
        BY <2>1, <2>2, <2>3, PageUpsert, Literals
<1>2. CASE Decide(m, st)
    <2>1. /\ send[m] = "trying" /\ send' = [send EXCEPT ![m] = "saving"]
          /\ verdict' = [verdict EXCEPT ![m] = st]
          /\ UNCHANGED <<mine, receiving, open, browser>>
        BY <1>2 DEF Decide, pageVars
    <2> SUFFICES ASSUME open, NEW i \in 1 .. Len(messages')
                 PROVE  \/ Rank[browser'[messages'[i].id]] >= Rank[messages'[i].status]
                        \/ Pending(messages[i])'
        BY <2>1 DEF PageInv
    <2>2. /\ i \in 1 .. Len(messages)
          /\ messages'[i].id = messages[i].id
          /\ IF messages[i].id = m /\ m \in mine
             THEN messages'[i].status = st ELSE messages'[i] = messages[i]
        BY <1>2, DecideEntries
    <2>3. CASE messages[i].id = m /\ m \in mine
        <3>1. send'[m] = "saving" /\ verdict'[m] = st
            BY <2>1 DEF TypeOK
        <3> QED
            BY <2>1, <2>2, <2>3, <3>1 DEF Pending
    <2>4. CASE ~(messages[i].id = m /\ m \in mine)
        <3>1. messages'[i] = messages[i] /\ messages[i].id \in Msg
            BY <2>2, <2>4, EntryTypes
        <3>2. CASE Pending(messages[i])
            <4>1. \/ messages[i].id \in mine /\ send[messages[i].id] = "saving"
                     /\ messages[i].status = verdict[messages[i].id]
                  \/ receiving[messages[i].id] # "none"
                     /\ messages[i].status = receiving[messages[i].id]
                BY <3>2 DEF Pending
            <4>2. messages[i].id \in mine => messages[i].id # m
                BY <2>4
            <4>3. messages[i].id # m => /\ send'[messages[i].id] = send[messages[i].id]
                                        /\ verdict'[messages[i].id] = verdict[messages[i].id]
                BY <2>1, <3>1 DEF TypeOK
            <4> QED
                BY <2>1, <3>1, <4>1, <4>2, <4>3 DEF Pending
        <3>3. CASE Rank[browser[messages[i].id]] >= Rank[messages[i].status]
            BY <2>1, <3>1, <3>3
        <3> QED
            BY <2>2, <3>2, <3>3 DEF PageInv
    <2> QED
        BY <2>3, <2>4
<1>3. CASE SendEnds(m)
    <2>1. /\ send[m] = "saving" /\ send' = [send EXCEPT ![m] = "done"]
          /\ UNCHANGED <<messages, mine, verdict, receiving, open>>
          /\ Emit(m, verdict[m])
        BY <1>3 DEF SendEnds, listVars
    <2>2. verdict[m] \in Status
        BY <2>1 DEF TypeOK, Handlers, Row
    <2>3. /\ \A x \in Msg : Rank[browser'[x]] >= Rank[browser[x]]
          /\ open => Rank[browser'[m]] >= Rank[verdict[m]]
        BY <1>0, <2>1, <2>2, EmitFacts
    <2>4. ASSUME open, NEW i \in 1 .. Len(messages), Pending(messages[i])
          PROVE  \/ Pending(messages[i])'
                 \/ Rank[browser'[messages[i].id]] >= Rank[messages[i].status]
        <3>1. CASE /\ messages[i].id = m
                   /\ messages[i].status = verdict[m]
            BY <2>3, <2>4, <3>1
        <3>2. CASE /\ messages[i].id # m \/ messages[i].status # verdict[m]
            <4>1. messages[i].id # m => send'[messages[i].id] = send[messages[i].id]
                BY <2>1, EntryTypes DEF TypeOK
            <4> QED
                BY <2>1, <2>4, <3>2, <4>1 DEF Pending
        <3> QED
            BY <3>1, <3>2
    <2> QED
        BY <2>1, <2>3, <2>4, PageStep
<1> QED
    BY <1>1, <1>2, <1>3

LEMMA ReceiptPage ==
    ASSUME BInv, TypeOK', PageInv, NEW m \in Msg, NEW st \in Status,
           \/ TakeText(m, st) \/ TextTaken(m)
           \/ TakeFile(m) \/ WriteFile(m) \/ FileTaken(m)
    PROVE  PageInv'
<1> USE DEF BInv
<1>0. browser \in [Msg -> Row]
    BY DEF TypeOK
<1>1. CASE TakeText(m, st)
    <2>1. /\ messages' = Upsert(messages, Of(m, st))
          /\ UNCHANGED <<mine, send, verdict, open, browser>>
          /\ receiving' = [receiving EXCEPT ![m] = st]
        BY <1>1 DEF TakeText, pageVars
    <2>2. receiving'[m] = st /\ \A x \in Msg \ {m} : receiving'[x] = receiving[x]
        BY <2>1 DEF TypeOK
    <2>3. st # "none"
        BY DEF Status
    <2>4. \A x \in Msg : Rank[browser'[x]] >= Rank[browser[x]]
        BY <2>1, SameRank
    <2> QED
        BY <2>1, <2>2, <2>3, <2>4, PageUpsert
<1>2. CASE TextTaken(m)
    <2>1. /\ receiving[m] # "none" /\ receiving' = [receiving EXCEPT ![m] = "none"]
          /\ UNCHANGED <<messages, mine, send, verdict, open>>
          /\ Emit(m, receiving[m])
        BY <1>2 DEF TextTaken, listVars
    <2>2. receiving[m] \in Status
        BY <2>1 DEF TypeOK, Row
    <2>3. /\ \A x \in Msg : Rank[browser'[x]] >= Rank[browser[x]]
          /\ open => Rank[browser'[m]] >= Rank[receiving[m]]
        BY <1>0, <2>1, <2>2, EmitFacts
    <2>4. ASSUME open, NEW i \in 1 .. Len(messages), Pending(messages[i])
          PROVE  \/ Pending(messages[i])'
                 \/ Rank[browser'[messages[i].id]] >= Rank[messages[i].status]
        <3>1. CASE /\ messages[i].id = m
                   /\ messages[i].status = receiving[m]
            BY <2>3, <2>4, <3>1
        <3>2. CASE /\ messages[i].id # m \/ messages[i].status # receiving[m]
            <4>1. messages[i].id # m => receiving'[messages[i].id] = receiving[messages[i].id]
                BY <2>1, EntryTypes DEF TypeOK
            <4> QED
                BY <2>1, <2>4, <3>2, <4>1 DEF Pending
        <3> QED
            BY <3>1, <3>2
    <2> QED
        BY <2>1, <2>3, <2>4, PageStep
<1>3. CASE TakeFile(m)
    <2>1. receiving[m] = "none"
        BY <1>3 DEF TakeFile, Handlers, TypeOK
    <2>2. \A x \in Msg : receiving[x] # "none" => receiving'[x] = receiving[x]
        BY <1>3, <2>1 DEF TakeFile, TypeOK
    <2> QED
        BY <1>3, <2>2, PageIdle DEF TakeFile, listVars, pageVars
<1>4. CASE WriteFile(m)
    BY <1>4, PageIdle DEF WriteFile, listVars, runVars, pageVars
<1>5. CASE FileTaken(m)
    <2>1. /\ messages' = Upsert(messages, Of(m, "received"))
          /\ UNCHANGED <<mine, send, verdict, open>>
          /\ receiving' = [receiving EXCEPT ![m] = "none"]
          /\ Emit(m, "received")
        BY <1>5 DEF FileTaken
    <2>2. \A x \in Msg \ {m} : receiving'[x] = receiving[x]
        BY <2>1 DEF TypeOK
    <2>3. /\ \A x \in Msg : Rank[browser'[x]] >= Rank[browser[x]]
          /\ open => Rank[browser'[m]] >= Rank["received"]
        BY <1>0, <2>1, EmitFacts, Literals
    <2> QED
        BY <2>1, <2>2, <2>3, PageUpsert, Literals
<1> QED
    BY <1>1, <1>2, <1>3, <1>4, <1>5

LEMMA NextPage ==
    ASSUME BInv, LInv, LInv', VInv, TypeOK', PageInv, [Next]_vars
    PROVE  PageInv'
<1> USE DEF BInv
<1>1. ASSUME NEW s, messages' = s, browser' = IF open THEN Snapshot(s) ELSE browser,
             open' = open
      PROVE  PageInv'
    <2>1. CASE open
        BY <1>1, <2>1, PageSnapshot DEF LInv, TypeOK
    <2>2. CASE ~open
        BY <1>1, <2>2 DEF PageInv
    <2> QED
        BY <2>1, <2>2
<1>2. CASE HistoryArrives
    BY <1>1, <1>2 DEF HistoryArrives
<1>3. CASE HistoryFails
    BY <1>1, <1>3 DEF HistoryFails
<1>4. CASE Connect
    BY <1>4, PageSnapshot DEF Connect, LInv, TypeOK, listVars
<1>5. CASE Disconnect \/ Restart
    BY <1>5 DEF Disconnect, Restart, PageInv
<1>6. CASE AskHistory \/ StoreAnswers \/ UNCHANGED vars
    BY <1>6, PageIdle DEF AskHistory, StoreAnswers, vars, listVars, runVars, pageVars
<1>7. ASSUME NEW m \in Msg, NEW st \in Status,
             \/ TargetTakes(m) \/ TargetSaves(m, st)
             \/ SenderQueues(m) \/ SenderSaves(m, st)
      PROVE  PageInv'
    BY <1>7, PageIdle DEF TargetTakes, TargetSaves, SenderQueues, SenderSaves,
                          listVars, runVars, pageVars
<1> QED
    BY <1>2, <1>3, <1>4, <1>5, <1>6, <1>7, SendPage, ReceiptPage, Steps

\* A connected page misses nothing once nothing is under way: for any number of
\* messages, disconnections and restarts of the peer.
THEOREM PageIsUpToDate == Spec => []BrowserKeepsUp
<1> DEFINE I == BInv /\ LInv /\ VInv /\ PageInv
<1>1. Init => I
    BY InitTypes, EmptySeq
    DEF Init, BInv, Handlers, NoRows, LInv, Loading, Distinct, VInv, PageInv
<1>2. I /\ [Next]_vars => I'
    <2>1. BInv /\ [Next]_vars => BInv'
        BY NextTypes, NextHandlers DEF BInv
    <2> QED
        BY <2>1, NextList, NextVerdicts, NextPage DEF BInv
<1>3. I => BrowserKeepsUp
    <2> SUFFICES ASSUME BInv, PageInv, open, Quiet, NEW i \in 1 .. Len(messages)
                 PROVE  Rank[browser[messages[i].id]] >= Rank[messages[i].status]
        BY DEF BrowserKeepsUp
    <2>1. ~Pending(messages[i])
        BY EntryTypes DEF Pending, Quiet, BInv
    <2> QED
        BY <2>1 DEF PageInv
<1> QED
    BY <1>1, <1>2, <1>3, PTL DEF Spec
=============================================================================
