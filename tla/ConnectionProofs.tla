------------------------- MODULE ConnectionProofs -------------------------
(***************************************************************************)
(* One connection, for streams of any length cut into any chunks.           *)
(***************************************************************************)
EXTENDS Connection, WellFoundedInduction, SequenceTheorems, TLAPS

USE FramesOK DEF FramesOK

-----------------------------------------------------------------------------
(* Induction and recursion over numbers, with sets in place of predicates *)

LEMMA SetInduction ==
    ASSUME NEW S, 0 \in S, \A n \in Nat : n \in S => n + 1 \in S
    PROVE  Nat \subseteq S
<1> DEFINE R == {p \in Nat \X Nat : p[1] < p[2]}
           T == Nat \ S
<1>1. SUFFICES ASSUME T # {} PROVE FALSE
    BY Zenon
<1>2. IsWellFoundedOn(R, Nat)
    BY NatLessThanWellFounded DEF OpToRel
<1>3. T \subseteq Nat
    OBVIOUS
<1>4. PICK x \in T : \A y \in T : ~(<<y, x>> \in R)
    <2> HIDE DEF R, T
    <2> QED
        BY <1>1, <1>2, <1>3, WFMin
<1>5. x # 0 /\ x \in Nat
    OBVIOUS
<1>6. x - 1 \in Nat /\ x - 1 < x /\ (x - 1) + 1 = x
    BY <1>5
<1>7. x - 1 \in T
    BY <1>6
<1>8. <<x - 1, x>> \in R
    BY <1>5, <1>6
<1> QED
    BY <1>4, <1>7, <1>8

\* f has the value b at 0 and goes on with the step g.
Recursive(f, n, b, g) ==
    f[0] = b /\ \A k \in 1 .. n : f[k] = g[<<f[k - 1], k>>]

LEMMA RecursionExists ==
    ASSUME NEW S, NEW b \in S, NEW n \in Nat, NEW g \in [S \X (1 .. n) -> S]
    PROVE  \E f \in [0 .. n -> S] : Recursive(f, n, b, g)
<1> DEFINE Good(f, k) == /\ f \in [0 .. k -> S]
                         /\ f[0] = b
                         /\ \A i \in 1 .. k : f[i] = g[<<f[i - 1], i>>]
           T == {k \in Nat : k <= n => \E f : Good(f, k)}
<1>1. 0 \in T
    <2>1. Good([i \in 0 .. 0 |-> b], 0)
        OBVIOUS
    <2> QED
        BY <2>1
<1>2. ASSUME NEW k \in Nat, k \in T
      PROVE  k + 1 \in T
    <2>1. SUFFICES ASSUME k + 1 <= n PROVE \E f : Good(f, k + 1)
        OBVIOUS
    <2>2. PICK f : Good(f, k)
        BY <1>2, <2>1
    <2> DEFINE h == [i \in 0 .. k + 1 |-> IF i <= k THEN f[i] ELSE g[<<f[k], k + 1>>]]
    <2>3. g[<<f[k], k + 1>>] \in S
        BY <2>1, <2>2
    <2>4. h \in [0 .. k + 1 -> S]
        BY <2>2, <2>3
    <2>5. h[0] = b
        BY <2>2
    <2>6. ASSUME NEW i \in 1 .. k + 1
          PROVE  h[i] = g[<<h[i - 1], i>>]
        <3>1. h[i - 1] = f[i - 1]
            OBVIOUS
        <3>2. CASE i <= k
            BY <2>2, <3>1, <3>2
        <3>3. CASE i = k + 1
            <4>1. i - 1 = k /\ ~(i <= k)
                BY <3>3
            <4>2. h[i] = g[<<f[k], k + 1>>]
                BY <3>3, <4>1
            <4> HIDE DEF h
            <4> QED
                BY <3>1, <3>3, <4>1, <4>2
        <3> QED
            BY <3>2, <3>3
    <2>7. Good(h, k + 1)
        <3> HIDE DEF h
        <3> QED
            BY <2>4, <2>5, <2>6
    <2> QED
        BY <2>7
<1>3. n \in T
    <2> HIDE DEF T
    <2> QED
        BY <1>1, <1>2, SetInduction
<1>4. PICK f : Good(f, n)
    BY <1>3
<1> QED
    BY <1>4 DEF Recursive


-----------------------------------------------------------------------------
(* The frames that must have arrived *)

LEMMA CompleteDef ==
    /\ Complete \in [0 .. Frames -> Seq(Frame)]
    /\ Complete[0] = <<>>
    /\ \A n \in 1 .. Frames :
          Complete[n] = IF n \in Malformed THEN Complete[n - 1]
                        ELSE Append(Complete[n - 1], n)
<1> DEFINE e == <<>>
           g == [p \in Seq(Frame) \X (1 .. Frames) |->
                   IF p[2] \in Malformed THEN p[1] ELSE Append(p[1], p[2])]
           Eq(f) == f = [n \in 0 .. Frames |->
                           IF n = 0 THEN e
                           ELSE IF n \in Malformed THEN f[n - 1]
                           ELSE Append(f[n - 1], n)]
<1>1. g \in [Seq(Frame) \X (1 .. Frames) -> Seq(Frame)]
    <2>1. ASSUME NEW s \in Seq(Frame), NEW n \in 1 .. Frames
          PROVE  Append(s, n) \in Seq(Frame)
        BY AppendProperties DEF Frame
    <2>2. \A p \in Seq(Frame) \X (1 .. Frames) : Append(p[1], p[2]) \in Seq(Frame)
        BY <2>1
    <2> QED
        BY <2>2
<1>2. e \in Seq(Frame) /\ Frames \in Nat
    OBVIOUS
<1> HIDE DEF e
<1>3. PICK f \in [0 .. Frames -> Seq(Frame)] : Recursive(f, Frames, e, g)
    <2> HIDE DEF g
    <2> QED
        BY <1>1, <1>2, RecursionExists
<1>4. f[0] = e /\ \A n \in 1 .. Frames : f[n] = g[<<f[n - 1], n>>]
    <2> HIDE DEF g
    <2> QED
        BY <1>3 DEF Recursive
<1>5. \A n \in 1 .. Frames : f[n] = IF n \in Malformed THEN f[n - 1] ELSE Append(f[n - 1], n)
    <2>1. \A n \in 1 .. Frames : <<f[n - 1], n>> \in Seq(Frame) \X (1 .. Frames)
        BY <1>2
    <2> QED
        BY <1>4, <2>1
<1>6. Eq(f)
    <2> DEFINE h == [n \in 0 .. Frames |->
                       IF n = 0 THEN e
                       ELSE IF n \in Malformed THEN f[n - 1]
                       ELSE Append(f[n - 1], n)]
    <2>1. \A n \in 0 .. Frames : f[n] = h[n]
        <3>1. h[0] = e
            BY <1>2
        <3>2. ASSUME NEW n \in 1 .. Frames
              PROVE  n \in 0 .. Frames /\ n # 0
            OBVIOUS
        <3>3. ASSUME NEW n \in 1 .. Frames
              PROVE  h[n] = IF n \in Malformed THEN f[n - 1] ELSE Append(f[n - 1], n)
            BY <3>2, Zenon
        <3>4. \A n \in 0 .. Frames : n = 0 \/ n \in 1 .. Frames
            OBVIOUS
        <3> HIDE DEF h
        <3> QED
            BY <1>4, <1>5, <3>1, <3>3, <3>4, Zenon
    <2>2. f = [n \in 0 .. Frames |-> f[n]]
        OBVIOUS
    <2>3. f = h
        BY <2>1, <2>2
    <2> QED
        BY <2>3
<1>7. Eq(Complete)
    <2>1. Complete = CHOOSE h : Eq(h)
        BY DEF Complete, e
    <2> HIDE DEF Eq
    <2> QED
        BY <1>6, <2>1
<1>8. /\ Complete[0] = e
      /\ \A n \in 1 .. Frames :
            Complete[n] = IF n \in Malformed THEN Complete[n - 1]
                          ELSE Append(Complete[n - 1], n)
      /\ Complete = [n \in 0 .. Frames |-> Complete[n]]
    <2> DEFINE h == [n \in 0 .. Frames |->
                       IF n = 0 THEN e
                       ELSE IF n \in Malformed THEN Complete[n - 1]
                       ELSE Append(Complete[n - 1], n)]
    <2>1. Complete = h
        BY <1>7
    <2>2. /\ h[0] = e
          /\ \A n \in 1 .. Frames :
                h[n] = IF n \in Malformed THEN Complete[n - 1]
                       ELSE Append(Complete[n - 1], n)
          /\ h = [n \in 0 .. Frames |-> h[n]]
        <3>1. h[0] = e
            BY <1>2
        <3>2. ASSUME NEW n \in 1 .. Frames
              PROVE  n \in 0 .. Frames /\ n # 0
            OBVIOUS
        <3>3. ASSUME NEW n \in 1 .. Frames
              PROVE  h[n] = IF n \in Malformed THEN Complete[n - 1]
                            ELSE Append(Complete[n - 1], n)
            BY <3>2, Zenon
        <3>4. h = [n \in 0 .. Frames |-> h[n]]
            BY Zenon
        <3> HIDE DEF h
        <3> QED
            BY <3>1, <3>3, <3>4
    <2> HIDE DEF h
    <2> QED
        BY <2>1, <2>2
<1> DEFINE T == {n \in Nat : n <= Frames => Complete[n] \in Seq(Frame)}
<1>9. 0 \in T
    BY <1>2, <1>8
<1>10. ASSUME NEW n \in Nat, n \in T
       PROVE  n + 1 \in T
    <2>1. SUFFICES ASSUME n + 1 <= Frames PROVE Complete[n + 1] \in Seq(Frame)
        OBVIOUS
    <2>2. n + 1 \in 1 .. Frames /\ n + 1 \in Frame /\ (n + 1) - 1 = n
        BY <2>1, <1>2 DEF Frame
    <2>3. Complete[n + 1] = IF n + 1 \in Malformed THEN Complete[n]
                            ELSE Append(Complete[n], n + 1)
        BY <1>8, <2>2
    <2>4. Complete[n] \in Seq(Frame)
        BY <1>2, <1>10, <2>1
    <2> QED
        BY <2>2, <2>3, <2>4, AppendProperties
<1>11. Nat \subseteq T
    <2> HIDE DEF T
    <2> QED
        BY <1>9, <1>10, SetInduction
<1>12. \A n \in 0 .. Frames : Complete[n] \in Seq(Frame)
    BY <1>2, <1>11
<1>13. Complete \in [0 .. Frames -> Seq(Frame)]
    BY <1>8, <1>12
<1> QED
    BY <1>8, <1>13 DEF e

-----------------------------------------------------------------------------
(* parseFrames *)

Parsed == [frames : Seq(Payload), rest : Seq(Char)]
Nothing == [frames |-> <<>>, rest |-> <<>>]

LEMMA ScanType ==
    ASSUME NEW acc \in Parsed, NEW c \in Char
    PROVE  Scan(acc, c) \in Parsed
<1>1. acc.frames \in Seq(Payload) /\ acc.rest \in Seq(Char)
    BY DEF Parsed
<1>2. CASE c.part # "n"
    <2>1. Scan(acc, c) = [frames |-> acc.frames, rest |-> Append(acc.rest, c)]
        BY <1>2 DEF Scan, Parsed
    <2>2. Append(acc.rest, c) \in Seq(Char)
        BY <1>1, AppendProperties
    <2> QED
        BY <1>1, <2>1, <2>2 DEF Parsed
<1>3. CASE c.part = "n"
    <2> DEFINE p == [frame |-> c.frame,
                     intact |-> \A k \in DOMAIN acc.rest : acc.rest[k].part # "bad"]
    <2>1. p \in Payload
        BY DEF Payload, Char
    <2>2. Append(acc.frames, p) \in Seq(Payload)
        <3> HIDE DEF p
        <3> QED
            BY <1>1, <2>1, AppendProperties
    <2>3. <<>> \in Seq(Char)
        OBVIOUS
    <2>4. Scan(acc, c) = [rest |-> <<>>,
                          frames |-> IF c.frame \in Malformed THEN acc.frames
                                     ELSE Append(acc.frames, p)]
        BY <1>3, Zenon DEF Scan
    <2> HIDE DEF p
    <2> QED
        BY <1>1, <2>2, <2>3, <2>4 DEF Parsed
<1> QED
    BY <1>2, <1>3

\* The frames and the rest of each initial part of the text.
LEMMA ReadExists ==
    ASSUME NEW text \in Seq(Char)
    PROVE  \E read \in [0 .. Len(text) -> Parsed] :
              /\ read[0] = Nothing
              /\ \A k \in 1 .. Len(text) : read[k] = Scan(read[k - 1], text[k])
              /\ ParseFrames(text) = read[Len(text)]
<1> DEFINE n == Len(text)
           g == [p \in Parsed \X (1 .. n) |-> Scan(p[1], text[p[2]])]
           Eq(f) == f = [k \in 0 .. n |->
                           IF k = 0 THEN Nothing ELSE Scan(f[k - 1], text[k])]
           read == CHOOSE f : Eq(f)
<1>1. n \in Nat /\ \A k \in 1 .. n : text[k] \in Char
    BY LenProperties, ElementOfSeq
<1>2. ParseFrames(text) = read[n]
    BY DEF ParseFrames, Nothing
<1> HIDE DEF n
<1>3. Nothing \in Parsed
    BY DEF Nothing, Parsed
<1>4. g \in [Parsed \X (1 .. n) -> Parsed]
    <2>1. \A p \in Parsed \X (1 .. n) : Scan(p[1], text[p[2]]) \in Parsed
        BY <1>1, ScanType
    <2> QED
        BY <2>1
<1>5. PICK f \in [0 .. n -> Parsed] : Recursive(f, n, Nothing, g)
    <2> HIDE DEF g
    <2> QED
        BY <1>1, <1>3, <1>4, RecursionExists
<1>6. f[0] = Nothing /\ \A k \in 1 .. n : f[k] = Scan(f[k - 1], text[k])
    <2>1. f[0] = Nothing /\ \A k \in 1 .. n : f[k] = g[<<f[k - 1], k>>]
        <3> HIDE DEF g
        <3> QED
            BY <1>5 DEF Recursive
    <2>2. \A k \in 1 .. n : <<f[k - 1], k>> \in Parsed \X (1 .. n)
        BY <1>1
    <2> QED
        BY <2>1, <2>2
<1>7. \A k \in 0 .. n : k = 0 \/ k \in 1 .. n
    BY <1>1
<1>8. ASSUME NEW k \in 1 .. n
      PROVE  k \in 0 .. n /\ k # 0
    BY <1>1
<1>9. Eq(f)
    <2> DEFINE h == [k \in 0 .. n |-> IF k = 0 THEN Nothing ELSE Scan(f[k - 1], text[k])]
    <2>1. h[0] = Nothing
        BY <1>1
    <2>2. ASSUME NEW k \in 1 .. n
          PROVE  h[k] = Scan(f[k - 1], text[k])
        BY <1>8, Zenon
    <2>3. \A k \in 0 .. n : f[k] = h[k]
        <3> HIDE DEF h
        <3> QED
            BY <1>6, <1>7, <2>1, <2>2, Zenon
    <2>4. f = [k \in 0 .. n |-> f[k]]
        OBVIOUS
    <2>5. f = h
        BY <2>3, <2>4
    <2> QED
        BY <2>5
<1>10. Eq(read)
    <2> HIDE DEF Eq
    <2> QED
        BY <1>9
<1>11. /\ read[0] = Nothing
       /\ \A k \in 1 .. n : read[k] = Scan(read[k - 1], text[k])
       /\ read = [k \in 0 .. n |-> read[k]]
    <2> DEFINE h == [k \in 0 .. n |->
                       IF k = 0 THEN Nothing ELSE Scan(read[k - 1], text[k])]
    <2>1. read = h
        BY <1>10
    <2> HIDE DEF read
    <2>2. h[0] = Nothing
        BY <1>1
    <2>3. ASSUME NEW k \in 1 .. n
          PROVE  h[k] = Scan(read[k - 1], text[k])
        BY <1>8, Zenon
    <2>4. h = [k \in 0 .. n |-> h[k]]
        BY Zenon
    <2> HIDE DEF h
    <2> QED
        BY <2>1, <2>2, <2>3, <2>4
<1> HIDE DEF read
<1> DEFINE T == {k \in Nat : k <= n => read[k] \in Parsed}
<1>12. 0 \in T
    BY <1>3, <1>11
<1>13. ASSUME NEW k \in Nat, k \in T
       PROVE  k + 1 \in T
    <2>1. SUFFICES ASSUME k + 1 <= n PROVE read[k + 1] \in Parsed
        OBVIOUS
    <2>2. k + 1 \in 1 .. n /\ (k + 1) - 1 = k
        BY <1>1, <2>1
    <2>3. read[k + 1] = Scan(read[k], text[k + 1])
        BY <1>11, <2>2
    <2>4. read[k] \in Parsed
        BY <1>1, <1>13, <2>1
    <2> QED
        BY <1>1, <2>2, <2>3, <2>4, ScanType
<1>14. Nat \subseteq T
    <2> HIDE DEF T
    <2> QED
        BY <1>12, <1>13, SetInduction
<1>15. \A k \in 0 .. n : read[k] \in Parsed
    BY <1>1, <1>14
<1>16. read \in [0 .. n -> Parsed]
    BY <1>11, <1>15
<1> QED
    BY <1>2, <1>11, <1>16 DEF n

\* A text that begins at the first byte of frame m + 1 of the stream.
Aligned(text, m) ==
    \A k \in 1 .. Len(text) : /\ text[k].part = "n" <=> k % 3 = 0
                              /\ text[k].frame = m + (k - 1) \div 3 + 1

NoNewline(text) == \A k \in 1 .. Len(text) : text[k].part # "n"
OfFrame(text, f) == \A k \in 1 .. Len(text) : text[k].frame = f

\* Nothing is destroyed but in the frames of X.
CleanBut(text, X) ==
    \A k \in 1 .. Len(text) : text[k].part = "bad" => text[k].frame \in X
IntactBut(s, X) == \A i \in 1 .. Len(s) : s[i].intact \/ s[i].frame \in X

LEMMA ByThree ==
    ASSUME NEW k \in Nat
    PROVE  /\ k \div 3 \in Nat /\ k % 3 \in 0 .. 2
           /\ ((k + 1) - 1) \div 3 = k \div 3
           /\ (k + 1) % 3 = 0 => (k + 1) \div 3 = k \div 3 + 1
           /\ (k + 1) % 3 # 0 => /\ (k + 1) \div 3 = k \div 3
                                 /\ (k + 1) % 3 = (k % 3) + 1
OBVIOUS

LEMMA MulThree ==
    ASSUME NEW m \in Nat, NEW k \in Nat
    PROVE  (3 * m + k) % 3 = k % 3 /\ (3 * m + k) \div 3 = m + k \div 3
OBVIOUS

LEMMA InFirstTwo ==
    ASSUME NEW k \in Nat, NEW b \in 0 .. 2, k # 0, k <= b
    PROVE  k % 3 # 0
OBVIOUS

LEMMA FrameOfType ==
    ASSUME NEW s \in Seq(Payload)
    PROVE  /\ FrameOf(s) \in Seq(Frame) /\ Len(FrameOf(s)) = Len(s)
           /\ \A i \in 1 .. Len(s) : FrameOf(s)[i] = s[i].frame
<1> DEFINE f == [i \in 1 .. Len(s) |-> s[i].frame]
<1>1. Len(s) \in Nat /\ DOMAIN s = 1 .. Len(s)
    BY LenProperties
<1>2. \A i \in 1 .. Len(s) : s[i].frame \in Frame
    <2>1. \A i \in 1 .. Len(s) : s[i] \in Payload
        BY ElementOfSeq
    <2>2. \A q \in Payload : q.frame \in Frame
        BY DEF Payload
    <2> QED
        BY <2>1, <2>2
<1>3. f \in [1 .. Len(s) -> Frame]
    BY <1>2
<1>4. f \in Seq(Frame)
    <2> HIDE DEF f
    <2> QED
        BY <1>1, <1>3, SeqDef
<1>5. Len(f) = Len(s)
    BY <1>1, <1>3, <1>4, LenProperties
<1>6. FrameOf(s) = f
    BY <1>1 DEF FrameOf
<1> QED
    BY <1>4, <1>5, <1>6

LEMMA FrameOfAppend ==
    ASSUME NEW s \in Seq(Payload), NEW p \in Payload
    PROVE  /\ FrameOf(s) \in Seq(Frame) /\ p.frame \in Frame
           /\ FrameOf(Append(s, p)) = Append(FrameOf(s), p.frame)
<1>1. FrameOf(s) \in Seq(Frame) /\ Len(FrameOf(s)) = Len(s) /\ p.frame \in Frame
    BY FrameOfType DEF Payload
<1>2. Append(s, p) \in Seq(Payload) /\ Len(Append(s, p)) = Len(s) + 1
    BY AppendProperties
<1>3. FrameOf(Append(s, p)) \in Seq(Frame) /\ Len(FrameOf(Append(s, p))) = Len(s) + 1
    <2> DEFINE q == Append(s, p)
    <2>1. q \in Seq(Payload)
        BY <1>2
    <2> HIDE DEF q
    <2>2. FrameOf(q) \in Seq(Frame) /\ Len(FrameOf(q)) = Len(q)
        BY <2>1, FrameOfType
    <2> QED
        BY <1>2, <2>2 DEF q
<1>4. ASSUME NEW i \in 1 .. Len(s) + 1
      PROVE  FrameOf(Append(s, p))[i] = Append(FrameOf(s), p.frame)[i]
    <2>1. FrameOf(Append(s, p))[i] = Append(s, p)[i].frame
        BY <1>2, FrameOfType
    <2>2. CASE i \in 1 .. Len(s)
        <3>1. Append(s, p)[i] = s[i]
            BY <2>2, AppendProperties
        <3>2. Append(FrameOf(s), p.frame)[i] = FrameOf(s)[i]
            BY <1>1, <2>2, AppendProperties
        <3> QED
            BY <2>1, <2>2, <3>1, <3>2, FrameOfType
    <2>3. CASE i = Len(s) + 1
        <3>1. Append(s, p)[i] = p
            BY <2>3, AppendProperties
        <3>2. Append(FrameOf(s), p.frame)[i] = p.frame
            BY <1>1, <2>3, AppendProperties
        <3> QED
            BY <2>1, <3>1, <3>2
    <2>4. i \in 1 .. Len(s) \/ i = Len(s) + 1
        <3>1. Len(s) \in Nat
            BY LenProperties
        <3> QED
            BY <3>1
    <2> QED
        BY <2>2, <2>3, <2>4
<1> QED
    <2>1. Append(FrameOf(s), p.frame) \in Seq(Frame)
          /\ Len(Append(FrameOf(s), p.frame)) = Len(s) + 1
        BY <1>1, AppendProperties
    <2> QED
        BY <1>1, <1>3, <1>4, <2>1, SeqEqual

LEMMA FrameOfConcat ==
    ASSUME NEW s \in Seq(Payload), NEW u \in Seq(Payload)
    PROVE  /\ FrameOf(s) \in Seq(Frame) /\ FrameOf(u) \in Seq(Frame)
           /\ FrameOf(s \o u) = FrameOf(s) \o FrameOf(u)
<1>1. FrameOf(s) \in Seq(Frame) /\ Len(FrameOf(s)) = Len(s)
    BY FrameOfType DEF Payload
<1>2. FrameOf(u) \in Seq(Frame) /\ Len(FrameOf(u)) = Len(u)
    BY FrameOfType DEF Payload
<1>3. s \o u \in Seq(Payload) /\ Len(s \o u) = Len(s) + Len(u)
    BY ConcatProperties
<1>4. FrameOf(s \o u) \in Seq(Frame) /\ Len(FrameOf(s \o u)) = Len(s) + Len(u)
    <2> DEFINE q == s \o u
    <2>1. q \in Seq(Payload)
        BY <1>3
    <2> HIDE DEF q
    <2>2. FrameOf(q) \in Seq(Frame) /\ Len(FrameOf(q)) = Len(q)
        BY <2>1, FrameOfType
    <2> QED
        BY <1>3, <2>2 DEF q
<1>5. FrameOf(s) \o FrameOf(u) \in Seq(Frame)
      /\ Len(FrameOf(s) \o FrameOf(u)) = Len(s) + Len(u)
    <2> DEFINE a == FrameOf(s)
               b == FrameOf(u)
    <2>1. a \in Seq(Frame) /\ b \in Seq(Frame) /\ Len(a) = Len(s) /\ Len(b) = Len(u)
        BY <1>1, <1>2
    <2> HIDE DEF a, b
    <2>2. a \o b \in Seq(Frame)
        BY <2>1, ConcatProperties
    <2>3. Len(a \o b) = Len(a) + Len(b)
        BY <2>1, ConcatProperties
    <2> QED
        BY <2>1, <2>2, <2>3 DEF a, b
<1>6. ASSUME NEW i \in 1 .. Len(s) + Len(u)
      PROVE  FrameOf(s \o u)[i] = (FrameOf(s) \o FrameOf(u))[i]
    <2>1. FrameOf(s \o u)[i] = (s \o u)[i].frame
        BY <1>3, FrameOfType
    <2>2. (s \o u)[i] = IF i <= Len(s) THEN s[i] ELSE u[i - Len(s)]
        BY ConcatProperties
    <2>3. (FrameOf(s) \o FrameOf(u))[i] =
             IF i <= Len(s) THEN FrameOf(s)[i] ELSE FrameOf(u)[i - Len(s)]
        BY <1>1, <1>2, ConcatProperties
    <2> QED
        BY <2>1, <2>2, <2>3, FrameOfType
<1> QED
    BY <1>1, <1>2, <1>4, <1>5, <1>6, SeqEqual

\* One character: a newline ends a frame, which is added to the frames if it is
\* JSON; any other is added to the rest.
LEMMA ScanFacts ==
    ASSUME NEW acc \in Parsed, NEW c \in Char, NEW m \in 0 .. Frames,
           NEW q \in 0 .. Frames, Complete[m] \o FrameOf(acc.frames) = Complete[q],
           NoNewline(acc.rest), OfFrame(acc.rest, q + 1), c.frame = q + 1, NEW X
    PROVE  /\ c.part # "n" =>
                /\ Complete[m] \o FrameOf(Scan(acc, c).frames) = Complete[q]
                /\ Len(Scan(acc, c).rest) = Len(acc.rest) + 1
                /\ OfFrame(Scan(acc, c).rest, q + 1)
           /\ c.part = "n" =>
                /\ Complete[m] \o FrameOf(Scan(acc, c).frames) = Complete[q + 1]
                /\ Len(Scan(acc, c).rest) = 0
           /\ NoNewline(Scan(acc, c).rest)
           /\ /\ c.part = "bad" => c.frame \in X
              /\ CleanBut(acc.rest, X) /\ IntactBut(acc.frames, X)
              => CleanBut(Scan(acc, c).rest, X) /\ IntactBut(Scan(acc, c).frames, X)
<1>1. acc.frames \in Seq(Payload) /\ acc.rest \in Seq(Char)
    BY DEF Parsed
<1>2. CASE c.part # "n"
    <2> DEFINE r == Append(acc.rest, c)
    <2>1. Scan(acc, c).frames = acc.frames /\ Scan(acc, c).rest = r
        BY <1>2 DEF Scan, Parsed
    <2>2. /\ Len(r) = Len(acc.rest) + 1
          /\ \A i \in 1 .. Len(acc.rest) : r[i] = acc.rest[i]
          /\ r[Len(acc.rest) + 1] = c
          /\ Len(acc.rest) \in Nat
        BY <1>1, AppendProperties, LenProperties
    <2> HIDE DEF r
    <2>3. \A i \in 1 .. Len(r) : i \in 1 .. Len(acc.rest) \/ i = Len(acc.rest) + 1
        BY <2>2
    <2> QED
        BY <1>2, <2>1, <2>2, <2>3 DEF NoNewline, OfFrame, CleanBut
<1>3. CASE c.part = "n"
    <2> DEFINE p == [frame |-> c.frame,
                     intact |-> \A k \in DOMAIN acc.rest : acc.rest[k].part # "bad"]
    <2>1. p \in Payload /\ p.frame = c.frame
        BY DEF Payload, Char
    <2>2. CleanBut(acc.rest, X) => p.intact \/ p.frame \in X
        <3>1. DOMAIN acc.rest = 1 .. Len(acc.rest)
            BY <1>1, LenProperties
        <3> QED
            BY <3>1 DEF CleanBut, OfFrame
    <2> HIDE DEF p
    <2>3. Scan(acc, c).rest = <<>>
        BY <1>3 DEF Scan
    <2>4. Scan(acc, c).frames = IF c.frame \in Malformed THEN acc.frames
                                ELSE Append(acc.frames, p)
        BY <1>3 DEF Scan, p
    <2>5. Len(Scan(acc, c).rest) = 0 /\ NoNewline(Scan(acc, c).rest)
          /\ CleanBut(Scan(acc, c).rest, X)
        BY <2>3 DEF NoNewline, CleanBut
    <2>6. CleanBut(acc.rest, X) /\ IntactBut(acc.frames, X) =>
             IntactBut(Scan(acc, c).frames, X)
        <3> DEFINE s == Append(acc.frames, p)
        <3>1. /\ Len(s) = Len(acc.frames) + 1
              /\ \A i \in 1 .. Len(acc.frames) : s[i] = acc.frames[i]
              /\ s[Len(acc.frames) + 1] = p
              /\ Len(acc.frames) \in Nat
            BY <1>1, <2>1, AppendProperties, LenProperties
        <3> HIDE DEF s
        <3>2. \A i \in 1 .. Len(s) : i \in 1 .. Len(acc.frames) \/ i = Len(acc.frames) + 1
            BY <3>1
        <3>3. CleanBut(acc.rest, X) /\ IntactBut(acc.frames, X) => IntactBut(s, X)
            BY <2>2, <3>1, <3>2 DEF IntactBut
        <3> QED
            BY <2>4, <3>3 DEF s
    <2>7. ASSUME c.frame = q + 1
          PROVE  Complete[m] \o FrameOf(Scan(acc, c).frames) = Complete[q + 1]
        <3>1. q + 1 \in 1 .. Frames /\ (q + 1) - 1 = q
            BY <2>1, <2>7 DEF Payload, Frame
        <3>2. Complete[q + 1] = IF q + 1 \in Malformed THEN Complete[q]
                                ELSE Append(Complete[q], q + 1)
            BY <3>1, CompleteDef
        <3>3. CASE q + 1 \in Malformed
            BY <2>4, <2>7, <3>2, <3>3
        <3>4. CASE q + 1 \notin Malformed
            <4> DEFINE a == Complete[m]
                       b == FrameOf(acc.frames)
            <4>1. Scan(acc, c).frames = Append(acc.frames, p)
                BY <2>4, <2>7, <3>4
            <4>2. FrameOf(Append(acc.frames, p)) = Append(b, q + 1)
                BY <1>1, <2>1, <2>7, FrameOfAppend
            <4>3. a \in Seq(Frame) /\ b \in Seq(Frame) /\ q + 1 \in Frame
                BY <1>1, <3>1, CompleteDef, FrameOfType DEF Frame
            <4> HIDE DEF a, b
            <4>4. a \o Append(b, q + 1) = Append(a \o b, q + 1)
                BY <4>3
            <4> QED
                BY <3>2, <3>4, <4>1, <4>2, <4>4 DEF a, b
        <3> QED
            BY <3>3, <3>4
    <2> QED
        BY <1>3, <2>5, <2>6, <2>7
<1> QED
    BY <1>2, <1>3

\* A text that begins after frame m: its frames are those that end in it, and
\* the rest is what is left of the last one.
LEMMA ParseFacts ==
    ASSUME NEW text \in Seq(Char), NEW m \in 0 .. Frames, Aligned(text, m),
           m + Len(text) \div 3 <= Frames, NEW X
    PROVE  /\ ParseFrames(text) \in Parsed
           /\ Complete[m] \o FrameOf(ParseFrames(text).frames) =
                 Complete[m + Len(text) \div 3]
           /\ Len(ParseFrames(text).rest) = Len(text) % 3
           /\ NoNewline(ParseFrames(text).rest)
           /\ OfFrame(ParseFrames(text).rest, m + Len(text) \div 3 + 1)
           /\ CleanBut(text, X) => /\ CleanBut(ParseFrames(text).rest, X)
                                   /\ IntactBut(ParseFrames(text).frames, X)
<1> DEFINE n == Len(text)
<1>1. PICK read \in [0 .. n -> Parsed] :
             /\ read[0] = Nothing
             /\ \A k \in 1 .. n : read[k] = Scan(read[k - 1], text[k])
             /\ ParseFrames(text) = read[n]
    BY ReadExists
<1>2. n \in Nat /\ \A k \in 1 .. n : text[k] \in Char
    BY LenProperties, ElementOfSeq
<1> DEFINE Good(k) ==
             /\ Complete[m] \o FrameOf(read[k].frames) = Complete[m + k \div 3]
             /\ Len(read[k].rest) = k % 3
             /\ NoNewline(read[k].rest)
             /\ OfFrame(read[k].rest, m + k \div 3 + 1)
             /\ CleanBut(text, X) =>
                   CleanBut(read[k].rest, X) /\ IntactBut(read[k].frames, X)
           T == {k \in Nat : k <= n => Good(k)}
<1>3. 0 \in T
    <2>1. read[0].frames = <<>> /\ read[0].rest = <<>>
        BY <1>1 DEF Nothing
    <2>2. m + 0 \div 3 = m /\ 0 % 3 = 0
        OBVIOUS
    <2>3. FrameOf(<<>>) = <<>>
        BY DEF FrameOf
    <2>4. Complete[m] \o <<>> = Complete[m]
        BY CompleteDef
    <2>5. /\ Len(<<>>) = 0 /\ NoNewline(<<>>) /\ OfFrame(<<>>, m + 0 \div 3 + 1)
          /\ CleanBut(<<>>, X) /\ IntactBut(<<>>, X)
        BY DEF NoNewline, OfFrame, CleanBut, IntactBut
    <2>6. Complete[m] \o FrameOf(read[0].frames) = Complete[m + 0 \div 3]
        BY <2>1, <2>2, <2>3, <2>4
    <2>7. Good(0)
        BY <2>1, <2>2, <2>5, <2>6
    <2> HIDE DEF Good
    <2> QED
        BY <2>7
<1>4. ASSUME NEW k \in Nat, k \in T
      PROVE  k + 1 \in T
    <2>1. SUFFICES ASSUME k + 1 <= n PROVE Good(k + 1)
        <3> HIDE DEF Good
        <3> QED
            OBVIOUS
    <2> DEFINE c == text[k + 1]
               acc == read[k]
               q == m + k \div 3
    <2>2. Good(k)
        <3> HIDE DEF Good
        <3> QED
            BY <1>2, <1>4, <2>1
    <2>3. c \in Char /\ acc \in Parsed /\ read[k + 1] = Scan(acc, c)
        <3>1. k + 1 \in 1 .. n /\ k \in 0 .. n /\ (k + 1) - 1 = k
            BY <1>2, <2>1
        <3> QED
            BY <1>1, <1>2, <3>1
    <2>4. /\ c.part = "n" <=> (k + 1) % 3 = 0
          /\ c.frame = q + 1
          /\ CleanBut(text, X) /\ c.part = "bad" => c.frame \in X
        <3>1. k + 1 \in 1 .. Len(text) /\ ((k + 1) - 1) \div 3 = k \div 3
            BY <1>2, <2>1, ByThree
        <3> QED
            BY <3>1 DEF Aligned, CleanBut
    <2>5. q \in 0 .. Frames /\ (k + 1) \div 3 \in Nat /\ (k + 1) \div 3 <= n \div 3
        BY <1>2, <2>1
    <2>6. /\ c.part # "n" =>
               /\ Complete[m] \o FrameOf(Scan(acc, c).frames) = Complete[q]
               /\ Len(Scan(acc, c).rest) = Len(acc.rest) + 1
               /\ OfFrame(Scan(acc, c).rest, q + 1)
          /\ c.part = "n" =>
               /\ Complete[m] \o FrameOf(Scan(acc, c).frames) = Complete[q + 1]
               /\ Len(Scan(acc, c).rest) = 0
          /\ NoNewline(Scan(acc, c).rest)
          /\ /\ c.part = "bad" => c.frame \in X
             /\ CleanBut(acc.rest, X) /\ IntactBut(acc.frames, X)
             => CleanBut(Scan(acc, c).rest, X) /\ IntactBut(Scan(acc, c).frames, X)
        <3>1. /\ Complete[m] \o FrameOf(acc.frames) = Complete[q] /\ NoNewline(acc.rest)
              /\ OfFrame(acc.rest, q + 1)
            BY <2>2
        <3> HIDE DEF acc, c, q, n
        <3> QED
            BY <2>3, <2>4, <2>5, <3>1, ScanFacts
    <2>7. CASE (k + 1) % 3 = 0
        <3>1. (k + 1) \div 3 = k \div 3 + 1 /\ k \div 3 \in Nat
            BY <2>7, ByThree
        <3>2. m + (k + 1) \div 3 = q + 1
            BY <3>1
        <3>3. OfFrame(read[k + 1].rest, m + (k + 1) \div 3 + 1)
            <4>1. Len(read[k + 1].rest) = 0
                BY <2>3, <2>4, <2>6, <2>7
            <4> QED
                BY <4>1 DEF OfFrame
        <3> QED
            BY <2>2, <2>3, <2>4, <2>6, <2>7, <3>2, <3>3
    <2>8. CASE (k + 1) % 3 # 0
        <3>1. (k + 1) \div 3 = k \div 3 /\ (k + 1) % 3 = (k % 3) + 1
            BY <2>8, ByThree
        <3> QED
            BY <2>2, <2>3, <2>4, <2>6, <2>8, <3>1
    <2> QED
        BY <2>7, <2>8
<1>5. Nat \subseteq T
    <2> HIDE DEF T
    <2> QED
        BY <1>3, <1>4, SetInduction
<1>6. Good(n) /\ read[n] \in Parsed
    <2> HIDE DEF Good, n
    <2> QED
        BY <1>1, <1>2, <1>5
<1> QED
    BY <1>1, <1>6

LEMMA ByteFacts ==
    ASSUME NEW i \in 1 .. 3 * Frames
    PROVE  /\ Byte(i) \in Char /\ Byte(i).part # "bad"
           /\ Byte(i).part = "n" <=> i % 3 = 0
           /\ Byte(i).frame = (i - 1) \div 3 + 1
           /\ Byte(i).part = "a" => i = 3 * Byte(i).frame - 2
           /\ Byte(i).part = "b" => i = 3 * Byte(i).frame - 1
<1>1. (i - 1) \div 3 + 1 \in Frame
    BY DEF Frame
<1>2. (i - 1) % 3 \in {0, 1, 2} /\ ((i - 1) % 3 = 2 <=> i % 3 = 0)
    OBVIOUS
<1>3. /\ (i - 1) % 3 = 0 => i = 3 * ((i - 1) \div 3 + 1) - 2
      /\ (i - 1) % 3 = 1 => i = 3 * ((i - 1) \div 3 + 1) - 1
    OBVIOUS
<1>4. /\ Byte(i).frame = (i - 1) \div 3 + 1
      /\ Byte(i).part = <<"a", "b", "n">>[((i - 1) % 3) + 1]
    BY DEF Byte
<1>5. Byte(i) = [frame |-> Byte(i).frame, part |-> Byte(i).part]
    BY DEF Byte
<1>6. /\ Byte(i).part \in {"a", "b", "n"}
      /\ Byte(i).part = "a" <=> (i - 1) % 3 = 0
      /\ Byte(i).part = "b" <=> (i - 1) % 3 = 1
      /\ Byte(i).part = "n" <=> (i - 1) % 3 = 2
    <2>1. CASE (i - 1) % 3 = 0
        BY <1>4, <2>1
    <2>2. CASE (i - 1) % 3 = 1
        BY <1>4, <2>2
    <2>3. CASE (i - 1) % 3 = 2
        BY <1>4, <2>3
    <2> QED
        BY <1>2, <2>1, <2>2, <2>3
<1> QED
    BY <1>1, <1>2, <1>3, <1>4, <1>5, <1>6 DEF Char

\* The frames of which bytes i .. j begin or end with half a character.
HalfOf(i, j) == {f \in Wide : i = 3 * f - 1 \/ j = 3 * f - 2}

\* A chunk: every byte keeps its frame, newlines are never damaged, and what is
\* damaged is half a character at one of the ends.
LEMMA DecodeFacts ==
    ASSUME NEW i \in 1 .. 3 * Frames, NEW j \in i .. 3 * Frames
    PROVE  /\ Decode(i, j) \in Seq(Char) /\ Len(Decode(i, j)) = j - i + 1
           /\ \A n \in 1 .. j - i + 1 :
                 /\ Decode(i, j)[n].part = "n" <=> (i + n - 1) % 3 = 0
                 /\ Decode(i, j)[n].frame = (i + n - 2) \div 3 + 1
                 /\ Decode(i, j)[n].part = "bad" => Decode(i, j)[n].frame \in HalfOf(i, j)
<1> DEFINE Half(k) == /\ Byte(k).frame \in Wide
                      /\ \/ k = i /\ Byte(k).part = "b"
                         \/ k = j /\ Byte(k).part = "a"
           d == [n \in 1 .. j - i + 1 |->
                   IF Half(i + n - 1) THEN [Byte(i + n - 1) EXCEPT !.part = "bad"]
                   ELSE Byte(i + n - 1)]
<1>1. Decode(i, j) = d
    BY DEF Decode
<1>2. ASSUME NEW n \in 1 .. j - i + 1
      PROVE  /\ d[n] \in Char
             /\ d[n].part = "n" <=> (i + n - 1) % 3 = 0
             /\ d[n].frame = (i + n - 2) \div 3 + 1
             /\ d[n].part = "bad" => d[n].frame \in HalfOf(i, j)
    <2> DEFINE k == i + n - 1
    <2>1. k \in 1 .. 3 * Frames /\ k - 1 = i + n - 2
        OBVIOUS
    <2>2. d[n] = IF Half(k) THEN [Byte(k) EXCEPT !.part = "bad"] ELSE Byte(k)
        OBVIOUS
    <2> HIDE DEF d, k
    <2>3. /\ Byte(k) \in Char /\ Byte(k).part # "bad"
          /\ Byte(k).part = "n" <=> k % 3 = 0
          /\ Byte(k).frame = (i + n - 2) \div 3 + 1
          /\ Byte(k).part = "a" => k = 3 * Byte(k).frame - 2
          /\ Byte(k).part = "b" => k = 3 * Byte(k).frame - 1
        BY <2>1, ByteFacts
    <2>4. CASE Half(k)
        <3>1. d[n] = [Byte(k) EXCEPT !.part = "bad"]
            BY <2>2, <2>4
        <3>2. /\ d[n] \in Char /\ d[n].part = "bad" /\ d[n].frame = Byte(k).frame
              /\ k % 3 # 0
            BY <2>3, <2>4, <3>1 DEF Char
        <3>3. Byte(k).frame \in HalfOf(i, j)
            BY <2>3, <2>4 DEF HalfOf
        <3> QED
            BY <2>3, <3>2, <3>3 DEF k
    <2>5. CASE ~Half(k)
        BY <2>2, <2>3, <2>5 DEF k
    <2> QED
        BY <2>4, <2>5
<1>3. j - i + 1 \in Nat
    OBVIOUS
<1>4. d \in [1 .. j - i + 1 -> Char]
    BY <1>2
<1>5. d \in Seq(Char) /\ Len(d) = j - i + 1
    <2> HIDE DEF d
    <2>1. d \in Seq(Char)
        BY <1>3, <1>4, SeqDef
    <2> QED
        BY <1>3, <1>4, <2>1, LenProperties
<1> HIDE DEF d
<1> QED
    BY <1>1, <1>2, <1>5

-----------------------------------------------------------------------------
(* The inductive invariant *)

\* The text not yet parsed is the part of a frame that has arrived.
BufferIsRest ==
    /\ Len(buffer) = arrived % 3 /\ NoNewline(buffer)
    /\ OfFrame(buffer, arrived \div 3 + 1)

\* One frame at a time is handled, and none waits when none is.
Serial ==
    /\ processing <=> running # {}
    /\ \A p, q \in running : p = q
    /\ ~processing => pendingFrames = <<>>

\* The frames done, the one being handled and the queue are the stream so far.
Order ==
    /\ running = {} =>
          ended \o FrameOf(pendingFrames) = Complete[arrived \div 3]
    /\ \A p \in running :
          Append(ended, p.frame) \o FrameOf(pendingFrames) = Complete[arrived \div 3]

\* The answers are those of the frames done, all of them until the socket closes.
Replied ==
    /\ Len(replies) <= Len(ended) /\ (open => Len(replies) = Len(ended))
    /\ \A i \in 1 .. Len(replies) : replies[i].to.frame = ended[i]

\* Nothing is destroyed but in the frames that were cut, among which is the one
\* whose character has come in by half.
OnlyCut ==
    /\ \A f \in Wide : arrived = 3 * f - 2 => f \in cut
    /\ CleanBut(buffer, cut) /\ IntactBut(pendingFrames, cut)
    /\ \A p \in running : p.intact \/ p.frame \in cut
    /\ \A i \in 1 .. Len(replies) : replies[i].to.intact \/ replies[i].to.frame \in cut

IInv == TypeOK /\ BufferIsRest /\ Serial /\ Order /\ Replied /\ OnlyCut

LEMMA TakeHead ==
    ASSUME NEW a \in Seq(Frame), NEW q \in Seq(Payload), q # <<>>, NEW X
    PROVE  /\ Head(q) \in Payload /\ Tail(q) \in Seq(Payload)
           /\ Append(a, Head(q).frame) \o FrameOf(Tail(q)) = a \o FrameOf(q)
           /\ IntactBut(q, X) =>
                 (Head(q).intact \/ Head(q).frame \in X) /\ IntactBut(Tail(q), X)
<1>1. /\ Head(q) \in Payload /\ Tail(q) \in Seq(Payload)
      /\ Len(q) \in Nat \ {0} /\ Len(Tail(q)) = Len(q) - 1
      /\ Head(q) = q[1]
      /\ \A i \in 1 .. Len(q) - 1 : Tail(q)[i] = q[i + 1]
    BY HeadTailProperties, EmptySeq
<1>2. IntactBut(q, X) =>
         (Head(q).intact \/ Head(q).frame \in X) /\ IntactBut(Tail(q), X)
    BY <1>1 DEF IntactBut
<1> DEFINE h == Head(q).frame
           f == FrameOf(Tail(q))
           g == FrameOf(q)
<1>3. /\ h \in Frame /\ f \in Seq(Frame) /\ g \in Seq(Frame)
      /\ Len(g) = Len(f) + 1 /\ Len(f) \in Nat /\ Len(a) \in Nat
      /\ g[1] = h /\ \A i \in 1 .. Len(f) : g[i + 1] = f[i]
    <2>1. /\ f \in Seq(Frame) /\ g \in Seq(Frame)
          /\ Len(f) = Len(q) - 1 /\ Len(g) = Len(q)
        BY <1>1, FrameOfType
    <2>2. h \in Frame
        BY <1>1 DEF Payload
    <2>3. g[1] = h
        BY <1>1, FrameOfType
    <2>4. ASSUME NEW i \in 1 .. Len(f)
          PROVE  g[i + 1] = f[i]
        <3>1. i \in 1 .. Len(Tail(q)) /\ i + 1 \in 1 .. Len(q)
            BY <1>1, <2>1
        <3>2. f[i] = Tail(q)[i].frame /\ g[i + 1] = q[i + 1].frame
            BY <1>1, <3>1, FrameOfType
        <3> QED
            BY <1>1, <2>1, <3>2
    <2> HIDE DEF f, g, h
    <2>5. Len(a) \in Nat
        BY LenProperties
    <2>6. Len(g) = Len(f) + 1 /\ Len(f) \in Nat
        BY <1>1, <2>1
    <2> QED
        BY <2>1, <2>2, <2>3, <2>4, <2>5, <2>6
<1> HIDE DEF f, g, h
<1>4. g = <<h>> \o f
    <2> DEFINE b == <<h>>
    <2>1. b \in Seq(Frame) /\ Len(b) = 1 /\ b[1] = h
        BY <1>3
    <2> HIDE DEF b
    <2>2. b \o f \in Seq(Frame) /\ Len(b \o f) = 1 + Len(f)
        <3>1. Len(b \o f) = Len(b) + Len(f)
            BY <1>3, <2>1, ConcatProperties
        <3>2. b \o f \in Seq(Frame)
            BY <1>3, <2>1, ConcatProperties
        <3> QED
            BY <2>1, <3>1, <3>2
    <2>3. ASSUME NEW i \in 1 .. Len(g)
          PROVE  g[i] = (b \o f)[i]
        <3>1. (b \o f)[i] = IF i <= Len(b) THEN b[i] ELSE f[i - Len(b)]
            <4>1. i \in 1 .. Len(b) + Len(f)
                BY <1>3, <2>1
            <4> QED
                BY <1>3, <2>1, <4>1, ConcatProperties
        <3>2. CASE i = 1
            BY <1>3, <2>1, <3>1, <3>2
        <3>3. CASE i # 1
            <4>1. i - 1 \in 1 .. Len(f) /\ (i - 1) + 1 = i
                BY <1>3, <3>3
            <4>2. g[i] = f[i - 1]
                BY <1>3, <4>1
            <4> QED
                BY <1>3, <2>1, <3>1, <3>3, <4>2
        <3> QED
            BY <3>2, <3>3
    <2>4. g = b \o f
        BY <1>3, <2>2, <2>3, SeqEqual
    <2> QED
        BY <2>4 DEF b
<1>5. Append(a, h) \o f = a \o g
    <2>1. Append(a, h) = a \o <<h>>
        BY <1>3, AppendIsConcat
    <2>2. <<h>> \in Seq(Frame)
        BY <1>3
    <2>3. (a \o <<h>>) \o f = a \o (<<h>> \o f)
        BY <1>3, <2>2, ConcatAssociative
    <2> QED
        BY <1>4, <2>1, <2>3
<1> QED
    BY <1>1, <1>2, <1>5 DEF f, g, h

\* processQueue with nothing being handled.
LEMMA ProcessQueueFacts ==
    ASSUME NEW queue \in Seq(Payload), ProcessQueue(queue, {}), NEW X
    PROVE  /\ pendingFrames' \in Seq(Payload)
           /\ running' \subseteq Payload /\ processing' \in BOOLEAN
           /\ Serial'
           /\ \A a \in Seq(Frame) :
                 /\ running' = {} => a \o FrameOf(pendingFrames') = a \o FrameOf(queue)
                 /\ \A p \in running' :
                       Append(a, p.frame) \o FrameOf(pendingFrames') = a \o FrameOf(queue)
           /\ IntactBut(queue, X) => /\ IntactBut(pendingFrames', X)
                                     /\ \A p \in running' : p.intact \/ p.frame \in X
<1>1. CASE queue = <<>>
    <2>1. pendingFrames' = queue /\ running' = {} /\ processing' = FALSE
        BY <1>1 DEF ProcessQueue
    <2> QED
        BY <1>1, <2>1 DEF Serial
<1>2. CASE queue # <<>>
    <2>1. /\ pendingFrames' = Tail(queue) /\ running' = {Head(queue)}
          /\ processing' = TRUE
        BY <1>2 DEF ProcessQueue
    <2>2. /\ Head(queue) \in Payload /\ Tail(queue) \in Seq(Payload)
          /\ IntactBut(queue, X) => /\ Head(queue).intact \/ Head(queue).frame \in X
                                    /\ IntactBut(Tail(queue), X)
          /\ \A a \in Seq(Frame) :
                Append(a, Head(queue).frame) \o FrameOf(Tail(queue)) = a \o FrameOf(queue)
        <3>1. ASSUME NEW a \in Seq(Frame)
              PROVE  Append(a, Head(queue).frame) \o FrameOf(Tail(queue)) =
                        a \o FrameOf(queue)
            BY <1>2, TakeHead
        <3>2. <<>> \in Seq(Frame)
            OBVIOUS
        <3>3. /\ Head(queue) \in Payload /\ Tail(queue) \in Seq(Payload)
              /\ IntactBut(queue, X) =>
                    /\ Head(queue).intact \/ Head(queue).frame \in X
                    /\ IntactBut(Tail(queue), X)
            BY <1>2, <3>2, TakeHead
        <3> QED
            BY <3>1, <3>3
    <2> QED
        BY <2>1, <2>2 DEF Serial
<1> QED
    BY <1>1, <1>2

-----------------------------------------------------------------------------
(* The actions *)

LEMMA InitIInv == Init => IInv
<1> SUFFICES ASSUME Init PROVE IInv
    OBVIOUS
<1>1. TypeOK
    <2>1. /\ <<>> \in Seq(Char) /\ <<>> \in Seq(Payload) /\ <<>> \in Seq(Reply)
          /\ <<>> \in Seq(Frame)
          /\ Len(<<>>) = 0
        BY EmptySeq
    <2>2. 0 \in 0 .. 3 * Frames
        OBVIOUS
    <2>3. arrived \in 0 .. 3 * Frames /\ buffer \in Seq(Char) /\ Len(buffer) <= 2
        BY <2>1, <2>2 DEF Init
    <2>4. pendingFrames \in Seq(Payload) /\ running \subseteq Payload
          /\ replies \in Seq(Reply) /\ ended \in Seq(Frame)
        BY <2>1 DEF Init
    <2>5. processing \in BOOLEAN /\ open \in BOOLEAN /\ cut \subseteq Wide
        BY DEF Init
    <2> QED
        BY <2>3, <2>4, <2>5 DEF TypeOK
<1>2. BufferIsRest
    BY DEF Init, BufferIsRest, NoNewline, OfFrame
<1>3. Serial
    BY DEF Init, Serial
<1>4. Order
    <2>1. ended = <<>> /\ FrameOf(pendingFrames) = <<>>
        BY DEF Init, FrameOf
    <2>2. Complete[0] = <<>> /\ 0 \div 3 = 0
        BY CompleteDef
    <2>3. <<>> \o <<>> = <<>>
        BY ConcatEmptySeq, EmptySeq
    <2> QED
        BY <2>1, <2>2, <2>3 DEF Init, Order
<1>5. OnlyCut
    BY DEF Init, OnlyCut, CleanBut, IntactBut
<1>6. Replied
    <2>1. Len(<<>>) = 0
        BY EmptySeq
    <2> QED
        BY <2>1 DEF Init, Replied
<1> QED
    BY <1>1, <1>2, <1>3, <1>4, <1>5, <1>6 DEF IInv

\* The text that a chunk completes begins after the frames parsed so far.
LEMMA TextFacts ==
    ASSUME TypeOK, BufferIsRest, NEW j \in arrived + 1 .. 3 * Frames,
           NEW text, text = buffer \o Decode(arrived + 1, j), NEW X,
           HalfOf(arrived + 1, j) \subseteq X
    PROVE  /\ text \in Seq(Char)
           /\ arrived \div 3 \in 0 .. Frames
           /\ arrived \div 3 + Len(text) \div 3 = j \div 3 /\ j \div 3 <= Frames
           /\ Len(text) % 3 = j % 3
           /\ Aligned(text, arrived \div 3)
           /\ CleanBut(buffer, X) => CleanBut(text, X)
<1> DEFINE i == arrived + 1
           d == Decode(i, j)
           b == arrived % 3
           m == arrived \div 3
<1>1. arrived \in 0 .. 3 * Frames /\ buffer \in Seq(Char) /\ Len(buffer) = b
    BY DEF TypeOK, BufferIsRest
<1>2. /\ b \in 0 .. 2 /\ m \in 0 .. Frames /\ arrived = 3 * m + b /\ i = arrived + 1
      /\ i \in 1 .. 3 * Frames /\ j \in i .. 3 * Frames
    BY <1>1
<1>3. text = buffer \o d
    OBVIOUS
<1> HIDE DEF b, m, i
<1>4. d \in Seq(Char) /\ Len(d) = j - i + 1
    BY <1>2, DecodeFacts
<1>4a. ASSUME NEW n \in 1 .. j - i + 1
       PROVE  /\ d[n].part = "n" <=> (i + n - 1) % 3 = 0
              /\ d[n].frame = (i + n - 2) \div 3 + 1
              /\ d[n].part = "bad" => d[n].frame \in X
    <2>1. HalfOf(i, j) \subseteq X
        BY <1>2
    <2>2. i \in 1 .. 3 * Frames /\ j \in i .. 3 * Frames
        BY <1>2
    <2>3. d[n].part = "n" <=> (i + n - 1) % 3 = 0
        BY <2>2, DecodeFacts
    <2>4. d[n].frame = (i + n - 2) \div 3 + 1
        BY <2>2, DecodeFacts
    <2>5. d[n].part = "bad" => d[n].frame \in HalfOf(i, j)
        BY <2>2, DecodeFacts
    <2> HIDE DEF d
    <2> QED
        BY <2>1, <2>3, <2>4, <2>5
<1> HIDE DEF d
<1> DEFINE l == b + (j - arrived)
<1>5. l \in Nat /\ j = 3 * m + l /\ Len(d) = l - b
    BY <1>1, <1>2, <1>4
<1> HIDE DEF l
<1>6. text \in Seq(Char) /\ Len(text) = l
    <2>1. text \in Seq(Char)
        BY <1>1, <1>3, <1>4, ConcatProperties
    <2>2. Len(text) = Len(buffer) + Len(d)
        BY <1>1, <1>3, <1>4, ConcatProperties
    <2> QED
        BY <1>1, <1>2, <1>5, <2>1, <2>2
<1>7. ASSUME NEW k \in 1 .. l
      PROVE  text[k] = IF k <= b THEN buffer[k] ELSE d[k - b]
    <2>1. k \in 1 .. Len(buffer) + Len(d)
        BY <1>1, <1>2, <1>5
    <2>2. text[k] = IF k <= Len(buffer) THEN buffer[k] ELSE d[k - Len(buffer)]
        BY <1>1, <1>3, <1>4, <2>1, ConcatProperties
    <2> QED
        BY <1>1, <2>2
<1>8. m + l \div 3 = j \div 3 /\ l % 3 = j % 3
    BY <1>2, <1>5, MulThree
<1>9. j \div 3 <= Frames
    BY <1>2
<1>10. ASSUME NEW k \in 1 .. l
       PROVE  /\ text[k].part = "n" <=> k % 3 = 0
              /\ text[k].frame = m + (k - 1) \div 3 + 1
              /\ CleanBut(buffer, X) /\ text[k].part = "bad" => text[k].frame \in X
    <2>1. k \in Nat /\ k # 0 /\ b \in Nat
        BY <1>2, <1>5
    <2>2. CASE k <= b
        <3>1. text[k] = buffer[k] /\ k \in 1 .. Len(buffer)
            BY <1>1, <1>2, <1>7, <2>1, <2>2
        <3>2. /\ text[k].part # "n" /\ text[k].frame = m + 1
              /\ CleanBut(buffer, X) /\ text[k].part = "bad" => text[k].frame \in X
            BY <3>1 DEF BufferIsRest, NoNewline, OfFrame, CleanBut, m
        <3>3. k % 3 # 0 /\ (k - 1) \div 3 = 0
            BY <1>2, <2>1, <2>2, InFirstTwo
        <3>4. m + (k - 1) \div 3 + 1 = m + 1
            BY <1>2, <3>3
        <3> QED
            BY <3>2, <3>3, <3>4
    <2>3. CASE ~(k <= b)
        <3> DEFINE n == k - b
        <3>1. text[k] = d[n]
            BY <1>7, <2>3
        <3>2. /\ n \in 1 .. j - i + 1 /\ i + n - 1 = 3 * m + k
              /\ i + n - 2 = 3 * m + (k - 1) /\ k - 1 \in Nat
            BY <1>2, <1>5, <2>1, <2>3
        <3>3. (3 * m + k) % 3 = k % 3 /\ (3 * m + (k - 1)) \div 3 = m + (k - 1) \div 3
            BY <1>2, <2>1, <3>2, MulThree
        <3> HIDE DEF n
        <3>4. /\ d[n].part = "n" <=> (i + n - 1) % 3 = 0
              /\ d[n].frame = (i + n - 2) \div 3 + 1
              /\ d[n].part = "bad" => d[n].frame \in X
            BY <1>4a, <3>2
        <3> QED
            BY <3>1, <3>2, <3>3, <3>4
    <2> QED
        BY <2>2, <2>3
<1>11. Aligned(text, m) /\ (CleanBut(buffer, X) => CleanBut(text, X))
    BY <1>6, <1>10 DEF Aligned, CleanBut
<1> QED
    BY <1>2, <1>6, <1>8, <1>9, <1>11 DEF m

LEMMA DataKeeps ==
    ASSUME IInv, NEW j \in 1 .. 3 * Frames, Data(j)
    PROVE  IInv'
<1> DEFINE text == buffer \o Decode(arrived + 1, j)
           parsed == ParseFrames(text)
           queue == pendingFrames \o parsed.frames
           m == arrived \div 3
<1>1. /\ open /\ j \in arrived + 1 .. 3 * Frames /\ arrived' = j
      /\ cut' = cut \cup CutBy(j)
      /\ buffer' = parsed.rest
      /\ IF processing \/ parsed.frames = <<>>
         THEN pendingFrames' = queue /\ UNCHANGED <<processing, running>>
         ELSE ProcessQueue(queue, running)
      /\ UNCHANGED <<replies, open, ended>>
    BY DEF Data
<1>2. /\ text \in Seq(Char) /\ m \in 0 .. Frames
      /\ m + Len(text) \div 3 = j \div 3 /\ j \div 3 <= Frames
      /\ Len(text) % 3 = j % 3 /\ Aligned(text, m)
      /\ CleanBut(text, cut')
    <2>1. HalfOf(arrived + 1, j) \subseteq cut'
        <3>1. ASSUME NEW f \in Wide, arrived + 1 = 3 * f - 1
              PROVE  f \in cut
            <4>1. arrived = 3 * f - 2
                BY <3>1 DEF IInv, TypeOK
            <4> QED
                BY <4>1 DEF IInv, OnlyCut
        <3> QED
            BY <1>1, <3>1 DEF CutBy, HalfOf
    <2>2. CleanBut(buffer, cut')
        BY <1>1 DEF IInv, OnlyCut, CleanBut
    <2> QED
        BY <1>1, <2>1, <2>2, TextFacts DEF IInv
<1> HIDE DEF text, m
<1>3. /\ parsed \in Parsed
      /\ Complete[m] \o FrameOf(parsed.frames) = Complete[j \div 3]
      /\ Len(parsed.rest) = j % 3 /\ NoNewline(parsed.rest)
      /\ OfFrame(parsed.rest, j \div 3 + 1)
      /\ CleanBut(parsed.rest, cut') /\ IntactBut(parsed.frames, cut')
    BY <1>2, ParseFacts
<1> HIDE DEF parsed
<1>4. /\ parsed.frames \in Seq(Payload) /\ parsed.rest \in Seq(Char)
      /\ pendingFrames \in Seq(Payload) /\ ended \in Seq(Frame)
    BY <1>3 DEF Parsed, IInv, TypeOK
<1>5. queue \in Seq(Payload) /\ FrameOf(queue) = FrameOf(pendingFrames) \o FrameOf(parsed.frames)
    BY <1>4, ConcatProperties, FrameOfConcat
<1>6. IntactBut(queue, cut')
    <2>0. IntactBut(pendingFrames, cut')
        BY <1>1 DEF IInv, OnlyCut, IntactBut
    <2>1. Len(queue) = Len(pendingFrames) + Len(parsed.frames)
        BY <1>4, ConcatProperties
    <2>2. \A i \in 1 .. Len(pendingFrames) + Len(parsed.frames) :
             queue[i] = IF i <= Len(pendingFrames) THEN pendingFrames[i]
                        ELSE parsed.frames[i - Len(pendingFrames)]
        BY <1>4, ConcatProperties
    <2>3. Len(pendingFrames) \in Nat /\ Len(parsed.frames) \in Nat
        BY <1>4, LenProperties
    <2> HIDE DEF queue
    <2> QED
        <3> SUFFICES ASSUME NEW i \in 1 .. Len(queue)
                     PROVE  queue[i].intact \/ queue[i].frame \in cut'
            BY DEF IntactBut
        <3>1. CASE i <= Len(pendingFrames)
            <4>1. i \in 1 .. Len(pendingFrames) /\ queue[i] = pendingFrames[i]
                BY <2>1, <2>2, <2>3, <3>1
            <4> QED
                BY <2>0, <4>1 DEF IntactBut
        <3>2. CASE ~(i <= Len(pendingFrames))
            <4> DEFINE o == i - Len(pendingFrames)
            <4>1. o \in 1 .. Len(parsed.frames) /\ queue[i] = parsed.frames[o]
                BY <2>1, <2>2, <2>3, <3>2
            <4> HIDE DEF o
            <4> QED
                BY <1>3, <4>1 DEF IntactBut
        <3> QED
            BY <3>1, <3>2
<1> HIDE DEF queue
<1>7. ASSUME NEW a \in Seq(Frame),
             a \o FrameOf(pendingFrames) = Complete[m]
      PROVE  a \o FrameOf(queue) = Complete[j \div 3]
    <2>1. /\ FrameOf(pendingFrames) \in Seq(Frame) /\ FrameOf(parsed.frames) \in Seq(Frame)
        BY <1>4, FrameOfType
    <2>2. a \o FrameOf(queue) = (a \o FrameOf(pendingFrames)) \o FrameOf(parsed.frames)
        <3> DEFINE x == FrameOf(pendingFrames)
                   y == FrameOf(parsed.frames)
        <3>1. x \in Seq(Frame) /\ y \in Seq(Frame) /\ FrameOf(queue) = x \o y
            BY <1>5, <2>1
        <3> HIDE DEF x, y
        <3>2. (a \o x) \o y = a \o (x \o y)
            BY <3>1, ConcatAssociative
        <3> QED
            BY <3>1, <3>2 DEF x, y
    <2> QED
        BY <1>3, <1>7, <2>2
<1>8. /\ arrived' \in 0 .. 3 * Frames /\ buffer' \in Seq(Char) /\ Len(buffer') <= 2
      /\ open' \in BOOLEAN /\ replies' \in Seq(Reply) /\ ended' \in Seq(Frame)
      /\ cut' \subseteq Wide
    <2>1. j % 3 <= 2
        OBVIOUS
    <2>2. arrived' \in 0 .. 3 * Frames
        BY <1>1
    <2> QED
        BY <1>1, <1>3, <1>4, <2>1, <2>2 DEF IInv, TypeOK, CutBy
<1>9. BufferIsRest'
    <2>1. Len(buffer') = arrived' % 3
        BY <1>1, <1>3
    <2>2. NoNewline(buffer)'
        BY <1>1, <1>3 DEF NoNewline
    <2>3. OfFrame(buffer, arrived \div 3 + 1)'
        BY <1>1, <1>3 DEF OfFrame
    <2> QED
        BY <2>1, <2>2, <2>3 DEF BufferIsRest
<1>10. CleanBut(buffer, cut)'
    BY <1>1, <1>3 DEF CleanBut
<1>11. /\ running = {} => ended \o FrameOf(pendingFrames) = Complete[m]
       /\ \A p \in running : Append(ended, p.frame) \o FrameOf(pendingFrames) = Complete[m]
    BY <1>1 DEF IInv, Order, m
<1>12. /\ pendingFrames' \in Seq(Payload) /\ running' \subseteq Payload
       /\ processing' \in BOOLEAN /\ Serial'
       /\ running' = {} => ended \o FrameOf(pendingFrames') = Complete[j \div 3]
       /\ \A p \in running' :
             Append(ended, p.frame) \o FrameOf(pendingFrames') = Complete[j \div 3]
       /\ IntactBut(pendingFrames', cut')
       /\ \A p \in running' : p.intact \/ p.frame \in cut'
    <2>0. \A p \in running : p.intact \/ p.frame \in cut'
        BY <1>1 DEF IInv, OnlyCut
    <2>1. CASE processing \/ parsed.frames = <<>>
        <3>1. pendingFrames' = queue /\ processing' = processing /\ running' = running
            BY <1>1, <2>1
        <3>2. Serial'
            <4>1. ~processing => queue = <<>>
                BY <1>4, <2>1, ConcatEqualIffEmpty DEF IInv, Serial, queue
            <4> QED
                BY <3>1, <4>1 DEF IInv, Serial
        <3>3. \A p \in running : Append(ended, p.frame) \in Seq(Frame)
            <4>1. \A p \in running : p.frame \in Frame
                BY DEF IInv, TypeOK, Payload
            <4> QED
                BY <1>4, <4>1, AppendProperties
        <3>4. /\ running = {} => ended \o FrameOf(queue) = Complete[j \div 3]
              /\ \A p \in running :
                    Append(ended, p.frame) \o FrameOf(queue) = Complete[j \div 3]
            BY <1>4, <1>7, <1>11, <3>3
        <3> QED
            BY <1>5, <1>6, <2>0, <3>1, <3>2, <3>4 DEF IInv, TypeOK
    <2>2. CASE ~(processing \/ parsed.frames = <<>>)
        <3>1. running = {} /\ ProcessQueue(queue, {})
            BY <1>1, <2>2 DEF IInv, Serial
        <3>2. ended \o FrameOf(queue) = Complete[j \div 3]
            BY <1>4, <1>7, <1>11, <3>1
        <3> QED
            BY <1>4, <1>5, <1>6, <3>1, <3>2, ProcessQueueFacts
    <2> QED
        BY <2>1, <2>2
<1>13. TypeOK'
    BY <1>8, <1>12 DEF TypeOK
<1>14. Order'
    BY <1>1, <1>8, <1>12 DEF Order, FrameOf
<1>15. OnlyCut'
    <2>1. \A f \in Wide : arrived' = 3 * f - 2 => f \in cut'
        BY <1>1 DEF CutBy
    <2>2. \A i \in 1 .. Len(replies') :
             replies'[i].to.intact \/ replies'[i].to.frame \in cut'
        BY <1>1 DEF IInv, OnlyCut
    <2>3. IntactBut(pendingFrames, cut)'
        BY <1>12 DEF IntactBut
    <2> QED
        BY <1>10, <1>12, <2>1, <2>2, <2>3 DEF OnlyCut
<1>16. Replied'
    BY <1>1 DEF IInv, Replied
<1> QED
    BY <1>9, <1>12, <1>13, <1>14, <1>15, <1>16 DEF IInv

LEMMA HandlerEndsKeeps ==
    ASSUME IInv, NEW p \in running, NEW type \in {"ack", "error"}, HandlerEnds(p, type)
    PROVE  IInv'
<1> DEFINE r == [to |-> p, type |-> type]
<1>1. /\ replies' = IF open THEN Append(replies, r) ELSE replies
      /\ ProcessQueue(pendingFrames, running \ {p})
      /\ UNCHANGED <<arrived, buffer, open, cut>>
    BY DEF HandlerEnds
<1>2. running \ {p} = {} /\ p \in Payload /\ p.frame \in Frame /\ r \in Reply
    BY DEF IInv, TypeOK, Serial, Payload, Reply
<1> HIDE DEF r
<1>3. /\ replies \in Seq(Reply) /\ replies' \in Seq(Reply)
      /\ ended \in Seq(Frame) /\ ended' = Append(ended, p.frame) /\ ended' \in Seq(Frame)
      /\ pendingFrames \in Seq(Payload)
    <2>1. replies \in Seq(Reply) /\ pendingFrames \in Seq(Payload) /\ ended \in Seq(Frame)
        BY DEF IInv, TypeOK
    <2>2. Append(replies, r) \in Seq(Reply)
        BY <1>2, <2>1, AppendProperties
    <2>3. ended' = Append(ended, p.frame)
        BY DEF HandlerEnds
    <2>4. ended' \in Seq(Frame)
        BY <1>2, <2>1, <2>3, AppendProperties
    <2> QED
        BY <1>1, <2>1, <2>2, <2>3, <2>4
<1>4. Replied'
    <2>1. /\ Len(ended) \in Nat /\ Len(replies) \in Nat
          /\ Len(ended') = Len(ended) + 1
          /\ \A i \in 1 .. Len(ended) : ended'[i] = ended[i]
          /\ ended'[Len(ended) + 1] = p.frame
        BY <1>2, <1>3, AppendProperties, LenProperties
    <2>2. /\ Len(replies) <= Len(ended)
          /\ \A i \in 1 .. Len(replies) : replies[i].to.frame = ended[i]
          /\ open => Len(replies) = Len(ended)
        BY DEF IInv, Replied
    <2>3. CASE ~open
        <3>1. replies' = replies /\ ~open'
            BY <1>1, <2>3
        <3>2. ASSUME NEW i \in 1 .. Len(replies)
              PROVE  replies[i].to.frame = ended'[i]
            BY <2>1, <2>2
        <3> QED
            BY <2>1, <2>2, <3>1, <3>2 DEF Replied
    <2>4. CASE open
        <3>1. /\ Len(replies') = Len(replies) + 1
              /\ \A i \in 1 .. Len(replies) : replies'[i] = replies[i]
              /\ replies'[Len(replies) + 1] = r
            BY <1>1, <1>2, <1>3, <2>4, AppendProperties
        <3>2. r.to.frame = p.frame
            BY DEF r
        <3>3. ASSUME NEW i \in 1 .. Len(replies')
              PROVE  replies'[i].to.frame = ended'[i]
            <4>1. CASE i \in 1 .. Len(replies)
                BY <2>1, <2>2, <3>1, <4>1
            <4>2. CASE i = Len(replies) + 1
                <5>1. replies'[i] = r /\ ended'[i] = p.frame
                    BY <2>1, <2>2, <2>4, <3>1, <4>2
                <5> QED
                    BY <3>2, <5>1
            <4> QED
                BY <2>1, <3>1, <4>1, <4>2
        <3>4. Len(replies') = Len(ended')
            BY <2>1, <2>2, <2>4, <3>1
        <3> QED
            BY <2>1, <3>1, <3>3, <3>4 DEF Replied
    <2> QED
        BY <2>3, <2>4
<1>5. /\ pendingFrames' \in Seq(Payload) /\ running' \subseteq Payload
      /\ processing' \in BOOLEAN /\ Serial'
      /\ \A a \in Seq(Frame) :
            /\ running' = {} => a \o FrameOf(pendingFrames') = a \o FrameOf(pendingFrames)
            /\ \A q \in running' :
                  Append(a, q.frame) \o FrameOf(pendingFrames') = a \o FrameOf(pendingFrames)
      /\ IntactBut(pendingFrames', cut)
      /\ \A q \in running' : q.intact \/ q.frame \in cut
    BY <1>1, <1>2, <1>3, ProcessQueueFacts DEF IInv, OnlyCut
<1>6. TypeOK'
    BY <1>1, <1>3, <1>5 DEF IInv, TypeOK
<1>7. BufferIsRest'
    BY <1>1 DEF IInv, BufferIsRest, NoNewline, OfFrame
<1>8. Order'
    <2>1. Append(ended, p.frame) \o FrameOf(pendingFrames) = Complete[arrived \div 3]
        BY DEF IInv, Order
    <2>2. /\ running' = {} =>
                ended' \o FrameOf(pendingFrames') = Complete[arrived \div 3]
          /\ \A q \in running' :
                Append(ended', q.frame) \o FrameOf(pendingFrames') = Complete[arrived \div 3]
        BY <1>3, <1>5, <2>1
    <2> QED
        BY <1>1, <2>2 DEF Order, FrameOf
<1>9. OnlyCut'
    <2>1. \A i \in 1 .. Len(replies') :
             replies'[i].to.intact \/ replies'[i].to.frame \in cut
        <3>0. \A i \in 1 .. Len(replies) :
                 replies[i].to.intact \/ replies[i].to.frame \in cut
            BY DEF IInv, OnlyCut
        <3>1. CASE ~open
            BY <1>1, <3>0, <3>1
        <3>2. CASE open
            <4>1. /\ Len(replies') = Len(replies) + 1 /\ Len(replies) \in Nat
                  /\ \A i \in 1 .. Len(replies) : replies'[i] = replies[i]
                  /\ replies'[Len(replies) + 1] = r
                BY <1>1, <1>2, <1>3, <3>2, AppendProperties, LenProperties
            <4>2. r.to = p /\ (p.intact \/ p.frame \in cut)
                BY DEF IInv, OnlyCut, r
            <4>3. \A i \in 1 .. Len(replies') : i \in 1 .. Len(replies) \/ i = Len(replies) + 1
                BY <4>1
            <4> QED
                BY <3>0, <4>1, <4>2, <4>3
        <3> QED
            BY <3>1, <3>2
    <2>2. CleanBut(buffer, cut)' /\ IntactBut(pendingFrames, cut)'
        BY <1>1, <1>5 DEF IInv, OnlyCut, CleanBut, IntactBut
    <2> QED
        BY <1>1, <1>5, <2>1, <2>2 DEF IInv, OnlyCut
<1> QED
    BY <1>4, <1>5, <1>6, <1>7, <1>8, <1>9 DEF IInv

LEMMA NextIInv ==
    ASSUME IInv, [Next]_vars
    PROVE  IInv'
<1>1. ASSUME NEW j \in 1 .. 3 * Frames, Data(j)
      PROVE  IInv'
    BY <1>1, DataKeeps
<1>2. ASSUME NEW p \in running, NEW type \in {"ack", "error"}, HandlerEnds(p, type)
      PROVE  IInv'
    BY <1>2, HandlerEndsKeeps
<1>3. ASSUME \/ SocketCloses
             \/ UNCHANGED vars
      PROVE  IInv'
    <2>1. /\ UNCHANGED <<arrived, buffer, pendingFrames, processing, running, replies,
                         ended, cut>>
          /\ open' => open
          /\ open' \in BOOLEAN
        <3>1. CASE SocketCloses
            BY <3>1 DEF SocketCloses
        <3>2. CASE UNCHANGED vars
            BY <3>2 DEF vars, IInv, TypeOK
        <3> QED
            BY <1>3, <3>1, <3>2
    <2>2. TypeOK' /\ BufferIsRest' /\ Serial'
        <3>1. TypeOK'
            BY <2>1 DEF IInv, TypeOK
        <3>2. BufferIsRest'
            BY <2>1 DEF IInv, BufferIsRest, NoNewline, OfFrame
        <3>3. Serial'
            BY <2>1 DEF IInv, Serial
        <3> QED
            BY <3>1, <3>2, <3>3
    <2>3. Order' /\ Replied'
        BY <2>1 DEF IInv, Order, Replied, FrameOf
    <2>4. OnlyCut'
        BY <2>1 DEF IInv, OnlyCut, CleanBut, IntactBut
    <2> QED
        BY <2>2, <2>3, <2>4 DEF IInv
<1> QED
    BY <1>1, <1>2, <1>3 DEF Next, HandlerReturns

LEMMA Invariance == Spec => []IInv
<1>1. IInv /\ [Next]_vars => IInv'
    BY NextIInv
<1> QED
    BY <1>1, InitIInv, PTL DEF Spec

-----------------------------------------------------------------------------
(* Theorems *)

\* handleSocket: the rest kept between two chunks is less than a frame, and the
\* queue and the answers hold payloads, however the stream is cut.
THEOREM ConnectionTypes == Spec => []TypeOK
BY Invariance, PTL DEF IInv

\* handleSocket, processQueue and parseFrames: for a stream of any length, any
\* lines of it malformed, any chunks, any order of chunks and handlers, each
\* frame is queued once, handled alone and answered in the order of the stream.
THEOREM FramesInOrder == Spec => []EachFrameOnceInOrder
<1>1. IInv => EachFrameOnceInOrder
    <2> DEFINE Split(now) ==
                 /\ Len(now) = 1 <=> running # {}
                 /\ ended \o now \o FrameOf(pendingFrames) = Complete[arrived \div 3]
    <2> SUFFICES ASSUME IInv
                 PROVE  EachFrameOnceInOrder
        OBVIOUS
    <2>1. ended \in Seq(Frame)
        BY DEF IInv, TypeOK
    <2>2. ASSUME running = {}
          PROVE  \E now \in {<<>>} \cup {<<p.frame>> : p \in running} : Split(now)
        <3> DEFINE now == <<>>
        <3>1. ended \o now = ended
            BY <2>1, ConcatEmptySeq
        <3>2. ended \o now \o FrameOf(pendingFrames) = Complete[arrived \div 3]
            BY <2>2, <3>1 DEF IInv, Order
        <3>3. Len(now) # 1 /\ now \in {<<>>} \cup {<<p.frame>> : p \in running}
            OBVIOUS
        <3> HIDE DEF now
        <3>4. Split(now)
            BY <2>2, <3>2, <3>3
        <3> QED
            BY <3>3, <3>4
    <2>3. ASSUME NEW p \in running
          PROVE  \E now \in {<<>>} \cup {<<q.frame>> : q \in running} : Split(now)
        <3> DEFINE now == <<p.frame>>
        <3>1. p.frame \in Frame
            BY DEF IInv, TypeOK, Payload
        <3>2. ended \o now = Append(ended, p.frame)
            BY <2>1, <3>1, AppendIsConcat
        <3>3. ended \o now \o FrameOf(pendingFrames) = Complete[arrived \div 3]
            BY <3>2 DEF IInv, Order
        <3>4. Len(now) = 1 /\ now \in {<<>>} \cup {<<q.frame>> : q \in running}
            OBVIOUS
        <3> HIDE DEF now
        <3>5. Split(now)
            BY <3>3, <3>4
        <3> QED
            BY <3>4, <3>5
    <2>4. \E now \in {<<>>} \cup {<<p.frame>> : p \in running} : Split(now)
        <3> HIDE DEF Split
        <3>1. CASE running = {}
            BY <2>2, <3>1
        <3>2. CASE running # {}
            BY <2>3, <3>2
        <3> QED
            BY <3>1, <3>2
    <2>5. DOMAIN replies = 1 .. Len(replies)
        BY LenProperties DEF IInv, TypeOK
    <2> QED
        BY <2>4, <2>5 DEF EachFrameOnceInOrder, IInv, Replied
<1> QED
    BY <1>1, Invariance, PTL

\* processQueue: no frame waits while no handler runs, so that the end of the
\* handler, which its awaits bound, takes the next; this is what the drain of the
\* queue (NoFrameLeftWaiting) rests on besides fairness.
THEOREM WaitingFramesAreServed ==
    Spec => [](pendingFrames # <<>> => processing /\ \E p \in running : running = {p})
<1>1. IInv => (pendingFrames # <<>> => processing /\ \E p \in running : running = {p})
    BY DEF IInv, Serial
<1> QED
    BY <1>1, Invariance, PTL

\* handleSocket decodes every chunk by itself, so that a character cut between
\* two chunks is destroyed.  Whatever the stream and its chunks, that is the loss
\* of the frame it is in: no other payload that is handled is altered.
THEOREM LossIsOfTheCutFrame == Spec => []AlteredOnlyByCut
<1>1. IInv => AlteredOnlyByCut
    <2> SUFFICES ASSUME IInv
                 PROVE  AlteredOnlyByCut
        OBVIOUS
    <2>1. DOMAIN replies = 1 .. Len(replies)
        BY LenProperties DEF IInv, TypeOK
    <2> QED
        BY <2>1 DEF AlteredOnlyByCut, IInv, OnlyCut
<1> QED
    BY <1>1, Invariance, PTL
=============================================================================
