---------------------------- MODULE Connection ----------------------------
(***************************************************************************)
(* One inbound TCP connection of a peer: TcpPeerServer.handleSocket with    *)
(* parseFrames.  The other end writes the frames 1 .. Frames one after the  *)
(* other; TCP cuts the bytes into chunks anywhere.  A frame is three bytes  *)
(* here, which is enough to cut it inside a character and between           *)
(* characters: "a" and "b" are one two-byte character in a frame of Wide    *)
(* and two characters in any other, "n" is the newline.                     *)
(***************************************************************************)
EXTENDS Naturals, Sequences

CONSTANTS
    Frames,         \* number of frames written on the connection
    Wide,           \* frames with a multi-byte character
    Malformed       \* frames that are not JSON

ASSUME FramesOK == /\ Frames \in Nat \ {0}
                   /\ Wide \subseteq 1 .. Frames /\ Malformed \subseteq 1 .. Frames

VARIABLES
    arrived,        \* number of bytes that came in
    buffer,         \* the text not yet parsed
    pendingFrames, processing,
    running,        \* payloads whose onPayload is awaited
    replies,        \* what the server has written, in order
    open,           \* the socket can still be written to
    ended,          \* history variable: the frames whose onPayload has ended
    cut             \* history variable: the frames with a chunk boundary inside
                    \* their multi-byte character

vars == <<arrived, buffer, pendingFrames, processing, running, replies, open,
          ended, cut>>

Frame == 1 .. Frames
\* intact: no character of the frame was destroyed on the way.
Payload == [frame : Frame, intact : BOOLEAN]
Reply == [to : Payload, type : {"ack", "error"}]

Byte(i) == [frame |-> ((i - 1) \div 3) + 1,
            part |-> <<"a", "b", "n">>[((i - 1) % 3) + 1]]
Char == [frame : Frame, part : {"a", "b", "n", "bad"}]

TypeOK ==
    /\ arrived \in 0 .. 3 * Frames
    /\ buffer \in Seq(Char) /\ Len(buffer) <= 2
    /\ pendingFrames \in Seq(Payload)
    /\ processing \in BOOLEAN /\ open \in BOOLEAN
    /\ running \subseteq Payload
    /\ replies \in Seq(Reply) /\ ended \in Seq(Frame) /\ cut \subseteq Wide

Init ==
    /\ arrived = 0 /\ buffer = <<>> /\ pendingFrames = <<>>
    /\ processing = FALSE /\ running = {} /\ replies = <<>> /\ open = TRUE
    /\ ended = <<>> /\ cut = {}

-----------------------------------------------------------------------------
\* chunk.toString('utf8') of bytes i .. j: half a character at an end of the
\* chunk is replaced by U+FFFD.
Decode(i, j) ==
    LET Half(k) == /\ Byte(k).frame \in Wide
                   /\ \/ k = i /\ Byte(k).part = "b"
                      \/ k = j /\ Byte(k).part = "a"
    IN [n \in 1 .. j - i + 1 |->
          LET k == i + n - 1
          IN IF Half(k) THEN [Byte(k) EXCEPT !.part = "bad"] ELSE Byte(k)]

\* parseFrames: lines end at a newline, the last piece is the rest, a line
\* that is not JSON is skipped.
Scan_KeepsLine(acc, c) ==
    IF c.part # "n" THEN [acc EXCEPT !.rest = Append(@, c)]
    ELSE [acc EXCEPT !.frames =
            IF c.frame \in Malformed THEN @
            ELSE Append(@,
                   [frame |-> c.frame,
                    intact |-> \A k \in DOMAIN acc.rest : acc.rest[k].part # "bad"])]
Scan(acc, c) ==
    IF c.part # "n" THEN [acc EXCEPT !.rest = Append(@, c)]
    ELSE [rest |-> <<>>,
          frames |->
            IF c.frame \in Malformed THEN acc.frames
            ELSE Append(acc.frames,
                   [frame |-> c.frame,
                    intact |-> \A k \in DOMAIN acc.rest : acc.rest[k].part # "bad"])]

ParseFrames(text) ==
    LET read[k \in 0 .. Len(text)] ==
          IF k = 0 THEN [frames |-> <<>>, rest |-> <<>>] ELSE Scan(read[k - 1], text[k])
    IN read[Len(text)]

\* processQueue up to its next await: take the next frame, or go idle.
ProcessQueue_NeverIdle(queue, others) ==
    IF queue = <<>>
    THEN pendingFrames' = queue /\ running' = others /\ UNCHANGED processing
    ELSE /\ pendingFrames' = Tail(queue)
         /\ running' = others \cup {Head(queue)}
         /\ processing' = TRUE
ProcessQueue(queue, others) ==
    IF queue = <<>>
    THEN pendingFrames' = queue /\ running' = others /\ processing' = FALSE
    ELSE /\ pendingFrames' = Tail(queue)
         /\ running' = others \cup {Head(queue)}
         /\ processing' = TRUE

\* The wide frame of which a chunk that ends with byte j has half a character.
CutBy(j) == {f \in Wide : j = 3 * f - 2}

\* The 'data' event: the bytes up to j.
Data_KeepsParsed(j) ==
    LET text == buffer \o Decode(arrived + 1, j)
        queue == pendingFrames \o ParseFrames(text).frames
    IN /\ open /\ j \in arrived + 1 .. 3 * Frames
       /\ arrived' = j /\ cut' = cut \cup CutBy(j)
       /\ buffer' = text
       /\ IF processing \/ ParseFrames(text).frames = <<>>
          THEN pendingFrames' = queue /\ UNCHANGED <<processing, running>>
          ELSE ProcessQueue(queue, running)
       /\ UNCHANGED <<replies, open, ended>>
Data_RunsAgain(j) ==
    LET text == buffer \o Decode(arrived + 1, j)
        queue == pendingFrames \o ParseFrames(text).frames
    IN /\ open /\ j \in arrived + 1 .. 3 * Frames
       /\ arrived' = j /\ cut' = cut \cup CutBy(j)
       /\ buffer' = ParseFrames(text).rest
       /\ IF ParseFrames(text).frames = <<>>
          THEN pendingFrames' = queue /\ UNCHANGED <<processing, running>>
          ELSE ProcessQueue(queue, running)
       /\ UNCHANGED <<replies, open, ended>>
Data(j) ==
    LET text == buffer \o Decode(arrived + 1, j)
        queue == pendingFrames \o ParseFrames(text).frames
    IN /\ open /\ j \in arrived + 1 .. 3 * Frames
       /\ arrived' = j /\ cut' = cut \cup CutBy(j)
       /\ buffer' = ParseFrames(text).rest
       /\ IF processing \/ ParseFrames(text).frames = <<>>
          THEN pendingFrames' = queue /\ UNCHANGED <<processing, running>>
          ELSE ProcessQueue(queue, running)
       /\ UNCHANGED <<replies, open, ended>>

\* onPayload ends, normally or with an error; the reply is written (to nobody
\* if the socket is gone) and the loop goes on.
HandlerEnds(p, type) ==
    /\ p \in running
    /\ replies' = IF open THEN Append(replies, [to |-> p, type |-> type])
                  ELSE replies
    /\ ended' = Append(ended, p.frame)
    /\ ProcessQueue(pendingFrames, running \ {p})
    /\ UNCHANGED <<arrived, buffer, open, cut>>

\* The other end got its answer, timed out or died: it destroys the socket.
SocketCloses ==
    /\ open /\ open' = FALSE
    /\ UNCHANGED <<arrived, buffer, pendingFrames, processing, running, replies,
                   ended, cut>>

HandlerReturns == \E p \in running, type \in {"ack", "error"} : HandlerEnds(p, type)
Next == (\E j \in 1 .. 3 * Frames : Data(j)) \/ HandlerReturns \/ SocketCloses

Spec == Init /\ [][Next]_vars

\* Every handler ends: its awaits are bounded by timers or are disk writes.
FairSpec == Spec /\ WF_vars(HandlerReturns)

-----------------------------------------------------------------------------
(* Properties *)

\* The first n frames, without those that are not JSON: what must have reached
\* the queue whatever the chunks were.
Complete[n \in 0 .. Frames] ==
    IF n = 0 THEN <<>>
    ELSE IF n \in Malformed THEN Complete[n - 1]
    ELSE Append(Complete[n - 1], n)

FrameOf(s) == [i \in DOMAIN s |-> s[i].frame]

\* However the stream is cut into chunks, and while handlers are awaited, each
\* complete frame is handled exactly once, in the order of the stream and one
\* at a time: frames done, the one at work and the queue make up the stream.
\* That goes on when the other end has closed the socket; until then each
\* frame done is answered, and at no time is another.
EachFrameOnceInOrder ==
    /\ \E now \in {<<>>} \cup {<<p.frame>> : p \in running} :
          /\ Len(now) = 1 <=> running # {}
          /\ ended \o now \o FrameOf(pendingFrames) = Complete[arrived \div 3]
    /\ Len(replies) <= Len(ended) /\ (open => Len(replies) = Len(ended))
    /\ \A i \in DOMAIN replies : replies[i].to.frame = ended[i]

\* A frame that came in is not left waiting: the queue drains after every
\* burst of chunks, or the connection is gone.
NoFrameLeftWaiting ==
    \A f \in 1 .. Frames :
        f \notin Malformed /\ arrived >= 3 * f
            ~> ~open \/ \E i \in DOMAIN replies : replies[i].to.frame = f

\* A character destroyed at a chunk boundary is the loss of its own frame only:
\* whatever else comes in the same chunks, waits in the buffer or is parsed with
\* it, a payload that is handled is altered only if a boundary fell inside a
\* character of that very payload.
AlteredOnlyByCut ==
    \A p \in running \cup {replies[i].to : i \in DOMAIN replies} :
        p.intact \/ p.frame \in cut

\* README, TCP protocol: a frame is a JSON text and a newline.  A character cut
\* by a chunk boundary is replaced on both sides, so the payload handled is
\* not the one that was sent.
PayloadsArriveIntact ==
    \A i \in DOMAIN replies : replies[i].to.intact
=============================================================================
