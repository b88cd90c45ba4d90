--------------------------- MODULE LauncherProofs ---------------------------
(***************************************************************************)
(* The launcher's records are truthful for any number of processes, ids,    *)
(* ports and overlapping requests; and when requests do not overlap, no     *)
(* process escapes stopAll.                                                 *)
(***************************************************************************)
EXTENDS Launcher, TLAPS

USE LauncherConstants DEF LauncherConstants

-----------------------------------------------------------------------------
(* Type correctness *)

LEMMA InitTypes == Init => TypeOK
<1> SUFFICES ASSUME Init
             PROVE  TypeOK
    OBVIOUS
<1>1. (CHOOSE i \in PeerId : TRUE) \in PeerId /\ (CHOOSE n \in Port : TRUE) \in Port
    OBVIOUS
<1> QED
    BY <1>1 DEF Init, TypeOK

LEMMA RequestTypes ==
    ASSUME TypeOK, NEW r \in Request,
           \/ CheckExisting(r) \/ ProbePort(r) \/ Spawn(r)
           \/ \E i \in PeerId, n \in Port, exact \in BOOLEAN : Ask(r, i, n, exact)
    PROVE  TypeOK'
<1> USE DEF TypeOK, vars, procVars, Go
<1>1. CASE CheckExisting(r)
    BY <1>1 DEF CheckExisting
<1>2. CASE ProbePort(r)
    BY <1>2 DEF ProbePort
<1>3. CASE Spawn(r)
    <2>1. PICK c \in Child :
             /\ life' = [life EXCEPT ![c] = "starting"]
             /\ record' = [record EXCEPT ![c] = "running"]
             /\ peerId' = [peerId EXCEPT ![c] = want[r][1]]
             /\ port' = [port EXCEPT ![c] = want[r][2]]
             /\ processes' = [processes EXCEPT ![want[r][1]] = c]
        BY <1>3 DEF Spawn
    <2>2. want[r][1] \in PeerId /\ want[r][2] \in Port
        OBVIOUS
    <2> QED
        BY <1>3, <2>1, <2>2 DEF Spawn
<1>4. ASSUME NEW i \in PeerId, NEW n \in Port, NEW exact \in BOOLEAN,
             Ask(r, i, n, exact)
      PROVE  TypeOK'
    BY <1>4 DEF Ask
<1> QED
    BY <1>1, <1>2, <1>3, <1>4

LEMMA ChildTypes ==
    ASSUME TypeOK, NEW c \in Child,
           \/ ChildStarts(c) \/ Terminates(c) \/ ChildDies(c)
           \/ ExitEvent(c) \/ Heartbeat(c)
    PROVE  TypeOK'
<1> USE DEF TypeOK
<1>1. CASE ChildStarts(c)
    <2>1. PICK s \in {"gone", "mute", "up"} : life' = [life EXCEPT ![c] = s]
        BY <1>1 DEF ChildStarts
    <2>2. life' \in [Child -> {"unborn", "starting", "up", "mute", "closing", "gone"}]
        BY <2>1
    <2>3. online' = online \/ online' = online \cup {peerId[c]}
        BY <1>1 DEF ChildStarts
    <2>4. online' \subseteq PeerId
        BY <2>3
    <2> QED
        BY <1>1, <2>2, <2>4 DEF ChildStarts
<1>2. CASE Terminates(c)
    BY <1>2 DEF Terminates
<1>5. CASE ChildDies(c)
    BY <1>5 DEF ChildDies
<1>3. CASE ExitEvent(c)
    BY <1>3 DEF ExitEvent
<1>4. CASE Heartbeat(c)
    BY <1>4 DEF Heartbeat, procVars
<1> QED
    BY <1>1, <1>2, <1>3, <1>4, <1>5

LEMMA StopTypes ==
    ASSUME TypeOK, StopAll \/ \E i \in PeerId : Stop(i) \/ Expire(i)
    PROVE  TypeOK'
<1> USE DEF TypeOK
<1>1. ASSUME NEW i \in PeerId, Stop(i)
      PROVE  TypeOK'
    BY <1>1 DEF Stop
<1>2. ASSUME NEW i \in PeerId, Expire(i)
      PROVE  TypeOK'
    BY <1>2 DEF Expire, procVars
<1>3. CASE StopAll
    BY <1>3 DEF StopAll
<1> QED
    BY <1>1, <1>2, <1>3

LEMMA NextTypes == TypeOK /\ [Next]_vars => TypeOK'
<1>1. TypeOK /\ UNCHANGED vars => TypeOK'
    BY DEF TypeOK, vars, procVars
<1> QED
    BY <1>1, RequestTypes, ChildTypes, StopTypes DEF Next

\* Every variable of the launcher keeps to its type.
THEOREM LauncherTypes == Spec => []TypeOK
BY InitTypes, NextTypes, PTL DEF Spec

-----------------------------------------------------------------------------
(* The records.  A process has one from the moment it is started. *)

Unborn == \A c \in Child : /\ life[c] = "unborn" <=> record[c] = "none"
                           /\ life[c] = "unborn" => c \notin asked

RInv == TypeOK /\ Unborn /\ RecordsTellTheTruth

LEMMA NextRecords == RInv /\ TypeOK' /\ [Next]_vars => RInv'
<1> SUFFICES ASSUME RInv, TypeOK', [Next]_vars
             PROVE  RInv'
    OBVIOUS
<1> USE DEF RInv
<1>1. ASSUME UNCHANGED <<record, life, asked>>
      PROVE  RInv'
    BY <1>1 DEF Unborn, RecordsTellTheTruth
<1>2. ASSUME NEW r \in Request, Spawn(r)
      PROVE  RInv'
    BY <1>2 DEF Spawn, Unborn, RecordsTellTheTruth, TypeOK
<1>3. ASSUME NEW c \in Child, ChildStarts(c) \/ Terminates(c) \/ ChildDies(c)
      PROVE  RInv'
    <2>1. /\ UNCHANGED <<record, asked>>
          /\ \A d \in Child : /\ life[d] = "gone" => life'[d] = "gone"
                              /\ life'[d] = "unborn" <=> life[d] = "unborn"
        BY <1>3 DEF ChildStarts, Terminates, ChildDies, Live, TypeOK
    <2> QED
        BY <2>1 DEF Unborn, RecordsTellTheTruth
<1>4. ASSUME NEW c \in Child, ExitEvent(c)
      PROVE  RInv'
    BY <1>4 DEF ExitEvent, Unborn, RecordsTellTheTruth, TypeOK
<1>5. ASSUME NEW i \in PeerId, Stop(i)
      PROVE  RInv'
    BY <1>5 DEF Stop, Unborn, RecordsTellTheTruth, TypeOK
<1>6. CASE StopAll
    BY <1>6 DEF StopAll, Unborn, RecordsTellTheTruth, TypeOK
<1>7. CASE UNCHANGED vars
    BY <1>1, <1>7 DEF vars, procVars
<1>8. ASSUME NEW r \in Request, CheckExisting(r) \/ ProbePort(r)
      PROVE  RInv'
    BY <1>1, <1>8 DEF CheckExisting, ProbePort, procVars
<1>9. ASSUME NEW r \in Request, NEW i, NEW n, NEW exact, Ask(r, i, n, exact)
      PROVE  RInv'
    BY <1>1, <1>9 DEF Ask, procVars
<1>10. ASSUME NEW c \in Child, Heartbeat(c)
       PROVE  RInv'
    BY <1>1, <1>10 DEF Heartbeat, procVars
<1>11. ASSUME NEW i \in PeerId, Expire(i)
       PROVE  RInv'
    BY <1>1, <1>11 DEF Expire, procVars
<1> QED
    BY <1>2, <1>3, <1>4, <1>5, <1>6, <1>7, <1>8, <1>9, <1>10, <1>11 DEF Next

LEMMA RecordsInvariance == Spec => []RInv
<1>1. Init => RInv
    BY InitTypes DEF Init, RInv, Unborn, RecordsTellTheTruth
<1>2. RInv /\ [Next]_vars => RInv'
    BY NextTypes, NextRecords DEF RInv
<1> QED
    BY <1>1, <1>2, PTL DEF Spec

\* "stopped" is only said of a process that has ended, "running" only of one
\* that nobody asked to stop: for any number of requests at once, and however
\* late the exit events of replaced processes come.
THEOREM RecordsAreTrue == Spec => []RecordsTellTheTruth
BY RecordsInvariance, PTL DEF RInv

-----------------------------------------------------------------------------
(***************************************************************************)
(* Requests that do not overlap.  What the check of the existing record saw *)
(* still holds when the process is spawned: a record never becomes          *)
(* "running" again.                                                         *)
(***************************************************************************)

OneRequest == \E r : Request = {r}

CheckHolds ==
    \A r \in Request :
        at[r] \in {"probing", "spawning"} => ~Running(want[r][1])

\* A process is in the map, or has been asked to stop, or is gone.
Mapped == \A c \in Child : life[c] # "unborn" =>
    c \in asked \/ life[c] = "gone" \/ processes[peerId[c]] = c

NInv == RInv /\ CheckHolds /\ Mapped

\* Steps that start nothing, and make no record "running".
LEMMA Ends ==
    ASSUME NInv, at' = at, want' = want, processes' = processes, peerId' = peerId,
           asked \subseteq asked',
           \A c \in Child :
               /\ record'[c] = "running" => record[c] = "running"
               /\ life[c] = "gone" => life'[c] = "gone"
               /\ life'[c] # "unborn" => life[c] # "unborn"
    PROVE  CheckHolds' /\ Mapped'
<1>1. \A i \in PeerId : Running(i)' => Running(i)
    <2> SUFFICES ASSUME NEW i \in PeerId, processes[i] # None,
                        record'[processes[i]] = "running"
                 PROVE  record[processes[i]] = "running"
        BY DEF Running
    <2>1. processes[i] \in Child
        BY DEF NInv, RInv, TypeOK
    <2> QED
        BY <2>1
<1>2. CheckHolds'
    <2>2. ASSUME NEW r \in Request, at[r] \in {"probing", "spawning"}
          PROVE  ~Running(want[r][1])
        BY <2>2 DEF NInv, CheckHolds
    <2>1. \A r \in Request : want[r][1] \in PeerId
        BY DEF NInv, RInv, TypeOK
    <2> QED
        BY <1>1, <2>1, <2>2 DEF CheckHolds, Running
<1>3. Mapped'
    <2> SUFFICES ASSUME NEW c \in Child, life'[c] # "unborn"
                 PROVE  c \in asked' \/ life'[c] = "gone" \/ processes[peerId[c]] = c
        BY DEF Mapped
    <2>1. c \in asked \/ life[c] = "gone" \/ processes[peerId[c]] = c
        BY DEF NInv, Mapped
    <2> QED
        BY <2>1
<1> QED
    BY <1>2, <1>3

LEMMA NextMapped ==
    ASSUME OneRequest, NInv, RInv', [Next]_vars
    PROVE  NInv'
<1> USE DEF NInv
<1>1. CASE UNCHANGED vars
    BY <1>1, Ends DEF vars, procVars
<1>2. ASSUME NEW r \in Request, CheckExisting(r)
      PROVE  NInv'
    <2>1. UNCHANGED <<want, processes, procVars>>
        BY <1>2 DEF CheckExisting
    <2>2. at'[r] \in {"probing", "spawning"} => ~Running(want[r][1])
        BY <1>2 DEF CheckExisting, Go, RInv, TypeOK
    <2>3. \A x \in Request : x # r => at'[x] = at[x]
        BY <1>2 DEF CheckExisting, Go, RInv, TypeOK
    <2>4. CheckHolds'
        BY <2>1, <2>2, <2>3 DEF CheckHolds, Running, procVars
    <2>5. Mapped'
        BY <2>1 DEF Mapped, procVars
    <2> QED
        BY <2>4, <2>5
<1>3. ASSUME NEW r \in Request, ProbePort(r)
      PROVE  NInv'
    <2>1. UNCHANGED <<want, processes, procVars>>
        BY <1>3 DEF ProbePort
    <2>2. \A x \in Request : at'[x] \in {"probing", "spawning"} =>
                              at[x] \in {"probing", "spawning"}
        BY <1>3 DEF ProbePort, Go, RInv, TypeOK
    <2>4. CheckHolds'
        BY <2>1, <2>2 DEF CheckHolds, Running, procVars
    <2>5. Mapped'
        BY <2>1 DEF Mapped, procVars
    <2> QED
        BY <2>4, <2>5
<1>4. ASSUME NEW r \in Request, NEW i \in PeerId, NEW n \in Port,
             NEW exact \in BOOLEAN, Ask(r, i, n, exact)
      PROVE  NInv'
    <2>1. UNCHANGED <<processes, procVars>> /\ at' = [at EXCEPT ![r] = "listing"]
          /\ want' = [want EXCEPT ![r] = <<i, n, exact>>]
        BY <1>4 DEF Ask, Go
    <2>2. CheckHolds'
        BY <2>1 DEF CheckHolds, Running, procVars, RInv, TypeOK
    <2>3. Mapped'
        BY <2>1 DEF Mapped, procVars
    <2> QED
        BY <2>2, <2>3
<1>5. ASSUME NEW r \in Request, Spawn(r)
      PROVE  NInv'
    <2>1. \A x \in Request : x = r
        BY DEF OneRequest
    <2> DEFINE i == want[r][1]
    <2>2. i \in PeerId /\ ~Running(i)
        BY <1>5 DEF Spawn, CheckHolds, RInv, TypeOK
    <2>3. at'[r] = "idle"
        BY <1>5 DEF Spawn, Go, RInv, TypeOK
    <2>4. CheckHolds'
        BY <2>1, <2>3 DEF CheckHolds
    <2>5. PICK c \in Child :
             /\ life[c] = "unborn"
             /\ life' = [life EXCEPT ![c] = "starting"]
             /\ peerId' = [peerId EXCEPT ![c] = i]
             /\ processes' = [processes EXCEPT ![i] = c]
             /\ asked' = asked
        BY <1>5 DEF Spawn
    <2>6. processes'[peerId'[c]] = c
        BY <2>2, <2>5 DEF RInv, TypeOK
    <2>7. ASSUME NEW d \in Child, d # c, life'[d] # "unborn"
          PROVE  d \in asked' \/ life'[d] = "gone" \/ processes'[peerId'[d]] = d
        <3>1. life'[d] = life[d] /\ peerId'[d] = peerId[d] /\ peerId[d] \in PeerId
            BY <2>5, <2>7 DEF RInv, TypeOK
        <3>2. d \in asked \/ life[d] = "gone" \/ processes[peerId[d]] = d
            BY <2>7, <3>1 DEF Mapped
        <3>3. CASE processes[peerId[d]] = d /\ peerId[d] = i
            \* The process that is replaced was not running any more.
            <4>1. record[d] # "running"
                BY <2>2, <3>3 DEF Running
            <4>2. record[d] # "none"
                BY <2>7, <3>1 DEF RInv, Unborn
            <4> QED
                BY <2>5, <3>1, <4>1, <4>2 DEF RInv, TypeOK, RecordsTellTheTruth
        <3>4. CASE processes[peerId[d]] = d /\ peerId[d] # i
            BY <2>2, <2>5, <3>1, <3>4 DEF RInv, TypeOK
        <3> QED
            BY <2>5, <3>1, <3>2, <3>3, <3>4
    <2>8. Mapped'
        BY <2>6, <2>7 DEF Mapped
    <2> QED
        BY <2>4, <2>8
<1>6. ASSUME NEW c \in Child, ChildStarts(c) \/ Terminates(c) \/ ChildDies(c)
      PROVE  NInv'
    <2>1. /\ UNCHANGED <<at, want, processes, peerId, record, asked>>
          /\ \A d \in Child : /\ life[d] = "gone" => life'[d] = "gone"
                              /\ life'[d] # "unborn" => life[d] # "unborn"
        BY <1>6 DEF ChildStarts, Terminates, ChildDies, Live, RInv, TypeOK
    <2> QED
        BY <2>1, Ends
<1>7. ASSUME NEW c \in Child, ExitEvent(c)
      PROVE  NInv'
    <2>1. /\ UNCHANGED <<at, want, processes, peerId, life, asked>>
          /\ \A d \in Child : record'[d] = "running" => record[d] = "running"
        BY <1>7 DEF ExitEvent, RInv, TypeOK
    <2> QED
        BY <2>1, Ends
<1>8. ASSUME NEW c \in Child, Heartbeat(c)
      PROVE  NInv'
    BY <1>8, Ends DEF Heartbeat, procVars
<1>9. ASSUME NEW i \in PeerId, Stop(i)
      PROVE  NInv'
    <2>1. /\ UNCHANGED <<at, want, processes, peerId, life>>
          /\ asked \subseteq asked'
          /\ \A d \in Child : record'[d] = "running" => record[d] = "running"
        BY <1>9 DEF Stop, RInv, TypeOK
    <2> QED
        BY <2>1, Ends
<1>10. ASSUME NEW i \in PeerId, Expire(i)
       PROVE  NInv'
    BY <1>10, Ends DEF Expire, procVars
<1>11. CASE StopAll
    <2>1. /\ UNCHANGED <<at, want, processes, peerId, life>>
          /\ asked \subseteq asked'
          /\ \A d \in Child : record'[d] = "running" => record[d] = "running"
        BY <1>11 DEF StopAll, RInv, TypeOK
    <2> QED
        BY <2>1, Ends
<1> QED
    BY <1>1, <1>2, <1>3, <1>4, <1>5, <1>6, <1>7, <1>8, <1>9, <1>10, <1>11
    DEF Next

\* If start requests do not overlap, a live process that was never asked to
\* stop is in the map, where stopAll finds it.  (With two requests at once it
\* may not be: the check of the record and the spawn are in different turns.)
THEOREM NoOrphansOneAtATime ==
    ASSUME OneRequest
    PROVE  Spec => []NoOrphans
<1>1. Init => NInv
    BY InitTypes DEF Init, NInv, RInv, Unborn, RecordsTellTheTruth, CheckHolds,
                     Mapped
<1>2. NInv /\ [Next]_vars => NInv'
    BY NextMapped, NextRecords, NextTypes DEF NInv, RInv
<1>3. NInv => NoOrphans
    BY DEF NInv, Mapped, NoOrphans, Live
<1> QED
    BY <1>1, <1>2, <1>3, PTL DEF Spec
=============================================================================
