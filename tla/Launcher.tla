----------------------------- MODULE Launcher -----------------------------
(***************************************************************************)
(* The peer launcher of the bootstrap: PeerLauncher.start / stop / stopAll  *)
(* behind the routes of the dashboard, the processes it starts, and the     *)
(* 'exit' events Node delivers some time after a process has ended.         *)
(* Requests interleave at their awaits.  A TCP port and a Web port are one  *)
(* port here, probed and bound together.                                    *)
(***************************************************************************)
EXTENDS Naturals, FiniteSets

CONSTANTS
    PeerId,
    Port,
    Request,        \* start requests that may be open at once
    Child,          \* processes: bounds the number of starts
    None            \* no process

ASSUME LauncherConstants ==
    None \notin Child /\ PeerId # {} /\ Port # {}

VARIABLES
    at,             \* the await each start request is suspended at
    want,           \* the peer id and port it asked for, and whether the id
                    \* was typed as normalizePeerId writes it
    processes,      \* the launcher's map: peer id -> latest process
    record,         \* record.status, one record per process
    life,           \* what the process really is
    asked,          \* processes that were sent SIGTERM
    peerId, port,   \* what each process was started with
    online          \* ids the store lists as online

vars == <<at, want, processes, record, life, asked, peerId, port, online>>
procVars == <<record, life, asked, peerId, port>>

TypeOK ==
    /\ at \in [Request -> {"idle", "listing", "probing", "spawning"}]
    /\ want \in [Request -> PeerId \X Port \X BOOLEAN]
    /\ processes \in [PeerId -> Child \cup {None}]
    /\ record \in [Child -> {"none", "running", "stopping", "stopped"}]
    /\ life \in [Child -> {"unborn", "starting", "up", "mute", "closing", "gone"}]
    /\ asked \subseteq Child
    /\ peerId \in [Child -> PeerId] /\ port \in [Child -> Port]
    /\ online \subseteq PeerId

Init ==
    /\ at = [r \in Request |-> "idle"]
    /\ want = [r \in Request |-> <<CHOOSE i \in PeerId : TRUE, CHOOSE n \in Port : TRUE, TRUE>>]
    /\ processes = [i \in PeerId |-> None]
    /\ record = [c \in Child |-> "none"]
    /\ life = [c \in Child |-> "unborn"]
    /\ asked = {}
    /\ peerId = [c \in Child |-> CHOOSE i \in PeerId : TRUE]
    /\ port = [c \in Child |-> CHOOSE n \in Port : TRUE]
    /\ online = {}

-----------------------------------------------------------------------------
Live == {c \in Child : life[c] \in {"starting", "up", "mute", "closing"}}
Bound == {port[c] : c \in {d \in Child : life[d] \in {"up", "mute"}}}
Running(i) == processes[i] # None /\ record[processes[i]] = "running"

Go(r, s) == at' = [at EXCEPT ![r] = s]

\* POST /api/launcher/start, up to listPeers.
Ask(r, i, n, exact) ==
    /\ at[r] = "idle"
    /\ want' = [want EXCEPT ![r] = <<i, n, exact>>]
    /\ Go(r, "listing")
    /\ UNCHANGED <<processes, procVars, online>>

\* The answer of listPeers is searched for the id as it was typed; then
\* launcher.start normalises the id and looks at its own record, up to its first
\* probe.
Listed(r) == want[r][3] /\ want[r][1] \in online

CheckExisting_TrustsTheList(r) ==
    /\ at[r] = "listing"
    /\ Go(r, IF Listed(r) THEN "idle" ELSE "probing")
    /\ UNCHANGED <<want, processes, procVars, online>>
CheckExisting(r) ==
    /\ at[r] = "listing"
    /\ Go(r, IF Listed(r) \/ Running(want[r][1]) THEN "idle" ELSE "probing")
    /\ UNCHANGED <<want, processes, procVars, online>>

\* assertPortAvailable: the port is bound and released again.
ProbePort(r) ==
    /\ at[r] = "probing"
    /\ Go(r, IF want[r][2] \in Bound THEN "idle" ELSE "spawning")
    /\ UNCHANGED <<want, processes, procVars, online>>

\* The rest of launcher.start: spawn, and processes.set over what was there.
Spawn(r) ==
    /\ at[r] = "spawning"
    /\ \E c \in Child :
          /\ life[c] = "unborn"
          /\ life' = [life EXCEPT ![c] = "starting"]
          /\ record' = [record EXCEPT ![c] = "running"]
          /\ peerId' = [peerId EXCEPT ![c] = want[r][1]]
          /\ port' = [port EXCEPT ![c] = want[r][2]]
          /\ processes' = [processes EXCEPT ![want[r][1]] = c]
    /\ Go(r, "idle")
    /\ UNCHANGED <<want, asked, online>>

\* The process listens and registers.  If its port has been taken meanwhile it
\* dies of the Web port, or lives on without a runtime for the TCP port.
ChildStarts(c) ==
    /\ life[c] = "starting"
    /\ \/ /\ port[c] \in Bound
          /\ \E end \in {"gone", "mute"} : life' = [life EXCEPT ![c] = end]
          /\ UNCHANGED online
       \/ /\ port[c] \notin Bound
          /\ life' = [life EXCEPT ![c] = "up"]
          /\ online' = online \cup {peerId[c]}
    /\ UNCHANGED <<at, want, processes, record, asked, peerId, port>>

\* gracefulShutdown: unregister, close; the exit waits for open sockets.
Terminates(c) ==
    /\ c \in asked /\ life[c] \in {"up", "mute"}
    /\ life' = [life EXCEPT ![c] = "closing"]
    /\ online' = online \ {peerId[c]}
    /\ UNCHANGED <<at, want, processes, record, asked, peerId, port>>

\* The process ends: at last, by a crash, or killed before it had a handler.
ChildDies(c) ==
    /\ c \in Live
    /\ life' = [life EXCEPT ![c] = "gone"]
    /\ UNCHANGED <<at, want, processes, record, asked, peerId, port, online>>

\* child.on('exit'): the handler closes over the record of its own process.
ExitEvent_OfTheMap(c) ==
    /\ life[c] = "gone" /\ record[c] # "stopped"
    /\ record' = [record EXCEPT ![processes[peerId[c]]] = "stopped"]
    /\ UNCHANGED <<at, want, processes, life, asked, peerId, port, online>>
ExitEvent_Exited(c) ==
    /\ life[c] = "gone" /\ record[c] # "stopped"
    /\ record' = [record EXCEPT ![c] = "exited"]
    /\ UNCHANGED <<at, want, processes, life, asked, peerId, port, online>>
ExitEvent(c) ==
    /\ life[c] = "gone" /\ record[c] # "stopped"
    /\ record' = [record EXCEPT ![c] = "stopped"]
    /\ UNCHANGED <<at, want, processes, life, asked, peerId, port, online>>

\* launcher.stop with the unregisterPeer the route awaits; a second stop of the
\* same process sends no signal.
Stop(i) ==
    LET c == processes[i] IN
    /\ c # None
    /\ IF record[c] = "running"
       THEN /\ record' = [record EXCEPT ![c] = "stopping"]
            /\ asked' = asked \cup {c}
       ELSE UNCHANGED <<record, asked>>
    /\ online' = online \ {i}
    /\ UNCHANGED <<at, want, processes, life, peerId, port>>

\* stopAll: every running record; all that are stopping are unregistered.
StopAll ==
    LET hit == {c \in {processes[i] : i \in PeerId} \ {None} : record[c] = "running"}
        stopping == {i \in PeerId : processes[i] \in hit}
    IN /\ record' = [c \in Child |-> IF c \in hit THEN "stopping" ELSE record[c]]
       /\ asked' = asked \cup hit
       /\ online' = online \ (stopping \cup
             {i \in PeerId : processes[i] # None
                             /\ record[processes[i]] = "stopping"})
       /\ UNCHANGED <<at, want, processes, life, peerId, port>>

\* A live peer's heartbeat lists it again; the TTL drops the others.
Heartbeat(c) ==
    /\ life[c] = "up" /\ online' = online \cup {peerId[c]}
    /\ UNCHANGED <<at, want, processes, procVars>>
Expire(i) ==
    /\ \A c \in Child : life[c] = "up" => peerId[c] # i
    /\ online' = online \ {i}
    /\ UNCHANGED <<at, want, processes, procVars>>

Next ==
    \/ \E r \in Request :
          \/ CheckExisting(r) \/ ProbePort(r) \/ Spawn(r)
          \/ \E i \in PeerId, n \in Port, exact \in BOOLEAN : Ask(r, i, n, exact)
    \/ \E c \in Child : \/ ChildStarts(c) \/ Terminates(c) \/ ChildDies(c)
                        \/ ExitEvent(c) \/ Heartbeat(c)
    \/ \E i \in PeerId : Stop(i) \/ Expire(i)
    \/ StopAll

Spec == Init /\ [][Next]_vars

-----------------------------------------------------------------------------
(* Properties *)

\* The record of a process tells its own story, however old processes of the
\* same id outlive their replacement: "stopped" is only said of a process that
\* has ended, "running" only of one nobody asked to stop.
RecordsTellTheTruth ==
    \A c \in Child :
        /\ record[c] = "stopped" => life[c] = "gone"
        /\ record[c] = "running" => c \notin asked
        /\ record[c] = "stopping" => c \in asked

\* launcher.js, stopAll: "Stops all peer processes that were started by this
\* launcher".  A live process that was never asked to stop is in the map, where
\* stopAll finds it.
NoOrphans ==
    \A c \in Live \ asked : processes[peerId[c]] = c
=============================================================================
