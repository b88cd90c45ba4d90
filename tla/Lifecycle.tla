----------------------------- MODULE Lifecycle -----------------------------
(***************************************************************************)
(* The presence of one peer: its PeerRuntime (start, heartbeat, churn       *)
(* simulation, shutdown), its TcpPeerServer, the peer that introduces it (if *)
(* one is configured), and the record the bootstrap keeps of it.            *)
(*                                                                         *)
(* Each timer tick or API call is an activation that runs until it awaits;  *)
(* activations overlap.  The request an activation waits for takes effect   *)
(* at the bootstrap in the step in which the wait ends, so requests in      *)
(* flight together may take effect in any order; one that nobody waits for  *)
(* any more (its time limit has passed, its process is gone, it sits with   *)
(* the introducer that forwards it) may take effect much later.             *)
(* TcpPeerServer.start on a literal address completes before any timer or   *)
(* request callback; stop waits for the open connections.  A port taken by  *)
(* another program is not modelled.                                         *)
(***************************************************************************)
EXTENDS Naturals

CONSTANTS
    Task,           \* activations that may be under way at once
    ChurnTask,      \* those of them that may be a toggle or a stopChurn
    HttpFaults,     \* may a request to the bootstrap fail?
    MaxWipes        \* bound on the restarts of a bootstrap that keeps its
                    \* registry in memory

ASSUME LifecycleConstants ==
    /\ ChurnTask \subseteq Task /\ HttpFaults \in BOOLEAN /\ MaxWipes \in Nat

VARIABLES
    phase,          \* of the process
    churnTimer,     \* Boolean(this.churnTimer)
    churnOffline,
    tcpServer,      \* "closing": close() was called, running still true
    task,           \* what each activation waits for
    record,         \* the peer's row in the registry
    fresh,          \* is the row's last-seen time within the TTL?
    stray,          \* requests on their way that nobody waits for
    introducer,     \* the peer at config.peer.introducerUrl, if one is set
    wipes

regVars == <<record, fresh, wipes>>
vars == <<phase, churnTimer, churnOffline, tcpServer, task, stray, introducer,
          regVars>>

Phase == {"starting", "started", "unregistering", "closing", "exiting",
          "dead"}
Waiting == {"idle", "boot", "unregister", "close", "register", "beat"}

TypeOK ==
    /\ phase \in Phase
    /\ churnTimer \in BOOLEAN /\ churnOffline \in BOOLEAN
    /\ tcpServer \in {"up", "closing", "down"}
    /\ task \in [Task -> Waiting]
    /\ record \in {"absent", "online", "offline"}
    /\ fresh \in BOOLEAN
    /\ stray \subseteq {"register", "beat", "unregister"}
    /\ introducer \in {"none", "up", "gone"}
    /\ wipes \in 0 .. MaxWipes

\* The runtime's start up to registerSelf: the listener is up.
Init ==
    /\ phase = "starting"
    /\ churnTimer = FALSE /\ churnOffline = FALSE
    /\ tcpServer = "up"
    /\ \E b \in Task : task = [t \in Task |-> IF t = b THEN "boot" ELSE "idle"]
    /\ record = "absent" /\ fresh = FALSE
    /\ stray = {} /\ wipes = 0
    /\ introducer \in {"none", "up"}

Alive == phase # "dead"

-----------------------------------------------------------------------------
(* The registry of the bootstrap.  o is what became of a request: answered, *)
(* carried out but not answered, or never carried out.                      *)

Answer == {"ok", "unanswered", "refused"}
Outcome == IF HttpFaults THEN Answer ELSE {"ok"}

\* registerPeer: the row is written, online and seen now.
RegisterPeer(o) ==
    IF o = "refused" THEN UNCHANGED regVars
    ELSE record' = "online" /\ fresh' = TRUE /\ UNCHANGED wipes

\* unregisterPeer: an existing row goes offline.
UnregisterPeer_OwnStatus(o) ==
    /\ record' = IF o # "refused" /\ record # "absent" THEN "unregistered"
                 ELSE record
    /\ UNCHANGED <<fresh, wipes>>
UnregisterPeer(o) ==
    /\ record' = IF o # "refused" /\ record # "absent" THEN "offline"
                 ELSE record
    /\ UNCHANGED <<fresh, wipes>>

\* heartbeat: any existing row goes online, even one that was unregistered.
Heartbeat(o) ==
    IF o = "refused" \/ record = "absent" THEN UNCHANGED regVars
    ELSE record' = "online" /\ fresh' = TRUE /\ UNCHANGED wipes

\* A request with outcome o may be on its way still after its await has ended.
Abandon(k, o) == \/ UNCHANGED stray
                 \/ o = "refused" /\ stray' = stray \cup {k}

StrayArrives(k) ==
    /\ k \in stray /\ stray' = stray \ {k}
    /\ CASE k = "register" -> RegisterPeer("ok")
         [] k = "beat" -> Heartbeat("ok")
         [] k = "unregister" -> UnregisterPeer("ok")
    /\ UNCHANGED <<phase, churnTimer, churnOffline, tcpServer, task, introducer>>

StrayLost(k) ==
    /\ k \in stray /\ stray' = stray \ {k}
    /\ UNCHANGED <<phase, churnTimer, churnOffline, tcpServer, task, introducer,
                   regVars>>

\* The TTL passes since the row was last refreshed.
Age ==
    /\ fresh /\ fresh' = FALSE
    /\ UNCHANGED <<phase, churnTimer, churnOffline, tcpServer, task, record,
                   stray, introducer, wipes>>

\* listPeers, called by some peer's sync: an online row past the TTL expires.
ListPeers_Reversed ==
    /\ record = "online" /\ fresh
    /\ record' = "offline"
    /\ UNCHANGED <<phase, churnTimer, churnOffline, tcpServer, task, fresh,
                   stray, introducer, wipes>>
ListPeers ==
    /\ record = "online" /\ ~fresh
    /\ record' = "offline"
    /\ UNCHANGED <<phase, churnTimer, churnOffline, tcpServer, task, fresh,
                   stray, introducer, wipes>>

\* The bootstrap restarts with an empty memory store.
Wipe ==
    /\ wipes < MaxWipes /\ wipes' = wipes + 1
    /\ record' = "absent" /\ fresh' = FALSE
    /\ UNCHANGED <<phase, churnTimer, churnOffline, tcpServer, task, stray,
                   introducer>>

-----------------------------------------------------------------------------
(* TcpPeerServer *)

\* start() does nothing while running is true, which it is until stop() ends.
StartTcpServer ==
    tcpServer' = IF tcpServer = "down" THEN "up" ELSE tcpServer

\* stop() returns at once unless running.
StopTcpServer(t) ==
    IF tcpServer = "down"
    THEN tcpServer' = "down" /\ task' = [task EXCEPT ![t] = "idle"]
    ELSE tcpServer' = "closing" /\ task' = [task EXCEPT ![t] = "close"]

\* The last open connection ends: running and server are reset, and every
\* caller of stop() goes on.
Closed ==
    /\ Alive /\ tcpServer = "closing"
    /\ tcpServer' = "down"
    /\ task' = [t \in Task |-> IF task[t] = "close" THEN "idle" ELSE task[t]]
    /\ phase' = IF phase = "closing" THEN "exiting" ELSE phase
    /\ UNCHANGED <<churnTimer, churnOffline, stray, introducer, regVars>>

-----------------------------------------------------------------------------
(* PeerRuntime *)

\* What becomes of a registration.  With an introducer configured it goes to
\* that peer and to nobody else, so it is refused while that peer is gone.
RegisterSelf(o) ==
    IF introducer = "gone" THEN o = "refused" /\ UNCHANGED <<stray, regVars>>
    ELSE o \in Outcome /\ RegisterPeer(o) /\ Abandon("register", o)

\* start ends: whether or not it could register, the timers are set.
Started(t, o) ==
    /\ Alive /\ task[t] = "boot"
    /\ RegisterSelf(o)
    /\ phase' = IF phase = "starting" THEN "started" ELSE phase
    /\ task' = [task EXCEPT ![t] = "idle"]
    /\ UNCHANGED <<churnTimer, churnOffline, tcpServer, introducer>>

\* registerSelf ends, an error is logged by safeRun.
Registered(t, o) ==
    /\ Alive /\ task[t] = "register"
    /\ RegisterSelf(o)
    /\ task' = [task EXCEPT ![t] = "idle"]
    /\ UNCHANGED <<phase, churnTimer, churnOffline, tcpServer, introducer>>

\* The heartbeat timer ticks.
Beat_WhileAway(t) ==
    /\ phase = "started" /\ task[t] = "idle"
    /\ task' = [task EXCEPT ![t] = "beat"]
    /\ UNCHANGED <<phase, churnTimer, churnOffline, tcpServer, stray, introducer,
                   regVars>>
Beat(t) ==
    /\ phase = "started" /\ task[t] = "idle"
    /\ ~churnOffline
    /\ task' = [task EXCEPT ![t] = "beat"]
    /\ UNCHANGED <<phase, churnTimer, churnOffline, tcpServer, stray, introducer,
                   regVars>>

\* heartbeat's request ends; "peer not registered" makes it register again.
BeatEnds_NeverRegisters(t, o) ==
    /\ Alive /\ task[t] = "beat"
    /\ Heartbeat(o) /\ Abandon("beat", o)
    /\ task' = [task EXCEPT ![t] = "idle"]
    /\ UNCHANGED <<phase, churnTimer, churnOffline, tcpServer, introducer>>
BeatEnds(t, o) ==
    /\ Alive /\ task[t] = "beat"
    /\ Heartbeat(o) /\ Abandon("beat", o)
    /\ task' = [task EXCEPT ![t] = IF o = "ok" /\ record = "absent"
                                   THEN "register" ELSE "idle"]
    /\ UNCHANGED <<phase, churnTimer, churnOffline, tcpServer, introducer>>

StartChurn ==
    /\ Alive /\ ~churnTimer
    /\ churnTimer' = TRUE
    /\ UNCHANGED <<phase, churnOffline, tcpServer, task, stray, introducer, regVars>>

\* toggleChurnState when online: the flag first, then unregister.
Leave(t) ==
    /\ Alive /\ churnTimer /\ task[t] = "idle" /\ ~churnOffline
    /\ churnOffline' = TRUE
    /\ task' = [task EXCEPT ![t] = "unregister"]
    /\ UNCHANGED <<phase, churnTimer, tcpServer, stray, introducer, regVars>>

\* unregister ends; an error skips tcpServer.stop.
Left(t, o) ==
    /\ Alive /\ task[t] = "unregister"
    /\ UnregisterPeer(o) /\ Abandon("unregister", o)
    /\ IF o = "ok" THEN StopTcpServer(t)
       ELSE task' = [task EXCEPT ![t] = "idle"] /\ UNCHANGED tcpServer
    /\ UNCHANGED <<phase, churnTimer, churnOffline, introducer>>

\* toggleChurnState when offline.
Rejoin_ServerForgotten(t) ==
    /\ Alive /\ churnTimer /\ task[t] = "idle" /\ churnOffline
    /\ churnOffline' = FALSE
    /\ task' = [task EXCEPT ![t] = "register"]
    /\ UNCHANGED <<phase, churnTimer, tcpServer, stray, introducer, regVars>>
Rejoin(t) ==
    /\ Alive /\ churnTimer /\ task[t] = "idle" /\ churnOffline
    /\ StartTcpServer
    /\ churnOffline' = FALSE
    /\ task' = [task EXCEPT ![t] = "register"]
    /\ UNCHANGED <<phase, churnTimer, stray, introducer, regVars>>

\* stopChurn up to its first await that matters: a peer that was offline opens
\* its server and registers.
StopChurnEffect(t) ==
    /\ churnTimer' = FALSE /\ churnOffline' = FALSE
    /\ IF churnOffline
       THEN StartTcpServer /\ task' = [task EXCEPT ![t] = "register"]
       ELSE UNCHANGED <<tcpServer, task>>

StopChurn(t) ==
    /\ Alive /\ task[t] = "idle"
    /\ churnTimer \/ churnOffline
    /\ StopChurnEffect(t)
    /\ UNCHANGED <<phase, stray, introducer, regVars>>

\* shutdown: timers off, stopChurn not awaited, unregister sent.
Shutdown(t) ==
    /\ phase \in {"starting", "started"} /\ task[t] = "idle"
    /\ phase' = "unregistering"
    /\ StopChurnEffect(t)
    /\ UNCHANGED <<stray, introducer, regVars>>

ShutdownUnregistered(o) ==
    /\ phase = "unregistering"
    /\ UnregisterPeer(o) /\ Abandon("unregister", o)
    /\ IF tcpServer = "down"
       THEN phase' = "exiting" /\ UNCHANGED tcpServer
       ELSE phase' = "closing" /\ tcpServer' = "closing"
    /\ UNCHANGED <<churnTimer, churnOffline, task, introducer>>

\* The process of the introducer dies, and what it was forwarding may arrive
\* still; or it is started again at its address.
IntroducerLeaves ==
    /\ introducer = "up" /\ introducer' = "gone"
    /\ \/ UNCHANGED stray
       \/ /\ \E t \in Task : task[t] \in {"boot", "register"}
          /\ stray' = stray \cup {"register"}
    /\ UNCHANGED <<phase, churnTimer, churnOffline, tcpServer, task, regVars>>

IntroducerReturns ==
    /\ introducer = "gone" /\ introducer' = "up"
    /\ UNCHANGED <<phase, churnTimer, churnOffline, tcpServer, task, stray,
                   regVars>>

\* The requests in flight when the process goes; any of them may still arrive.
InFlight ==
    {IF task[t] = "boot" THEN "register" ELSE task[t] :
        t \in {u \in Task : task[u] \in {"boot", "register", "beat", "unregister"}}}

Goes ==
    /\ phase' = "dead"
    /\ tcpServer' = "down"
    /\ stray' = stray \cup InFlight
    /\ task' = [t \in Task |-> "idle"]
    /\ UNCHANGED <<churnTimer, churnOffline, introducer, regVars>>

\* gracefulShutdown: the web server has closed and the process exits.
Exit == phase = "exiting" /\ Goes

\* The process dies without a word.
Crash == Alive /\ Goes

-----------------------------------------------------------------------------

TaskNext(t) ==
    \/ \E o \in Answer : Started(t, o) \/ Registered(t, o)
    \/ \E o \in Outcome : BeatEnds(t, o) \/ Left(t, o)
    \/ Beat(t) \/ Shutdown(t)
    \/ t \in ChurnTask /\ (Leave(t) \/ Rejoin(t) \/ StopChurn(t))

Next ==
    \/ \E t \in Task : TaskNext(t)
    \/ \E o \in Outcome : ShutdownUnregistered(o)
    \/ StartChurn \/ Closed \/ Exit \/ Crash
    \/ Age \/ ListPeers \/ Wipe
    \/ IntroducerLeaves \/ IntroducerReturns
    \/ \E k \in stray : StrayArrives(k) \/ StrayLost(k)

Spec == Init /\ [][Next]_vars

(***************************************************************************)
(* Fairness: requests end (they have a time limit), the heartbeat timer     *)
(* ticks for ever, and a bootstrap asked again and again answers some       *)
(* request; time passes, some peer lists the registry, and a request nobody *)
(* waits for arrives or is lost.  A registration can only succeed while the  *)
(* introducer, if one is configured, is up: nothing is assumed of that peer. *)
(***************************************************************************)
Fairness ==
    /\ \A t \in Task :
          /\ WF_vars(\E o \in Answer : Started(t, o) \/ Registered(t, o))
          /\ WF_vars(\E o \in Outcome : BeatEnds(t, o) \/ Left(t, o))
          /\ SF_vars(Beat(t))
          /\ SF_vars(BeatEnds(t, "ok")) /\ SF_vars(Registered(t, "ok"))
    /\ WF_vars(Closed)
    /\ WF_vars((~Alive \/ churnOffline) /\ Age) /\ WF_vars(ListPeers)
    /\ WF_vars(\E k \in stray : StrayArrives(k) \/ StrayLost(k))

FairSpec == Spec /\ Fairness

-----------------------------------------------------------------------------
(* Properties *)

AtRest == phase = "started" /\ \A t \in Task : task[t] = "idle"

\* A peer that considers itself online accepts connections once what it was
\* doing has ended, whichever of its requests failed on the way; so long as no
\* churn operation starts before the previous one has ended.
OnlineMeansListening == AtRest /\ ~churnOffline => tcpServer = "up"

\* A peer that stays up and in the network is found in the registry again and
\* again, whatever restarts of the bootstrap, lost requests and expired TTLs
\* come between: the heartbeat revives its row or registers it anew, provided
\* the introducer it was given, if any, is there to forward the registration.
PresentPeerIsListed ==
    <>[](phase = "started" /\ ~churnOffline /\ introducer # "gone") =>
        []<>(record = "online")

\* A peer whose process is gone, by a crash or an orderly exit, eventually
\* leaves the registry for good, although nobody unregistered it.
DeadPeerIsDelisted == phase = "dead" ~> [](record # "online")

\* A peer that stays away by its churn simulation leaves the registry for good,
\* even when the request to unregister it got lost or overtaken by a heartbeat.
AwayPeerIsDelisted ==
    <>[](Alive /\ churnOffline) => <>[](record # "online")

-----------------------------------------------------------------------------
(* What the comments say and the code does not do; see the README. *)

\* "Stops churn simulation and restores the peer to online state."
StopChurnRestores == AtRest /\ ~churnTimer => tcpServer = "up"
=============================================================================
