-------------------------- MODULE LifecycleProofs --------------------------
(***************************************************************************)
(* The presence of a peer, for any number of overlapping activations, any   *)
(* requests failing and any number of bootstrap restarts.                   *)
(***************************************************************************)
EXTENDS Lifecycle, TLAPS

USE LifecycleConstants DEF LifecycleConstants

-----------------------------------------------------------------------------
(* Type correctness *)

LEMMA RegistryTypes ==
    ASSUME TypeOK, NEW o,
           RegisterPeer(o) \/ UnregisterPeer(o) \/ Heartbeat(o)
    PROVE  /\ record' \in {"absent", "online", "offline"}
           /\ fresh' \in BOOLEAN /\ wipes' \in 0 .. MaxWipes
BY DEF TypeOK, RegisterPeer, UnregisterPeer, Heartbeat, regVars

LEMMA AbandonTypes ==
    ASSUME TypeOK, NEW o, NEW k \in {"register", "beat", "unregister"}, Abandon(k, o)
    PROVE  stray' \subseteq {"register", "beat", "unregister"}
BY DEF TypeOK, Abandon

LEMMA RegisterTypes ==
    ASSUME TypeOK, NEW o, RegisterSelf(o)
    PROVE  /\ record' \in {"absent", "online", "offline"}
           /\ fresh' \in BOOLEAN /\ wipes' \in 0 .. MaxWipes
           /\ stray' \subseteq {"register", "beat", "unregister"}
<1>1. CASE introducer = "gone"
    BY <1>1 DEF RegisterSelf, TypeOK, regVars
<1>2. CASE introducer # "gone"
    BY <1>2, RegistryTypes, AbandonTypes DEF RegisterSelf
<1> QED
    BY <1>1, <1>2

LEMMA RequestTypes ==
    ASSUME TypeOK, NEW t \in Task, NEW o,
           Started(t, o) \/ Registered(t, o) \/ BeatEnds(t, o) \/ Left(t, o)
    PROVE  TypeOK'
<1>1. CASE Started(t, o)
    BY <1>1, RegisterTypes DEF Started, TypeOK, Phase, Waiting
<1>2. CASE Registered(t, o)
    BY <1>2, RegisterTypes DEF Registered, TypeOK, Phase, Waiting
<1>3. CASE BeatEnds(t, o)
    BY <1>3, RegistryTypes, AbandonTypes DEF BeatEnds, TypeOK, Phase, Waiting
<1>4. CASE Left(t, o)
    BY <1>4, RegistryTypes, AbandonTypes
    DEF Left, StopTcpServer, TypeOK, Phase, Waiting
<1> QED
    BY <1>1, <1>2, <1>3, <1>4

LEMMA TimerTypes ==
    ASSUME TypeOK, NEW t \in Task,
           Beat(t) \/ Shutdown(t) \/ Leave(t) \/ Rejoin(t) \/ StopChurn(t)
    PROVE  TypeOK'
<1> USE DEF TypeOK, Phase, Waiting, regVars
<1>1. CASE Beat(t)
    BY <1>1 DEF Beat
<1>2. CASE Shutdown(t)
    BY <1>2 DEF Shutdown, StopChurnEffect, StartTcpServer
<1>3. CASE Leave(t)
    BY <1>3 DEF Leave
<1>4. CASE Rejoin(t)
    BY <1>4 DEF Rejoin, StartTcpServer
<1>5. CASE StopChurn(t)
    BY <1>5 DEF StopChurn, StopChurnEffect, StartTcpServer
<1> QED
    BY <1>1, <1>2, <1>3, <1>4, <1>5

LEMMA GoesTypes ==
    ASSUME TypeOK, Goes
    PROVE  TypeOK'
<1>1. InFlight \subseteq {"register", "beat", "unregister"}
    <2>1. ASSUME NEW t \in Task, task[t] \in {"boot", "register", "beat", "unregister"}
          PROVE  (IF task[t] = "boot" THEN "register" ELSE task[t])
                    \in {"register", "beat", "unregister"}
        BY <2>1
    <2> QED
        BY <2>1 DEF InFlight
<1>2. stray' \subseteq {"register", "beat", "unregister"}
    BY <1>1 DEF Goes, TypeOK
<1> QED
    BY <1>2 DEF Goes, TypeOK, Phase, Waiting, regVars

LEMMA OtherTypes ==
    ASSUME TypeOK,
           \/ \E o \in Outcome : ShutdownUnregistered(o)
           \/ StartChurn \/ Closed \/ Exit \/ Crash
           \/ Age \/ ListPeers \/ Wipe
           \/ IntroducerLeaves \/ IntroducerReturns
           \/ \E k \in stray : StrayArrives(k) \/ StrayLost(k)
    PROVE  TypeOK'
<1>1. ASSUME NEW o \in Outcome, ShutdownUnregistered(o)
      PROVE  TypeOK'
    BY <1>1, RegistryTypes, AbandonTypes
    DEF ShutdownUnregistered, TypeOK, Phase, Waiting
<1>2. CASE StartChurn
    BY <1>2 DEF StartChurn, TypeOK, regVars
<1>3. CASE Closed
    BY <1>3 DEF Closed, TypeOK, Phase, Waiting, regVars
<1>4. CASE Exit \/ Crash
    BY <1>4, GoesTypes DEF Exit, Crash
<1>5. CASE Age \/ ListPeers
    BY <1>5 DEF Age, ListPeers, TypeOK
<1>8. CASE Wipe
    <2>1. wipes' \in 0 .. MaxWipes
        BY <1>8 DEF Wipe, TypeOK
    <2> QED
        BY <1>8, <2>1 DEF Wipe, TypeOK
<1>6. ASSUME NEW k \in stray, StrayArrives(k)
      PROVE  TypeOK'
    <2>1. RegisterPeer("ok") \/ UnregisterPeer("ok") \/ Heartbeat("ok")
        BY <1>6 DEF StrayArrives, TypeOK
    <2> QED
        BY <1>6, <2>1, RegistryTypes DEF StrayArrives, TypeOK
<1>7. ASSUME NEW k \in stray, StrayLost(k)
      PROVE  TypeOK'
    BY <1>7 DEF StrayLost, TypeOK, regVars
<1>9. CASE IntroducerLeaves \/ IntroducerReturns
    BY <1>9 DEF IntroducerLeaves, IntroducerReturns, TypeOK, regVars
<1> QED
    BY <1>1, <1>2, <1>3, <1>4, <1>5, <1>6, <1>7, <1>8, <1>9

LEMMA NextTypes == TypeOK /\ [Next]_vars => TypeOK'
<1>1. TypeOK /\ UNCHANGED vars => TypeOK'
    BY DEF TypeOK, vars, regVars
<1>2. ASSUME TypeOK, NEW t \in Task, TaskNext(t)
      PROVE  TypeOK'
    BY <1>2, RequestTypes, TimerTypes DEF TaskNext
<1> QED
    BY <1>1, <1>2, OtherTypes DEF Next

LEMMA InitTypes == Init => TypeOK
<1> SUFFICES ASSUME Init
             PROVE  TypeOK
    OBVIOUS
<1>1. task \in [Task -> Waiting]
    BY DEF Init, Waiting
<1>2. wipes \in 0 .. MaxWipes
    BY DEF Init
<1> QED
    BY <1>1, <1>2 DEF Init, TypeOK, Phase

\* Every variable of the peer, and of its row in the registry, keeps its type.
THEOREM PresenceTypes == Spec => []TypeOK
BY InitTypes, NextTypes, PTL DEF Spec

-----------------------------------------------------------------------------
(***************************************************************************)
(* Churn operations that do not overlap.  Until the peer shuts down, only a *)
(* churn operation closes the listener, and while one does the peer counts  *)
(* as offline; so whoever clears the flag finds the listener up, or down    *)
(* and opens it, never half closed.                                         *)
(***************************************************************************)

OneChurn == \A t, u \in ChurnTask : t = u

Running == phase \in {"starting", "started"}
Leaving(t) == task[t] \in {"unregister", "close"}

ListenerInv ==
    Running =>
        /\ ~churnOffline => tcpServer = "up"
        /\ \A t \in Task : Leaving(t) => t \in ChurnTask /\ churnOffline
        /\ tcpServer = "closing" => \E t \in ChurnTask : task[t] = "close"

OInv == TypeOK /\ ListenerInv

\* Steps that leave the listener and the flag alone and begin no departure.
LEMMA Elsewhere ==
    ASSUME OInv, Running' => Running,
           churnOffline' = churnOffline, tcpServer' = tcpServer,
           \A t \in Task : /\ Leaving(t)' => Leaving(t)
                           /\ task[t] = "close" => task'[t] = "close"
    PROVE  ListenerInv'
BY DEF OInv, ListenerInv

LEMMA NextListener ==
    ASSUME OneChurn, OInv, TypeOK', [Next]_vars
    PROVE  ListenerInv'
<1> USE DEF OInv
<1>1. CASE UNCHANGED vars
    BY <1>1, Elsewhere DEF vars, regVars, Running, Leaving
<1>2. ASSUME NEW t \in Task, NEW o, Started(t, o) \/ Registered(t, o) \/ BeatEnds(t, o)
      PROVE  ListenerInv'
    <2>1. PICK s \in {"idle", "register"} : task' = [task EXCEPT ![t] = s]
        BY <1>2 DEF Started, Registered, BeatEnds
    <2>2. task[t] # "close" /\ UNCHANGED <<churnOffline, tcpServer>>
          /\ (Running' => Running)
        BY <1>2 DEF Started, Registered, BeatEnds, Running
    <2> QED
        BY <2>1, <2>2, Elsewhere DEF TypeOK, Leaving
<1>3. ASSUME NEW t \in Task, NEW o, Left(t, o)
      PROVE  ListenerInv'
    <2>1. Running' = Running /\ churnOffline' = churnOffline /\ Leaving(t)
        BY <1>3 DEF Left, Running, Leaving
    <2>2. PICK s \in {"idle", "close"} : /\ task' = [task EXCEPT ![t] = s]
                                         /\ tcpServer' = "closing" => s = "close" \/ tcpServer = "closing"
        BY <1>3 DEF Left, StopTcpServer
    <2>3. \A u \in Task : /\ Leaving(u)' => Leaving(u)
                          /\ task[u] = "close" => task'[u] = "close"
        BY <1>3, <2>2 DEF Left, Leaving, TypeOK
    <2> QED
        BY <2>1, <2>2, <2>3 DEF ListenerInv, TypeOK
<1>4. ASSUME NEW t \in Task, Beat(t)
      PROVE  ListenerInv'
    BY <1>4, Elsewhere DEF Beat, Running, Leaving, TypeOK
<1>5. ASSUME NEW t \in Task, Shutdown(t)
      PROVE  ListenerInv'
    BY <1>5 DEF Shutdown, ListenerInv, Running
<1>6. ASSUME NEW t \in ChurnTask, Leave(t)
      PROVE  ListenerInv'
    BY <1>6 DEF Leave, ListenerInv, Running, Leaving, TypeOK
<1>7. ASSUME NEW t \in ChurnTask, Rejoin(t) \/ StopChurn(t)
      PROVE  ListenerInv'
    <2>1. /\ task[t] = "idle" /\ churnOffline' = FALSE
          /\ Running' = Running
          /\ \/ churnOffline /\ StartTcpServer
                /\ task' = [task EXCEPT ![t] = "register"]
             \/ ~churnOffline /\ UNCHANGED <<tcpServer, task>>
        BY <1>7 DEF Rejoin, StopChurn, StopChurnEffect, Running, TypeOK
    <2> SUFFICES ASSUME Running
                 PROVE  ListenerInv'
        BY <2>1 DEF ListenerInv
    <2>2. \A u \in Task : ~Leaving(u)
        BY <2>1 DEF ListenerInv, OneChurn, Leaving
    <2>3. tcpServer # "closing"
        BY <2>2 DEF ListenerInv, Leaving
    <2>4. tcpServer' = "up"
        BY <2>1, <2>3 DEF StartTcpServer, ListenerInv, TypeOK
    <2>5. \A u \in Task : ~Leaving(u)'
        BY <2>1, <2>2 DEF Leaving, TypeOK
    <2> QED
        BY <2>4, <2>5 DEF ListenerInv
<1>8. ASSUME NEW o, ShutdownUnregistered(o)
      PROVE  ListenerInv'
    BY <1>8 DEF ShutdownUnregistered, ListenerInv, Running
<1>9. CASE Closed
    <2> SUFFICES ASSUME Running'
                 PROVE  ListenerInv'
        BY DEF ListenerInv
    <2>1. Running
        BY <1>9 DEF Closed, Running
    <2>2. churnOffline
        BY <1>9, <2>1 DEF Closed, ListenerInv, TypeOK
    <2>3. \A u \in Task : Leaving(u)' => Leaving(u)
        BY <1>9 DEF Closed, Leaving
    <2> QED
        BY <1>9, <2>1, <2>2, <2>3 DEF Closed, ListenerInv
<1>10. CASE Exit \/ Crash
    BY <1>10 DEF Exit, Crash, Goes, ListenerInv, Running
<1>11. CASE StartChurn \/ Age \/ ListPeers \/ Wipe
    BY <1>11, Elsewhere DEF StartChurn, Age, ListPeers, Wipe, Running, Leaving
<1>12. ASSUME NEW k \in stray, StrayArrives(k) \/ StrayLost(k)
       PROVE  ListenerInv'
    BY <1>12, Elsewhere DEF StrayArrives, StrayLost, Running, Leaving
<1>13. CASE IntroducerLeaves \/ IntroducerReturns
    BY <1>13, Elsewhere DEF IntroducerLeaves, IntroducerReturns, Running, Leaving
<1> QED
    BY <1>1, <1>2, <1>3, <1>4, <1>5, <1>6, <1>7, <1>8, <1>9, <1>10, <1>11, <1>12,
       <1>13 DEF Next, TaskNext

\* If no churn operation starts before the previous one has ended, a peer that
\* considers itself online and is at rest listens, however its requests to the
\* bootstrap failed on the way.
THEOREM OnlinePeerListens ==
    ASSUME OneChurn
    PROVE  Spec => []OnlineMeansListening
<1>1. Init => OInv
    BY InitTypes DEF Init, OInv, ListenerInv, Leaving
<1>2. OInv /\ [Next]_vars => OInv'
    BY NextListener, NextTypes DEF OInv
<1>3. OInv => OnlineMeansListening
    BY DEF OInv, ListenerInv, OnlineMeansListening, AtRest, Running
<1> QED
    BY <1>1, <1>2, <1>3, PTL DEF Spec

\* Only the churn simulation takes a peer out of the network, and whatever
\* clears its timer clears its flag.
AwayByChurn == churnOffline => churnTimer

LEMMA NextAway == TypeOK /\ AwayByChurn /\ [Next]_vars => AwayByChurn'
<1> SUFFICES ASSUME TypeOK, AwayByChurn, [Next]_vars
             PROVE  AwayByChurn'
    OBVIOUS
<1>1. CASE UNCHANGED <<churnTimer, churnOffline>>
    BY <1>1 DEF AwayByChurn
<1>2. ASSUME NEW t \in Task, TaskNext(t)
      PROVE  AwayByChurn'
    <2>1. CASE Leave(t) \/ Rejoin(t)
        BY <2>1 DEF Leave, Rejoin, AwayByChurn
    <2>2. CASE StopChurn(t) \/ Shutdown(t)
        BY <2>2 DEF StopChurn, Shutdown, StopChurnEffect, AwayByChurn
    <2>3. CASE \/ Beat(t)
               \/ \E o \in Answer : Started(t, o) \/ Registered(t, o)
               \/ \E o \in Outcome : BeatEnds(t, o) \/ Left(t, o)
        BY <1>1, <2>3 DEF Beat, Started, Registered, BeatEnds, Left
    <2> QED
        BY <1>2, <2>1, <2>2, <2>3 DEF TaskNext
<1>3. CASE StartChurn
    BY <1>3 DEF StartChurn, AwayByChurn
<1>4. CASE Closed \/ Age \/ ListPeers \/ Wipe \/ UNCHANGED vars
    BY <1>1, <1>4 DEF Closed, Age, ListPeers, Wipe, vars
<1>5. CASE Exit \/ Crash
    BY <1>1, <1>5 DEF Exit, Crash, Goes
<1>6. CASE \E o \in Outcome : ShutdownUnregistered(o)
    BY <1>1, <1>6 DEF ShutdownUnregistered
<1>7. CASE \E k \in stray : StrayArrives(k) \/ StrayLost(k)
    BY <1>1, <1>7 DEF StrayArrives, StrayLost
<1>8. CASE IntroducerLeaves \/ IntroducerReturns
    BY <1>1, <1>8 DEF IntroducerLeaves, IntroducerReturns
<1> QED
    BY <1>2, <1>3, <1>4, <1>5, <1>6, <1>7, <1>8 DEF Next

\* stopChurn keeps the promise of its comment, a peer restored to the network
\* with its listener, if no churn operation starts before the previous one has
\* ended, whichever requests fail; without that it does not.
THEOREM StopChurnRestoresPeer ==
    ASSUME OneChurn
    PROVE  Spec => []StopChurnRestores
<1>1. Init => OInv /\ AwayByChurn
    BY InitTypes DEF Init, OInv, ListenerInv, Leaving, AwayByChurn
<1>2. OInv /\ AwayByChurn /\ [Next]_vars => (OInv /\ AwayByChurn)'
    BY NextListener, NextTypes, NextAway DEF OInv
<1>3. OInv /\ AwayByChurn => StopChurnRestores
    BY DEF OInv, ListenerInv, AwayByChurn, StopChurnRestores, AtRest, Running
<1> QED
    BY <1>1, <1>2, <1>3, PTL DEF Spec
=============================================================================
