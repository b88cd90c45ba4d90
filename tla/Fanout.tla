------------------------------ MODULE Fanout ------------------------------
(***************************************************************************)
(* One message for several peers: PeerRuntime.sendGroup and broadcast, with *)
(* resolvePeer and the peer cache they read, on top of the copy of the      *)
(* groups that module Groups keeps.  The targets are served one after the   *)
(* other, each by a deliverPayload of which only the promise is kept here   *)
(* (module MessageFate, implemented by Delivery); the cache and the groups  *)
(* change under the loop.  No property depends on the order of the targets, *)
(* so they are a set.                                                       *)
(*                                                                         *)
(* The cache this.peers is replaced by every sync, with what the bootstrap  *)
(* says of peers that come, go and expire at any time: what it holds of a   *)
(* peer is chosen when it is read.                                          *)
(***************************************************************************)
EXTENDS Groups, Naturals

CONSTANTS
    Send,           \* ids of group messages and broadcasts, all of Self
    Faulty          \* <<send, peer>>: processing the text there throws

\* Groups are UUIDs.
ASSUME FanoutConstants ==
    {"none", "broadcast"} \cap Group = {} /\ Faulty \subseteq Send \X Peer

VARIABLES
    call,           \* the group, or "broadcast", once the user has sent
    stage,          \* of the activation of sendGroup / broadcast
    targets,        \* members / targets, computed when the call starts
    left, target,   \* peers not served yet, the one being served
    results,        \* what the loop has collected
    status,         \* localMessage.status
    taken           \* who has taken the message by the time of its answer

sendVars == <<call, stage, targets, left, target, results, status, taken>>
vars == <<groupVars, sendVars>>

Other == Peer \ {Self}
Result == {"none", "ok", "failed"}
Status == {"none", "sending", "delivered", "partial", "failed_queued"}
IsGroup(s) == call[s] \in Group

TypeOK ==
    /\ GroupsTypeOK
    /\ call \in [Send -> {"none", "broadcast"} \cup Group]
    /\ stage \in [Send -> {"idle", "next", "deliver", "save", "done", "threw"}]
    /\ targets \in [Send -> SUBSET Peer]
    /\ left \in [Send -> SUBSET Peer] /\ target \in [Send -> Peer]
    /\ results \in [Send -> [Peer -> Result]]
    /\ status \in [Send -> Status]
    /\ taken \in [Send -> SUBSET Peer]

Init ==
    /\ GroupsInit
    /\ call = [s \in Send |-> "none"] /\ stage = [s \in Send |-> "idle"]
    /\ targets = [s \in Send |-> {}]
    /\ left = [s \in Send |-> {}] /\ target = [s \in Send |-> Self]
    /\ results = [s \in Send |-> [p \in Peer |-> "none"]]
    /\ status = [s \in Send |-> "none"]
    /\ taken = [s \in Send |-> {}]

-----------------------------------------------------------------------------

\* An answer reaches consolidatedSync, run by the timer, by createGroup and
\* addGroupMembers when they are done, or by broadcast.
ConsolidatedSync(copy) == TakeGroups(copy) /\ UNCHANGED sendVars

\* trackOutgoing, and the loop starts.
Start(s, S) ==
    /\ S # {}
    /\ targets' = [targets EXCEPT ![s] = S]
    /\ left' = [left EXCEPT ![s] = S]
    /\ status' = [status EXCEPT ![s] = "sending"]
    /\ stage' = [stage EXCEPT ![s] = "next"]
    /\ UNCHANGED <<groupVars, target, results, taken>>

\* The members come from the copy, which is also what the page lists.
SendGroup_ToAnyone(s, g) ==
    /\ stage[s] = "idle"
    /\ call' = [call EXCEPT ![s] = g]
    /\ Start(s, IF groups[g] # {} THEN groups[g] \ {Self} ELSE Other)
SendGroup(s, g) ==
    /\ stage[s] = "idle"
    /\ call' = [call EXCEPT ![s] = g]
    /\ Start(s, groups[g] \ {Self})

\* broadcast, after a sync that may have failed, to all the cache has online.
Broadcast(s) ==
    /\ stage[s] = "idle"
    /\ call' = [call EXCEPT ![s] = "broadcast"]
    /\ \E Online \in SUBSET Other : Start(s, Online)

\* The next target.  A broadcast has its record; for a group, resolvePeer takes
\* a peer cached online as it is, and any other as the bootstrap has it or,
\* should the lookup fail, as the cache has it.
Resolve_LeavesIt(s, p) ==
    /\ stage[s] = "next" /\ p \in left[s]
    /\ left' = [left EXCEPT ![s] = IF @ = {p} THEN {} ELSE @]
    /\ target' = [target EXCEPT ![s] = p]
    /\ stage' = [stage EXCEPT ![s] = "deliver"]
    /\ UNCHANGED <<groupVars, call, targets, results, status, taken>>
Resolve(s, p) ==
    /\ stage[s] = "next" /\ p \in left[s]
    /\ left' = [left EXCEPT ![s] = @ \ {p}]
    /\ target' = [target EXCEPT ![s] = p]
    /\ stage' = [stage EXCEPT ![s] = "deliver"]
    /\ UNCHANGED <<groupVars, call, targets, results, status, taken>>

\* The lookup fails (404 is an error too) and the cache does not know the peer:
\* resolvePeer throws, and so does sendGroup.
ResolveThrows(s, p) ==
    /\ stage[s] = "next" /\ p \in left[s] /\ IsGroup(s)
    /\ stage' = [stage EXCEPT ![s] = "threw"]
    /\ UNCHANGED <<groupVars, call, targets, left, target, results, status,
                   taken>>

Failed(s, r) == {p \in Peer : r[p] = "failed"}
Ok(s, r) == {p \in Peer : r[p] = "ok"}

\* The status once every result r is in.
Verdict_AnyOk(s, r) ==
    IF Ok(s, r) # {} THEN "delivered"
    ELSE IF IsGroup(s) THEN "failed_queued" ELSE "partial"
Verdict_OfAFile(s, r) ==
    CASE Failed(s, r) = {} -> "delivered"
      [] Failed(s, r) # {} /\ Ok(s, r) = {} -> "failed"
      [] OTHER -> "partial"
Verdict(s, r) ==
    CASE Failed(s, r) = {} -> "delivered"
      [] Failed(s, r) # {} /\ IsGroup(s) /\ Ok(s, r) = {} -> "failed_queued"
      [] OTHER -> "partial"

\* The end of deliverPayload as the sender sees it.  Ok is told of a message the
\* target took, or of one whose processing threw there: the retry of that one is
\* answered as a duplicate.  A failure says nothing, as the answer may be late
\* and a record may wait in the queue.
Told(s, p, r) ==
    /\ r # "none"
    /\ \/ <<s, p>> \notin Faulty /\ taken' = [taken EXCEPT ![s] = @ \cup {p}]
       \/ (<<s, p>> \in Faulty \/ r = "failed") /\ UNCHANGED taken
    /\ results' = [results EXCEPT ![s][p] = r]

Deliver_Forgets(s, r) ==
    LET p == target[s] IN
    /\ stage[s] = "deliver"
    /\ Told(s, p, r)
    /\ IF left[s] = {} \/ r = "failed"
       THEN /\ stage' = [stage EXCEPT ![s] = "save"]
            /\ status' = [status EXCEPT ![s] = Verdict(s, results'[s])]
       ELSE stage' = [stage EXCEPT ![s] = "next"] /\ UNCHANGED status
    /\ UNCHANGED <<groupVars, call, targets, left, target>>
Deliver(s, r) ==
    LET p == target[s] IN
    /\ stage[s] = "deliver"
    /\ Told(s, p, r)
    /\ IF left[s] = {}
       THEN /\ stage' = [stage EXCEPT ![s] = "save"]
            /\ status' = [status EXCEPT ![s] = Verdict(s, results'[s])]
       ELSE stage' = [stage EXCEPT ![s] = "next"] /\ UNCHANGED status
    /\ UNCHANGED <<groupVars, call, targets, left, target>>

\* saveGroupMessage / saveDirectMessage under safeRun: whether the row is
\* written or not, the call returns.
Save(s) ==
    /\ stage[s] = "save"
    /\ stage' = [stage EXCEPT ![s] = "done"]
    /\ UNCHANGED <<groupVars, call, targets, left, target, results,
                   status, taken>>

Next ==
    \/ GroupsNext /\ UNCHANGED sendVars
    \/ \E copy \in answers : ConsolidatedSync(copy)
    \/ \E s \in Send :
          \/ \E g \in Group : SendGroup(s, g)
          \/ Broadcast(s) \/ Save(s)
          \/ \E p \in Peer : Resolve(s, p) \/ ResolveThrows(s, p)
          \/ \E r \in Result : Deliver(s, r)

Spec == Init /\ [][Next]_vars

(***************************************************************************)
(* Fairness: the sync timer ticks for ever and every request ends (requests *)
(* have a time limit), an old one not later than the others; a bootstrap    *)
(* that is asked again and again has its answer arrive in the end.          *)
(***************************************************************************)
Stale(copy) == copy # ListGroups

Fairness ==
    /\ WF_vars(SyncAnswered /\ UNCHANGED sendVars)
    /\ WF_vars(\E copy \in answers :
                  /\ Stale(copy)
                  /\ \/ ConsolidatedSync(copy)
                     \/ SyncFails(copy) /\ UNCHANGED sendVars)
    /\ SF_vars(\E copy \in answers : ~Stale(copy) /\ ConsolidatedSync(copy))

FairSpec == Spec /\ Fairness

-----------------------------------------------------------------------------
(* Properties *)

Answered(s) == {p \in Peer : results[s][p] # "none"}

\* What the sender shows is true of every target: "delivered" means that all of
\* them acknowledged the message, and took it unless processing it throws there;
\* "partial" that one gave no acknowledgement and, of a group, that another did;
\* "failed_queued" that none did.
StatusIsTrue ==
    \A s \in Send :
        /\ status[s] = "delivered" =>
              \A p \in targets[s] :
                  /\ results[s][p] = "ok"
                  /\ p \in taken[s] \/ <<s, p>> \in Faulty
        /\ status[s] = "partial" =>
              /\ \E p \in targets[s] : results[s][p] = "failed"
              /\ IsGroup(s) => \E p \in targets[s] : results[s][p] = "ok"
        /\ status[s] = "failed_queued" =>
              \A p \in targets[s] : results[s][p] = "failed"

\* A send that ends without an error has an answer for every target it began
\* with and for nobody else, whatever happens to the cache and the groups
\* while the loop is suspended.
NobodyForgotten ==
    \A s \in Send :
        /\ Answered(s) \subseteq targets[s] \ left[s]
        /\ stage[s] \in {"save", "done"} => Answered(s) = targets[s]

\* A target is served once, its answer stands, and so does the status that was
\* shown in the end: no change of the cache or of the groups makes the loop
\* come back to a peer that has the message, or restate the outcome.
AnswersStand ==
    [][\A s \in Send :
          /\ stage[s] = "next" /\ stage'[s] = "deliver" =>
                results[s][target'[s]] = "none"
          /\ \A p \in Answered(s) : results'[s][p] = results[s][p]
          /\ status[s] \notin {"none", "sending"} => status'[s] = status[s]]_vars

\* A group message goes to those who are or were members of the group and to
\* nobody else, however old the sender's copy of the group is.
NoStrangers ==
    \A s \in Send : IsGroup(s) =>
        targets[s] \cup taken[s] \subseteq EverMember(call[s])

\* Once the bootstrap lists a group as it will stay, with its last members or,
\* wiped, not at all, the peer's copy of it becomes the same before long, and
\* then for good: an answer that comes late may bring an older state back, but
\* only until the next.
CopyCatchesUp ==
    \A g \in Group, M \in SUBSET Peer :
        <>[](ListGroups[g] = M) => <>[](groups[g] = M)

\* sendGroup: "Sends one group message individually to each group member".  A
\* member nobody knows aborts the loop before the members after it, and the
\* branch for "peer not found" is never reached.
EachMemberIsServed ==
    \A s \in Send :
        stage[s] \in {"done", "threw"} /\ IsGroup(s) =>
            targets[s] \subseteq Answered(s)
=============================================================================
