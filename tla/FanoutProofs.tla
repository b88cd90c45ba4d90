---------------------------- MODULE FanoutProofs ----------------------------
(***************************************************************************)
(* Theorems about Groups and Fanout for every set of peers, groups and      *)
(* sends, whoever creates the groups and whoever is added to them, with a   *)
(* store that lasts or one that is wiped.                                   *)
(***************************************************************************)
EXTENDS Fanout, TLAPS

USE GroupsConstants, FanoutConstants DEF GroupsConstants, FanoutConstants

-----------------------------------------------------------------------------
(***************************************************************************)
(* Groups.  CreatedIsWhole needs that a call under way has its rows, that   *)
(* nobody adds to a group before it is created, and that a wiped group does *)
(* not come back; CopyWithinGroup that an answer on its way is already      *)
(* within the group, which it stays because nobody leaves a group.          *)
(***************************************************************************)

RowsOfCalls ==
    \A g \in Group :
        /\ creating[g] = "busy" => g \in chatGroups
        /\ creating[g] = "none" => EverMember(g) = {} /\ adding[g] = "none"
        /\ adding[g] = "busy" => EverMember(g) # {}
        /\ lost[g] # {} => g \notin chatGroups

Within(copy) ==
    \A g \in Group :
        copy[g] # {} => Self \in copy[g] /\ copy[g] \subseteq EverMember(g)

GroupsIInv ==
    /\ GroupsTypeOK
    /\ RowsOfCalls /\ CreatedIsWhole
    /\ \A copy \in answers : Within(copy)
    /\ CopyWithinGroup

LEMMA InitGroups == GroupsInit => GroupsIInv
BY DEF GroupsInit, GroupsIInv, GroupsTypeOK, Copy, Call, RowsOfCalls, Within,
       CreatedIsWhole, CopyWithinGroup, EverMember

\* A group only grows, and a step of one group leaves the others.
LEMMA TablesStep ==
    ASSUME GroupsIInv, NEW g \in Group,
           \/ CreateGroup(g) \/ GroupCreated(g) \/ CreationFails(g)
           \/ AddGroupMembers(g) \/ MembersAdded(g)
           \/ \E p \in Peer : InsertMember(g, p) \/ InsertJoining(g, p)
    PROVE  /\ GroupsIInv'
           /\ \A h \in Group : EverMember(h) \subseteq EverMember(h)'
<1> USE DEF GroupsIInv
<1>1. UNCHANGED <<answers, groups, lost>>
    BY DEF CreateGroup, GroupCreated, CreationFails, AddGroupMembers,
           MembersAdded, InsertMember, InsertJoining
<1>2. ASSUME \A h \in Group : EverMember(h) \subseteq EverMember(h)'
      PROVE  (\A copy \in answers' : Within(copy)') /\ CopyWithinGroup'
    BY <1>1, <1>2 DEF Within, CopyWithinGroup
<1>3. CASE CreateGroup(g)
    <2>1. GroupsTypeOK'
        BY <1>3 DEF CreateGroup, GroupsTypeOK, Call
    <2>2. RowsOfCalls' /\ CreatedIsWhole'
        <3>1. groupMembers[g] = {} /\ lost[g] = {} /\ adding[g] = "none"
            BY <1>3 DEF CreateGroup, RowsOfCalls, EverMember
        <3>2. \A h \in Group : EverMember(h)' = EverMember(h)
            BY <1>1, <1>3 DEF CreateGroup, EverMember
        <3>3. /\ UNCHANGED <<groupMembers, adding>>
              /\ chatGroups' = chatGroups \cup {g}
              /\ creating'[g] = "busy"
              /\ \A h \in Group \ {g} : creating'[h] = creating[h]
            BY <1>3 DEF CreateGroup, GroupsTypeOK
        <3>4. RowsOfCalls'
            BY <1>1, <1>3, <3>1, <3>2 DEF CreateGroup, GroupsTypeOK, RowsOfCalls
        <3>5. CreatedIsWhole'
            BY <1>1, <3>1, <3>3 DEF CreatedIsWhole, Wanted, RowsOfCalls
        <3> QED
            BY <3>4, <3>5
    <2> QED
        BY <1>2, <1>3, <2>1, <2>2 DEF CreateGroup, EverMember
<1>4. CASE GroupCreated(g)
    <2>1. GroupsTypeOK'
        BY <1>4 DEF GroupCreated, GroupsTypeOK, Call
    <2>2. RowsOfCalls' /\ CreatedIsWhole'
        BY <1>4 DEF GroupCreated, GroupsTypeOK, RowsOfCalls, CreatedIsWhole, Wanted,
                    EverMember
    <2> QED
        BY <1>2, <1>4, <2>1, <2>2 DEF GroupCreated, EverMember
<1>5. CASE CreationFails(g)
    <2>1. GroupsTypeOK'
        BY <1>5 DEF CreationFails, GroupsTypeOK, Call
    <2>2. RowsOfCalls' /\ CreatedIsWhole'
        BY <1>5 DEF CreationFails, GroupsTypeOK, RowsOfCalls, CreatedIsWhole, Wanted,
                    EverMember
    <2> QED
        BY <1>2, <1>5, <2>1, <2>2 DEF CreationFails, EverMember
<1>6. CASE AddGroupMembers(g)
    <2>1. GroupsTypeOK'
        BY <1>6 DEF AddGroupMembers, GroupsTypeOK, Call
    <2>2. RowsOfCalls' /\ CreatedIsWhole'
        BY <1>6 DEF AddGroupMembers, GroupsTypeOK, RowsOfCalls, CreatedIsWhole, Wanted,
                    EverMember
    <2> QED
        BY <1>2, <1>6, <2>1, <2>2 DEF AddGroupMembers, EverMember
<1>7. CASE MembersAdded(g)
    <2>1. GroupsTypeOK'
        BY <1>7 DEF MembersAdded, GroupsTypeOK, Call
    <2>2. RowsOfCalls' /\ CreatedIsWhole'
        BY <1>7 DEF MembersAdded, GroupsTypeOK, RowsOfCalls, CreatedIsWhole, Wanted,
                    EverMember
    <2> QED
        BY <1>2, <1>7, <2>1, <2>2 DEF MembersAdded, EverMember
<1>8. ASSUME NEW p \in Peer, InsertMember(g, p) \/ InsertJoining(g, p)
      PROVE  GroupsIInv' /\ \A h \in Group : EverMember(h) \subseteq EverMember(h)'
    <2>1. /\ groupMembers' = [groupMembers EXCEPT ![g] = @ \cup {p}]
          /\ UNCHANGED <<chatGroups, creating, adding>>
        BY <1>8 DEF InsertMember, InsertJoining
    <2>2. \A h \in Group : EverMember(h) \subseteq EverMember(h)'
        BY <1>1, <2>1 DEF GroupsTypeOK, Copy, EverMember
    <2>3. IF g \in chatGroups
          THEN p = Owner[g] \/ Owner[g] \in groupMembers[g]
          ELSE lost[g] # {}
        BY <1>8 DEF InsertMember, InsertJoining, MayInsert, RowsOfCalls,
                    CreatedIsWhole, EverMember
    <2>4. GroupsTypeOK'
        BY <1>1, <2>1 DEF GroupsTypeOK, Copy
    <2>5. RowsOfCalls'
        <3>1. /\ creating[g] # "none"
              /\ \A h \in Group \ {g} : EverMember(h)' = EverMember(h)
            BY <1>1, <1>8, <2>1
            DEF InsertMember, InsertJoining, RowsOfCalls, EverMember, GroupsTypeOK,
                Copy
        <3> QED
            BY <1>1, <2>1, <2>2, <3>1 DEF RowsOfCalls
    <2>6. CreatedIsWhole'
        BY <1>1, <2>1, <2>2, <2>3 DEF CreatedIsWhole, Wanted, GroupsTypeOK, Copy
    <2> QED
        BY <1>2, <2>2, <2>4, <2>5, <2>6
<1> QED
    BY <1>3, <1>4, <1>5, <1>6, <1>7, <1>8

LEMMA WipeStep ==
    ASSUME GroupsIInv, Wipe
    PROVE  /\ GroupsIInv'
           /\ \A h \in Group : EverMember(h) \subseteq EverMember(h)'
<1> USE DEF GroupsIInv
<1>1. /\ InMemory /\ chatGroups' = {} /\ groupMembers' = [g \in Group |-> {}]
      /\ lost' = [g \in Group |-> EverMember(g)]
      /\ creating' = Interrupted(creating) /\ adding' = Interrupted(adding)
      /\ UNCHANGED <<answers, groups>>
    BY DEF Wipe
<1>2. GroupsTypeOK'
    BY <1>1 DEF GroupsTypeOK, Copy, Call, Interrupted, EverMember
<1>3. \A h \in Group : EverMember(h)' = EverMember(h)
    BY <1>1 DEF EverMember
<1>4. RowsOfCalls'
    BY <1>1, <1>3 DEF RowsOfCalls, Interrupted, GroupsTypeOK
<1>5. CreatedIsWhole'
    BY <1>1 DEF CreatedIsWhole
<1>6. (\A copy \in answers' : Within(copy)') /\ CopyWithinGroup'
    BY <1>1, <1>3 DEF Within, CopyWithinGroup
<1> QED
    BY <1>2, <1>3, <1>4, <1>5, <1>6

LEMMA SyncStep ==
    ASSUME GroupsIInv,
           \/ SyncAnswered
           \/ \E copy \in answers : SyncFails(copy) \/ TakeGroups(copy)
    PROVE  /\ GroupsIInv'
           /\ UNCHANGED <<groupMembers, lost>>
<1> USE DEF GroupsIInv
<1>1. UNCHANGED <<chatGroups, groupMembers, creating, adding, lost>>
    BY DEF SyncAnswered, SyncFails, TakeGroups
<1>2. RowsOfCalls' /\ CreatedIsWhole' /\ \A copy : Within(copy) => Within(copy)'
    BY <1>1 DEF RowsOfCalls, CreatedIsWhole, Within, Wanted, EverMember
<1>3. CASE SyncAnswered
    <2>1. ListGroups \in Copy /\ Within(ListGroups)
        BY DEF ListGroups, Within, GroupsTypeOK, Copy, EverMember
    <2> QED
        BY <1>1, <1>2, <1>3, <2>1
        DEF SyncAnswered, GroupsTypeOK, CopyWithinGroup, EverMember
<1>4. ASSUME NEW copy \in answers, SyncFails(copy)
      PROVE  GroupsIInv'
    BY <1>1, <1>2, <1>4 DEF SyncFails, GroupsTypeOK, CopyWithinGroup, EverMember
<1>5. ASSUME NEW copy \in answers, TakeGroups(copy)
      PROVE  GroupsIInv'
    BY <1>1, <1>2, <1>5
    DEF TakeGroups, GroupsTypeOK, CopyWithinGroup, Within, EverMember
<1> QED
    BY <1>1, <1>3, <1>4, <1>5

-----------------------------------------------------------------------------
(***************************************************************************)
(* The loop over the targets.  StatusIsTrue is about the moment after the   *)
(* last answer, NobodyForgotten about the whole loop: at every moment the   *)
(* targets are those that have an answer, the one being served and those    *)
(* still left.                                                              *)
(***************************************************************************)

Now(s) == IF stage[s] = "deliver" THEN {target[s]} ELSE {}

LoopInv(s) ==
    /\ left[s] \cup Now(s) \cup taken[s] \subseteq targets[s]
    /\ Now(s) \cap left[s] = {}
    /\ \A p \in Peer :
          results[s][p] # "none" <=> p \in targets[s] \ (left[s] \cup Now(s))
    /\ \A p \in Peer :
          results[s][p] = "ok" => p \in taken[s] \/ <<s, p>> \in Faulty
    /\ stage[s] = "idle" => targets[s] = {}
    /\ stage[s] \in {"save", "done"} =>
          left[s] = {} /\ status[s] = Verdict(s, results[s])
    /\ stage[s] \in {"idle", "next", "deliver", "threw"} =>
          status[s] \in {"none", "sending"}
    /\ IsGroup(s) => targets[s] \subseteq EverMember(call[s])

SendTypes ==
    /\ call \in [Send -> {"none", "broadcast"} \cup Group]
    /\ stage \in [Send -> {"idle", "next", "deliver", "save", "done", "threw"}]
    /\ targets \in [Send -> SUBSET Peer]
    /\ left \in [Send -> SUBSET Peer] /\ target \in [Send -> Peer]
    /\ results \in [Send -> [Peer -> Result]]
    /\ status \in [Send -> Status]
    /\ taken \in [Send -> SUBSET Peer]

IInv == GroupsIInv /\ SendTypes /\ \A s \in Send : LoopInv(s)

LEMMA InitIInv == Init => IInv
<1> SUFFICES ASSUME Init
             PROVE  IInv
    OBVIOUS
<1>1. SendTypes
    BY DEF Init, SendTypes, Result, Status
<1>2. ASSUME NEW s \in Send
      PROVE  LoopInv(s)
    BY DEF Init, LoopInv, Now, IsGroup
<1> QED
    BY <1>1, <1>2, InitGroups DEF Init, IInv

\* Nothing of a send changes: its members stay members.
LEMMA LoopFrame ==
    ASSUME IInv, NEW s \in Send,
           \A g \in Group : EverMember(g) \subseteq EverMember(g)',
           UNCHANGED <<call[s], stage[s], targets[s], left[s], target[s],
                       results[s], status[s], taken[s]>>
    PROVE  LoopInv(s)'
BY DEF IInv, LoopInv, Now, IsGroup, Verdict, Failed, Ok

LEMMA GroupsKeepLoop ==
    ASSUME IInv, UNCHANGED sendVars,
           \/ GroupsNext
           \/ \E copy \in answers : TakeGroups(copy)
    PROVE  IInv'
<1>1. GroupsIInv' /\ \A h \in Group : EverMember(h) \subseteq EverMember(h)'
    <2>1. /\ GroupsIInv
          /\ Wipe => /\ GroupsIInv'
                     /\ \A h \in Group : EverMember(h) \subseteq EverMember(h)'
        BY WipeStep DEF IInv
    <2>2. CASE \/ SyncAnswered
               \/ \E copy \in answers : SyncFails(copy) \/ TakeGroups(copy)
        BY <2>1, <2>2, SyncStep DEF EverMember
    <2> QED
        BY <2>1, <2>2, TablesStep DEF GroupsNext
<1>2. SendTypes'
    BY DEF IInv, SendTypes, sendVars
<1>3. ASSUME NEW s \in Send
      PROVE  LoopInv(s)'
    BY <1>1, LoopFrame DEF sendVars
<1> QED
    BY <1>1, <1>2, <1>3 DEF IInv

\* What does not touch the groups, and only one send, keeps the rest.
LEMMA OneSend ==
    ASSUME IInv, NEW s \in Send, UNCHANGED groupVars, SendTypes',
           \A x \in Send \ {s} :
               UNCHANGED <<call[x], stage[x], targets[x], left[x], target[x],
                           results[x], status[x], taken[x]>>,
           LoopInv(s)'
    PROVE  IInv'
<1>1. GroupsIInv'
    BY DEF IInv, GroupsIInv, groupVars, GroupsTypeOK, RowsOfCalls, Within,
           CreatedIsWhole, CopyWithinGroup, Wanted, EverMember
<1>2. \A x \in Send : LoopInv(x)'
    BY LoopFrame DEF groupVars, EverMember
<1> QED
    BY <1>1, <1>2 DEF IInv

LEMMA StartStep ==
    ASSUME IInv, NEW s \in Send, NEW S \in SUBSET Peer, stage[s] = "idle",
           NEW k \in {"none", "broadcast"} \cup Group,
           call' = [call EXCEPT ![s] = k], Start(s, S),
           k \in Group => S \subseteq EverMember(k)
    PROVE  IInv'
<1>1. SendTypes'
    BY DEF IInv, SendTypes, Start, Status
<1>2. LoopInv(s)'
    <2>1. /\ call'[s] = k /\ targets'[s] = S /\ left'[s] = S
          /\ stage'[s] = "next" /\ status'[s] = "sending"
          /\ results'[s] = results[s] /\ taken'[s] = taken[s]
          /\ UNCHANGED groupVars
        BY DEF IInv, SendTypes, Start
    <2>2. taken[s] = {} /\ \A p \in Peer : results[s][p] = "none"
        BY DEF IInv, SendTypes, LoopInv, Now
    <2> QED
        BY <2>1, <2>2 DEF LoopInv, Now, IsGroup, groupVars, EverMember
<1>3. \A x \in Send \ {s} :
          UNCHANGED <<call[x], stage[x], targets[x], left[x], target[x],
                      results[x], status[x], taken[x]>>
    BY DEF IInv, SendTypes, Start
<1> QED
    BY <1>1, <1>2, <1>3, OneSend DEF Start

LEMMA DeliverStep ==
    ASSUME IInv, NEW s \in Send, NEW r \in Result, Deliver(s, r)
    PROVE  IInv'
<1> DEFINE p == target[s]
<1>0. p \in Peer /\ p \in targets[s] /\ p \notin left[s] /\ stage[s] = "deliver"
    BY DEF IInv, SendTypes, LoopInv, Now, Deliver
<1>1. /\ results' = [results EXCEPT ![s][p] = r] /\ r \in {"ok", "failed"}
      /\ \/ taken' = [taken EXCEPT ![s] = @ \cup {p}]
         \/ (<<s, p>> \in Faulty \/ r = "failed") /\ UNCHANGED taken
      /\ UNCHANGED <<groupVars, call, targets, left, target>>
    <2>1. Told(s, p, r) /\ UNCHANGED <<groupVars, call, targets, left, target>>
        BY DEF Deliver
    <2>2. r \in {"ok", "failed"}
        BY <2>1 DEF Told, Result
    <2>3. results' = [results EXCEPT ![s][p] = r]
        BY <2>1, Zenon DEF Told
    <2>4. \/ taken' = [taken EXCEPT ![s] = @ \cup {p}]
          \/ (<<s, p>> \in Faulty \/ r = "failed") /\ UNCHANGED taken
        BY <2>1, Zenon DEF Told
    <2> QED
        BY <2>1, <2>2, <2>3, <2>4
<1>2. \/ /\ left[s] = {} /\ stage' = [stage EXCEPT ![s] = "save"]
         /\ status' = [status EXCEPT ![s] = Verdict(s, results'[s])]
      \/ left[s] # {} /\ stage' = [stage EXCEPT ![s] = "next"] /\ UNCHANGED status
    BY DEF Deliver, Told
<1>3. /\ results' \in [Send -> [Peer -> Result]]
      /\ results'[s] = [results[s] EXCEPT ![p] = r]
      /\ \A x \in Send \ {s} : results'[x] = results[x]
    BY <1>0, <1>1 DEF IInv, SendTypes
<1>4. Verdict(s, results'[s]) \in Status
    BY DEF Verdict, Status
<1>5. SendTypes'
    <2>1. taken' \in [Send -> SUBSET Peer]
        BY <1>0, <1>1 DEF IInv, SendTypes
    <2>2. /\ stage' \in [Send -> {"idle", "next", "deliver", "save", "done", "threw"}]
          /\ status' \in [Send -> Status]
        <3> DEFINE v == Verdict(s, results'[s])
        <3>1. /\ stage \in [Send -> {"idle", "next", "deliver", "save", "done", "threw"}]
              /\ status \in [Send -> Status] /\ v \in Status
            BY <1>4 DEF IInv, SendTypes
        <3>2. \/ /\ stage' = [stage EXCEPT ![s] = "save"]
                 /\ status' = [status EXCEPT ![s] = v]
              \/ stage' = [stage EXCEPT ![s] = "next"] /\ UNCHANGED status
            BY <1>2
        <3> HIDE DEF v
        <3> QED
            BY <3>1, <3>2
    <2> QED
        BY <1>1, <1>3, <2>1, <2>2 DEF IInv, SendTypes
<1>6. LoopInv(s)'
    <2>1. Verdict(s, results[s])' = Verdict(s, results'[s])
        BY <1>1 DEF Verdict, IsGroup, Failed, Ok
    <2>2. /\ Now(s) = {p} /\ Now(s)' = {} /\ left'[s] = left[s]
          /\ targets'[s] = targets[s]
        BY <1>0, <1>1, <1>2 DEF Now, IInv, SendTypes
    <2>3. /\ left'[s] \cup Now(s)' \cup taken'[s] \subseteq targets'[s]
          /\ IsGroup(s)' => targets'[s] \subseteq EverMember(call[s])'
        BY <1>0, <1>1, <2>2 DEF IInv, LoopInv, SendTypes, IsGroup, groupVars,
                                       EverMember
    <2>4. \A q \in Peer :
             results'[s][q] # "none" <=> q \in targets'[s] \ (left'[s] \cup Now(s)')
        BY <1>0, <1>1, <1>3, <2>2 DEF IInv, LoopInv, SendTypes
    <2>5. \A q \in Peer :
             results'[s][q] = "ok" => q \in taken'[s] \/ <<s, q>> \in Faulty
        <3>1. taken[s] \subseteq taken'[s]
            BY <1>1 DEF IInv, SendTypes
        <3>2. r = "ok" => p \in taken'[s] \/ <<s, p>> \in Faulty
            BY <1>1 DEF IInv, SendTypes
        <3>3. \A q \in Peer :
                 results[s][q] = "ok" => q \in taken[s] \/ <<s, q>> \in Faulty
            BY DEF IInv, LoopInv
        <3>4. ASSUME NEW q \in Peer, q # p, results'[s][q] = "ok"
              PROVE  q \in taken'[s] \/ <<s, q>> \in Faulty
            <4>1. results[s][q] = "ok"
                BY <1>0, <1>3, <3>4 DEF IInv, SendTypes
            <4> QED
                BY <3>1, <3>3, <4>1
        <3>5. results'[s][p] = "ok" => p \in taken'[s] \/ <<s, p>> \in Faulty
            BY <1>0, <1>3, <3>2 DEF IInv, SendTypes
        <3> HIDE DEF p
        <3> QED
            BY <3>4, <3>5
    <2>6. /\ stage'[s] \in {"save", "next"}
          /\ stage'[s] = "save" =>
                left'[s] = {} /\ status'[s] = Verdict(s, results[s])'
          /\ stage'[s] = "next" => status'[s] \in {"none", "sending"}
        BY <1>0, <1>1, <1>2, <2>1 DEF IInv, LoopInv, SendTypes
    <2> QED
        BY <2>2, <2>3, <2>4, <2>5, <2>6 DEF LoopInv
<1>7. \A x \in Send \ {s} :
          UNCHANGED <<call[x], stage[x], targets[x], left[x], target[x],
                      results[x], status[x], taken[x]>>
    BY <1>1, <1>2, <1>3 DEF IInv, SendTypes
<1> QED
    BY <1>1, <1>5, <1>6, <1>7, OneSend

\* The steps that neither start the loop nor end a delivery.
LEMMA LoopStep ==
    ASSUME IInv, NEW s \in Send,
           \/ Save(s)
           \/ \E p \in Peer : Resolve(s, p) \/ ResolveThrows(s, p)
    PROVE  IInv'
<1>1. UNCHANGED <<groupVars, call, targets, results, status, taken>>
    BY DEF Save, Resolve, ResolveThrows
<1>2. Verdict(s, results[s])' = Verdict(s, results[s])
    BY <1>1 DEF Verdict, IsGroup, Failed, Ok
<1>3. CASE Save(s)
    <2>1. SendTypes'
        BY <1>1, <1>3 DEF Save, IInv, SendTypes
    <2>2. LoopInv(s)'
        BY <1>1, <1>2, <1>3 DEF Save, IInv, SendTypes, LoopInv, Now, IsGroup, groupVars,
                                EverMember
    <2> QED
        BY <1>1, <1>3, <2>1, <2>2, OneSend DEF Save, IInv, SendTypes
<1>4. ASSUME NEW p \in Peer, Resolve(s, p)
      PROVE  IInv'
    <2>1. SendTypes'
        BY <1>1, <1>4 DEF Resolve, IInv, SendTypes
    <2>2. LoopInv(s)'
        BY <1>1, <1>2, <1>4 DEF Resolve, IInv, SendTypes, LoopInv, Now, IsGroup,
                                groupVars, EverMember
    <2> QED
        BY <1>1, <1>4, <2>1, <2>2, OneSend DEF Resolve, IInv, SendTypes
<1>5. ASSUME NEW p \in Peer, ResolveThrows(s, p)
      PROVE  IInv'
    <2>1. SendTypes'
        BY <1>1, <1>5 DEF ResolveThrows, IInv, SendTypes
    <2>2. LoopInv(s)'
        BY <1>1, <1>2, <1>5 DEF ResolveThrows, IInv, SendTypes, LoopInv, Now,
                                IsGroup, groupVars, EverMember
    <2> QED
        BY <1>1, <1>5, <2>1, <2>2, OneSend DEF ResolveThrows, IInv, SendTypes
<1> QED
    BY <1>3, <1>4, <1>5

LEMMA NextIInv == IInv /\ [Next]_vars => IInv'
<1> SUFFICES ASSUME IInv, [Next]_vars
             PROVE  IInv'
    OBVIOUS
<1>1. CASE UNCHANGED vars
    BY <1>1, LoopFrame
    DEF vars, groupVars, sendVars, IInv, SendTypes, GroupsIInv, GroupsTypeOK,
        RowsOfCalls, Within, CreatedIsWhole, CopyWithinGroup, Wanted, EverMember
<1>2. CASE GroupsNext /\ UNCHANGED sendVars
    BY <1>2, GroupsKeepLoop
<1>3. ASSUME NEW copy \in answers, ConsolidatedSync(copy)
      PROVE  IInv'
    BY <1>3, GroupsKeepLoop DEF ConsolidatedSync
<1>4. ASSUME NEW s \in Send, NEW g \in Group, SendGroup(s, g)
      PROVE  IInv'
    <2>1. groups[g] \ {Self} \in SUBSET Peer
        BY DEF IInv, GroupsIInv, GroupsTypeOK, Copy
    <2>2. groups[g] \ {Self} \subseteq EverMember(g)
        BY DEF IInv, GroupsIInv, CopyWithinGroup
    <2> QED
        BY <1>4, <2>1, <2>2, StartStep DEF SendGroup
<1>5. ASSUME NEW s \in Send, Broadcast(s)
      PROVE  IInv'
    <2>1. PICK Online \in SUBSET Other : Start(s, Online)
        BY <1>5 DEF Broadcast
    <2> QED
        BY <1>5, <2>1, StartStep DEF Broadcast, Other
<1>6. ASSUME NEW s \in Send,
             \/ Save(s)
             \/ \E p \in Peer : Resolve(s, p) \/ ResolveThrows(s, p)
      PROVE  IInv'
    BY <1>6, LoopStep
<1>7. ASSUME NEW s \in Send, NEW r \in Result, Deliver(s, r)
      PROVE  IInv'
    BY <1>7, DeliverStep
<1> QED
    BY <1>1, <1>2, <1>3, <1>4, <1>5, <1>6, <1>7 DEF Next

LEMMA Invariance == Spec => []IInv
BY InitIInv, NextIInv, PTL DEF Spec

-----------------------------------------------------------------------------

\* Every variable keeps to the values the code can give it.
THEOREM FanoutTypes == Spec => []TypeOK
<1>1. IInv => TypeOK
    BY DEF IInv, SendTypes, TypeOK, GroupsIInv
<1> QED
    BY <1>1, Invariance, PTL

\* A group reported as created has everybody its creator named, and a part of a
\* group has its owner, however the insertions interleave and where they fail.
THEOREM GroupsAreWhole == Spec => []CreatedIsWhole
<1>1. IInv => CreatedIsWhole
    BY DEF IInv, GroupsIInv
<1> QED
    BY <1>1, Invariance, PTL

\* A peer's copy of a group holds members only, whichever answer came last.
THEOREM CopiesAreWithin == Spec => []CopyWithinGroup
<1>1. IInv => CopyWithinGroup
    BY DEF IInv, GroupsIInv
<1> QED
    BY <1>1, Invariance, PTL

\* A group message goes to members of its group and to nobody else.
THEOREM OnlyMembersAreServed == Spec => []NoStrangers
<1>1. IInv => NoStrangers
    BY DEF IInv, LoopInv, NoStrangers
<1> QED
    BY <1>1, Invariance, PTL

\* A send that ends has an answer for every target and for nobody else.
THEOREM AllAreAnswered == Spec => []NobodyForgotten
<1>1. IInv => NobodyForgotten
    BY DEF IInv, SendTypes, LoopInv, Now, NobodyForgotten, Answered
<1> QED
    BY <1>1, Invariance, PTL

\* The status the sender shows is true of every target.
THEOREM ShownStatusIsTrue == Spec => []StatusIsTrue
<1>1. ASSUME IInv, NEW s \in Send, stage[s] \in {"save", "done"}
      PROVE  \A p \in Peer : results[s][p] \in {"ok", "failed"} <=> p \in targets[s]
    BY <1>1 DEF IInv, SendTypes, LoopInv, Now, Result
<1>2. ASSUME IInv, NEW s \in Send, stage[s] \in {"save", "done"}
      PROVE  /\ status[s] = "delivered" =>
                   \A p \in targets[s] :
                       /\ results[s][p] = "ok"
                       /\ p \in taken[s] \/ <<s, p>> \in Faulty
             /\ status[s] = "partial" =>
                   /\ \E p \in targets[s] : results[s][p] = "failed"
                   /\ IsGroup(s) => \E p \in targets[s] : results[s][p] = "ok"
             /\ status[s] = "failed_queued" =>
                   \A p \in targets[s] : results[s][p] = "failed"
    <2>1. /\ targets[s] \subseteq Peer
          /\ status[s] = Verdict(s, results[s])
          /\ \A p \in Peer :
                results[s][p] = "ok" => p \in taken[s] \/ <<s, p>> \in Faulty
        BY <1>2 DEF IInv, SendTypes, LoopInv
    <2> QED
        BY <1>1, <1>2, <2>1 DEF Verdict, Failed, Ok
<1>3. ASSUME IInv, NEW s \in Send, stage[s] \notin {"save", "done"}
      PROVE  status[s] \notin {"delivered", "partial", "failed_queued"}
    <2>1. stage[s] \in {"idle", "next", "deliver", "threw"}
        BY <1>3 DEF IInv, SendTypes
    <2> QED
        BY <1>3, <2>1 DEF IInv, LoopInv
<1>4. IInv => StatusIsTrue
    BY <1>2, <1>3 DEF StatusIsTrue
<1> QED
    BY <1>4, Invariance, PTL

\* Per send: the peer to be served has no answer yet, answers stand, and so does
\* the status shown at the end.
Stands(s) ==
    /\ stage[s] = "next" /\ stage'[s] = "deliver" => results[s][target'[s]] = "none"
    /\ \A p \in Answered(s) : results'[s][p] = results[s][p]
    /\ status[s] \notin {"none", "sending"} => status'[s] = status[s]

LEMMA SendStands ==
    ASSUME IInv, NEW s \in Send, NEW x \in Send,
           \/ \E g \in Group : SendGroup(s, g)
           \/ Broadcast(s) \/ Save(s)
           \/ \E p \in Peer : Resolve(s, p) \/ ResolveThrows(s, p)
           \/ \E r \in Result : Deliver(s, r)
    PROVE  Stands(x)
<1> USE DEF IInv, SendTypes
<1>1. CASE (\E g \in Group : SendGroup(s, g)) \/ Broadcast(s)
    <2>1. /\ stage[s] = "idle" /\ UNCHANGED results
          /\ stage' = [stage EXCEPT ![s] = "next"]
          /\ status' = [status EXCEPT ![s] = "sending"]
        BY <1>1 DEF SendGroup, Broadcast, Start
    <2>2. status[s] \in {"none", "sending"}
        BY <2>1 DEF LoopInv
    <2> QED
        BY <2>1, <2>2 DEF Stands
<1>2. CASE Save(s) \/ \E p \in Peer : ResolveThrows(s, p)
    <2>1. /\ UNCHANGED <<results, status>>
          /\ \E z \in {"done", "threw"} : stage' = [stage EXCEPT ![s] = z]
        BY <1>2 DEF Save, ResolveThrows
    <2> QED
        BY <2>1 DEF Stands
<1>3. ASSUME NEW p \in Peer, Resolve(s, p)
      PROVE  Stands(x)
    <2>1. /\ stage[s] = "next" /\ p \in left[s] /\ UNCHANGED <<results, status>>
          /\ target' = [target EXCEPT ![s] = p]
          /\ stage' = [stage EXCEPT ![s] = "deliver"]
        BY <1>3 DEF Resolve
    <2>2. results[s][p] = "none"
        BY <2>1 DEF LoopInv
    <2> QED
        BY <2>1, <2>2 DEF Stands
<1>4. ASSUME NEW r \in Result, Deliver(s, r)
      PROVE  Stands(x)
    <2> DEFINE p == target[s]
    <2>1. stage[s] = "deliver" /\ p \in Peer
        BY <1>4 DEF Deliver
    <2>2. results[s][p] = "none" /\ status[s] \in {"none", "sending"}
        BY <2>1 DEF LoopInv, Now
    <2>3. results' = [results EXCEPT ![s][p] = r]
        BY <1>4 DEF Deliver, Told
    <2>4. /\ \E z \in {"save", "next"} : stage' = [stage EXCEPT ![s] = z]
          /\ status' = status \/ \E z : status' = [status EXCEPT ![s] = z]
        <3>1. CASE left[s] = {}
            BY <1>4, <3>1, Zenon DEF Deliver
        <3>2. CASE left[s] # {}
            BY <1>4, <3>2, Zenon DEF Deliver
        <3> QED
            BY <3>1, <3>2
    <2> HIDE DEF p
    <2>5. \A q \in Answered(x) : results'[x][q] = results[x][q]
        BY <2>1, <2>2, <2>3 DEF Answered
    <2>6. status[x] \notin {"none", "sending"} => status'[x] = status[x]
        BY <2>2, <2>4
    <2>7. ~(stage[x] = "next" /\ stage'[x] = "deliver")
        BY <2>4
    <2> QED
        BY <2>5, <2>6, <2>7 DEF Stands
<1> QED
    BY <1>1, <1>2, <1>3, <1>4

\* sendGroup and broadcast serve no target twice, keep each answer and restate
\* no outcome, however the cache and the groups change under the loop.
THEOREM EachIsServedOnce == Spec => AnswersStand
<1>1. ASSUME IInv, [Next]_vars, NEW s \in Send
      PROVE  Stands(s)
    <2>1. UNCHANGED <<stage, results, status>> => Stands(s)
        BY DEF Stands
    <2>2. CASE \/ UNCHANGED vars
               \/ GroupsNext /\ UNCHANGED sendVars
               \/ \E copy \in answers : ConsolidatedSync(copy)
        <3>1. UNCHANGED <<stage, results, status>>
            BY <2>2 DEF vars, sendVars, ConsolidatedSync
        <3> QED
            BY <2>1, <3>1
    <2>3. ASSUME NEW x \in Send,
                 \/ \E g \in Group : SendGroup(x, g)
                 \/ Broadcast(x) \/ Save(x)
                 \/ \E p \in Peer : Resolve(x, p) \/ ResolveThrows(x, p)
                 \/ \E r \in Result : Deliver(x, r)
          PROVE  Stands(s)
        BY <1>1, <2>3, SendStands
    <2> QED
        BY <1>1, <2>2, <2>3 DEF Next
<1>2. IInv /\ [Next]_vars =>
        [\A s \in Send :
            /\ stage[s] = "next" /\ stage'[s] = "deliver" =>
                  results[s][target'[s]] = "none"
            /\ \A p \in Answered(s) : results'[s][p] = results[s][p]
            /\ status[s] \notin {"none", "sending"} => status'[s] = status[s]]_vars
    BY <1>1 DEF Stands
<1> QED
    BY <1>2, Invariance, PTL DEF Spec, AnswersStand
=============================================================================
