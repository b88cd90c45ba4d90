------------------------------ MODULE Groups ------------------------------
(***************************************************************************)
(* Group metadata: the tables chat_groups and group_members of the          *)
(* bootstrap's MySQL store, written one row at a time without a             *)
(* transaction, and the copy a peer keeps in this.groups, which every       *)
(* consolidatedSync replaces.  (The memory store does each operation in one *)
(* step, which is a behaviour of this module too, and loses its groups when *)
(* the bootstrap restarts: Wipe.)                                           *)
(***************************************************************************)
EXTENDS FiniteSets

CONSTANTS
    Peer,           \* peer ids
    Self,           \* the peer whose copy is modelled
    Group,          \* ids of groups, fixed when they are created
    Owner,          \* [Group -> Peer]: who creates it
    Named,          \* [Group -> SUBSET Peer]: whom createGroup names
    Joins,          \* [Group -> SUBSET Peer]: whom addGroupMembers names
    InMemory        \* the store is the MemoryStore, and ends with the process

ASSUME GroupsConstants ==
    /\ Self \in Peer /\ Owner \in [Group -> Peer]
    /\ Named \in [Group -> SUBSET Peer] /\ Joins \in [Group -> SUBSET Peer]
    /\ InMemory \in BOOLEAN

VARIABLES
    chatGroups, groupMembers,   \* the tables
    creating, adding,           \* createGroup and addGroupMembers of a group
    answers,                    \* answers to a sync on their way to Self
    groups,                     \* this.groups: id -> members, {} if not listed
    lost                        \* (history) rows of group_members that were wiped

groupVars ==
    <<chatGroups, groupMembers, creating, adding, answers, groups, lost>>

Copy == [Group -> SUBSET Peer]
Call == {"none", "busy", "ok", "error"}

GroupsTypeOK ==
    /\ chatGroups \subseteq Group
    /\ groupMembers \in Copy
    /\ creating \in [Group -> Call] /\ adding \in [Group -> Call]
    /\ answers \subseteq Copy
    /\ groups \in Copy
    /\ lost \in Copy /\ (~InMemory => lost = [g \in Group |-> {}])

GroupsInit ==
    /\ chatGroups = {} /\ groupMembers = [g \in Group |-> {}]
    /\ creating = [g \in Group |-> "none"] /\ adding = [g \in Group |-> "none"]
    /\ answers = {} /\ groups = [g \in Group |-> {}]
    /\ lost = [g \in Group |-> {}]

-----------------------------------------------------------------------------
(* createGroup and addGroupMembers *)

CreateGroup(g) ==
    /\ creating[g] = "none"
    /\ creating' = [creating EXCEPT ![g] = "busy"]
    /\ chatGroups' = chatGroups \cup {g}
    /\ UNCHANGED <<groupMembers, adding, answers, groups, lost>>

\* The owner is inserted first, then the members it named.
Wanted(g) == {Owner[g]} \cup Named[g]
MayInsert(g, p) == p = Owner[g] \/ Owner[g] \in groupMembers[g]

InsertMember(g, p) ==
    /\ creating[g] = "busy" /\ p \in Wanted(g) \ groupMembers[g]
    /\ MayInsert(g, p)
    /\ groupMembers' = [groupMembers EXCEPT ![g] = @ \cup {p}]
    /\ UNCHANGED <<chatGroups, creating, adding, answers, groups, lost>>

\* The answer of createGroup, after the last insertion.
GroupCreated_NotAwaited(g) ==
    /\ creating[g] = "busy"
    /\ creating' = [creating EXCEPT ![g] = "ok"]
    /\ UNCHANGED <<chatGroups, groupMembers, adding, answers, groups, lost>>
GroupCreated(g) ==
    /\ creating[g] = "busy" /\ Wanted(g) \subseteq groupMembers[g]
    /\ creating' = [creating EXCEPT ![g] = "ok"]
    /\ UNCHANGED <<chatGroups, groupMembers, adding, answers, groups, lost>>

\* An insertion fails, or the bootstrap dies: what was inserted stays.
CreationFails(g) ==
    /\ creating[g] = "busy"
    /\ creating' = [creating EXCEPT ![g] = "error"]
    /\ UNCHANGED <<chatGroups, groupMembers, adding, answers, groups, lost>>

\* Everybody who is or was in a group.
EverMember(g) == groupMembers[g] \cup lost[g]

\* addGroupMembers by anyone who has seen the group in a list, maybe before it
\* was wiped: the members are inserted one by one before the group itself is
\* looked up, and stay when it is not found.
AddGroupMembers(g) ==
    /\ adding[g] = "none" /\ EverMember(g) # {}
    /\ adding' = [adding EXCEPT ![g] = "busy"]
    /\ UNCHANGED <<chatGroups, groupMembers, creating, answers, groups, lost>>

InsertJoining(g, p) ==
    /\ adding[g] = "busy" /\ p \in Joins[g] \ groupMembers[g]
    /\ groupMembers' = [groupMembers EXCEPT ![g] = @ \cup {p}]
    /\ UNCHANGED <<chatGroups, creating, adding, answers, groups, lost>>

MembersAdded(g) ==
    /\ adding[g] = "busy"
    /\ \/ /\ g \in chatGroups /\ Joins[g] \subseteq groupMembers[g]
          /\ adding' = [adding EXCEPT ![g] = "ok"]
       \/ adding' = [adding EXCEPT ![g] = "error"]
    /\ UNCHANGED <<chatGroups, groupMembers, creating, answers, groups, lost>>

\* A bootstrap on the memory store restarts: what was under way has failed.
Interrupted(calls) ==
    [g \in Group |-> IF calls[g] = "busy" THEN "error" ELSE calls[g]]

Wipe ==
    /\ InMemory
    /\ chatGroups' = {} /\ groupMembers' = [g \in Group |-> {}]
    /\ lost' = [g \in Group |-> EverMember(g)]
    /\ creating' = Interrupted(creating) /\ adding' = Interrupted(adding)
    /\ UNCHANGED <<answers, groups>>

-----------------------------------------------------------------------------
(* consolidatedSync *)

\* listGroups(Self): the JOIN hides a group without members.
ListGroups_All == [g \in Group |-> IF g \in chatGroups THEN groupMembers[g] ELSE {}]
ListGroups ==
    [g \in Group |->
        IF g \in chatGroups /\ Self \in groupMembers[g] THEN groupMembers[g] ELSE {}]

\* The bootstrap answers; several syncs may be under way, and their answers
\* may overtake each other.
SyncAnswered ==
    /\ answers' = answers \cup {ListGroups}
    /\ UNCHANGED <<chatGroups, groupMembers, creating, adding, groups, lost>>

\* The answer replaces the copy, even by an older one.
TakeGroups_OnlyNew(copy) ==
    /\ copy \in answers
    /\ groups' = [g \in Group |-> IF groups[g] = {} THEN copy[g] ELSE groups[g]]
    /\ answers' = answers \ {copy}
    /\ UNCHANGED <<chatGroups, groupMembers, creating, adding, lost>>
TakeGroups(copy) ==
    /\ copy \in answers
    /\ groups' = copy
    /\ answers' = answers \ {copy}
    /\ UNCHANGED <<chatGroups, groupMembers, creating, adding, lost>>

SyncFails(copy) ==
    /\ copy \in answers
    /\ answers' = answers \ {copy}
    /\ UNCHANGED <<chatGroups, groupMembers, creating, adding, groups, lost>>

GroupsNext ==
    \/ \E g \in Group :
          \/ CreateGroup(g) \/ GroupCreated(g) \/ CreationFails(g)
          \/ AddGroupMembers(g) \/ MembersAdded(g)
          \/ \E p \in Peer : InsertMember(g, p) \/ InsertJoining(g, p)
    \/ Wipe \/ SyncAnswered
    \/ \E copy \in answers : SyncFails(copy)

-----------------------------------------------------------------------------
(* Properties *)

\* As long as the store has it, a group whose creation was reported as done has
\* everybody its creator named, although its rows are written one by one and
\* others add to it meanwhile.  A failure in between leaves a part of the group,
\* of which the owner is one; and rows without a group come of a wipe only.
CreatedIsWhole ==
    \A g \in Group :
        IF g \in chatGroups
        THEN /\ creating[g] = "ok" => Wanted(g) \subseteq groupMembers[g]
             /\ adding[g] = "ok" => Joins[g] \subseteq groupMembers[g]
             /\ groupMembers[g] # {} => Owner[g] \in groupMembers[g]
        ELSE groupMembers[g] # {} => lost[g] # {}

\* What a peer holds of a group is never more than the group has been: it is in
\* it itself, and nobody is in the copy who was never in the table.
CopyWithinGroup ==
    \A g \in Group :
        groups[g] # {} => Self \in groups[g] /\ groups[g] \subseteq EverMember(g)
=============================================================================
