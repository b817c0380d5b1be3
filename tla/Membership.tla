----------------------------- MODULE Membership -----------------------------
(***************************************************************************)
(* What channel management promises, without nicknames, pointers or        *)
(* registries: who is online, which rooms exist, who is in each of them    *)
(* and who runs it, and who may change that.  One user acts at a time.     *)
(* Module Channels is shown to implement this specification.               *)
(***************************************************************************)
EXTENDS FiniteSets

CONSTANTS
    Person,      \* everybody who may come online
    Room,        \* room names
    Nobody       \* the value of actor between two turns

VARIABLES
    online,      \* the users that are connected
    actor,       \* the user whose commands are being executed
    rooms,       \* the rooms that exist
    members,     \* who is in each room
    ops          \* who runs each room

membershipVars == <<online, actor, rooms, members, ops>>

-----------------------------------------------------------------------------

Empty == [r \in Room |-> {}]

Init ==
    /\ online = {}
    /\ actor = Nobody
    /\ rooms = {}
    /\ members = Empty
    /\ ops = Empty

Arrive(u) ==
    /\ actor = Nobody
    /\ u \notin online
    /\ online' = online \cup {u}
    /\ UNCHANGED <<actor, rooms, members, ops>>

TurnBegins(u) ==
    /\ actor = Nobody
    /\ u \in online
    /\ actor' = u
    /\ UNCHANGED <<online, rooms, members, ops>>

TurnEnds ==
    /\ actor # Nobody
    /\ actor' = Nobody
    /\ UNCHANGED <<online, rooms, members, ops>>

\* u is out of the rooms of `from`; a room nobody is left in is gone.
Remove(u, from) ==
    /\ members' = [r \in Room |-> IF r \in from THEN members[r] \ {u} ELSE members[r]]
    /\ ops' = [r \in Room |-> IF r \in from THEN ops[r] \ {u} ELSE ops[r]]
    /\ rooms' = {r \in rooms : members'[r] # {}}

Depart(u) ==
    /\ actor = Nobody
    /\ u \in online
    /\ online' = online \ {u}
    /\ Remove(u, Room)
    /\ UNCHANGED actor

Open(r) ==
    /\ actor # Nobody
    /\ r \notin rooms
    /\ rooms' = rooms \cup {r}
    /\ members' = [members EXCEPT ![r] = {actor}]
    /\ ops' = [ops EXCEPT ![r] = {actor}]
    /\ UNCHANGED <<online, actor>>

Enter(r) ==
    /\ actor # Nobody
    /\ r \in rooms
    /\ members' = [members EXCEPT ![r] = @ \cup {actor}]
    /\ UNCHANGED <<online, actor, rooms, ops>>

Leave(from) ==
    /\ actor # Nobody
    /\ Remove(actor, from)
    /\ UNCHANGED <<online, actor>>

\* Only somebody who runs the room can put somebody else out of it.
Expel(r, u) ==
    /\ r \in rooms
    /\ actor \in ops[r]
    /\ u \in members[r]
    /\ Remove(u, {r})
    /\ UNCHANGED <<online, actor>>

\* Rank is given and taken only from inside the room, to one of its members.
Promote(r, u) ==
    /\ r \in rooms
    /\ actor \in members[r]
    /\ u \in members[r]
    /\ ops' = [ops EXCEPT ![r] = @ \cup {u}]
    /\ UNCHANGED <<online, actor, rooms, members>>

Demote(r, u) ==
    /\ r \in rooms
    /\ actor \in members[r]
    /\ ops' = [ops EXCEPT ![r] = @ \ {u}]
    /\ UNCHANGED <<online, actor, rooms, members>>

Next ==
    \/ \E u \in Person : Arrive(u) \/ TurnBegins(u) \/ Depart(u)
    \/ TurnEnds
    \/ \E r \in Room : Open(r) \/ Enter(r) \/ Leave({r})
    \/ Leave(Room)
    \/ \E r \in Room, u \in Person : Expel(r, u) \/ Promote(r, u) \/ Demote(r, u)

Spec == Init /\ [][Next]_membershipVars
=============================================================================
