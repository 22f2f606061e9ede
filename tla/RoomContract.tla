---------------------------- MODULE RoomContract ----------------------------
(***************************************************************************)
(* What the API contract promises about one conversation's members, with   *)
(* every call taking effect at one moment; of a transfer to oneself, of    *)
(* which it says nothing, what the server does (Resign).  Membership       *)
(* implements this when the server handles one request at a time.          *)
(***************************************************************************)
EXTENDS Integers, FiniteSets

CONSTANTS Users, Requests, Nobody, MaxRoomMembers

VARIABLES
    owner,     \* the owner, or Nobody
    admins,    \* the admins beside the owner
    members,   \* everybody in the conversation
    managers,  \* bots that may add and remove members
    door,      \* may an outsider come in: a live invite, or a public channel
    asked      \* the call each request slot is serving

room == <<owner, admins, members, managers, door>>
all == <<room, asked>>

Staff == admins \cup ({owner} \ {Nobody})
Plain == members \ Staff
Calls == [op : {"AddMembers", "JoinInvite", "JoinChannel", "GrantBot", "RemoveMember",
                "SetMemberRole", "TransferOwnership", "CreateInvite", "RevokeInvite",
                "UpdateRoom", "DeleteAccount", "DeleteBot"},
          actor : Users, target : Users \cup {Nobody}]
NoCall == [op |-> "none", actor |-> Nobody, target |-> Nobody]

\* A direct chat has no staff; a room has an owner.
Init ==
    /\ members \in SUBSET Users
    /\ owner \in members \cup {Nobody}
    /\ admins = {} /\ managers = {}
    /\ door \in BOOLEAN
    /\ owner = Nobody => ~door
    /\ asked = [r \in Requests |-> NoCall]

\* A call arrives; who may make it is for its effect to say.
Ask(r) ==
    /\ asked[r] = NoCall
    /\ \E call \in Calls : asked' = [asked EXCEPT ![r] = call]
    /\ UNCHANGED room

\* The request may end with its effect, or go on to answer or to a further username.
Ends(r) == asked' = asked \/ asked' = [asked EXCEPT ![r] = NoCall]

\* "Owner or admin may add members", and a bot that may manage them; a room that is added
\* to stays within its limit, which joining and letting a bot in may pass.
Add(r) ==
    /\ asked[r].op = "AddMembers"
    /\ asked[r].actor \in Staff \cup managers
    /\ \E u \in Users \ members : members' = members \cup {u}
    /\ Cardinality(members') <= MaxRoomMembers
    /\ UNCHANGED <<owner, admins, managers, door>>

\* By an invite or into a public channel; the actor itself and as a plain member.
Enter(r) ==
    /\ asked[r].op \in {"JoinInvite", "JoinChannel"}
    /\ door
    /\ members' = members \cup {asked[r].actor}
    /\ UNCHANGED <<owner, admins, managers, door>>

\* A bot is let in by an admin, and then gets its grant.
AdmitBot(r) ==
    /\ asked[r].op = "GrantBot"
    /\ asked[r].actor \in Staff
    /\ members' = members \cup {asked[r].target}
    /\ UNCHANGED <<owner, admins, managers, door>>

GrantManager(r) ==
    /\ asked[r].op = "GrantBot"
    /\ asked[r].actor \in Staff
    /\ managers' \in {managers \cup {asked[r].target}, managers \ {asked[r].target}}
    /\ UNCHANGED <<owner, admins, members, door>>

\* "Admin may remove members only (not owner/admin)"; a managing bot likewise; anybody but
\* the owner may leave.
Remove(r) ==
    LET a == asked[r].actor  t == asked[r].target IN
    /\ asked[r].op = "RemoveMember"
    /\ t \in members \ {owner}
    /\ \/ a = t
       \/ a = owner
       \/ a \in admins \cup (managers \cap members) /\ t \in Plain
    /\ members' = members \ {t}
    /\ admins' = admins \ {t}
    /\ UNCHANGED <<owner, managers, door>>

\* "Owner may promote/demote admins."
Appoint(r) ==
    LET t == asked[r].target IN
    /\ asked[r].op = "SetMemberRole"
    /\ asked[r].actor = owner
    /\ t \in members \ {owner}
    /\ admins' \in {admins \cup {t}, admins \ {t}}
    /\ UNCHANGED <<owner, members, managers, door>>

Transfer(r) ==
    LET t == asked[r].target IN
    /\ asked[r].op = "TransferOwnership"
    /\ asked[r].actor = owner
    /\ t \in members \ {owner}
    /\ owner' = t
    /\ admins' = (admins \cup {owner}) \ {t}
    /\ UNCHANGED <<members, managers, door>>

\* An owner that names itself becomes an admin, and the room has no owner from then on.
Resign(r) ==
    /\ asked[r].op = "TransferOwnership"
    /\ asked[r].actor = owner /\ asked[r].target = owner
    /\ owner' = Nobody
    /\ admins' = admins \cup {owner}
    /\ UNCHANGED <<members, managers, door>>

\* Invites and the visibility are the staff's.
SetDoor(r) ==
    /\ asked[r].op \in {"CreateInvite", "RevokeInvite", "UpdateRoom"}
    /\ asked[r].actor \in Staff
    /\ door' \in BOOLEAN
    /\ UNCHANGED <<owner, admins, members, managers>>

\* A user row is deleted: it takes the membership along, and the invites it created.
Erase(r) ==
    LET t == asked[r].target IN
    /\ asked[r].op \in {"DeleteAccount", "DeleteBot"}
    /\ members' = members \ {t}
    /\ admins' = admins \ {t}
    /\ owner' = IF owner = t THEN Nobody ELSE owner
    /\ door' \in {door, FALSE}
    /\ UNCHANGED managers

\* A bot loses its grants before its user row goes.
DropGrant(r) ==
    /\ asked[r].op = "DeleteBot"
    /\ managers' = managers \ {asked[r].target}
    /\ UNCHANGED <<owner, admins, members, door>>

Next == \E r \in Requests :
    \/ Ask(r)
    \/ UNCHANGED room /\ Ends(r)
    \/ /\ Add(r) \/ Enter(r) \/ AdmitBot(r) \/ GrantManager(r) \/ Remove(r) \/ Appoint(r)
          \/ Transfer(r) \/ Resign(r) \/ SetDoor(r) \/ Erase(r) \/ DropGrant(r)
       /\ Ends(r)

Spec == Init /\ [][Next]_all
=============================================================================
