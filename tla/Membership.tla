----------------------------- MODULE Membership -----------------------------
(***************************************************************************)
(* Who belongs to one conversation, and with which role.                   *)
(*                                                                         *)
(* The chat service keeps no lock over a request: every call it makes on   *)
(* the Store (one mutex section of MemoryStore, one SQL statement of       *)
(* PostgresStore) is atomic, and calls of different HTTP requests          *)
(* interleave.  A request is a record of `req` whose field pc names the    *)
(* store call it makes next; what it has read so far is in the record too. *)
(* Conversations share no row here, so one conversation is modelled.  Its  *)
(* kind never changes, hence requireRoom is folded into the first step.    *)
(***************************************************************************)
EXTENDS Integers, FiniteSets

CONSTANTS
    Users,             \* user ids, bots' user rows included
    Bots,              \* the users that are bots
    Links,             \* invite tokens of this conversation
    Requests,          \* slots for requests the server serves at one time
    Nobody,            \* the absence of a user
    MaxRoomMembers,    \* MaxRoomMembers of types.go
    MaxBatch,          \* bound: usernames in one AddMembers call
    Operations,        \* bound: the calls clients make in this instance
    MayCancel          \* may a request stop between two store calls

ASSUME MembershipAssumption ==
    /\ Bots \subseteq Users
    /\ Nobody \notin Users
    /\ IsFiniteSet(Users)
    /\ MaxRoomMembers \in Nat \ {0}
    /\ MaxBatch \in Nat
    /\ MayCancel \in BOOLEAN

VARIABLES
    kind,        \* conversations.kind
    visibility,  \* conversations.visibility
    role,        \* conversation_members.role, "none" without a row
    managers,    \* bots whose bot_grants row has can_manage_members
    bots,        \* bots with a row in bots
    accounts,    \* users with a row in users
    linkBy,      \* invite_links.created_by, Nobody without a row
    revoked,     \* links with revoked_at set
    req,         \* the requests being served
    sent         \* what the last step handed to Hub.Publish

store == <<visibility, role, managers, bots, accounts, linkBy, revoked>>
vars == <<kind, visibility, role, managers, bots, accounts, linkBy, revoked, req, sent>>

-----------------------------------------------------------------------------
(* Types                                                                   *)

Kinds == {"direct", "group", "channel"}
Visibilities == {"private", "public"}
Roles == {"owner", "admin", "member"}

OwnerOps == {"SetMemberRole", "TransferOwnership"}
AdminOps == {"AddMembers", "CreateInvite", "RevokeInvite", "UpdateRoom", "GrantBot"}
JoinOps == {"JoinInvite", "JoinChannel"}
LeaveOps == {"RemoveMember", "LeaveRoom"}
DeleteOps == {"DeleteAccount", "DeleteBot"}
Ops == OwnerOps \cup AdminOps \cup JoinOps \cup LeaveOps \cup DeleteOps

ASSUME OperationsAssumption == Operations \subseteq Ops

Steps == {"idle", "auth", "grant", "target", "actor", "count", "add", "audience",
          "remove", "write", "promote", "demote", "user", "publish"}
Args == {"", "admin", "member", "private", "public", "allow", "deny"}

\* The argument that is neither a user nor a link.
ArgsOf(op) ==
    IF op = "SetMemberRole" THEN {"admin", "member"}
    ELSE IF op = "UpdateRoom" THEN {"private", "public"}
    ELSE IF op = "GrantBot" THEN {"allow", "deny"}
    ELSE {""}

Fields == [op : Ops \cup {"none"}, pc : Steps,
           actor : Users \cup {Nobody}, target : Users \cup {Nobody},
           link : Links \cup {Nobody}, arg : Args,
           todo : SUBSET Users,          \* usernames AddMembers still has to add
           seen : Roles \cup {"none"},   \* the target's role when it was read
           to : SUBSET Users]            \* the audience of the event to publish
Request == {c \in Fields : c.arg \in ArgsOf(c.op) /\ (c.op \in LeaveOps => c.target \in Users)}

Blank == [op |-> "none", pc |-> "idle", actor |-> Nobody, target |-> Nobody,
          link |-> Nobody, arg |-> "", todo |-> {}, seen |-> "none", to |-> {}]

Event == [op : Ops \cup {"none"}, about : Users \cup {Nobody}, to : SUBSET Users]
NoEvent == [op |-> "none", about |-> Nobody, to |-> {}]

\* Every variable has its type; a link names its creator by a user row that exists.
TypeOK ==
    /\ kind \in Kinds
    /\ visibility \in Visibilities
    /\ role \in [Users -> Roles \cup {"none"}]
    /\ managers \subseteq bots
    /\ bots \subseteq Bots
    /\ accounts \subseteq Users
    /\ linkBy \in [Links -> Users \cup {Nobody}]
    /\ revoked \subseteq Links
    /\ req \in [Requests -> Request]
    /\ sent \in Event

-----------------------------------------------------------------------------
(* Reading the store                                                       *)

Members == {u \in Users : role[u] # "none"}
Owners == {u \in Users : role[u] = "owner"}
Admins == {u \in Users : role[u] \in {"owner", "admin"}}
Issued == {l \in Links : linkBy[l] # Nobody}
Live(l) == l \in Issued \ revoked
Open == kind = "channel" /\ visibility = "public"

\* Slip: an admin manages everybody but the owner.
ManageLower(actorRole, targetRole) ==
    actorRole \in {"owner", "admin"} /\ targetRole # "owner"

\* canManageMember
CanManage(actorRole, targetRole) ==
    \/ actorRole = "owner" /\ targetRole # "owner"
    \/ actorRole = "admin" /\ targetRole = "member"

-----------------------------------------------------------------------------
(* Control of a request                                                    *)

At(r, ops, step) == req[r].op \in ops /\ req[r].pc = step
Becomes(r, c) == req' = [req EXCEPT ![r] = c]
Goto(r, step) == Becomes(r, [req[r] EXCEPT !.pc = step])
Done(r) == Becomes(r, Blank)
Silent == sent' = NoEvent
ReadOnly == Silent /\ UNCHANGED kind /\ UNCHANGED store

FirstStep(op) ==
    IF op \in LeaveOps THEN "target" ELSE IF op \in DeleteOps THEN "write" ELSE "auth"

\* A call a client may make: its operation, its actor and the arguments.
Call(op, actor, target, arg, todo, link) ==
    [Blank EXCEPT !.op = op, !.pc = FirstStep(op), !.actor = actor, !.target = target,
                  !.arg = arg, !.todo = todo, !.link = link]

\* A transfer may name the actor itself: nothing in the handler or the service refuses that.
TargetsOf(op, actor) ==
    IF op \in {"SetMemberRole", "RemoveMember", "TransferOwnership"} THEN Users
    ELSE IF op \in JoinOps \cup {"LeaveRoom", "DeleteAccount"} THEN {actor}
    ELSE IF op \in {"GrantBot", "DeleteBot"} THEN Bots
    ELSE {Nobody}

BatchesOf(op) ==
    IF op = "AddMembers" THEN {s \in SUBSET Users : Cardinality(s) \in 1..MaxBatch} ELSE {{}}

LinksOf(op) == IF op \in {"CreateInvite", "RevokeInvite", "JoinInvite"} THEN Links ELSE {Nobody}

\* The client's request reaches its handler, with a session or bot token that is good.
Begin(r) ==
    /\ req[r] = Blank
    /\ \E op \in Operations, actor \in accounts :
         /\ actor \in Bots => actor \in bots /\ op \notin DeleteOps
         /\ \E target \in TargetsOf(op, actor), arg \in ArgsOf(op),
               todo \in BatchesOf(op), link \in LinksOf(op) :
              Becomes(r, Call(op, actor, target, arg, todo, link))
    /\ ReadOnly

\* The client goes away, the server stops, or a store call fails: what was written stays.
Cancel(r) ==
    /\ MayCancel
    /\ req[r] # Blank
    /\ Done(r)
    /\ ReadOnly

-----------------------------------------------------------------------------
(* The checks                                                              *)

\* Slips: asking for any member, and for an admin.
RequireMember(u) == u \in Members
RequireStaff(u) == u \in Admins

requireAdmin(u) == u \in Admins
requireOwner(u) == u \in Owners
GetInviteByToken(l) == Live(l)

\* The first check of each operation, JoinInvite's link and JoinChannel's test included.
Authorized(c) ==
    \/ c.op = "SetMemberRole" /\ kind # "direct" /\ requireOwner(c.actor)
    \/ c.op = "TransferOwnership" /\ requireOwner(c.actor)
    \/ c.op = "AddMembers" /\ kind # "direct" /\ requireAdmin(c.actor)
    \/ c.op \in AdminOps \ {"AddMembers"} /\ requireAdmin(c.actor)
    \/ c.op = "JoinInvite" /\ GetInviteByToken(c.link)
    \/ c.op = "JoinChannel" /\ Open

AfterAuth(op) ==
    IF op = "AddMembers" THEN "count"
    ELSE IF op \in OwnerOps \cup {"GrantBot"} THEN "target"
    ELSE IF op \in JoinOps THEN "add"
    ELSE "write"

Authorize(r) ==
    /\ At(r, Ops, "auth")
    /\ Authorized(req[r])
    /\ Goto(r, AfterAuth(req[r].op))
    /\ ReadOnly

\* AddMembers goes on to requireBotCanManageMembers before it refuses, and JoinInvite
\* also refuses an actor who is blocked with the creator (the block list is not here).
Refuse(r) ==
    /\ At(r, Ops, "auth")
    /\ ~Authorized(req[r]) \/ req[r].op = "JoinInvite"
    /\ IF req[r].op = "AddMembers" /\ kind # "direct" THEN Goto(r, "grant") ELSE Done(r)
    /\ ReadOnly

\* requireBotCanManageMembers, which asks for the grant and not for a membership.
CheckGrant(r) ==
    /\ At(r, {"AddMembers", "RemoveMember"}, "grant")
    /\ IF req[r].actor \in managers
         THEN Goto(r, IF req[r].op = "AddMembers" THEN "count" ELSE "audience")
         ELSE Done(r)
    /\ ReadOnly

\* Slip: the owner is a target like any other.
TargetAny(c) ==
    \/ c.op = "GrantBot" /\ c.target \in bots
    \/ c.op = "TransferOwnership" /\ c.target \in Members
    \/ c.op = "SetMemberRole" /\ c.target \in Members /\ c.target # c.actor
    \/ c.op \in LeaveOps /\ kind # "direct" /\ c.target \in Members

\* What each operation asks of its target before it goes on.
TargetOK(c) ==
    \/ c.op = "GrantBot" /\ c.target \in bots
    \/ c.op = "TransferOwnership" /\ c.target \in Members
    \/ c.op = "SetMemberRole" /\ c.target \in Members \ Owners /\ c.target # c.actor
    \/ c.op \in LeaveOps /\ kind # "direct" /\ c.target \in Members \ Owners

AfterTarget(c) ==
    IF c.op = "GrantBot" THEN "add"
    ELSE IF c.op = "TransferOwnership" THEN "promote"
    ELSE IF c.op = "SetMemberRole" THEN "write"
    ELSE IF c.op = "LeaveRoom" THEN "audience"
    ELSE "actor"

CheckTarget(r) ==
    LET c == req[r] IN
    /\ At(r, Ops, "target")
    /\ IF ~TargetOK(c) THEN Done(r)
       ELSE IF c.op = "RemoveMember" /\ c.actor = c.target
         THEN Becomes(r, [c EXCEPT !.op = "LeaveRoom"])    \* reads the role again
         ELSE Becomes(r, [c EXCEPT !.pc = AfterTarget(c),
                                   !.seen = IF c.op \in LeaveOps THEN role[c.target] ELSE "none"])
    /\ ReadOnly

\* RemoveMember: the actor's role against the role the target had when it was read.
CheckActor(r) ==
    LET c == req[r] IN
    /\ At(r, {"RemoveMember"}, "actor")
    /\ IF c.actor \notin Members THEN Done(r)
       ELSE IF CanManage(role[c.actor], c.seen) THEN Goto(r, "audience")
       ELSE IF c.seen = "member" THEN Goto(r, "grant")
       ELSE Done(r)
    /\ ReadOnly

\* AddMembers: len(existing)+len(usernames) against the limit.
CountMembers(r) ==
    /\ At(r, {"AddMembers"}, "count")
    /\ IF Cardinality(Members) + Cardinality(req[r].todo) > MaxRoomMembers
         THEN Done(r)
         ELSE Goto(r, "add")
    /\ ReadOnly

-----------------------------------------------------------------------------
(* The writes                                                              *)

\* AddMembers: one lookup and one Store.AddMember, for the next username.
AddNext(r) ==
    LET c == req[r] IN
    /\ At(r, {"AddMembers"}, "add")
    /\ \E u \in c.todo :
         \/ /\ u \notin accounts
            /\ Done(r) /\ UNCHANGED role
         \/ /\ u \in accounts \cap Members
            /\ Becomes(r, IF c.todo = {u} THEN Blank ELSE [c EXCEPT !.todo = @ \ {u}])
            /\ UNCHANGED role
         \/ /\ u \in accounts \ Members
            /\ role' = [role EXCEPT ![u] = "member"]
            /\ Becomes(r, [c EXCEPT !.todo = @ \ {u}, !.target = u, !.pc = "audience"])
    /\ Silent
    /\ UNCHANGED <<kind, visibility, managers, bots, accounts, linkBy, revoked>>

\* JoinInvite, JoinChannel and GrantBot: Store.AddMember, ErrAlreadyMember ignored.
AddSelf(r) ==
    LET c == req[r] IN
    /\ At(r, JoinOps \cup {"GrantBot"}, "add")
    /\ IF c.target \in accounts \ Members
         THEN role' = [role EXCEPT ![c.target] = "member"]
         ELSE UNCHANGED role
    /\ IF c.op = "GrantBot" /\ c.target \in accounts THEN Goto(r, "write") ELSE Done(r)
    /\ Silent
    /\ UNCHANGED <<kind, visibility, managers, bots, accounts, linkBy, revoked>>

\* Store.RemoveMember; no row left means ErrNotFound.
Remove(r) ==
    LET c == req[r] IN
    /\ At(r, LeaveOps, "remove")
    /\ role' = [role EXCEPT ![c.target] = "none"]
    /\ IF c.target \in Members THEN Goto(r, "publish") ELSE Done(r)
    /\ Silent
    /\ UNCHANGED <<kind, visibility, managers, bots, accounts, linkBy, revoked>>

\* Store.SetMemberRole: an UPDATE that touches only a row that is there.
SetRole(u, new) == role' = IF u \in Members THEN [role EXCEPT ![u] = new] ELSE role

WriteRole(r) ==
    LET c == req[r] IN
    /\ At(r, {"SetMemberRole"}, "write")
    /\ SetRole(c.target, c.arg)
    /\ IF c.target \in Members THEN Goto(r, "audience") ELSE Done(r)
    /\ Silent
    /\ UNCHANGED <<kind, visibility, managers, bots, accounts, linkBy, revoked>>

\* Slip: the transfer ends with its first write.
PromoteOnly(r) ==
    LET c == req[r] IN
    /\ At(r, {"TransferOwnership"}, "promote")
    /\ SetRole(c.target, "owner")
    /\ Done(r)
    /\ Silent
    /\ UNCHANGED <<kind, visibility, managers, bots, accounts, linkBy, revoked>>

\* TransferOwnership, first write: the target becomes owner.
Promote(r) ==
    LET c == req[r] IN
    /\ At(r, {"TransferOwnership"}, "promote")
    /\ SetRole(c.target, "owner")
    /\ IF c.target \in Members THEN Goto(r, "demote") ELSE Done(r)
    /\ Silent
    /\ UNCHANGED <<kind, visibility, managers, bots, accounts, linkBy, revoked>>

\* TransferOwnership, second write: the actor becomes admin, the new owner included if that is
\* the actor.
Demote(r) ==
    /\ At(r, {"TransferOwnership"}, "demote")
    /\ SetRole(req[r].actor, "admin")
    /\ Done(r)
    /\ Silent
    /\ UNCHANGED <<kind, visibility, managers, bots, accounts, linkBy, revoked>>

WriteInvite(r) ==
    LET c == req[r] IN
    /\ At(r, {"CreateInvite", "RevokeInvite"}, "write")
    /\ \/ /\ c.op = "CreateInvite"
          /\ c.link \in Links \ Issued /\ c.actor \in accounts  \* fresh token, creator's row
          /\ linkBy' = [linkBy EXCEPT ![c.link] = c.actor]
          /\ UNCHANGED revoked
       \/ /\ c.op = "CreateInvite"
          /\ c.link \in Issued \/ c.actor \notin accounts
          /\ UNCHANGED <<linkBy, revoked>>
       \/ /\ c.op = "RevokeInvite"
          /\ revoked' = revoked \cup ({c.link} \cap Issued)
          /\ UNCHANGED linkBy
    /\ Done(r)
    /\ Silent
    /\ UNCHANGED <<kind, visibility, role, managers, bots, accounts>>

\* UpdateRoom: Store.UpdateRoomMeta takes any visibility, for any kind.
WriteMeta(r) ==
    /\ At(r, {"UpdateRoom"}, "write")
    /\ visibility' = req[r].arg
    /\ Done(r)
    /\ Silent
    /\ UNCHANGED <<kind, role, managers, bots, accounts, linkBy, revoked>>

\* GrantBot: the grant is written after the membership, whether or not that still stands.
WriteGrant(r) ==
    LET c == req[r] IN
    /\ At(r, {"GrantBot"}, "write")
    /\ managers' = IF c.arg = "allow" /\ c.target \in bots
                     THEN managers \cup {c.target} ELSE managers \ {c.target}
    /\ Done(r)
    /\ Silent
    /\ UNCHANGED <<kind, visibility, role, bots, accounts, linkBy, revoked>>

\* The user row goes, and with it every row that refers to it ON DELETE CASCADE.
EraseUser(u) ==
    /\ accounts' = accounts \ {u}
    /\ role' = [role EXCEPT ![u] = "none"]
    /\ linkBy' = [l \in Links |-> IF linkBy[l] = u THEN Nobody ELSE linkBy[l]]
    /\ revoked' = {l \in revoked : linkBy[l] # u}

DeleteAccount(r) ==
    LET c == req[r] IN
    /\ At(r, {"DeleteAccount"}, "write")
    /\ EraseUser(c.actor)
    /\ Done(r)
    /\ Silent
    /\ UNCHANGED <<kind, visibility, managers, bots>>

\* deleteBot of phase.go: the bots row (its grants cascade) first, the user row later.
DeleteBotRecord(r) ==
    LET c == req[r] IN
    /\ At(r, {"DeleteBot"}, "write")
    /\ bots' = bots \ {c.target}
    /\ managers' = managers \ {c.target}
    /\ IF c.target \in bots THEN Goto(r, "user") ELSE Done(r)
    /\ Silent
    /\ UNCHANGED <<kind, visibility, role, accounts, linkBy, revoked>>

DeleteBotUser(r) ==
    LET c == req[r] IN
    /\ At(r, {"DeleteBot"}, "user")
    /\ EraseUser(c.target)
    /\ Done(r)
    /\ Silent
    /\ UNCHANGED <<kind, visibility, managers, bots>>

-----------------------------------------------------------------------------
(* Telling the members                                                     *)

\* Slip: the sender is left out, as for typing events.
ReadOthers(r) ==
    LET c == req[r] IN
    /\ At(r, Ops, "audience")
    /\ Becomes(r, [c EXCEPT
         !.to = IF c.op \in LeaveOps THEN Members \cup {c.target} ELSE Members \ {c.actor},
         !.pc = IF c.op \in LeaveOps THEN "remove" ELSE "publish"])
    /\ ReadOnly

\* The member ids an event goes to: read before the delete by LeaveRoom and RemoveMember,
\* which add the user concerned, and after the write by publishMembers.
ReadAudience(r) ==
    LET c == req[r] IN
    /\ At(r, Ops, "audience")
    /\ Becomes(r, [c EXCEPT
         !.to = IF c.op \in LeaveOps THEN Members \cup {c.target} ELSE Members,
         !.pc = IF c.op \in LeaveOps THEN "remove" ELSE "publish"])
    /\ ReadOnly

\* Hub.Publish; AddMembers then goes on with its next username.
Publish(r) ==
    LET c == req[r] IN
    /\ At(r, Ops, "publish")
    /\ sent' = [op |-> c.op, about |-> c.target, to |-> c.to]
    /\ Becomes(r, IF c.todo = {} THEN Blank
                   ELSE [c EXCEPT !.pc = "add", !.to = {}])
    /\ UNCHANGED kind /\ UNCHANGED store

-----------------------------------------------------------------------------
(* The specification                                                       *)

\* The conversation has just been created, by CreateDirect or by CreateRoom.
Init ==
    /\ kind \in Kinds
    /\ visibility \in Visibilities
    /\ kind # "channel" => visibility = "private"
    /\ \E creator \in Users \ Bots, others \in SUBSET Users :
         /\ creator \notin others
         /\ kind = "direct" => Cardinality(others) = 1
         /\ kind = "group" => others # {}
         /\ Cardinality(others) < MaxRoomMembers
         /\ role = [u \in Users |->
              IF u = creator /\ kind # "direct" THEN "owner"
              ELSE IF u = creator \/ u \in others THEN "member" ELSE "none"]
    /\ managers = {}
    /\ bots = Bots
    /\ accounts = Users
    /\ linkBy = [l \in Links |-> Nobody]
    /\ revoked = {}
    /\ req = [r \in Requests |-> Blank]
    /\ sent = NoEvent

Step(r) ==
    \/ Begin(r) \/ Cancel(r)
    \/ Authorize(r) \/ Refuse(r) \/ CheckGrant(r) \/ CheckTarget(r) \/ CheckActor(r)
    \/ CountMembers(r)
    \/ AddNext(r) \/ AddSelf(r) \/ Remove(r) \/ WriteRole(r) \/ Promote(r) \/ Demote(r)
    \/ WriteInvite(r) \/ WriteMeta(r) \/ WriteGrant(r)
    \/ DeleteAccount(r) \/ DeleteBotRecord(r) \/ DeleteBotUser(r)
    \/ ReadAudience(r) \/ Publish(r)

Next == \E r \in Requests : Step(r)

Spec == Init /\ [][Next]_vars

-----------------------------------------------------------------------------
(* Properties                                                              *)

\* A direct chat stays between the two it was created for, with no role above member:
\* that alone keeps the operations that only ask for an admin (invites, bot grants and
\* renaming) out of it: CreateInvite, GrantBot and UpdateRoom do not look at the kind.
DirectPair == kind = "direct" => Cardinality(Members) <= 2 /\ Admins = {}

\* What is past its check and can still let somebody in, or open a way in.
MayStillAdmit(c) ==
    /\ c.op \in OwnerOps \cup AdminOps \cup JoinOps
    /\ c.pc \notin {"idle", "auth", "grant"}

\* No way into the conversation is left: nobody with a role that invites or adds, no bot
\* with the grant, no live link, not public, and no request that was let through earlier.
Sealed ==
    /\ Admins = {} /\ managers = {}
    /\ \A l \in Links : ~Live(l)
    /\ ~Open
    /\ \A r \in Requests : ~MayStillAdmit(req[r])

\* A sealed conversation gains no member and stays sealed, whatever calls arrive and in
\* whatever order their store calls run.
SealedStaysSealed == [][Sealed => Sealed' /\ Members' \subseteq Members]_vars

\* No owner, and no request that an owner was let through with earlier.
Orphaned ==
    /\ Owners = {}
    /\ \A r \in Requests : req[r].op \in OwnerOps => req[r].pc = "auth"

\* A room that has lost its owner never has one again and never gains an admin: no call
\* appoints anybody without an owner's check (deletion of the owner's account gets a
\* room there, as do a transfer to oneself and one between the check of a target's role and the write).
OrphanStaysOrphan == [][Orphaned => Orphaned' /\ Admins' \subseteq Admins]_vars

\* Requests that were let through to take the role of u, or to give it away for u.
AgainstOwner(c, u) ==
    \/ c.op \in LeaveOps \cup {"SetMemberRole"} /\ c.target = u /\ c.pc \notin {"auth", "target"}
    \/ c.op = "TransferOwnership" /\ c.actor = u /\ c.pc # "auth"

Secure(u) == u \in Owners /\ \A r \in Requests : ~AgainstOwner(req[r], u)

\* CHAT_BACKEND_CONTRACT.md:76, "Owner cannot be removed, demoted, or leave (transfer first)": an
\* owner against whom nothing was let through before it became the owner stays so, until it transfers
\* or its account goes.  What was let through before does take the role away, as no write looks at it.
OwnerStaysOwner ==
    [][\A u \in Users : Secure(u) =>
          \/ Secure(u)'
          \/ u \notin accounts'
          \/ \E r \in Requests : At(r, {"TransferOwnership"}, "auth") /\ AgainstOwner(req'[r], u)]_vars

Resting == \A r \in Requests : req[r] = Blank

\* About to demote the user it has just made the owner.
Resigning(c) == c.op = "TransferOwnership" /\ c.pc = "demote" /\ c.target = c.actor

\* Handled one at a time, requests never leave a room with two owners, and take its last owner in two
\* ways only: the owner's account is deleted, or the owner transfers the room to itself, whose second
\* write demotes the user that the first one promoted.
OneOwnerAtRest ==
    [][/\ Resting' => Cardinality(Owners') <= 1
       /\ Owners # {} /\ Owners' = {} =>
            \/ \E u \in Owners : u \notin accounts'
            \/ \E r \in Requests : Resigning(req[r])]_vars

\* Handled one at a time, an event goes to the members there are when it is published,
\* and to the one it is about.
AudienceIsMembers ==
    [][sent' # NoEvent => sent'.to = Members' \cup {sent'.about}]_vars

-----------------------------------------------------------------------------
(* The room's contract                                                     *)

\* Owners whose transfer has promoted somebody else and not yet demoted them.
InTransfer(r) == At(r, {"TransferOwnership"}, "demote") /\ ~Resigning(req[r])
Outgoing == {req[r].actor : r \in {x \in Requests : InTransfer(x)}}

\* Mid-transfer, the promoted target already counts as the owner.
OwnerAmong(S) == IF S = {} THEN Nobody ELSE CHOOSE u \in S : TRUE
RoomOwner == OwnerAmong(Owners \ Outgoing)
RoomAdmins == {u \in Members : role[u] = "admin"} \cup (Outgoing \cap Members)
RoomDoor == Open \/ \E l \in Links : Live(l)

Abstract(c) ==
    [op |-> IF c.op \in LeaveOps THEN "RemoveMember" ELSE c.op,
     actor |-> c.actor,
     target |-> IF c.op = "AddMembers" THEN Nobody ELSE c.target]
RoomAsked == [r \in Requests |-> Abstract(req[r])]

Contract == INSTANCE RoomContract WITH
    owner <- RoomOwner, admins <- RoomAdmins, members <- Members, door <- RoomDoor, asked <- RoomAsked

\* Served one at a time, the store calls of every request add up to the one effect the
\* contract gives it, authorised by the roles of that moment.
ImplementsContract == Contract!Spec
=============================================================================
