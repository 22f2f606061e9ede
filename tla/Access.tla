------------------------------- MODULE Access -------------------------------
(***************************************************************************)
(* What the store knows of who may write in one conversation, and the      *)
(* checks of chat.Service that read it: membership and role, the           *)
(* restriction of a member, a block between the two users of a direct      *)
(* chat, and a bot's grants.                                               *)
(*                                                                         *)
(* The rows are written here one at a time by the requests of other        *)
(* components (Membership has those of the members), at any moment.        *)
(* A restriction and a grant survive the removal of the member.            *)
(***************************************************************************)
EXTENDS Integers, FiniteSets

CONSTANTS
    Users,          \* users who are or may be in the conversation
    Bots,           \* the users with a row in bots
    Changed,        \* bound: the users whose rows of this module change
    Grants,         \* bound: the grants that are given
    Kinds           \* bound: the kinds of conversation looked at

Rights == {"read", "send", "messages"}

ASSUME AccessAssumption ==
    /\ Bots \subseteq Users /\ Changed \subseteq Users
    /\ Grants \subseteq SUBSET Rights
    /\ Kinds \subseteq {"direct", "group", "channel"}

VARIABLES
    kind,           \* conversations.kind
    accounts,       \* users with a row in users
    role,           \* conversation_members.role, "none" without a row; "admin" stands for owner too
    silenced,       \* member_restrictions with can_send false
    blocked,        \* a user_blocks row between the two users of a direct chat, either way
    bots,           \* bots with a row in bots
    grant           \* bot_grants of the conversation, the columns that are true

access == <<kind, accounts, role, silenced, blocked, bots, grant>>

Roles == {"none", "member", "admin"}

\* Every variable has its type; a member and a bot have accounts, a grant a bot.
AccessTypeOK ==
    /\ kind \in Kinds
    /\ accounts \subseteq Users
    /\ role \in [Users -> Roles]
    /\ silenced \subseteq Users
    /\ blocked \in BOOLEAN
    /\ bots \subseteq Bots \cap accounts
    /\ grant \in [Users -> SUBSET Rights]
    /\ \A u \in Users : grant[u] # {} => u \in bots
    /\ \A u \in Users : role[u] # "none" => u \in accounts

-----------------------------------------------------------------------------
(* Why a request is refused                                                *)

Outsider(u) == role[u] = "none"
Restricted(u) == u \in silenced
Blocked(u) == kind = "direct" /\ blocked
\* Whoever has no row in bots needs no grant.
Ungranted(u, right) == u \in bots /\ right \notin grant[u]
NotStaff(u) == role[u] # "admin"

\* The checks of sendMessage, in their order.
Checks == {"member", "silence", "block", "grant", "staff"}

Barred(u, check) ==
    \/ check = "member" /\ Outsider(u)
    \/ check = "silence" /\ Restricted(u)
    \/ check = "block" /\ Blocked(u)
    \/ check = "grant" /\ Ungranted(u, "send")
    \/ check = "staff" /\ kind = "channel" /\ u \notin bots /\ NotStaff(u)

-----------------------------------------------------------------------------
(* The writes of other requests                                            *)

AccessInit ==
    /\ kind \in Kinds
    /\ accounts = Users
    /\ role = [u \in Users |-> IF kind # "direct" /\ u \notin Bots THEN "admin" ELSE "member"]
    /\ silenced = {}
    /\ blocked = FALSE
    /\ bots = Bots
    /\ grant = [u \in Users |-> {}]

\* Direct chats have no admin, so their roles, restrictions and grants never change.
SetMember(u) ==
    /\ kind # "direct" /\ u \in accounts
    /\ \E x \in Roles \ {role[u]} : role' = [role EXCEPT ![u] = x]
    /\ UNCHANGED <<kind, accounts, silenced, blocked, bots, grant>>

SetMemberRestriction(u) ==
    /\ kind # "direct" /\ u \in accounts
    /\ silenced' = IF u \in silenced THEN silenced \ {u} ELSE silenced \cup {u}
    /\ UNCHANGED <<kind, accounts, role, blocked, bots, grant>>

\* BlockUser, UnblockUser
SetBlock ==
    /\ kind = "direct" /\ accounts = Users
    /\ blocked' = ~blocked
    /\ UNCHANGED <<kind, accounts, role, silenced, bots, grant>>

\* A grant is written whole.
UpsertBotGrant(u) ==
    /\ kind # "direct" /\ u \in bots
    /\ \E g \in Grants : grant' = [grant EXCEPT ![u] = g]
    /\ UNCHANGED <<kind, accounts, role, silenced, blocked, bots>>

\* The bot's row goes first, its user's row in a later statement.
DeleteBot(u) ==
    /\ u \in bots
    /\ bots' = bots \ {u}
    /\ grant' = [grant EXCEPT ![u] = {}]
    /\ UNCHANGED <<kind, accounts, role, silenced, blocked>>

\* The rows that go with the row of a user.
DeleteUser(u) ==
    /\ u \in accounts
    /\ accounts' = accounts \ {u}
    /\ bots' = bots \ {u}
    /\ role' = [role EXCEPT ![u] = "none"]
    /\ silenced' = silenced \ {u}
    /\ grant' = [grant EXCEPT ![u] = {}]
    /\ blocked' = FALSE
    /\ UNCHANGED kind

Rewrite ==
    \/ \E u \in Changed : SetMember(u) \/ SetMemberRestriction(u) \/ UpsertBotGrant(u) \/ DeleteBot(u)
    \/ SetBlock

=============================================================================
