------------------------------- MODULE Profile -------------------------------
(***************************************************************************)
(* What an account says of itself and who is shown it: the privacy         *)
(* switches, the texts of the profile and the photo, as their owner        *)
(* changes them, and the six places that consult a switch before they show *)
(* somebody something.                                                     *)
(*                                                                         *)
(* Switches and texts are changed alike: the row is read, the named fields *)
(* are replaced, and the whole row is written back.  The photo is a blob   *)
(* under a key made of the user's id, and a column that says there is one. *)
(*                                                                         *)
(* A request runs one statement, or one call of the blob store, at a time. *)
(* Cancel is its end between two of them: the client went away, a read     *)
(* refused it, the session was over, the process stopped.  A search that   *)
(* finds several users is a request for each.  What an owner is shown of   *)
(* itself is asked of no switch and left out, as is the username, which    *)
(* one statement changes under a unique index.                             *)
(***************************************************************************)
EXTENDS FiniteSets

CONSTANTS
    Users,
    Requests,       \* requests under way at one time
    None,           \* no user
    Named,          \* bound: the sets of fields an edit may name
    Operations,     \* bound: the calls a request slot may make, and for whom
    Erasable        \* bound: the users whose account may be deleted

\* Of user_privacy; notification_preview, which guards alerts, is in Push.
Switches == {"last_seen_visible", "read_receipts", "typing_visible", "profile_visible", "photo_visible"}
Texts == {"display_name", "bio"}
Fields == Switches \cup Texts
Ops == {"edit", "upload", "remove", "show"}

ASSUME ProfileAssumption ==
    /\ IsFiniteSet(Users) /\ IsFiniteSet(Requests) /\ None \notin Users
    /\ \A N \in Named : N \subseteq Switches \/ N \subseteq Texts
    /\ Operations \in [Requests -> SUBSET (Users \X Ops)]
    /\ Erasable \subseteq Users

VARIABLES
    accounts,       \* users with a row in users
    row,            \* of each user, the switches that are on and the texts that are set
    keyed,          \* users with an avatar_key
    blob,           \* the object under the user's key
    disturbed,      \* auxiliary: users whose photo was edited by two requests at a time, or by one cut short
    req             \* the requests under way

vars == <<accounts, row, keyed, blob, disturbed, req>>

\* Where something of a user is shown, and the switch that must be on.
Gate == [last_seen |-> "last_seen_visible", receipt |-> "read_receipts", receipt_event |-> "read_receipts",
         typing |-> "typing_visible", search |-> "profile_visible", photo |-> "photo_visible"]
Kinds == DOMAIN Gate

Request == [op : Ops \cup {"none"}, by : Users \cup {None},
            named : SUBSET Fields, want : SUBSET Fields,    \* an edit: the fields, and which of them to set
            read : SUBSET Fields,                           \* what it found in the row
            met : BOOLEAN,      \* auxiliary: the row was written by another since the edit began
            of : Users \cup {None}, kind : Kinds,           \* a showing: whose, where
            failed : BOOLEAN,   \* the read of the switches failed
            found : BOOLEAN,    \* the avatar_key that was read is not empty
            pc : {"idle", "read", "write", "create", "copy", "key", "look", "erase", "clear",
                  "first", "privacy", "rest"}]

NoRequest == [op |-> "none", by |-> None, named |-> {}, want |-> {}, read |-> {}, met |-> FALSE,
              of |-> None, kind |-> "photo", failed |-> FALSE, found |-> FALSE, pc |-> "idle"]

\* Every variable has its type; a photo, its column and the fields that are not at their default
\* belong to an account; an edit keeps to one of the two rows.
TypeOK ==
    /\ accounts \subseteq Users /\ keyed \subseteq accounts /\ disturbed \subseteq Users
    /\ row \in [Users -> SUBSET Fields]
    /\ \A u \in Users \ accounts : row[u] = Switches
    /\ blob \in [Users -> {"none", "partial", "whole"}]
    /\ req \in [Requests -> Request]
    /\ \A r \in Requests :
          /\ req[r].op = "none" <=> req[r].pc = "idle"
          /\ req[r].op # "none" => req[r].by # None
          /\ req[r].op = "show" => req[r].of # None
          /\ req[r].want \subseteq req[r].named
          /\ req[r].named \subseteq Switches \/ req[r].named \subseteq Texts

-----------------------------------------------------------------------------
(* Control of a request                                                    *)

At(r, op, step) == req[r].op = op /\ req[r].pc = step
Becomes(r, q) == req' = [req EXCEPT ![r] = q]
Goto(r, step) == Becomes(r, [req[r] EXCEPT !.pc = step])
End(r) == Becomes(r, NoRequest)

\* The row an edit of these fields reads and writes.
TableOf(N) == IF N \subseteq Switches THEN Switches ELSE Texts

\* A request is at work on the photo of u.
OnPhoto(r, u) == req[r].op \in {"upload", "remove"} /\ req[r].by = u

Editing(u, N, W) ==
    [NoRequest EXCEPT !.op = "edit", !.by = u, !.named = N, !.want = W, !.pc = "read"]
Uploading(u) == [NoRequest EXCEPT !.op = "upload", !.by = u, !.pc = "create"]
Removing(u) == [NoRequest EXCEPT !.op = "remove", !.by = u, !.pc = "look"]

\* Who looks at a profile, a photo or a receipt asks about another; a reader and a writer of messages
\* shows something of its own.
Showing(v, u, k) ==
    [NoRequest EXCEPT !.op = "show", !.by = v, !.of = u, !.kind = k,
                      !.pc = IF k = "last_seen" THEN "privacy" ELSE "first"]

Ask(r, q) ==
    /\ req[r].pc = "idle" /\ <<q.by, q.op>> \in Operations[r]
    /\ Becomes(r, q)
    /\ UNCHANGED <<accounts, row, keyed, blob>>

Begin(r) == \E u \in accounts :
    \/ \E N \in Named : \E W \in SUBSET N : Ask(r, Editing(u, N, W)) /\ UNCHANGED disturbed
    \/ /\ Ask(r, Uploading(u)) \/ Ask(r, Removing(u))
       /\ disturbed' = disturbed \cup {v \in {u} : \E s \in Requests : OnPhoto(s, v)}
    \/ /\ \/ \E v \in Users \ {u}, k \in Kinds \ {"receipt_event", "typing"} : Ask(r, Showing(u, v, k))
          \/ \E k \in {"receipt_event", "typing"} : Ask(r, Showing(u, u, k))
       /\ UNCHANGED disturbed

-----------------------------------------------------------------------------
(* Switches and texts                                                      *)

\* GetPrivacy, where no row means all switches on; CurrentSession for the texts.
ReadRow(r) ==
    /\ At(r, "edit", "read")
    /\ Becomes(r, [req[r] EXCEPT !.read = row[req[r].by] \cap TableOf(req[r].named), !.pc = "write"])
    /\ UNCHANGED <<accounts, row, keyed, blob, disturbed>>

\* Slip: fields that are not named go back to their default.
MergedAnew(q) == q.want \cup ((Switches \cap TableOf(q.named)) \ q.named)
\* The fields named replace those read.
Merged(q) == q.want \cup (q.read \ q.named)

\* PutPrivacy writes all columns, UpdateUserProfile both texts; neither finds a row of a deleted user.
WriteRow(r) ==
    LET u == req[r].by
        table == TableOf(req[r].named)
    IN  /\ At(r, "edit", "write")
        /\ row' = [row EXCEPT ![u] = IF u \in accounts THEN (@ \ table) \cup Merged(req[r]) ELSE @]
        /\ req' = [s \in Requests |->
                     IF s = r THEN NoRequest
                     ELSE IF req[s].op = "edit" /\ req[s].by = u /\ TableOf(req[s].named) = table
                          THEN [req[s] EXCEPT !.met = TRUE]
                     ELSE req[s]]
        /\ UNCHANGED <<accounts, keyed, blob, disturbed>>

-----------------------------------------------------------------------------
(* The photo                                                               *)

\* The store truncates the object, then copies the new one into it.
CreateObject(r) ==
    /\ At(r, "upload", "create")
    /\ blob' = [blob EXCEPT ![req[r].by] = "partial"]
    /\ Goto(r, "copy")
    /\ UNCHANGED <<accounts, row, keyed, disturbed>>

\* Slip: an error of the copy is not looked at.
CopyUnchecked(r) ==
    /\ At(r, "upload", "copy")
    /\ blob' \in {blob, [blob EXCEPT ![req[r].by] = "whole"]}
    /\ Goto(r, "key")
    /\ UNCHANGED <<accounts, row, keyed, disturbed>>

CopyObject(r) ==
    /\ At(r, "upload", "copy")
    /\ blob' = [blob EXCEPT ![req[r].by] = "whole"]
    /\ Goto(r, "key")
    /\ UNCHANGED <<accounts, row, keyed, disturbed>>

\* Slip: an account that has gone is written.
SetAvatarKeyAnyway(r) ==
    /\ At(r, "upload", "key")
    /\ keyed' = keyed \cup {req[r].by}
    /\ End(r)
    /\ UNCHANGED <<accounts, row, blob, disturbed>>

SetAvatarKey(r) ==
    /\ At(r, "upload", "key")
    /\ keyed' = keyed \cup ({req[r].by} \cap accounts)
    /\ End(r)
    /\ UNCHANGED <<accounts, row, blob, disturbed>>

FindAvatar(r) ==
    /\ At(r, "remove", "look")
    /\ Becomes(r, [req[r] EXCEPT !.found = req[r].by \in keyed,
                                 !.pc = IF req[r].by \in keyed THEN "erase" ELSE "clear"])
    /\ UNCHANGED <<accounts, row, keyed, blob, disturbed>>

\* Its failure is ignored.
EraseObject(r) ==
    /\ At(r, "remove", "erase")
    /\ blob' \in {blob, [blob EXCEPT ![req[r].by] = "none"]}
    /\ Goto(r, "clear")
    /\ UNCHANGED <<accounts, row, keyed, disturbed>>

ClearAvatarKey(r) ==
    /\ At(r, "remove", "clear")
    /\ keyed' = keyed \ {req[r].by}
    /\ End(r)
    /\ UNCHANGED <<accounts, row, blob, disturbed>>

-----------------------------------------------------------------------------
(* What is shown                                                           *)

\* What is read before the switches: membership and the read mark, the users a search finds, the row
\* with the avatar_key.
ReadFirst(r) ==
    /\ At(r, "show", "first")
    /\ Becomes(r, [req[r] EXCEPT !.found = req[r].of \in keyed, !.pc = "privacy"])
    /\ UNCHANGED <<accounts, row, keyed, blob, disturbed>>

\* Slip: the switch of who asks.
LetsAsker(q) == Gate[q.kind] \in row[q.by]
Lets(q) == Gate[q.kind] \in row[q.of]

Answers(q) == Lets(q) /\ (q.kind = "photo" => q.found)

\* A search shows whom it cannot ask about; the others end, and so does a photo without a key.
ReadPrivacy(r) ==
    /\ At(r, "show", "privacy")
    /\ \/ Answers(req[r]) /\ Goto(r, "rest")
       \/ ~Answers(req[r]) /\ End(r)
       \/ /\ req[r].kind = "search"
          /\ Becomes(r, [req[r] EXCEPT !.failed = TRUE, !.pc = "rest"])
    /\ UNCHANGED <<accounts, row, keyed, blob, disturbed>>

\* The presence, the mark read before, the name found before; the members of the chat and the event
\* to them; the photo, if there was a key and there is an object.
Show(r) ==
    /\ At(r, "show", "rest")
    /\ End(r)
    /\ UNCHANGED <<accounts, row, keyed, blob, disturbed>>

-----------------------------------------------------------------------------

\* A photo that is half written or half removed stays so.
Cancel(r) ==
    /\ req[r].pc # "idle"
    /\ End(r)
    /\ disturbed' = disturbed \cup {u \in Users : OnPhoto(r, u) /\ req[r].pc \in {"copy", "clear"}}
    /\ UNCHANGED <<accounts, row, keyed, blob>>

\* The rows go; the object stays where it is.
DeleteUser(u) ==
    /\ u \in accounts
    /\ accounts' = accounts \ {u}
    /\ row' = [row EXCEPT ![u] = Switches]
    /\ keyed' = keyed \ {u}
    /\ UNCHANGED <<blob, disturbed, req>>

Init ==
    /\ accounts = Users
    /\ row = [u \in Users |-> Switches]
    /\ keyed = {} /\ blob = [u \in Users |-> "none"] /\ disturbed = {}
    /\ req = [r \in Requests |-> NoRequest]

Serve(r) ==
    \/ ReadRow(r) \/ WriteRow(r)
    \/ CreateObject(r) \/ CopyObject(r) \/ SetAvatarKey(r)
    \/ FindAvatar(r) \/ EraseObject(r) \/ ClearAvatarKey(r)
    \/ ReadFirst(r) \/ ReadPrivacy(r) \/ Show(r)

Next ==
    \/ \E r \in Requests : Begin(r) \/ Serve(r) \/ Cancel(r)
    \/ \E u \in Erasable : DeleteUser(u)

Spec == Init /\ [][Next]_vars

-----------------------------------------------------------------------------

\* PUT /v1/privacy and /v1/users/me read the row in one statement and write all of it in a later one,
\* so an overlapping edit can be undone by one that never named its field.  But for an edit that
\* another of the same row came in between, a field changes only if the edit names it.
OnlyNamedChange ==
    [][\A u \in Users, x \in Fields :
          (x \in row[u]) # (x \in row'[u]) =>
             \/ u \notin accounts'
             \/ \E r \in Requests : /\ At(r, "edit", "write") /\ req[r].by = u /\ req'[r].op = "none"
                                    /\ x \in req[r].named \/ req[r].met]_vars

\* What a request may still show of u to others after it has found the switch on.  A search whose read
\* failed has not found it on, and is excepted.
LetThrough(q, u, x) ==
    q.op = "show" /\ q.of = u /\ Gate[q.kind] = x /\ q.pc = "rest" /\ ~q.failed

Hidden(u, x) == x \notin row[u] /\ \A r \in Requests : ~LetThrough(req[r], u, x)

\* Every place reads its switch in one statement and shows something in a later one.  Once a switch is
\* off and what was let through before is over, nothing more is shown until it is on again.
HiddenStaysHidden ==
    [][\A u \in Users, x \in Switches : Hidden(u, x) /\ x \notin row'[u] => Hidden(u, x)']_vars

\* The column and the object change one after the other, under a key that is the same for every photo
\* of a user: a photo that is said to be there is there and whole, but while it is being edited, or
\* once two edits of it have overlapped or one was cut short.
PhotoIsWhole ==
    \A u \in keyed \ disturbed :
        blob[u] = "whole" \/ \E r \in Requests : OnPhoto(r, u) /\ req[r].pc \in {"copy", "clear"}

=============================================================================
