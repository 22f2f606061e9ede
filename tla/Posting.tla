------------------------------ MODULE Posting ------------------------------
(***************************************************************************)
(* The messages and the attachments of one conversation, on the server:    *)
(* what sendMessage, ForwardMessage, EditMessage, DeleteMessage, React,    *)
(* Pin, Unpin, UploadAttachment, OpenAttachment and DeleteAttachment check *)
(* and write.                                                              *)
(*                                                                         *)
(* A request runs in its own goroutine; each statement of the store and    *)
(* each call of the blob store is a step, and between two steps other      *)
(* requests and the writes of Access run.  A request can end at any step:  *)
(* its context is cancelled or the process stops.  Blobs are files that no *)
(* transaction covers.                                                     *)
(*                                                                         *)
(* Left out, because nothing here depends on them: reply_to_id (a message  *)
(* row is never removed, so its check can only refuse), the id of the      *)
(* message a copy was forwarded from, read marks, and the events that      *)
(* follow a write.  No text is empty, and a new message has any text: what *)
(* an edit changes is told apart.                                          *)
(***************************************************************************)
EXTENDS Access

CONSTANTS
    Messages,       \* ids of messages rows
    Files,          \* ids of attachments rows, and the keys of their blobs
    Texts,          \* message bodies
    Requests,       \* requests under way at one time
    None,           \* no user, message or file
    Marked,         \* bound: the kinds of conversation whose messages are reacted to and pinned
    Operations,     \* bound: the calls a request slot may make
    Callers,        \* bound: the users who make them
    Leavers         \* bound: the users who may delete their account

Ops == {"send", "forward", "edit", "delete", "react", "pin", "unpin", "upload", "open", "remove"}

ASSUME PostingAssumption ==
    /\ None \notin Users \cup Messages \cup Files
    /\ Texts # {} /\ Marked \subseteq Kinds
    /\ Operations \in [Requests -> SUBSET Ops]
    /\ Callers \in [Requests -> SUBSET Users]
    /\ Leavers \subseteq Users

VARIABLES
    msg,            \* messages
    reactions,      \* message_reactions of one emoji
    pins,           \* conversation_pins
    file,           \* attachments: the uploader, None without a row
    blobs,          \* keys of the blob store
    late,           \* history: rows that were committed although their insert reported an error
    req             \* the requests under way

vars == <<kind, accounts, role, silenced, blocked, bots, grant, msg, reactions, pins, file, blobs, late, req>>

Message == [row : BOOLEAN, by : Users \cup {None}, text : Texts, e2e : BOOLEAN,
            file : Files \cup {None}, deleted : BOOLEAN]

Request == [op : Ops \cup {"none"}, by : Users \cup {None}, msg : Messages \cup {None},
            file : Files \cup {None}, text : Texts, e2e : BOOLEAN,
            pc : Checks \cup {"idle", "source", "fetch", "reads", "file", "write", "undo"}]

AnyText == CHOOSE t \in Texts : TRUE
NoMessage == [row |-> FALSE, by |-> None, text |-> AnyText, e2e |-> FALSE, file |-> None,
              deleted |-> FALSE]
NoRequest == [op |-> "none", by |-> None, msg |-> None, file |-> None, text |-> AnyText,
              e2e |-> FALSE, pc |-> "idle"]

Rows == {m \in Messages : msg[m].row}

\* Every variable has its type, and a request under way has a caller and what its call is about.
TypeOK ==
    /\ AccessTypeOK
    /\ msg \in [Messages -> Message]
    /\ reactions \subseteq Messages \X Users
    /\ pins \subseteq Messages
    /\ file \in [Files -> Users \cup {None}]
    /\ blobs \subseteq Files /\ late \subseteq Files
    /\ req \in [Requests -> Request]
    /\ \A r \in Requests : req[r].pc # "idle" =>
          /\ req[r].by # None
          /\ req[r].op \in {"forward", "edit", "delete", "react", "pin", "unpin"} => req[r].msg \in Rows
          /\ req[r].op \in {"open", "remove"} => req[r].file # None
          /\ req[r].op = "upload" /\ req[r].pc \in {"write", "undo"} => req[r].file # None

-----------------------------------------------------------------------------
(* Control of a request                                                    *)

At(r, ops, step) == req[r].op \in ops /\ req[r].pc = step
Becomes(r, q) == req' = [req EXCEPT ![r] = q]
Goto(r, step) == Becomes(r, [req[r] EXCEPT !.pc = step])
\* The request is answered, with success or an error.
End(r) == Becomes(r, NoRequest)

FirstStep(op) ==
    IF op = "forward" THEN "source"
    ELSE IF op \in {"pin", "unpin", "open", "remove"} THEN "fetch"
    ELSE "member"

\* Slip: a restriction is looked at for uploads only.
AfterCheckUnsilenced(q) ==
    IF q.pc = "member"
    THEN IF q.op = "upload" THEN "silence" ELSE IF q.op = "send" THEN "block"
         ELSE IF q.op = "react" THEN "grant" ELSE IF q.op = "open" THEN "reads" ELSE "fetch"
    ELSE IF q.pc \in {"silence", "block"} THEN "grant"
    ELSE IF q.pc = "grant" /\ q.op = "send" THEN "staff"
    ELSE IF q.pc = "staff" /\ q.file # None THEN "file"
    ELSE IF q.op \in {"upload", "react"} THEN "fetch" ELSE "write"

\* What follows a check that has passed.
AfterCheck(q) ==
    IF q.pc = "member"
    THEN IF q.op \in {"send", "upload"} THEN "silence" ELSE IF q.op = "react" THEN "grant"
         ELSE IF q.op = "open" THEN "reads" ELSE "fetch"
    ELSE IF q.pc = "silence" THEN IF q.op = "send" THEN "block" ELSE "grant"
    ELSE IF q.pc = "block" THEN "grant"
    ELSE IF q.pc = "grant" /\ q.op = "send" THEN "staff"
    ELSE IF q.pc = "staff" /\ q.file # None THEN "file"
    ELSE IF q.op \in {"upload", "react"} THEN "fetch" ELSE "write"

Asking(op, u, m, f, t, e) ==
    [op |-> op, by |-> u, msg |-> m, file |-> f, text |-> t, e2e |-> e, pc |-> FirstStep(op)]

\* What a request of each kind names.  A channel refuses an encrypted message and a room an encrypted
\* file, which the request itself shows.
Sensible(op, m, f, t, e) ==
    /\ op \in {"forward", "edit", "delete", "react", "pin", "unpin"} <=> m # None
    /\ op \in {"open", "remove"} => f # None
    /\ op \notin {"open", "remove", "send"} => f = None
    /\ e => op = "send" /\ kind # "channel"
    /\ op # "edit" => t = AnyText
    /\ op \in {"react", "pin", "unpin"} => kind \in Marked

\* A client's request.
Begin(r) ==
    /\ req[r].pc = "idle"
    /\ \E op \in Operations[r], u \in Callers[r] \cap accounts, m \in Rows \cup {None}, f \in Files \cup {None},
          t \in Texts, e \in BOOLEAN :
          /\ Sensible(op, m, f, t, e)
          /\ Becomes(r, Asking(op, u, m, f, t, e))
    /\ UNCHANGED <<access, msg, reactions, pins, file, blobs, late>>

\* requireMember, MemberCanSend, IsBlocked, requireBotCanSend, requireAdmin: one read each.
Check(r) ==
    /\ req[r].pc \in Checks
    /\ IF Barred(req[r].by, req[r].pc) THEN End(r) ELSE Goto(r, AfterCheck(req[r]))
    /\ UNCHANGED <<access, msg, reactions, pins, file, blobs, late>>

-----------------------------------------------------------------------------
(* Messages                                                                *)

\* ForwardMessage: requireMember of the source, here the same conversation, then its row.
\* deleted_at is not looked at.
Forwardable(m) == ~msg[m].e2e /\ msg[m].file = None

CheckSource(r) ==
    /\ At(r, {"forward"}, "source")
    /\ IF Outsider(req[r].by) THEN End(r) ELSE Goto(r, "fetch")
    /\ UNCHANGED <<access, msg, reactions, pins, file, blobs, late>>

\* The copy is sent as a message of its own.
FetchSource(r) ==
    /\ At(r, {"forward"}, "fetch")
    /\ LET m == req[r].msg IN
       IF Forwardable(m)
       THEN Becomes(r, [req[r] EXCEPT !.op = "send", !.msg = None, !.text = msg[m].text,
                                      !.pc = "member"])
       ELSE End(r)
    /\ UNCHANGED <<access, msg, reactions, pins, file, blobs, late>>

\* Slip: any attachment of the conversation will do.
UsableRow(f, u) == file[f] # None
\* GetAttachment: the attachment is the sender's own.
Usable(f, u) == file[f] = u

CheckFile(r) ==
    /\ At(r, {"send"}, "file")
    /\ IF Usable(req[r].file, req[r].by) THEN Goto(r, "write") ELSE End(r)
    /\ UNCHANGED <<access, msg, reactions, pins, file, blobs, late>>

\* The foreign keys of messages: a sender or an attachment that has gone makes the insert fail.
InsertMessage(r) ==
    /\ At(r, {"send"}, "write")
    /\ IF req[r].by \in accounts /\ (req[r].file = None \/ file[req[r].file] # None)
       THEN \E m \in Messages \ Rows :
               msg' = [msg EXCEPT ![m] = [row |-> TRUE, by |-> req[r].by, text |-> req[r].text,
                                          e2e |-> req[r].e2e, file |-> req[r].file,
                                          deleted |-> FALSE]]
       ELSE UNCHANGED msg
    /\ End(r)
    /\ UNCHANGED <<access, reactions, pins, file, blobs, late>>

\* EditMessage's read: its own message, in clear text.
FetchOwn(r) ==
    /\ At(r, {"edit"}, "fetch")
    /\ IF msg[req[r].msg].by = req[r].by /\ ~msg[req[r].msg].e2e THEN Goto(r, "write") ELSE End(r)
    /\ UNCHANGED <<access, msg, reactions, pins, file, blobs, late>>

\* Slip: the update has no condition.
Updatable(m) == msg[m].row
\* WHERE id = ... AND deleted_at IS NULL
Standing(m) == msg[m].row /\ ~msg[m].deleted

UpdateMessageBody(r) ==
    /\ At(r, {"edit"}, "write")
    /\ IF Standing(req[r].msg)
       THEN msg' = [msg EXCEPT ![req[r].msg] = [@ EXCEPT !.text = req[r].text]]
       ELSE UNCHANGED msg
    /\ End(r)
    /\ UNCHANGED <<access, reactions, pins, file, blobs, late>>

\* DeleteMessage's reads: the sender, an admin, or a bot that manages messages.
FetchDeletable(r) ==
    /\ At(r, {"delete"}, "fetch")
    /\ IF \/ msg[req[r].msg].by = req[r].by
          \/ ~NotStaff(req[r].by)
          \/ req[r].by \in Bots /\ "messages" \in grant[req[r].by]
       THEN Goto(r, "write") ELSE End(r)
    /\ UNCHANGED <<access, msg, reactions, pins, file, blobs, late>>

SoftDeleteMessage(r) ==
    /\ At(r, {"delete"}, "write")
    /\ msg' = [msg EXCEPT ![req[r].msg] = [@ EXCEPT !.deleted = TRUE]]
    /\ End(r)
    /\ UNCHANGED <<access, reactions, pins, file, blobs, late>>

\* ToggleReaction: a delete and, when it finds nothing, an insert, which fails on a row that has
\* come in between.
DeleteReaction(r) ==
    /\ At(r, {"react"}, "fetch")
    /\ LET x == <<req[r].msg, req[r].by>> IN
       IF x \in reactions THEN reactions' = reactions \ {x} /\ End(r)
       ELSE UNCHANGED reactions /\ Goto(r, "write")
    /\ UNCHANGED <<access, msg, pins, file, blobs, late>>

InsertReaction(r) ==
    /\ At(r, {"react"}, "write")
    /\ reactions' = IF req[r].by \in accounts THEN reactions \cup {<<req[r].msg, req[r].by>>}
                    ELSE reactions
    /\ End(r)
    /\ UNCHANGED <<access, msg, pins, file, blobs, late>>

\* Pin, Unpin: an admin, or a member of a direct chat.
CheckPinner(r) ==
    /\ At(r, {"pin", "unpin"}, "fetch")
    /\ IF NotStaff(req[r].by) /\ (Outsider(req[r].by) \/ kind # "direct")
       THEN End(r) ELSE Goto(r, "write")
    /\ UNCHANGED <<access, msg, reactions, pins, file, blobs, late>>

PinMessage(r) ==
    /\ At(r, {"pin"}, "write")
    /\ pins' = IF req[r].by \in accounts THEN pins \cup {req[r].msg} ELSE pins
    /\ End(r)
    /\ UNCHANGED <<access, msg, reactions, file, blobs, late>>

UnpinMessage(r) ==
    /\ At(r, {"unpin"}, "write")
    /\ pins' = pins \ {req[r].msg}
    /\ End(r)
    /\ UNCHANGED <<access, msg, reactions, file, blobs, late>>

-----------------------------------------------------------------------------
(* Attachments                                                             *)

\* blobs.Put under a key of its own, before there is a row.
PutBlob(r) ==
    /\ At(r, {"upload"}, "fetch")
    /\ \E f \in Files \ blobs :
          /\ file[f] = None
          /\ \A o \in Requests : req[o].file # f
          /\ blobs' = blobs \cup {f}
          /\ Becomes(r, [req[r] EXCEPT !.file = f, !.pc = "write"])
    /\ UNCHANGED <<access, msg, reactions, pins, file, late>>

\* Slip: the blob is cleaned up whether the insert succeeds or fails.
InsertThenClean(r) ==
    /\ At(r, {"upload"}, "write")
    /\ file' = IF req[r].by \in accounts THEN [file EXCEPT ![req[r].file] = req[r].by] ELSE file
    /\ Goto(r, "undo")
    /\ UNCHANGED <<access, msg, reactions, pins, blobs, late>>

InsertAttachment(r) ==
    /\ At(r, {"upload"}, "write")
    /\ IF req[r].by \in accounts
       THEN file' = [file EXCEPT ![req[r].file] = req[r].by] /\ End(r)
       ELSE UNCHANGED file /\ Goto(r, "undo")
    /\ UNCHANGED <<access, msg, reactions, pins, blobs, late>>

\* The insert is answered with an error, and may have been committed all the same.
InsertFails(r) ==
    /\ At(r, {"upload"}, "write")
    /\ \/ UNCHANGED <<file, late>>
       \/ /\ req[r].by \in accounts
          /\ file' = [file EXCEPT ![req[r].file] = req[r].by]
          /\ late' = late \cup {req[r].file}
    /\ Goto(r, "undo")
    /\ UNCHANGED <<access, msg, reactions, pins, blobs>>

\* OpenAttachment: the row, requireReadable, then the blob.
FetchRow(r) ==
    /\ At(r, {"open"}, "fetch")
    /\ IF file[req[r].file] # None THEN Goto(r, "member") ELSE End(r)
    /\ UNCHANGED <<access, msg, reactions, pins, file, blobs, late>>

CheckReads(r) ==
    /\ At(r, {"open"}, "reads")
    /\ IF Ungranted(req[r].by, "read") THEN End(r) ELSE Goto(r, "write")
    /\ UNCHANGED <<access, msg, reactions, pins, file, blobs, late>>

\* A blob that has gone since the row was read is answered as not found.
OpenBlob(r) ==
    /\ At(r, {"open"}, "write")
    /\ End(r)
    /\ UNCHANGED <<access, msg, reactions, pins, file, blobs, late>>

FetchRemovable(r) ==
    /\ At(r, {"remove"}, "fetch")
    /\ LET owner == file[req[r].file] IN
       IF \/ owner = None
          \/ owner = req[r].by /\ Outsider(req[r].by)
          \/ owner # req[r].by /\ NotStaff(req[r].by)
       THEN End(r) ELSE Goto(r, "write")
    /\ UNCHANGED <<access, msg, reactions, pins, file, blobs, late>>

\* The foreign keys of messages are set to null with the row.
WithoutFiles(fs) == [m \in Messages |-> IF msg[m].file \in fs THEN [msg[m] EXCEPT !.file = None]
                                        ELSE msg[m]]

DeleteRow(r) ==
    /\ At(r, {"remove"}, "write")
    /\ IF file[req[r].file] # None
       THEN /\ file' = [file EXCEPT ![req[r].file] = None] /\ late' = late \ {req[r].file}
            /\ msg' = WithoutFiles({req[r].file})
            /\ Goto(r, "undo")
       ELSE UNCHANGED <<file, late, msg>> /\ End(r)
    /\ UNCHANGED <<access, reactions, pins, blobs>>

\* blobs.Delete, after DeleteAttachment's row or a failed insert.
DeleteBlob(r) ==
    /\ At(r, {"upload", "remove"}, "undo")
    /\ blobs' = blobs \ {req[r].file}
    /\ End(r)
    /\ UNCHANGED <<access, msg, reactions, pins, file, late>>

-----------------------------------------------------------------------------

Cancel(r) ==
    /\ req[r].pc # "idle"
    /\ End(r)
    /\ UNCHANGED <<access, msg, reactions, pins, file, blobs, late>>

\* DeleteUserAndSessions: messages stay without a sender, the rest of the user's rows cascade; the
\* blobs of its attachments stay.
DeleteAccount(u) ==
    /\ u \in Leavers
    /\ DeleteUser(u)
    /\ LET gone == {f \in Files : file[f] = u} IN
       /\ file' = [f \in Files |-> IF f \in gone THEN None ELSE file[f]] /\ late' = late \ gone
       /\ msg' = [m \in Messages |->
                    [WithoutFiles(gone)[m] EXCEPT !.by = IF @ = u THEN None ELSE @]]
    /\ reactions' = {x \in reactions : x[2] # u}
    /\ pins' \in SUBSET pins        \* pinned_by is not kept here: any of them may be the user's
    /\ UNCHANGED <<blobs, req>>

\* The writes of requests of other components.
Elsewhere == Rewrite /\ UNCHANGED <<msg, reactions, pins, file, blobs, late, req>>

Init ==
    /\ AccessInit
    /\ msg = [m \in Messages |-> NoMessage]
    /\ reactions = {} /\ pins = {} /\ blobs = {} /\ late = {}
    /\ file = [f \in Files |-> None]
    /\ req = [r \in Requests |-> NoRequest]

Step(r) ==
    \/ Check(r)
    \/ CheckSource(r) \/ FetchSource(r) \/ CheckFile(r) \/ InsertMessage(r)
    \/ FetchOwn(r) \/ UpdateMessageBody(r) \/ FetchDeletable(r) \/ SoftDeleteMessage(r)
    \/ DeleteReaction(r) \/ InsertReaction(r) \/ CheckPinner(r) \/ PinMessage(r) \/ UnpinMessage(r)
    \/ PutBlob(r) \/ InsertAttachment(r) \/ InsertFails(r)
    \/ FetchRow(r) \/ CheckReads(r) \/ OpenBlob(r)
    \/ FetchRemovable(r) \/ DeleteRow(r) \/ DeleteBlob(r)

Next ==
    \/ \E r \in Requests : Begin(r) \/ Step(r) \/ Cancel(r)
    \/ \E u \in Users : DeleteAccount(u)
    \/ Elsewhere

Spec == Init /\ [][Next]_vars

-----------------------------------------------------------------------------

\* The calls that look at a check.
Guarded(check) ==
    {"send", "forward"} \cup (IF check \in {"member", "silence", "grant"} THEN {"upload"} ELSE {})
                        \cup (IF check \in {"member", "grant"} THEN {"react"} ELSE {})

Rank == [c \in Checks |-> IF c = "member" THEN 1 ELSE IF c = "silence" THEN 2
                          ELSE IF c = "block" THEN 3 ELSE IF c = "grant" THEN 4 ELSE 5]

\* The request q has still to look at the check.
Ahead(q, check) ==
    q.op = "forward" \/ (q.pc \in Checks /\ Rank[q.pc] <= Rank[check])

\* The check fails for u, and no request of u has passed it.
Shut(u, check) ==
    /\ Barred(u, check)
    /\ \A r \in Requests : req[r].by = u /\ req[r].op \in Guarded(check) => Ahead(req[r], check)

\* What the conversation holds of u, of the kinds the check guards.
Said(u, check) ==
    {<<"send", m>> : m \in {x \in Rows : msg[x].by = u}}
    \cup IF "upload" \in Guarded(check) THEN {<<"upload", f>> : f \in {x \in Files : file[x] = u}} ELSE {}
    \cup IF "react" \in Guarded(check) THEN {x \in reactions : x[2] = u} ELSE {}

\* The checks of sendMessage, UploadAttachment and React are reads that the write does not repeat:
\* once a user is removed, silenced, blocked, without a grant or off the staff, and the requests that
\* had passed that check are over, the conversation gains nothing from the user until it is let in.
BarredSaysNothing ==
    [][\A u \in Users, check \in Checks :
          Shut(u, check) /\ Barred(u, check)' => Shut(u, check)' /\ Said(u, check)' \subseteq Said(u, check)]_vars

\* EditMessage reads the message, and a deletion can come before its write: a deleted message stays
\* deleted and its text stays what it was.
DeletedStaysDeleted ==
    [][\A m \in Messages : msg[m].deleted => msg[m]'.deleted /\ msg[m]'.text = msg[m].text]_vars

\* CheckFile reads an attachment that another request may remove before the message is inserted: a
\* message with an attachment names a row, which its sender has uploaded.
FilesAreTheSenders == \A m \in Rows : msg[m].file # None => file[msg[m].file] = msg[m].by

\* Put comes before the insert and Delete after the row has gone, so whatever request stops or
\* overlaps, the row of an attachment has its blob.  One case is excepted: an insert that is committed
\* and all the same answered with an error, as when the request's context ends while it runs; the
\* blob of such a row is deleted under it.
RowHasBlob == \A f \in Files : file[f] # None => f \in blobs \cup late

=============================================================================
