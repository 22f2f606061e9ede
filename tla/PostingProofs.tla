---------------------------- MODULE PostingProofs ----------------------------
(***************************************************************************)
(* What holds of the messages and attachments for any users, messages,     *)
(* files and requests: TypeOK, that attachments are the senders' own, that *)
(* a row has its blob, that a deleted message stays deleted, and that a    *)
(* user who is shut out says nothing more.                                 *)
(***************************************************************************)
EXTENDS Posting, TLAPS

-----------------------------------------------------------------------------
(* Types                                                                   *)

\* The parts of TypeOK: a request, all requests, and the rest.
RequestOK(q) ==
    /\ q \in Request
    /\ q.pc # "idle" =>
          /\ q.by # None
          /\ q.op \in {"forward", "edit", "delete", "react", "pin", "unpin"} => q.msg \in Rows
          /\ q.op \in {"open", "remove"} => q.file # None
          /\ q.op = "upload" /\ q.pc \in {"write", "undo"} => q.file # None
RequestsOK == req \in [Requests -> Request] /\ \A r \in Requests : RequestOK(req[r])
DataOK ==
    /\ AccessTypeOK
    /\ msg \in [Messages -> Message]
    /\ reactions \subseteq Messages \X Users
    /\ pins \subseteq Messages
    /\ file \in [Files -> Users \cup {None}]
    /\ blobs \subseteq Files /\ late \subseteq Files

LEMMA TypeParts == TypeOK <=> RequestsOK /\ DataOK
BY DEF TypeOK, RequestsOK, RequestOK, DataOK

LEMMA NextParts == RequestsOK' /\ DataOK' => TypeOK'
BY DEF TypeOK, RequestsOK, RequestOK, DataOK

LEMMA AnyTextIsText == AnyText \in Texts
BY PostingAssumption DEF AnyText

LEMMA NoRequestOK == RequestOK(NoRequest)
BY AnyTextIsText DEF RequestOK, NoRequest, Request, Ops, Checks

\* No row of messages is ever removed.
LEMMA BecomesOK ==
    ASSUME RequestsOK, Rows \subseteq Rows', NEW r \in Requests, NEW q, RequestOK(q), Becomes(r, q)
    PROVE  RequestsOK'
<1>1. ASSUME NEW p, RequestOK(p) PROVE RequestOK(p)'
  BY <1>1 DEF RequestOK, Request
<1>2. req' \in [Requests -> Request]
  BY DEF RequestsOK, RequestOK, Becomes
<1>3. \A s \in Requests : RequestOK(req'[s])
  BY DEF RequestsOK, RequestOK, Becomes
<1>4. ASSUME NEW s \in Requests PROVE RequestOK(req[s])'
  <2>1. RequestOK(req'[s])
    BY <1>3
  <2> QED BY <2>1 DEF RequestOK
<1> QED BY <1>2, <1>4 DEF RequestsOK

LEMMA SameRequests ==
    ASSUME RequestsOK, Rows \subseteq Rows', req' = req
    PROVE  RequestsOK'
<1>1. ASSUME NEW s \in Requests PROVE RequestOK(req[s])'
  <2>1. RequestOK(req[s])
    BY DEF RequestsOK
  <2> QED BY <2>1 DEF RequestOK
<1> QED BY <1>1 DEF RequestsOK

LEMMA EndOK ==
    ASSUME RequestsOK, Rows \subseteq Rows', NEW r \in Requests, End(r)
    PROVE  RequestsOK'
BY NoRequestOK, BecomesOK DEF End

\* What a request may become: an upload has its key before it writes.
LEMMA GotoOK ==
    ASSUME RequestsOK, Rows \subseteq Rows', NEW r \in Requests, req[r].pc # "idle",
           NEW step \in Checks \cup {"source", "fetch", "reads", "file", "write", "undo"},
           req[r].op = "upload" /\ step \in {"write", "undo"} => req[r].file # None,
           Goto(r, step)
    PROVE  RequestsOK'
<1>1. RequestOK(req[r])
  BY DEF RequestsOK
<1>2. RequestOK([req[r] EXCEPT !.pc = step])
  BY <1>1 DEF RequestOK, Request
<1> QED BY <1>2, BecomesOK DEF Goto

LEMMA AfterCheckOK ==
    ASSUME NEW q
    PROVE  /\ AfterCheck(q) \in Checks \cup {"source", "fetch", "reads", "file", "write", "undo"}
           /\ q.op = "upload" => AfterCheck(q) \notin {"write", "undo"}
BY DEF AfterCheck, Checks

\* A step that only reads and answers, or goes on.
Reads == UNCHANGED <<access, msg, reactions, pins, file, blobs, late>>

LEMMA ReadsOK ==
    ASSUME RequestsOK, DataOK, Reads
    PROVE  DataOK' /\ Rows \subseteq Rows'
BY DEF DataOK, Reads, AccessTypeOK, access, Rows

LEMMA BeginOK ==
    ASSUME RequestsOK, DataOK, NEW r \in Requests, Begin(r)
    PROVE  \E q : RequestOK(q) /\ Becomes(r, q) /\ q.pc \in {"member", "source", "fetch"} /\ Reads
                  /\ (q.op \in {"send", "upload", "react"} => q.pc = "member")
                  /\ (q.op = "upload" => q.file = None)
<1>1. PICK op \in Operations[r], u \in Callers[r] \cap accounts, m \in Rows \cup {None}, f \in Files \cup {None},
           t \in Texts, e \in BOOLEAN : Sensible(op, m, f, t, e) /\ Becomes(r, Asking(op, u, m, f, t, e))
  BY DEF Begin
<1>a. /\ op \in {"forward", "edit", "delete", "react", "pin", "unpin"} <=> m # None
      /\ op \in {"open", "remove"} => f # None
      /\ op \notin {"open", "remove", "send"} => f = None
  BY <1>1 DEF Sensible
<1> DEFINE q == Asking(op, u, m, f, t, e)
<1>2. op \in Ops /\ u \in Users /\ u # None
  BY PostingAssumption
<1>3. FirstStep(op) \in {"member", "source", "fetch"} /\ (op \in {"send", "upload", "react"} => FirstStep(op) = "member")
  BY DEF FirstStep
<1>4. m \in Messages \cup {None} /\ (m # None => m \in Rows)
  BY DEF Rows
<1>5. q = [op |-> op, by |-> u, msg |-> m, file |-> f, text |-> t, e2e |-> e, pc |-> FirstStep(op)]
  BY DEF Asking
<1>6. q \in Request
  BY <1>2, <1>3, <1>4, <1>5 DEF Request, Checks
<1>7. RequestOK(q)
  BY <1>a, <1>2, <1>3, <1>4, <1>5, <1>6 DEF RequestOK
<1>8. q.pc = FirstStep(op) /\ q.op = op /\ q.file = f
  BY <1>5
<1>9. Becomes(r, q) /\ Reads
  BY <1>1 DEF Begin, Reads
<1> HIDE DEF q
<1> QED BY <1>a, <1>3, <1>7, <1>8, <1>9

\* The steps of a request that only read.
LEMMA ReadingOK ==
    ASSUME RequestsOK, DataOK, NEW r \in Requests,
           \/ Check(r) \/ CheckSource(r) \/ FetchSource(r) \/ CheckFile(r) \/ FetchOwn(r)
           \/ FetchDeletable(r) \/ CheckPinner(r) \/ FetchRow(r) \/ CheckReads(r) \/ OpenBlob(r)
           \/ FetchRemovable(r)
    PROVE  RequestsOK' /\ DataOK' /\ Reads
<1>0. RequestOK(req[r]) /\ req[r] \in Request
  BY DEF RequestsOK, RequestOK
<1>1. Reads
  BY DEF Check, CheckSource, FetchSource, CheckFile, FetchOwn, FetchDeletable, CheckPinner, FetchRow, CheckReads,
         OpenBlob, FetchRemovable, Reads
<1>2. DataOK' /\ Rows \subseteq Rows'
  BY <1>1, ReadsOK
<1>3. CASE Check(r)
  <2>1. req[r].pc # "idle"
    BY <1>3 DEF Check, Checks
  <2> QED BY <1>1, <1>2, <1>3, <2>1, EndOK, GotoOK, AfterCheckOK DEF Check
<1>4. CASE FetchSource(r)
  <2>1. req[r].msg \in Messages /\ req[r].by # None
    BY <1>0, <1>4 DEF FetchSource, At, RequestOK, Rows
  <2>2. msg[req[r].msg].text \in Texts
    BY <2>1 DEF DataOK, Message
  <2>3. RequestOK([req[r] EXCEPT !.op = "send", !.msg = None, !.text = msg[req[r].msg].text, !.pc = "member"])
    BY <1>0, <2>1, <2>2 DEF RequestOK, Request, Ops, Checks
  <2> QED BY <1>1, <1>2, <1>4, <2>3, EndOK, BecomesOK DEF FetchSource
<1>5. CASE ~Check(r) /\ ~FetchSource(r)
  <2>1. req[r].pc # "idle" /\ req[r].op # "upload"
    BY <1>5 DEF CheckSource, CheckFile, FetchOwn, FetchDeletable, CheckPinner, FetchRow, CheckReads,
                OpenBlob, FetchRemovable, At
  <2>2. End(r) \/ Goto(r, "fetch") \/ Goto(r, "write") \/ Goto(r, "member")
    BY <1>5 DEF CheckSource, CheckFile, FetchOwn, FetchDeletable, CheckPinner, FetchRow, CheckReads,
                OpenBlob, FetchRemovable
  <2> QED BY <1>1, <1>2, <2>1, <2>2, EndOK, GotoOK DEF Checks
<1> QED BY <1>3, <1>4, <1>5

LEMMA InsertMessageOK ==
    ASSUME RequestsOK, DataOK, NEW r \in Requests, InsertMessage(r)
    PROVE  RequestsOK' /\ DataOK'
<1>0. RequestOK(req[r]) /\ req[r] \in Request
  BY DEF RequestsOK, RequestOK
<1>1. CASE UNCHANGED msg
  BY <1>1, EndOK DEF InsertMessage, DataOK, AccessTypeOK, access, Rows
<1>2. CASE ~UNCHANGED msg
  <2>1. PICK m \in Messages \ Rows :
           msg' = [msg EXCEPT ![m] = [row |-> TRUE, by |-> req[r].by, text |-> req[r].text, e2e |-> req[r].e2e,
                                      file |-> req[r].file, deleted |-> FALSE]]
    BY <1>2 DEF InsertMessage
  <2> DEFINE x == [row |-> TRUE, by |-> req[r].by, text |-> req[r].text, e2e |-> req[r].e2e,
                   file |-> req[r].file, deleted |-> FALSE]
  <2>2. x \in Message /\ x.row
    BY <1>0 DEF Request, Message
  <2>3. msg' = [msg EXCEPT ![m] = x]
    BY <2>1
  <2> HIDE DEF x
  <2>4. msg' \in [Messages -> Message] /\ Rows \subseteq Rows'
    BY <2>2, <2>3 DEF DataOK, Rows
  <2>5. DataOK'
    BY <2>4 DEF InsertMessage, DataOK, AccessTypeOK, access
  <2> QED BY <2>4, <2>5, EndOK DEF InsertMessage
<1> QED BY <1>1, <1>2

LEMMA UpdateMessageBodyOK ==
    ASSUME RequestsOK, DataOK, NEW r \in Requests, UpdateMessageBody(r)
    PROVE  RequestsOK' /\ DataOK'
<1>0. req[r].text \in Texts
  BY DEF RequestsOK, RequestOK, Request
<1>1. msg' \in [Messages -> Message] /\ Rows \subseteq Rows'
  BY <1>0 DEF UpdateMessageBody, DataOK, Message, Rows
<1> QED BY <1>1, EndOK DEF UpdateMessageBody, DataOK, AccessTypeOK, access

LEMMA SoftDeleteMessageOK ==
    ASSUME RequestsOK, DataOK, NEW r \in Requests, SoftDeleteMessage(r)
    PROVE  RequestsOK' /\ DataOK'
<1>1. msg' \in [Messages -> Message] /\ Rows \subseteq Rows'
  BY DEF SoftDeleteMessage, DataOK, Message, Rows
<1> QED BY <1>1, EndOK DEF SoftDeleteMessage, DataOK, AccessTypeOK, access

LEMMA ReactionOK ==
    ASSUME RequestsOK, DataOK, NEW r \in Requests, DeleteReaction(r) \/ InsertReaction(r)
    PROVE  RequestsOK' /\ DataOK'
<1>0. /\ req[r].pc # "idle" /\ req[r].op = "react"
      /\ req[r].msg \in Messages /\ req[r].by \in Users
  BY DEF RequestsOK, RequestOK, Request, Rows, DeleteReaction, InsertReaction, At
<1>1. Rows \subseteq Rows' /\ reactions' \subseteq Messages \X Users
  BY <1>0 DEF DeleteReaction, InsertReaction, DataOK, Rows
<1>2. RequestsOK'
  BY <1>0, <1>1, EndOK, GotoOK DEF DeleteReaction, InsertReaction
<1> QED BY <1>1, <1>2 DEF DeleteReaction, InsertReaction, DataOK, AccessTypeOK, access

LEMMA PinOK ==
    ASSUME RequestsOK, DataOK, NEW r \in Requests, PinMessage(r) \/ UnpinMessage(r)
    PROVE  RequestsOK' /\ DataOK'
<1>0. req[r].pc # "idle" /\ req[r].msg \in Messages
  BY DEF RequestsOK, RequestOK, Request, Rows, PinMessage, UnpinMessage, At
<1>1. Rows \subseteq Rows' /\ pins' \subseteq Messages
  BY <1>0 DEF PinMessage, UnpinMessage, DataOK, Rows
<1>2. RequestsOK'
  BY <1>1, EndOK DEF PinMessage, UnpinMessage
<1> QED BY <1>1, <1>2 DEF PinMessage, UnpinMessage, DataOK, AccessTypeOK, access

LEMMA PutBlobOK ==
    ASSUME RequestsOK, DataOK, NEW r \in Requests, PutBlob(r)
    PROVE  RequestsOK' /\ DataOK'
<1>0. RequestOK(req[r]) /\ req[r] \in Request /\ Rows \subseteq Rows'
  BY DEF RequestsOK, RequestOK, PutBlob, Rows
<1>1. PICK f \in Files \ blobs : blobs' = blobs \cup {f} /\ Becomes(r, [req[r] EXCEPT !.file = f, !.pc = "write"])
  BY DEF PutBlob
<1>2. RequestOK([req[r] EXCEPT !.file = f, !.pc = "write"])
  <2>1. f # None /\ req[r].op = "upload" /\ req[r].pc # "idle"
    BY PostingAssumption DEF PutBlob, At
  <2> QED BY <1>0, <2>1 DEF RequestOK, Request
<1>3. RequestsOK'
  BY <1>0, <1>1, <1>2, BecomesOK
<1> QED BY <1>1, <1>3 DEF PutBlob, DataOK, AccessTypeOK, access

LEMMA UploadOK ==
    ASSUME RequestsOK, DataOK, NEW r \in Requests, InsertAttachment(r) \/ InsertFails(r)
    PROVE  RequestsOK' /\ DataOK'
<1>0. /\ req[r].pc # "idle" /\ req[r].file \in Files /\ req[r].by \in Users
      /\ Rows \subseteq Rows'
  BY DEF RequestsOK, RequestOK, Request, InsertAttachment, InsertFails, At, Rows
<1>a. None \notin Files
  BY PostingAssumption
<1>1. file' \in [Files -> Users \cup {None}] /\ late' \subseteq Files
  BY <1>0 DEF InsertAttachment, InsertFails, DataOK
<1>2. RequestsOK'
  BY <1>0, <1>a, EndOK, GotoOK DEF InsertAttachment, InsertFails
<1> QED BY <1>1, <1>2 DEF InsertAttachment, InsertFails, DataOK, AccessTypeOK, access

LEMMA WithoutFilesType ==
    ASSUME DataOK, NEW fs
    PROVE  /\ WithoutFiles(fs) \in [Messages -> Message]
           /\ \A m \in Messages : /\ WithoutFiles(fs)[m].row = msg[m].row
                                  /\ WithoutFiles(fs)[m].deleted = msg[m].deleted
                                  /\ WithoutFiles(fs)[m].text = msg[m].text
                                  /\ WithoutFiles(fs)[m].by = msg[m].by
                                  /\ WithoutFiles(fs)[m].file = IF msg[m].file \in fs THEN None ELSE msg[m].file
<1>1. ASSUME NEW m \in Messages
      PROVE  /\ msg[m] \in Message /\ [msg[m] EXCEPT !.file = None] \in Message
             /\ WithoutFiles(fs)[m] = IF msg[m].file \in fs THEN [msg[m] EXCEPT !.file = None] ELSE msg[m]
  BY DEF DataOK, Message, WithoutFiles
<1>2. WithoutFiles(fs) \in [Messages -> Message]
  BY <1>1 DEF WithoutFiles
<1> QED BY <1>1, <1>2 DEF Message

LEMMA RemoveOK ==
    ASSUME RequestsOK, DataOK, NEW r \in Requests, DeleteRow(r) \/ DeleteBlob(r)
    PROVE  RequestsOK' /\ DataOK'
<1>0. req[r].pc # "idle" /\ req[r].op \in {"upload", "remove"} /\ (req[r].op = "upload" => DeleteBlob(r))
  BY DEF DeleteRow, DeleteBlob, At
<1>1. msg' \in [Messages -> Message] /\ Rows \subseteq Rows'
  BY WithoutFilesType DEF DeleteRow, DeleteBlob, DataOK, Rows
<1>2. file' \in [Files -> Users \cup {None}] /\ blobs' \subseteq Files
  BY DEF DeleteRow, DeleteBlob, DataOK
<1>3. RequestsOK'
  <2>1. CASE DeleteRow(r)
    BY <1>0, <1>1, <2>1, EndOK, GotoOK DEF DeleteRow, At
  <2>2. CASE DeleteBlob(r)
    BY <1>1, <2>2, EndOK DEF DeleteBlob
  <2> QED BY <2>1, <2>2
<1> QED BY <1>1, <1>2, <1>3 DEF DeleteRow, DeleteBlob, DataOK, AccessTypeOK, access

LEMMA AccessTypeInit == AccessInit => AccessTypeOK
BY AccessAssumption DEF AccessInit, AccessTypeOK, Roles

LEMMA AccessTypeNext ==
    ASSUME AccessTypeOK, Rewrite \/ \E u \in Users : DeleteUser(u)
    PROVE  AccessTypeOK'
<1>1. ASSUME NEW u \in Users, SetMember(u) PROVE AccessTypeOK'
  BY <1>1 DEF AccessTypeOK, SetMember
<1>2. ASSUME NEW u \in Users, SetMemberRestriction(u) PROVE AccessTypeOK'
  BY <1>2 DEF AccessTypeOK, SetMemberRestriction
<1>3. CASE SetBlock
  BY <1>3 DEF AccessTypeOK, SetBlock
<1>4. ASSUME NEW u \in Users, UpsertBotGrant(u) PROVE AccessTypeOK'
  BY <1>4, AccessAssumption DEF AccessTypeOK, UpsertBotGrant
<1>5. ASSUME NEW u \in Users, DeleteBot(u) PROVE AccessTypeOK'
  BY <1>5 DEF AccessTypeOK, DeleteBot
<1>6. ASSUME NEW u \in Users, DeleteUser(u) PROVE AccessTypeOK'
  BY <1>6 DEF AccessTypeOK, DeleteUser, Roles
<1> QED BY <1>1, <1>2, <1>3, <1>4, <1>5, <1>6, AccessAssumption DEF Rewrite

LEMMA DeleteAccountOK ==
    ASSUME RequestsOK, DataOK, NEW u \in Users, DeleteAccount(u)
    PROVE  RequestsOK' /\ DataOK'
<1> DEFINE gone == {f \in Files : file[f] = u}
           w == WithoutFiles(gone)
<1>1. w \in [Messages -> Message] /\ \A m \in Messages : w[m].row = msg[m].row
  BY WithoutFilesType
<1>2. msg' = [m \in Messages |-> [w[m] EXCEPT !.by = IF @ = u THEN None ELSE @]]
  BY DEF DeleteAccount
<1>3. file' = [f \in Files |-> IF f \in gone THEN None ELSE file[f]]
  BY DEF DeleteAccount
<1> HIDE DEF w, gone
<1>4. msg' \in [Messages -> Message] /\ Rows \subseteq Rows'
  <2>1. ASSUME NEW m \in Messages
        PROVE  /\ [w[m] EXCEPT !.by = IF @ = u THEN None ELSE @] \in Message
               /\ [w[m] EXCEPT !.by = IF @ = u THEN None ELSE @].row = msg[m].row
    BY <1>1 DEF Message
  <2> QED BY <1>2, <2>1 DEF Rows
<1>5. file' \in [Files -> Users \cup {None}]
  BY <1>3 DEF DataOK
<1>6. reactions' \subseteq reactions /\ pins' \subseteq pins
  BY DEF DeleteAccount
<1>7. AccessTypeOK'
  BY AccessTypeNext DEF DataOK, DeleteAccount
<1>8. DataOK'
  BY <1>4, <1>5, <1>6, <1>7 DEF DeleteAccount, DataOK
<1> QED BY <1>4, <1>8, SameRequests DEF DeleteAccount

LEMMA NextType == TypeOK /\ [Next]_vars => TypeOK'
<1> SUFFICES ASSUME TypeOK, [Next]_vars PROVE TypeOK'
  OBVIOUS
<1>0. RequestsOK /\ DataOK
  BY TypeParts
<1>1. ASSUME NEW r \in Requests, Begin(r) PROVE TypeOK'
  <2>1. PICK q : RequestOK(q) /\ Becomes(r, q) /\ Reads
    BY <1>0, <1>1, BeginOK
  <2> QED BY <1>0, <2>1, ReadsOK, BecomesOK, NextParts
<1>2. ASSUME NEW r \in Requests, Step(r) PROVE TypeOK'
  BY <1>0, <1>2, NextParts, ReadingOK, InsertMessageOK, UpdateMessageBodyOK, SoftDeleteMessageOK, ReactionOK, PinOK,
     PutBlobOK, UploadOK, RemoveOK DEF Step
<1>3. ASSUME NEW r \in Requests, Cancel(r) PROVE TypeOK'
  <2>1. Reads
    BY <1>3 DEF Cancel, Reads
  <2> QED BY <1>0, <1>3, <2>1, ReadsOK, EndOK, NextParts DEF Cancel
<1>4. ASSUME NEW u \in Users, DeleteAccount(u) PROVE TypeOK'
  BY <1>0, <1>4, DeleteAccountOK, NextParts
<1>5. CASE Elsewhere
  <2>1. AccessTypeOK' /\ Rows \subseteq Rows'
    BY <1>0, <1>5, AccessTypeNext DEF Elsewhere, DataOK, Rows
  <2>2. DataOK'
    BY <1>0, <1>5, <2>1 DEF Elsewhere, DataOK
  <2> QED BY <1>0, <1>5, <2>1, <2>2, SameRequests, NextParts DEF Elsewhere
<1>6. CASE UNCHANGED vars
  <2>1. Reads
    BY <1>6 DEF vars, Reads, access
  <2> QED BY <1>0, <1>6, <2>1, ReadsOK, SameRequests, NextParts DEF vars
<1> QED BY <1>1, <1>2, <1>3, <1>4, <1>5, <1>6 DEF Next

LEMMA InitType == Init => TypeOK
<1> SUFFICES ASSUME Init PROVE TypeOK
  OBVIOUS
<1>1. RequestsOK
  BY NoRequestOK DEF Init, RequestsOK, RequestOK
<1>2. NoMessage \in Message
  BY AnyTextIsText DEF NoMessage, Message
<1> QED BY <1>1, <1>2, TypeParts, AccessTypeInit DEF Init, DataOK

\* Rows, files and requests keep their types, and a request that is about a message or a file names
\* one (TypeOK).
THEOREM TypeCorrect == Spec => []TypeOK
BY InitType, NextType, PTL DEF Spec

-----------------------------------------------------------------------------
(* Deleted messages                                                        *)

\* Only rows are deleted, so a new row is not.
DeletedRows == \A m \in Messages : msg[m].deleted => msg[m].row

\* What a step may do to one message.
LEMMA MessageSteps ==
    ASSUME TypeOK, [Next]_vars, NEW m \in Messages
    PROVE  \/ msg'[m] = msg[m]
           \/ ~msg[m].row /\ ~msg'[m].deleted
           \/ Standing(m) /\ msg'[m].row /\ ~msg'[m].deleted
           \/ msg[m].row /\ msg'[m].row /\ msg'[m].deleted /\ msg'[m].text = msg[m].text
           \/ msg'[m].row = msg[m].row /\ msg'[m].deleted = msg[m].deleted /\ msg'[m].text = msg[m].text
<1>0. RequestsOK /\ DataOK /\ msg \in [Messages -> Message]
  BY TypeParts DEF DataOK
<1>1. ASSUME NEW r \in Requests, InsertMessage(r)
      PROVE  msg'[m] = msg[m] \/ (~msg[m].row /\ ~msg'[m].deleted)
  BY <1>0, <1>1 DEF InsertMessage, Rows
<1>2. ASSUME NEW r \in Requests, UpdateMessageBody(r)
      PROVE  msg'[m] = msg[m] \/ (Standing(m) /\ msg'[m].row /\ ~msg'[m].deleted)
  <2>1. CASE UNCHANGED msg
    BY <2>1
  <2>2. CASE Standing(req[r].msg) /\ msg' = [msg EXCEPT ![req[r].msg] = [@ EXCEPT !.text = req[r].text]]
    BY <1>0, <2>2 DEF Standing, Message
  <2> QED BY <1>2, <2>1, <2>2 DEF UpdateMessageBody
<1>3. ASSUME NEW r \in Requests, SoftDeleteMessage(r)
      PROVE  \/ msg'[m] = msg[m]
             \/ msg[m].row /\ msg'[m].row /\ msg'[m].deleted /\ msg'[m].text = msg[m].text
  <2>1. req[r].msg \in Rows /\ msg' = [msg EXCEPT ![req[r].msg] = [@ EXCEPT !.deleted = TRUE]]
    BY <1>0, <1>3 DEF SoftDeleteMessage, At, RequestsOK, RequestOK
  <2> QED BY <1>0, <2>1 DEF Message, Rows
<1>4. ASSUME NEW r \in Requests, DeleteRow(r)
      PROVE  msg'[m].row = msg[m].row /\ msg'[m].deleted = msg[m].deleted /\ msg'[m].text = msg[m].text
  BY <1>0, <1>4, WithoutFilesType DEF DeleteRow
<1>5. ASSUME NEW u \in Users, DeleteAccount(u)
      PROVE  msg'[m].row = msg[m].row /\ msg'[m].deleted = msg[m].deleted /\ msg'[m].text = msg[m].text
  <2> DEFINE w == WithoutFiles({f \in Files : file[f] = u})
  <2>1. w \in [Messages -> Message] /\ w[m].row = msg[m].row /\ w[m].deleted = msg[m].deleted /\ w[m].text = msg[m].text
    BY <1>0, WithoutFilesType
  <2>2. msg' = [x \in Messages |-> [w[x] EXCEPT !.by = IF @ = u THEN None ELSE @]]
    BY <1>5 DEF DeleteAccount
  <2> HIDE DEF w
  <2> QED BY <2>1, <2>2 DEF Message
<1>6. ASSUME NEW r \in Requests, Begin(r) \/ Cancel(r) PROVE msg'[m] = msg[m]
  BY <1>6 DEF Begin, Cancel
<1>7. ASSUME NEW r \in Requests, Step(r), ~InsertMessage(r), ~UpdateMessageBody(r), ~SoftDeleteMessage(r), ~DeleteRow(r)
      PROVE  msg'[m] = msg[m]
  BY <1>0, <1>7, ReadingOK DEF Step, Reads, DeleteReaction, InsertReaction, PinMessage, UnpinMessage, PutBlob,
     InsertAttachment, InsertFails, DeleteBlob
<1>8. CASE Elsewhere \/ UNCHANGED vars
  BY <1>8 DEF Elsewhere, vars
<1> QED BY <1>1, <1>2, <1>3, <1>4, <1>5, <1>6, <1>7, <1>8 DEF Next

LEMMA NextDeletedRows ==
    ASSUME TypeOK, DeletedRows, [Next]_vars
    PROVE  DeletedRows'
BY MessageSteps DEF DeletedRows, Standing

\* What was deleted is neither restored nor rewritten, by edits that overlap the deletion or by
\* anything else (DeletedStaysDeleted).
THEOREM DeletionHolds == Spec => DeletedStaysDeleted
<1>1. Init => DeletedRows
  BY DEF Init, DeletedRows, NoMessage
<1>2. TypeOK /\ DeletedRows /\ [Next]_vars => DeletedRows'
  BY NextDeletedRows
<1>3. TypeOK /\ DeletedRows /\ [Next]_vars =>
         [\A m \in Messages : msg[m].deleted => msg[m]'.deleted /\ msg[m]'.text = msg[m].text]_vars
  <2> SUFFICES ASSUME TypeOK, DeletedRows, [Next]_vars, NEW m \in Messages, msg[m].deleted
               PROVE  msg'[m].deleted /\ msg'[m].text = msg[m].text
    OBVIOUS
  <2> QED BY MessageSteps DEF DeletedRows, Standing
<1> QED BY <1>1, <1>2, <1>3, TypeCorrect, PTL DEF Spec, DeletedStaysDeleted

-----------------------------------------------------------------------------
(* Attachments                                                             *)

Uploads(q) == q.op = "upload" /\ q.pc = "write"
Attaches(q) == q.op = "send" /\ q.pc = "write" /\ q.file # None
CleansUp(q) == q.op \in {"upload", "remove"} /\ q.pc = "undo"
\* Requests that write the file, its blob or a message that names it.
Holds(q) == Uploads(q) \/ Attaches(q) \/ CleansUp(q)

\* FilesAreTheSenders is not inductive: a message with an attachment has a sender; a key that is
\* being uploaded has no row and no other request at work on it; and whoever is about to insert a
\* message has found its attachment to be its own.
MessagesInv ==
    \A m \in Messages : msg[m].file # None => /\ msg[m].row /\ msg[m].by # None
                                              /\ file[msg[m].file] = msg[m].by
UploadInv ==
    \A r \in Requests : Uploads(req[r]) =>
        /\ file[req[r].file] = None
        /\ \A s \in Requests \ {r} : Holds(req[s]) => req[s].file # req[r].file
AttachInv ==
    \A r \in Requests : Attaches(req[r]) => file[req[r].file] \in {req[r].by, None}
FileInv == MessagesInv /\ UploadInv /\ AttachInv

\* A request r that becomes q, which takes up no file but one that has a row, and files that only
\* lose rows.
LEMMA FewerHold ==
    ASSUME RequestsOK, UploadInv, AttachInv, NEW r \in Requests, NEW q,
           req' = [req EXCEPT ![r] = q], ~Uploads(q),
           Holds(q) => (Holds(req[r]) /\ q.file = req[r].file) \/ file[q.file] # None,
           Attaches(q) => file'[q.file] \in {q.by, None},
           \A f \in Files : file'[f] \in {file[f], None}
    PROVE  UploadInv' /\ AttachInv'
<1>1. req'[r] = q /\ \A s \in Requests \ {r} : req'[s] = req[s]
  BY DEF RequestsOK
<1>3. ASSUME NEW s \in Requests, Uploads(req[s]) \/ Attaches(req[s]) PROVE req[s].file \in Files
  BY <1>3 DEF RequestsOK, RequestOK, Request, Uploads, Attaches
<1>4. ASSUME NEW s \in Requests, Uploads(req'[s])
      PROVE  /\ file'[req'[s].file] = None
             /\ \A t \in Requests \ {s} : Holds(req'[t]) => req'[t].file # req'[s].file
  <2>1. s # r /\ req'[s] = req[s]
    BY <1>1, <1>4
  <2>2. file[req[s].file] = None /\ file'[req[s].file] = None
    BY <1>3, <1>4, <2>1 DEF UploadInv
  <2>3. ASSUME NEW t \in Requests \ {s}, Holds(req'[t]) PROVE req'[t].file # req'[s].file
    <3>1. CASE t = r /\ file[q.file] # None
      BY <1>1, <2>1, <2>2, <3>1
    <3>2. CASE ~(t = r /\ file[q.file] # None)
      <4>1. Holds(req[t]) /\ req'[t].file = req[t].file
        BY <1>1, <2>3, <3>2
      <4> QED BY <1>4, <2>1, <2>3, <4>1 DEF UploadInv
    <3> QED BY <3>1, <3>2
  <2> QED BY <2>1, <2>2, <2>3
<1>5. ASSUME NEW s \in Requests, Attaches(req'[s]) PROVE file'[req'[s].file] \in {req'[s].by, None}
  <2>1. CASE s = r
    BY <1>1, <1>5, <2>1
  <2>2. CASE s # r
    BY <1>1, <1>3, <1>5, <2>2 DEF AttachInv
  <2> QED BY <2>1, <2>2
<1> QED BY <1>4, <1>5 DEF UploadInv, AttachInv, Uploads, Attaches, Holds, CleansUp

LEMMA EndHoldsNothing == ~Holds(NoRequest)
BY DEF Holds, Uploads, Attaches, CleansUp, NoRequest

\* The step that inserts the row of an uploaded file, with whatever the request becomes then.
LEMMA InsertedFile ==
    ASSUME TypeOK, FileInv, NEW r \in Requests, Uploads(req[r]), NEW q, req' = [req EXCEPT ![r] = q],
           ~Holds(q) \/ (CleansUp(q) /\ q.file = req[r].file),
           file' = [file EXCEPT ![req[r].file] = req[r].by], msg' = msg
    PROVE  FileInv'
<1>0. RequestsOK /\ DataOK /\ req[r].file \in Files
  BY TypeParts DEF RequestsOK, RequestOK, Request, Uploads
<1>1. req'[r] = q /\ \A s \in Requests \ {r} : req'[s] = req[s]
  BY <1>0 DEF RequestsOK
<1>2. ~Uploads(q) /\ ~Attaches(q) /\ Holds(req[r])
  BY DEF Holds, CleansUp, Uploads, Attaches
<1>3. \A f \in Files : f # req[r].file => file'[f] = file[f]
  BY <1>0 DEF DataOK
<1>4. ASSUME NEW s \in Requests \ {r}, Holds(req[s]) PROVE req[s].file # req[r].file /\ req[s].file \in Files
  BY <1>0, <1>4 DEF FileInv, UploadInv, RequestsOK, RequestOK, Request, Holds, Uploads, Attaches, CleansUp
<1>5. MessagesInv'
  <2> SUFFICES ASSUME NEW m \in Messages, msg[m].file # None
               PROVE  msg[m].row /\ msg[m].by # None /\ file'[msg[m].file] = msg[m].by
    BY DEF MessagesInv
  <2>1. msg[m].row /\ msg[m].by # None /\ file[msg[m].file] = msg[m].by /\ msg[m].file \in Files
    BY <1>0 DEF FileInv, MessagesInv, DataOK, Message
  <2>2. file[req[r].file] = None
    BY DEF FileInv, UploadInv
  <2> QED BY <1>3, <2>1, <2>2
<1>6. UploadInv'
  <2>1. ASSUME NEW s \in Requests, Uploads(req'[s])
        PROVE  /\ file'[req'[s].file] = None
               /\ \A t \in Requests \ {s} : Holds(req'[t]) => req'[t].file # req'[s].file
    <3>1. s # r /\ req'[s] = req[s] /\ Holds(req[s])
      BY <1>1, <1>2, <2>1 DEF Holds
    <3>2. file'[req[s].file] = None
      BY <1>3, <1>4, <2>1, <3>1 DEF FileInv, UploadInv
    <3>3. ASSUME NEW t \in Requests \ {s}, Holds(req'[t]) PROVE req'[t].file # req'[s].file
      <4>1. Holds(req[t]) /\ req'[t].file = req[t].file
        BY <1>1, <1>2, <3>3
      <4> QED BY <2>1, <3>1, <3>3, <4>1 DEF FileInv, UploadInv
    <3> QED BY <3>1, <3>2, <3>3
  <2> QED BY <2>1 DEF UploadInv, Uploads, Holds, Attaches, CleansUp
<1>7. AttachInv'
  <2>1. ASSUME NEW s \in Requests, Attaches(req'[s]) PROVE file'[req'[s].file] \in {req'[s].by, None}
    <3>1. s # r /\ req'[s] = req[s] /\ Holds(req[s])
      BY <1>1, <1>2, <2>1 DEF Holds
    <3> QED BY <1>3, <1>4, <2>1, <3>1 DEF FileInv, AttachInv
  <2> QED BY <2>1 DEF AttachInv, Attaches
<1> QED BY <1>5, <1>6, <1>7 DEF FileInv

LEMMA AfterCheckHoldsNothing ==
    ASSUME NEW q \in Request, q.pc \in Checks
    PROVE  ~Holds([q EXCEPT !.pc = AfterCheck(q)])
<1>1. /\ q.op = "upload" => AfterCheck(q) \notin {"write", "undo"}
      /\ q.op = "send" /\ q.file # None => AfterCheck(q) # "write"
      /\ AfterCheck(q) # "undo"
  BY DEF AfterCheck, Checks
<1> QED BY <1>1 DEF Holds, Uploads, Attaches, CleansUp, Request

\* The steps that only read take up no file, but for CheckFile, which has found the row.
LEMMA ReadingFiles ==
    ASSUME TypeOK, FileInv, NEW r \in Requests,
           \/ Check(r) \/ CheckSource(r) \/ FetchSource(r) \/ CheckFile(r) \/ FetchOwn(r)
           \/ FetchDeletable(r) \/ CheckPinner(r) \/ FetchRow(r) \/ CheckReads(r) \/ OpenBlob(r)
           \/ FetchRemovable(r)
    PROVE  FileInv'
<1>0. RequestsOK /\ DataOK /\ RequestOK(req[r]) /\ req[r] \in Request
  BY TypeParts DEF RequestsOK, RequestOK
<1>1. msg' = msg /\ file' = file
  BY <1>0, ReadingOK DEF Reads
<1>2. MessagesInv'
  BY <1>1 DEF FileInv, MessagesInv
<1>3. ASSUME NEW q, req' = [req EXCEPT ![r] = q], ~Holds(q) PROVE FileInv'
  BY <1>0, <1>1, <1>2, <1>3, FewerHold DEF FileInv, Holds
<1>4. ASSUME End(r) PROVE FileInv'
  BY <1>3, <1>4, EndHoldsNothing DEF End, Becomes
<1>5. CASE Check(r)
  BY <1>0, <1>3, <1>4, <1>5, AfterCheckHoldsNothing DEF Check, Goto, Becomes
<1>6. CASE FetchSource(r)
  <2> DEFINE q == [req[r] EXCEPT !.op = "send", !.msg = None, !.text = msg[req[r].msg].text, !.pc = "member"]
  <2>1. ~Holds(q)
    BY <1>0 DEF Holds, Uploads, Attaches, CleansUp, Request
  <2>2. End(r) \/ req' = [req EXCEPT ![r] = q]
    BY <1>6 DEF FetchSource, Becomes
  <2> HIDE DEF q
  <2> QED BY <1>3, <1>4, <2>1, <2>2
<1>7. CASE CheckFile(r)
  <2>1. CASE Usable(req[r].file, req[r].by) /\ Goto(r, "write") /\ req[r].file # None
    <3> DEFINE q == [req[r] EXCEPT !.pc = "write"]
    <3>1. /\ q.file = req[r].file /\ q.by = req[r].by /\ ~Uploads(q)
          /\ file[req[r].file] = req[r].by /\ req[r].by # None
      BY <1>0, <1>7, <2>1 DEF CheckFile, At, Usable, RequestOK, Request, Uploads
    <3>2. req' = [req EXCEPT ![r] = q]
      BY <2>1 DEF Goto, Becomes
    <3> HIDE DEF q
    <3> QED BY <1>0, <1>1, <1>2, <3>1, <3>2, FewerHold DEF FileInv
  <2>2. CASE Goto(r, "write") /\ req[r].file = None
    <3>1. ~Holds([req[r] EXCEPT !.pc = "write"])
      BY <1>0, <1>7, <2>2 DEF CheckFile, At, Holds, Uploads, Attaches, CleansUp, Request
    <3> QED BY <1>3, <2>2, <3>1 DEF Goto, Becomes
  <2> QED BY <1>4, <1>7, <2>1, <2>2 DEF CheckFile
<1>8. CASE ~Check(r) /\ ~FetchSource(r) /\ ~CheckFile(r)
  <2>1. req[r].op \notin {"upload", "send"}
    BY <1>8 DEF CheckSource, FetchOwn, FetchDeletable, CheckPinner, FetchRow, CheckReads, OpenBlob, FetchRemovable, At
  <2>2. PICK step \in {"fetch", "write", "member"} : End(r) \/ Goto(r, step)
    BY <1>8 DEF CheckSource, FetchOwn, FetchDeletable, CheckPinner, FetchRow, CheckReads, OpenBlob, FetchRemovable
  <2>3. ~Holds([req[r] EXCEPT !.pc = step])
    BY <1>0, <2>1 DEF Holds, Uploads, Attaches, CleansUp, Request
  <2> QED BY <1>3, <1>4, <2>2, <2>3 DEF Goto, Becomes
<1> QED BY <1>5, <1>6, <1>7, <1>8

LEMMA InsertMessageFiles ==
    ASSUME TypeOK, FileInv, NEW r \in Requests, InsertMessage(r)
    PROVE  FileInv'
<1>0. RequestsOK /\ DataOK /\ RequestOK(req[r]) /\ req[r] \in Request /\ req[r].by # None
  BY TypeParts DEF RequestsOK, RequestOK, InsertMessage, At
<1>1. UploadInv' /\ AttachInv'
  BY <1>0, FewerHold, EndHoldsNothing DEF InsertMessage, End, Becomes, FileInv, Holds
<1>2. MessagesInv'
  <2>1. CASE UNCHANGED msg
    BY <2>1 DEF InsertMessage, FileInv, MessagesInv
  <2>2. CASE ~UNCHANGED msg
    <3>1. PICK m \in Messages \ Rows :
             msg' = [msg EXCEPT ![m] = [row |-> TRUE, by |-> req[r].by, text |-> req[r].text, e2e |-> req[r].e2e,
                                        file |-> req[r].file, deleted |-> FALSE]]
      BY <2>2 DEF InsertMessage
    <3>2. req[r].file # None => file[req[r].file] = req[r].by
      BY <2>2 DEF InsertMessage, FileInv, AttachInv, Attaches, At
    <3>3. msg'[m].row /\ msg'[m].by = req[r].by /\ msg'[m].file = req[r].file
      BY <1>0, <3>1 DEF DataOK
    <3>4. ASSUME NEW x \in Messages, x # m PROVE msg'[x] = msg[x]
      BY <1>0, <3>1, <3>4 DEF DataOK
    <3>5. file' = file
      BY DEF InsertMessage
    <3>6. ASSUME NEW x \in Messages, msg'[x].file # None
          PROVE  msg'[x].row /\ msg'[x].by # None /\ file'[msg'[x].file] = msg'[x].by
      BY <1>0, <3>2, <3>3, <3>4, <3>5, <3>6 DEF FileInv, MessagesInv
    <3> QED BY <3>6 DEF MessagesInv
  <2> QED BY <2>1, <2>2
<1> QED BY <1>1, <1>2 DEF FileInv

LEMMA ChangedTextFiles ==
    ASSUME TypeOK, FileInv, NEW r \in Requests, UpdateMessageBody(r) \/ SoftDeleteMessage(r)
    PROVE  FileInv'
<1>0. RequestsOK /\ msg \in [Messages -> Message]
  BY TypeParts DEF DataOK
<1>1. UploadInv' /\ AttachInv'
  BY <1>0, FewerHold, EndHoldsNothing DEF UpdateMessageBody, SoftDeleteMessage, End, Becomes, FileInv, Holds
<1>2. ASSUME NEW m \in Messages
      PROVE  msg'[m].row = msg[m].row /\ msg'[m].by = msg[m].by /\ msg'[m].file = msg[m].file
  BY <1>0 DEF UpdateMessageBody, SoftDeleteMessage, Message
<1>3. file' = file
  BY DEF UpdateMessageBody, SoftDeleteMessage
<1> QED BY <1>1, <1>2, <1>3 DEF FileInv, MessagesInv

LEMMA ReactionFiles ==
    ASSUME TypeOK, FileInv, NEW r \in Requests,
           DeleteReaction(r) \/ InsertReaction(r) \/ PinMessage(r) \/ UnpinMessage(r)
    PROVE  FileInv'
<1>0. RequestsOK /\ req[r] \in Request /\ req[r].op \notin {"upload", "send"}
  BY TypeParts DEF RequestsOK, RequestOK, DeleteReaction, InsertReaction, PinMessage, UnpinMessage, At
<1>1. msg' = msg /\ file' = file
  BY DEF DeleteReaction, InsertReaction, PinMessage, UnpinMessage
<1>2. ~Holds([req[r] EXCEPT !.pc = "write"])
  BY <1>0 DEF Holds, Uploads, Attaches, CleansUp, Request
<1>3. PICK q : req' = [req EXCEPT ![r] = q] /\ ~Holds(q)
  BY <1>2, EndHoldsNothing DEF DeleteReaction, InsertReaction, PinMessage, UnpinMessage, End, Goto, Becomes
<1>4. UploadInv' /\ AttachInv'
  BY <1>0, <1>1, <1>3, FewerHold DEF FileInv, Holds
<1> QED BY <1>1, <1>4 DEF FileInv, MessagesInv

LEMMA PutBlobFiles ==
    ASSUME TypeOK, FileInv, NEW r \in Requests, PutBlob(r)
    PROVE  FileInv'
<1>0. RequestsOK /\ req[r] \in Request /\ req[r].op = "upload"
  BY TypeParts DEF RequestsOK, RequestOK, PutBlob, At
<1>1. PICK f \in Files \ blobs :
         /\ file[f] = None /\ \A o \in Requests : req[o].file # f
         /\ req' = [req EXCEPT ![r] = [req[r] EXCEPT !.file = f, !.pc = "write"]]
  BY DEF PutBlob, Becomes
<1>2. /\ req'[r].file = f /\ req'[r].op = "upload"
      /\ \A s \in Requests \ {r} : req'[s] = req[s]
  BY <1>0, <1>1 DEF RequestsOK, Request
<1>3. msg' = msg /\ file' = file
  BY DEF PutBlob
<1>4. ASSUME NEW s \in Requests, Uploads(req'[s])
      PROVE  /\ file'[req'[s].file] = None
             /\ \A t \in Requests \ {s} : Holds(req'[t]) => req'[t].file # req'[s].file
  <2>1. CASE s = r
    BY <1>1, <1>2, <1>3, <2>1
  <2>2. CASE s # r
    BY <1>1, <1>2, <1>3, <1>4, <2>2 DEF FileInv, UploadInv
  <2> QED BY <2>1, <2>2
<1>5. UploadInv'
  BY <1>4 DEF UploadInv, Uploads, Holds, Attaches, CleansUp
<1>6. AttachInv'
  BY <1>2, <1>3 DEF FileInv, AttachInv, Attaches
<1> QED BY <1>3, <1>5, <1>6 DEF FileInv, MessagesInv

LEMMA UploadFiles ==
    ASSUME TypeOK, FileInv, NEW r \in Requests, InsertAttachment(r) \/ InsertFails(r)
    PROVE  FileInv'
<1> DEFINE q == [req[r] EXCEPT !.pc = "undo"]
<1>0. RequestsOK /\ req[r] \in Request /\ Uploads(req[r])
  BY TypeParts DEF RequestsOK, RequestOK, InsertAttachment, InsertFails, At, Uploads
<1>1. CleansUp(q) /\ q.file = req[r].file /\ ~Uploads(q) /\ ~Attaches(q) /\ Holds(req[r])
  BY <1>0 DEF CleansUp, Uploads, Attaches, Holds, Request
<1>2. msg' = msg
  BY DEF InsertAttachment, InsertFails
<1>3. ASSUME file' = file, req' = [req EXCEPT ![r] = q] PROVE FileInv'
  <2> HIDE DEF q
  <2> QED BY <1>0, <1>1, <1>2, <1>3, FewerHold DEF FileInv, MessagesInv
<1>4. ASSUME file' = [file EXCEPT ![req[r].file] = req[r].by], req' = [req EXCEPT ![r] = q] PROVE FileInv'
  <2> HIDE DEF q
  <2> QED BY <1>0, <1>1, <1>2, <1>4, InsertedFile
<1>5. ASSUME file' = [file EXCEPT ![req[r].file] = req[r].by], End(r) PROVE FileInv'
  BY <1>0, <1>2, <1>5, InsertedFile, EndHoldsNothing DEF End, Becomes
<1> QED BY <1>3, <1>4, <1>5 DEF InsertAttachment, InsertFails, Goto, Becomes

\* Files whose rows go, and messages that lose their names.
LEMMA GoneFiles ==
    ASSUME DataOK, MessagesInv, NEW fs, \A f \in Files : file'[f] = IF f \in fs THEN None ELSE file[f],
           \A m \in Messages : /\ msg'[m].row = msg[m].row
                               /\ msg'[m].file = IF msg[m].file \in fs THEN None ELSE msg[m].file
                               /\ msg'[m].file # None => msg'[m].by = msg[m].by
    PROVE  MessagesInv' /\ \A f \in Files : file'[f] \in {file[f], None}
<1>1. ASSUME NEW m \in Messages, msg'[m].file # None
      PROVE  msg'[m].row /\ msg'[m].by # None /\ file'[msg'[m].file] = msg'[m].by
  <2>1. msg[m].file \in Files \cup {None}
    BY DEF DataOK, Message
  <2>2. msg[m].file # None /\ msg'[m].file = msg[m].file /\ msg[m].file \notin fs
    BY <1>1
  <2>3. msg[m].row /\ msg[m].by # None /\ file[msg[m].file] = msg[m].by
    BY <2>2 DEF MessagesInv
  <2>4. file'[msg[m].file] = file[msg[m].file] /\ msg'[m].row = msg[m].row /\ msg'[m].by = msg[m].by
    BY <1>1, <2>1, <2>2
  <2> QED BY <2>2, <2>3, <2>4
<1>2. MessagesInv'
  BY <1>1 DEF MessagesInv
<1> QED BY <1>2

LEMMA DeleteRowFiles ==
    ASSUME TypeOK, FileInv, NEW r \in Requests, DeleteRow(r)
    PROVE  FileInv'
<1> DEFINE q == [req[r] EXCEPT !.pc = "undo"]
<1>0. RequestsOK /\ DataOK /\ req[r] \in Request /\ req[r].op = "remove"
  BY TypeParts DEF RequestsOK, RequestOK, DeleteRow, At
<1>1. CASE End(r) /\ UNCHANGED <<file, msg>>
  BY <1>0, <1>1, FewerHold, EndHoldsNothing DEF End, Becomes, FileInv, MessagesInv, Holds
<1>2. CASE /\ file[req[r].file] # None /\ file' = [file EXCEPT ![req[r].file] = None]
           /\ msg' = WithoutFiles({req[r].file}) /\ req' = [req EXCEPT ![r] = q]
  <2>1. \A f \in Files : file'[f] = IF f \in {req[r].file} THEN None ELSE file[f]
    BY <1>0, <1>2 DEF DataOK
  <2> DEFINE fs == {req[r].file}
  <2>a. ASSUME NEW m \in Messages
        PROVE  /\ msg'[m].row = msg[m].row /\ msg'[m].by = msg[m].by
               /\ msg'[m].file = IF msg[m].file \in fs THEN None ELSE msg[m].file
    BY <1>0, <1>2, WithoutFilesType
  <2>b. MessagesInv
    BY DEF FileInv
  <2>c. \A f \in Files : file'[f] = IF f \in fs THEN None ELSE file[f]
    BY <2>1
  <2>2. MessagesInv' /\ \A f \in Files : file'[f] \in {file[f], None}
    <3> HIDE DEF fs
    <3> QED BY <1>0, <2>a, <2>b, <2>c, GoneFiles
  <2>3. q.file = req[r].file /\ ~Uploads(q) /\ ~Attaches(q)
    BY <1>0 DEF Uploads, Attaches, Request
  <2> HIDE DEF q
  <2> QED BY <1>0, <1>2, <2>2, <2>3, FewerHold DEF FileInv
<1> QED BY <1>1, <1>2 DEF DeleteRow, Goto, Becomes

LEMMA DeleteAccountFiles ==
    ASSUME TypeOK, FileInv, NEW u \in Users, DeleteAccount(u)
    PROVE  FileInv'
<1> DEFINE gone == {f \in Files : file[f] = u}
           w == WithoutFiles(gone)
<1>0. RequestsOK /\ DataOK /\ u # None
  BY TypeParts, PostingAssumption
<1>1. /\ w \in [Messages -> Message]
      /\ \A m \in Messages : /\ w[m].row = msg[m].row /\ w[m].by = msg[m].by
                             /\ w[m].file = IF msg[m].file \in gone THEN None ELSE msg[m].file
  BY <1>0, WithoutFilesType
<1>2. msg' = [m \in Messages |-> [w[m] EXCEPT !.by = IF @ = u THEN None ELSE @]]
  BY DEF DeleteAccount
<1>3. file' = [f \in Files |-> IF f \in gone THEN None ELSE file[f]]
  BY DEF DeleteAccount
<1>4. ASSUME NEW m \in Messages
      PROVE  msg[m].file # None => file[msg[m].file] = msg[m].by /\ (msg[m].by = u => msg[m].file \in gone)
  BY <1>0 DEF FileInv, MessagesInv, DataOK, Message
<1> HIDE DEF w, gone
<1>5. ASSUME NEW m \in Messages
      PROVE  /\ msg'[m].row = msg[m].row
             /\ msg'[m].file = IF msg[m].file \in gone THEN None ELSE msg[m].file
             /\ msg'[m].file # None => msg'[m].by = msg[m].by
  BY <1>1, <1>2, <1>4 DEF Message
<1>6. MessagesInv' /\ \A f \in Files : file'[f] \in {file[f], None}
  BY <1>0, <1>3, <1>5, GoneFiles DEF FileInv
<1>7. req' = req
  BY DEF DeleteAccount
<1>8. ASSUME NEW r \in Requests, Uploads(req[r]) \/ Attaches(req[r]) PROVE req[r].file \in Files
  BY <1>0, <1>8 DEF RequestsOK, RequestOK, Request, Uploads, Attaches
<1>9. UploadInv' /\ AttachInv'
  BY <1>6, <1>7, <1>8 DEF FileInv, UploadInv, AttachInv, Uploads, Attaches, Holds, CleansUp
<1> QED BY <1>6, <1>9 DEF FileInv

LEMMA NextFiles == TypeOK /\ FileInv /\ [Next]_vars => FileInv'
<1> SUFFICES ASSUME TypeOK, FileInv, [Next]_vars PROVE FileInv'
  OBVIOUS
<1>0. RequestsOK /\ DataOK
  BY TypeParts
<1>a. ASSUME NEW r \in Requests, NEW q, Becomes(r, q), ~Holds(q), UNCHANGED <<msg, file>> PROVE FileInv'
  BY <1>0, <1>a, FewerHold DEF Becomes, FileInv, MessagesInv, Holds
<1>1. ASSUME NEW r \in Requests, Begin(r) PROVE FileInv'
  <2>1. PICK q : Becomes(r, q) /\ q.pc \in {"member", "source", "fetch"} /\ Reads
    BY <1>0, <1>1, BeginOK
  <2> QED BY <1>a, <2>1 DEF Holds, Uploads, Attaches, CleansUp, Reads
<1>2. ASSUME NEW r \in Requests, Cancel(r) \/ DeleteBlob(r) PROVE FileInv'
  BY <1>2, <1>a, EndHoldsNothing DEF Cancel, DeleteBlob, End
<1>3. ASSUME NEW r \in Requests, Step(r) PROVE FileInv'
  BY <1>2, <1>3, ReadingFiles, InsertMessageFiles, ChangedTextFiles, ReactionFiles, PutBlobFiles, UploadFiles,
     DeleteRowFiles DEF Step
<1>4. CASE UNCHANGED <<msg, file, req>>
  BY <1>4 DEF FileInv, MessagesInv, UploadInv, AttachInv, Uploads, Attaches, Holds, CleansUp
<1> QED BY <1>1, <1>2, <1>3, <1>4, DeleteAccountFiles DEF Next, Elsewhere, vars

LEMMA InitFiles == Init => FileInv
BY DEF Init, FileInv, MessagesInv, UploadInv, AttachInv, Uploads, Attaches, NoRequest, NoMessage

\* Whatever uploads, removals and account deletions overlap the sending of a message, the attachment
\* it names exists and is its sender's (FilesAreTheSenders).
THEOREM SendersFiles == Spec => []FilesAreTheSenders
<1>1. FileInv => FilesAreTheSenders
  BY DEF FileInv, MessagesInv, FilesAreTheSenders, Rows
<1> QED BY <1>1, InitFiles, NextFiles, TypeCorrect, PTL DEF Spec

-----------------------------------------------------------------------------
(* Blobs                                                                   *)

\* A key about to be inserted has its blob, and one about to be cleaned up has no row, or one whose
\* insert reported an error.
Rowless(f) == file[f] = None \/ f \in late
StoredInv ==
    /\ RowHasBlob
    /\ \A r \in Requests : Uploads(req[r]) => req[r].file \in blobs
    /\ \A r \in Requests : CleansUp(req[r]) => Rowless(req[r].file)

\* A request r that becomes q, while no row and no blob comes or goes but rows that go.
LEMMA KeepsStored ==
    ASSUME RequestsOK, StoredInv, NEW r \in Requests, NEW q, req' = [req EXCEPT ![r] = q], ~Uploads(q),
           CleansUp(q) => (file'[q.file] = None \/ q.file \in late'),
           blobs' = blobs, \A f \in Files : file'[f] \in {file[f], None},
           \A f \in late : f \in late' \/ file'[f] = None
    PROVE  StoredInv'
<1>1. req'[r] = q /\ \A s \in Requests \ {r} : req'[s] = req[s]
  BY DEF RequestsOK
<1>2. ASSUME NEW s \in Requests, CleansUp(req[s]) PROVE req[s].file \in Files
  BY <1>2 DEF RequestsOK, RequestOK, Request, CleansUp
<1>3. ASSUME NEW s \in Requests, CleansUp(req'[s]) PROVE file'[req'[s].file] = None \/ req'[s].file \in late'
  BY <1>1, <1>2, <1>3 DEF StoredInv, Rowless
<1>4. ASSUME NEW s \in Requests, Uploads(req'[s]) PROVE req'[s].file \in blobs'
  BY <1>1, <1>4 DEF StoredInv, Rowless
<1>5. RowHasBlob'
  BY DEF StoredInv, Rowless, RowHasBlob
<1> QED BY <1>3, <1>4, <1>5 DEF StoredInv, Rowless, Uploads, CleansUp

\* The row of a key whose insert is answered with an error.
LEMMA CommittedLate ==
    ASSUME RequestsOK, DataOK, StoredInv, NEW r \in Requests, NEW q, req' = [req EXCEPT ![r] = q],
           ~Uploads(q), q.file = req[r].file, req[r].file \in Files, blobs' = blobs,
           file' = [file EXCEPT ![req[r].file] = req[r].by], late' = late \cup {req[r].file}
    PROVE  StoredInv'
<1>1. req'[r] = q /\ \A s \in Requests \ {r} : req'[s] = req[s]
  BY DEF RequestsOK
<1>2. \A f \in Files : f \in late' \/ file'[f] = file[f]
  BY DEF DataOK
<1>3. ASSUME NEW s \in Requests, CleansUp(req'[s]) PROVE file'[req'[s].file] = None \/ req'[s].file \in late'
  <2>1. CASE s = r
    BY <1>1, <2>1
  <2>2. CASE s # r
    <3>1. req'[s] = req[s] /\ CleansUp(req[s]) /\ Rowless(req[s].file)
      BY <1>1, <1>3, <2>2 DEF StoredInv
    <3>2. req[s].file \in Files
      BY <3>1 DEF RequestsOK, RequestOK, Request, CleansUp
    <3> QED BY <1>2, <3>1, <3>2 DEF Rowless
  <2> QED BY <2>1, <2>2
<1>4. ASSUME NEW s \in Requests, Uploads(req'[s]) PROVE req'[s].file \in blobs'
  BY <1>1, <1>4 DEF StoredInv
<1>5. RowHasBlob'
  BY <1>2 DEF StoredInv, RowHasBlob
<1> QED BY <1>3, <1>4, <1>5 DEF StoredInv, Rowless, Uploads, CleansUp

LEMMA InsertStored ==
    ASSUME TypeOK, FileInv, StoredInv, NEW r \in Requests, InsertAttachment(r), req[r].by \in accounts
    PROVE  StoredInv'
<1>0. RequestsOK /\ DataOK /\ Uploads(req[r]) /\ req[r].file \in Files
  BY TypeParts DEF RequestsOK, RequestOK, Request, InsertAttachment, At, Uploads
<1>1. req'[r] = NoRequest /\ \A s \in Requests \ {r} : req'[s] = req[s]
  BY <1>0 DEF InsertAttachment, End, Becomes, RequestsOK
<1>2. file' = [file EXCEPT ![req[r].file] = req[r].by] /\ blobs' = blobs /\ late' = late /\ req[r].file \in blobs
  BY <1>0 DEF InsertAttachment, StoredInv
<1>3. ASSUME NEW s \in Requests, CleansUp(req'[s]) PROVE file'[req'[s].file] = None \/ req'[s].file \in late'
  <2>1. s # r /\ req'[s] = req[s] /\ CleansUp(req[s])
    BY <1>1, <1>3 DEF CleansUp, NoRequest
  <2>2. req[s].file # req[r].file /\ req[s].file \in Files
    BY <1>0, <2>1 DEF FileInv, UploadInv, Holds, RequestsOK, RequestOK, Request, CleansUp
  <2> QED BY <1>0, <1>2, <2>1, <2>2 DEF StoredInv, Rowless, DataOK
<1>4. ASSUME NEW s \in Requests, Uploads(req'[s]) PROVE req'[s].file \in blobs'
  BY <1>1, <1>2, <1>4 DEF StoredInv, Rowless, Uploads, NoRequest
<1>5. RowHasBlob'
  BY <1>0, <1>2 DEF StoredInv, Rowless, RowHasBlob, DataOK
<1> QED BY <1>3, <1>4, <1>5 DEF StoredInv, Rowless, Uploads, CleansUp

LEMMA PutStored ==
    ASSUME TypeOK, StoredInv, NEW r \in Requests, PutBlob(r)
    PROVE  StoredInv'
<1>0. RequestsOK /\ DataOK /\ req[r] \in Request
  BY TypeParts DEF RequestsOK, RequestOK
<1>1. PICK f \in Files \ blobs :
         /\ blobs' = blobs \cup {f}
         /\ req' = [req EXCEPT ![r] = [req[r] EXCEPT !.file = f, !.pc = "write"]]
  BY DEF PutBlob, Becomes
<1>2. req'[r].file = f /\ req'[r].pc = "write" /\ \A s \in Requests \ {r} : req'[s] = req[s]
  BY <1>0, <1>1 DEF RequestsOK, Request
<1>3. file' = file /\ late' = late
  BY DEF PutBlob
<1>4. ASSUME NEW s \in Requests, CleansUp(req'[s]) PROVE file'[req'[s].file] = None \/ req'[s].file \in late'
  BY <1>2, <1>3, <1>4 DEF StoredInv, Rowless, CleansUp
<1>5. ASSUME NEW s \in Requests, Uploads(req'[s]) PROVE req'[s].file \in blobs'
  BY <1>1, <1>2, <1>5 DEF StoredInv, Rowless
<1>6. RowHasBlob'
  BY <1>1, <1>3 DEF StoredInv, Rowless, RowHasBlob
<1> QED BY <1>4, <1>5, <1>6 DEF StoredInv, Rowless, Uploads, CleansUp

LEMMA DeleteStored ==
    ASSUME TypeOK, FileInv, StoredInv, NEW r \in Requests, DeleteBlob(r)
    PROVE  StoredInv'
<1>0. RequestsOK /\ CleansUp(req[r])
  BY TypeParts DEF DeleteBlob, At, CleansUp
<1>1. req'[r] = NoRequest /\ \A s \in Requests \ {r} : req'[s] = req[s]
  BY <1>0 DEF DeleteBlob, End, Becomes, RequestsOK
<1>2. file' = file /\ late' = late /\ blobs' = blobs \ {req[r].file} /\ Rowless(req[r].file)
  BY <1>0 DEF DeleteBlob, StoredInv
<1>3. ASSUME NEW s \in Requests, CleansUp(req'[s]) PROVE file'[req'[s].file] = None \/ req'[s].file \in late'
  BY <1>1, <1>2, <1>3 DEF StoredInv, Rowless, CleansUp, NoRequest
<1>4. ASSUME NEW s \in Requests, Uploads(req'[s]) PROVE req'[s].file \in blobs'
  <2>1. s # r /\ req'[s] = req[s] /\ Uploads(req[s])
    BY <1>1, <1>4 DEF Uploads, NoRequest
  <2>2. req[s].file # req[r].file
    BY <1>0, <2>1 DEF FileInv, UploadInv, Holds
  <2> QED BY <1>2, <2>1, <2>2 DEF StoredInv, Rowless
<1>5. RowHasBlob'
  BY <1>2 DEF StoredInv, Rowless, RowHasBlob
<1> QED BY <1>3, <1>4, <1>5 DEF StoredInv, Rowless, Uploads, CleansUp

LEMMA NextStored ==
    ASSUME TypeOK, FileInv, StoredInv, [Next]_vars
    PROVE  StoredInv'
<1>0. RequestsOK /\ DataOK /\ \A r \in Requests : RequestOK(req[r]) /\ req[r] \in Request
  BY TypeParts DEF RequestsOK, RequestOK
<1>a. ASSUME NEW r \in Requests, NEW q, req' = [req EXCEPT ![r] = q], ~Uploads(q), ~CleansUp(q),
             UNCHANGED <<file, blobs, late>>
      PROVE  StoredInv'
  BY <1>0, <1>a, KeepsStored
<1>b. ASSUME NEW r \in Requests, End(r), UNCHANGED <<file, blobs, late>> PROVE StoredInv'
  BY <1>a, <1>b, EndHoldsNothing DEF End, Becomes, Holds
<1>c. ASSUME NEW r \in Requests, NEW step, Goto(r, step), UNCHANGED <<file, blobs, late>>, step # "undo",
             req[r].op = "upload" => step # "write"
      PROVE  StoredInv'
  <2>1. LET q == [req[r] EXCEPT !.pc = step] IN ~Uploads(q) /\ ~CleansUp(q)
    BY <1>0, <1>c DEF Uploads, CleansUp, Request
  <2> QED BY <1>a, <1>c, <2>1 DEF Goto, Becomes
<1>1. ASSUME NEW r \in Requests, Begin(r) PROVE StoredInv'
  <2>1. PICK q : Becomes(r, q) /\ q.pc \in {"member", "source", "fetch"} /\ Reads
    BY <1>0, <1>1, BeginOK
  <2> QED BY <1>a, <2>1 DEF Uploads, CleansUp, Reads, Becomes
<1>2. ASSUME NEW r \in Requests,
             \/ CheckSource(r) \/ CheckFile(r) \/ FetchOwn(r) \/ FetchDeletable(r) \/ CheckPinner(r)
             \/ FetchRow(r) \/ CheckReads(r) \/ OpenBlob(r) \/ FetchRemovable(r)
             \/ DeleteReaction(r) \/ InsertReaction(r) \/ PinMessage(r) \/ UnpinMessage(r)
             \/ InsertMessage(r) \/ UpdateMessageBody(r) \/ SoftDeleteMessage(r) \/ Cancel(r)
      PROVE  StoredInv'
  <2>1. UNCHANGED <<file, blobs, late>>
    BY <1>2 DEF CheckSource, CheckFile, FetchOwn, FetchDeletable, CheckPinner, FetchRow, CheckReads, OpenBlob,
                FetchRemovable, DeleteReaction, InsertReaction, PinMessage, UnpinMessage,
                InsertMessage, UpdateMessageBody, SoftDeleteMessage, Cancel
  <2>2. End(r) \/ (req[r].op # "upload" /\ \E step \in {"fetch", "write", "member"} : Goto(r, step))
    BY <1>2 DEF CheckSource, CheckFile, FetchOwn, FetchDeletable, CheckPinner, FetchRow, CheckReads, OpenBlob,
                FetchRemovable, DeleteReaction, InsertReaction, PinMessage, UnpinMessage,
                InsertMessage, UpdateMessageBody, SoftDeleteMessage, Cancel, At
  <2> QED BY <1>b, <1>c, <2>1, <2>2
<1>3. ASSUME NEW r \in Requests, Check(r) PROVE StoredInv'
  <2>1. /\ req[r].op = "upload" => AfterCheck(req[r]) # "write"
        /\ AfterCheck(req[r]) # "undo"
    BY <1>3 DEF Check, AfterCheck, Checks
  <2> QED BY <1>3, <1>b, <1>c, <2>1 DEF Check
<1>4. ASSUME NEW r \in Requests, FetchSource(r) PROVE StoredInv'
  <2> DEFINE q == [req[r] EXCEPT !.op = "send", !.msg = None, !.text = msg[req[r].msg].text, !.pc = "member"]
  <2>1. ~Uploads(q) /\ ~CleansUp(q)
    BY <1>0 DEF Uploads, CleansUp, Request
  <2>2. (End(r) \/ req' = [req EXCEPT ![r] = q]) /\ UNCHANGED <<file, blobs, late>>
    BY <1>4 DEF FetchSource, Becomes
  <2> HIDE DEF q
  <2> QED BY <1>a, <1>b, <2>1, <2>2
<1>5. ASSUME NEW r \in Requests, InsertFails(r) \/ (InsertAttachment(r) /\ req[r].by \notin accounts)
      PROVE  StoredInv'
  <2> DEFINE q == [req[r] EXCEPT !.pc = "undo"]
  <2>1. blobs' = blobs /\ req' = [req EXCEPT ![r] = q] /\ Uploads(req[r])
    BY <1>5 DEF InsertFails, InsertAttachment, Goto, Becomes, At, Uploads
  <2>2. ~Uploads(q) /\ q.file = req[r].file /\ file[req[r].file] = None /\ req[r].file \in Files
    BY <1>0, <2>1 DEF Uploads, Request, RequestOK, FileInv, UploadInv
  <2> HIDE DEF q
  <2>3. CASE UNCHANGED <<file, late>>
    BY <1>0, <2>1, <2>2, <2>3, KeepsStored
  <2>4. CASE file' = [file EXCEPT ![req[r].file] = req[r].by] /\ late' = late \cup {req[r].file}
    BY <1>0, <2>1, <2>2, <2>4, CommittedLate
  <2> QED BY <1>5, <2>3, <2>4 DEF InsertFails, InsertAttachment
<1>6. ASSUME NEW r \in Requests, DeleteRow(r) PROVE StoredInv'
  <2> DEFINE q == [req[r] EXCEPT !.pc = "undo"]
  <2>1. CASE End(r) /\ UNCHANGED <<file, late, msg>>
    BY <1>6, <1>b, <2>1 DEF DeleteRow
  <2>2. CASE file' = [file EXCEPT ![req[r].file] = None] /\ late' = late \ {req[r].file} /\ Goto(r, "undo")
    <3>1. req[r].file \in Files
      BY <1>0, <1>6 DEF DeleteRow, At, RequestOK, Request
    <3>2. /\ file'[req[r].file] = None /\ \A f \in Files : file'[f] \in {file[f], None}
          /\ \A f \in late : f \in late' \/ file'[f] = None
      BY <1>0, <2>2, <3>1 DEF DataOK
    <3>3. ~Uploads(q) /\ q.file = req[r].file /\ req' = [req EXCEPT ![r] = q] /\ blobs' = blobs
      BY <1>0, <1>6, <2>2 DEF Uploads, Request, DeleteRow, Goto, Becomes
    <3> HIDE DEF q
    <3> QED BY <1>0, <3>2, <3>3, KeepsStored
  <2> QED BY <1>6, <2>1, <2>2 DEF DeleteRow
<1>7. ASSUME NEW u \in Users, DeleteAccount(u) PROVE StoredInv'
  <2>1. /\ req' = req /\ blobs' = blobs /\ \A f \in Files : file'[f] \in {file[f], None}
        /\ \A f \in late : f \in late' \/ file'[f] = None
    BY <1>0, <1>7 DEF DeleteAccount, DataOK
  <2>2. ASSUME NEW r \in Requests, CleansUp(req[r]) PROVE file'[req[r].file] = None \/ req[r].file \in late'
    BY <1>0, <2>1, <2>2 DEF StoredInv, Rowless, CleansUp, RequestOK, Request
  <2> QED BY <2>1, <2>2 DEF StoredInv, Rowless, RowHasBlob, Uploads, CleansUp
<1>8. CASE UNCHANGED <<file, blobs, late, req>>
  BY <1>8 DEF StoredInv, Rowless, RowHasBlob, Uploads, CleansUp
<1> QED BY <1>1, <1>2, <1>3, <1>4, <1>5, <1>6, <1>7, <1>8, InsertStored, PutStored, DeleteStored
        DEF Next, Step, Elsewhere, vars

\* Whatever uploads and removals overlap, fail or stop half-way, an attachment that has a row has its
\* blob; the row of an insert that was committed and reported an error is excepted (RowHasBlob).
THEOREM BlobsAreKept == Spec => []RowHasBlob
<1>1. Init => StoredInv
  BY DEF Init, StoredInv, Rowless, RowHasBlob, Uploads, CleansUp, NoRequest
<1>2. TypeOK /\ FileInv /\ StoredInv /\ [Next]_vars => StoredInv'
  BY NextStored
<1>3. StoredInv => RowHasBlob
  BY DEF StoredInv
<1> QED BY <1>1, <1>2, <1>3, InitFiles, NextFiles, TypeCorrect, PTL DEF Spec

-----------------------------------------------------------------------------
(* Users who are shut out                                                  *)

\* The request is a call of u that has passed the check.
Past(q, u, check) == q.by = u /\ q.op \in Guarded(check) /\ ~Ahead(q, check)

LEMMA ShutIs ==
    ASSUME NEW u, NEW check
    PROVE  /\ Shut(u, check) <=> Barred(u, check) /\ \A r \in Requests : ~Past(req[r], u, check)
           /\ Barred(u, check)' /\ (\A r \in Requests : ~Past(req'[r], u, check)) => Shut(u, check)'
BY DEF Shut, Past, Ahead

LEMMA RankFacts ==
    ASSUME NEW check \in Checks, NEW q \in Request, q.pc \in Checks, q.pc # check, Ahead(q, check),
           q.op \in {"send", "upload", "react"}, q.op \in Guarded(check)
    PROVE  AfterCheck(q) \in Checks /\ Rank[AfterCheck(q)] <= Rank[check]
<1>1. Rank[q.pc] <= Rank[check]
  BY DEF Ahead
<1>2. /\ Rank["member"] = 1 /\ Rank["silence"] = 2 /\ Rank["block"] = 3 /\ Rank["grant"] = 4 /\ Rank["staff"] = 5
  BY DEF Rank, Checks
<1>3. CASE q.op = "send"
  <2>1. CASE q.pc = "member"
    BY <1>1, <1>2, <1>3, <2>1 DEF AfterCheck, Checks
  <2>2. CASE q.pc = "silence"
    BY <1>1, <1>2, <1>3, <2>2 DEF AfterCheck, Checks
  <2>3. CASE q.pc = "block"
    BY <1>1, <1>2, <1>3, <2>3 DEF AfterCheck, Checks
  <2>4. CASE q.pc = "grant"
    BY <1>1, <1>2, <1>3, <2>4 DEF AfterCheck, Checks
  <2>5. q.pc # "staff"
    BY <1>1, <1>2 DEF Checks
  <2> QED BY <2>1, <2>2, <2>3, <2>4, <2>5 DEF Checks
<1>4. CASE q.op = "upload"
  <2>1. check \in {"member", "silence", "grant"}
    BY <1>4 DEF Guarded
  <2> QED BY <1>1, <1>2, <1>4, <2>1 DEF AfterCheck, Checks
<1>5. CASE q.op = "react"
  <2>1. check \in {"member", "grant"}
    BY <1>5 DEF Guarded
  <2> QED BY <1>1, <1>2, <1>5, <2>1 DEF AfterCheck, Checks
<1> QED BY <1>3, <1>4, <1>5

\* A request that looks at a check does not get past it while it fails.
LEMMA CheckHolds ==
    ASSUME TypeOK, NEW r \in Requests, Check(r), NEW u \in Users, NEW check \in Checks,
           Barred(u, check), ~Past(req[r], u, check)
    PROVE  \E q : Becomes(r, q) /\ ~Past(q, u, check)
<1>0. RequestsOK /\ req[r] \in Request /\ req[r].pc \in Checks
  BY TypeParts DEF RequestsOK, RequestOK, Check
<1>1. CASE End(r)
  BY <1>1, PostingAssumption DEF End, Past, NoRequest
<1>2. CASE Goto(r, AfterCheck(req[r])) /\ ~Barred(req[r].by, req[r].pc)
  <2> DEFINE q == [req[r] EXCEPT !.pc = AfterCheck(req[r])]
  <2>1. q.by = req[r].by /\ q.op = req[r].op /\ q.pc = AfterCheck(req[r])
    BY <1>0 DEF Request
  <2>2. ASSUME q.by = u, q.op \in Guarded(check) PROVE Ahead(q, check)
    <3>1. CASE q.op = "forward"
      BY <3>1 DEF Ahead
    <3>2. CASE q.op # "forward"
      <4>1. q.op \in {"send", "upload", "react"}
        BY <2>2, <3>2 DEF Guarded
      <4>2. Ahead(req[r], check) /\ req[r].pc # check
        BY <1>2, <2>1, <2>2 DEF Past
      <4>3. AfterCheck(req[r]) \in Checks /\ Rank[AfterCheck(req[r])] <= Rank[check]
        BY <1>0, <2>1, <2>2, <4>1, <4>2, RankFacts
      <4> QED BY <2>1, <4>3 DEF Ahead
    <3> QED BY <3>1, <3>2
  <2>3. Becomes(r, q) /\ ~Past(q, u, check)
    BY <1>2, <2>2 DEF Goto, Past
  <2> HIDE DEF q
  <2> QED BY <2>3
<1> QED BY <1>1, <1>2 DEF Check

\* No step takes a request past a check that fails.
LEMMA StepStaysBefore ==
    ASSUME TypeOK, NEW r \in Requests, Begin(r) \/ Step(r) \/ Cancel(r), NEW u \in Users, NEW check \in Checks,
           Barred(u, check), ~Past(req[r], u, check)
    PROVE  \E q : Becomes(r, q) /\ ~Past(q, u, check)
<1>0. RequestsOK /\ DataOK /\ req[r] \in Request
  BY TypeParts DEF RequestsOK, RequestOK
<1>1. CASE Begin(r)
  <2>1. PICK q : /\ Becomes(r, q)
                 /\ q.op \in {"send", "upload", "react"} => q.pc = "member"
    BY <1>0, <1>1, BeginOK
  <2>2. Rank["member"] <= Rank[check]
    BY DEF Rank, Checks
  <2>3. q.op \in Guarded(check) => q.op \in {"send", "forward", "upload", "react"}
    BY DEF Guarded
  <2>4. ~Past(q, u, check)
    BY <2>1, <2>2, <2>3 DEF Past, Ahead, Checks
  <2> QED BY <2>1, <2>4
<1>2. CASE End(r)
  BY <1>2, PostingAssumption DEF End, Past, NoRequest
<1>3. CASE Check(r)
  BY <1>3, CheckHolds
<1>4. CASE FetchSource(r) /\ ~End(r)
  <2> DEFINE q == [req[r] EXCEPT !.op = "send", !.msg = None, !.text = msg[req[r].msg].text, !.pc = "member"]
  <2>1. Becomes(r, q) /\ q.pc = "member"
    BY <1>0, <1>4 DEF FetchSource, Request
  <2>2. Rank["member"] <= Rank[check] /\ "member" \in Checks
    BY DEF Rank, Checks
  <2> HIDE DEF q
  <2> QED BY <2>1, <2>2 DEF Past, Ahead
<1>5. ASSUME NEW step, Goto(r, step), req[r].op = "forward" \/ req[r].pc \notin Checks PROVE ~Past(req[r], u, check) =>
         \E q : Becomes(r, q) /\ ~Past(q, u, check)
  <2> DEFINE q == [req[r] EXCEPT !.pc = step]
  <2>1. Becomes(r, q) /\ q.by = req[r].by /\ q.op = req[r].op
    BY <1>0, <1>5 DEF Goto, Request
  <2> HIDE DEF q
  <2> QED BY <1>5, <2>1 DEF Past, Ahead
<1>6. CASE /\ ~End(r)
           /\ \/ CheckSource(r) \/ CheckFile(r) \/ FetchOwn(r) \/ FetchDeletable(r) \/ CheckPinner(r) \/ FetchRow(r)
              \/ CheckReads(r) \/ FetchRemovable(r) \/ DeleteReaction(r)
              \/ InsertAttachment(r) \/ InsertFails(r) \/ DeleteRow(r)
  <2>1. req[r].pc \notin Checks
    BY <1>6 DEF CheckSource, CheckFile, FetchOwn, FetchDeletable, CheckPinner, FetchRow, CheckReads, FetchRemovable,
                DeleteReaction, InsertAttachment, InsertFails, DeleteRow, At, Checks
  <2>2. \E step : Goto(r, step)
    BY <1>6 DEF CheckSource, CheckFile, FetchOwn, FetchDeletable, CheckPinner, FetchRow, CheckReads, FetchRemovable,
                DeleteReaction, InsertAttachment, InsertFails, DeleteRow
  <2> QED BY <1>5, <2>1, <2>2
<1>7. CASE PutBlob(r)
  <2>1. PICK f \in Files : Becomes(r, [req[r] EXCEPT !.file = f, !.pc = "write"])
    BY <1>7 DEF PutBlob
  <2> DEFINE q == [req[r] EXCEPT !.file = f, !.pc = "write"]
  <2>2. Becomes(r, q) /\ q.by = req[r].by /\ q.op = req[r].op /\ req[r].pc \notin Checks /\ req[r].op = "upload"
    BY <1>0, <1>7, <2>1 DEF Request, PutBlob, At, Checks
  <2> HIDE DEF q
  <2> QED BY <2>2 DEF Past, Ahead
<1> QED BY <1>1, <1>2, <1>3, <1>4, <1>6, <1>7 DEF Step, Cancel, InsertMessage, UpdateMessageBody, SoftDeleteMessage,
        InsertReaction, PinMessage, UnpinMessage, OpenBlob, DeleteBlob

\* A user whose requests have not passed the check is about to write nothing that it guards.
LEMMA WritersPassed ==
    ASSUME TypeOK, NEW r \in Requests, NEW u, NEW check \in Checks, ~Past(req[r], u, check)
    PROVE  /\ InsertMessage(r) => req[r].by # u
           /\ InsertAttachment(r) \/ InsertFails(r) => "upload" \notin Guarded(check) \/ req[r].by # u
           /\ InsertReaction(r) => "react" \notin Guarded(check) \/ req[r].by # u
<1>1. ASSUME At(r, {"send"}, "write") \/ At(r, {"upload"}, "write") \/ At(r, {"react"}, "write")
      PROVE  ~Ahead(req[r], check)
  BY <1>1 DEF At, Ahead, Checks
<1>2. "send" \in Guarded(check)
  BY DEF Guarded
<1> QED BY <1>1, <1>2 DEF Past, InsertMessage, InsertAttachment, InsertFails, InsertReaction, At

LEMMA SaysNoMessage ==
    ASSUME TypeOK, [Next]_vars, NEW u \in Users, NEW check \in Checks, \A r \in Requests : ~Past(req[r], u, check),
           NEW m \in Messages
    PROVE  msg'[m].row /\ msg'[m].by = u => msg[m].row /\ msg[m].by = u
<1>0. RequestsOK /\ DataOK /\ msg \in [Messages -> Message] /\ u # None
  BY TypeParts, PostingAssumption DEF DataOK
<1>1. ASSUME NEW r \in Requests, InsertMessage(r) PROVE msg'[m] = msg[m] \/ msg'[m].by # u
  <2>1. req[r].by # u
    BY <1>1, WritersPassed
  <2> QED BY <1>0, <1>1, <2>1 DEF InsertMessage
<1>2. ASSUME NEW r \in Requests, UpdateMessageBody(r) \/ SoftDeleteMessage(r)
      PROVE  msg'[m].row = msg[m].row /\ msg'[m].by = msg[m].by
  BY <1>0, <1>2 DEF UpdateMessageBody, SoftDeleteMessage, Message
<1>3. ASSUME NEW r \in Requests, DeleteRow(r)
      PROVE  msg'[m].row = msg[m].row /\ msg'[m].by = msg[m].by
  BY <1>0, <1>3, WithoutFilesType DEF DeleteRow
<1>4. ASSUME NEW v \in Users, DeleteAccount(v)
      PROVE  msg'[m].row = msg[m].row /\ msg'[m].by \in {msg[m].by, None}
  <2> DEFINE w == WithoutFiles({f \in Files : file[f] = v})
  <2>1. w \in [Messages -> Message] /\ w[m].row = msg[m].row /\ w[m].by = msg[m].by
    BY <1>0, WithoutFilesType
  <2>2. msg' = [x \in Messages |-> [w[x] EXCEPT !.by = IF @ = v THEN None ELSE @]]
    BY <1>4 DEF DeleteAccount
  <2> HIDE DEF w
  <2> QED BY <2>1, <2>2 DEF Message
<1>5. ASSUME NEW r \in Requests, Begin(r) \/ Cancel(r) PROVE msg' = msg
  BY <1>5 DEF Begin, Cancel
<1>6. ASSUME NEW r \in Requests, Step(r), ~InsertMessage(r), ~UpdateMessageBody(r), ~SoftDeleteMessage(r), ~DeleteRow(r)
      PROVE  msg' = msg
  BY <1>0, <1>6, ReadingOK DEF Step, Reads, DeleteReaction, InsertReaction, PinMessage, UnpinMessage, PutBlob,
     InsertAttachment, InsertFails, DeleteBlob
<1>7. CASE Elsewhere \/ UNCHANGED vars
  BY <1>7 DEF Elsewhere, vars
<1> QED BY <1>0, <1>1, <1>2, <1>3, <1>4, <1>5, <1>6, <1>7 DEF Next

LEMMA SaysNoFile ==
    ASSUME TypeOK, [Next]_vars, NEW u \in Users, NEW check \in Checks, \A r \in Requests : ~Past(req[r], u, check),
           "upload" \in Guarded(check), NEW f \in Files, file'[f] = u
    PROVE  file[f] = u
<1>0. RequestsOK /\ DataOK /\ u # None
  BY TypeParts, PostingAssumption
<1>1. ASSUME NEW r \in Requests, InsertAttachment(r) \/ InsertFails(r) PROVE file[f] = u
  <2>1. req[r].by # u
    BY <1>1, WritersPassed
  <2> QED BY <1>0, <1>1, <2>1 DEF InsertAttachment, InsertFails, DataOK
<1>2. ASSUME NEW r \in Requests, DeleteRow(r) PROVE file[f] = u
  BY <1>0, <1>2 DEF DeleteRow, DataOK
<1>3. ASSUME NEW v \in Users, DeleteAccount(v) PROVE file[f] = u
  BY <1>0, <1>3 DEF DeleteAccount
<1>4. ASSUME NEW r \in Requests, Begin(r) \/ Cancel(r) PROVE file' = file
  BY <1>4 DEF Begin, Cancel
<1>5. ASSUME NEW r \in Requests, Step(r), ~InsertAttachment(r), ~InsertFails(r), ~DeleteRow(r) PROVE file' = file
  BY <1>0, <1>5, ReadingOK DEF Step, Reads, InsertMessage, UpdateMessageBody, SoftDeleteMessage, DeleteReaction,
     InsertReaction, PinMessage, UnpinMessage, PutBlob, DeleteBlob
<1>6. CASE Elsewhere \/ UNCHANGED vars
  BY <1>6 DEF Elsewhere, vars
<1> QED BY <1>1, <1>2, <1>3, <1>4, <1>5, <1>6 DEF Next

LEMMA SaysNoReaction ==
    ASSUME TypeOK, [Next]_vars, NEW u \in Users, NEW check \in Checks, \A r \in Requests : ~Past(req[r], u, check),
           "react" \in Guarded(check), NEW x \in reactions', x[2] = u
    PROVE  x \in reactions
<1>0. RequestsOK /\ DataOK
  BY TypeParts
<1>1. ASSUME NEW r \in Requests, InsertReaction(r) PROVE x \in reactions
  <2>1. req[r].by # u
    BY <1>1, WritersPassed
  <2> QED BY <1>1, <2>1 DEF InsertReaction
<1>2. ASSUME NEW r \in Requests, DeleteReaction(r) PROVE x \in reactions
  BY <1>2 DEF DeleteReaction
<1>3. ASSUME NEW v \in Users, DeleteAccount(v) PROVE x \in reactions
  BY <1>3 DEF DeleteAccount
<1>4. ASSUME NEW r \in Requests, Begin(r) \/ Cancel(r) PROVE reactions' = reactions
  BY <1>4 DEF Begin, Cancel
<1>5. ASSUME NEW r \in Requests, Step(r), ~InsertReaction(r), ~DeleteReaction(r) PROVE reactions' = reactions
  BY <1>0, <1>5, ReadingOK DEF Step, Reads, InsertMessage, UpdateMessageBody, SoftDeleteMessage, PinMessage,
     UnpinMessage, PutBlob, InsertAttachment, InsertFails, DeleteRow, DeleteBlob
<1>6. CASE Elsewhere \/ UNCHANGED vars
  BY <1>6 DEF Elsewhere, vars
<1> QED BY <1>1, <1>2, <1>3, <1>4, <1>5, <1>6 DEF Next

LEMMA NextBarred ==
    ASSUME TypeOK, [Next]_vars, NEW u \in Users, NEW check \in Checks, Shut(u, check), Barred(u, check)'
    PROVE  Shut(u, check)' /\ Said(u, check)' \subseteq Said(u, check)
<1>0. Barred(u, check) /\ \A r \in Requests : ~Past(req[r], u, check)
  BY ShutIs
<1>1. \A r \in Requests : ~Past(req'[r], u, check)
  <2>1. ASSUME NEW r \in Requests, Begin(r) \/ Step(r) \/ Cancel(r)
        PROVE  \A s \in Requests : ~Past(req'[s], u, check)
    <3>1. PICK q : Becomes(r, q) /\ ~Past(q, u, check)
      BY <1>0, <2>1, StepStaysBefore
    <3>2. req'[r] = q /\ \A s \in Requests \ {r} : req'[s] = req[s]
      BY <3>1 DEF Becomes, TypeOK
    <3> QED BY <1>0, <3>1, <3>2
  <2>2. CASE req' = req
    BY <1>0, <2>2
  <2> QED BY <2>1, <2>2 DEF Next, DeleteAccount, Elsewhere, vars
<1>2. Shut(u, check)'
  BY <1>1, ShutIs
<1>3. {<<"send", m>> : m \in {x \in Messages : msg'[x].row /\ msg'[x].by = u}}
        \subseteq {<<"send", m>> : m \in {x \in Messages : msg[x].row /\ msg[x].by = u}}
  BY <1>0, SaysNoMessage
<1>4. "upload" \in Guarded(check) =>
        {<<"upload", f>> : f \in {x \in Files : file'[x] = u}} \subseteq {<<"upload", f>> : f \in {x \in Files : file[x] = u}}
  BY <1>0, SaysNoFile
<1>5. "react" \in Guarded(check) => {x \in reactions' : x[2] = u} \subseteq {x \in reactions : x[2] = u}
  BY <1>0, SaysNoReaction
<1>6. /\ {x \in Rows : msg[x].by = u} = {x \in Messages : msg[x].row /\ msg[x].by = u}
      /\ {x \in Rows : msg[x].by = u}' = {x \in Messages : msg'[x].row /\ msg'[x].by = u}
  BY DEF Rows
<1>7. Said(u, check)' \subseteq Said(u, check)
  BY <1>3, <1>4, <1>5, <1>6 DEF Said
<1> QED BY <1>2, <1>7

\* For any number of users and overlapping requests, a user who is shut out by a check, and whose calls
\* under way have still to make it, adds nothing until it is let in (BarredSaysNothing).
THEOREM BarredAreSilent == Spec => BarredSaysNothing
<1>1. TypeOK /\ [Next]_vars =>
         [\A u \in Users, check \in Checks :
             Shut(u, check) /\ Barred(u, check)' => Shut(u, check)' /\ Said(u, check)' \subseteq Said(u, check)]_vars
  BY NextBarred
<1> QED BY <1>1, TypeCorrect, PTL DEF Spec, BarredSaysNothing
=============================================================================
