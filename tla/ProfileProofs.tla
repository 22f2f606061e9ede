---------------------------- MODULE ProfileProofs ----------------------------
(***************************************************************************)
(* What holds of switches, texts and photos for any users and requests,    *)
(* wherever a request ends: TypeOK, that an edit leaves alone what it does *)
(* not name, that what is switched off is not shown again, and that a      *)
(* photo that is said to be there is there and whole.                      *)
(***************************************************************************)
EXTENDS Profile, TLAPS

-----------------------------------------------------------------------------
(* Types                                                                   *)

\* The part of TypeOK about a request, and the part about all the rest.
RequestOK(q) ==
    /\ q \in Request
    /\ q.op = "none" <=> q.pc = "idle"
    /\ q.op # "none" => q.by # None
    /\ q.op = "show" => q.of # None
    /\ q.want \subseteq q.named
    /\ q.named \subseteq Switches \/ q.named \subseteq Texts
RequestsOK == req \in [Requests -> Request] /\ \A r \in Requests : RequestOK(req[r])
RestOK ==
    /\ accounts \subseteq Users /\ keyed \subseteq accounts /\ disturbed \subseteq Users
    /\ row \in [Users -> SUBSET Fields]
    /\ \A u \in Users \ accounts : row[u] = Switches
    /\ blob \in [Users -> {"none", "partial", "whole"}]

LEMMA TypeParts == TypeOK <=> RequestsOK /\ RestOK
BY DEF TypeOK, RequestsOK, RequestOK, RestOK

LEMMA NextParts == RequestsOK' /\ RestOK' => TypeOK'
BY DEF TypeOK, RequestsOK, RequestOK, RestOK

LEMMA NoRequestOK == RequestOK(NoRequest)
BY DEF RequestOK, NoRequest, Request, Kinds, Gate

LEMMA BecomesOK ==
    ASSUME RequestsOK, NEW r \in Requests, NEW q, RequestOK(q), Becomes(r, q)
    PROVE  RequestsOK' /\ req'[r] = q /\ \A s \in Requests \ {r} : req'[s] = req[s]
BY DEF RequestsOK, Becomes, RequestOK

LEMMA EndOK ==
    ASSUME RequestsOK, NEW r \in Requests, End(r)
    PROVE  RequestsOK' /\ req'[r] = NoRequest /\ \A s \in Requests \ {r} : req'[s] = req[s]
BY BecomesOK, NoRequestOK DEF End

\* A request that goes on changes its step and nothing else.
LEMMA GotoOK ==
    ASSUME RequestsOK, NEW r \in Requests, req[r].pc # "idle",
           NEW step \in {"read", "write", "create", "copy", "key", "look", "erase", "clear",
                         "first", "privacy", "rest"},
           Goto(r, step)
    PROVE  RequestsOK' /\ req'[r] = [req[r] EXCEPT !.pc = step]
           /\ \A s \in Requests \ {r} : req'[s] = req[s]
<1> DEFINE q == [req[r] EXCEPT !.pc = step]
<1>1. RequestOK(q)
  BY DEF RequestsOK, RequestOK, Request
<1>2. Becomes(r, q)
  BY DEF Goto
<1> HIDE DEF q
<1>3. RequestsOK' /\ req'[r] = q /\ \A s \in Requests \ {r} : req'[s] = req[s]
  BY <1>1, <1>2, BecomesOK
<1> QED BY <1>3 DEF q

\* Where an edit begins, and what it names.
LEMMA EditingOK ==
    ASSUME NEW u \in Users, NEW N \in Named, NEW W \in SUBSET N
    PROVE  RequestOK(Editing(u, N, W))
BY ProfileAssumption DEF RequestOK, Request, Editing, NoRequest, Kinds, Gate, Fields, Ops

LEMMA UploadingOK == ASSUME NEW u \in Users PROVE RequestOK(Uploading(u)) /\ RequestOK(Removing(u))
BY ProfileAssumption DEF RequestOK, Request, Uploading, Removing, NoRequest, Kinds, Gate, Ops

LEMMA ShowingOK ==
    ASSUME NEW v \in Users, NEW u \in Users, NEW k \in Kinds
    PROVE  RequestOK(Showing(v, u, k))
BY ProfileAssumption DEF RequestOK, Request, Showing, NoRequest, Kinds, Gate, Ops

\* What a request that has just begun can be.
Fresh(q) ==
    \/ \E u \in accounts, N \in Named : \E W \in SUBSET N : q = Editing(u, N, W)
    \/ \E u \in accounts : q = Uploading(u) \/ q = Removing(u)
    \/ \E v \in accounts, u \in Users, k \in Kinds : q = Showing(v, u, k)

LEMMA BeginFresh ==
    ASSUME RestOK, NEW r \in Requests, Begin(r)
    PROVE  \E q : Fresh(q) /\ RequestOK(q) /\ Ask(r, q)
<1> USE DEF RestOK
<1>1. PICK u \in accounts :
        \/ \E N \in Named : \E W \in SUBSET N : Ask(r, Editing(u, N, W)) /\ UNCHANGED disturbed
        \/ /\ Ask(r, Uploading(u)) \/ Ask(r, Removing(u))
           /\ disturbed' = disturbed \cup {v \in {u} : \E s \in Requests : OnPhoto(s, v)}
        \/ /\ \/ \E v \in Users \ {u}, k \in Kinds \ {"receipt_event", "typing"} : Ask(r, Showing(u, v, k))
              \/ \E k \in {"receipt_event", "typing"} : Ask(r, Showing(u, u, k))
           /\ UNCHANGED disturbed
  BY DEF Begin
<1>2. CASE \E N \in Named : \E W \in SUBSET N : Ask(r, Editing(u, N, W))
  BY <1>2, EditingOK DEF Fresh
<1>3. CASE Ask(r, Uploading(u)) \/ Ask(r, Removing(u))
  BY <1>3, UploadingOK DEF Fresh
<1>4. CASE \E v \in Users, k \in Kinds : Ask(r, Showing(u, v, k))
  BY <1>4, ShowingOK DEF Fresh
<1>5. {"receipt_event", "typing"} \subseteq Kinds
  BY DEF Kinds, Gate
<1> QED BY <1>1, <1>2, <1>3, <1>4, <1>5

LEMMA BeginType == ASSUME TypeOK, NEW r \in Requests, Begin(r) PROVE TypeOK'
<1>1. PICK q : RequestOK(q) /\ Ask(r, q)
  BY BeginFresh, TypeParts
<1>2. RequestsOK'
  BY <1>1, BecomesOK, TypeParts DEF Ask
<1>3. disturbed' \subseteq Users
  BY TypeParts DEF Begin, RestOK
<1> QED BY <1>1, <1>2, <1>3, NextParts, TypeParts DEF Ask, RestOK

LEMMA WriteRowType == ASSUME TypeOK, NEW r \in Requests, WriteRow(r) PROVE TypeOK'
<1> USE TypeParts
<1> DEFINE u == req[r].by
           table == TableOf(req[r].named)
<1>1. At(r, "edit", "write") /\ RequestOK(req[r])
  BY DEF WriteRow, RequestsOK
<1>2. u \in Users
  BY <1>1 DEF RequestOK, Request, At
<1>3. table \subseteq Fields /\ Merged(req[r]) \subseteq Fields
  BY <1>1 DEF TableOf, Merged, RequestOK, Request, Fields
<1>4. row' \in [Users -> SUBSET Fields] /\ \A v \in Users \ accounts : row'[v] = Switches
  BY <1>2, <1>3 DEF WriteRow, RestOK
<1>5. RestOK'
  BY <1>4 DEF WriteRow, RestOK
<1>6. ASSUME NEW s \in Requests
      PROVE  RequestOK(req'[s]) /\ req'[s] \in Request
  <2>1. RequestOK([req[s] EXCEPT !.met = TRUE])
    BY DEF RequestsOK, RequestOK, Request
  <2>2. RequestOK(req[s])
    BY DEF RequestsOK
  <2>3. req'[s] \in {NoRequest, [req[s] EXCEPT !.met = TRUE], req[s]}
    BY DEF WriteRow
  <2>4. RequestOK(req'[s])
    BY <2>1, <2>2, <2>3, NoRequestOK
  <2> QED BY <2>4 DEF RequestOK
<1>7. req' \in [Requests -> Request]
  BY <1>6 DEF WriteRow
<1>8. RequestsOK'
  BY <1>6, <1>7 DEF RequestsOK, RequestOK
<1> QED BY <1>5, <1>8, NextParts

LEMMA PhotoType ==
    ASSUME TypeOK, NEW r \in Requests,
           CreateObject(r) \/ CopyObject(r) \/ SetAvatarKey(r) \/ FindAvatar(r) \/ EraseObject(r)
             \/ ClearAvatarKey(r)
    PROVE  TypeOK'
<1> USE TypeParts
<1>0. RequestOK(req[r])
  BY DEF RequestsOK
<1>1. CASE CreateObject(r)
  <2>1. RequestsOK'
    BY <1>1, GotoOK DEF CreateObject, At
  <2> QED BY <1>1, <2>1, NextParts DEF CreateObject, RestOK
<1>2. CASE CopyObject(r)
  <2>1. RequestsOK'
    BY <1>2, GotoOK DEF CopyObject, At
  <2> QED BY <1>2, <2>1, NextParts DEF CopyObject, RestOK
<1>3. CASE SetAvatarKey(r)
  <2>1. RequestsOK'
    BY <1>3, EndOK DEF SetAvatarKey
  <2> QED BY <1>3, <2>1, NextParts DEF SetAvatarKey, RestOK
<1>4. CASE FindAvatar(r)
  <2> DEFINE there == req[r].by \in keyed
             next == IF there THEN "erase" ELSE "clear"
             q == [req[r] EXCEPT !.found = there, !.pc = next]
  <2>2. Becomes(r, q) /\ there \in BOOLEAN /\ next \in {"erase", "clear"}
    BY <1>4 DEF FindAvatar
  <2> HIDE DEF there, next
  <2>1. RequestOK(q)
    BY <1>0, <1>4, <2>2 DEF FindAvatar, At, RequestOK, Request
  <2> HIDE DEF q
  <2>3. RequestsOK'
    BY <2>1, <2>2, BecomesOK
  <2> QED BY <1>4, <2>3, NextParts DEF FindAvatar, RestOK
<1>5. CASE EraseObject(r)
  <2>1. RequestsOK'
    BY <1>5, GotoOK DEF EraseObject, At
  <2> QED BY <1>5, <2>1, NextParts DEF EraseObject, RestOK
<1>6. CASE ClearAvatarKey(r)
  <2>1. RequestsOK'
    BY <1>6, EndOK DEF ClearAvatarKey
  <2> QED BY <1>6, <2>1, NextParts DEF ClearAvatarKey, RestOK
<1> QED BY <1>1, <1>2, <1>3, <1>4, <1>5, <1>6

\* What a showing may become.
LEMMA ShowingSteps ==
    ASSUME TypeOK, NEW r \in Requests, ReadFirst(r) \/ ReadPrivacy(r) \/ Show(r)
    PROVE  /\ RequestsOK' /\ UNCHANGED <<accounts, row, keyed, blob, disturbed>>
           /\ \A s \in Requests \ {r} : req'[s] = req[s]
           /\ req[r].op = "show"
           /\ \/ req'[r] = NoRequest
              \/ /\ req'[r].op = "show" /\ req'[r].by = req[r].by /\ req'[r].of = req[r].of
                 /\ req'[r].kind = req[r].kind
                 /\ req'[r].pc = "rest" => req'[r].failed \/ Lets(req[r])
<1> USE TypeParts
<1>0. RequestOK(req[r])
  BY DEF RequestsOK
<1>1. CASE ReadFirst(r)
  <2> DEFINE there == req[r].of \in keyed
             q == [req[r] EXCEPT !.found = there, !.pc = "privacy"]
  <2>2. Becomes(r, q) /\ there \in BOOLEAN
    BY <1>1 DEF ReadFirst
  <2> HIDE DEF there
  <2>1. RequestOK(q) /\ q.op = "show" /\ q.by = req[r].by /\ q.of = req[r].of
        /\ q.kind = req[r].kind /\ q.pc # "rest"
    BY <1>0, <1>1, <2>2 DEF ReadFirst, At, RequestOK, Request
  <2> HIDE DEF q
  <2>3. RequestsOK' /\ req'[r] = q /\ \A s \in Requests \ {r} : req'[s] = req[s]
    BY <2>1, <2>2, BecomesOK
  <2> QED BY <1>1, <2>1, <2>3 DEF ReadFirst, At
<1>2. CASE ReadPrivacy(r)
  <2>1. CASE Answers(req[r]) /\ Goto(r, "rest")
    <3>1. RequestsOK' /\ req'[r] = [req[r] EXCEPT !.pc = "rest"]
          /\ \A s \in Requests \ {r} : req'[s] = req[s]
      BY <1>2, <2>1, GotoOK DEF ReadPrivacy, At
    <3> QED BY <1>0, <1>2, <2>1, <3>1 DEF ReadPrivacy, At, Answers, RequestOK, Request
  <2>2. CASE End(r)
    BY <1>2, <2>2, EndOK DEF ReadPrivacy, At
  <2>3. CASE Becomes(r, [req[r] EXCEPT !.failed = TRUE, !.pc = "rest"])
    <3> DEFINE q == [req[r] EXCEPT !.failed = TRUE, !.pc = "rest"]
    <3>1. RequestOK(q) /\ q.op = "show" /\ q.by = req[r].by /\ q.of = req[r].of
          /\ q.kind = req[r].kind /\ q.failed
      BY <1>0, <1>2 DEF ReadPrivacy, At, RequestOK, Request
    <3>2. Becomes(r, q)
      BY <2>3
    <3> HIDE DEF q
    <3>3. RequestsOK' /\ req'[r] = q /\ \A s \in Requests \ {r} : req'[s] = req[s]
      BY <3>1, <3>2, BecomesOK
    <3> QED BY <1>2, <3>1, <3>3 DEF ReadPrivacy, At
  <2> QED BY <1>2, <2>1, <2>2, <2>3 DEF ReadPrivacy
<1>3. CASE Show(r)
  BY <1>3, EndOK DEF Show, At
<1> QED BY <1>1, <1>2, <1>3

LEMMA NextType == TypeOK /\ [Next]_vars => TypeOK'
<1> SUFFICES ASSUME TypeOK, [Next]_vars PROVE TypeOK'
  OBVIOUS
<1> USE TypeParts
<1>1. ASSUME NEW r \in Requests, ReadRow(r) PROVE TypeOK'
  <2> DEFINE q == [req[r] EXCEPT !.read = row[req[r].by] \cap TableOf(req[r].named), !.pc = "write"]
  <2>1. RequestOK(req[r]) /\ req[r].by \in Users
    BY <1>1 DEF ReadRow, At, RequestsOK, RequestOK, Request
  <2>2. TableOf(req[r].named) \subseteq Fields
    BY DEF TableOf, Fields
  <2>3. RequestOK(q)
    BY <1>1, <2>1, <2>2 DEF ReadRow, At, RequestOK, Request, RestOK
  <2>4. Becomes(r, q)
    BY <1>1 DEF ReadRow
  <2> HIDE DEF q
  <2>5. RequestsOK'
    BY <2>3, <2>4, BecomesOK
  <2> QED BY <1>1, <2>5, NextParts DEF ReadRow, RestOK
<1>2. ASSUME NEW r \in Requests, ReadFirst(r) \/ ReadPrivacy(r) \/ Show(r) PROVE TypeOK'
  BY <1>2, ShowingSteps, NextParts DEF RestOK
<1>3. ASSUME NEW r \in Requests, Cancel(r) PROVE TypeOK'
  <2>1. RequestsOK'
    BY <1>3, EndOK DEF Cancel
  <2> QED BY <1>3, <2>1, NextParts DEF Cancel, RestOK
<1>4. ASSUME NEW u \in Erasable, DeleteUser(u) PROVE TypeOK'
  <2>1. RestOK'
    BY <1>4 DEF DeleteUser, RestOK, Fields
  <2>2. RequestsOK'
    BY <1>4 DEF DeleteUser, RequestsOK, RequestOK
  <2> QED BY <2>1, <2>2, NextParts
<1>5. CASE UNCHANGED vars
  BY <1>5 DEF vars, TypeOK
<1> QED BY <1>1, <1>2, <1>3, <1>4, <1>5, BeginType, WriteRowType, PhotoType DEF Next, Serve

LEMMA InitType == Init => TypeOK
<1> SUFFICES ASSUME Init PROVE TypeOK
  OBVIOUS
<1>1. RequestsOK
  BY NoRequestOK DEF Init, RequestsOK, RequestOK
<1>2. RestOK
  BY DEF Init, RestOK, Fields
<1> QED BY <1>1, <1>2, TypeParts

\* Accounts, rows, photos and requests keep their types, a photo's column and fields that are not at
\* their default belong to an account, and an edit keeps to one of the two rows.
THEOREM TypeCorrect == Spec => []TypeOK
<1>1. Init => TypeOK
  BY InitType
<1>2. TypeOK /\ [Next]_vars => TypeOK'
  BY NextType
<1> QED BY <1>1, <1>2, PTL DEF Spec

-----------------------------------------------------------------------------
(* Edits of a row                                                          *)

\* What an edit has read is still what the row holds, unless another edit of that row came in between
\* or the account has gone.
ReadStands(q) ==
    q.op = "edit" /\ q.pc = "write" =>
        /\ q.read \subseteq TableOf(q.named)
        /\ ~q.met /\ q.by \in accounts => q.read = row[q.by] \cap TableOf(q.named)
EditInv == \A r \in Requests : ReadStands(req[r])

\* A step on a photo, or the end of a request, leaves the rows and the other requests alone.
LEMMA PhotoFrame ==
    ASSUME TypeOK, NEW r \in Requests,
           \/ CreateObject(r) \/ CopyObject(r) \/ SetAvatarKey(r) \/ FindAvatar(r) \/ EraseObject(r)
           \/ ClearAvatarKey(r) \/ Cancel(r)
    PROVE  /\ UNCHANGED <<accounts, row>>
           /\ \A s \in Requests \ {r} : req'[s] = req[s]
           /\ req'[r] = NoRequest \/ req'[r].op \in {"upload", "remove"}
<1> USE TypeParts
<1>0. RequestOK(req[r]) /\ req \in [Requests -> Request]
  BY DEF RequestsOK
<1>1. CASE CreateObject(r) \/ CopyObject(r) \/ EraseObject(r)
  <2>1. \E step \in {"copy", "key", "clear"} : Goto(r, step)
    BY <1>1 DEF CreateObject, CopyObject, EraseObject
  <2>2. req[r].op \in {"upload", "remove"}
    BY <1>1 DEF CreateObject, CopyObject, EraseObject, At
  <2>3. req'[r].op = req[r].op /\ \A s \in Requests \ {r} : req'[s] = req[s]
    BY <1>0, <2>1 DEF Goto, Becomes, Request
  <2> QED BY <1>1, <2>2, <2>3 DEF CreateObject, CopyObject, EraseObject
<1>2. CASE FindAvatar(r)
  BY <1>0, <1>2 DEF FindAvatar, At, Becomes, Request
<1>3. CASE SetAvatarKey(r) \/ ClearAvatarKey(r) \/ Cancel(r)
  <2>1. End(r) /\ UNCHANGED <<accounts, row>>
    BY <1>3 DEF SetAvatarKey, ClearAvatarKey, Cancel
  <2> QED BY <2>1, EndOK
<1> QED BY <1>1, <1>2, <1>3

\* A request that has just begun has read nothing and shows nothing yet.
LEMMA BeginFrame ==
    ASSUME TypeOK, NEW r \in Requests, Begin(r)
    PROVE  /\ UNCHANGED <<accounts, row, keyed, blob>>
           /\ \A s \in Requests \ {r} : req'[s] = req[s]
           /\ req[r].op = "none" /\ req'[r].pc \in {"read", "create", "look", "first", "privacy"}
           /\ req'[r].op = "upload" => req'[r].pc = "create"
           /\ req'[r].op = "remove" => req'[r].pc = "look"
<1>1. PICK q : Fresh(q) /\ RequestOK(q) /\ Ask(r, q)
  BY BeginFresh, TypeParts
<1>2. RequestsOK' /\ req'[r] = q /\ \A s \in Requests \ {r} : req'[s] = req[s]
  BY <1>1, BecomesOK, TypeParts DEF Ask
<1>3. /\ q.pc \in {"read", "create", "look", "first", "privacy"}
      /\ q.op = "upload" => q.pc = "create"
      /\ q.op = "remove" => q.pc = "look"
  BY <1>1 DEF Fresh, Editing, Uploading, Removing, Showing, NoRequest
<1>4. req[r].op = "none"
  BY <1>1, TypeParts DEF Ask, RequestsOK, RequestOK
<1> QED BY <1>1, <1>2, <1>3, <1>4 DEF Ask

LEMMA TablesApart ==
    ASSUME NEW N, NEW M
    PROVE  TableOf(N) = TableOf(M) \/ TableOf(N) \cap TableOf(M) = {}
BY DEF TableOf, Switches, Texts

LEMMA NamedInTable == ASSUME NEW q, RequestOK(q) PROVE q.named \subseteq TableOf(q.named)
BY DEF RequestOK, TableOf

\* What a write does to the row of its user and to the other edits.
LEMMA WriteRowFrame ==
    ASSUME TypeOK, EditInv, NEW r \in Requests, WriteRow(r)
    PROVE  LET u == req[r].by
               table == TableOf(req[r].named)
           IN  /\ UNCHANGED accounts /\ req'[r] = NoRequest
               /\ u \in Users /\ Merged(req[r]) \subseteq table
               /\ \A v \in Users \ {u} : row'[v] = row[v]
               /\ u \in accounts => row'[u] = (row[u] \ table) \cup Merged(req[r])
               /\ \A s \in Requests \ {r} :
                     IF req[s].op = "edit" /\ req[s].by = u /\ TableOf(req[s].named) = table
                     THEN req'[s] = [req[s] EXCEPT !.met = TRUE] ELSE req'[s] = req[s]
<1> DEFINE u == req[r].by
           table == TableOf(req[r].named)
<1>1. At(r, "edit", "write") /\ RequestOK(req[r])
  BY TypeParts DEF WriteRow, RequestsOK
<1>2. u \in Users
  BY <1>1 DEF RequestOK, Request, At
<1>3. Merged(req[r]) \subseteq table
  BY <1>1, NamedInTable DEF Merged, RequestOK, EditInv, ReadStands, At
<1>4. row \in [Users -> SUBSET Fields]
  BY TypeParts DEF RestOK
<1> QED BY <1>1, <1>2, <1>3, <1>4 DEF WriteRow

LEMMA EditStep == TypeOK /\ EditInv /\ [Next]_vars => EditInv'
<1> SUFFICES ASSUME TypeOK, EditInv, [Next]_vars, NEW s \in Requests PROVE ReadStands(req[s])'
  BY DEF EditInv
<1>0. ReadStands(req[s]) /\ RequestOK(req[s]) /\ req \in [Requests -> Request]
  BY TypeParts DEF EditInv, RequestsOK
<1>1. ASSUME NEW r \in Requests, Begin(r) PROVE ReadStands(req[s])'
  BY <1>0, <1>1, BeginFrame DEF ReadStands
<1>2. ASSUME NEW r \in Requests, ReadRow(r) PROVE ReadStands(req[s])'
  <2> DEFINE found == row[req[r].by] \cap TableOf(req[r].named)
             q == [req[r] EXCEPT !.read = found, !.pc = "write"]
  <2>1. req'[r] = q /\ \A x \in Requests \ {r} : req'[x] = req[x]
    BY <1>0, <1>2 DEF ReadRow, Becomes
  <2>2. req[r] \in Request
    BY <1>0
  <2>3. q.read = found /\ q.by = req[r].by /\ q.named = req[r].named
    BY <2>2 DEF Request
  <2>4. UNCHANGED <<accounts, row>>
    BY <1>2 DEF ReadRow
  <2> HIDE DEF q
  <2> QED BY <1>0, <2>1, <2>3, <2>4 DEF ReadStands
<1>3. ASSUME NEW r \in Requests, WriteRow(r) PROVE ReadStands(req[s])'
  <2> DEFINE u == req[r].by
             table == TableOf(req[r].named)
  <2>1. /\ UNCHANGED accounts /\ req'[r] = NoRequest
        /\ u \in Users /\ Merged(req[r]) \subseteq table
        /\ \A v \in Users \ {u} : row'[v] = row[v]
        /\ u \in accounts => row'[u] = (row[u] \ table) \cup Merged(req[r])
        /\ \A x \in Requests \ {r} :
              IF req[x].op = "edit" /\ req[x].by = u /\ TableOf(req[x].named) = table
              THEN req'[x] = [req[x] EXCEPT !.met = TRUE] ELSE req'[x] = req[x]
    BY <1>3, WriteRowFrame
  <2>2. CASE s = r
    BY <2>1, <2>2 DEF ReadStands, NoRequest
  <2>3. CASE s # r /\ req'[s] = [req[s] EXCEPT !.met = TRUE]
    <3>1. req'[s].op = req[s].op /\ req'[s].pc = req[s].pc /\ req'[s].read = req[s].read
          /\ req'[s].named = req[s].named /\ req'[s].met
      BY <1>0, <2>3 DEF Request
    <3> QED BY <1>0, <3>1 DEF ReadStands
  <2>4. CASE s # r /\ req'[s] = req[s] /\ req[s].by # u
    <3>1. req[s].by \in accounts => row'[req[s].by] = row[req[s].by]
      BY <2>1, <2>4, TypeParts DEF RestOK
    <3> QED BY <1>0, <2>1, <2>4, <3>1 DEF ReadStands
  <2>5. CASE s # r /\ req'[s] = req[s] /\ req[s].by = u /\ TableOf(req[s].named) # table
    <3>1. TableOf(req[s].named) \cap table = {}
      BY <2>5, TablesApart
    <3>2. u \in accounts => row'[u] \cap TableOf(req[s].named) = row[u] \cap TableOf(req[s].named)
      BY <2>1, <3>1
    <3> QED BY <1>0, <2>1, <2>5, <3>2 DEF ReadStands
  <2>6. CASE s # r /\ req'[s] = req[s] /\ req[s].op # "edit"
    BY <2>6 DEF ReadStands
  <2> QED BY <2>1, <2>2, <2>3, <2>4, <2>5, <2>6
<1>4. ASSUME NEW r \in Requests,
             \/ CreateObject(r) \/ CopyObject(r) \/ SetAvatarKey(r) \/ FindAvatar(r) \/ EraseObject(r)
             \/ ClearAvatarKey(r) \/ Cancel(r)
      PROVE  ReadStands(req[s])'
  BY <1>0, <1>4, PhotoFrame DEF ReadStands, NoRequest
<1>5. ASSUME NEW r \in Requests, ReadFirst(r) \/ ReadPrivacy(r) \/ Show(r) PROVE ReadStands(req[s])'
  BY <1>0, <1>5, ShowingSteps DEF ReadStands, NoRequest
<1>6. ASSUME NEW u \in Erasable, DeleteUser(u) PROVE ReadStands(req[s])'
  <2>1. req' = req /\ accounts' = accounts \ {u} /\ \A v \in Users \ {u} : row'[v] = row[v]
    BY <1>6, TypeParts DEF DeleteUser, RestOK
  <2>2. req[s].by \in accounts' => row'[req[s].by] = row[req[s].by] /\ req[s].by \in accounts
    BY <2>1, TypeParts DEF RestOK
  <2> QED BY <1>0, <2>1, <2>2 DEF ReadStands
<1>7. CASE UNCHANGED vars
  BY <1>0, <1>7 DEF vars, ReadStands
<1> QED BY <1>1, <1>2, <1>3, <1>4, <1>5, <1>6, <1>7 DEF Next, Serve

\* Of all steps only a write that names a field, or met another write, changes it for an account that stays.
LEMMA NamedChange ==
    ASSUME TypeOK, EditInv, [Next]_vars, NEW u \in Users, NEW x \in Fields,
           (x \in row[u]) # (x \in row'[u]), u \in accounts'
    PROVE  \E r \in Requests : /\ At(r, "edit", "write") /\ req[r].by = u /\ req'[r].op = "none"
                               /\ x \in req[r].named \/ req[r].met
<1>0. row[u] # row'[u]
  OBVIOUS
<1>1. ASSUME NEW r \in Requests, WriteRow(r)
      PROVE  /\ At(r, "edit", "write") /\ req[r].by = u /\ req'[r].op = "none"
             /\ x \in req[r].named \/ req[r].met
  <2> DEFINE table == TableOf(req[r].named)
  <2>1. /\ UNCHANGED accounts /\ req'[r] = NoRequest
        /\ \A v \in Users \ {req[r].by} : row'[v] = row[v]
        /\ req[r].by \in accounts => row'[req[r].by] = (row[req[r].by] \ table) \cup Merged(req[r])
        /\ Merged(req[r]) \subseteq table
    BY <1>1, WriteRowFrame
  <2>2. At(r, "edit", "write") /\ req'[r].op = "none" /\ req[r].by = u
    BY <1>0, <1>1, <2>1 DEF WriteRow, NoRequest
  <2>3. ASSUME ~req[r].met, x \notin req[r].named PROVE FALSE
    <3>1. req[r].read = row[u] \cap table
      BY <2>1, <2>2, <2>3 DEF EditInv, ReadStands, At
    <3>2. req[r].want \subseteq req[r].named
      BY TypeParts DEF RequestsOK, RequestOK
    <3>3. x \in Merged(req[r]) <=> x \in row[u] \cap table
      BY <2>3, <3>1, <3>2 DEF Merged
    <3>4. x \in row'[u] <=> x \in row[u]
      BY <2>1, <2>2, <3>3
    <3> QED BY <3>4
  <2> QED BY <2>2, <2>3
<1>2. ASSUME NEW r \in Requests, Begin(r) \/ ReadRow(r) PROVE FALSE
  BY <1>0, <1>2, BeginFrame DEF ReadRow
<1>3. ASSUME NEW r \in Requests,
             \/ CreateObject(r) \/ CopyObject(r) \/ SetAvatarKey(r) \/ FindAvatar(r) \/ EraseObject(r)
             \/ ClearAvatarKey(r) \/ Cancel(r)
      PROVE  FALSE
  BY <1>0, <1>3, PhotoFrame
<1>4. ASSUME NEW r \in Requests, ReadFirst(r) \/ ReadPrivacy(r) \/ Show(r) PROVE FALSE
  BY <1>0, <1>4, ShowingSteps
<1>5. ASSUME NEW v \in Erasable, DeleteUser(v) PROVE FALSE
  BY <1>0, <1>5, TypeParts DEF DeleteUser, RestOK
<1>6. CASE UNCHANGED vars
  BY <1>0, <1>6 DEF vars
<1> QED BY <1>1, <1>2, <1>3, <1>4, <1>5, <1>6 DEF Next, Serve

\* PutPrivacy and UpdateUserProfile write whole rows read earlier; what they did not name and nobody
\* else wrote meanwhile is as it was.
THEOREM EditsKeepToNames == Spec => OnlyNamedChange
<1>1. Init => EditInv
  BY DEF Init, EditInv, ReadStands, NoRequest
<1>2. TypeOK /\ EditInv /\ [Next]_vars => EditInv'
  BY EditStep
<1>3. TypeOK /\ EditInv /\ [Next]_vars =>
      [\A u \in Users, x \in Fields :
          (x \in row[u]) # (x \in row'[u]) =>
             \/ u \notin accounts'
             \/ \E r \in Requests : /\ At(r, "edit", "write") /\ req[r].by = u /\ req'[r].op = "none"
                                    /\ x \in req[r].named \/ req[r].met]_vars
  BY NamedChange
<1> QED BY <1>1, <1>2, <1>3, TypeCorrect, PTL DEF Spec, OnlyNamedChange

-----------------------------------------------------------------------------
(* Photos                                                                  *)

\* A photo that is not disturbed is edited by one request at a time, and is whole by the time an upload
\* sets its column.
PhotoSteps ==
    \A r \in Requests :
        /\ req[r].op = "upload" => req[r].pc \in {"create", "copy", "key"}
        /\ req[r].op = "remove" => req[r].pc \in {"look", "erase", "clear"}
OneEditsPhoto ==
    \A u \in Users \ disturbed : \A r, s \in Requests : OnPhoto(r, u) /\ OnPhoto(s, u) => r = s
WholeBeforeKey ==
    \A u \in Users \ disturbed : \A r \in Requests :
        OnPhoto(r, u) /\ req[r].pc = "key" => blob[u] = "whole"
PhotoInv == PhotoSteps /\ OneEditsPhoto /\ WholeBeforeKey /\ PhotoIsWhole

\* Each step on a photo: its place in the sequence, and what it does to the request.
LEMMA PhotoStep ==
    ASSUME TypeOK, PhotoSteps, NEW r \in Requests,
           \/ CreateObject(r) \/ CopyObject(r) \/ SetAvatarKey(r) \/ FindAvatar(r) \/ EraseObject(r)
           \/ ClearAvatarKey(r)
    PROVE  /\ UNCHANGED disturbed
           /\ req[r].by \in Users /\ req[r].op \in {"upload", "remove"}
           /\ \A s \in Requests \ {r} : req'[s] = req[s]
           /\ \A u \in Users \ {req[r].by} : blob'[u] = blob[u]
           /\ keyed' \subseteq keyed \cup {req[r].by}
           /\ req'[r] = NoRequest \/ (req'[r].op = req[r].op /\ req'[r].by = req[r].by)
           /\ CreateObject(r) => req'[r].op = "upload" /\ req'[r].pc = "copy"
           /\ CopyObject(r) => /\ req'[r].op = "upload" /\ req'[r].pc = "key"
                              /\ blob'[req[r].by] = "whole"
           /\ SetAvatarKey(r) => /\ req[r].op = "upload" /\ req[r].pc = "key" /\ req'[r] = NoRequest
                                /\ UNCHANGED blob
           /\ FindAvatar(r) => /\ req'[r].op = "remove" /\ req'[r].pc \in {"erase", "clear"}
                              /\ req[r].pc = "look" /\ UNCHANGED <<blob, keyed>>
           /\ EraseObject(r) => req'[r].op = "remove" /\ req'[r].pc = "clear" /\ UNCHANGED keyed
           /\ ClearAvatarKey(r) => /\ req'[r] = NoRequest /\ keyed' = keyed \ {req[r].by}
                                  /\ UNCHANGED blob
<1> USE TypeParts
<1>0. RequestOK(req[r]) /\ req \in [Requests -> Request]
      /\ blob \in [Users -> {"none", "partial", "whole"}]
  BY DEF RequestsOK, RestOK
<1>a. At(r, "upload", "create") \/ At(r, "upload", "copy") \/ At(r, "upload", "key")
      \/ At(r, "remove", "look") \/ At(r, "remove", "erase") \/ At(r, "remove", "clear")
  BY DEF CreateObject, CopyObject, SetAvatarKey, FindAvatar, EraseObject, ClearAvatarKey
<1>b. req[r].by \in Users /\ req[r].op \in {"upload", "remove"}
  BY <1>0, <1>a DEF RequestOK, Request, At
<1>1. CASE CreateObject(r)
  BY <1>0, <1>b, <1>1 DEF CreateObject, CopyObject, SetAvatarKey, FindAvatar, EraseObject,
     ClearAvatarKey, At, Goto, Becomes, Request
<1>2. CASE CopyObject(r)
  BY <1>0, <1>b, <1>2 DEF CreateObject, CopyObject, SetAvatarKey, FindAvatar, EraseObject,
     ClearAvatarKey, At, Goto, Becomes, Request
<1>3. CASE SetAvatarKey(r)
  BY <1>0, <1>b, <1>3 DEF CreateObject, CopyObject, SetAvatarKey, FindAvatar, EraseObject,
     ClearAvatarKey, At, End, Becomes
<1>4. CASE FindAvatar(r)
  BY <1>0, <1>b, <1>4 DEF CreateObject, CopyObject, SetAvatarKey, FindAvatar, EraseObject,
     ClearAvatarKey, At, Becomes, Request
<1>5. CASE EraseObject(r)
  BY <1>0, <1>b, <1>5 DEF CreateObject, CopyObject, SetAvatarKey, FindAvatar, EraseObject,
     ClearAvatarKey, At, Goto, Becomes, Request
<1>6. CASE ClearAvatarKey(r)
  BY <1>0, <1>b, <1>6 DEF CreateObject, CopyObject, SetAvatarKey, FindAvatar, EraseObject,
     ClearAvatarKey, At, End, Becomes
<1> QED BY <1>1, <1>2, <1>3, <1>4, <1>5, <1>6

\* A request that begins to edit a photo another is editing disturbs it.
LEMMA BeginPhoto ==
    ASSUME TypeOK, NEW r \in Requests, Begin(r)
    PROVE  /\ disturbed \subseteq disturbed'
           /\ \A u \in Users, s \in Requests : OnPhoto(r, u)' /\ OnPhoto(s, u) => u \in disturbed'
<1>1. PICK u \in accounts :
        \/ \E N \in Named : \E W \in SUBSET N : Ask(r, Editing(u, N, W)) /\ UNCHANGED disturbed
        \/ /\ Ask(r, Uploading(u)) \/ Ask(r, Removing(u))
           /\ disturbed' = disturbed \cup {v \in {u} : \E s \in Requests : OnPhoto(s, v)}
        \/ /\ \/ \E v \in Users \ {u}, k \in Kinds \ {"receipt_event", "typing"} : Ask(r, Showing(u, v, k))
              \/ \E k \in {"receipt_event", "typing"} : Ask(r, Showing(u, u, k))
           /\ UNCHANGED disturbed
  BY DEF Begin
<1>2. \A q : Ask(r, q) => req'[r] = q
  BY TypeParts DEF Ask, Becomes, RequestsOK
<1>3. CASE \E N \in Named : \E W \in SUBSET N : Ask(r, Editing(u, N, W)) /\ UNCHANGED disturbed
  <2>1. req'[r].op = "edit"
    BY <1>2, <1>3 DEF Editing, NoRequest
  <2> QED BY <1>3, <2>1 DEF OnPhoto
<1>4. CASE /\ Ask(r, Uploading(u)) \/ Ask(r, Removing(u))
           /\ disturbed' = disturbed \cup {v \in {u} : \E s \in Requests : OnPhoto(s, v)}
  <2>1. req'[r].by = u
    BY <1>2, <1>4 DEF Uploading, Removing, NoRequest
  <2> QED BY <1>4, <2>1 DEF OnPhoto
<1>5. CASE UNCHANGED disturbed /\ \E v \in Users, w \in Users, k \in Kinds : Ask(r, Showing(v, w, k))
  <2>1. req'[r].op = "show"
    BY <1>2, <1>5 DEF Showing, NoRequest
  <2> QED BY <1>5, <2>1 DEF OnPhoto
<1>6. u \in Users /\ {"receipt_event", "typing"} \subseteq Kinds
  BY TypeParts DEF Kinds, Gate, RestOK
<1> QED BY <1>1, <1>3, <1>4, <1>5, <1>6

LEMMA PhotoStepInv ==
    ASSUME TypeOK, PhotoInv, NEW r \in Requests,
           \/ CreateObject(r) \/ CopyObject(r) \/ SetAvatarKey(r) \/ FindAvatar(r) \/ EraseObject(r)
           \/ ClearAvatarKey(r)
    PROVE  PhotoInv'
<1> DEFINE u == req[r].by
<1>0. PhotoSteps /\ OneEditsPhoto /\ WholeBeforeKey /\ PhotoIsWhole
  BY DEF PhotoInv
<1>1. /\ UNCHANGED disturbed /\ u \in Users /\ OnPhoto(r, u)
      /\ \A s \in Requests \ {r} : req'[s] = req[s]
      /\ \A v \in Users \ {u} : blob'[v] = blob[v]
      /\ keyed' \subseteq keyed \cup {u}
      /\ req'[r] = NoRequest \/ (req'[r].op = req[r].op /\ req'[r].by = u)
  BY <1>0, PhotoStep DEF OnPhoto
<1>2. \A s \in Requests \ {r} : ~OnPhoto(s, u) \/ u \in disturbed
  BY <1>0, <1>1 DEF OneEditsPhoto
<1>3. \A s \in Requests, v \in Users : OnPhoto(s, v)' => OnPhoto(s, v)
  BY <1>1 DEF OnPhoto, NoRequest
<1>4. PhotoSteps'
  <2>1. /\ req'[r].op = "upload" => req'[r].pc \in {"create", "copy", "key"}
        /\ req'[r].op = "remove" => req'[r].pc \in {"look", "erase", "clear"}
    BY <1>0, PhotoStep DEF NoRequest
  <2> QED BY <1>0, <1>1, <2>1 DEF PhotoSteps
<1>5. OneEditsPhoto'
  BY <1>0, <1>1, <1>3 DEF OneEditsPhoto
<1>6. WholeBeforeKey'
  <2> SUFFICES ASSUME NEW v \in Users \ disturbed, NEW s \in Requests, OnPhoto(s, v)', req'[s].pc = "key"
               PROVE  blob'[v] = "whole"
    BY <1>1 DEF WholeBeforeKey
  <2>1. OnPhoto(s, v)
    BY <1>3
  <2>2. CASE s # r
    <3>1. blob[v] = "whole" /\ v # u
      BY <1>0, <1>1, <1>2, <2>1, <2>2 DEF WholeBeforeKey
    <3> QED BY <1>1, <3>1
  <2>3. CASE s = r
    <3>1. v = u /\ req'[r] # NoRequest
      BY <2>1, <2>3 DEF OnPhoto, NoRequest
    <3>2. CopyObject(r)
      BY <1>0, <2>3, <3>1, PhotoStep
    <3> QED BY <1>0, <3>1, <3>2, PhotoStep
  <2> QED BY <2>2, <2>3
<1>7. PhotoIsWhole'
  <2> SUFFICES ASSUME NEW v \in keyed' \ disturbed, blob'[v] # "whole"
               PROVE  \E s \in Requests : OnPhoto(s, v)' /\ req'[s].pc \in {"copy", "clear"}
    BY <1>1 DEF PhotoIsWhole
  <2>1. CASE v # u
    <3>1. v \in keyed /\ v \in Users
      BY <1>1, <2>1, TypeParts DEF RestOK
    <3>2. PICK s \in Requests : OnPhoto(s, v) /\ req[s].pc \in {"copy", "clear"}
      BY <1>0, <1>1, <2>1, <3>1 DEF PhotoIsWhole
    <3>3. s # r
      BY <2>1, <3>2 DEF OnPhoto
    <3> QED BY <1>1, <3>2, <3>3 DEF OnPhoto
  <2>2. CASE v = u
    <3>1. ~CopyObject(r) /\ ~ClearAvatarKey(r)
      BY <1>0, <2>2, PhotoStep
    <3>2. ~SetAvatarKey(r)
      BY <1>0, <1>1, <2>2, PhotoStep DEF WholeBeforeKey
    <3>3. CASE CreateObject(r) \/ EraseObject(r)
      <4>1. req'[r].op \in {"upload", "remove"} /\ req'[r].pc \in {"copy", "clear"}
        BY <1>0, <3>3, PhotoStep
      <4> QED BY <1>1, <2>2, <4>1 DEF OnPhoto, NoRequest
    <3>4. CASE FindAvatar(r)
      <4>1. PICK s \in Requests : OnPhoto(s, u) /\ req[s].pc \in {"copy", "clear"}
        BY <1>0, <1>1, <2>2, <3>4, PhotoStep DEF PhotoIsWhole
      <4>2. s = r
        BY <1>2, <2>2, <4>1
      <4> QED BY <1>0, <3>4, <4>1, <4>2, PhotoStep
    <3> QED BY <3>1, <3>2, <3>3, <3>4
  <2> QED BY <2>1, <2>2
<1> QED BY <1>4, <1>5, <1>6, <1>7 DEF PhotoInv

\* Requests that are not on a photo, and stay off it.
LEMMA OffPhoto ==
    ASSUME PhotoInv, NEW r \in Requests,
           \A s \in Requests \ {r} : \/ req'[s] = req[s]
                                     \/ /\ req[s].op = "edit" /\ req'[s].op = "edit",
           req[r].op \notin {"upload", "remove"}, req'[r].op \notin {"upload", "remove"},
           UNCHANGED <<keyed, blob, disturbed>>
    PROVE  PhotoInv'
<1>1. \A s \in Requests, v \in Users : OnPhoto(s, v)' <=> OnPhoto(s, v)
  BY DEF OnPhoto
<1>2. \A s \in Requests : req'[s].op \in {"upload", "remove"} => req'[s] = req[s]
  OBVIOUS
<1>3. PhotoSteps'
  BY <1>2 DEF PhotoInv, PhotoSteps
<1>4. OneEditsPhoto' /\ WholeBeforeKey'
  BY <1>1, <1>2 DEF PhotoInv, OneEditsPhoto, WholeBeforeKey, OnPhoto
<1>5. \A v : \A s \in Requests : OnPhoto(s, v) => OnPhoto(s, v)' /\ req'[s].pc = req[s].pc
  BY DEF OnPhoto
<1>6. PhotoIsWhole'
  BY <1>5 DEF PhotoInv, PhotoIsWhole
<1> QED BY <1>3, <1>4, <1>6 DEF PhotoInv

LEMMA PhotoInvStep == TypeOK /\ EditInv /\ PhotoInv /\ [Next]_vars => PhotoInv'
<1> SUFFICES ASSUME TypeOK, EditInv, PhotoInv, [Next]_vars PROVE PhotoInv'
  OBVIOUS
<1>0. PhotoSteps /\ OneEditsPhoto /\ WholeBeforeKey /\ PhotoIsWhole
  BY DEF PhotoInv
<1>1. ASSUME NEW r \in Requests, Begin(r) PROVE PhotoInv'
  <2>1. /\ UNCHANGED <<keyed, blob>> /\ disturbed \subseteq disturbed'
        /\ \A s \in Requests \ {r} : req'[s] = req[s]
        /\ req[r].op = "none" /\ req'[r].pc \in {"read", "create", "look", "first", "privacy"}
        /\ req'[r].op = "upload" => req'[r].pc = "create"
        /\ req'[r].op = "remove" => req'[r].pc = "look"
    BY <1>1, BeginFrame, BeginPhoto
  <2>2. \A v \in Users \ disturbed', s \in Requests : ~(OnPhoto(r, v)' /\ OnPhoto(s, v))
    BY <1>1, BeginPhoto
  <2>3. PhotoSteps'
    BY <1>0, <2>1 DEF PhotoSteps
  <2>4. OneEditsPhoto'
    BY <1>0, <2>1, <2>2 DEF OneEditsPhoto, OnPhoto
  <2>5. WholeBeforeKey'
    BY <1>0, <2>1 DEF WholeBeforeKey, OnPhoto
  <2>6. PhotoIsWhole'
    BY <1>0, <2>1 DEF PhotoIsWhole, OnPhoto
  <2> QED BY <2>3, <2>4, <2>5, <2>6 DEF PhotoInv
<1>2. ASSUME NEW r \in Requests, ReadRow(r) PROVE PhotoInv'
  <2>1. req'[r].op = "edit" /\ \A s \in Requests \ {r} : req'[s] = req[s]
    BY <1>2, TypeParts DEF ReadRow, At, Becomes, RequestsOK, Request
  <2> QED BY <1>2, <2>1, OffPhoto DEF ReadRow, At
<1>3. ASSUME NEW r \in Requests, WriteRow(r) PROVE PhotoInv'
  <2>1. req'[r] = NoRequest
        /\ \A s \in Requests \ {r} :
              req'[s] = req[s] \/ (req[s].op = "edit" /\ req'[s] = [req[s] EXCEPT !.met = TRUE])
    BY <1>3 DEF WriteRow
  <2>2. \A s \in Requests \ {r} : req'[s] = req[s] \/ (req[s].op = "edit" /\ req'[s].op = "edit")
    BY <2>1, TypeParts DEF RequestsOK, Request
  <2>3. req'[r].op = "none"
    BY <2>1 DEF NoRequest
  <2> QED BY <1>3, <2>2, <2>3, OffPhoto DEF WriteRow, At
<1>4. ASSUME NEW r \in Requests, ReadFirst(r) \/ ReadPrivacy(r) \/ Show(r) PROVE PhotoInv'
  <2>1. req[r].op = "show" /\ req'[r].op \in {"show", "none"}
        /\ UNCHANGED <<keyed, blob, disturbed>> /\ \A s \in Requests \ {r} : req'[s] = req[s]
    BY <1>4, ShowingSteps DEF NoRequest
  <2> QED BY <2>1, OffPhoto
<1>5. ASSUME NEW r \in Requests, Cancel(r) PROVE PhotoInv'
  <2>1. /\ req'[r] = NoRequest /\ \A s \in Requests \ {r} : req'[s] = req[s]
        /\ disturbed' = disturbed \cup {u \in Users : OnPhoto(r, u) /\ req[r].pc \in {"copy", "clear"}}
        /\ UNCHANGED <<keyed, blob>>
    BY <1>5, EndOK, TypeParts DEF Cancel
  <2>2. \A v : \A s \in Requests : OnPhoto(s, v)' => OnPhoto(s, v) /\ s # r
    BY <2>1 DEF OnPhoto, NoRequest
  <2>3. PhotoSteps'
    BY <1>0, <2>1 DEF PhotoSteps, NoRequest
  <2>4. OneEditsPhoto' /\ WholeBeforeKey'
    BY <1>0, <2>1, <2>2 DEF OneEditsPhoto, WholeBeforeKey
  <2>5. PhotoIsWhole'
    <3> SUFFICES ASSUME NEW v \in keyed \ disturbed', blob[v] # "whole"
                 PROVE  \E s \in Requests : OnPhoto(s, v)' /\ req'[s].pc \in {"copy", "clear"}
      BY <2>1 DEF PhotoIsWhole
    <3>1. PICK s \in Requests : OnPhoto(s, v) /\ req[s].pc \in {"copy", "clear"}
      BY <1>0, <2>1 DEF PhotoIsWhole
    <3>2. v \in Users
      BY TypeParts DEF RestOK
    <3>3. s # r
      BY <2>1, <3>1, <3>2
    <3> QED BY <2>1, <3>1, <3>3 DEF OnPhoto
  <2> QED BY <2>3, <2>4, <2>5 DEF PhotoInv
<1>6. ASSUME NEW u \in Erasable, DeleteUser(u) PROVE PhotoInv'
  BY <1>6 DEF DeleteUser, PhotoInv, PhotoSteps, OneEditsPhoto, WholeBeforeKey, PhotoIsWhole, OnPhoto
<1>7. CASE UNCHANGED vars
  BY <1>7 DEF vars, PhotoInv, PhotoSteps, OneEditsPhoto, WholeBeforeKey, PhotoIsWhole, OnPhoto
<1> QED BY <1>1, <1>2, <1>3, <1>4, <1>5, <1>6, <1>7, PhotoStepInv DEF Next, Serve

\* The store's object and the column avatar_key change in separate steps, under one key for all photos
\* of a user: unless edits overlapped or one was cut short, a photo that is said to be there is whole.
THEOREM PhotosAreWhole == Spec => []PhotoIsWhole
<1>1. Init => EditInv /\ PhotoInv
  BY DEF Init, EditInv, ReadStands, PhotoInv, PhotoSteps, OneEditsPhoto, WholeBeforeKey, PhotoIsWhole,
     OnPhoto, NoRequest
<1>2. TypeOK /\ EditInv /\ PhotoInv /\ [Next]_vars => EditInv' /\ PhotoInv'
  BY EditStep, PhotoInvStep
<1>3. PhotoInv => PhotoIsWhole
  BY DEF PhotoInv
<1> QED BY <1>1, <1>2, <1>3, TypeCorrect, PTL DEF Spec

-----------------------------------------------------------------------------
(* What is shown                                                           *)

\* No step lets a request through to what is switched off.
LEMMA LetThroughOnlyIfOn ==
    ASSUME TypeOK, EditInv, [Next]_vars, NEW u \in Users, NEW x \in Switches, x \notin row[u],
           NEW s \in Requests, LetThrough(req'[s], u, x)
    PROVE  LetThrough(req[s], u, x)
<1>1. ASSUME NEW r \in Requests, Begin(r) PROVE LetThrough(req[s], u, x)
  BY <1>1, BeginFrame DEF LetThrough
<1>2. ASSUME NEW r \in Requests, ReadRow(r) PROVE LetThrough(req[s], u, x)
  <2>1. req'[r].op = "edit" /\ \A t \in Requests \ {r} : req'[t] = req[t]
    BY <1>2, TypeParts DEF ReadRow, At, Becomes, RequestsOK, Request
  <2> QED BY <2>1 DEF LetThrough
<1>3. ASSUME NEW r \in Requests, WriteRow(r) PROVE LetThrough(req[s], u, x)
  <2>1. \/ req'[s] = NoRequest \/ req'[s] = req[s]
        \/ (req[s].op = "edit" /\ req'[s] = [req[s] EXCEPT !.met = TRUE])
    BY <1>3 DEF WriteRow
  <2>2. req[s].op = "edit" /\ req'[s] = [req[s] EXCEPT !.met = TRUE] => req'[s].op = "edit"
    BY TypeParts DEF RequestsOK, Request
  <2> QED BY <2>1, <2>2 DEF LetThrough, NoRequest
<1>4. ASSUME NEW r \in Requests,
             \/ CreateObject(r) \/ CopyObject(r) \/ SetAvatarKey(r) \/ FindAvatar(r) \/ EraseObject(r)
             \/ ClearAvatarKey(r) \/ Cancel(r)
      PROVE  LetThrough(req[s], u, x)
  BY <1>4, PhotoFrame DEF LetThrough, NoRequest
<1>5. ASSUME NEW r \in Requests, ReadFirst(r) \/ ReadPrivacy(r) \/ Show(r)
      PROVE  LetThrough(req[s], u, x)
  <2>1. CASE s # r
    BY <1>5, <2>1, ShowingSteps
  <2>2. CASE s = r
    <3>1. req'[r].op = "show" /\ req'[r].of = u /\ Gate[req'[r].kind] = x /\ req'[r].pc = "rest"
          /\ ~req'[r].failed
      BY <2>2 DEF LetThrough
    <3>2. req[r].of = u /\ Gate[req[r].kind] = x /\ Lets(req[r])
      BY <1>5, <3>1, ShowingSteps DEF NoRequest
    <3> QED BY <3>2 DEF Lets
  <2> QED BY <2>1, <2>2
<1>6. ASSUME NEW v \in Erasable, DeleteUser(v) PROVE LetThrough(req[s], u, x)
  BY <1>6 DEF DeleteUser
<1>7. CASE UNCHANGED vars
  BY <1>7 DEF vars
<1> QED BY <1>1, <1>2, <1>3, <1>4, <1>5, <1>6, <1>7 DEF Next, Serve

\* Presence, receipts, typing, search and photos read their switch in one statement and show in a later
\* one: with the switch off and what it let through over, nothing is shown until it is on again.
THEOREM SwitchesHide == Spec => HiddenStaysHidden
<1>1. Init => EditInv
  BY DEF Init, EditInv, ReadStands, NoRequest
<1>2. TypeOK /\ EditInv /\ [Next]_vars => EditInv'
  BY EditStep
<1>3. TypeOK /\ EditInv /\ [Next]_vars =>
      [\A u \in Users, x \in Switches : Hidden(u, x) /\ x \notin row'[u] => Hidden(u, x)']_vars
  BY LetThroughOnlyIfOn DEF Hidden
<1> QED BY <1>1, <1>2, <1>3, TypeCorrect, PTL DEF Spec, HiddenStaysHidden
==============================================================================
