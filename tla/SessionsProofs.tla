--------------------------- MODULE SessionsProofs ---------------------------
(***************************************************************************)
(* What holds of login sessions for any users, sessions, requests, sockets *)
(* and limits: TypeOK, that a session once over stays over, that no        *)
(* session is left without its account, that RevokeOthers revokes all it   *)
(* lists, that a session ends only by a request of its own user, and that  *)
(* overlapping logins exceed the limit by less than their number.          *)
(***************************************************************************)
EXTENDS Sessions, FiniteSetTheorems, TLAPS

-----------------------------------------------------------------------------
(* Types                                                                   *)

LEMMA BlankType == Blank \in Request
BY DEF Blank, Request, NoToken, Token, Steps

\* The types of a request's fields.
LEMMA FieldTypes ==
    ASSUME NEW c \in Request
    PROVE  /\ c.op \in Ops \cup {"none"} /\ c.pc \in Steps /\ c.user \in Users \cup {Nobody}
           /\ c.token \in Token /\ c.listed \subseteq Sessions /\ c.todo \subseteq Sessions
BY DEF Request

\* RevokeOthers leaves the session it is called with out of its list.
Spares(c) == c.op = "RevokeOthers" => c.token.session \notin c.todo

LEMMA BecomesType ==
    ASSUME TypeOK, NEW r \in Requests, NEW c \in Request, Becomes(r, c), Spares(c)
    PROVE  /\ req' \in [Requests -> Request]
           /\ \A q \in Requests : Spares(req'[q])
BY DEF Becomes, TypeOK, Spares

\* The part of TypeOK about requests, and the part about all the rest.
RequestsOK == req \in [Requests -> Request] /\ \A q \in Requests : Spares(req[q])
RestOK ==
    /\ account \in [Users -> {"none", "live", "deleted"}]
    /\ row \in [Sessions -> Rows]
    /\ revoked \subseteq Sessions
    /\ owner \in [Sessions -> Users \cup {Nobody}]
    /\ gen \in [Sessions -> Nat]
    /\ failures \in [Users -> Nat]
    /\ conn \in [Conns -> Token]
    /\ restarts \in Nat

LEMMA TypeParts == TypeOK <=> RequestsOK /\ RestOK
BY DEF TypeOK, RequestsOK, RestOK, Spares

LEMMA DoneType ==
    ASSUME TypeOK, NEW r \in Requests, Done(r)
    PROVE  RequestsOK'
<1>1. Spares(Blank)
  BY DEF Spares, Blank
<1> QED BY <1>1, BlankType, BecomesType DEF Done, RequestsOK

LEMMA GotoType ==
    ASSUME TypeOK, NEW r \in Requests, NEW step \in Steps, Goto(r, step)
    PROVE  RequestsOK'
<1>1. req[r] \in Request /\ Spares(req[r])
  BY DEF TypeOK, Spares
<1>2. /\ [req[r] EXCEPT !.pc = step] \in Request
      /\ Spares([req[r] EXCEPT !.pc = step])
  BY <1>1 DEF Request, Spares
<1> QED BY <1>2, BecomesType DEF Goto, RequestsOK

LEMMA CallType ==
    ASSUME TypeOK, NEW r \in Requests, NEW op \in Ops, NEW step \in Steps,
           NEW u \in Users \cup {Nobody}, NEW t \in Token, NEW todo \in SUBSET Sessions,
           op = "RevokeOthers" => todo = {}, Call(r, op, step, u, t, todo)
    PROVE  RequestsOK'
<1> DEFINE c == [Blank EXCEPT !.op = op, !.pc = step, !.user = u, !.token = t, !.todo = todo]
<1>1. c \in Request /\ Spares(c)
  BY DEF Blank, Request, Spares
<1>2. Becomes(r, c)
  BY DEF Call
<1> HIDE DEF c
<1> QED BY <1>1, <1>2, BecomesType DEF RequestsOK

\* What a request's record may become when its token has been found, or the list read.
LEMMA AuthenticatedType ==
    ASSUME TypeOK, NEW r \in Requests, NEW step \in Steps,
           req[r].token.session \in Sessions, Authenticated(r, step)
    PROVE  RequestsOK'
<1>1. req[r] \in Request /\ Spares(req[r])
  BY DEF TypeOK, Spares
<1> DEFINE c == [req[r] EXCEPT !.pc = step, !.user = owner[req[r].token.session]]
<1>2. c \in Request /\ Spares(c)
  BY <1>1 DEF Request, Spares, TypeOK
<1>3. Becomes(r, c)
  BY DEF Authenticated
<1> HIDE DEF c
<1> QED BY <1>2, <1>3, BecomesType DEF RequestsOK

LEMMA ListType ==
    ASSUME TypeOK, NEW r \in Requests, ListSessions(r)
    PROVE  RequestsOK'
<1>1. req[r] \in Request
  BY DEF TypeOK
<1> DEFINE todo == ToRevoke(req[r])
           listed == IF req[r].op = "RevokeOthers" THEN todo ELSE {}
           c == [req[r] EXCEPT !.pc = "revoke", !.todo = todo, !.listed = listed]
<1>2. todo \subseteq Sessions
  BY DEF ToRevoke, OtherSessions, SessionsOf
<1>3. req[r].op = "RevokeOthers" => req[r].token.session \notin todo
  BY DEF ToRevoke, OtherSessions
<1>4. c \in Request /\ Spares(c)
  <2> HIDE DEF todo
  <2> QED BY <1>1, <1>2, <1>3 DEF Request, Spares, Steps
<1>5. Done(r) \/ Becomes(r, c)
  BY DEF ListSessions
<1> HIDE DEF c
<1> QED BY <1>4, <1>5, DoneType, BecomesType DEF RequestsOK

LEMMA RevokeType ==
    ASSUME TypeOK, NEW r \in Requests, Revoke(r)
    PROVE  RequestsOK' /\ revoked' \subseteq Sessions
<1>1. req[r] \in Request /\ Spares(req[r])
  BY DEF TypeOK, Spares
<1>2. PICK s \in req[r].todo :
        IF Unrevoked(s)
        THEN /\ revoked' = revoked \cup {s}
             /\ Becomes(r, [req[r] EXCEPT !.todo = @ \ {s}])
        ELSE UNCHANGED revoked /\ Done(r)
  BY DEF Revoke
<1>3. /\ [req[r] EXCEPT !.todo = @ \ {s}] \in Request
      /\ Spares([req[r] EXCEPT !.todo = @ \ {s}])
  BY <1>1 DEF Request, Spares
<1>4. RequestsOK'
  BY <1>2, <1>3, DoneType, BecomesType DEF RequestsOK
<1>5. s \in Sessions
  BY <1>1 DEF Request
<1> QED BY <1>2, <1>4, <1>5 DEF TypeOK

\* The next steps of a request are steps.
LEMMA StepTypes == \A c : AfterUser(c) \in Steps /\ AfterAccess(c) \in Steps
BY DEF AfterUser, AfterAccess, Steps

\* A step that changes nothing but the requests keeps the other types.
LEMMA OnlyStepType ==
    ASSUME TypeOK, OnlyStep
    PROVE  RestOK'
BY DEF TypeOK, OnlyStep, RestOK

LEMMA PresentType ==
    ASSUME TypeOK, NEW r \in Requests, Credentials(r) \/ Present(r)
    PROVE  RequestsOK' /\ RestOK'
<1>1. OnlyStep
  BY DEF Credentials, Present, Call
<1>2. NoToken \in Token
  BY DEF NoToken, Token
<1>3. CASE Credentials(r)
  <2>1. PICK u \in Users : \/ Call(r, "Register", "create", u, NoToken, {})
                           \/ Call(r, "Login", "locked", u, NoToken, {})
    BY <1>3 DEF Credentials
  <2> QED BY <1>1, <1>2, <2>1, CallType, OnlyStepType DEF Ops, Steps
<1>4. CASE Present(r)
  <2>1. PICK s \in Sessions, g \in 1..MaxGeneration :
          LET t == [session |-> s, gen |-> g] IN
             \/ Call(r, "Refresh", "byRefresh", Nobody, t, {})
             \/ Call(r, "Logout", "byAccess", Nobody, t, {s})
             \/ \E op \in {"RevokeOthers", "DeleteAccount", "Connect"} :
                   Call(r, op, "byAccess", Nobody, t, {})
             \/ \E x \in Sessions : Call(r, "RevokeID", "byAccess", Nobody, t, {x})
    BY <1>4 DEF Present
  <2> DEFINE t == [session |-> s, gen |-> g]
  <2>2. t \in Token
    BY SessionsAssumption DEF Token
  <2> HIDE DEF t
  <2>3. CASE Call(r, "Refresh", "byRefresh", Nobody, t, {})
    BY <1>1, <2>2, <2>3, CallType, OnlyStepType DEF Ops, Steps
  <2>4. CASE Call(r, "Logout", "byAccess", Nobody, t, {s})
    BY <1>1, <2>2, <2>4, CallType, OnlyStepType DEF Ops, Steps
  <2>5. ASSUME NEW op \in {"RevokeOthers", "DeleteAccount", "Connect"},
               Call(r, op, "byAccess", Nobody, t, {})
        PROVE  RequestsOK' /\ RestOK'
    BY <1>1, <2>2, <2>5, CallType, OnlyStepType DEF Ops, Steps
  <2>6. ASSUME NEW x \in Sessions, Call(r, "RevokeID", "byAccess", Nobody, t, {x})
        PROVE  RequestsOK' /\ RestOK'
    BY <1>1, <2>2, <2>6, CallType, OnlyStepType DEF Ops, Steps
  <2> QED BY <2>1, <2>3, <2>4, <2>5, <2>6 DEF t
<1> QED BY <1>3, <1>4

LEMMA TypeInit == Init => TypeOK
BY BlankType DEF Init, TypeOK, NoToken, Token, Rows, Blank

LEMMA TypeStep == TypeOK /\ [Next]_vars => TypeOK'
<1> SUFFICES ASSUME TypeOK, [Next]_vars PROVE RequestsOK' /\ RestOK'
  BY TypeParts, PTL
<1>0. RequestsOK /\ RestOK
  BY TypeParts
<1>1. CASE UNCHANGED vars
  BY <1>0, <1>1 DEF vars, RequestsOK, RestOK, Spares
<1>2. ASSUME NEW r \in Requests, Serve(r) PROVE RequestsOK' /\ RestOK'
  <2>0. req[r] \in Request
    BY DEF TypeOK
  <2>1. CASE Credentials(r) \/ Present(r)
    BY <2>1, PresentType
  <2>2. CASE CreateUser(r) \/ ClearFailures(r)
    <3>1. RequestsOK'
      BY <2>2, DoneType, GotoType DEF CreateUser, ClearFailures, Steps
    <3> QED BY <2>2, <3>1 DEF CreateUser, ClearFailures, TypeOK, RestOK
  <2>3. CASE CheckLocked(r) \/ Lookup(r) \/ Revoked(r) \/ Cancel(r)
    BY <2>3, DoneType, GotoType, OnlyStepType DEF CheckLocked, Lookup, Revoked, Cancel, Steps
  <2>4. CASE NoteFailure(r) \/ Issue(r) \/ UpdateSessionTokens(r) \/ DeleteAccount(r) \/ Subscribe(r)
    <3>1. RequestsOK'
      BY <2>4, DoneType DEF NoteFailure, Issue, UpdateSessionTokens, DeleteAccount, Subscribe
    <3>2. CASE NoteFailure(r)
      <4> DEFINE u == req[r].user
      <4>1. failures' = [failures EXCEPT ![u] = failures[u] + 1] /\ failures \in [Users -> Nat]
        BY <1>0, <3>2 DEF NoteFailure, RestOK
      <4> HIDE DEF u
      <4>2. CASE u \in Users
        BY <1>0, <3>1, <3>2, <4>1, <4>2 DEF NoteFailure, RestOK
      <4>3. CASE u \notin Users
        <5>1. failures' = failures
          BY <4>1, <4>3
        <5> QED BY <1>0, <3>1, <3>2, <5>1 DEF NoteFailure, RestOK
      <4> QED BY <4>2, <4>3
    <3>3. CASE Issue(r)
      BY <3>1, <3>3, <2>0, FieldTypes DEF Issue, InsertSession, TypeOK, RestOK, Rows
    <3>4. CASE UpdateSessionTokens(r)
      BY <3>1, <3>4 DEF UpdateSessionTokens, WriteTokens, NewPair, TypeOK, RestOK, Rows
    <3>5. CASE DeleteAccount(r)
      BY <3>1, <3>5 DEF DeleteAccount, DeletedRows, TypeOK, RestOK, Rows
    <3>6. CASE Subscribe(r)
      BY <3>1, <3>6, <2>0, FieldTypes DEF Subscribe, TypeOK, RestOK
    <3> QED BY <2>4, <3>1, <3>2, <3>3, <3>4, <3>5, <3>6
  <2>5. CASE ByAccess(r) \/ ByRefresh(r)
    <3>1. Done(r) \/ \E step \in Steps : req[r].token.session \in Sessions /\ Authenticated(r, step)
      BY <2>5, StepTypes DEF ByAccess, ByRefresh, AccessServes, RefreshServes, Current, Steps
    <3> QED BY <2>5, <3>1, DoneType, AuthenticatedType, OnlyStepType DEF ByAccess, ByRefresh
  <2>6. CASE ByUser(r)
    BY <2>6, DoneType, GotoType, StepTypes, OnlyStepType DEF ByUser
  <2>7. CASE ListSessions(r)
    BY <2>7, ListType, OnlyStepType DEF ListSessions
  <2>8. CASE Revoke(r)
    BY <2>8, RevokeType DEF Revoke, TypeOK, RestOK
  <2> QED BY <1>2, <2>1, <2>2, <2>3, <2>4, <2>5, <2>6, <2>7, <2>8 DEF Serve
<1>3. ASSUME NEW c \in Conns, Recheck(c) \/ Drop(c) PROVE RequestsOK' /\ RestOK'
  <2>1. UNCHANGED <<account, row, revoked, owner, gen, failures, req, restarts>>
        /\ conn' = [conn EXCEPT ![c] = NoToken]
    BY <1>3 DEF Recheck, Drop, Close
  <2> QED BY <1>0, <2>1 DEF RequestsOK, Spares, RestOK, NoToken, Token
<1>4. ASSUME NEW s \in Sessions, Expire(s) PROVE RequestsOK' /\ RestOK'
  BY <1>0, <1>4 DEF Expire, RequestsOK, Spares, RestOK, Rows
<1>5. ASSUME NEW u \in Users, Forget(u) PROVE RequestsOK' /\ RestOK'
  BY <1>0, <1>5 DEF Forget, RequestsOK, Spares, RestOK
<1>6. CASE Restart
  <2>1. Spares(Blank)
    BY DEF Spares, Blank
  <2>2. RequestsOK'
    BY <1>6, <2>1, BlankType DEF Restart, RequestsOK, Spares
  <2> QED BY <1>0, <1>6, <2>2 DEF Restart, store, RestOK, NoToken, Token
<1> QED BY <1>1, <1>2, <1>3, <1>4, <1>5, <1>6 DEF Next

\* Accounts, session rows, tokens, requests and sockets keep their types, and
\* RevokeOthers never has the session it is called with left to revoke.
THEOREM TypeCorrect == Spec => []TypeOK
BY TypeInit, TypeStep, PTL DEF Spec

-----------------------------------------------------------------------------
(* The inductive invariant                                                 *)

\* A row that was never inserted is absent; a row that is there has a live account.
RowsOK ==
    \A s \in Sessions :
        /\ gen[s] = 0 => row[s] = "absent"
        /\ row[s] # "absent" => owner[s] \in Users /\ account[owner[s]] = "live"

\* The steps of a request that come after its token was found.
Authed == {"user", "byAccess2", "user2", "rotate", "list", "revoke", "delete", "subscribe"}

\* The steps of a request that carries a username and no token.
Unauthed == {"create", "issue", "locked", "lookup", "note", "clear"}

\* The sessions no refresh or revocation finds.
Ended == {s \in Sessions : ~Unrevoked(s)}

\* An authenticated request acts for the user of its session, and revokes only sessions
\* of that user; what RevokeOthers has passed is over.  (g, o and w are gen, owner and Ended.)
Fits(c, g, o, w) ==
    /\ c.pc \in Unauthed => c.user \in Users
    /\ c.pc \in Authed => /\ c.token.session \in Sessions
                          /\ g[c.token.session] > 0
                          /\ c.user = o[c.token.session]
    /\ c.op = "Logout" => c.todo \subseteq {c.token.session}
    /\ c.pc = "revoke" => \A s \in c.todo : g[s] > 0 /\ o[s] = c.user
    /\ c.op = "RevokeOthers" /\ c.pc = "revoke" =>
          \A s \in c.listed \ c.todo : g[s] > 0 /\ s \in w

RequestsFit == \A r \in Requests : Fits(req[r], gen, owner, Ended)

SessionInv == RowsOK /\ RequestsFit

\* What every step keeps: a session that was issued stays issued to the same user, and
\* one that is over stays over and is given no new pair.
Kept ==
    \A s \in Sessions :
        /\ gen[s] > 0 => gen'[s] > 0 /\ owner'[s] = owner[s]
        /\ Over(s) => s \in Ended' /\ gen'[s] = gen[s]

\* Under such a step a request that stands still keeps what the invariant says of it.
LEMMA FitsKept ==
    ASSUME NEW c \in Request, Kept, Fits(c, gen, owner, Ended)
    PROVE  Fits(c, gen', owner', Ended')
<1>1. c.todo \subseteq Sessions /\ c.listed \subseteq Sessions
  BY FieldTypes
<1> QED BY <1>1 DEF Fits, Kept, Over, Ended

\* And so does the invariant, if the request that moves fits in its new state.
LEMMA MoveFits ==
    ASSUME TypeOK, RequestsFit, Kept, NEW r \in Requests, NEW c, Becomes(r, c),
           Fits(c, gen', owner', Ended')
    PROVE  RequestsFit'
<1> SUFFICES ASSUME NEW q \in Requests PROVE Fits(req'[q], gen', owner', Ended')
  BY DEF RequestsFit
<1>1. CASE q = r
  BY <1>1 DEF Becomes, TypeOK
<1>2. CASE q # r
  <2>1. req'[q] = req[q] /\ req[q] \in Request
    BY <1>2 DEF Becomes, TypeOK
  <2>2. Fits(req[q], gen, owner, Ended)
    BY DEF RequestsFit
  <2> QED BY <2>1, <2>2, FitsKept
<1> QED BY <1>1, <1>2

\* A free slot fits.
LEMMA BlankFits == \A g, o, w : Fits(Blank, g, o, w)
BY DEF Fits, Blank, Authed, Unauthed

LEMMA DoneFits ==
    ASSUME TypeOK, RequestsFit, Kept, NEW r \in Requests, Done(r)
    PROVE  RequestsFit'
BY BlankFits, MoveFits DEF Done

\* Steps that leave the store alone keep what Kept asks.
LEMMA StoreKept ==
    ASSUME UNCHANGED store
    PROVE  Kept
BY DEF store, Kept, Over, Ended, Unrevoked

LEMMA RequestsKept ==
    ASSUME TypeOK, RequestsFit, Kept, UNCHANGED req
    PROVE  RequestsFit'
<1> SUFFICES ASSUME NEW q \in Requests PROVE Fits(req'[q], gen', owner', Ended')
  BY DEF RequestsFit
<1> QED BY FitsKept DEF RequestsFit, TypeOK

\* Every step keeps issued and ended sessions as Kept asks, and the rows in order.
LEMMA StoreStep ==
    ASSUME TypeOK, SessionInv, [Next]_vars
    PROVE  Kept /\ RowsOK'
<1> USE DEF SessionInv
<1>1. CASE UNCHANGED store
  BY <1>1, StoreKept DEF store, RowsOK
<1>2. ASSUME NEW r \in Requests, CreateUser(r)
      PROVE  Kept /\ RowsOK'
  BY <1>2 DEF CreateUser, TypeOK, Kept, Over, RowsOK, Ended, Unrevoked
<1>3. ASSUME NEW r \in Requests, Issue(r)
      PROVE  Kept /\ RowsOK'
  <2>1. CASE UNCHANGED store
    BY <2>1, <1>1
  <2>2. CASE ~UNCHANGED store
    <3>1. /\ account[req[r].user] = "live" /\ account' = account
          /\ \E s \in Sessions : InsertSession(req[r].user, s)
      BY <1>3, <2>2 DEF Issue, UserExists, store
    <3>2. PICK s \in Sessions : InsertSession(req[r].user, s)
      BY <3>1
    <3>3. req[r].user \in Users
      BY <1>3 DEF Issue, At, RequestsFit, Fits, Unauthed
    <3> QED BY <3>1, <3>2, <3>3 DEF InsertSession, TypeOK, Kept, Over, RowsOK, Ended, Unrevoked
  <2> QED BY <2>1, <2>2
<1>4. ASSUME NEW r \in Requests, UpdateSessionTokens(r)
      PROVE  Kept /\ RowsOK'
  BY <1>4 DEF UpdateSessionTokens, WriteTokens, NewPair, Rotatable, TypeOK, Kept, Over, RowsOK, Ended,
     Unrevoked
<1>5. ASSUME NEW r \in Requests, Revoke(r)
      PROVE  Kept /\ RowsOK'
  <2>1. UNCHANGED <<account, row, owner, gen>> /\ revoked \subseteq revoked'
    BY <1>5 DEF Revoke
  <2> QED BY <2>1 DEF TypeOK, Kept, Over, RowsOK, Ended, Unrevoked
<1>6. ASSUME NEW r \in Requests, DeleteAccount(r)
      PROVE  Kept /\ RowsOK'
  BY <1>6 DEF DeleteAccount, DeletedRows, TypeOK, Kept, Over, RowsOK, Ended, Unrevoked
<1>7. ASSUME NEW s \in Sessions, Expire(s)
      PROVE  Kept /\ RowsOK'
  BY <1>7 DEF Expire, TypeOK, Kept, Over, RowsOK, Ended, Unrevoked
<1>8. ASSUME NEW r \in Requests, OnlyStep \/ NoteFailure(r) \/ ClearFailures(r) \/ Subscribe(r)
      PROVE  Kept /\ RowsOK'
  BY <1>1, <1>8 DEF OnlyStep, NoteFailure, ClearFailures, Subscribe, store
<1>9. ASSUME NEW r \in Requests, Serve(r)
      PROVE  Kept /\ RowsOK'
  <2>1. CASE \/ Credentials(r) \/ Present(r) \/ CheckLocked(r) \/ Lookup(r) \/ ByAccess(r)
             \/ ByRefresh(r) \/ ByUser(r) \/ ListSessions(r) \/ Revoked(r) \/ Cancel(r)
    <3>1. OnlyStep
      BY <2>1 DEF Credentials, Present, Call, CheckLocked, Lookup, ByAccess, ByRefresh, ByUser,
         ListSessions, Revoked, Cancel
    <3> QED BY <3>1, <1>8
  <2> QED BY <1>2, <1>3, <1>4, <1>5, <1>6, <1>8, <1>9, <2>1 DEF Serve
<1>10. CASE \/ UNCHANGED vars
            \/ \E c \in Conns : Recheck(c) \/ Drop(c)
            \/ \E u \in Users : Forget(u)
            \/ Restart
  <2>1. UNCHANGED store
    BY <1>10 DEF vars, Recheck, Drop, Close, Forget, Restart, store
  <2> QED BY <2>1, <1>1
<1> QED BY <1>7, <1>9, <1>10 DEF Next

\* A request that only moves to another step that asks nothing new still fits.
LEMMA GotoFits ==
    ASSUME TypeOK, RequestsFit, Kept, NEW r \in Requests, NEW step, Goto(r, step),
           step # "revoke",
           step \in Unauthed => req[r].pc \in Unauthed,
           step \in Authed => req[r].pc \in Authed
    PROVE  RequestsFit'
<1>1. req[r] \in Request /\ Fits(req[r], gen, owner, Ended)
  BY DEF TypeOK, RequestsFit
<1>2. Fits(req[r], gen', owner', Ended')
  BY <1>1, FitsKept
<1> DEFINE c == [req[r] EXCEPT !.pc = step]
<1>3. /\ c.pc = step /\ c.op = req[r].op /\ c.user = req[r].user /\ c.token = req[r].token
      /\ c.todo = req[r].todo /\ c.listed = req[r].listed
  BY <1>1 DEF Request
<1> HIDE DEF c
<1>4. Fits(c, gen', owner', Ended')
  BY <1>2, <1>3 DEF Fits
<1> QED BY <1>4, MoveFits DEF Goto, c

\* A call fits as the client makes it.
LEMMA CallFits ==
    ASSUME TypeOK, RequestsFit, Kept, NEW r \in Requests, NEW op, NEW step, NEW u, NEW t, NEW todo,
           Call(r, op, step, u, t, todo), step \notin Authed,
           step \in Unauthed => u \in Users, op = "Logout" => todo \subseteq {t.session}
    PROVE  RequestsFit'
<1> DEFINE c == [Blank EXCEPT !.op = op, !.pc = step, !.user = u, !.token = t, !.todo = todo]
<1>1. c.pc = step /\ c.op = op /\ c.user = u /\ c.token = t /\ c.todo = todo
  BY DEF Blank
<1>2. Becomes(r, c)
  BY DEF Call
<1> HIDE DEF c
<1>3. Fits(c, gen', owner', Ended')
  BY <1>1 DEF Fits, Authed
<1> QED BY <1>2, <1>3, MoveFits

\* A request whose token was found acts for the session's user; only Logout goes straight
\* to the write, and it revokes that very session.
LEMMA AuthenticatedFits ==
    ASSUME TypeOK, RequestsFit, Kept, NEW r \in Requests, NEW step,
           req[r].token.session \in Sessions, gen[req[r].token.session] > 0,
           UNCHANGED store, Authenticated(r, step), step \notin Unauthed,
           step = "revoke" => req[r].op = "Logout"
    PROVE  RequestsFit'
<1>1. req[r] \in Request /\ Fits(req[r], gen, owner, Ended)
  BY DEF TypeOK, RequestsFit
<1> DEFINE c == [req[r] EXCEPT !.pc = step, !.user = owner[req[r].token.session]]
<1>2. /\ c.pc = step /\ c.op = req[r].op /\ c.user = owner[req[r].token.session]
      /\ c.token = req[r].token /\ c.todo = req[r].todo
  BY <1>1 DEF Request
<1>3. Becomes(r, c)
  BY DEF Authenticated
<1> HIDE DEF c
<1>4. Fits(c, gen, owner, Ended)
  BY <1>1, <1>2 DEF Fits
<1>5. Fits(c, gen', owner', Ended')
  BY <1>4 DEF store, Ended, Unrevoked
<1> QED BY <1>3, <1>5, MoveFits

LEMMA ListFits ==
    ASSUME TypeOK, SessionInv, Kept, NEW r \in Requests, ListSessions(r)
    PROVE  RequestsFit'
<1>1. req[r] \in Request /\ Fits(req[r], gen, owner, Ended) /\ req[r].pc = "list"
  BY DEF TypeOK, SessionInv, RequestsFit, ListSessions, At
<1> DEFINE todo == ToRevoke(req[r])
           listed == IF req[r].op = "RevokeOthers" THEN todo ELSE {}
           c == [req[r] EXCEPT !.pc = "revoke", !.todo = todo, !.listed = listed]
<1>2. /\ todo \subseteq SessionsOf(req[r].user)
      /\ req[r].op # "RevokeOthers" => todo \subseteq req[r].todo
  BY DEF ToRevoke, OtherSessions
<1>3. \A s \in todo : gen[s] > 0 /\ owner[s] = req[r].user
  BY <1>2 DEF SessionsOf, SessionInv, RowsOK, TypeOK
<1> HIDE DEF todo
<1>4. /\ c.pc = "revoke" /\ c.op = req[r].op /\ c.user = req[r].user
      /\ c.token = req[r].token /\ c.todo = todo
      /\ c.op = "RevokeOthers" => c.listed = todo
  BY <1>1 DEF Request
<1>5. Done(r) \/ Becomes(r, c)
  BY DEF ListSessions, todo
<1> HIDE DEF c
<1>6. Fits(c, gen, owner, Ended)
  BY <1>1, <1>2, <1>3, <1>4 DEF Fits, Authed, Unauthed
<1>7. Fits(c, gen', owner', Ended')
  BY <1>6 DEF ListSessions, OnlyStep, Ended, Unrevoked
<1> QED BY <1>5, <1>7, MoveFits, DoneFits DEF SessionInv

LEMMA RevokeFits ==
    ASSUME TypeOK, SessionInv, Kept, NEW r \in Requests, Revoke(r)
    PROVE  RequestsFit'
<1>1. req[r] \in Request /\ Fits(req[r], gen, owner, Ended) /\ req[r].pc = "revoke"
  BY DEF TypeOK, SessionInv, RequestsFit, Revoke, At
<1>2. Fits(req[r], gen', owner', Ended')
  BY <1>1, FitsKept
<1>3. PICK s \in req[r].todo :
        IF Unrevoked(s)
        THEN /\ revoked' = revoked \cup {s}
             /\ Becomes(r, [req[r] EXCEPT !.todo = @ \ {s}])
        ELSE UNCHANGED revoked /\ Done(r)
  BY DEF Revoke
<1>4. CASE Done(r)
  BY <1>4, DoneFits DEF SessionInv
<1>5. CASE ~Done(r)
  <2> DEFINE c == [req[r] EXCEPT !.todo = @ \ {s}]
  <2>1. /\ c.pc = "revoke" /\ c.op = req[r].op /\ c.user = req[r].user /\ c.token = req[r].token
        /\ c.todo = req[r].todo \ {s} /\ c.listed = req[r].listed
    BY <1>1 DEF Request
  <2>2. Becomes(r, c) /\ s \in revoked'
    BY <1>3, <1>5
  <2>3. s \in Sessions /\ gen'[s] > 0 /\ s \in Ended'
    BY <1>1, <2>2 DEF Fits, Request, Revoke, TypeOK, Ended, Unrevoked
  <2> HIDE DEF c
  <2>4. Fits(c, gen', owner', Ended')
    BY <1>1, <1>2, <2>1, <2>3 DEF Fits
  <2> QED BY <2>2, <2>4, MoveFits DEF SessionInv
<1> QED BY <1>4, <1>5

LEMMA PresentFits ==
    ASSUME TypeOK, RequestsFit, Kept, NEW r \in Requests, Credentials(r) \/ Present(r)
    PROVE  RequestsFit'
<1>1. CASE Credentials(r)
  BY <1>1, CallFits DEF Credentials, Authed
<1>2. CASE Present(r)
  <2>1. PICK s \in Sessions, g \in 1..MaxGeneration :
          LET t == [session |-> s, gen |-> g] IN
             \/ Call(r, "Refresh", "byRefresh", Nobody, t, {})
             \/ Call(r, "Logout", "byAccess", Nobody, t, {s})
             \/ \E op \in {"RevokeOthers", "DeleteAccount", "Connect"} :
                   Call(r, op, "byAccess", Nobody, t, {})
             \/ \E x \in Sessions : Call(r, "RevokeID", "byAccess", Nobody, t, {x})
    BY <1>2 DEF Present
  <2> DEFINE t == [session |-> s, gen |-> g]
  <2>2. t.session = s
    OBVIOUS
  <2> HIDE DEF t
  <2>3. CASE Call(r, "Refresh", "byRefresh", Nobody, t, {})
    BY <2>3, CallFits DEF Authed, Unauthed
  <2>4. CASE Call(r, "Logout", "byAccess", Nobody, t, {s})
    BY <2>2, <2>4, CallFits DEF Authed, Unauthed
  <2>5. ASSUME NEW op \in {"RevokeOthers", "DeleteAccount", "Connect"},
               Call(r, op, "byAccess", Nobody, t, {})
        PROVE  RequestsFit'
    BY <2>5, CallFits DEF Authed, Unauthed
  <2>6. ASSUME NEW x \in Sessions, Call(r, "RevokeID", "byAccess", Nobody, t, {x})
        PROVE  RequestsFit'
    BY <2>6, CallFits DEF Authed, Unauthed
  <2> QED BY <2>1, <2>3, <2>4, <2>5, <2>6 DEF t
<1> QED BY <1>1, <1>2

LEMMA RequestStep ==
    ASSUME TypeOK, SessionInv, [Next]_vars
    PROVE  RequestsFit'
<1>0. Kept /\ RequestsFit
  BY StoreStep DEF SessionInv
<1>1. ASSUME NEW r \in Requests, Serve(r) PROVE RequestsFit'
  <2> USE <1>0 DEF At
  <2>1. CASE Credentials(r) \/ Present(r)
    BY <2>1, PresentFits
  <2>2. CASE CreateUser(r) \/ CheckLocked(r) \/ Lookup(r) \/ ClearFailures(r)
    BY <2>2, DoneFits, GotoFits DEF CreateUser, CheckLocked, Lookup, ClearFailures, Unauthed, Authed
  <2>3. CASE \/ NoteFailure(r) \/ Issue(r) \/ UpdateSessionTokens(r) \/ Revoked(r)
             \/ DeleteAccount(r) \/ Subscribe(r) \/ Cancel(r)
    BY <2>3, DoneFits DEF NoteFailure, Issue, UpdateSessionTokens, Revoked, DeleteAccount,
       Subscribe, Cancel
  <2>4. CASE ByAccess(r) \/ ByRefresh(r)
    <3>1. UNCHANGED store
      BY <2>4 DEF ByAccess, ByRefresh, OnlyStep, store
    <3>2. \/ Done(r)
          \/ /\ req[r].token.session \in Sessions /\ gen[req[r].token.session] > 0
             /\ Authenticated(r, "user") \/ Authenticated(r, AfterAccess(req[r]))
      BY <2>4 DEF ByAccess, ByRefresh, AccessServes, RefreshServes, Current, SessionInv, RowsOK, TypeOK
    <3>3. AfterAccess(req[r]) \notin Unauthed /\ (AfterAccess(req[r]) = "revoke" => req[r].op = "Logout")
      BY DEF AfterAccess, Unauthed
    <3>4. "user" \notin Unauthed
      BY DEF Unauthed
    <3> QED BY <3>1, <3>2, <3>3, <3>4, DoneFits, AuthenticatedFits
  <2>5. CASE ByUser(r)
    <3>1. AfterUser(req[r]) \in Authed \ (Unauthed \cup {"revoke"})
      BY DEF AfterUser, Authed, Unauthed
    <3>2. req[r].pc \in Authed
      BY <2>5 DEF ByUser, Authed
    <3> QED BY <2>5, <3>1, <3>2, DoneFits, GotoFits DEF ByUser
  <2>6. CASE ListSessions(r)
    BY <2>6, ListFits
  <2>7. CASE Revoke(r)
    BY <2>7, RevokeFits
  <2> QED BY <1>1, <2>1, <2>2, <2>3, <2>4, <2>5, <2>6, <2>7 DEF Serve
<1>2. CASE UNCHANGED req
  BY <1>0, <1>2, RequestsKept
<1>3. CASE Restart
  BY <1>3, BlankFits DEF Restart, RequestsFit
<1> QED BY <1>1, <1>2, <1>3 DEF Next, vars, Recheck, Drop, Close, Expire, Forget

LEMMA InvInit == Init => SessionInv
BY BlankFits DEF Init, SessionInv, RowsOK, RequestsFit

LEMMA InvStep == TypeOK /\ SessionInv /\ [Next]_vars => SessionInv'
BY StoreStep, RequestStep DEF SessionInv

LEMMA Invariance == Spec => [](TypeOK /\ SessionInv)
BY TypeCorrect, InvInit, InvStep, PTL DEF Spec

-----------------------------------------------------------------------------
(* The theorems                                                            *)

\* No refresh, login or late write of an overlapping request brings back a session that
\* was revoked or deleted, or gives it a new pair, and no restart does.
THEOREM OverForever == Spec => SessionStaysOver
<1>1. TypeOK /\ SessionInv /\ [Next]_vars =>
        [\A s \in Sessions : Over(s) => Over(s)' /\ gen'[s] = gen[s]]_vars
  BY StoreStep DEF Kept, Over, Ended
<1> QED BY <1>1, Invariance, PTL DEF Spec, SessionStaysOver

\* No session row is ever without its account.
THEOREM AccountsOutliveSessions == Spec => []SessionsHaveAccounts
<1>1. SessionInv => SessionsHaveAccounts
  BY DEF SessionInv, RowsOK, SessionsHaveAccounts
<1> QED BY <1>1, Invariance, PTL

\* Whatever RevokeOthers has passed is over, so when it answers all it listed is.
THEOREM RevokeOthersRevokes == Spec => []PassedAreOver
<1>1. SessionInv => PassedAreOver
  BY DEF SessionInv, RequestsFit, Fits, PassedAreOver, Over, Ended
<1> QED BY <1>1, Invariance, PTL

\* A step that ends a session is the write of a request of the session's user.
LEMMA OwnStep ==
    ASSUME TypeOK, SessionInv, [Next]_vars, NEW s \in Sessions, ~Over(s), Over(s)'
    PROVE  \E r \in Requests : /\ req[r].pc \in {"revoke", "delete"}
                               /\ req[r].user = owner[s]
                               /\ owner[req[r].token.session] = owner[s]
<1> USE DEF At
<1>1. CASE UNCHANGED <<row, revoked, gen>>
  BY <1>1 DEF Over, Unrevoked
<1>2. ASSUME NEW r \in Requests, Revoke(r)
      PROVE  req[r].pc = "revoke" /\ req[r].user = owner[s] /\ owner[req[r].token.session] = owner[s]
  <2>1. Fits(req[r], gen, owner, Ended) /\ req[r].pc = "revoke" /\ req[r] \in Request
    BY <1>2 DEF SessionInv, RequestsFit, Revoke, TypeOK
  <2>2. UNCHANGED <<row, gen>> /\ revoked' \ revoked \subseteq req[r].todo
    BY <1>2 DEF Revoke
  <2>3. s \in req[r].todo
    BY <2>2 DEF Over, Unrevoked
  <2> QED BY <2>1, <2>3 DEF Fits, Authed
<1>3. ASSUME NEW r \in Requests, DeleteAccount(r)
      PROVE  req[r].pc = "delete" /\ req[r].user = owner[s] /\ owner[req[r].token.session] = owner[s]
  <2>1. Fits(req[r], gen, owner, Ended) /\ req[r].pc = "delete"
    BY <1>3 DEF SessionInv, RequestsFit, DeleteAccount
  <2>2. owner[s] = req[r].user
    BY <1>3 DEF DeleteAccount, DeletedRows, Over, Unrevoked, TypeOK
  <2> QED BY <2>1, <2>2 DEF Fits, Authed
<1>4. ASSUME NEW r \in Requests, Issue(r)
      PROVE  FALSE
  <2>1. ~UNCHANGED <<row, revoked, gen>>
    BY <1>1, <1>4 DEF Over, Unrevoked
  <2>2. PICK x \in Sessions : InsertSession(req[r].user, x)
    BY <1>4, <2>1 DEF Issue
  <2> QED BY <2>2 DEF InsertSession, Over, Unrevoked, TypeOK
<1>5. ASSUME NEW r \in Requests, UpdateSessionTokens(r)
      PROVE  FALSE
  <2> DEFINE x == req[r].token.session
  <2>1. gen'[s] > 0
    BY <1>5 DEF Over
  <2>2. revoked' = revoked /\ (UNCHANGED <<row, gen>> \/ (Unrevoked(x) /\ NewPair(x)))
    BY <1>5 DEF UpdateSessionTokens, WriteTokens, Rotatable
  <2>3. Unrevoked(x) /\ NewPair(x)
    BY <2>2 DEF Over, Unrevoked
  <2> HIDE DEF x
  <2>4. x = s => Unrevoked(s)'
    BY <2>2, <2>3 DEF NewPair, Unrevoked, TypeOK
  <2>5. x # s => gen'[s] = gen[s] /\ row'[s] = row[s]
    BY <2>3 DEF NewPair, TypeOK
  <2> QED BY <2>1, <2>2, <2>4, <2>5 DEF Over, Unrevoked
<1>6. ASSUME NEW x \in Sessions, Expire(x)
      PROVE  FALSE
  BY <1>6 DEF Expire, Over, Unrevoked, TypeOK
<1>7. ASSUME NEW r \in Requests, Serve(r), ~Revoke(r), ~DeleteAccount(r), ~Issue(r),
             ~UpdateSessionTokens(r)
      PROVE  UNCHANGED <<row, revoked, gen>>
  BY <1>7 DEF Serve, Credentials, Present, Call, CheckLocked, Lookup, ByAccess, ByRefresh, ByUser,
     ListSessions, Revoked, Cancel, CreateUser, NoteFailure, ClearFailures, Subscribe, OnlyStep
<1>8. ASSUME NEW r \in Requests, Serve(r)
      PROVE  Revoke(r) \/ DeleteAccount(r)
  BY <1>1, <1>4, <1>5, <1>7, <1>8 DEF Over, Unrevoked
<1>9. CASE UNCHANGED vars \/ Restart \/ (\E c \in Conns : Recheck(c) \/ Drop(c))
           \/ \E u \in Users : Forget(u)
  BY <1>1, <1>9 DEF vars, Restart, store, Recheck, Drop, Close, Forget, Over, Unrevoked
<1> QED BY <1>2, <1>3, <1>6, <1>8, <1>9 DEF Next

\* Only a request of its own user ends a session.
THEOREM OwnUserEndsSession == Spec => OnlyOwnSessions
<1> DEFINE Ends(s) == \E r \in Requests : /\ req[r].pc \in {"revoke", "delete"}
                                          /\ req[r].user = owner[s]
                                          /\ owner[req[r].token.session] = owner[s]
<1>1. TypeOK /\ SessionInv /\ [Next]_vars =>
        [\A s \in Sessions : ~Over(s) /\ Over(s)' => Ends(s)]_vars
  BY OwnStep
<1> QED BY <1>1, Invariance, PTL DEF Spec, OnlyOwnSessions

-----------------------------------------------------------------------------
(* The login limit                                                         *)

\* The attempts on u that have passed the lock and not been judged yet.
Past(u) == {r \in Requests : req[r].user = u /\ req[r].pc \in {"lookup", "note"}}

\* Each of them may still add a failure.
LimitInv ==
    \A u \in Users : failures[u] + Cardinality(Past(u)) <= LoginLimit + Cardinality(Requests) - 1

LEMMA PastFinite ==
    \A u : /\ IsFiniteSet(Past(u)) /\ Cardinality(Past(u)) \in Nat
           /\ Cardinality(Past(u)) <= Cardinality(Requests) /\ Cardinality(Requests) \in Nat
BY FS_Subset, FS_CardinalityType, SessionsAssumption DEF Past

LEMMA PastFiniteNext ==
    \A u : /\ IsFiniteSet(Past(u)') /\ Cardinality(Past(u)') \in Nat
           /\ Cardinality(Past(u)') <= Cardinality(Requests)
BY FS_Subset, FS_CardinalityType, SessionsAssumption DEF Past

\* A user whose failures and open attempts do not grow stays within the limit.
LEMMA LimitShrinks ==
    ASSUME TypeOK, LimitInv, NEW u \in Users,
           failures'[u] \in Nat, failures'[u] <= failures[u], Past(u)' \subseteq Past(u)
    PROVE  failures'[u] + Cardinality(Past(u)') <= LoginLimit + Cardinality(Requests) - 1
<1>1. Cardinality(Past(u)') <= Cardinality(Past(u))
  BY PastFinite, FS_Subset
<1>2. failures[u] \in Nat /\ LoginLimit \in Nat
  BY SessionsAssumption DEF TypeOK
<1> QED BY <1>1, <1>2, PastFinite, PastFiniteNext DEF LimitInv

\* An attempt passes the lock only below the limit.
LEMMA LimitCheck ==
    ASSUME TypeOK, LimitInv, NEW r \in Requests, CheckLocked(r), NEW u \in Users
    PROVE  failures'[u] + Cardinality(Past(u)') <= LoginLimit + Cardinality(Requests) - 1
<1>1. failures' = failures /\ failures[u] \in Nat /\ LoginLimit \in Nat
  BY SessionsAssumption DEF CheckLocked, OnlyStep, TypeOK
<1>2. CASE req[r].user = u /\ ~LoginLocked(u)
  <2>1. failures[u] <= LoginLimit - 1
    BY <1>1, <1>2 DEF LoginLocked
  <2>2. /\ Cardinality(Past(u)') \in Nat /\ Cardinality(Requests) \in Nat
        /\ Cardinality(Past(u)') <= Cardinality(Requests)
    BY PastFinite, PastFiniteNext
  <2>3. failures'[u] <= LoginLimit - 1
    BY <1>1, <2>1
  <2> QED BY <1>1, <2>2, <2>3
<1>3. CASE ~(req[r].user = u /\ ~LoginLocked(u))
  <2>1. Past(u)' \subseteq Past(u)
    BY <1>3 DEF CheckLocked, Goto, Done, Becomes, Blank, Past, TypeOK, Request
  <2>2. failures'[u] \in Nat /\ failures'[u] <= failures[u]
    BY <1>1
  <2> QED BY <2>1, <2>2, LimitShrinks
<1> QED BY <1>2, <1>3

\* A failure that is noted is no longer an open attempt.
LEMMA LimitNote ==
    ASSUME TypeOK, LimitInv, NEW r \in Requests, NoteFailure(r), NEW u \in Users
    PROVE  failures'[u] + Cardinality(Past(u)') <= LoginLimit + Cardinality(Requests) - 1
<1>1. Past(u)' = Past(u) \ {r}
  BY DEF NoteFailure, Done, Becomes, Blank, Past, TypeOK
<1>2. failures[u] \in Nat /\ LoginLimit \in Nat
  BY SessionsAssumption DEF TypeOK
<1>3. CASE req[r].user = u
  <2>1. r \in Past(u)
    BY <1>3 DEF NoteFailure, At, Past
  <2>2. Cardinality(Past(u)') = Cardinality(Past(u)) - 1
    BY <1>1, <2>1, PastFinite, FS_RemoveElement
  <2>3. failures'[u] = failures[u] + 1
    BY <1>3 DEF NoteFailure, TypeOK
  <2> QED BY <1>2, <2>2, <2>3, PastFinite DEF LimitInv
<1>4. CASE req[r].user # u
  <2>1. failures'[u] = failures[u]
    BY <1>4 DEF NoteFailure, TypeOK
  <2>2. failures'[u] \in Nat /\ failures'[u] <= failures[u]
    BY <1>2, <2>1
  <2>3. Past(u)' \subseteq Past(u)
    BY <1>1
  <2> QED BY <2>2, <2>3, LimitShrinks
<1> QED BY <1>3, <1>4

\* No other step of a request adds an attempt.
LEMMA PastShrinks ==
    ASSUME TypeOK, NEW r \in Requests, Serve(r), ~CheckLocked(r), NEW u \in Users
    PROVE  Past(u)' \subseteq Past(u)
<1>0. req[r] \in Request
  BY DEF TypeOK
<1>1. ASSUME NEW c, Becomes(r, c), c.pc \notin {"lookup", "note"}
      PROVE  Past(u)' \subseteq Past(u)
  BY <1>1 DEF Becomes, Past, TypeOK
<1>2. CASE Done(r)
  BY <1>1, <1>2 DEF Done, Blank
<1>3. ASSUME NEW step, Goto(r, step), step \notin {"lookup", "note"}
      PROVE  Past(u)' \subseteq Past(u)
  <2>1. [req[r] EXCEPT !.pc = step].pc = step
    BY <1>0 DEF Request
  <2> QED BY <1>1, <1>3, <2>1 DEF Goto
<1>4. ASSUME NEW op, NEW step, NEW x, NEW t, NEW todo, Call(r, op, step, x, t, todo),
             step \notin {"lookup", "note"}
      PROVE  Past(u)' \subseteq Past(u)
  <2> DEFINE c == [Blank EXCEPT !.op = op, !.pc = step, !.user = x, !.token = t, !.todo = todo]
  <2>1. c.pc = step /\ Becomes(r, c)
    BY <1>4 DEF Call, Blank
  <2> HIDE DEF c
  <2> QED BY <1>1, <1>4, <2>1
<1>5. CASE Credentials(r)
  BY <1>4, <1>5 DEF Credentials
<1>6. CASE Present(r)
  <2>1. PICK s \in Sessions, g \in 1..MaxGeneration :
          LET t == [session |-> s, gen |-> g] IN
             \/ Call(r, "Refresh", "byRefresh", Nobody, t, {})
             \/ Call(r, "Logout", "byAccess", Nobody, t, {s})
             \/ \E op \in {"RevokeOthers", "DeleteAccount", "Connect"} :
                   Call(r, op, "byAccess", Nobody, t, {})
             \/ \E x \in Sessions : Call(r, "RevokeID", "byAccess", Nobody, t, {x})
    BY <1>6 DEF Present
  <2>2. ASSUME NEW op, NEW step, NEW t, NEW todo, Call(r, op, step, Nobody, t, todo),
               step \in {"byRefresh", "byAccess"}
        PROVE  Past(u)' \subseteq Past(u)
    BY <1>4, <2>2
  <2> DEFINE t == [session |-> s, gen |-> g]
  <2> HIDE DEF t
  <2>3. CASE Call(r, "Refresh", "byRefresh", Nobody, t, {}) \/ Call(r, "Logout", "byAccess", Nobody, t, {s})
    BY <2>2, <2>3
  <2>4. ASSUME NEW op, NEW x, Call(r, op, "byAccess", Nobody, t, x)
        PROVE  Past(u)' \subseteq Past(u)
    BY <2>2, <2>4
  <2> QED BY <2>1, <2>3, <2>4 DEF t
<1>7. CASE Lookup(r)
  BY <1>0, <1>7 DEF Lookup, At, Goto, Becomes, Past, TypeOK, Request
<1>8. CASE ByAccess(r) \/ ByRefresh(r)
  <2>1. ASSUME NEW step, Authenticated(r, step), step \notin {"lookup", "note"}
        PROVE  Past(u)' \subseteq Past(u)
    <3> DEFINE c == [req[r] EXCEPT !.pc = step, !.user = owner[req[r].token.session]]
    <3>1. c.pc = step /\ Becomes(r, c)
      BY <1>0, <2>1 DEF Authenticated, Request
    <3> HIDE DEF c
    <3> QED BY <1>1, <2>1, <3>1
  <2>2. AfterAccess(req[r]) \notin {"lookup", "note"}
    BY DEF AfterAccess
  <2> QED BY <1>2, <1>8, <2>1, <2>2 DEF ByAccess, ByRefresh
<1>9. CASE ByUser(r)
  <2>1. AfterUser(req[r]) \notin {"lookup", "note"}
    BY DEF AfterUser
  <2> QED BY <1>2, <1>3, <1>9, <2>1 DEF ByUser
<1>10. CASE ListSessions(r)
  <2> DEFINE todo == ToRevoke(req[r])
             listed == IF req[r].op = "RevokeOthers" THEN todo ELSE {}
             c == [req[r] EXCEPT !.pc = "revoke", !.todo = todo, !.listed = listed]
  <2>1. Done(r) \/ Becomes(r, c)
    BY <1>10 DEF ListSessions
  <2>2. c.pc = "revoke"
    BY <1>0 DEF Request
  <2> HIDE DEF c
  <2> QED BY <1>1, <1>2, <2>1, <2>2
<1>11. CASE Revoke(r)
  <2>1. req[r].pc = "revoke"
    BY <1>11 DEF Revoke, At
  <2>2. PICK s \in req[r].todo : Done(r) \/ Becomes(r, [req[r] EXCEPT !.todo = @ \ {s}])
    BY <1>11 DEF Revoke
  <2>3. [req[r] EXCEPT !.todo = @ \ {s}].pc = "revoke"
    BY <1>0, <2>1 DEF Request
  <2> QED BY <1>1, <1>2, <2>2, <2>3
<1>12. CASE CreateUser(r) \/ ClearFailures(r)
  BY <1>2, <1>3, <1>12 DEF CreateUser, ClearFailures
<1>13. CASE \/ NoteFailure(r) \/ Issue(r) \/ UpdateSessionTokens(r) \/ Revoked(r)
            \/ DeleteAccount(r) \/ Subscribe(r) \/ Cancel(r)
  BY <1>2, <1>13 DEF NoteFailure, Issue, UpdateSessionTokens, Revoked, DeleteAccount, Subscribe, Cancel
<1> QED BY <1>5, <1>6, <1>7, <1>8, <1>9, <1>10, <1>11, <1>12, <1>13 DEF Serve

LEMMA LimitInit == Init => LimitInv
<1> SUFFICES ASSUME Init, NEW u \in Users
             PROVE  failures[u] + Cardinality(Past(u)) <= LoginLimit + Cardinality(Requests) - 1
  BY DEF LimitInv
<1>1. Past(u) = {} /\ failures[u] = 0
  BY DEF Init, Past, Blank
<1>2. Cardinality(Past(u)) = 0
  BY <1>1, FS_EmptySet
<1> QED BY <1>1, <1>2, PastFinite, SessionsAssumption

LEMMA LimitStep == TypeOK /\ TypeOK' /\ LimitInv /\ [Next]_vars => LimitInv'
<1> SUFFICES ASSUME TypeOK, TypeOK', LimitInv, [Next]_vars, NEW u \in Users
             PROVE  failures'[u] + Cardinality(Past(u)') <= LoginLimit + Cardinality(Requests) - 1
  BY DEF LimitInv
<1>0. failures[u] \in Nat /\ failures'[u] \in Nat
  BY DEF TypeOK
<1>1. ASSUME NEW r \in Requests, Serve(r)
      PROVE  failures'[u] + Cardinality(Past(u)') <= LoginLimit + Cardinality(Requests) - 1
  <2>1. CASE CheckLocked(r)
    BY <2>1, LimitCheck
  <2>2. CASE NoteFailure(r)
    BY <2>2, LimitNote
  <2>3. CASE ~CheckLocked(r) /\ ~NoteFailure(r)
    <3>1. UNCHANGED failures \/ ClearFailures(r)
      BY <1>1, <2>3 DEF Serve, Credentials, Present, Call, Lookup, ByAccess, ByRefresh, ByUser,
         ListSessions, Revoke, Revoked, Cancel, CreateUser, Issue, UpdateSessionTokens,
         DeleteAccount, Subscribe, OnlyStep
    <3>2. failures'[u] <= failures[u]
      BY <1>0, <3>1 DEF ClearFailures, TypeOK
    <3> QED BY <1>0, <1>1, <2>3, <3>2, PastShrinks, LimitShrinks
  <2> QED BY <2>1, <2>2, <2>3
<1>2. CASE UNCHANGED <<req, failures>>
  BY <1>0, <1>2, LimitShrinks DEF Past
<1>3. CASE \E v \in Users : Forget(v)
  <2>1. failures'[u] <= failures[u] /\ req' = req
    BY <1>0, <1>3 DEF Forget, TypeOK
  <2> QED BY <1>0, <2>1, LimitShrinks DEF Past
<1>4. CASE Restart
  <2>1. failures'[u] <= failures[u] /\ Past(u)' = {}
    BY <1>0, <1>4 DEF Restart, Past, Blank
  <2> QED BY <1>0, <2>1, LimitShrinks
<1> QED BY <1>1, <1>2, <1>3, <1>4 DEF Next, vars, Recheck, Drop, Close, Expire

\* Overlapping attempts on a username exceed the limit by less than their number.
THEOREM LimitExceededByOverlap == Spec => []FailuresBounded
<1>1. TypeOK /\ LimitInv => FailuresBounded
  <2> SUFFICES ASSUME TypeOK, LimitInv, NEW u \in Users
               PROVE  failures[u] <= LoginLimit + Cardinality(Requests) - 1
    BY DEF FailuresBounded
  <2> QED BY PastFinite, SessionsAssumption DEF LimitInv, TypeOK
<1> QED BY <1>1, TypeCorrect, LimitInit, LimitStep, PTL DEF Spec
=============================================================================
