------------------------------ MODULE Sessions ------------------------------
(***************************************************************************)
(* Login sessions on the server: sign-up, login, refresh, logout,          *)
(* revocation, account deletion, and the realtime sockets they open.       *)
(*                                                                         *)
(* auth.Service keeps no lock over a request: each call on PostgresStore   *)
(* (the store of cmd/server) is atomic, and the calls of concurrent        *)
(* requests interleave.  A request is a record of `req` whose pc names the *)
(* store call it makes next.  The pair of tokens a client holds is a       *)
(* session id and a generation: UpdateSessionTokens replaces both hashes   *)
(* of the row at once, so only the last generation can be found.  A user   *)
(* is one users row; a name taken again after a deletion is another user.  *)
(***************************************************************************)
EXTENDS Integers, FiniteSets

CONSTANTS
    Users,           \* users.id
    Sessions,        \* sessions.id
    Requests,        \* slots for requests served at one time
    Conns,           \* slots for realtime sockets
    Nobody, Nothing, \* the absence of a user; of a session
    LoginLimit,      \* failures that lock a username: 8 in loginLocked
    MaxGeneration,   \* bound: pairs issued for one session
    MaxPairs,        \* bound: pairs issued for any two sessions together
    MaxRestarts,     \* bound: server restarts
    Operations       \* bound: the calls clients make in this instance

Ops == {"Register", "Login", "Refresh", "Logout", "RevokeOthers", "RevokeID",
        "DeleteAccount", "Connect"}

ASSUME SessionsAssumption ==
    /\ Nobody \notin Users
    /\ Nothing \notin Sessions
    /\ IsFiniteSet(Requests)
    /\ LoginLimit \in Nat \ {0}
    /\ MaxGeneration \in Nat /\ MaxPairs \in Nat
    /\ MaxRestarts \in Nat
    /\ Operations \subseteq Ops

VARIABLES
    account,   \* account[u]: has the users row not been inserted, is it there, is it gone
    row,       \* row[s]: the sessions row with its expires_at and refresh_expires_at
    revoked,   \* sessions whose row has revoked_at set
    owner,     \* owner[s]: user_id, kept here when the row is deleted
    gen,       \* gen[s]: how many pairs the session has had; 0 before its insertion
    failures,  \* failures[u]: len(logins[username]), in memory
    req,       \* the requests being served
    conn,      \* conn[c]: the token a socket was opened with
    restarts   \* how often the server has restarted

store == <<account, row, revoked, owner, gen>>
vars == <<account, row, revoked, owner, gen, failures, req, conn, restarts>>

-----------------------------------------------------------------------------
(* Types                                                                   *)

\* "fresh": both tokens serve; "stale": the access token has expired;
\* "spent": the refresh token too; "absent": no row.
Rows == {"fresh", "stale", "spent", "absent"}

Steps == {"idle", "create", "issue", "locked", "lookup", "note", "clear", "byRefresh", "rotate",
          "byAccess", "user", "byAccess2", "user2", "list", "revoke", "delete", "subscribe"}

Token == [session : Sessions \cup {Nothing}, gen : Nat]
NoToken == [session |-> Nothing, gen |-> 0]

Request == [op : Ops \cup {"none"}, pc : Steps, user : Users \cup {Nobody},
            token : Token,             \* the pair the client presents
            listed : SUBSET Sessions,  \* the sessions RevokeOthers sets out to revoke
            todo : SUBSET Sessions]    \* those it, Logout or RevokeID still has to revoke

Blank == [op |-> "none", pc |-> "idle", user |-> Nobody, token |-> NoToken,
          listed |-> {}, todo |-> {}]

\* Every variable has its type; RevokeOthers spares the session it is called with.
TypeOK ==
    /\ account \in [Users -> {"none", "live", "deleted"}]
    /\ row \in [Sessions -> Rows]
    /\ revoked \subseteq Sessions
    /\ owner \in [Sessions -> Users \cup {Nobody}]
    /\ gen \in [Sessions -> Nat]
    /\ failures \in [Users -> Nat]
    /\ req \in [Requests -> Request]
    /\ conn \in [Conns -> Token]
    /\ restarts \in Nat
    /\ \A r \in Requests : req[r].op = "RevokeOthers" => req[r].token.session \notin req[r].todo

-----------------------------------------------------------------------------
(* Reading the store                                                       *)

\* A row that revoked_at IS NULL finds.
Unrevoked(s) == row[s] # "absent" /\ s \notin revoked

Current(t) == t.session \in Sessions /\ gen[t.session] = t.gen
\* sessionByAccess finds a row that is neither revoked nor expired.
AccessServes(t) == Current(t) /\ Unrevoked(t.session) /\ row[t.session] = "fresh"
RefreshServes(t) == Current(t) /\ Unrevoked(t.session) /\ row[t.session] \in {"fresh", "stale"}
\* Slip: the ticker forgets that a row can be revoked or expired.
ServesWhileListed(t) == Current(t) /\ row[t.session] # "absent"
\* CurrentSession
Serves(t) == AccessServes(t) /\ account[owner[t.session]] = "live"

SessionsOf(u) == {s \in Sessions : owner[s] = u /\ row[s] # "absent"}
OtherSessions(c) == {s \in SessionsOf(c.user) : Unrevoked(s)} \ {c.token.session}
\* Slip: one attempt more.
LockedLate(u) == failures[u] > LoginLimit
LoginLocked(u) == failures[u] >= LoginLimit

-----------------------------------------------------------------------------
(* Control of a request                                                    *)

At(r, step) == req[r].pc = step
Becomes(r, c) == req' = [req EXCEPT ![r] = c]
Goto(r, step) == Becomes(r, [req[r] EXCEPT !.pc = step])
Done(r) == Becomes(r, Blank)
OnlyStep == UNCHANGED <<account, row, revoked, owner, gen, failures, conn, restarts>>

Call(r, op, step, u, t, todo) ==
    /\ req[r].pc = "idle"
    /\ op \in Operations
    /\ Becomes(r, [Blank EXCEPT !.op = op, !.pc = step, !.user = u, !.token = t, !.todo = todo])
    /\ OnlyStep

Credentials(r) ==
    \E u \in Users :
        \/ Call(r, "Register", "create", u, NoToken, {})
        \/ Call(r, "Login", "locked", u, NoToken, {})

\* A client presents a pair it was given: the session's last one or an earlier one.
Present(r) ==
    \E s \in Sessions, g \in 1..MaxGeneration :
        /\ g <= gen[s]
        /\ LET t == [session |-> s, gen |-> g] IN
           \/ Call(r, "Refresh", "byRefresh", Nobody, t, {})
           \/ Call(r, "Logout", "byAccess", Nobody, t, {s})
           \/ \E op \in {"RevokeOthers", "DeleteAccount", "Connect"} :
                 Call(r, op, "byAccess", Nobody, t, {})
           \/ \E x \in Sessions : Call(r, "RevokeID", "byAccess", Nobody, t, {x})

-----------------------------------------------------------------------------
(* Register and Login                                                      *)

CreateUser(r) ==
    /\ At(r, "create")
    /\ IF account[req[r].user] = "none"
       THEN /\ account' = [account EXCEPT ![req[r].user] = "live"]
            /\ Goto(r, "issue")
       ELSE UNCHANGED account /\ Done(r)
    /\ UNCHANGED <<row, revoked, owner, gen, failures, conn, restarts>>

CheckLocked(r) ==
    /\ At(r, "locked")
    /\ IF LoginLocked(req[r].user) THEN Done(r) ELSE Goto(r, "lookup")
    /\ OnlyStep

\* GetUserByUsername, then ComparePassword with whatever password the client sent.
Lookup(r) ==
    /\ At(r, "lookup")
    /\ \/ account[req[r].user] = "live" /\ Goto(r, "clear")
       \/ Goto(r, "note")
    /\ OnlyStep

NoteFailure(r) ==
    /\ At(r, "note")
    /\ failures' = [failures EXCEPT ![req[r].user] = @ + 1]
    /\ Done(r)
    /\ UNCHANGED <<account, row, revoked, owner, gen, conn, restarts>>

ClearFailures(r) ==
    /\ At(r, "clear")
    /\ failures' = [failures EXCEPT ![req[r].user] = 0]
    /\ Goto(r, "issue")
    /\ UNCHANGED <<account, row, revoked, owner, gen, conn, restarts>>

\* Slip: no foreign key.
UserKnown(u) == account[u] # "none"
\* sessions.user_id REFERENCES users: no session is inserted for a deleted account.
UserExists(u) == account[u] = "live"

InsertSession(u, s) ==
    /\ gen[s] = 0
    /\ row' = [row EXCEPT ![s] = "fresh"]
    /\ revoked' = revoked \ {s}
    /\ owner' = [owner EXCEPT ![s] = u]
    /\ gen' = [gen EXCEPT ![s] = 1]

Issue(r) ==
    /\ At(r, "issue")
    /\ Done(r)
    /\ IF UserExists(req[r].user)
       THEN \E s \in Sessions : InsertSession(req[r].user, s)
       ELSE UNCHANGED <<row, revoked, owner, gen>>
    /\ UNCHANGED <<account, failures, conn, restarts>>

-----------------------------------------------------------------------------
(* Authentication of a request by one of its tokens                        *)

\* Where a request goes once GetUserByID has found the user.  DeleteAccount runs
\* CurrentSession twice: in the HTTP handler and again in the service.
AfterUser(c) ==
    IF c.op = "Refresh" THEN "rotate"
    ELSE IF c.op \in {"RevokeOthers", "RevokeID"} THEN "list"
    ELSE IF c.op = "Connect" THEN "subscribe"
    ELSE IF c.pc = "user" THEN "byAccess2"
    ELSE "delete"

\* Logout stops at sessionByAccess; every other call looks the user up too.
AfterAccess(c) ==
    IF c.op = "Logout" THEN "revoke" ELSE IF c.pc = "byAccess" THEN "user" ELSE "user2"

Authenticated(r, step) ==
    Becomes(r, [req[r] EXCEPT !.pc = step, !.user = owner[req[r].token.session]])

ByAccess(r) ==
    /\ req[r].pc \in {"byAccess", "byAccess2"}
    /\ IF AccessServes(req[r].token) THEN Authenticated(r, AfterAccess(req[r])) ELSE Done(r)
    /\ OnlyStep

ByRefresh(r) ==
    /\ At(r, "byRefresh")
    /\ IF RefreshServes(req[r].token) THEN Authenticated(r, "user") ELSE Done(r)
    /\ OnlyStep

ByUser(r) ==
    /\ req[r].pc \in {"user", "user2"}
    /\ IF account[req[r].user] = "live" THEN Goto(r, AfterUser(req[r])) ELSE Done(r)
    /\ OnlyStep

-----------------------------------------------------------------------------
(* The writes                                                              *)

\* Slip: WHERE id = $1 alone, as MemoryStore has it.
RowExists(s) == row[s] # "absent"
\* UPDATE sessions SET <both hashes, both expiries> WHERE id = $1 AND revoked_at IS NULL.
Rotatable(s) == Unrevoked(s)

NewPair(s) ==
    /\ gen[s] < MaxGeneration
    /\ \A x \in Sessions \ {s} : gen[x] + gen[s] < MaxPairs
    /\ row' = [row EXCEPT ![s] = "fresh"]
    /\ gen' = [gen EXCEPT ![s] = @ + 1]

\* Slip: the UPDATE writes back the whole session that Refresh has read, with its empty revoked_at.
WriteSession(s) ==
    IF RowExists(s)
      THEN NewPair(s) /\ revoked' = revoked \ {s}
      ELSE UNCHANGED <<row, revoked, gen>>

\* The columns it sets leave revoked_at alone.
WriteTokens(s) ==
    IF Rotatable(s)
      THEN NewPair(s) /\ UNCHANGED revoked
      ELSE UNCHANGED <<row, revoked, gen>>

UpdateSessionTokens(r) ==
    /\ At(r, "rotate")
    /\ WriteTokens(req[r].token.session)
    /\ Done(r)
    /\ UNCHANGED <<account, owner, failures, conn, restarts>>

\* Slip: RevokeID revokes the id without looking for it in the list.
ToRevokeUnlisted(c) == IF c.op = "RevokeOthers" THEN OtherSessions(c) ELSE c.todo
\* What ListSessions leaves a request to revoke: nothing, if RevokeID's id is not listed.
ToRevoke(c) ==
    IF c.op = "RevokeOthers" THEN OtherSessions(c) ELSE c.todo \cap SessionsOf(c.user)

ListSessions(r) ==
    /\ At(r, "list")
    /\ LET todo == ToRevoke(req[r]) IN
       IF req[r].op = "RevokeID" /\ todo = {}
       THEN Done(r)
       ELSE Becomes(r, [req[r] EXCEPT !.pc = "revoke", !.todo = todo,
                                      !.listed = IF req[r].op = "RevokeOthers" THEN todo ELSE {}])
    /\ OnlyStep

\* One UPDATE ... WHERE id = $1 AND revoked_at IS NULL; finding no row ends the request
\* with an error, however many sessions RevokeOthers had left.
Revoke(r) ==
    /\ At(r, "revoke")
    /\ \E s \in req[r].todo :
          IF Unrevoked(s)
          THEN /\ revoked' = revoked \cup {s}
               /\ Becomes(r, [req[r] EXCEPT !.todo = @ \ {s}])
          ELSE UNCHANGED revoked /\ Done(r)
    /\ UNCHANGED <<account, row, owner, gen, failures, conn, restarts>>

\* Nothing is left to revoke: the answer is 204.
Revoked(r) ==
    /\ At(r, "revoke")
    /\ req[r].todo = {}
    /\ Done(r)
    /\ OnlyStep

\* DeleteUserAndSessions: one transaction for the user's sessions and the user.
DeletedRows(u) == [s \in Sessions |-> IF owner[s] = u THEN "absent" ELSE row[s]]

DeleteAccount(r) ==
    LET u == req[r].user IN
    /\ At(r, "delete")
    /\ IF account[u] = "live"
       THEN /\ account' = [account EXCEPT ![u] = "deleted"]
            /\ row' = DeletedRows(u)
            /\ revoked' = {s \in revoked : owner[s] # u}
       ELSE UNCHANGED <<account, row, revoked>>
    /\ Done(r)
    /\ UNCHANGED <<owner, gen, failures, conn, restarts>>

-----------------------------------------------------------------------------
(* Realtime sockets                                                        *)

Subscribe(r) ==
    /\ At(r, "subscribe")
    /\ \E c \in Conns :
          /\ conn[c] = NoToken
          /\ conn' = [conn EXCEPT ![c] = req[r].token]
    /\ Done(r)
    /\ UNCHANGED <<account, row, revoked, owner, gen, failures, restarts>>

Close(c) ==
    /\ conn[c] # NoToken
    /\ conn' = [conn EXCEPT ![c] = NoToken]
    /\ UNCHANGED <<account, row, revoked, owner, gen, failures, req, restarts>>

\* The 30-second ticker and the reader of frames run CurrentSession on the token the
\* socket was opened with, and return if it fails.  (Between its two reads only the
\* deletion of the account matters, and that takes the session row away as well.)
Recheck(c) == ~Serves(conn[c]) /\ Close(c)

\* The client goes away, or misses the 60-second read deadline.
Drop(c) == Close(c)

-----------------------------------------------------------------------------
(* Time, failures                                                          *)

\* An hour after its issue the access token expires, thirty days after it the refresh token.
\* (A revoked row expires unnoticed: whoever reads the expiries has asked for revoked_at before.)
Expire(s) ==
    /\ s \notin revoked
    /\ \/ row[s] = "fresh" /\ row' = [row EXCEPT ![s] = "stale"]
       \/ row[s] = "stale" /\ row' = [row EXCEPT ![s] = "spent"]
    /\ UNCHANGED <<account, revoked, owner, gen, failures, req, conn, restarts>>

\* The oldest failure leaves the fifteen-minute window.
Forget(u) ==
    /\ failures[u] > 0
    /\ failures' = [failures EXCEPT ![u] = @ - 1]
    /\ UNCHANGED <<account, row, revoked, owner, gen, req, conn, restarts>>

\* The client is gone: a store call fails with context.Canceled and ends the request.
\* The limiter takes no context.
Cancel(r) ==
    /\ req[r].pc \notin {"idle", "locked", "note", "clear"}
    /\ Done(r)
    /\ OnlyStep

\* The process ends: requests, sockets and the limiter's map are lost, the rows are not.
Restart ==
    /\ restarts < MaxRestarts
    /\ restarts' = restarts + 1
    /\ req' = [r \in Requests |-> Blank]
    /\ conn' = [c \in Conns |-> NoToken]
    /\ failures' = [u \in Users |-> 0]
    /\ UNCHANGED store

-----------------------------------------------------------------------------
(* The specification                                                       *)

Init ==
    /\ account = [u \in Users |-> "none"]
    /\ row = [s \in Sessions |-> "absent"]
    /\ revoked = {}
    /\ owner = [s \in Sessions |-> Nobody]
    /\ gen = [s \in Sessions |-> 0]
    /\ failures = [u \in Users |-> 0]
    /\ req = [r \in Requests |-> Blank]
    /\ conn = [c \in Conns |-> NoToken]
    /\ restarts = 0

Serve(r) ==
    \/ Credentials(r)
    \/ Present(r)
    \/ CreateUser(r)
    \/ CheckLocked(r)
    \/ Lookup(r)
    \/ NoteFailure(r)
    \/ ClearFailures(r)
    \/ Issue(r)
    \/ ByAccess(r)
    \/ ByRefresh(r)
    \/ ByUser(r)
    \/ UpdateSessionTokens(r)
    \/ ListSessions(r)
    \/ Revoke(r)
    \/ Revoked(r)
    \/ DeleteAccount(r)
    \/ Subscribe(r)
    \/ Cancel(r)

Next ==
    \/ \E r \in Requests : Serve(r)
    \/ \E c \in Conns : Recheck(c)
    \/ \E c \in Conns : Drop(c)
    \/ \E s \in Sessions : Expire(s)
    \/ \E u \in Users : Forget(u)
    \/ Restart

Spec == Init /\ [][Next]_vars

\* The ticker of every open socket fires every thirty seconds.
FairSpec == Spec /\ \A c \in Conns : WF_vars(Recheck(c))

-----------------------------------------------------------------------------
(* Properties                                                              *)

Over(s) == gen[s] > 0 /\ ~Unrevoked(s)

\* A session that was revoked, or deleted with its account, stays over and is given no new pair: no
\* refresh that had found it valid before writes to it, and no login, restart or late write revives it.
SessionStaysOver == [][\A s \in Sessions : Over(s) => Over(s)' /\ gen'[s] = gen[s]]_vars

\* Only a request of its own user, authenticated by a session of that user, revokes or
\* deletes a session: the check of the listed ids and the write are different store calls.
OnlyOwnSessions ==
    [][\A s \in Sessions : ~Over(s) /\ Over(s)' =>
          \E r \in Requests : /\ req[r].pc \in {"revoke", "delete"}
                              /\ req[r].user = owner[s]
                              /\ owner[req[r].token.session] = owner[s]]_vars

\* What RevokeOthers has passed stays over, whatever refreshes those sessions were in the
\* middle of; so when it answers 204 every session it listed is over.
PassedAreOver ==
    \A r \in Requests : req[r].op = "RevokeOthers" /\ req[r].pc = "revoke" =>
        \A s \in req[r].listed \ req[r].todo : Over(s)

\* A session row has an account: no login or refresh that overlaps the deletion of the
\* account leaves a session behind it.
SessionsHaveAccounts ==
    \A s \in Sessions : row[s] # "absent" => account[owner[s]] = "live"

\* The lock is read before the password is compared and the failure noted after it, so
\* attempts that overlap exceed the limit, but by no more than their number less one.
FailuresBounded ==
    \A u \in Users : failures[u] <= LoginLimit + Cardinality(Requests) - 1

\* A socket whose session was revoked, expired, deleted or given a new pair is closed.
SocketCloses ==
    \A c \in Conns, s \in Sessions, g \in 1..MaxGeneration :
        LET t == [session |-> s, gen |-> g] IN
        (conn[c] = t /\ ~AccessServes(t)) ~> (conn[c] # t)
=============================================================================
