------------------------------- MODULE Device -------------------------------
(***************************************************************************)
(* The credentials of one device: the two SecureStorage entries of the     *)
(* Flutter client and the tasks that read, replace and erase them.         *)
(*                                                                         *)
(* A task is one call of the auth, chat or account data source, or the     *)
(* refresh the chat data source makes when its socket is lost.  Dart runs  *)
(* the tasks on one thread, but every await (a storage call, an HTTP call) *)
(* lets another task run, and neither HttpAuthRemoteDataSource nor         *)
(* HttpChatDataSource makes a task wait for another.  A request or its     *)
(* answer can be lost, and the app can be killed at any step.              *)
(*                                                                         *)
(* The server is the part of Sessions one device sees: a row per session,  *)
(* whose pair of tokens is a generation, a check of the presented token    *)
(* and a later write.                                                      *)
(***************************************************************************)
EXTENDS Integers, FiniteSets

CONSTANTS
    Tasks,          \* calls under way at one time
    Sessions,       \* session rows
    None,           \* no session
    MaxGeneration,  \* bound: token pairs of one session
    Operations,     \* bound: the calls made in this instance
    MayKill         \* may the app be killed

Ops == {"Login", "Logout", "Restore", "Call", "DeleteAccount", "Refresh"}

ASSUME DeviceAssumption ==
    /\ IsFiniteSet(Tasks)
    /\ None \notin Sessions
    /\ MaxGeneration \in Nat \ {0}
    /\ Operations \subseteq Ops
    /\ MayKill \in BOOLEAN

VARIABLES
    row,      \* "none" before it is issued, "live", "over" once revoked or deleted
    gen,      \* the generation of the pair whose hashes the row has
    stale,    \* live sessions whose access token has expired
    spent,    \* those whose refresh token has expired too
    access,   \* SecureStorage: AuthSecureStorageKeys.accessToken
    refresh,  \* SecureStorage: AuthSecureStorageKeys.refreshToken
    task,     \* the tasks under way
    alone     \* auxiliary: no call has overlapped another, or died with the app, since the device
              \* last had nothing stored and no call under way

vars == <<row, gen, stale, spent, access, refresh, task, alone>>
server == <<row, gen, stale, spent>>
storage == <<access, refresh>>

Token == [session : Sessions, gen : Nat]
NoToken == [session |-> None, gen |-> 0]

Steps == {"idle", "readAccess", "readRefresh", "request", "perform", "answered",
          "writeAccess", "writeRefresh", "clearAccess", "clearRefresh", "done"}
\* Which of a task's requests is under way.
Stages == {"first", "refresh", "retry"}
Answers == {"none", "ok", "refused", "unauthorized", "expired", "network"}

Task == [op : Ops \cup {"none"}, pc : Steps, stage : Stages,
         token : Token \cup {NoToken},   \* the token the request presents
         fresh : Token \cup {NoToken},   \* the pair an answer brought
         answer : Answers]

Blank == [op |-> "none", pc |-> "idle", stage |-> "first",
          token |-> NoToken, fresh |-> NoToken, answer |-> "none"]

\* Every variable has its type, only a live session has an expired access token, which expires before
\* the refresh token, and the server writes only for a request whose token it has found.
TypeOK ==
    /\ row \in [Sessions -> {"none", "live", "over"}]
    /\ gen \in [Sessions -> Nat]
    /\ stale \subseteq {s \in Sessions : row[s] = "live"} /\ spent \subseteq stale
    /\ access \in Token \cup {NoToken}
    /\ refresh \in Token \cup {NoToken}
    /\ task \in [Tasks -> Task]
    /\ alone \in BOOLEAN
    /\ \A t \in Tasks : task[t].pc = "perform" => task[t].token # NoToken

-----------------------------------------------------------------------------
(* Control of a task                                                       *)

At(t, step) == task[t].pc = step
Becomes(t, c) == task' = [task EXCEPT ![t] = c]
Goto(t, step) == Becomes(t, [task[t] EXCEPT !.pc = step])
Answered(t, a) == Becomes(t, [task[t] EXCEPT !.pc = "answered", !.answer = a])

UnderWay(t) == task[t].pc \notin {"idle", "done"}
Quiet == \A t \in Tasks : ~UnderWay(t)
Empty == access = NoToken /\ refresh = NoToken

\* Bound: every task may still answer with a refresh.
RoomToRotate(s) == gen[s] + Cardinality(Tasks) <= MaxGeneration

\* realtime.disconnected refreshes whatever is stored, expired or not.
FirstStep(op) ==
    IF op = "Login" THEN "request" ELSE IF op = "Refresh" THEN "readRefresh" ELSE "readAccess"

Begin(t) ==
    /\ ~UnderWay(t)
    /\ \E op \in Operations :
          /\ op = "Refresh" => \A s \in Sessions : RoomToRotate(s)
          /\ Becomes(t, [Blank EXCEPT !.op = op, !.pc = FirstStep(op)])
    /\ alone' = (Quiet /\ (alone \/ Empty))
    /\ UNCHANGED <<server, storage>>

\* Logout sends its request even without a token, a retry too; the others end.
ReadAccess(t) ==
    /\ At(t, "readAccess")
    /\ IF access # NoToken \/ task[t].op = "Logout" \/ task[t].stage = "retry"
       THEN Becomes(t, [task[t] EXCEPT !.pc = "request", !.token = access])
       ELSE Goto(t, "done")
    /\ UNCHANGED <<server, storage>>

\* Slip: an empty refresh token is sent too.
ReadRefreshAnyway(t) ==
    /\ At(t, "readRefresh")
    /\ Becomes(t, [task[t] EXCEPT !.pc = "request", !.stage = "refresh", !.token = refresh])
    /\ UNCHANGED <<server, storage>>

\* _restoreWithRefresh
ReadRefresh(t) ==
    /\ At(t, "readRefresh")
    /\ IF refresh # NoToken
       THEN Becomes(t, [task[t] EXCEPT !.pc = "request", !.stage = "refresh", !.token = refresh])
       ELSE Goto(t, "clearAccess")
    /\ UNCHANGED <<server, storage>>

-----------------------------------------------------------------------------
(* The server                                                              *)

\* A token is found while the row still has its hash.
Current(x) == x # NoToken /\ row[x.session] = "live" /\ gen[x.session] = x.gen

\* sessionByAccess: "ok" or the error code; it asks for the expiry of the access token alone.
AccessAnswer(x) ==
    IF ~Current(x) THEN "unauthorized"
    ELSE IF x.session \in stale THEN "expired"
    ELSE "ok"

\* Login or Register: issueSession, or wrong credentials.
Issue(t) ==
    /\ At(t, "request") /\ task[t].op = "Login"
    /\ \/ /\ \E s \in Sessions :
                /\ row[s] = "none"
                /\ row' = [row EXCEPT ![s] = "live"]
                /\ gen' = [gen EXCEPT ![s] = 1]
                /\ Becomes(t, [task[t] EXCEPT !.pc = "answered", !.answer = "ok",
                                              !.fresh = [session |-> s, gen |-> 1]])
          /\ UNCHANGED <<stale, spent>>
       \/ /\ Answered(t, "refused")
          /\ UNCHANGED server
    /\ UNCHANGED storage

\* CurrentSession; a write follows for Logout and DeleteAccount, or DeleteAccount's password is wrong.
Authenticate(t) ==
    /\ At(t, "request") /\ task[t].op # "Login" /\ task[t].stage # "refresh"
    /\ LET a == AccessAnswer(task[t].token) IN
       IF a # "ok" THEN Answered(t, a)
       ELSE IF task[t].op \in {"Logout", "DeleteAccount"}
       THEN \/ Goto(t, "perform")
            \/ task[t].op = "DeleteAccount" /\ Answered(t, "refused")
       ELSE Answered(t, "ok")
    /\ UNCHANGED <<server, storage>>

LookupRefresh(t) ==
    /\ At(t, "request") /\ task[t].stage = "refresh"
    /\ IF ~Current(task[t].token) THEN Answered(t, "unauthorized")
       ELSE IF task[t].token.session \in spent THEN Answered(t, "expired")
       ELSE Goto(t, "perform")
    /\ UNCHANGED <<server, storage>>

\* UpdateSessionTokens: the row takes a new pair, whatever pair it has by now.
Rotate(t) ==
    /\ At(t, "perform") /\ task[t].stage = "refresh"
    /\ LET s == task[t].token.session IN
       IF row[s] = "live"
       THEN /\ gen' = [gen EXCEPT ![s] = @ + 1]
            /\ stale' = stale \ {s} /\ spent' = spent \ {s}
            /\ Becomes(t, [task[t] EXCEPT !.pc = "answered", !.answer = "ok",
                                          !.fresh = [session |-> s, gen |-> gen[s] + 1]])
            /\ UNCHANGED row
       ELSE Answered(t, "unauthorized") /\ UNCHANGED server
    /\ UNCHANGED storage

End(ss) ==
    /\ row' = [s \in Sessions |-> IF s \in ss /\ row[s] = "live" THEN "over" ELSE row[s]]
    /\ stale' = stale \ ss /\ spent' = spent \ ss
    /\ UNCHANGED gen

\* RevokeSession
Revoke(t) ==
    /\ At(t, "perform") /\ task[t].op = "Logout"
    /\ LET s == task[t].token.session IN
       /\ Answered(t, IF row[s] = "live" THEN "ok" ELSE "unauthorized")
       /\ End({s})
    /\ UNCHANGED storage

\* DeleteAccount authenticates once more and deletes the user with every session; what can come
\* between these two is in Sessions.
Delete(t) ==
    /\ At(t, "perform") /\ task[t].op = "DeleteAccount" /\ task[t].stage # "refresh"
    /\ LET a == AccessAnswer(task[t].token) IN
       /\ Answered(t, a)
       /\ IF a = "ok" THEN End(Sessions) ELSE UNCHANGED server
    /\ UNCHANGED storage

\* The request, or its answer, does not get through: _send throws network.
Lose(t) ==
    /\ task[t].pc \in {"request", "perform", "answered"}
    /\ task[t].answer # "network"
    /\ Becomes(t, [task[t] EXCEPT !.pc = "answered", !.answer = "network", !.fresh = NoToken])
    /\ UNCHANGED <<server, storage>>

-----------------------------------------------------------------------------
(* The client on an answer                                                 *)

\* What follows the answer of a task's own request.
AfterAnswer(c) ==
    IF c.op = "Login" THEN IF c.answer = "ok" THEN "writeAccess" ELSE "done"
    ELSE IF c.op = "Logout" THEN "clearAccess"
    ELSE IF c.answer = "expired" /\ c.stage = "first" THEN "readRefresh"
    ELSE IF \/ c.op = "Restore" /\ c.answer = "unauthorized"
            \/ c.op = "DeleteAccount" /\ c.answer = "ok"
    THEN "clearAccess"
    ELSE "done"

Conclude(t) ==
    /\ At(t, "answered") /\ task[t].stage # "refresh"
    /\ Goto(t, AfterAnswer(task[t]))
    /\ UNCHANGED <<server, storage>>

\* Slip: the client keeps its pair when the answer to a refresh is lost.
KeepOnNetwork(c) ==
    IF c.answer = "ok" THEN "writeAccess"
    ELSE IF c.answer = "network" THEN "done" ELSE "clearAccess"

\* Any failure of a refresh erases the credentials.
AfterRefresh(c) == IF c.answer = "ok" THEN "writeAccess" ELSE "clearAccess"

Refreshed(t) ==
    /\ At(t, "answered") /\ task[t].stage = "refresh"
    /\ Goto(t, AfterRefresh(task[t]))
    /\ UNCHANGED <<server, storage>>

\* _persistCredentials, in two writes
WriteAccess(t) ==
    /\ At(t, "writeAccess")
    /\ access' = task[t].fresh
    /\ Goto(t, "writeRefresh")
    /\ UNCHANGED <<server, refresh>>

\* A call that had to refresh is sent again.
WriteRefresh(t) ==
    /\ At(t, "writeRefresh")
    /\ refresh' = task[t].fresh
    /\ IF task[t].op \in {"Call", "DeleteAccount"}
       THEN Becomes(t, [task[t] EXCEPT !.pc = "readAccess", !.stage = "retry"])
       ELSE Goto(t, "done")
    /\ UNCHANGED <<server, access>>

\* _clearCredentials, in two deletes
ClearAccess(t) ==
    /\ At(t, "clearAccess")
    /\ access' = NoToken
    /\ Goto(t, "clearRefresh")
    /\ UNCHANGED <<server, refresh>>

ClearRefresh(t) ==
    /\ At(t, "clearRefresh")
    /\ refresh' = NoToken
    /\ Goto(t, "done")
    /\ UNCHANGED <<server, access>>

Proceed(t) ==
    \/ ReadAccess(t) \/ ReadRefresh(t)
    \/ Issue(t) \/ Authenticate(t) \/ LookupRefresh(t) \/ Rotate(t) \/ Revoke(t) \/ Delete(t)
    \/ Lose(t) \/ Conclude(t) \/ Refreshed(t)
    \/ WriteAccess(t) \/ WriteRefresh(t) \/ ClearAccess(t) \/ ClearRefresh(t)

Advance(t) == Begin(t) \/ (Proceed(t) /\ UNCHANGED alone)

-----------------------------------------------------------------------------
(* What happens around the tasks                                           *)

\* accessTTL passes, then refreshTTL.
Expire(s) ==
    /\ row[s] = "live"
    /\ \/ s \notin stale /\ RoomToRotate(s) /\ stale' = stale \cup {s} /\ UNCHANGED spent
       \/ s \in stale \ spent /\ spent' = spent \cup {s} /\ UNCHANGED stale
    /\ UNCHANGED <<row, gen, storage, task, alone>>

\* Another device revokes the session.
EndElsewhere(s) ==
    /\ row[s] = "live"
    /\ End({s})
    /\ UNCHANGED <<storage, task, alone>>

\* The app dies; SecureStorage is what is left.
Kill ==
    /\ MayKill
    /\ task' = [t \in Tasks |-> Blank]
    /\ alone' = (alone /\ Quiet)
    /\ UNCHANGED <<server, storage>>

Init ==
    /\ row = [s \in Sessions |-> "none"]
    /\ gen = [s \in Sessions |-> 0]
    /\ stale = {} /\ spent = {}
    /\ access = NoToken
    /\ refresh = NoToken
    /\ task = [t \in Tasks |-> Blank]
    /\ alone = TRUE

Next ==
    \/ \E t \in Tasks : Advance(t)
    \/ \E s \in Sessions : Expire(s) \/ EndElsewhere(s)
    \/ Kill

Spec == Init /\ [][Next]_vars

-----------------------------------------------------------------------------
(* Properties                                                              *)

\* While no call overlaps another and the app does not die during one, the device holds between
\* two calls nothing, or one whole pair that is the server's latest for a session that is not
\* over: a lost answer of a refresh, a refused retry or a logout without network never leaves it
\* with a pair that cannot refresh.  Having been signed out, it starts anew.
StoredPairServes ==
    alone /\ Quiet =>
        /\ access = refresh
        /\ access # NoToken /\ row[access.session] = "live" => Current(access)

\* A task that may still store a pair: a login, or a refresh that has read its token.
MayStore(t) ==
    /\ UnderWay(t)
    /\ task[t].op = "Login" \/ task[t].stage = "refresh"

\* Signed out for good: nothing is stored and no task can store anything.
SignedOut == Empty /\ \A t \in Tasks : ~MayStore(t)

\* Whatever tasks overlap and wherever the app dies, a signed-out device stays so until a login:
\* an expired answer that arrives after the logout finds no refresh token to go on with.
SignedOutStays ==
    [][SignedOut => SignedOut' \/ \E t \in Tasks : ~UnderWay(t) /\ task'[t].op = "Login"]_vars
=============================================================================
