------------------------------- MODULE Calls -------------------------------
(***************************************************************************)
(* The calls of one conversation, on the server: Service.StartCall,        *)
(* SignalCall, DeleteCall and ClearCallHistory over the tables             *)
(* call_sessions and call_participants, and the call.signal events they    *)
(* publish.                                                                *)
(*                                                                         *)
(* A request runs in its own goroutine.  Every statement of the store is   *)
(* one step; between two of them other requests write, the conversation's  *)
(* members change, and the request's context can be cancelled because its  *)
(* client went away: the statements that are left then fail.               *)
(*                                                                         *)
(* Whoever signals a call (the pages, a socket frame, another device) is   *)
(* left open here: a request may name any user, call and action.  CallPages*)
(* adds the two screens that make the requests.                            *)
(***************************************************************************)
EXTENDS Naturals, Sequences, FiniteSets

CONSTANTS
    Users,          \* users who are or were in the conversation
    Calls,          \* ids of call_sessions rows
    Requests,       \* requests under way at one time
    None,           \* no call, no user
    Slots           \* events a subscription holds; a further one is dropped

ASSUME CallsAssumption ==
    /\ IsFiniteSet(Users)
    /\ None \notin Users \cup Calls
    /\ Slots \in Nat \ {0}

VARIABLES
    call,           \* call_sessions with call_participants
    members,        \* MemberIDs of the conversation
    req,            \* the requests under way
    inbox           \* per user, the published events the client has not handled

callVars == <<call, members, req, inbox>>

Over == {"ended", "rejected", "missed"}
Rows == {"ringing", "active"} \cup Over
States == Rows \cup {"none", "deleted"}
Call == [state : States, caller : Users \cup {None}, participants : SUBSET Users]

Actions == {"answer", "reject", "hangup", "missed", "ice"}
Event == [call : Calls, action : Actions \cup {"offer"}, from : Users]

Request == [op : {"none", "start", "signal", "delete", "clear"},
            by : Users \cup {None}, call : Calls \cup {None}, action : Actions \cup {"none"},
            pc : {"idle", "check", "members", "member", "write", "publish", "done"},
            seen : States,          \* the state GetCall read
            ids : SUBSET Users,     \* the members StartCall read
            ok : BOOLEAN]           \* what the client is answered

NoRequest == [op |-> "none", by |-> None, call |-> None, action |-> "none",
              pc |-> "idle", seen |-> "none", ids |-> {}, ok |-> FALSE]

\* Every variable has its type, and a request that writes to or tells of a call names its caller
\* and the call.
TypeOK ==
    /\ call \in [Calls -> Call]
    /\ members \subseteq Users
    /\ req \in [Requests -> Request]
    /\ inbox \in [Users -> Seq(Event)]
    /\ \A r \in Requests : req[r].pc # "idle" => req[r].by # None
    /\ \A r \in Requests :
          /\ req[r].op \in {"signal", "delete"} => req[r].call # None
          /\ req[r].op = "signal" => req[r].action # "none"
          /\ req[r].pc = "publish" => req[r].call # None

-----------------------------------------------------------------------------
(* Control of a request                                                    *)

At(r, op, step) == req[r].op = op /\ req[r].pc = step
Becomes(r, q) == req' = [req EXCEPT ![r] = q]
Goto(r, step) == Becomes(r, [req[r] EXCEPT !.pc = step])
Done(r, ok) == Becomes(r, [req[r] EXCEPT !.pc = "done", !.ok = ok])

Starting(u) == [NoRequest EXCEPT !.op = "start", !.by = u, !.pc = "check"]
Signalling(u, c, a) ==
    [NoRequest EXCEPT !.op = "signal", !.by = u, !.call = c, !.action = a, !.pc = "check"]
Deleting(u, c) == [NoRequest EXCEPT !.op = "delete", !.by = u, !.call = c, !.pc = "check"]
Clearing(u) == [NoRequest EXCEPT !.op = "clear", !.by = u, !.pc = "write"]

Asked == {Starting(u) : u \in Users} \cup {Clearing(u) : u \in Users}
         \cup {Signalling(u, c, a) : u \in Users, c \in Calls, a \in Actions}
         \cup {Deleting(u, c) : u \in Users, c \in Calls}

\* HandleRealtime: a socket frame that names a call signals it, one that does not starts one.
Frame(u, c, a) == IF c = None THEN Starting(u) ELSE Signalling(u, c, a)

Begin(r) ==
    /\ req[r].pc = "idle"
    /\ \/ \E q \in Asked : Becomes(r, q)
       \/ \E u \in Users, c \in Calls \cup {None}, a \in Actions : Becomes(r, Frame(u, c, a))
    /\ UNCHANGED <<call, members, inbox>>

\* Service.publishMembers: Hub.Publish to whoever is a member now, but for those left out.
Publish(e, to) ==
    inbox' = [u \in Users |->
                IF u \in to /\ Len(inbox[u]) < Slots THEN Append(inbox[u], e) ELSE inbox[u]]

-----------------------------------------------------------------------------
(* StartCall                                                               *)

\* requireMember
CheckCaller(r) ==
    /\ At(r, "start", "check")
    /\ IF req[r].by \in members THEN Goto(r, "members") ELSE Done(r, FALSE)
    /\ UNCHANGED <<call, members, inbox>>

ReadMembers(r) ==
    /\ At(r, "start", "members")
    /\ Becomes(r, [req[r] EXCEPT !.pc = "write", !.ids = members])
    /\ UNCHANGED <<call, members, inbox>>

\* One transaction inserts the row and its participants.
InsertCall(r) ==
    /\ At(r, "start", "write")
    /\ \E c \in Calls :
          /\ call[c].state = "none"
          /\ call' = [call EXCEPT ![c] = [state |-> "ringing", caller |-> req[r].by,
                                          participants |-> req[r].ids]]
          /\ Becomes(r, [req[r] EXCEPT !.pc = "publish", !.call = c])
    /\ UNCHANGED <<members, inbox>>

\* publishMembersExcept the caller
Offer(r) ==
    /\ At(r, "start", "publish")
    /\ Publish([call |-> req[r].call, action |-> "offer", from |-> req[r].by], members \ {req[r].by})
    /\ Done(r, TRUE)
    /\ UNCHANGED <<call, members>>

-----------------------------------------------------------------------------
(* SignalCall                                                              *)

ReadCall(r) ==
    /\ At(r, "signal", "check")
    /\ LET s == call[req[r].call].state IN
       IF s \in Rows THEN Becomes(r, [req[r] EXCEPT !.pc = "member", !.seen = s])
       ELSE Done(r, FALSE)
    /\ UNCHANGED <<call, members, inbox>>

\* Slip: an ended call refuses candidates only.
RefusedIce(a) == a = "ice"
\* The signals an ended call refuses.
Refused(a) == a \in {"answer", "ice"}

\* requireMember, the test of the state that was read, and the choice of the write.
CheckSignal(r) ==
    /\ At(r, "signal", "member")
    /\ IF req[r].by \notin members \/ (req[r].seen \in Over /\ Refused(req[r].action))
       THEN Done(r, FALSE)
       ELSE Goto(r, IF req[r].action = "ice" THEN "publish" ELSE "write")
    /\ UNCHANGED <<call, members, inbox>>

StateAfter(a) ==
    IF a = "answer" THEN "active" ELSE IF a = "reject" THEN "rejected"
    ELSE IF a = "hangup" THEN "ended" ELSE "missed"

\* The update has no condition on the state; that it finds no row is ignored.
UpdateCallState(r) ==
    /\ At(r, "signal", "write")
    /\ LET c == req[r].call IN
       IF call[c].state \in Rows
       THEN call' = [call EXCEPT ![c] = [@ EXCEPT !.state = StateAfter(req[r].action)]]
       ELSE UNCHANGED call
    /\ Goto(r, "publish")
    /\ UNCHANGED <<members, inbox>>

\* publishMembers, the sender among them
Tell(r) ==
    /\ At(r, "signal", "publish")
    /\ Publish([call |-> req[r].call, action |-> req[r].action, from |-> req[r].by], members)
    /\ Done(r, TRUE)
    /\ UNCHANGED <<call, members>>

-----------------------------------------------------------------------------
(* DeleteCall, ClearCallHistory                                            *)

\* A call of u's history.
Own(u, c) == call[c].state \in Rows /\ (call[c].caller = u \/ u \in call[c].participants)

CheckOwn(r) ==
    /\ At(r, "delete", "check")
    /\ IF Own(req[r].by, req[r].call) THEN Goto(r, "write") ELSE Done(r, FALSE)
    /\ UNCHANGED <<call, members, inbox>>

\* The row goes whatever its state, for every participant.
DeleteRow(r) ==
    /\ At(r, "delete", "write")
    /\ LET c == req[r].call IN
       IF call[c].state \in Rows
       THEN call' = [call EXCEPT ![c] = [@ EXCEPT !.state = "deleted"]] /\ Done(r, TRUE)
       ELSE UNCHANGED call /\ Done(r, FALSE)
    /\ UNCHANGED <<members, inbox>>

DeleteRows(r) ==
    /\ At(r, "clear", "write")
    /\ call' = [c \in Calls |-> IF Own(req[r].by, c) THEN [call[c] EXCEPT !.state = "deleted"]
                                ELSE call[c]]
    /\ Done(r, TRUE)
    /\ UNCHANGED <<members, inbox>>

-----------------------------------------------------------------------------

\* The request's context is cancelled: the next statement fails, publishMembers' read too.
Cancel(r) ==
    /\ req[r].pc \notin {"idle", "done"}
    /\ Done(r, FALSE)
    /\ UNCHANGED <<call, members, inbox>>

Return(r) ==
    /\ req[r].pc = "done"
    /\ Becomes(r, NoRequest)
    /\ UNCHANGED <<call, members, inbox>>

\* The membership requests of the conversation.
MembersChange ==
    /\ members' \in SUBSET Users
    /\ UNCHANGED <<call, req, inbox>>

\* The client takes an event off its socket.
Take(u) ==
    /\ inbox[u] # <<>>
    /\ inbox' = [inbox EXCEPT ![u] = Tail(@)]
    /\ UNCHANGED <<call, members, req>>

\* What the server does for a request.
Serve(r) ==
    \/ CheckCaller(r) \/ ReadMembers(r) \/ InsertCall(r) \/ Offer(r)
    \/ ReadCall(r) \/ CheckSignal(r) \/ UpdateCallState(r) \/ Tell(r)
    \/ CheckOwn(r) \/ DeleteRow(r) \/ DeleteRows(r)

CallsInit ==
    /\ call = [c \in Calls |-> [state |-> "none", caller |-> None, participants |-> {}]]
    /\ members = Users
    /\ req = [r \in Requests |-> NoRequest]
    /\ inbox = [u \in Users |-> <<>>]

CallsNext ==
    \/ \E r \in Requests : Begin(r) \/ Serve(r) \/ Cancel(r) \/ Return(r)
    \/ MembersChange
    \/ \E u \in Users : Take(u)

CallsSpec == CallsInit /\ [][CallsNext]_callVars

-----------------------------------------------------------------------------

\* An answer that has passed, or will pass, the test of the state it read.
AnswerPassed(r, c) ==
    /\ req[r].op = "signal" /\ req[r].call = c /\ req[r].action = "answer"
    /\ req[r].pc \in {"member", "write"}
    /\ req[r].seen \notin Over

\* The call is over or deleted, and no answer under way has been let through.
Settled(c) ==
    /\ call[c].state \in Over \cup {"deleted"}
    /\ \A r \in Requests : ~AnswerPassed(r, c)

\* SignalCall (social.go:386) tests a state it has read and UpdateCallState writes without one: a
\* call that is over stays so for good, but for an answer that passed the test before.
SettledStays == [][\A c \in Calls : Settled(c) => Settled(c)']_callVars

=============================================================================
