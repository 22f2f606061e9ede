----------------------------- MODULE CallsProofs -----------------------------
(***************************************************************************)
(* What holds of the calls for any users, calls and requests: the types of *)
(* the server and of the screens, that a call that is over stays over, and *)
(* that the screens do nothing to the server but what Calls allows.        *)
(***************************************************************************)
EXTENDS CallPages, TLAPS

-----------------------------------------------------------------------------
(* Types of the server                                                     *)

\* The parts of TypeOK: one request, all requests, and the rest.
RequestOK(q) ==
    /\ q \in Request
    /\ q.pc # "idle" => q.by # None
    /\ q.op \in {"signal", "delete"} => q.call # None
    /\ q.op = "signal" => q.action # "none"
    /\ q.pc = "publish" => q.call # None
RequestsOK == req \in [Requests -> Request] /\ \A r \in Requests : RequestOK(req[r])
DataOK == call \in [Calls -> Call] /\ members \subseteq Users /\ inbox \in [Users -> Seq(Event)]

LEMMA TypeParts == TypeOK <=> RequestsOK /\ DataOK
BY DEF TypeOK, RequestsOK, RequestOK, DataOK

LEMMA NextParts == RequestsOK' /\ DataOK' => TypeOK'
BY DEF TypeOK, RequestsOK, RequestOK, DataOK

LEMMA NoRequestOK == RequestOK(NoRequest)
BY DEF RequestOK, NoRequest, Request, States, Rows, Over

LEMMA BecomesOK ==
    ASSUME RequestsOK, NEW r \in Requests, NEW q, RequestOK(q), Becomes(r, q)
    PROVE  /\ RequestsOK' /\ req'[r] = q /\ \A s \in Requests \ {r} : req'[s] = req[s]
BY DEF RequestsOK, RequestOK, Becomes

LEMMA GotoOK ==
    ASSUME RequestsOK, NEW r \in Requests, req[r].pc # "idle", Goto(r, "members") \/ Goto(r, "write")
    PROVE  RequestsOK'
<1>1. RequestOK(req[r])
  BY DEF RequestsOK
<1>2. RequestOK([req[r] EXCEPT !.pc = "members"]) /\ RequestOK([req[r] EXCEPT !.pc = "write"])
  BY <1>1 DEF RequestOK, Request
<1> QED BY <1>2, BecomesOK DEF Goto

LEMMA DoneOK ==
    ASSUME RequestsOK, NEW r \in Requests, req[r].pc # "idle", NEW ok \in BOOLEAN, Done(r, ok)
    PROVE  RequestsOK'
<1>1. RequestOK(req[r])
  BY DEF RequestsOK
<1>2. RequestOK([req[r] EXCEPT !.pc = "done", !.ok = ok])
  BY <1>1 DEF RequestOK, Request
<1> QED BY <1>2, BecomesOK DEF Done

\* A request that has only begun.
Fresh(q) == RequestOK(q) /\ q.pc \in {"check", "write"} /\ (q.op = "signal" => q.pc = "check")

LEMMA AskedFresh ==
    ASSUME NEW u \in Users, NEW c \in Calls, NEW a \in Actions
    PROVE  Fresh(Starting(u)) /\ Fresh(Clearing(u)) /\ Fresh(Signalling(u, c, a)) /\ Fresh(Deleting(u, c))
<1>1. u # None /\ c # None /\ a # "none"
  BY CallsAssumption DEF Actions
<1> QED BY <1>1 DEF Fresh, Starting, Clearing, Signalling, Deleting, NoRequest, RequestOK, Request, Actions,
                    States, Rows, Over

LEMMA StartFresh ==
    ASSUME NEW u \in Users
    PROVE  Fresh(Starting(u)) /\ Fresh(Clearing(u))
<1>1. u # None
  BY CallsAssumption
<1> QED BY <1>1 DEF Fresh, Starting, Clearing, NoRequest, RequestOK, Request, Actions, States, Rows, Over

LEMMA BeginFresh ==
    ASSUME NEW r \in Requests, Begin(r)
    PROVE  \E q : Becomes(r, q) /\ Fresh(q)
<1>1. CASE \E q \in Asked : Becomes(r, q)
  <2>1. PICK q \in Asked : Becomes(r, q)
    BY <1>1
  <2>2. \/ \E u \in Users : q = Starting(u) \/ q = Clearing(u)
        \/ \E u \in Users, c \in Calls, a \in Actions : q = Signalling(u, c, a)
        \/ \E u \in Users, c \in Calls : q = Deleting(u, c)
    BY DEF Asked
  <2>3. Fresh(q)
    BY <2>2, AskedFresh, StartFresh, "ice" \in Actions DEF Actions
  <2> QED BY <2>1, <2>3
<1>2. CASE \E u \in Users, c \in Calls \cup {None}, a \in Actions : Becomes(r, Frame(u, c, a))
  BY <1>2, AskedFresh, StartFresh DEF Frame
<1> QED BY <1>1, <1>2 DEF Begin

LEMMA PublishOK ==
    ASSUME DataOK, NEW e \in Event, NEW to, Publish(e, to)
    PROVE  inbox' \in [Users -> Seq(Event)]
BY DEF DataOK, Publish

LEMMA ServeType ==
    ASSUME TypeOK, NEW r \in Requests, Serve(r)
    PROVE  TypeOK'
<1>0. RequestsOK /\ DataOK /\ RequestOK(req[r]) /\ req[r] \in Request
  BY TypeParts DEF RequestsOK, RequestOK
<1>1. CASE CheckCaller(r) \/ CheckOwn(r)
  <2>1. RequestsOK'
    BY <1>0, <1>1, GotoOK, DoneOK DEF CheckCaller, CheckOwn, At
  <2> QED BY <1>0, <1>1, <2>1, NextParts DEF CheckCaller, CheckOwn, DataOK
<1>2. CASE ReadMembers(r)
  <2>1. RequestOK([req[r] EXCEPT !.pc = "write", !.ids = members])
    BY <1>0, <1>2 DEF RequestOK, Request, ReadMembers, At, DataOK
  <2>2. RequestsOK'
    BY <1>0, <1>2, <2>1, BecomesOK DEF ReadMembers
  <2> QED BY <1>0, <1>2, <2>2, NextParts DEF ReadMembers, DataOK
<1>3. CASE InsertCall(r)
  <2>1. PICK c \in Calls :
          /\ call' = [call EXCEPT ![c] = [state |-> "ringing", caller |-> req[r].by, participants |-> req[r].ids]]
          /\ Becomes(r, [req[r] EXCEPT !.pc = "publish", !.call = c])
    BY <1>3 DEF InsertCall
  <2>2. c # None
    BY CallsAssumption
  <2>3. RequestOK([req[r] EXCEPT !.pc = "publish", !.call = c])
    BY <1>0, <1>3, <2>2 DEF RequestOK, Request, InsertCall, At
  <2>4. [state |-> "ringing", caller |-> req[r].by, participants |-> req[r].ids] \in Call
    BY <1>0 DEF Call, Request, States, Rows
  <2>5. RequestsOK'
    BY <1>0, <2>1, <2>3, BecomesOK
  <2>6. DataOK'
    BY <1>0, <1>3, <2>1, <2>4 DEF DataOK, InsertCall
  <2> QED BY <2>5, <2>6, NextParts
<1>4. CASE Offer(r)
  <2>1. [call |-> req[r].call, action |-> "offer", from |-> req[r].by] \in Event
    BY <1>0, <1>4 DEF Event, RequestOK, Request, Offer, At
  <2>2. inbox' \in [Users -> Seq(Event)]
    BY <1>0, <1>4, <2>1, PublishOK DEF Offer
  <2>3. RequestsOK'
    BY <1>0, <1>4, DoneOK DEF Offer, At
  <2> QED BY <1>0, <1>4, <2>2, <2>3, NextParts DEF Offer, DataOK
<1>5. CASE ReadCall(r)
  <2>1. req[r].call \in Calls /\ req[r].pc # "idle"
    BY <1>0, <1>5 DEF RequestOK, Request, ReadCall, At
  <2>2. call[req[r].call].state \in States
    BY <1>0, <2>1 DEF DataOK, Call
  <2>3. RequestOK([req[r] EXCEPT !.pc = "member", !.seen = call[req[r].call].state])
    BY <1>0, <1>5, <2>2 DEF RequestOK, Request, ReadCall, At
  <2>4. RequestsOK'
    BY <1>0, <1>5, <2>1, <2>3, BecomesOK, DoneOK DEF ReadCall
  <2> QED BY <1>0, <1>5, <2>4, NextParts DEF ReadCall, DataOK
<1>6. CASE CheckSignal(r)
  <2>1. RequestOK([req[r] EXCEPT !.pc = "publish"]) /\ RequestOK([req[r] EXCEPT !.pc = "write"])
    BY <1>0, <1>6 DEF RequestOK, Request, CheckSignal, At
  <2>2. Done(r, FALSE) \/ Goto(r, "publish") \/ Goto(r, "write")
    BY <1>6 DEF CheckSignal
  <2>3. RequestsOK'
    BY <1>0, <1>6, <2>1, <2>2, BecomesOK, DoneOK DEF CheckSignal, At, Goto
  <2> QED BY <1>0, <1>6, <2>3, NextParts DEF CheckSignal, DataOK
<1>7. CASE UpdateCallState(r)
  <2>1. RequestOK([req[r] EXCEPT !.pc = "publish"])
    BY <1>0, <1>7 DEF RequestOK, Request, UpdateCallState, At
  <2>2. RequestsOK'
    BY <1>0, <1>7, <2>1, BecomesOK DEF UpdateCallState, Goto
  <2>3. StateAfter(req[r].action) \in States
    BY DEF StateAfter, States, Rows, Over
  <2>4. ASSUME NEW c \in Calls PROVE [call[c] EXCEPT !.state = StateAfter(req[r].action)] \in Call
    BY <1>0, <2>3 DEF DataOK, Call
  <2>5. call' \in [Calls -> Call]
    BY <1>0, <1>7, <2>4 DEF UpdateCallState, DataOK
  <2> QED BY <1>0, <1>7, <2>2, <2>5, NextParts DEF UpdateCallState, DataOK
<1>8. CASE Tell(r)
  <2>1. [call |-> req[r].call, action |-> req[r].action, from |-> req[r].by] \in Event
    BY <1>0, <1>8 DEF Event, RequestOK, Request, Tell, At
  <2>2. inbox' \in [Users -> Seq(Event)]
    BY <1>0, <1>8, <2>1, PublishOK DEF Tell
  <2>3. RequestsOK'
    BY <1>0, <1>8, DoneOK DEF Tell, At
  <2> QED BY <1>0, <1>8, <2>2, <2>3, NextParts DEF Tell, DataOK
<1>9. CASE DeleteRow(r) \/ DeleteRows(r)
  <2>a. ASSUME NEW c \in Calls PROVE [call[c] EXCEPT !.state = "deleted"] \in Call
    BY <1>0 DEF DataOK, Call, States
  <2>1. call' \in [Calls -> Call]
    BY <1>0, <1>9, <2>a DEF DeleteRow, DeleteRows, DataOK
  <2>2. RequestsOK'
    BY <1>0, <1>9, DoneOK DEF DeleteRow, DeleteRows, At
  <2> QED BY <1>0, <1>9, <2>1, <2>2, NextParts DEF DeleteRow, DeleteRows, DataOK
<1> QED BY <1>1, <1>2, <1>3, <1>4, <1>5, <1>6, <1>7, <1>8, <1>9 DEF Serve

LEMMA NextType == TypeOK /\ [CallsNext]_callVars => TypeOK'
<1> SUFFICES ASSUME TypeOK, [CallsNext]_callVars PROVE TypeOK'
  OBVIOUS
<1>0. RequestsOK /\ DataOK
  BY TypeParts
<1>1. ASSUME NEW r \in Requests, Begin(r) PROVE TypeOK'
  <2>1. RequestsOK'
    BY <1>0, <1>1, BeginFresh, BecomesOK DEF Fresh
  <2> QED BY <1>0, <1>1, <2>1, NextParts DEF Begin, DataOK
<1>2. ASSUME NEW r \in Requests, Cancel(r) \/ Return(r) PROVE TypeOK'
  <2>1. RequestsOK'
    BY <1>0, <1>2, DoneOK, NoRequestOK, BecomesOK DEF Cancel, Return
  <2> QED BY <1>0, <1>2, <2>1, NextParts DEF Cancel, Return, DataOK
<1>3. CASE MembersChange
  BY <1>0, <1>3, NextParts DEF MembersChange, RequestsOK, DataOK
<1>4. ASSUME NEW u \in Users, Take(u) PROVE TypeOK'
  <2>1. inbox' \in [Users -> Seq(Event)]
    BY <1>0, <1>4 DEF Take, DataOK
  <2> QED BY <1>0, <1>4, <2>1, NextParts DEF Take, RequestsOK, DataOK
<1>5. CASE UNCHANGED callVars
  BY <1>0, <1>5, NextParts DEF callVars, RequestsOK, DataOK
<1> QED BY <1>1, <1>2, <1>3, <1>4, <1>5, ServeType DEF CallsNext

LEMMA InitType == CallsInit => TypeOK
<1> SUFFICES ASSUME CallsInit PROVE TypeOK
  OBVIOUS
<1>1. RequestsOK
  BY NoRequestOK DEF CallsInit, RequestsOK, RequestOK
<1>2. DataOK
  BY DEF CallsInit, DataOK, Call, States
<1> QED BY <1>1, <1>2, TypeParts

LEMMA ServerType == CallsSpec => []TypeOK
BY InitType, NextType, PTL DEF CallsSpec

-----------------------------------------------------------------------------
(* Calls that are over                                                     *)

\* An answer about to be written has found its call not to be over.
AnswersInv ==
    \A r \in Requests : At(r, "signal", "write") /\ req[r].action = "answer" => req[r].seen \notin Over

\* AnswerPassed and AnswersInv of one request.
Passed(q, c) ==
    /\ q.op = "signal" /\ q.call = c /\ q.action = "answer" /\ q.pc \in {"member", "write"}
    /\ q.seen \notin Over
Answers(q) == q.op = "signal" /\ q.pc = "write" /\ q.action = "answer" => q.seen \notin Over

LEMMA PassedIs ==
    /\ AnswersInv <=> \A r \in Requests : Answers(req[r])
    /\ (\A r \in Requests : Answers(req'[r])) => AnswersInv'
    /\ \A c : Settled(c) <=> call[c].state \in Over \cup {"deleted"} /\ \A r \in Requests : ~Passed(req[r], c)
    /\ \A c : call'[c].state \in Over \cup {"deleted"} /\ (\A r \in Requests : ~Passed(req'[r], c)) => Settled(c)'
BY DEF AnswersInv, Answers, At, Settled, AnswerPassed, Passed

\* What a step of the server may make of its request.
LEMMA ServeAnswers ==
    ASSUME TypeOK, AnswersInv, NEW r \in Requests, Serve(r)
    PROVE  /\ \A s \in Requests \ {r} : req'[s] = req[s]
           /\ Answers(req'[r])
           /\ \A c \in Calls : Settled(c) => ~Passed(req'[r], c)
<1>0. RequestsOK /\ DataOK /\ RequestOK(req[r]) /\ req[r] \in Request /\ Answers(req[r])
  BY TypeParts, PassedIs DEF RequestsOK, RequestOK
<1>1. ASSUME NEW ok, Done(r, ok)
      PROVE  /\ \A s \in Requests \ {r} : req'[s] = req[s]
             /\ Answers(req'[r]) /\ \A c \in Calls : ~Passed(req'[r], c)
  BY <1>0, <1>1 DEF Done, Becomes, RequestsOK, Request, Answers, Passed
<1>2. ASSUME NEW q, Becomes(r, q)
      PROVE  req'[r] = q /\ \A s \in Requests \ {r} : req'[s] = req[s]
  BY <1>0, <1>2 DEF Becomes, RequestsOK
<1>3. CASE req[r].op # "signal"
  <2>1. req'[r].op = req[r].op /\ \A s \in Requests \ {r} : req'[s] = req[s]
    <3>1. CASE CheckCaller(r) \/ CheckOwn(r)
      BY <1>0, <3>1 DEF CheckCaller, CheckOwn, Goto, Done, Becomes, Request, RequestsOK
    <3>2. CASE ReadMembers(r)
      BY <1>0, <3>2 DEF ReadMembers, Becomes, Request, RequestsOK
    <3>3. CASE InsertCall(r)
      BY <1>0, <3>3 DEF InsertCall, Becomes, Request, RequestsOK
    <3>4. CASE Offer(r) \/ DeleteRow(r) \/ DeleteRows(r)
      <4>1. \E ok \in BOOLEAN : Done(r, ok)
        BY <3>4 DEF Offer, DeleteRow, DeleteRows
      <4> QED BY <1>0, <4>1 DEF Done, Becomes, Request, RequestsOK
    <3> QED BY <1>3, <3>1, <3>2, <3>3, <3>4 DEF Serve, ReadCall, CheckSignal, UpdateCallState, Tell, At
  <2> QED BY <1>3, <2>1 DEF Answers, Passed
<1>4. CASE ReadCall(r)
  <2> DEFINE q == [req[r] EXCEPT !.pc = "member", !.seen = call[req[r].call].state]
  <2>1. CASE Becomes(r, q) /\ call[req[r].call].state \in Rows
    <3>1. q.pc = "member" /\ q.seen = call[req[r].call].state /\ q.call = req[r].call
      BY <1>0 DEF Request
    <3>2. "deleted" \notin Rows
      BY DEF Rows, Over
    <3> HIDE DEF q
    <3>3. \A c \in Calls : Settled(c) => ~Passed(q, c)
      BY <2>1, <3>1, <3>2, PassedIs DEF Passed
    <3> QED BY <1>2, <2>1, <3>1, <3>3 DEF Answers
  <2>2. CASE Done(r, FALSE)
    BY <1>1, <2>2
  <2> QED BY <1>4, <2>1, <2>2 DEF ReadCall
<1>5. CASE CheckSignal(r)
  <2>1. PICK step \in {"publish", "write"} : Done(r, FALSE) \/
                  (/\ Goto(r, step)
                   /\ ~(req[r].seen \in Over /\ Refused(req[r].action)))
    BY <1>5 DEF CheckSignal
  <2>2. CASE Done(r, FALSE)
    BY <1>1, <2>2
  <2>3. CASE Goto(r, step) /\ ~(req[r].seen \in Over /\ Refused(req[r].action))
    <3> DEFINE q == [req[r] EXCEPT !.pc = step]
    <3>1. /\ Becomes(r, q) /\ q.seen = req[r].seen /\ q.action = req[r].action /\ q.op = req[r].op
          /\ q.call = req[r].call
      BY <1>0, <2>3 DEF Goto, Request
    <3>2. req[r].action = "answer" => req[r].seen \notin Over
      BY <2>3 DEF Refused
    <3>3. Passed(q, req[r].call) => Passed(req[r], req[r].call)
      BY <1>5, <3>1 DEF CheckSignal, At, Passed
    <3> HIDE DEF q
    <3>4. \A c \in Calls : Settled(c) => ~Passed(q, c)
      BY <3>1, <3>3, PassedIs DEF Passed
    <3> QED BY <1>2, <3>1, <3>2, <3>4 DEF Answers
  <2> QED BY <2>1, <2>2, <2>3
<1>6. CASE UpdateCallState(r)
  <2> DEFINE q == [req[r] EXCEPT !.pc = "publish"]
  <2>1. Becomes(r, q) /\ q.pc = "publish"
    BY <1>0, <1>6 DEF UpdateCallState, Goto, Request
  <2> HIDE DEF q
  <2> QED BY <1>2, <2>1 DEF Answers, Passed
<1>7. CASE Tell(r)
  BY <1>1, <1>7 DEF Tell
<1> QED BY <1>3, <1>4, <1>5, <1>6, <1>7 DEF Serve, CheckCaller, ReadMembers, InsertCall, Offer, CheckOwn, DeleteRow,
        DeleteRows, At

\* What a step of the server may make of a call that is over.
LEMMA ServeSettled ==
    ASSUME TypeOK, AnswersInv, NEW r \in Requests, Serve(r), NEW c \in Calls, Settled(c)
    PROVE  call'[c].state \in Over \cup {"deleted"}
<1>0. DataOK /\ call \in [Calls -> Call] /\ call[c].state \in Over \cup {"deleted"}
  BY TypeParts DEF DataOK, Settled
<1>1. CASE InsertCall(r)
  <2>1. "none" \notin Over \cup {"deleted"}
    BY DEF Over
  <2> QED BY <1>0, <1>1, <2>1 DEF InsertCall
<1>2. CASE UpdateCallState(r)
  <2>1. CASE UNCHANGED call
    BY <1>0, <2>1
  <2>2. CASE call' = [call EXCEPT ![req[r].call] = [@ EXCEPT !.state = StateAfter(req[r].action)]]
    <3>1. req[r].call = c => req[r].action # "answer"
      BY <1>2 DEF UpdateCallState, At, AnswersInv, Settled, AnswerPassed
    <3>2. req[r].action # "answer" => StateAfter(req[r].action) \in Over
      BY DEF StateAfter, Over
    <3>3. req[r].call = c => call'[c].state = StateAfter(req[r].action)
      BY <1>0, <2>2 DEF Call
    <3>4. req[r].call # c => call'[c] = call[c]
      BY <1>0, <2>2
    <3> QED BY <1>0, <3>1, <3>2, <3>3, <3>4
  <2> QED BY <1>2, <2>1, <2>2 DEF UpdateCallState
<1>3. CASE DeleteRow(r) \/ DeleteRows(r)
  BY <1>0, <1>3 DEF DeleteRow, DeleteRows, Call
<1>4. CASE call' = call
  BY <1>0, <1>4
<1> QED BY <1>1, <1>2, <1>3, <1>4 DEF Serve, CheckCaller, ReadMembers, Offer, ReadCall, CheckSignal, Tell, CheckOwn

LEMMA NextSettled ==
    ASSUME TypeOK, AnswersInv, [CallsNext]_callVars
    PROVE  AnswersInv' /\ \A c \in Calls : Settled(c) => Settled(c)'
<1>0. RequestsOK /\ \A s \in Requests : Answers(req[s])
  BY TypeParts, PassedIs
<1>1. ASSUME NEW r \in Requests, Serve(r) PROVE AnswersInv' /\ \A c \in Calls : Settled(c) => Settled(c)'
  BY <1>0, <1>1, ServeAnswers, ServeSettled, PassedIs
<1>2. ASSUME NEW r \in Requests, Begin(r) \/ Cancel(r) \/ Return(r)
      PROVE  AnswersInv' /\ \A c \in Calls : Settled(c) => Settled(c)'
  <2>1. Answers(req'[r]) /\ \A c : ~Passed(req'[r], c)
    <3>1. CASE Begin(r)
      <4>1. PICK q : Becomes(r, q) /\ Fresh(q)
        BY <3>1, BeginFresh
      <4>2. req'[r] = q
        BY <1>0, <4>1 DEF Becomes, RequestsOK
      <4> QED BY <4>1, <4>2 DEF Fresh, Answers, Passed
    <3>2. CASE Cancel(r)
      <4>1. req'[r].pc = "done"
        BY <1>0, <3>2 DEF Cancel, Done, Becomes, Request, RequestsOK
      <4> QED BY <4>1 DEF Answers, Passed
    <3>3. CASE Return(r)
      <4>1. req'[r].pc = "idle"
        BY <1>0, <3>3 DEF Return, Becomes, NoRequest, RequestsOK
      <4> QED BY <4>1 DEF Answers, Passed
    <3> QED BY <1>2, <3>1, <3>2, <3>3
  <2>2. (\A s \in Requests \ {r} : req'[s] = req[s]) /\ call' = call
    BY <1>0, <1>2 DEF Begin, Cancel, Return, Becomes, Done, RequestsOK
  <2> QED BY <1>0, <2>1, <2>2, PassedIs
<1>3. CASE UNCHANGED <<call, req>>
  BY <1>0, <1>3, PassedIs
<1> QED BY <1>1, <1>2, <1>3 DEF CallsNext, MembersChange, Take, callVars

LEMMA InitAnswers == CallsInit => AnswersInv
BY DEF CallsInit, AnswersInv, At, NoRequest

\* For any number of requests, an answer that has not passed the test of the state before a call was
\* over does not bring the call back, and nothing else does (SettledStays).
THEOREM OverStaysOver == CallsSpec => SettledStays
<1>1. TypeOK /\ AnswersInv /\ [CallsNext]_callVars =>
         AnswersInv' /\ [\A c \in Calls : Settled(c) => Settled(c)']_callVars
  BY NextSettled
<1> QED BY <1>1, InitAnswers, ServerType, PTL DEF CallsSpec, SettledStays

-----------------------------------------------------------------------------
(* The screens                                                             *)

\* A request of a client is one that the server may be asked.
LEMMA SentBegins ==
    ASSUME NEW u \in Users, NEW slot \in {"start", "side"}, Free(u, slot), NEW q \in Asked, Send(u, slot, q),
           UNCHANGED <<call, members, inbox>>
    PROVE  \E r \in Requests : Begin(r)
<1>1. <<u, slot>> \in Requests
  BY CallPagesAssumption
<1>2. Begin(<<u, slot>>)
  BY DEF Begin, Free, Send
<1> QED BY <1>1, <1>2

LEMMA PageRequests ==
    ASSUME NEW u \in Users, NEW c \in Calls, NEW a \in Actions
    PROVE  /\ Starting(u) \in Asked /\ Clearing(u) \in Asked
           /\ Signalling(u, c, a) \in Asked /\ Deleting(u, c) \in Asked
BY DEF Asked

LEMMA PageStarts == \A u \in Users : Starting(u) \in Asked /\ Clearing(u) \in Asked
BY DEF Asked

LEMMA StepOfCalls ==
    ASSUME PagesTypeOK, [PagesNext]_vars
    PROVE  [CallsNext]_callVars
<1>0. /\ TypeOK /\ ringing \in [Users -> Calls \cup {None}] /\ page \in [Users -> Page]
      /\ {"answer", "reject", "hangup"} \subseteq Actions
  BY DEF PagesTypeOK, Actions
<1>1. ASSUME NEW u \in Users, Dial(u) \/ Accept(u) PROVE UNCHANGED callVars
  BY <1>1 DEF Dial, Accept, callVars
<1>2. ASSUME NEW u \in Users, Decline(u) PROVE CallsNext
  <2>1. ringing[u] \in Calls
    BY <1>0, <1>2 DEF Decline
  <2> QED BY <1>0, <1>2, <2>1, SentBegins, PageRequests DEF Decline, CallsNext
<1>3. ASSUME NEW u \in Users, Opened(u) PROVE CallsNext
  <2>1. CASE page[u].outgoing
    BY <1>3, <2>1, SentBegins, PageStarts DEF Opened, CallsNext
  <2>2. CASE ~page[u].outgoing
    <3>1. page[u].offer \in Calls
      BY <1>0, <1>3, <2>2 DEF PagesTypeOK, Opened, Page
    <3> QED BY <1>0, <1>3, <2>2, <3>1, SentBegins, PageRequests DEF Opened, CallsNext
  <2> QED BY <2>1, <2>2
<1>4. ASSUME NEW u \in Users, Leave(u) PROVE [CallsNext]_callVars
  <2>1. CASE page[u].call # None
    <3>1. page[u].call \in Calls
      BY <1>0, <2>1 DEF Page
    <3> QED BY <1>0, <1>4, <2>1, <3>1, SentBegins, PageRequests DEF Leave, CallsNext
  <2>2. CASE page[u].call = None
    BY <1>4, <2>2 DEF Leave, callVars
  <2> QED BY <2>1, <2>2
<1>5. ASSUME NEW u \in Users, DeleteHistory(u) PROVE CallsNext
  <2>1. CASE Send(u, "side", Clearing(u))
    BY <1>5, <2>1, SentBegins, PageStarts DEF DeleteHistory, CallsNext
  <2>2. CASE \E c \in Calls : Send(u, "side", Deleting(u, c))
    BY <1>0, <1>5, <2>2, SentBegins, PageRequests DEF DeleteHistory, CallsNext
  <2> QED BY <1>5, <2>1, <2>2 DEF DeleteHistory
<1>6. ASSUME NEW u \in Users, Hear(u) PROVE CallsNext
  BY <1>6 DEF Hear, CallsNext
<1>7. ASSUME NEW u \in Users, Kick(u) PROVE CallsNext
  BY <1>0, <1>7 DEF Kick, CallsNext, MembersChange, TypeOK
<1>8. ASSUME NEW u \in Users, NEW slot \in {"start", "side"}, Returned(u, slot) PROVE CallsNext
  <2>1. <<u, slot>> \in Requests
    BY CallPagesAssumption
  <2> QED BY <1>8, <2>1 DEF Returned, CallsNext
<1>9. CASE UNCHANGED vars
  BY <1>9 DEF vars, callVars
<1> QED BY <1>1, <1>2, <1>3, <1>4, <1>5, <1>6, <1>7, <1>8, <1>9 DEF PagesNext, CallsNext

\* The types of the screens.
ScreensOK ==
    /\ ringing \in [Users -> Calls \cup {None}]
    /\ page \in [Users -> Page]
    /\ \A u \in Users : page[u].pc = "opening" => page[u].call = None
    /\ \A u \in Users : page[u].pc = "opening" /\ ~page[u].outgoing => page[u].offer # None

PageOK(p) ==
    /\ p \in Page
    /\ p.pc = "opening" => p.call = None
    /\ p.pc = "opening" /\ ~p.outgoing => p.offer # None

LEMMA NoPageOK == PageOK(NoPage)
BY DEF PageOK, NoPage, Page

LEMMA TurnsOK ==
    ASSUME ScreensOK, NEW u \in Users, NEW p, PageOK(p), Turns(u, p),
           ringing' \in [Users -> Calls \cup {None}]
    PROVE  ScreensOK'
BY DEF ScreensOK, PageOK, Turns

LEMMA NextScreens ==
    ASSUME TypeOK, ScreensOK, [PagesNext]_vars
    PROVE  ScreensOK'
<1>0. ringing \in [Users -> Calls \cup {None}] /\ \A u \in Users : PageOK(page[u]) /\ page[u] \in Page
  BY DEF ScreensOK, PageOK
<1>1. ASSUME NEW u \in Users, Dial(u) PROVE ScreensOK'
  <2>1. PageOK([NoPage EXCEPT !.pc = "opening", !.outgoing = TRUE])
    BY DEF PageOK, NoPage, Page
  <2> QED BY <1>0, <1>1, <2>1, TurnsOK DEF Dial
<1>2. ASSUME NEW u \in Users, Accept(u) PROVE ScreensOK'
  <2>1. PageOK([NoPage EXCEPT !.pc = "opening", !.offer = ringing[u]])
    BY <1>0, <1>2 DEF PageOK, NoPage, Page, Accept
  <2> QED BY <1>0, <1>2, <2>1, TurnsOK DEF Accept
<1>3. ASSUME NEW u \in Users, Decline(u) PROVE ScreensOK'
  BY <1>0, <1>3 DEF Decline, ScreensOK
<1>4. ASSUME NEW u \in Users, Opened(u) PROVE ScreensOK'
  <2>1. PageOK([page[u] EXCEPT !.pc = "calling"])
    BY <1>0 DEF PageOK, Page
  <2> DEFINE b == call[page[u].offer].state \in Over
             p == [page[u] EXCEPT !.pc = "answering", !.call = page[u].offer, !.late = b]
  <2>2. PageOK(p)
    <3>1. b \in BOOLEAN
      OBVIOUS
    <3> HIDE DEF b
    <3> QED BY <1>0, <3>1 DEF PageOK, Page
  <2>3. ringing' = ringing /\ (Turns(u, [page[u] EXCEPT !.pc = "calling"]) \/ Turns(u, p))
    BY <1>4 DEF Opened
  <2> HIDE DEF p
  <2> QED BY <1>0, <2>1, <2>2, <2>3, TurnsOK
<1>5. ASSUME NEW u \in Users, Leave(u) PROVE ScreensOK'
  <2>1. PageOK([page[u] EXCEPT !.pc = "leaving", !.call = None])
    BY <1>0 DEF PageOK, Page
  <2> QED BY <1>0, <1>5, <2>1, NoPageOK, TurnsOK DEF Leave
<1>6. ASSUME NEW u \in Users, DeleteHistory(u) \/ Kick(u) PROVE ScreensOK'
  BY <1>0, <1>6 DEF DeleteHistory, Kick, screens, ScreensOK
<1>7. ASSUME NEW u \in Users, Hear(u) PROVE ScreensOK'
  <2>1. Head(inbox[u]) \in Event
    BY <1>7 DEF Hear, Take, TypeOK
  <2>2. RingsAfter(u, Head(inbox[u])) \in Calls \cup {None}
    BY <1>0, <2>1 DEF RingsAfter, Event
  <2>3. ringing' \in [Users -> Calls \cup {None}]
    BY <1>0, <1>7, <2>2 DEF Hear
  <2>4. Turns(u, NoPage) \/ page' = page
    BY <1>7 DEF Hear
  <2> QED BY <2>3, <2>4, NoPageOK, TurnsOK DEF ScreensOK
<1>8. ASSUME NEW u \in Users, NEW slot \in {"start", "side"}, Returned(u, slot) PROVE ScreensOK'
  <2>1. <<u, slot>> \in Requests
    BY CallPagesAssumption
  <2>2. req[<<u, slot>>].call \in Calls \cup {None}
    BY <2>1 DEF TypeOK, Request
  <2>3. PageOK([page[u] EXCEPT !.pc = "open", !.call = IF req[<<u, slot>>].op = "start" /\ req[<<u, slot>>].ok
                                                       THEN req[<<u, slot>>].call ELSE @])
    BY <1>0, <2>2 DEF PageOK, Page
  <2>4. ringing' = ringing
    BY <1>8 DEF Returned
  <2> QED BY <1>0, <1>8, <2>3, <2>4, NoPageOK, TurnsOK DEF Returned, ScreensOK
<1>9. CASE UNCHANGED screens
  BY <1>9 DEF screens, ScreensOK
<1> QED BY <1>1, <1>2, <1>3, <1>4, <1>5, <1>6, <1>7, <1>8, <1>9 DEF PagesNext, vars, screens

LEMMA NextPages == PagesTypeOK /\ [PagesNext]_vars => PagesTypeOK'
<1> SUFFICES ASSUME PagesTypeOK, [PagesNext]_vars PROVE PagesTypeOK'
  OBVIOUS
<1>1. TypeOK /\ ScreensOK
  BY DEF PagesTypeOK, ScreensOK
<1>2. TypeOK'
  BY <1>1, StepOfCalls, NextType
<1>3. ScreensOK'
  BY <1>1, NextScreens
<1> QED BY <1>2, <1>3 DEF PagesTypeOK, ScreensOK

LEMMA InitPages == PagesInit => PagesTypeOK
BY InitType DEF PagesInit, PagesTypeOK, NoPage, Page

\* The server's requests and the two screens keep their types, and a page knows its call from the
\* moment it answers (PagesTypeOK).
THEOREM PagesTypeCorrect == PagesSpec => []PagesTypeOK
BY InitPages, NextPages, PTL DEF PagesSpec

\* Whatever the users do on their screens, the server sees nothing but requests that Calls has: the
\* two screens and the server implement Calls, and what holds of Calls holds of them.
THEOREM PagesImplementCalls == PagesSpec => CallsSpec
<1>1. PagesInit => CallsInit
  BY DEF PagesInit
<1>2. PagesTypeOK /\ [PagesNext]_vars => [CallsNext]_callVars
  BY StepOfCalls
<1> QED BY <1>1, <1>2, PagesTypeCorrect, PTL DEF PagesSpec, CallsSpec

\* With the two screens as well, a call that is over stays over (SettledStays).
THEOREM PagesOverStaysOver == PagesSpec => SettledStays
BY PagesImplementCalls, OverStaysOver, PTL
=============================================================================
