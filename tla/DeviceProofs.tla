---------------------------- MODULE DeviceProofs ----------------------------
(***************************************************************************)
(* What holds of a device's credentials for any tasks, sessions and number *)
(* of token pairs: TypeOK, that a device that is signed out stays so until *)
(* a login, however its calls overlap and wherever the app dies, and that  *)
(* what it stores between two calls is one pair the server still serves    *)
(* unless calls have overlapped or the app has died during one.            *)
(***************************************************************************)
EXTENDS Device, TLAPS

-----------------------------------------------------------------------------
(* Types                                                                   *)

\* The part of TypeOK about the tasks, and the part about all the rest.
TaskOK(c) == c \in Task /\ (c.pc = "perform" => c.token # NoToken)
TasksOK == task \in [Tasks -> Task] /\ \A t \in Tasks : TaskOK(task[t])
RestOK ==
    /\ row \in [Sessions -> {"none", "live", "over"}]
    /\ gen \in [Sessions -> Nat]
    /\ stale \subseteq {s \in Sessions : row[s] = "live"} /\ spent \subseteq stale
    /\ access \in Token \cup {NoToken}
    /\ refresh \in Token \cup {NoToken}
    /\ alone \in BOOLEAN

LEMMA TypeParts == TypeOK <=> TasksOK /\ RestOK
BY DEF TypeOK, TasksOK, TaskOK, RestOK

LEMMA NextParts == TasksOK' /\ RestOK' => TypeOK'
BY DEF TypeOK, TasksOK, TaskOK, RestOK

LEMMA BlankOK == TaskOK(Blank)
BY DEF TaskOK, Blank, Task, Steps, Stages, Answers

LEMMA TokenNotNone == NoToken \notin Token
BY DeviceAssumption DEF Token, NoToken

LEMMA BecomesOK ==
    ASSUME TasksOK, NEW t \in Tasks, NEW c, TaskOK(c), Becomes(t, c)
    PROVE  TasksOK'
BY DEF TasksOK, TaskOK, Becomes

LEMMA GotoOK ==
    ASSUME TasksOK, NEW t \in Tasks, NEW step \in Steps \ {"perform"}, Goto(t, step)
    PROVE  TasksOK'
<1>1. TaskOK([task[t] EXCEPT !.pc = step])
  BY DEF TasksOK, TaskOK, Task
<1> QED BY <1>1, BecomesOK DEF Goto

LEMMA AnsweredOK ==
    ASSUME TasksOK, NEW t \in Tasks, NEW a \in Answers, Answered(t, a)
    PROVE  TasksOK'
<1>1. TaskOK([task[t] EXCEPT !.pc = "answered", !.answer = a])
  BY DEF TasksOK, TaskOK, Task, Steps
<1> QED BY <1>1, BecomesOK DEF Answered

\* A task whose request, or whose refresh, has been sent with a stored token.
LEMMA SentOK ==
    ASSUME TasksOK, NEW t \in Tasks, NEW stage \in Stages, NEW x \in Token \cup {NoToken},
           Becomes(t, [task[t] EXCEPT !.pc = "request", !.stage = stage, !.token = x])
    PROVE  TasksOK'
<1>1. TaskOK([task[t] EXCEPT !.pc = "request", !.stage = stage, !.token = x])
  BY DEF TasksOK, TaskOK, Task, Steps
<1> QED BY <1>1, BecomesOK

\* A task whose answer brought a pair, or lost the one it brought.
LEMMA FreshOK ==
    ASSUME TasksOK, NEW t \in Tasks, NEW a \in Answers, NEW x \in Token \cup {NoToken},
           Becomes(t, [task[t] EXCEPT !.pc = "answered", !.answer = a, !.fresh = x])
    PROVE  TasksOK'
<1>1. TaskOK([task[t] EXCEPT !.pc = "answered", !.answer = a, !.fresh = x])
  BY DEF TasksOK, TaskOK, Task, Steps
<1> QED BY <1>1, BecomesOK

LEMMA AccessAnswers == \A x : AccessAnswer(x) \in {"ok", "unauthorized", "expired"}
BY DEF AccessAnswer

\* A request the server works on names a session that has a row.
LEMMA PerformToken ==
    ASSUME TasksOK, NEW t \in Tasks, At(t, "perform")
    PROVE  task[t].token \in Token /\ task[t].token.session \in Sessions
BY DEF TasksOK, TaskOK, Task, At, Token

LEMMA EndOK ==
    ASSUME RestOK, NEW ss \in SUBSET Sessions, End(ss), UNCHANGED <<storage, alone>>
    PROVE  RestOK'
BY DEF RestOK, End, storage

LEMMA BeginType ==
    ASSUME TypeOK, NEW t \in Tasks, Begin(t)
    PROVE  TypeOK'
<1>0. TasksOK /\ RestOK
  BY TypeParts
<1>1. PICK op \in Operations :
        Becomes(t, [Blank EXCEPT !.op = op, !.pc = FirstStep(op)])
  BY DEF Begin
<1>2. TaskOK([Blank EXCEPT !.op = op, !.pc = FirstStep(op)])
  BY DeviceAssumption DEF FirstStep, TaskOK, Blank, Task, Steps, Stages, Answers
<1>3. TasksOK'
  BY <1>0, <1>1, <1>2, BecomesOK
<1>4. alone' \in BOOLEAN
  BY DEF Begin
<1> QED BY <1>0, <1>3, <1>4, NextParts DEF Begin, server, storage, RestOK

LEMMA ClientType ==
    ASSUME TypeOK, NEW t \in Tasks, UNCHANGED alone,
           \/ ReadAccess(t) \/ ReadRefresh(t) \/ Conclude(t) \/ Refreshed(t) \/ Lose(t)
           \/ WriteAccess(t) \/ WriteRefresh(t) \/ ClearAccess(t) \/ ClearRefresh(t)
    PROVE  TypeOK'
<1>0. TasksOK /\ RestOK /\ task[t] \in Task
  BY TypeParts DEF TasksOK
<1>2. CASE ReadAccess(t)
  <2>1. TasksOK'
    <3>1. CASE Goto(t, "done")
      BY <1>0, <3>1, GotoOK DEF Steps
    <3>2. CASE Becomes(t, [task[t] EXCEPT !.pc = "request", !.token = access])
      <4>1. TaskOK([task[t] EXCEPT !.pc = "request", !.token = access])
        BY <1>0 DEF RestOK, TaskOK, Task, Steps
      <4> QED BY <1>0, <3>2, <4>1, BecomesOK
    <3> QED BY <1>2, <3>1, <3>2 DEF ReadAccess
  <2> QED BY <1>0, <1>2, <2>1, NextParts DEF ReadAccess, server, storage, RestOK
<1>3. CASE ReadRefresh(t)
  <2>1. TasksOK'
    BY <1>0, <1>3, GotoOK, SentOK DEF ReadRefresh, RestOK, Steps, Stages
  <2> QED BY <1>0, <1>3, <2>1, NextParts DEF ReadRefresh, server, storage, RestOK
<1>4. CASE Conclude(t)
  <2>1. AfterAnswer(task[t]) \in Steps \ {"perform"}
    BY DEF AfterAnswer, Steps
  <2>2. TasksOK'
    BY <1>0, <1>4, <2>1, GotoOK DEF Conclude
  <2> QED BY <1>0, <1>4, <2>2, NextParts DEF Conclude, server, storage, RestOK
<1>5. CASE Refreshed(t)
  <2>1. AfterRefresh(task[t]) \in Steps \ {"perform"}
    BY DEF AfterRefresh, Steps
  <2>2. TasksOK'
    BY <1>0, <1>5, <2>1, GotoOK DEF Refreshed
  <2> QED BY <1>0, <1>5, <2>2, NextParts DEF Refreshed, server, storage, RestOK
<1>6. CASE Lose(t)
  <2>1. TasksOK'
    BY <1>0, <1>6, FreshOK DEF Lose, Answers
  <2> QED BY <1>0, <1>6, <2>1, NextParts DEF Lose, server, storage, RestOK
<1>7. CASE WriteAccess(t)
  <2>1. TasksOK'
    BY <1>0, <1>7, GotoOK DEF WriteAccess, Steps
  <2>2. RestOK'
    BY <1>0, <1>7 DEF WriteAccess, server, RestOK, Task
  <2> QED BY <2>1, <2>2, NextParts
<1>8. CASE WriteRefresh(t)
  <2>1. TasksOK'
    <3>1. CASE Goto(t, "done")
      BY <1>0, <3>1, GotoOK DEF Steps
    <3>2. CASE Becomes(t, [task[t] EXCEPT !.pc = "readAccess", !.stage = "retry"])
      <4>1. TaskOK([task[t] EXCEPT !.pc = "readAccess", !.stage = "retry"])
        BY <1>0 DEF TaskOK, Task, Steps, Stages
      <4> QED BY <1>0, <3>2, <4>1, BecomesOK
    <3> QED BY <1>8, <3>1, <3>2 DEF WriteRefresh
  <2>2. RestOK'
    BY <1>0, <1>8 DEF WriteRefresh, server, RestOK, Task
  <2> QED BY <2>1, <2>2, NextParts
<1>9. CASE ClearAccess(t) \/ ClearRefresh(t)
  <2>1. TasksOK'
    BY <1>0, <1>9, GotoOK DEF ClearAccess, ClearRefresh, Steps
  <2>2. RestOK'
    BY <1>0, <1>9 DEF ClearAccess, ClearRefresh, server, RestOK
  <2> QED BY <2>1, <2>2, NextParts
<1> QED BY <1>2, <1>3, <1>4, <1>5, <1>6, <1>7, <1>8, <1>9

LEMMA ServerType ==
    ASSUME TypeOK, NEW t \in Tasks, UNCHANGED alone,
           \/ Issue(t) \/ Authenticate(t) \/ LookupRefresh(t)
           \/ Rotate(t) \/ Revoke(t) \/ Delete(t)
    PROVE  TypeOK'
<1>0. TasksOK /\ RestOK /\ task[t] \in Task
  BY TypeParts DEF TasksOK
<1>1. CASE Issue(t)
  <2>1. CASE Answered(t, "refused") /\ UNCHANGED server
    <3>1. TasksOK'
      BY <1>0, <2>1, AnsweredOK DEF Answers
    <3> QED BY <1>0, <1>1, <2>1, <3>1, NextParts DEF Issue, server, storage, RestOK
  <2>2. ASSUME NEW s \in Sessions, row[s] = "none", row' = [row EXCEPT ![s] = "live"],
               gen' = [gen EXCEPT ![s] = 1], UNCHANGED <<stale, spent>>,
               Becomes(t, [task[t] EXCEPT !.pc = "answered", !.answer = "ok",
                                          !.fresh = [session |-> s, gen |-> 1]])
        PROVE  TypeOK'
    <3>1. [session |-> s, gen |-> 1] \in Token
      BY DEF Token
    <3>2. TasksOK'
      BY <1>0, <2>2, <3>1, FreshOK DEF Answers
    <3>3. RestOK'
      BY <1>0, <1>1, <2>2 DEF Issue, storage, RestOK
    <3> QED BY <3>2, <3>3, NextParts
  <2> QED BY <1>1, <2>1, <2>2 DEF Issue
<1>2. CASE Authenticate(t)
  <2>1. ASSUME NEW a \in Answers, Answered(t, a) PROVE TasksOK'
    BY <1>0, <2>1, AnsweredOK
  <2>2. ASSUME Goto(t, "perform"), AccessAnswer(task[t].token) = "ok"
        PROVE  TasksOK'
    <3>1. task[t].token # NoToken
      BY <2>2 DEF AccessAnswer, Current
    <3>2. TaskOK([task[t] EXCEPT !.pc = "perform"])
      BY <1>0, <3>1 DEF TaskOK, Task, Steps
    <3> QED BY <1>0, <2>2, <3>2, BecomesOK DEF Goto
  <2>3. TasksOK'
    <3>1. AccessAnswer(task[t].token) \in Answers /\ "refused" \in Answers
      BY AccessAnswers DEF Answers
    <3>2. \/ Answered(t, AccessAnswer(task[t].token))
          \/ Goto(t, "perform") /\ AccessAnswer(task[t].token) = "ok"
          \/ Answered(t, "refused")
      BY <1>2 DEF Authenticate
    <3> QED BY <2>1, <2>2, <3>1, <3>2
  <2> QED BY <1>0, <1>2, <2>3, NextParts DEF Authenticate, server, storage, RestOK
<1>3. CASE LookupRefresh(t)
  <2>1. CASE Goto(t, "perform") /\ Current(task[t].token)
    <3>1. TaskOK([task[t] EXCEPT !.pc = "perform"])
      BY <1>0, <2>1 DEF TaskOK, Task, Steps, Current
    <3>2. TasksOK'
      BY <1>0, <2>1, <3>1, BecomesOK DEF Goto
    <3> QED BY <1>0, <1>3, <3>2, NextParts DEF LookupRefresh, server, storage, RestOK
  <2>2. CASE Answered(t, "unauthorized") \/ Answered(t, "expired")
    <3>1. TasksOK'
      BY <1>0, <2>2, AnsweredOK DEF Answers
    <3> QED BY <1>0, <1>3, <3>1, NextParts DEF LookupRefresh, server, storage, RestOK
  <2> QED BY <1>3, <2>1, <2>2 DEF LookupRefresh
<1>4. CASE Rotate(t)
  <2> DEFINE s == task[t].token.session
  <2>1. s \in Sessions
    BY <1>0, <1>4, PerformToken DEF Rotate
  <2>2. CASE row[s] = "live"
    <3>1. [session |-> s, gen |-> gen[s] + 1] \in Token
      BY <1>0, <2>1 DEF Token, RestOK
    <3>2. TasksOK'
      <4> HIDE DEF s
      <4>1. Becomes(t, [task[t] EXCEPT !.pc = "answered", !.answer = "ok",
                                       !.fresh = [session |-> s, gen |-> gen[s] + 1]])
        BY <1>4, <2>2 DEF Rotate, s
      <4> QED BY <1>0, <3>1, <4>1, FreshOK DEF Answers
    <3>3. RestOK'
      BY <1>0, <1>4, <2>1, <2>2 DEF Rotate, storage, RestOK
    <3> QED BY <3>2, <3>3, NextParts
  <2>3. CASE row[s] # "live"
    <3>1. TasksOK'
      BY <1>0, <1>4, <2>3, AnsweredOK DEF Rotate, Answers
    <3> QED BY <1>0, <1>4, <2>3, <3>1, NextParts DEF Rotate, server, storage, RestOK
  <2> QED BY <2>2, <2>3
<1>5. CASE Revoke(t)
  <2>1. task[t].token.session \in Sessions
    BY <1>0, <1>5, PerformToken DEF Revoke
  <2>2. TasksOK'
    BY <1>0, <1>5, AnsweredOK DEF Revoke, Answers
  <2>3. RestOK'
    BY <1>0, <1>5, <2>1, EndOK DEF Revoke
  <2> QED BY <2>2, <2>3, NextParts
<1>6. CASE Delete(t)
  <2>1. TasksOK'
    BY <1>0, <1>6, AnsweredOK, AccessAnswers DEF Delete, Answers
  <2>2. RestOK'
    <3>1. CASE End(Sessions)
      BY <1>0, <1>6, <3>1, EndOK DEF Delete
    <3>2. CASE UNCHANGED server
      BY <1>0, <1>6, <3>2 DEF Delete, server, storage, RestOK
    <3> QED BY <1>6, <3>1, <3>2 DEF Delete
  <2> QED BY <2>1, <2>2, NextParts
<1> QED BY <1>1, <1>2, <1>3, <1>4, <1>5, <1>6

LEMMA AroundType ==
    ASSUME TypeOK, (\E s \in Sessions : Expire(s) \/ EndElsewhere(s)) \/ Kill
    PROVE  TypeOK'
<1>0. TasksOK /\ RestOK
  BY TypeParts
<1>1. CASE \E s \in Sessions : Expire(s)
  BY <1>1 DEF Expire, storage, TypeOK
<1>2. CASE \E s \in Sessions : EndElsewhere(s)
  <2>1. RestOK'
    BY <1>0, <1>2, EndOK DEF EndElsewhere
  <2> QED BY <1>0, <1>2, <2>1, NextParts DEF EndElsewhere, TasksOK
<1>3. CASE Kill
  <2>1. TasksOK'
    BY <1>3, BlankOK DEF Kill, TasksOK, TaskOK
  <2>2. alone' \in BOOLEAN
    BY <1>3 DEF Kill
  <2> QED BY <1>0, <1>3, <2>1, <2>2, NextParts DEF Kill, server, storage, RestOK
<1> QED BY <1>1, <1>2, <1>3

LEMMA TypeStep == TypeOK /\ [Next]_vars => TypeOK'
<1> SUFFICES ASSUME TypeOK, [Next]_vars PROVE TypeOK'
  OBVIOUS
<1>1. CASE UNCHANGED vars
  BY <1>1 DEF vars, TypeOK
<1>2. ASSUME NEW t \in Tasks, Advance(t) PROVE TypeOK'
  BY <1>2, BeginType, ClientType, ServerType DEF Advance, Proceed
<1> QED BY <1>1, <1>2, AroundType DEF Next

\* Every variable keeps its type, and the server writes only for a token it has found.
THEOREM TypeCorrect == Spec => []TypeOK
<1>1. Init => TypeOK
  BY BlankOK DEF Init, TypeOK, TaskOK, Blank
<1> QED BY <1>1, TypeStep, PTL DEF Spec

-----------------------------------------------------------------------------
(* Signed out                                                              *)

\* Only a login and a refresh come to the point of storing a pair.
Writes(c) == c.pc \in {"writeAccess", "writeRefresh"} => c.op = "Login" \/ c.stage = "refresh"
WritesInv == \A t \in Tasks : Writes(task[t])

LEMMA WritesBecomes ==
    ASSUME TypeOK, WritesInv, NEW t \in Tasks, NEW c, Becomes(t, c), Writes(c)
    PROVE  WritesInv'
BY DEF TypeOK, WritesInv, Becomes

LEMMA WritesGoto ==
    ASSUME TypeOK, WritesInv, NEW t \in Tasks, NEW step, Goto(t, step),
           step \in {"writeAccess", "writeRefresh"} => task[t].op = "Login" \/ task[t].stage = "refresh"
    PROVE  WritesInv'
<1>1. task[t] \in Task
  BY DEF TypeOK
<1>2. Writes([task[t] EXCEPT !.pc = step])
  BY <1>1 DEF Writes, Task
<1> QED BY <1>2, WritesBecomes DEF Goto

LEMMA WritesStep == TypeOK /\ WritesInv /\ [Next]_vars => WritesInv'
<1> SUFFICES ASSUME TypeOK, WritesInv, [Next]_vars PROVE WritesInv'
  OBVIOUS
<1>0. \A t \in Tasks : task[t] \in Task
  BY DEF TypeOK
<1>1. ASSUME NEW t \in Tasks, NEW c, Becomes(t, c), c.pc \notin {"writeAccess", "writeRefresh"}
      PROVE  WritesInv'
  BY <1>1, WritesBecomes DEF Writes
<1>2. ASSUME NEW t \in Tasks, NEW a, Answered(t, a)
      PROVE  WritesInv'
  <2>1. [task[t] EXCEPT !.pc = "answered", !.answer = a].pc = "answered"
    BY <1>0 DEF Task
  <2> QED BY <1>1, <1>2, <2>1 DEF Answered
<1>3. ASSUME NEW t \in Tasks, Begin(t) \/ ReadAccess(t) \/ ReadRefresh(t) \/ Lose(t)
      PROVE  WritesInv'
  BY <1>0, <1>3, WritesBecomes
     DEF Begin, FirstStep, ReadAccess, ReadRefresh, Lose, Goto, Blank, Task, Writes
<1>4. ASSUME NEW t \in Tasks, Conclude(t) \/ Refreshed(t)
      PROVE  WritesInv'
  BY <1>4, WritesGoto DEF Conclude, Refreshed, AfterAnswer
<1>5. ASSUME NEW t \in Tasks, WriteAccess(t) \/ ClearAccess(t) \/ ClearRefresh(t)
      PROVE  WritesInv'
  BY <1>5, WritesGoto DEF WriteAccess, ClearAccess, ClearRefresh, At, WritesInv, Writes
<1>6. ASSUME NEW t \in Tasks, WriteRefresh(t)
      PROVE  WritesInv'
  BY <1>0, <1>6, WritesBecomes DEF WriteRefresh, Goto, Task, Writes
<1>7. ASSUME NEW t \in Tasks, Issue(t)
      PROVE  WritesInv'
  <2>1. CASE Answered(t, "refused")
    BY <1>2, <2>1
  <2>2. ASSUME NEW s, Becomes(t, [task[t] EXCEPT !.pc = "answered", !.answer = "ok",
                                                 !.fresh = [session |-> s, gen |-> 1]])
        PROVE  WritesInv'
    BY <1>0, <2>2, WritesBecomes DEF Task, Writes
  <2> QED BY <1>7, <2>1, <2>2 DEF Issue
<1>8. ASSUME NEW t \in Tasks, Authenticate(t) \/ LookupRefresh(t)
      PROVE  WritesInv'
  BY <1>2, <1>8, WritesGoto DEF Authenticate, LookupRefresh
<1>9. ASSUME NEW t \in Tasks, Rotate(t)
      PROVE  WritesInv'
  <2>1. CASE Answered(t, "unauthorized")
    BY <1>2, <2>1
  <2>2. ASSUME NEW x, Becomes(t, [task[t] EXCEPT !.pc = "answered", !.answer = "ok", !.fresh = x])
        PROVE  WritesInv'
    BY <1>0, <2>2, WritesBecomes DEF Task, Writes
  <2> QED BY <1>9, <2>1, <2>2 DEF Rotate
<1>10. ASSUME NEW t \in Tasks, Revoke(t) \/ Delete(t)
       PROVE  WritesInv'
  BY <1>2, <1>10 DEF Revoke, Delete
<1>11. CASE UNCHANGED task
  BY <1>11 DEF WritesInv
<1>12. CASE Kill
  BY <1>12 DEF Kill, WritesInv, Writes, Blank
<1> QED BY <1>3, <1>4, <1>5, <1>6, <1>7, <1>8, <1>9, <1>10, <1>11, <1>12
        DEF Next, Advance, Proceed, vars, Expire, EndElsewhere

\* A task that keeps its op and stage gains no right to store.
LEMMA QuietBecomes ==
    ASSUME TypeOK, SignedOut, UNCHANGED storage, NEW t \in Tasks, NEW c, Becomes(t, c),
           c.op # "Login", c.stage # "refresh"
    PROVE  SignedOut'
BY DEF TypeOK, SignedOut, Empty, storage, MayStore, UnderWay, Becomes

\* What a task under way is when nothing may store.
LEMMA QuietTask ==
    ASSUME TypeOK, SignedOut, NEW t \in Tasks, UnderWay(t)
    PROVE  task[t] \in Task /\ task[t].op # "Login" /\ task[t].stage # "refresh"
BY DEF TypeOK, SignedOut, MayStore

LEMMA SignedOutStep ==
    ASSUME TypeOK, WritesInv, [Next]_vars, SignedOut,
           ~ \E t \in Tasks : ~UnderWay(t) /\ task'[t].op = "Login"
    PROVE  SignedOut'
<1>1. ASSUME NEW t \in Tasks, Begin(t)
      PROVE  SignedOut'
  <2>1. PICK op \in Operations :
          Becomes(t, [Blank EXCEPT !.op = op, !.pc = FirstStep(op)])
    BY <1>1 DEF Begin
  <2>2. op # "Login"
    BY <1>1, <2>1 DEF Begin, Becomes, Blank, TypeOK
  <2> QED BY <1>1, <2>1, <2>2, QuietBecomes DEF Begin, Blank
<1>2. ASSUME NEW t \in Tasks, UnderWay(t), NEW step, Goto(t, step), UNCHANGED storage
      PROVE  SignedOut'
  <2>1. task[t] \in Task /\ task[t].op # "Login" /\ task[t].stage # "refresh"
    BY <1>2, QuietTask
  <2>2. /\ [task[t] EXCEPT !.pc = step].op # "Login"
        /\ [task[t] EXCEPT !.pc = step].stage # "refresh"
    BY <2>1 DEF Task
  <2> QED BY <1>2, <2>2, QuietBecomes DEF Goto
<1>3. ASSUME NEW t \in Tasks, UnderWay(t), NEW a, Answered(t, a), UNCHANGED storage
      PROVE  SignedOut'
  <2>1. task[t] \in Task /\ task[t].op # "Login" /\ task[t].stage # "refresh"
    BY <1>3, QuietTask
  <2>2. /\ [task[t] EXCEPT !.pc = "answered", !.answer = a].op # "Login"
        /\ [task[t] EXCEPT !.pc = "answered", !.answer = a].stage # "refresh"
    BY <2>1 DEF Task
  <2> QED BY <1>3, <2>2, QuietBecomes DEF Answered
<1>4. ASSUME NEW t \in Tasks, ReadAccess(t)
      PROVE  SignedOut'
  <2>1. UnderWay(t)
    BY <1>4 DEF ReadAccess, At, UnderWay
  <2>2. task[t] \in Task /\ task[t].op # "Login" /\ task[t].stage # "refresh"
    BY <2>1, QuietTask
  <2>3. CASE Goto(t, "done")
    BY <1>2, <1>4, <2>1, <2>3 DEF ReadAccess
  <2>4. CASE Becomes(t, [task[t] EXCEPT !.pc = "request", !.token = access])
    BY <1>4, <2>2, <2>4, QuietBecomes DEF ReadAccess, Task
  <2> QED BY <1>4, <2>3, <2>4 DEF ReadAccess
<1>5. ASSUME NEW t \in Tasks, ReadRefresh(t)
      PROVE  SignedOut'
  <2>1. UnderWay(t) /\ Goto(t, "clearAccess") /\ UNCHANGED storage
    BY <1>5 DEF ReadRefresh, At, UnderWay, SignedOut, Empty
  <2> QED BY <1>2, <2>1
<1>6. ASSUME NEW t \in Tasks, Issue(t) \/ LookupRefresh(t) \/ Rotate(t) \/ Refreshed(t)
      PROVE  FALSE
  BY <1>6, QuietTask DEF Issue, LookupRefresh, Rotate, Refreshed, At, UnderWay
<1>7. ASSUME NEW t \in Tasks, WriteAccess(t) \/ WriteRefresh(t)
      PROVE  FALSE
  BY <1>7, QuietTask DEF WriteAccess, WriteRefresh, At, UnderWay, WritesInv, Writes
<1>8. ASSUME NEW t \in Tasks, Authenticate(t) \/ Revoke(t) \/ Delete(t) \/ Conclude(t)
      PROVE  SignedOut'
  <2>1. UnderWay(t) /\ UNCHANGED storage
    BY <1>8 DEF Authenticate, Revoke, Delete, Conclude, At, UnderWay
  <2>2. \/ \E a \in Answers : Answered(t, a)
        \/ \E step \in Steps : Goto(t, step)
    BY <1>8, AccessAnswers
       DEF Authenticate, Revoke, Delete, Conclude, AfterAnswer, Answers, Steps
  <2> QED BY <1>2, <1>3, <2>1, <2>2
<1>9. ASSUME NEW t \in Tasks, Lose(t)
      PROVE  SignedOut'
  <2>1. task[t] \in Task /\ task[t].op # "Login" /\ task[t].stage # "refresh"
    BY <1>9, QuietTask DEF Lose, UnderWay
  <2> QED BY <1>9, <2>1, QuietBecomes DEF Lose, Task
<1>10. ASSUME NEW t \in Tasks, ClearAccess(t) \/ ClearRefresh(t)
       PROVE  SignedOut'
  <2>1. UnderWay(t) /\ UNCHANGED storage
    BY <1>10 DEF ClearAccess, ClearRefresh, At, UnderWay, SignedOut, Empty, storage
  <2> QED BY <1>2, <1>10, <2>1 DEF ClearAccess, ClearRefresh
<1>11. CASE UNCHANGED <<storage, task>>
  BY <1>11 DEF storage, SignedOut, Empty, MayStore, UnderWay
<1>12. CASE Kill
  BY <1>12 DEF Kill, storage, SignedOut, Empty, MayStore, UnderWay, Blank
<1> QED BY <1>1, <1>4, <1>5, <1>6, <1>7, <1>8, <1>9, <1>10, <1>11, <1>12
        DEF Next, Advance, Proceed, vars, storage, Expire, EndElsewhere

\* However calls overlap and wherever the app dies, only a login ends a device's being signed out.
THEOREM SignedOutForGood == Spec => SignedOutStays
<1> DEFINE Signs == \E t \in Tasks : ~UnderWay(t) /\ task'[t].op = "Login"
<1>1. Init => WritesInv
  BY DEF Init, WritesInv, Writes, Blank
<1>2. TypeOK /\ WritesInv /\ [Next]_vars => [SignedOut => SignedOut' \/ Signs]_vars
  BY SignedOutStep
<1> QED BY <1>1, <1>2, WritesStep, TypeCorrect, PTL DEF Spec, SignedOutStays

-----------------------------------------------------------------------------
(* One call at a time                                                      *)

\* A token is the latest pair of its session, if that is not over.
Fits(x) == x # NoToken => /\ row[x.session] # "none"
                          /\ row[x.session] = "live" => gen[x.session] = x.gen
Whole == access = refresh /\ Fits(access)

\* The steps of a task at which the stored pair has to be whole: all but from the answer of a
\* refresh, or of the request that ends the credentials, to the last write or delete.
Settled(c) ==
    \/ c.pc \in {"idle", "done", "readAccess", "readRefresh", "request", "perform"}
    \/ c.pc = "answered" /\ c.stage # "refresh"

MayRefresh(c) == c.op \notin {"Login", "Logout"}

\* The op and stage a task can have at its step.
Staged(c) ==
    /\ c.stage = "refresh" => MayRefresh(c)
    /\ c.pc = "readRefresh" => MayRefresh(c)

\* The pair an answer brought, on its way into storage.
Brought(c) ==
    /\ c.pc = "answered" /\ c.answer = "ok" /\ (c.op = "Login" \/ c.stage = "refresh") => Fits(c.fresh)
    /\ c.pc \in {"writeAccess", "writeRefresh"} => Fits(c.fresh)
    /\ c.pc = "writeRefresh" => access = c.fresh
    /\ c.pc = "clearRefresh" => access = NoToken

\* No task but t is under way.
OnlyTask(t) == \A u \in Tasks \ {t} : ~UnderWay(u)

SerialInv ==
    alone => /\ Quiet => Whole
             /\ \A t \in Tasks : UnderWay(t) =>
                   OnlyTask(t) /\ (Settled(task[t]) => Whole) /\ Staged(task[t]) /\ Brought(task[t])

\* A step of the only task: what its next state has to satisfy.
LEMMA SerialBecomes ==
    ASSUME TypeOK, NEW t \in Tasks, OnlyTask(t), NEW c, Becomes(t, c),
           (Settled(c) => Whole)', Staged(c), Brought(c)'
    PROVE  SerialInv'
<1>1. task'[t] = c /\ \A u \in Tasks \ {t} : task'[u] = task[u]
  BY DEF TypeOK, Becomes
<1>2. \A u \in Tasks \ {t} : ~UnderWay(u)'
  BY <1>1 DEF OnlyTask, UnderWay
<1>3. Quiet' => Settled(c)
  BY <1>1 DEF Quiet, UnderWay, Settled
<1>4. OnlyTask(t)'
  BY <1>2 DEF OnlyTask
<1> QED BY <1>1, <1>2, <1>3, <1>4 DEF SerialInv

LEMMA SerialBegin ==
    ASSUME TypeOK, SerialInv, NEW t \in Tasks, Begin(t)
    PROVE  SerialInv'
<1>1. PICK op \in Operations :
        Becomes(t, [Blank EXCEPT !.op = op, !.pc = FirstStep(op)])
  BY DEF Begin
<1>2. CASE alone'
  <2>1. OnlyTask(t) /\ Quiet /\ (alone \/ Empty)
    BY <1>2 DEF Begin, Quiet, OnlyTask
  <2>2. Whole /\ UNCHANGED <<access, refresh, row, gen>>
    BY <2>1 DEF Begin, SerialInv, Empty, Whole, Fits, storage, server
  <2>3. Whole'
    BY <2>2 DEF Whole, Fits
  <2>4. FirstStep(op) \in {"request", "readRefresh", "readAccess"}
        /\ (FirstStep(op) = "readRefresh" => op = "Refresh")
    BY DEF FirstStep
  <2> QED BY <1>1, <2>1, <2>3, <2>4, SerialBecomes DEF Blank, Staged, MayRefresh, Brought, Settled
<1> QED BY <1>2 DEF SerialInv

LEMMA FitsEnd ==
    ASSUME TypeOK, NEW ss, End(ss), NEW x \in Token \cup {NoToken}, Fits(x)
    PROVE  Fits(x)'
BY DEF TypeOK, End, Fits, Token

LEMMA SerialClient ==
    ASSUME TypeOK, SerialInv, NEW t \in Tasks, alone,
           \/ ReadAccess(t) \/ ReadRefresh(t) \/ Lose(t) \/ Conclude(t) \/ Refreshed(t)
           \/ WriteAccess(t) \/ WriteRefresh(t) \/ ClearAccess(t) \/ ClearRefresh(t)
    PROVE  SerialInv'
<1>u. UnderWay(t)
  BY DEF UnderWay, At, ReadAccess, ReadRefresh, Lose, Conclude, Refreshed, WriteAccess,
         WriteRefresh, ClearAccess, ClearRefresh
<1>0. /\ task[t] \in Task /\ (Settled(task[t]) => Whole) /\ Staged(task[t]) /\ Brought(task[t])
      /\ OnlyTask(t)
  BY <1>u DEF TypeOK, SerialInv
<1>a. UNCHANGED <<row, gen>>
  BY DEF ReadAccess, ReadRefresh, Lose, Conclude, Refreshed, WriteAccess, WriteRefresh,
         ClearAccess, ClearRefresh, server
<1>b. ASSUME UNCHANGED storage PROVE UNCHANGED Whole
  BY <1>a, <1>b DEF storage, Whole, Fits
<1>2. CASE ReadAccess(t)
  <2>1. Whole /\ UNCHANGED storage
    BY <1>0, <1>2 DEF ReadAccess, At, Settled
  <2>2. CASE Goto(t, "done")
    BY <1>0, <1>b, <2>1, <2>2, SerialBecomes DEF Goto, Task, Staged, MayRefresh, Brought, Settled
  <2>3. CASE Becomes(t, [task[t] EXCEPT !.pc = "request", !.token = access])
    BY <1>0, <1>b, <2>1, <2>3, SerialBecomes DEF Task, Staged, MayRefresh, Brought, Settled
  <2> QED BY <1>2, <2>2, <2>3 DEF ReadAccess
<1>3. CASE ReadRefresh(t)
  <2>1. Whole /\ UNCHANGED storage /\ MayRefresh(task[t])
    BY <1>0, <1>3 DEF ReadRefresh, At, Settled, Staged
  <2>2. CASE Goto(t, "clearAccess")
    BY <1>0, <1>b, <2>1, <2>2, SerialBecomes DEF Goto, Task, Staged, MayRefresh, Brought, Settled
  <2>3. CASE Becomes(t, [task[t] EXCEPT !.pc = "request", !.stage = "refresh", !.token = refresh])
    BY <1>0, <1>b, <2>1, <2>3, SerialBecomes DEF Task, Staged, MayRefresh, Brought, Settled
  <2> QED BY <1>3, <2>2, <2>3 DEF ReadRefresh
<1>4. CASE Lose(t)
  <2>1. UNCHANGED storage /\ (task[t].stage # "refresh" => Whole)
    BY <1>0, <1>4 DEF Lose, Settled
  <2> QED BY <1>0, <1>4, <1>b, <2>1, SerialBecomes DEF Lose, Task, Staged, MayRefresh, Brought, Settled
<1>5. CASE Conclude(t)
  <2>1. Whole /\ UNCHANGED storage
    BY <1>0, <1>5 DEF Conclude, At, Settled
  <2>2. /\ AfterAnswer(task[t]) \in {"writeAccess", "done", "clearAccess", "readRefresh"}
        /\ AfterAnswer(task[t]) = "writeAccess" => Fits(task[t].fresh)
        /\ AfterAnswer(task[t]) = "readRefresh" => MayRefresh(task[t])
    BY <1>0, <1>5 DEF Conclude, At, AfterAnswer, Brought, MayRefresh
  <2> QED BY <1>0, <1>5, <1>a, <1>b, <2>1, <2>2, SerialBecomes
          DEF Conclude, Goto, Task, Staged, MayRefresh, Brought, Settled, Fits
<1>6. CASE Refreshed(t)
  <2>1. /\ AfterRefresh(task[t]) \in {"writeAccess", "clearAccess"}
        /\ AfterRefresh(task[t]) = "writeAccess" => Fits(task[t].fresh)
    BY <1>0, <1>6 DEF Refreshed, At, AfterRefresh, Brought
  <2> QED BY <1>0, <1>6, <1>a, <2>1, SerialBecomes
          DEF Refreshed, Goto, Task, Staged, MayRefresh, Brought, Settled, Fits
<1>7. CASE WriteAccess(t)
  BY <1>0, <1>7, <1>a, SerialBecomes
     DEF WriteAccess, At, Goto, Task, Staged, MayRefresh, Brought, Settled, Fits
<1>8. CASE WriteRefresh(t)
  <2>1. access = task[t].fresh /\ Fits(task[t].fresh) /\ Whole'
    BY <1>0, <1>8, <1>a DEF WriteRefresh, At, Brought, Whole, Fits
  <2>2. CASE Goto(t, "done")
    BY <1>0, <2>1, <2>2, SerialBecomes DEF Goto, Task, Staged, MayRefresh, Brought, Settled
  <2>3. CASE Becomes(t, [task[t] EXCEPT !.pc = "readAccess", !.stage = "retry"])
    BY <1>0, <2>1, <2>3, SerialBecomes DEF Task, Staged, MayRefresh, Brought, Settled
  <2> QED BY <1>8, <2>2, <2>3 DEF WriteRefresh
<1>9. CASE ClearAccess(t)
  BY <1>0, <1>9, SerialBecomes DEF ClearAccess, Goto, Task, Staged, MayRefresh, Brought, Settled
<1>10. CASE ClearRefresh(t)
  <2>1. access = NoToken /\ Whole'
    BY <1>0, <1>10 DEF ClearRefresh, At, Brought, Whole, Fits
  <2> QED BY <1>0, <1>10, <2>1, SerialBecomes
          DEF ClearRefresh, Goto, Task, Staged, MayRefresh, Brought, Settled
<1> QED BY <1>2, <1>3, <1>4, <1>5, <1>6, <1>7, <1>8, <1>9, <1>10

\* A request that is refused, or passes the server's check, leaves the stored pair whole.
LEMMA SerialServer ==
    ASSUME TypeOK, SerialInv, NEW t \in Tasks, alone,
           \/ Issue(t) \/ Authenticate(t) \/ LookupRefresh(t)
           \/ Rotate(t) \/ Revoke(t) \/ Delete(t)
    PROVE  SerialInv'
<1>u. UnderWay(t) /\ Settled(task[t])
  BY DEF UnderWay, Settled, At, Issue, Authenticate, LookupRefresh, Rotate, Revoke, Delete
<1>0. /\ task[t] \in Task /\ Staged(task[t]) /\ Whole /\ OnlyTask(t)
      /\ access \in Token \cup {NoToken}
      /\ row \in [Sessions -> {"none", "live", "over"}] /\ gen \in [Sessions -> Nat]
  BY <1>u DEF TypeOK, SerialInv
<1>a. UNCHANGED storage
  BY DEF Issue, Authenticate, LookupRefresh, Rotate, Revoke, Delete, storage
<1>b. ASSUME Whole', NEW a, Answered(t, a), a = "ok" => ~(task[t].op = "Login" \/ task[t].stage = "refresh")
      PROVE  SerialInv'
  BY <1>0, <1>b, SerialBecomes DEF Answered, Task, Staged, MayRefresh, Brought, Settled
<1>c. ASSUME Whole', Goto(t, "perform") PROVE SerialInv'
  BY <1>0, <1>c, SerialBecomes DEF Goto, Task, Staged, MayRefresh, Brought, Settled
<1>d. ASSUME UNCHANGED <<row, gen>> PROVE Whole'
  BY <1>0, <1>a, <1>d DEF storage, Whole, Fits
<1>1. CASE Issue(t)
  <2>1. CASE Answered(t, "refused") /\ UNCHANGED server
    BY <1>b, <1>d, <2>1 DEF server
  <2>2. ASSUME NEW s \in Sessions, row[s] = "none", row' = [row EXCEPT ![s] = "live"],
               gen' = [gen EXCEPT ![s] = 1],
               Becomes(t, [task[t] EXCEPT !.pc = "answered", !.answer = "ok",
                                          !.fresh = [session |-> s, gen |-> 1]])
        PROVE  SerialInv'
    <3>1. Whole'
      BY <1>0, <1>a, <2>2 DEF storage, Whole, Fits, Token
    <3>2. Fits([session |-> s, gen |-> 1])'
      BY <1>0, <2>2 DEF Fits
    <3> QED BY <1>0, <2>2, <3>1, <3>2, SerialBecomes DEF Task, Staged, MayRefresh, Brought, Settled
  <2> QED BY <1>1, <2>1, <2>2 DEF Issue
<1>2. CASE Authenticate(t)
  <2>1. /\ Whole'
        /\ task[t].op # "Login" /\ task[t].stage # "refresh"
        /\ (\E a : Answered(t, a)) \/ Goto(t, "perform")
    BY <1>2, <1>d DEF Authenticate, server
  <2> QED BY <1>b, <1>c, <2>1
<1>3. CASE LookupRefresh(t)
  BY <1>3, <1>b, <1>c, <1>d DEF LookupRefresh, server
<1>4. CASE Rotate(t)
  <2> DEFINE s == task[t].token.session
  <2>1. CASE row[s] = "live"
    <3>1. s \in Sessions
      BY <1>4, TypeParts, PerformToken DEF Rotate
    <3> HIDE DEF s
    <3>2. /\ gen' = [gen EXCEPT ![s] = @ + 1] /\ UNCHANGED row /\ task[t].stage = "refresh"
          /\ Becomes(t, [task[t] EXCEPT !.pc = "answered", !.answer = "ok",
                                        !.fresh = [session |-> s, gen |-> gen[s] + 1]])
      BY <1>4, <2>1 DEF Rotate, s
    <3>3. PICK x : x = [session |-> s, gen |-> gen[s] + 1]
      OBVIOUS
    <3>4. Fits(x)'
      BY <1>0, <2>1, <3>1, <3>2, <3>3 DEF Fits
    <3>5. Becomes(t, [task[t] EXCEPT !.pc = "answered", !.answer = "ok", !.fresh = x])
      BY <3>2, <3>3
    <3> QED BY <1>0, <3>2, <3>4, <3>5, SerialBecomes DEF Task, Staged, MayRefresh, Brought, Settled
  <2>2. CASE row[s] # "live"
    BY <1>4, <1>b, <1>d, <2>2 DEF Rotate, server
  <2> QED BY <2>1, <2>2
<1>5. CASE Revoke(t)
  <2>1. Whole'
    BY <1>0, <1>5, <1>a, FitsEnd DEF Revoke, storage, Whole, Fits, Token, End
  <2>2. task[t].op = "Logout" /\ task[t].stage # "refresh"
    BY <1>0, <1>5 DEF Revoke, Staged, MayRefresh
  <2> QED BY <1>5, <1>b, <2>1, <2>2 DEF Revoke
<1>6. CASE Delete(t)
  <2>1. Whole'
    <3>1. CASE End(Sessions)
      BY <1>0, <1>a, <3>1 DEF storage, Whole, Fits, Token, End
    <3> QED BY <1>6, <1>d, <3>1 DEF Delete, server
  <2> QED BY <1>6, <1>b, <2>1 DEF Delete
<1> QED BY <1>1, <1>2, <1>3, <1>4, <1>5, <1>6

LEMMA SerialAround ==
    ASSUME TypeOK, SerialInv, \E s \in Sessions : Expire(s) \/ EndElsewhere(s)
    PROVE  SerialInv'
<1>0. UNCHANGED <<access, refresh, task, alone>>
  BY DEF Expire, EndElsewhere, storage
<1>1. \A x \in Token \cup {NoToken} : Fits(x) => Fits(x)'
  <2>1. CASE \E s \in Sessions : Expire(s)
    BY <2>1 DEF Expire, Fits
  <2>2. CASE \E s \in Sessions : EndElsewhere(s)
    BY <2>2, FitsEnd DEF EndElsewhere
  <2> QED BY <2>1, <2>2
<1>2. Whole => Whole'
  BY <1>0, <1>1 DEF Whole, TypeOK, Fits
<1>3. ASSUME NEW t \in Tasks, Brought(task[t]) PROVE Brought(task[t])'
  <2>1. task[t].fresh \in Token \cup {NoToken}
    BY DEF TypeOK, Task
  <2>2. Fits(task[t].fresh) => Fits(task[t].fresh)'
    BY <1>0, <1>1, <2>1 DEF Fits
  <2> QED BY <1>0, <1>3, <2>2 DEF Brought
<1> QED BY <1>0, <1>2, <1>3 DEF SerialInv, Quiet, UnderWay, OnlyTask, Settled, Staged, MayRefresh

LEMMA SerialKill ==
    ASSUME TypeOK, SerialInv, Kill
    PROVE  SerialInv'
<1>1. \A t \in Tasks : ~UnderWay(t)'
  BY DEF Kill, UnderWay, Blank
<1>2. alone' => Whole'
  BY DEF Kill, SerialInv, Whole, Fits, storage, server
<1> QED BY <1>1, <1>2 DEF SerialInv

LEMMA SerialStep == TypeOK /\ SerialInv /\ [Next]_vars => SerialInv'
<1> SUFFICES ASSUME TypeOK, SerialInv, [Next]_vars PROVE SerialInv'
  OBVIOUS
<1>1. CASE UNCHANGED vars
  BY <1>1 DEF vars, SerialInv, Quiet, UnderWay, OnlyTask, Settled, Whole, Fits, Staged, MayRefresh, Brought
<1>2. ASSUME NEW t \in Tasks, Begin(t) PROVE SerialInv'
  BY <1>2, SerialBegin
<1>3. ASSUME NEW t \in Tasks, Proceed(t), UNCHANGED alone PROVE SerialInv'
  <2>1. CASE alone
    BY <1>3, <2>1, SerialClient, SerialServer DEF Proceed
  <2> QED BY <1>3, <2>1 DEF SerialInv
<1> QED BY <1>1, <1>2, <1>3, SerialAround, SerialKill DEF Next, Advance

\* Unless calls overlap or the app dies during one, the device stores between two calls nothing, or
\* one pair that is its session's latest, whatever requests and answers are lost and whatever the
\* server ends.
THEOREM PairServes == Spec => []StoredPairServes
<1>1. Init => SerialInv
  BY DEF Init, SerialInv, UnderWay, Whole, Fits, Blank
<1>2. TypeOK /\ SerialInv => StoredPairServes
  <2> SUFFICES ASSUME SerialInv, alone, Quiet
               PROVE  /\ access = refresh
                      /\ access # NoToken /\ row[access.session] = "live" => Current(access)
    BY DEF StoredPairServes
  <2>1. Whole
    BY DEF SerialInv
  <2> QED BY <2>1 DEF Whole, Fits, Current
<1> QED BY <1>1, <1>2, SerialStep, TypeCorrect, PTL DEF Spec

=============================================================================
