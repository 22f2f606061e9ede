-------------------------- MODULE MembershipProofs --------------------------
(***************************************************************************)
(* What holds of a conversation's members for every set of users, bots,    *)
(* links and requests: TypeOK, that a sealed conversation stays sealed,    *)
(* that a direct chat therefore keeps its two members, that an orphaned    *)
(* room stays orphaned, and that an owner stays one; and, of requests that *)
(* are served one at a time, that a room has one owner, that an event goes *)
(* to the members, and that Membership implements RoomContract.            *)
(***************************************************************************)
EXTENDS Membership, FiniteSetTheorems, TLAPS

-----------------------------------------------------------------------------
(* Types                                                                   *)

\* The record a free slot holds, and the one a call starts as, are requests.
LEMMA BlankType == Blank \in Request
BY DEF Blank, Request, Fields, Args, ArgsOf, LeaveOps, Ops, Steps, Roles

\* Replacing one request by another keeps the type of req.
LEMMA BecomesType ==
    ASSUME req \in [Requests -> Request], NEW r \in Requests, NEW c \in Request, Becomes(r, c)
    PROVE  req' \in [Requests -> Request]
BY DEF Becomes

\* A request at another store call is a request.
LEMMA MovedType ==
    ASSUME NEW c \in Request, NEW s \in Steps
    PROVE  [c EXCEPT !.pc = s] \in Request
BY DEF Request, Fields

\* The types of a request's fields.
LEMMA FieldTypes ==
    ASSUME NEW c \in Request
    PROVE  /\ c.op \in Ops \cup {"none"} /\ c.arg \in ArgsOf(c.op)
           /\ c.actor \in Users \cup {Nobody}
           /\ c.target \in Users \cup {Nobody}
           /\ c.link \in Links \cup {Nobody}
           /\ c.todo \subseteq Users /\ c.to \subseteq Users
           /\ c.op \in LeaveOps => c.target \in Users
BY DEF Request, Fields

\* So Goto and Done keep the type of req.
LEMMA GotoType ==
    ASSUME req \in [Requests -> Request], NEW r \in Requests, NEW s \in Steps, Goto(r, s)
    PROVE  req' \in [Requests -> Request]
BY MovedType, BecomesType DEF Goto

LEMMA DoneType ==
    ASSUME req \in [Requests -> Request], NEW r \in Requests, Done(r)
    PROVE  req' \in [Requests -> Request]
BY BlankType, BecomesType DEF Done

\* Every operation's next store calls are known ones.
LEMMA StepTypes ==
    /\ \A op : FirstStep(op) \in Steps /\ AfterAuth(op) \in Steps
    /\ \A c : AfterTarget(c) \in Steps
<1>1. ASSUME NEW op PROVE FirstStep(op) \in Steps /\ AfterAuth(op) \in Steps
  BY DEF FirstStep, AfterAuth, Steps
<1>2. ASSUME NEW c PROVE AfterTarget(c) \in Steps
  BY DEF AfterTarget, Steps
<1> QED BY <1>1, <1>2

LEMMA CallType ==
    ASSUME NEW op \in Ops, NEW actor \in Users, NEW target \in TargetsOf(op, actor),
           NEW arg \in ArgsOf(op), NEW todo \in BatchesOf(op), NEW link \in LinksOf(op)
    PROVE  Call(op, actor, target, arg, todo, link) \in Request
<1>1. target \in Users \cup {Nobody}
  BY MembershipAssumption DEF TargetsOf
<1>2. arg \in Args
  BY DEF ArgsOf, Args
<1>3. todo \in SUBSET Users
  BY DEF BatchesOf
<1>4. link \in Links \cup {Nobody}
  BY DEF LinksOf
<1>5. FirstStep(op) \in Steps
  BY StepTypes
<1>6. op \in LeaveOps => target \in Users
  BY DEF LeaveOps, TargetsOf, JoinOps
<1> QED BY <1>1, <1>2, <1>3, <1>4, <1>5, <1>6, BlankType DEF Call, Blank, Request, Fields

\* Steps that only read and move the request, or end it, keep every type.
LEMMA ReadOnlyType ==
    ASSUME TypeOK, ReadOnly, req' \in [Requests -> Request]
    PROVE  TypeOK'
BY DEF TypeOK, ReadOnly, Silent, store, NoEvent, Event

LEMMA EraseType ==
    ASSUME TypeOK, NEW u \in Users \cup {Nobody}, EraseUser(u)
    PROVE  /\ accounts' \subseteq Users
           /\ role' \in [Users -> Roles \cup {"none"}]
           /\ linkBy' \in [Links -> Users \cup {Nobody}]
           /\ revoked' \subseteq Links
BY DEF TypeOK, EraseUser

LEMMA TypeInit == Init => TypeOK
<1> SUFFICES ASSUME Init PROVE TypeOK
  OBVIOUS
<1>1. role \in [Users -> Roles \cup {"none"}]
  <2>1. PICK creator \in Users \ Bots, others \in SUBSET Users :
          role = [u \in Users |->
                   IF u = creator /\ kind # "direct" THEN "owner"
                   ELSE IF u = creator \/ u \in others THEN "member" ELSE "none"]
    BY DEF Init
  <2> QED BY <2>1 DEF Roles
<1>2. req \in [Requests -> Request]
  BY BlankType DEF Init
<1> QED BY <1>1, <1>2, MembershipAssumption DEF Init, TypeOK, NoEvent, Event

LEMMA TypeStep == TypeOK /\ [Next]_vars => TypeOK'
<1> SUFFICES ASSUME TypeOK, [Next]_vars PROVE TypeOK'
  OBVIOUS
<1>1. CASE UNCHANGED vars
  BY <1>1 DEF vars, TypeOK
<1>2. CASE Next
  <2> SUFFICES ASSUME NEW r \in Requests, Step(r) PROVE TypeOK'
    BY <1>2 DEF Next
  <2> USE DEF At
  <2>0. req[r] \in Request
    BY DEF TypeOK
  <2>a. /\ req[r].op \in Ops \cup {"none"} /\ req[r].arg \in ArgsOf(req[r].op)
        /\ req[r].actor \in Users \cup {Nobody}
        /\ req[r].target \in Users \cup {Nobody}
        /\ req[r].link \in Links \cup {Nobody}
        /\ req[r].todo \subseteq Users /\ req[r].to \subseteq Users
        /\ req[r].op \in LeaveOps => req[r].target \in Users
    BY <2>0, FieldTypes
  <2>1. CASE Begin(r)
    <3>1. PICK op \in Operations, actor \in accounts :
            \E target \in TargetsOf(op, actor), arg \in ArgsOf(op),
               todo \in BatchesOf(op), link \in LinksOf(op) :
              Becomes(r, Call(op, actor, target, arg, todo, link))
      BY <2>1 DEF Begin
    <3>2. PICK target \in TargetsOf(op, actor), arg \in ArgsOf(op),
               todo \in BatchesOf(op), link \in LinksOf(op) :
              Becomes(r, Call(op, actor, target, arg, todo, link))
      BY <3>1
    <3>3. op \in Ops /\ actor \in Users
      BY OperationsAssumption DEF TypeOK
    <3>4. Call(op, actor, target, arg, todo, link) \in Request
      BY <3>3, CallType
    <3> QED BY <2>1, <3>2, <3>4, BecomesType, ReadOnlyType DEF Begin, TypeOK
  <2>2. CASE Cancel(r) \/ Refuse(r)
    <3>1. Done(r) \/ Goto(r, "grant")
      BY <2>2 DEF Cancel, Refuse
    <3> QED BY <2>2, <3>1, DoneType, GotoType, ReadOnlyType DEF Cancel, Refuse, TypeOK, Steps
  <2>3. CASE Authorize(r)
    BY <2>3, GotoType, StepTypes, ReadOnlyType DEF Authorize, TypeOK
  <2>4. CASE CheckGrant(r)
    <3>1. Done(r) \/ Goto(r, "count") \/ Goto(r, "audience")
      BY <2>4 DEF CheckGrant
    <3> QED BY <2>4, <3>1, DoneType, GotoType, ReadOnlyType DEF CheckGrant, TypeOK, Steps
  <2>5. CASE CheckTarget(r)
    <3>1. CASE Done(r)
      BY <2>5, <3>1, DoneType, ReadOnlyType DEF CheckTarget, TypeOK
    <3>2. CASE Becomes(r, [req[r] EXCEPT !.op = "LeaveRoom"]) /\ req[r].op = "RemoveMember"
      <4>1. [req[r] EXCEPT !.op = "LeaveRoom"] \in Request
        BY <2>0, <3>2 DEF Request, Fields, Ops, LeaveOps, ArgsOf
      <4> QED BY <2>5, <3>2, <4>1, BecomesType, ReadOnlyType DEF CheckTarget, TypeOK
    <3>3. CASE /\ req[r].op \in LeaveOps => req[r].target \in Users
               /\ Becomes(r, [req[r] EXCEPT !.pc = AfterTarget(req[r]),
                    !.seen = IF req[r].op \in LeaveOps THEN role[req[r].target] ELSE "none"])
      <4> DEFINE role1 == IF req[r].op \in LeaveOps THEN role[req[r].target] ELSE "none"
      <4>1. role1 \in Roles \cup {"none"}
        BY <3>3 DEF TypeOK
      <4>2. [req[r] EXCEPT !.pc = AfterTarget(req[r]), !.seen = role1] \in Request
        <5> HIDE DEF role1
        <5> QED BY <2>0, <4>1, StepTypes DEF Request, Fields
      <4> QED BY <2>5, <3>3, <4>2, BecomesType, ReadOnlyType DEF CheckTarget, TypeOK
    <3> QED BY <2>5, <3>1, <3>2, <3>3 DEF CheckTarget, TargetOK, Members, LeaveOps
  <2>6. CASE CheckActor(r)
    <3>1. Done(r) \/ Goto(r, "grant") \/ Goto(r, "audience")
      BY <2>6 DEF CheckActor
    <3> QED BY <2>6, <3>1, DoneType, GotoType, ReadOnlyType DEF CheckActor, TypeOK, Steps
  <2>7. CASE CountMembers(r)
    <3>1. Done(r) \/ Goto(r, "add")
      BY <2>7 DEF CountMembers
    <3> QED BY <2>7, <3>1, DoneType, GotoType, ReadOnlyType DEF CountMembers, TypeOK, Steps
  <2>8. CASE AddNext(r)
    <3>1. PICK u \in req[r].todo :
            \/ Done(r) /\ UNCHANGED role
            \/ /\ Becomes(r, IF req[r].todo = {u} THEN Blank
                               ELSE [req[r] EXCEPT !.todo = @ \ {u}])
               /\ UNCHANGED role
            \/ /\ role' = [role EXCEPT ![u] = "member"]
               /\ Becomes(r, [req[r] EXCEPT !.todo = @ \ {u}, !.target = u, !.pc = "audience"])
      BY <2>8 DEF AddNext
    <3>2. u \in Users
      BY <2>a
    <3>3. req' \in [Requests -> Request]
      <4>1. [req[r] EXCEPT !.todo = @ \ {u}] \in Request
        BY <2>0 DEF Request, Fields
      <4>2. [req[r] EXCEPT !.todo = @ \ {u}, !.target = u, !.pc = "audience"] \in Request
        BY <2>0, <3>2 DEF Request, Fields, Steps
      <4> QED BY <3>1, <4>1, <4>2, BlankType, BecomesType, DoneType DEF TypeOK
    <3>4. role' \in [Users -> Roles \cup {"none"}]
      BY <3>1, <3>2 DEF TypeOK, Roles
    <3> QED BY <2>8, <3>3, <3>4 DEF AddNext, Silent, TypeOK, NoEvent, Event
  <2>9. CASE AddSelf(r)
    <3>1. role' \in [Users -> Roles \cup {"none"}]
      BY <2>9 DEF AddSelf, TypeOK, Roles
    <3>2. req' \in [Requests -> Request]
      BY <2>9, DoneType, GotoType DEF AddSelf, TypeOK, Steps
    <3> QED BY <2>9, <3>1, <3>2 DEF AddSelf, Silent, TypeOK, NoEvent, Event
  <2>10. CASE Remove(r)
    <3>1. role' \in [Users -> Roles \cup {"none"}]
      BY <2>10 DEF Remove, TypeOK
    <3>2. req' \in [Requests -> Request]
      BY <2>10, DoneType, GotoType DEF Remove, TypeOK, Steps
    <3> QED BY <2>10, <3>1, <3>2 DEF Remove, Silent, TypeOK, NoEvent, Event
  <2>11. CASE WriteRole(r)
    <3>1. role' \in [Users -> Roles \cup {"none"}]
      BY <2>11, <2>0, <2>a DEF WriteRole, SetRole, TypeOK, Roles, ArgsOf
    <3>2. req' \in [Requests -> Request]
      BY <2>11, DoneType, GotoType DEF WriteRole, TypeOK, Steps
    <3> QED BY <2>11, <3>1, <3>2 DEF WriteRole, Silent, TypeOK, NoEvent, Event
  <2>12. CASE Promote(r)
    <3>1. role' \in [Users -> Roles \cup {"none"}]
      BY <2>12, <2>0, <2>a DEF Promote, SetRole, TypeOK, Roles
    <3>2. req' \in [Requests -> Request]
      BY <2>12, DoneType, GotoType DEF Promote, TypeOK, Steps
    <3> QED BY <2>12, <3>1, <3>2 DEF Promote, Silent, TypeOK, NoEvent, Event
  <2>13. CASE Demote(r)
    <3>1. role' \in [Users -> Roles \cup {"none"}]
      BY <2>13, <2>0, <2>a DEF Demote, SetRole, TypeOK, Roles
    <3> QED BY <2>13, <3>1, DoneType DEF Demote, Silent, TypeOK, NoEvent, Event
  <2>14. CASE WriteInvite(r)
    <3>1. linkBy' \in [Links -> Users \cup {Nobody}]
      BY <2>14, <2>a DEF WriteInvite, TypeOK
    <3>2. revoked' \subseteq Links
      BY <2>14 DEF WriteInvite, TypeOK, Issued
    <3> QED BY <2>14, <3>1, <3>2, DoneType DEF WriteInvite, Silent, TypeOK, NoEvent, Event
  <2>15. CASE WriteMeta(r)
    <3>1. visibility' \in Visibilities
      BY <2>15, <2>0, <2>a DEF WriteMeta, ArgsOf, Visibilities
    <3> QED BY <2>15, <3>1, DoneType DEF WriteMeta, Silent, TypeOK, NoEvent, Event
  <2>16. CASE WriteGrant(r)
    BY <2>16, DoneType DEF WriteGrant, Silent, TypeOK, NoEvent, Event
  <2>17. CASE DeleteAccount(r)
    BY <2>17, <2>0, <2>a, DoneType, EraseType DEF DeleteAccount, Silent, TypeOK, NoEvent, Event
  <2>18. CASE DeleteBotRecord(r)
    <3>1. req' \in [Requests -> Request]
      BY <2>18, DoneType, GotoType DEF DeleteBotRecord, TypeOK, Steps
    <3> QED BY <2>18, <3>1 DEF DeleteBotRecord, Silent, TypeOK, NoEvent, Event
  <2>19. CASE DeleteBotUser(r)
    BY <2>19, <2>0, <2>a, DoneType, EraseType DEF DeleteBotUser, Silent, TypeOK, NoEvent, Event
  <2>20. CASE ReadAudience(r)
    <3> DEFINE to1 == IF req[r].op \in LeaveOps THEN Members \cup {req[r].target} ELSE Members
               pc1 == IF req[r].op \in LeaveOps THEN "remove" ELSE "publish"
    <3>1. to1 \subseteq Users
      BY <2>20, <2>a DEF Members
    <3>2. pc1 \in Steps
      BY DEF Steps
    <3>3. [req[r] EXCEPT !.to = to1, !.pc = pc1] \in Request
      <4> HIDE DEF to1, pc1
      <4> QED BY <2>0, <3>1, <3>2 DEF Request, Fields
    <3> QED BY <2>20, <3>3, BecomesType, ReadOnlyType DEF ReadAudience, TypeOK
  <2>21. CASE Publish(r)
    <3>1. req' \in [Requests -> Request]
      <4>1. [req[r] EXCEPT !.pc = "add", !.to = {}] \in Request
        BY <2>0 DEF Request, Fields, Steps
      <4> QED BY <2>21, <4>1, BlankType, BecomesType DEF Publish, TypeOK
    <3>2. sent' \in Event
      BY <2>21, <2>0, <2>a DEF Publish, Event
    <3> QED BY <2>21, <3>1, <3>2 DEF Publish, TypeOK, store
  <2> QED
    BY <2>1, <2>2, <2>3, <2>4, <2>5, <2>6, <2>7, <2>8, <2>9, <2>10, <2>11, <2>12, <2>13,
       <2>14, <2>15, <2>16, <2>17, <2>18, <2>19, <2>20, <2>21 DEF Step
<1> QED BY <1>1, <1>2

\* The variables keep their types: roles come from the three there are, a request's
\* argument suits its operation, and no bot has a grant without a row in bots.
THEOREM TypeCorrect == Spec => []TypeOK
<1>1. Init => TypeOK
  BY TypeInit
<1>2. TypeOK /\ [Next]_vars => TypeOK'
  BY TypeStep
<1> QED BY <1>1, <1>2, PTL DEF Spec

-----------------------------------------------------------------------------
(* A sealed conversation                                                   *)

\* While the conversation is sealed, a step only takes members away and hands out neither
\* grants nor links; and the request that takes it is none that may still admit.
LEMMA SealedStoreStep ==
    ASSUME TypeOK, Sealed, NEW r \in Requests, Step(r)
    PROVE  /\ \A u \in Users : role'[u] \in {role[u], "none"}
           /\ managers' = {} /\ kind' = kind /\ visibility' = visibility
           /\ \A l \in Links : ~Live(l)'
<1> USE DEF At
<1>0. ~MayStillAdmit(req[r])
  BY DEF Sealed
<1>1. CASE store' = store /\ kind' = kind
  BY <1>1 DEF store, Sealed, Live, Issued
<1>2. CASE Remove(r)
  BY <1>2 DEF Remove, Sealed, Live, Issued, TypeOK
<1>3. CASE DeleteBotRecord(r)
  BY <1>3 DEF DeleteBotRecord, Sealed, Live, Issued
<1>4. ASSUME NEW u, EraseUser(u), UNCHANGED <<kind, visibility, managers, bots>>
      PROVE  /\ \A v \in Users : role'[v] \in {role[v], "none"}
             /\ managers' = {} /\ kind' = kind /\ visibility' = visibility
             /\ \A l \in Links : ~Live(l)'
  BY <1>4 DEF EraseUser, Sealed, Live, Issued, TypeOK
<1>5. CASE DeleteAccount(r) \/ DeleteBotUser(r)
  BY <1>4, <1>5 DEF DeleteAccount, DeleteBotUser
<1>6. ASSUME \/ AddNext(r) \/ AddSelf(r) \/ WriteRole(r) \/ Promote(r) \/ Demote(r)
             \/ WriteInvite(r) \/ WriteMeta(r) \/ WriteGrant(r)
      PROVE  FALSE
  BY <1>0, <1>6 DEF AddNext, AddSelf, WriteRole, Promote, Demote, WriteInvite, WriteMeta,
     WriteGrant, MayStillAdmit, OwnerOps, AdminOps, JoinOps
<1>7. CASE Begin(r) \/ Cancel(r) \/ Authorize(r) \/ Refuse(r) \/ CheckGrant(r)
           \/ CheckTarget(r) \/ CheckActor(r) \/ CountMembers(r) \/ ReadAudience(r)
           \/ Publish(r)
  BY <1>1, <1>7 DEF Begin, Cancel, Authorize, Refuse, CheckGrant, CheckTarget, CheckActor,
     CountMembers, ReadAudience, Publish, ReadOnly
<1> QED BY <1>2, <1>3, <1>5, <1>6, <1>7 DEF Step

\* Nor is any request let through: a free slot takes a call at its first step, and every
\* check fails.
LEMMA SealedRequestStep ==
    ASSUME TypeOK, Sealed, NEW r \in Requests, Step(r)
    PROVE  \A q \in Requests : ~MayStillAdmit(req'[q])
<1> USE DEF At
<1>0. ~MayStillAdmit(req[r]) /\ req[r] \in Request
  BY DEF Sealed, TypeOK
<1>1. ASSUME NEW c, Becomes(r, c), ~MayStillAdmit(c)
      PROVE  \A q \in Requests : ~MayStillAdmit(req'[q])
  BY <1>1 DEF Becomes, TypeOK, Sealed
<1>2. ~MayStillAdmit(Blank)
  BY DEF MayStillAdmit, Blank, OwnerOps, AdminOps, JoinOps
<1>3. CASE Done(r)
  BY <1>1, <1>2, <1>3 DEF Done
<1>4. ASSUME NEW s \in Steps, Goto(r, s),
             req[r].op \notin OwnerOps \cup AdminOps \cup JoinOps \/ s = "grant"
      PROVE  \A q \in Requests : ~MayStillAdmit(req'[q])
  <2>1. ~MayStillAdmit([req[r] EXCEPT !.pc = s])
    BY <1>0, <1>4 DEF MayStillAdmit, Request, Fields
  <2> QED BY <2>1, <1>1, <1>4 DEF Goto
<1>5. CASE Begin(r)
  <2>1. PICK op \in Operations, actor \in accounts :
          \E target \in TargetsOf(op, actor), arg \in ArgsOf(op),
             todo \in BatchesOf(op), link \in LinksOf(op) :
            Becomes(r, Call(op, actor, target, arg, todo, link))
    BY <1>5 DEF Begin
  <2>2. PICK target \in TargetsOf(op, actor), arg \in ArgsOf(op),
             todo \in BatchesOf(op), link \in LinksOf(op) :
            Becomes(r, Call(op, actor, target, arg, todo, link))
    BY <2>1
  <2>3. op \in OwnerOps \cup AdminOps \cup JoinOps => FirstStep(op) = "auth"
    BY DEF FirstStep, OwnerOps, AdminOps, JoinOps, LeaveOps, DeleteOps
  <2>4. /\ Call(op, actor, target, arg, todo, link).op = op
        /\ Call(op, actor, target, arg, todo, link).pc = FirstStep(op)
    BY DEF Call, Blank
  <2>5. ~MayStillAdmit(Call(op, actor, target, arg, todo, link))
    BY <2>3, <2>4 DEF MayStillAdmit
  <2> QED BY <2>2, <2>5, <1>1
<1>6. CASE Authorize(r)
  <2>1. ~Authorized(req[r])
    BY DEF Authorized, requireOwner, requireAdmin, GetInviteByToken, Sealed, Owners, Admins,
       Live, Issued
  <2> QED BY <2>1, <1>6 DEF Authorize
<1>7. CASE Refuse(r)
  BY <1>3, <1>4, <1>7 DEF Refuse, Steps
<1>8. CASE CheckGrant(r)
  BY <1>3, <1>8 DEF CheckGrant, Sealed
<1>9. CASE CheckTarget(r)
  <2>1. req[r].op \notin OwnerOps \cup AdminOps \cup JoinOps
    BY <1>0, <1>9 DEF CheckTarget, MayStillAdmit
  <2> DEFINE role1 == IF req[r].op \in LeaveOps THEN role[req[r].target] ELSE "none"
             moved == [req[r] EXCEPT !.pc = AfterTarget(req[r]), !.seen = role1]
             again == [req[r] EXCEPT !.op = "LeaveRoom"]
  <2>2. moved.op = req[r].op /\ again.op = "LeaveRoom"
    BY <1>0 DEF Request, Fields
  <2>3. ~MayStillAdmit(moved) /\ ~MayStillAdmit(again)
    BY <2>1, <2>2 DEF MayStillAdmit, OwnerOps, AdminOps, JoinOps
  <2>4. Done(r) \/ Becomes(r, moved) \/ Becomes(r, again)
    BY <1>9 DEF CheckTarget
  <2> HIDE DEF moved, again
  <2> QED BY <2>3, <2>4, <1>1, <1>3
<1>10. CASE CheckActor(r) \/ Remove(r) \/ DeleteBotRecord(r)
  <2>1. req[r].op \notin OwnerOps \cup AdminOps \cup JoinOps
    BY <1>10 DEF CheckActor, Remove, DeleteBotRecord, OwnerOps, AdminOps, JoinOps, LeaveOps
  <2>2. Done(r) \/ \E s \in {"audience", "grant", "publish", "user"} : Goto(r, s)
    BY <1>10 DEF CheckActor, Remove, DeleteBotRecord
  <2> QED BY <2>1, <2>2, <1>3, <1>4 DEF Steps
<1>11. ASSUME \/ CountMembers(r) \/ AddNext(r) \/ AddSelf(r) \/ WriteRole(r) \/ Promote(r)
              \/ Demote(r) \/ WriteInvite(r) \/ WriteMeta(r) \/ WriteGrant(r)
       PROVE  FALSE
  BY <1>0, <1>11 DEF CountMembers, AddNext, AddSelf, WriteRole, Promote, Demote, WriteInvite,
     WriteMeta, WriteGrant, MayStillAdmit, OwnerOps, AdminOps, JoinOps
<1>12. CASE Cancel(r) \/ DeleteAccount(r) \/ DeleteBotUser(r)
  BY <1>3, <1>12 DEF Cancel, DeleteAccount, DeleteBotUser
<1>13. CASE ReadAudience(r) \/ Publish(r)
  <2>1. req[r].op \notin OwnerOps \cup AdminOps \cup JoinOps
    BY <1>0, <1>13 DEF ReadAudience, Publish, MayStillAdmit
  <2> DEFINE to1 == IF req[r].op \in LeaveOps THEN Members \cup {req[r].target} ELSE Members
             pc1 == IF req[r].op \in LeaveOps THEN "remove" ELSE "publish"
             read == [req[r] EXCEPT !.to = to1, !.pc = pc1]
             next == [req[r] EXCEPT !.pc = "add", !.to = {}]
  <2>2. read.op = req[r].op /\ next.op = req[r].op
    BY <1>0 DEF Request, Fields
  <2>3. ~MayStillAdmit(read) /\ ~MayStillAdmit(next)
    BY <2>1, <2>2 DEF MayStillAdmit
  <2>4. Becomes(r, read) \/ Becomes(r, Blank) \/ Becomes(r, next)
    BY <1>13 DEF ReadAudience, Publish
  <2> HIDE DEF read, next
  <2> QED BY <2>3, <2>4, <1>1, <1>2
<1> QED BY <1>5, <1>6, <1>7, <1>8, <1>9, <1>10, <1>11, <1>12, <1>13 DEF Step

LEMMA SealedStep ==
    ASSUME TypeOK, Sealed, [Next]_vars
    PROVE  Sealed' /\ Members' \subseteq Members
<1>1. CASE UNCHANGED vars
  BY <1>1 DEF vars, Sealed, Admins, Members, Live, Issued, Open
<1>2. CASE Next
  <2>1. PICK r \in Requests : Step(r)
    BY <1>2 DEF Next
  <2>2. /\ \A u \in Users : role'[u] \in {role[u], "none"}
        /\ managers' = {} /\ kind' = kind /\ visibility' = visibility
        /\ \A l \in Links : ~Live(l)'
    BY <2>1, SealedStoreStep
  <2>3. \A q \in Requests : ~MayStillAdmit(req'[q])
    BY <2>1, SealedRequestStep
  <2>4. Members' \subseteq Members /\ Admins' = {}
    BY <2>2 DEF Members, Admins, Sealed
  <2>5. ~Open'
    BY <2>2 DEF Open, Sealed
  <2> QED BY <2>2, <2>3, <2>4, <2>5 DEF Sealed
<1> QED BY <1>1, <1>2

\* Once no admin, managing bot, live link, public door or admitted request is left, the
\* conversation never gains a member again.
THEOREM SealedForever == Spec => SealedStaysSealed
<1>1. TypeOK /\ [Next]_vars => [Sealed => Sealed' /\ Members' \subseteq Members]_vars
  BY SealedStep
<1> QED BY <1>1, TypeCorrect, PTL DEF Spec, SealedStaysSealed
-----------------------------------------------------------------------------
(* A direct chat                                                           *)

\* What keeps a direct chat a pair: it starts with no way in, and so stays sealed.
DirectInv == kind = "direct" => Sealed /\ Cardinality(Members) <= 2

LEMMA DirectInit == Init => DirectInv
<1> SUFFICES ASSUME Init, kind = "direct"
             PROVE  Sealed /\ Cardinality(Members) <= 2
  BY DEF DirectInv
<1>1. PICK creator \in Users \ Bots, others \in SUBSET Users :
        /\ creator \notin others
        /\ Cardinality(others) = 1
        /\ role = [u \in Users |->
             IF u = creator /\ kind # "direct" THEN "owner"
             ELSE IF u = creator \/ u \in others THEN "member" ELSE "none"]
  BY DEF Init
<1>2. Members = others \cup {creator} /\ Admins = {}
  BY <1>1 DEF Members, Admins
<1>3. IsFiniteSet(others)
  BY FS_Subset, MembershipAssumption
<1>4. Cardinality(Members) = 2
  BY <1>1, <1>2, <1>3, FS_AddElement
<1>5. \A l \in Links : ~Live(l)
  BY DEF Init, Live, Issued
<1>6. \A r \in Requests : ~MayStillAdmit(req[r])
  BY DEF Init, MayStillAdmit, Blank
<1> QED BY <1>2, <1>4, <1>5, <1>6 DEF Sealed, Open, Init

\* No call changes the kind of a conversation.
LEMMA KindFixed ==
    ASSUME [Next]_vars
    PROVE  kind' = kind
<1>1. CASE UNCHANGED vars
  BY <1>1 DEF vars
<1>2. CASE Next
  BY <1>2 DEF Next, Step, Begin, Cancel, Authorize, Refuse, CheckGrant, CheckTarget, CheckActor,
     CountMembers, AddNext, AddSelf, Remove, WriteRole, Promote, Demote, WriteInvite, WriteMeta,
     WriteGrant, DeleteAccount, DeleteBotRecord, DeleteBotUser, ReadAudience, Publish, ReadOnly
<1> QED BY <1>1, <1>2

LEMMA DirectStep == TypeOK /\ DirectInv /\ [Next]_vars => DirectInv'
<1> SUFFICES ASSUME TypeOK, DirectInv, [Next]_vars, kind' = "direct"
             PROVE  Sealed' /\ Cardinality(Members') <= 2
  BY DEF DirectInv
<1>1. Sealed /\ Cardinality(Members) <= 2
  BY KindFixed DEF DirectInv
<1>2. Sealed' /\ Members' \subseteq Members
  BY <1>1, SealedStep
<1>3. IsFiniteSet(Members)
  BY FS_Subset, MembershipAssumption DEF Members
<1>4. /\ Cardinality(Members) \in Nat /\ Cardinality(Members') \in Nat
      /\ Cardinality(Members') <= Cardinality(Members)
  BY <1>2, <1>3, FS_Subset, FS_CardinalityType
<1> QED BY <1>1, <1>2, <1>4

\* A direct chat never has a third member, nor anybody with a role above member.
THEOREM DirectStaysPair == Spec => []DirectPair
<1>1. Init => DirectInv
  BY DirectInit
<1>2. TypeOK /\ DirectInv /\ [Next]_vars => DirectInv'
  BY DirectStep
<1>3. DirectInv => DirectPair
  BY DEF DirectInv, DirectPair, Sealed
<1> QED BY <1>1, <1>2, <1>3, TypeCorrect, PTL DEF Spec

-----------------------------------------------------------------------------
(* A room without an owner                                                 *)

\* In an orphaned room no row is raised: a role stays, or becomes member or none.
LEMMA OrphanStoreStep ==
    ASSUME TypeOK, Orphaned, NEW r \in Requests, Step(r)
    PROVE  \A u \in Users : role'[u] \in {role[u], "member", "none"}
<1> USE DEF At
<1>1. CASE role' = role
  BY <1>1
<1>2. CASE AddNext(r) \/ AddSelf(r) \/ Remove(r)
  BY <1>2 DEF AddNext, AddSelf, Remove, TypeOK
<1>3. CASE DeleteAccount(r) \/ DeleteBotUser(r)
  BY <1>3 DEF DeleteAccount, DeleteBotUser, EraseUser, TypeOK
<1>4. ASSUME WriteRole(r) \/ Promote(r) \/ Demote(r)
      PROVE  FALSE
  BY <1>4 DEF WriteRole, Promote, Demote, Orphaned, OwnerOps
<1>5. CASE \/ Begin(r) \/ Cancel(r) \/ Authorize(r) \/ Refuse(r) \/ CheckGrant(r)
           \/ CheckTarget(r) \/ CheckActor(r) \/ CountMembers(r) \/ WriteInvite(r)
           \/ WriteMeta(r) \/ WriteGrant(r) \/ DeleteBotRecord(r) \/ ReadAudience(r)
           \/ Publish(r)
  BY <1>1, <1>5 DEF Begin, Cancel, Authorize, Refuse, CheckGrant, CheckTarget, CheckActor,
     CountMembers, WriteInvite, WriteMeta, WriteGrant, DeleteBotRecord, ReadAudience, Publish,
     ReadOnly, store
<1> QED BY <1>2, <1>3, <1>4, <1>5 DEF Step

\* A request of the owner's: one of their operations that has passed its check.
OwnerLetIn(c) == c.op \in OwnerOps /\ c.pc # "auth"

\* And none of the owner's operations passes its check.
LEMMA OrphanRequestStep ==
    ASSUME TypeOK, Orphaned, NEW r \in Requests, Step(r)
    PROVE  \A q \in Requests : ~OwnerLetIn(req'[q])
<1> USE DEF At
<1>0. ~OwnerLetIn(req[r]) /\ req[r] \in Request
  BY DEF Orphaned, OwnerLetIn, TypeOK
<1>1. ASSUME NEW c, Becomes(r, c), ~OwnerLetIn(c)
      PROVE  \A q \in Requests : ~OwnerLetIn(req'[q])
  BY <1>1 DEF Becomes, TypeOK, Orphaned, OwnerLetIn
<1>2. ~OwnerLetIn(Blank)
  BY DEF OwnerLetIn, Blank, OwnerOps
<1>3. CASE Done(r)
  BY <1>1, <1>2, <1>3 DEF Done
<1>4. ASSUME NEW c, Becomes(r, c), c.op \notin OwnerOps
      PROVE  \A q \in Requests : ~OwnerLetIn(req'[q])
  BY <1>1, <1>4 DEF OwnerLetIn
<1>5. ASSUME NEW s, Goto(r, s), req[r].op \notin OwnerOps
      PROVE  \A q \in Requests : ~OwnerLetIn(req'[q])
  <2>1. [req[r] EXCEPT !.pc = s].op = req[r].op
    BY <1>0 DEF Request, Fields
  <2> QED BY <2>1, <1>4, <1>5 DEF Goto
<1>6. CASE Begin(r)
  <2>1. PICK op \in Operations, actor \in accounts :
          \E target \in TargetsOf(op, actor), arg \in ArgsOf(op),
             todo \in BatchesOf(op), link \in LinksOf(op) :
            Becomes(r, Call(op, actor, target, arg, todo, link))
    BY <1>6 DEF Begin
  <2>2. PICK target \in TargetsOf(op, actor), arg \in ArgsOf(op),
             todo \in BatchesOf(op), link \in LinksOf(op) :
            Becomes(r, Call(op, actor, target, arg, todo, link))
    BY <2>1
  <2>3. op \in OwnerOps => FirstStep(op) = "auth"
    BY DEF FirstStep, OwnerOps, LeaveOps, DeleteOps
  <2>4. /\ Call(op, actor, target, arg, todo, link).op = op
        /\ Call(op, actor, target, arg, todo, link).pc = FirstStep(op)
    BY DEF Call, Blank
  <2>5. ~OwnerLetIn(Call(op, actor, target, arg, todo, link))
    BY <2>3, <2>4 DEF OwnerLetIn
  <2> QED BY <2>2, <2>5, <1>1
<1>7. CASE Authorize(r)
  <2>1. req[r].op \notin OwnerOps
    BY <1>7 DEF Authorize, Authorized, requireOwner, Orphaned, OwnerOps, AdminOps, JoinOps
  <2> QED BY <2>1, <1>5, <1>7 DEF Authorize
<1>8. CASE Refuse(r)
  BY <1>3, <1>5, <1>8 DEF Refuse, OwnerOps
<1>9. CASE CheckTarget(r)
  <2>1. req[r].op \notin OwnerOps
    BY <1>0, <1>9 DEF CheckTarget, OwnerLetIn
  <2> DEFINE role1 == IF req[r].op \in LeaveOps THEN role[req[r].target] ELSE "none"
             moved == [req[r] EXCEPT !.pc = AfterTarget(req[r]), !.seen = role1]
             again == [req[r] EXCEPT !.op = "LeaveRoom"]
  <2>2. moved.op \notin OwnerOps /\ again.op \notin OwnerOps
    BY <1>0, <2>1 DEF Request, Fields, OwnerOps
  <2>3. Done(r) \/ Becomes(r, moved) \/ Becomes(r, again)
    BY <1>9 DEF CheckTarget
  <2> HIDE DEF moved, again
  <2> QED BY <2>2, <2>3, <1>3, <1>4
<1>10. CASE \/ CheckGrant(r) \/ CheckActor(r) \/ CountMembers(r) \/ AddSelf(r) \/ Remove(r)
            \/ DeleteBotRecord(r)
  <2>1. req[r].op \notin OwnerOps
    BY <1>10 DEF CheckGrant, CheckActor, CountMembers, AddSelf, Remove, DeleteBotRecord,
       OwnerOps, JoinOps, LeaveOps
  <2>2. Done(r) \/ \E s \in Steps : Goto(r, s)
    BY <1>10 DEF CheckGrant, CheckActor, CountMembers, AddSelf, Remove, DeleteBotRecord, Steps
  <2> QED BY <2>1, <2>2, <1>3, <1>5
<1>11. CASE AddNext(r)
  <2> DEFINE next(u) == [req[r] EXCEPT !.todo = @ \ {u}]
             added(u) == [req[r] EXCEPT !.todo = @ \ {u}, !.target = u, !.pc = "audience"]
  <2>1. \A u : next(u).op \notin OwnerOps /\ added(u).op \notin OwnerOps
    BY <1>0, <1>11 DEF AddNext, Request, Fields, OwnerOps
  <2>2. Done(r) \/ \E u \in Users : Becomes(r, Blank) \/ Becomes(r, next(u)) \/ Becomes(r, added(u))
    BY <1>0, <1>11 DEF AddNext, Request, Fields
  <2> HIDE DEF next, added
  <2> QED BY <2>1, <2>2, <1>1, <1>2, <1>3, <1>4
<1>12. ASSUME WriteRole(r) \/ Promote(r) \/ Demote(r)
       PROVE  FALSE
  BY <1>0, <1>12 DEF WriteRole, Promote, Demote, OwnerLetIn, OwnerOps
<1>13. CASE \/ Cancel(r) \/ WriteInvite(r) \/ WriteMeta(r) \/ WriteGrant(r)
            \/ DeleteAccount(r) \/ DeleteBotUser(r)
  BY <1>3, <1>13 DEF Cancel, WriteInvite, WriteMeta, WriteGrant, DeleteAccount, DeleteBotUser
<1>14. CASE ReadAudience(r) \/ Publish(r)
  <2>1. req[r].op \notin OwnerOps
    BY <1>0, <1>14 DEF ReadAudience, Publish, OwnerLetIn
  <2> DEFINE to1 == IF req[r].op \in LeaveOps THEN Members \cup {req[r].target} ELSE Members
             pc1 == IF req[r].op \in LeaveOps THEN "remove" ELSE "publish"
             read == [req[r] EXCEPT !.to = to1, !.pc = pc1]
             next == [req[r] EXCEPT !.pc = "add", !.to = {}]
  <2>2. read.op \notin OwnerOps /\ next.op \notin OwnerOps
    BY <1>0, <2>1 DEF Request, Fields
  <2>3. Becomes(r, read) \/ Becomes(r, Blank) \/ Becomes(r, next)
    BY <1>14 DEF ReadAudience, Publish
  <2> HIDE DEF read, next
  <2> QED BY <2>2, <2>3, <1>1, <1>2, <1>4
<1> QED BY <1>6, <1>7, <1>8, <1>9, <1>10, <1>11, <1>12, <1>13, <1>14 DEF Step

LEMMA OrphanStep ==
    ASSUME TypeOK, Orphaned, [Next]_vars
    PROVE  Orphaned' /\ Admins' \subseteq Admins
<1>1. CASE UNCHANGED vars
  BY <1>1 DEF vars, Orphaned, Owners, Admins
<1>2. CASE Next
  <2>1. PICK r \in Requests : Step(r)
    BY <1>2 DEF Next
  <2>2. \A u \in Users : role'[u] \in {role[u], "member", "none"}
    BY <2>1, OrphanStoreStep
  <2>3. \A q \in Requests : ~OwnerLetIn(req'[q])
    BY <2>1, OrphanRequestStep
  <2>4. Owners' = {} /\ Admins' \subseteq Admins
    BY <2>2 DEF Owners, Admins, Orphaned
  <2> QED BY <2>3, <2>4 DEF Orphaned, OwnerLetIn
<1> QED BY <1>1, <1>2

\* A room that has lost its owner never has one again and never gains an admin.
THEOREM OrphanForever == Spec => OrphanStaysOrphan
<1>1. TypeOK /\ [Next]_vars => [Orphaned => Orphaned' /\ Admins' \subseteq Admins]_vars
  BY OrphanStep
<1> QED BY <1>1, TypeCorrect, PTL DEF Spec, OrphanStaysOrphan

-----------------------------------------------------------------------------
(* An owner against whom nothing was let through                           *)

\* The steps after which u is still to be secure: its account is there, and it did not
\* just have a transfer of its own let through.
OwnerKept(u, r) ==
    /\ u \in accounts'
    /\ ~(At(r, {"TransferOwnership"}, "auth") /\ AgainstOwner(req'[r], u))

\* No write of such a step takes its role.
LEMMA OwnerStoreStep ==
    ASSUME TypeOK, NEW u \in Users, Secure(u), NEW r \in Requests, Step(r), OwnerKept(u, r)
    PROVE  role'[u] = "owner"
<1> USE DEF At, Owners
<1>0. role[u] = "owner" /\ ~AgainstOwner(req[r], u)
  BY DEF Secure
<1>1. CASE role' = role
  BY <1>0, <1>1
<1>2. CASE AddNext(r) \/ AddSelf(r)
  BY <1>0, <1>2 DEF AddNext, AddSelf, Members, TypeOK
<1>3. CASE Remove(r)
  <2>1. req[r].target # u
    BY <1>0, <1>3 DEF Remove, AgainstOwner
  <2> QED BY <1>0, <1>3, <2>1 DEF Remove, TypeOK
<1>4. CASE WriteRole(r)
  <2>1. req[r].target # u
    BY <1>0, <1>4 DEF WriteRole, AgainstOwner
  <2> QED BY <1>0, <1>4, <2>1 DEF WriteRole, SetRole, TypeOK
<1>5. CASE Promote(r)
  BY <1>0, <1>5 DEF Promote, SetRole, TypeOK
<1>6. CASE Demote(r)
  <2>1. req[r].actor # u
    BY <1>0, <1>6 DEF Demote, AgainstOwner
  <2> QED BY <1>0, <1>6, <2>1 DEF Demote, SetRole, TypeOK
<1>7. CASE DeleteAccount(r) \/ DeleteBotUser(r)
  BY <1>0, <1>7 DEF DeleteAccount, DeleteBotUser, EraseUser, OwnerKept, TypeOK
<1>8. CASE \/ Begin(r) \/ Cancel(r) \/ Authorize(r) \/ Refuse(r) \/ CheckGrant(r)
           \/ CheckTarget(r) \/ CheckActor(r) \/ CountMembers(r) \/ WriteInvite(r)
           \/ WriteMeta(r) \/ WriteGrant(r) \/ DeleteBotRecord(r) \/ ReadAudience(r)
           \/ Publish(r)
  BY <1>1, <1>8 DEF Begin, Cancel, Authorize, Refuse, CheckGrant, CheckTarget, CheckActor,
     CountMembers, WriteInvite, WriteMeta, WriteGrant, DeleteBotRecord, ReadAudience, Publish,
     ReadOnly, store
<1> QED BY <1>2, <1>3, <1>4, <1>5, <1>6, <1>7, <1>8 DEF Step

\* And no request is let through against it: the check of a target refuses an owner.
LEMMA OwnerRequestStep ==
    ASSUME TypeOK, NEW u \in Users, Secure(u), NEW r \in Requests, Step(r), OwnerKept(u, r)
    PROVE  \A q \in Requests : ~AgainstOwner(req'[q], u)
<1> USE DEF At
<1>0. u \in Owners /\ ~AgainstOwner(req[r], u) /\ req[r] \in Request
  BY DEF Secure, TypeOK
<1>1. ASSUME NEW c, Becomes(r, c), ~AgainstOwner(c, u)
      PROVE  \A q \in Requests : ~AgainstOwner(req'[q], u)
  BY <1>1 DEF Becomes, TypeOK, Secure
<1>2. CASE Done(r)
  <2>1. ~AgainstOwner(Blank, u)
    BY DEF AgainstOwner, Blank, LeaveOps
  <2> QED BY <1>1, <1>2, <2>1 DEF Done
\* A request past its first checks that goes on with the same operation.
<1>3. ASSUME NEW c, Becomes(r, c), req[r].pc \notin {"auth", "target"},
             c.op = req[r].op, c.target = req[r].target, c.actor = req[r].actor
      PROVE  \A q \in Requests : ~AgainstOwner(req'[q], u)
  BY <1>0, <1>1, <1>3 DEF AgainstOwner
\* A request of the operations that take nobody's role.
<1>4. ASSUME NEW c, Becomes(r, c), c.op \notin LeaveOps \cup OwnerOps
      PROVE  \A q \in Requests : ~AgainstOwner(req'[q], u)
  BY <1>1, <1>4 DEF AgainstOwner, OwnerOps
<1>5. \A s : LET c == [req[r] EXCEPT !.pc = s]
             IN  /\ c.op = req[r].op /\ c.target = req[r].target /\ c.actor = req[r].actor
                 /\ c.pc = s
  BY <1>0 DEF Request, Fields
<1>6. CASE Begin(r)
  <2>1. PICK op \in Operations, actor \in accounts :
          \E target \in TargetsOf(op, actor), arg \in ArgsOf(op),
             todo \in BatchesOf(op), link \in LinksOf(op) :
            Becomes(r, Call(op, actor, target, arg, todo, link))
    BY <1>6 DEF Begin
  <2>2. PICK target \in TargetsOf(op, actor), arg \in ArgsOf(op),
             todo \in BatchesOf(op), link \in LinksOf(op) :
            Becomes(r, Call(op, actor, target, arg, todo, link))
    BY <2>1
  <2>3. /\ Call(op, actor, target, arg, todo, link).op = op
        /\ Call(op, actor, target, arg, todo, link).pc = FirstStep(op)
    BY DEF Call, Blank
  <2>4. ~AgainstOwner(Call(op, actor, target, arg, todo, link), u)
    BY <2>3 DEF AgainstOwner, FirstStep, LeaveOps, DeleteOps
  <2> QED BY <2>2, <2>4, <1>1
<1>7. CASE Authorize(r)
  <2> DEFINE c == [req[r] EXCEPT !.pc = AfterAuth(req[r].op)]
  <2>1. Becomes(r, c) /\ req[r].pc = "auth"
    BY <1>7 DEF Authorize, Goto
  <2>2. c.op = req[r].op /\ c.pc = AfterAuth(req[r].op)
    BY <1>5
  <2>3. req'[r] = c
    BY <2>1 DEF Becomes, TypeOK
  <2>4. req[r].op \notin LeaveOps
    BY <1>7 DEF Authorize, Authorized, AdminOps, JoinOps, LeaveOps
  <2>5. ~AgainstOwner(c, u)
    <3>1. CASE req[r].op = "TransferOwnership"
      BY <2>1, <2>3, <3>1 DEF OwnerKept
    <3>2. CASE req[r].op = "SetMemberRole"
      BY <2>2, <3>2 DEF AgainstOwner, AfterAuth, OwnerOps
    <3>3. CASE req[r].op \notin OwnerOps
      BY <2>2, <2>4, <3>3 DEF AgainstOwner, OwnerOps
    <3> QED BY <3>1, <3>2, <3>3 DEF OwnerOps
  <2> QED BY <2>1, <2>5, <1>1
<1>8. CASE Refuse(r)
  <2>1. Done(r) \/ (req[r].op = "AddMembers" /\ Goto(r, "grant"))
    BY <1>8 DEF Refuse
  <2>2. "AddMembers" \notin LeaveOps \cup OwnerOps
    BY DEF LeaveOps, OwnerOps
  <2> QED BY <2>1, <2>2, <1>2, <1>4, <1>5 DEF Goto
<1>9. CASE CheckTarget(r)
  <2> DEFINE role1 == IF req[r].op \in LeaveOps THEN role[req[r].target] ELSE "none"
             moved == [req[r] EXCEPT !.pc = AfterTarget(req[r]), !.seen = role1]
             again == [req[r] EXCEPT !.op = "LeaveRoom"]
  <2>1. /\ moved.op = req[r].op /\ moved.target = req[r].target /\ moved.actor = req[r].actor
        /\ again.op = "LeaveRoom" /\ again.pc = "target"
    BY <1>0, <1>9 DEF CheckTarget, Request, Fields
  <2>2. Done(r) \/ (TargetOK(req[r]) /\ Becomes(r, moved)) \/ Becomes(r, again)
    BY <1>9 DEF CheckTarget
  <2>3. TargetOK(req[r]) => ~AgainstOwner(moved, u)
    <3>1. req[r].pc = "target"
      BY <1>9 DEF CheckTarget
    <3> QED BY <1>0, <2>1, <3>1 DEF TargetOK, AgainstOwner, LeaveOps
  <2>4. ~AgainstOwner(again, u)
    BY <2>1 DEF AgainstOwner
  <2> HIDE DEF moved, again
  <2> QED BY <2>2, <2>3, <2>4, <1>1, <1>2
<1>10. CASE \/ CheckGrant(r) \/ CheckActor(r) \/ CountMembers(r) \/ AddSelf(r) \/ Remove(r)
            \/ WriteRole(r) \/ Promote(r) \/ DeleteBotRecord(r)
  <2>1. req[r].pc \notin {"auth", "target"}
    BY <1>10 DEF CheckGrant, CheckActor, CountMembers, AddSelf, Remove, WriteRole, Promote,
       DeleteBotRecord
  <2>2. Done(r) \/ \E s \in Steps : Goto(r, s)
    BY <1>10 DEF CheckGrant, CheckActor, CountMembers, AddSelf, Remove, WriteRole, Promote,
       DeleteBotRecord, Steps
  <2> QED BY <2>1, <2>2, <1>2, <1>3, <1>5 DEF Goto
<1>11. CASE AddNext(r)
  <2> DEFINE next(v) == [req[r] EXCEPT !.todo = @ \ {v}]
             added(v) == [req[r] EXCEPT !.todo = @ \ {v}, !.target = v, !.pc = "audience"]
  <2>1. \A v : next(v).op \notin LeaveOps \cup OwnerOps /\ added(v).op \notin LeaveOps \cup OwnerOps
    BY <1>0, <1>11 DEF AddNext, Request, Fields, LeaveOps, OwnerOps
  <2>2. Done(r) \/ \E v \in Users : Becomes(r, next(v)) \/ Becomes(r, added(v))
    BY <1>0, <1>11 DEF AddNext, Done, Request, Fields
  <2> HIDE DEF next, added
  <2> QED BY <2>1, <2>2, <1>2, <1>4
<1>12. CASE \/ Cancel(r) \/ Demote(r) \/ WriteInvite(r) \/ WriteMeta(r) \/ WriteGrant(r)
            \/ DeleteAccount(r) \/ DeleteBotUser(r)
  BY <1>2, <1>12 DEF Cancel, Demote, WriteInvite, WriteMeta, WriteGrant, DeleteAccount,
     DeleteBotUser
<1>13. CASE ReadAudience(r) \/ Publish(r)
  <2> DEFINE to1 == IF req[r].op \in LeaveOps THEN Members \cup {req[r].target} ELSE Members
             pc1 == IF req[r].op \in LeaveOps THEN "remove" ELSE "publish"
             read == [req[r] EXCEPT !.to = to1, !.pc = pc1]
             next == [req[r] EXCEPT !.pc = "add", !.to = {}]
  <2>1. req[r].pc \notin {"auth", "target"}
    BY <1>13 DEF ReadAudience, Publish
  <2>2. /\ read.op = req[r].op /\ read.target = req[r].target /\ read.actor = req[r].actor
        /\ next.op = req[r].op /\ next.target = req[r].target /\ next.actor = req[r].actor
    BY <1>0 DEF Request, Fields
  <2>3. Becomes(r, read) \/ Done(r) \/ Becomes(r, next)
    BY <1>13 DEF ReadAudience, Publish, Done
  <2> HIDE DEF read, next
  <2> QED BY <2>1, <2>2, <2>3, <1>2, <1>3
<1> QED BY <1>6, <1>7, <1>8, <1>9, <1>10, <1>11, <1>12, <1>13 DEF Step

LEMMA OwnerStep ==
    ASSUME TypeOK, [Next]_vars, NEW u \in Users, Secure(u), u \in accounts',
           ~\E r \in Requests : At(r, {"TransferOwnership"}, "auth") /\ AgainstOwner(req'[r], u)
    PROVE  Secure(u)'
<1>1. CASE UNCHANGED vars
  BY <1>1 DEF vars, Secure, Owners, AgainstOwner
<1>2. CASE Next
  <2>1. PICK r \in Requests : Step(r)
    BY <1>2 DEF Next
  <2>2. OwnerKept(u, r)
    BY <2>1 DEF OwnerKept
  <2>3. role'[u] = "owner"
    BY <2>1, <2>2, OwnerStoreStep
  <2>4. \A q \in Requests : ~AgainstOwner(req'[q], u)
    BY <2>1, <2>2, OwnerRequestStep
  <2> QED BY <2>3, <2>4 DEF Secure, Owners, AgainstOwner
<1> QED BY <1>1, <1>2

\* An owner against whom no request was let through before it became the owner stays so
\* until it transfers the room or its account goes.
THEOREM OwnerStays == Spec => OwnerStaysOwner
<1>1. TypeOK /\ [Next]_vars =>
        [\A u \in Users : Secure(u) =>
            \/ Secure(u)'
            \/ u \notin accounts'
            \/ \E r \in Requests : At(r, {"TransferOwnership"}, "auth") /\ AgainstOwner(req'[r], u)]_vars
  BY OwnerStep
<1> QED BY <1>1, TypeCorrect, PTL DEF Spec, OwnerStaysOwner

-----------------------------------------------------------------------------
(* One request at a time                                                   *)

\* The server serves one request at a time, to its end.
OneAtATime == (\A r, s \in Requests : r = s) /\ ~MayCancel

\* An authority under which RemoveMember may go on.
MayRemove(c) ==
    \/ c.actor \in Owners
    \/ /\ role[c.target] = "member" /\ c.actor \in Members
       /\ role[c.actor] = "admin" \/ c.actor \in managers

\* What a request has established by the store call it makes next, and that still stands.
Standing(c) ==
    /\ c.op \in JoinOps \cup {"LeaveRoom", "DeleteAccount"} => c.target = c.actor
    /\ c.op = "TransferOwnership" =>
         /\ c.pc \in {"target", "promote", "demote"} => c.actor \in Owners
         /\ c.pc = "promote" => c.target \in Members
         /\ c.pc = "demote" => c.target \in Owners
    /\ c.op = "SetMemberRole" =>
         /\ c.pc \in {"target", "write"} => c.actor \in Owners
         /\ c.pc = "write" => c.target \in Members \ Owners
         /\ c.pc = "audience" => c.target \in Members
    /\ c.op = "AddMembers" =>
         /\ c.pc \in {"count", "add", "audience", "publish"} => c.actor \in Admins \cup managers
         /\ c.pc \in {"add", "audience", "publish"} =>
               Cardinality(Members) + Cardinality(c.todo) <= MaxRoomMembers
         /\ c.pc = "audience" => c.target \in Members
    /\ c.op \in AdminOps \ {"AddMembers"} /\ c.pc \in {"target", "add", "write"} => c.actor \in Admins
    /\ c.op \in JoinOps /\ c.pc = "add" => RoomDoor
    /\ c.op \in LeaveOps /\ c.pc \in {"actor", "grant", "audience", "remove"} =>
         c.target \in Members \ Owners
    /\ c.op = "RemoveMember" =>
         /\ c.pc \in {"actor", "grant"} => c.seen = role[c.target]
         /\ c.pc = "grant" => c.actor \in Members /\ c.seen = "member"
         /\ c.pc \in {"audience", "remove"} => MayRemove(c)
    /\ c.pc \in {"remove", "publish"} => c.to = Members \cup {c.target}
    /\ c.pc \in {"audience", "publish"} => c.op \in LeaveOps \cup {"SetMemberRole", "AddMembers"}

\* A room has one owner at most, and two only within a transfer to somebody else.
OwnerInv ==
    \/ Owners = {}
    \/ \E o \in Users : Owners = {o}
    \/ \E r \in Requests : InTransfer(r) /\ Owners = {req[r].actor, req[r].target}

SerialInv == OwnerInv /\ \A r \in Requests : Standing(req[r])

\* A request that has only moved on.
SameCall(d, c) ==
    /\ d.op = c.op /\ d.actor = c.actor /\ d.target = c.target /\ d.link = c.link /\ d.arg = c.arg
    /\ d.todo = c.todo /\ d.seen = c.seen /\ d.to = c.to

\* Moving on keeps everything else.
LEMMA GotoSame ==
    ASSUME TypeOK, NEW r \in Requests, NEW step, Goto(r, step)
    PROVE  req'[r].pc = step /\ SameCall(req'[r], req[r])
<1>1. req[r] \in Request /\ req'[r] = [req[r] EXCEPT !.pc = step]
  BY DEF TypeOK, Goto, Becomes
<1> QED BY <1>1 DEF Request, Fields, SameCall

\* A free slot.
LEMMA BlankFields == Blank.op = "none" /\ Blank.pc = "idle"
BY DEF Blank

\* A request that is over.
LEMMA DoneBlank ==
    ASSUME TypeOK, NEW r \in Requests, Done(r)
    PROVE  req'[r] = Blank /\ req'[r].op = "none" /\ req'[r].pc = "idle"
BY DEF TypeOK, Done, Becomes, Blank

\* Nothing is asked of it.
LEMMA IdleStands ==
    ASSUME NEW r \in Requests, req'[r].op = "none", req'[r].pc = "idle"
    PROVE  Standing(req[r])'
BY DEF Standing, JoinOps, LeaveOps, AdminOps

\* What a step that only reads leaves as it was.
LEMMA ReadOnlySame ==
    ASSUME ReadOnly
    PROVE  /\ UNCHANGED <<kind, visibility, role, managers, bots, accounts, linkBy, revoked>>
           /\ Members' = Members /\ Owners' = Owners /\ Admins' = Admins /\ RoomDoor' = RoomDoor
<1>1. UNCHANGED <<kind, visibility, role, managers, bots, accounts, linkBy, revoked>>
  BY DEF ReadOnly, store
<1> QED BY <1>1 DEF Members, Owners, Admins, RoomDoor, Open, Live, Issued

\* The steps that only read.
LEMMA ReadStands ==
    ASSUME TypeOK, OneAtATime, NEW r \in Requests, Standing(req[r]),
           \/ Begin(r) \/ Cancel(r) \/ Authorize(r) \/ Refuse(r) \/ CheckGrant(r) \/ CheckTarget(r)
           \/ CheckActor(r) \/ CountMembers(r) \/ ReadAudience(r)
    PROVE  ReadOnly /\ Standing(req[r])'
<1> DEFINE c == req[r]
           d == req'[r]
<1>0. ReadOnly
  BY DEF Begin, Cancel, Authorize, Refuse, CheckGrant, CheckTarget, CheckActor, CountMembers, ReadAudience
<1>a. /\ UNCHANGED <<kind, visibility, role, managers, bots, accounts, linkBy, revoked>>
      /\ Members' = Members /\ Owners' = Owners /\ Admins' = Admins /\ RoomDoor' = RoomDoor
  BY <1>0, ReadOnlySame
<1>b. c \in Request /\ c.todo \subseteq Users
  BY FieldTypes DEF TypeOK
<1>c. CASE Done(r)
  BY <1>0, <1>c, DoneBlank, IdleStands
<1>1. CASE Begin(r)
  <2>1. PICK op \in Operations, actor \in accounts :
          \E target \in TargetsOf(op, actor), arg \in ArgsOf(op), todo \in BatchesOf(op),
             link \in LinksOf(op) :
            Becomes(r, Call(op, actor, target, arg, todo, link))
    BY <1>1 DEF Begin
  <2>2. PICK target \in TargetsOf(op, actor), arg \in ArgsOf(op), todo \in BatchesOf(op),
             link \in LinksOf(op) :
          Becomes(r, Call(op, actor, target, arg, todo, link))
    BY <2>1
  <2>3. d.op = op /\ d.actor = actor /\ d.target = target /\ d.pc = FirstStep(op)
    BY <2>2 DEF Becomes, Call, Blank, TypeOK
  <2>4. op \in JoinOps \cup {"LeaveRoom", "DeleteAccount"} => target = actor
    BY DEF TargetsOf, JoinOps
  <2>6. d.pc \in {"auth", "target", "write"} /\ (d.pc = "target" <=> op \in LeaveOps)
        /\ (d.pc = "write" => op \in DeleteOps)
    BY <2>3 DEF FirstStep, LeaveOps, DeleteOps
  <2> QED BY <1>0, <2>3, <2>4, <2>6 DEF Standing, LeaveOps, DeleteOps, AdminOps, JoinOps
<1>2. CASE Cancel(r)
  BY <1>2 DEF Cancel, OneAtATime
<1>3. CASE Authorize(r)
  <2>1. d.pc = AfterAuth(c.op) /\ SameCall(d, c) /\ Authorized(c) /\ c.pc = "auth"
    BY <1>3, GotoSame DEF Authorize, At
  <2>2. CASE c.op = "TransferOwnership" /\ c.actor \in Owners
    BY <1>0, <1>a, <2>1, <2>2 DEF Standing, AfterAuth, OwnerOps, JoinOps, LeaveOps, AdminOps, SameCall
  <2>3. CASE c.op = "SetMemberRole" /\ c.actor \in Owners
    BY <1>0, <1>a, <2>1, <2>3 DEF Standing, AfterAuth, OwnerOps, JoinOps, LeaveOps, AdminOps, SameCall
  <2>4. CASE c.op = "AddMembers" /\ c.actor \in Admins
    BY <1>0, <1>a, <2>1, <2>4 DEF Standing, AfterAuth, OwnerOps, JoinOps, LeaveOps, AdminOps, SameCall
  <2>5. CASE c.op \in AdminOps \ {"AddMembers"} /\ c.actor \in Admins
    BY <1>0, <1>a, <2>1, <2>5 DEF Standing, AfterAuth, OwnerOps, JoinOps, LeaveOps, AdminOps, SameCall
  <2>6. CASE c.op \in JoinOps
    <3>1. RoomDoor
      BY <2>1, <2>6 DEF Authorized, JoinOps, AdminOps, GetInviteByToken, Live, Issued, RoomDoor
    <3> QED
      BY <1>0, <1>a, <2>1, <2>6, <3>1 DEF Standing, AfterAuth, OwnerOps, JoinOps, LeaveOps, AdminOps, SameCall
  <2> QED BY <2>1, <2>2, <2>3, <2>4, <2>5, <2>6 DEF Authorized, requireOwner, requireAdmin, JoinOps
<1>4. CASE Refuse(r) /\ ~Done(r)
  <2>1. d.pc = "grant" /\ SameCall(d, c) /\ c.op = "AddMembers"
    BY <1>4, GotoSame DEF Refuse
  <2> QED BY <1>0, <2>1 DEF Standing, SameCall, JoinOps, LeaveOps, AdminOps
<1>5. CASE CheckGrant(r) /\ ~Done(r)
  <2>1. c.actor \in managers /\ c.pc = "grant" /\ c.op \in {"AddMembers", "RemoveMember"}
        /\ SameCall(d, c) /\ d.pc = IF c.op = "AddMembers" THEN "count" ELSE "audience"
    BY <1>5, GotoSame DEF CheckGrant, At
  <2>2. CASE c.op = "AddMembers"
    BY <1>0, <1>a, <2>1, <2>2 DEF Standing, SameCall, JoinOps, LeaveOps, AdminOps
  <2>3. CASE c.op = "RemoveMember"
    BY <1>0, <1>a, <2>1, <2>3 DEF Standing, MayRemove, SameCall, JoinOps, LeaveOps, AdminOps
  <2> QED BY <2>1, <2>2, <2>3
<1>6. CASE CheckTarget(r) /\ ~Done(r)
  <2>1. TargetOK(c) /\ c.pc = "target"
    BY <1>6 DEF CheckTarget, At
  <2>2. CASE c.op = "RemoveMember" /\ c.actor = c.target
    <3>1. d.op = "LeaveRoom" /\ d.pc = "target" /\ d.target = c.target /\ d.actor = c.actor
      BY <1>6, <1>b, <2>1, <2>2 DEF CheckTarget, Becomes, TypeOK, Request, Fields
    <3> QED BY <1>0, <2>2, <3>1 DEF Standing, JoinOps, LeaveOps, AdminOps
  <2>3. CASE ~(c.op = "RemoveMember" /\ c.actor = c.target)
    <3> DEFINE seen1 == IF c.op \in LeaveOps THEN role[c.target] ELSE "none"
    <3>1. d = [c EXCEPT !.pc = AfterTarget(c), !.seen = seen1]
      BY <1>6, <2>1, <2>3 DEF CheckTarget, Becomes, TypeOK
    <3>2. d.op = c.op /\ d.pc = AfterTarget(c) /\ d.target = c.target /\ d.actor = c.actor
          /\ d.seen = seen1
      <4> HIDE DEF seen1
      <4> QED BY <1>b, <3>1 DEF Request, Fields
    <3>3. CASE c.op = "GrantBot"
      BY <1>0, <1>a, <2>1, <3>2, <3>3 DEF Standing, AfterTarget, JoinOps, LeaveOps, AdminOps
    <3>4. CASE c.op = "TransferOwnership"
      BY <1>0, <1>a, <2>1, <3>2, <3>4 DEF Standing, TargetOK, AfterTarget, JoinOps, LeaveOps, AdminOps
    <3>5. CASE c.op = "SetMemberRole"
      BY <1>0, <1>a, <2>1, <3>2, <3>5 DEF Standing, TargetOK, AfterTarget, JoinOps, LeaveOps, AdminOps
    <3>6. CASE c.op = "LeaveRoom"
      BY <1>0, <1>a, <2>1, <3>2, <3>6 DEF Standing, TargetOK, AfterTarget, JoinOps, LeaveOps, AdminOps
    <3>7. CASE c.op = "RemoveMember"
      BY <1>0, <1>a, <2>1, <3>2, <3>7 DEF Standing, TargetOK, AfterTarget, JoinOps, LeaveOps, AdminOps
    <3> QED BY <2>1, <3>3, <3>4, <3>5, <3>6, <3>7 DEF TargetOK, LeaveOps
  <2> QED BY <2>2, <2>3
<1>7. CASE CheckActor(r) /\ ~Done(r)
  <2>1. c.op = "RemoveMember" /\ c.pc = "actor" /\ c.actor \in Members /\ SameCall(d, c)
    BY <1>7, GotoSame DEF CheckActor, At
  <2>2. \/ d.pc = "audience" /\ CanManage(role[c.actor], c.seen)
        \/ d.pc = "grant" /\ c.seen = "member"
    BY <1>7, GotoSame DEF CheckActor
  <2>3. role[c.actor] = "owner" => c.actor \in Owners
    BY <2>1 DEF Owners, Members
  <2> QED BY <1>0, <1>a, <2>1, <2>2, <2>3 DEF Standing, MayRemove, CanManage, SameCall, JoinOps, LeaveOps, AdminOps
<1>8. CASE CountMembers(r) /\ ~Done(r)
  <2>1. /\ c.op = "AddMembers" /\ c.pc = "count" /\ d.pc = "add" /\ SameCall(d, c)
        /\ ~(Cardinality(Members) + Cardinality(c.todo) > MaxRoomMembers)
    BY <1>8, GotoSame DEF CountMembers, At
  <2>2. Cardinality(Members) \in Nat /\ Cardinality(c.todo) \in Nat
    BY <1>b, FS_Subset, FS_CardinalityType, MembershipAssumption DEF Members
  <2> QED BY <1>0, <1>a, <2>1, <2>2, MembershipAssumption
          DEF Standing, SameCall, JoinOps, LeaveOps, AdminOps
<1>9. CASE ReadAudience(r)
  <2> DEFINE to1 == IF c.op \in LeaveOps THEN Members \cup {c.target} ELSE Members
             pc1 == IF c.op \in LeaveOps THEN "remove" ELSE "publish"
  <2>1. d = [c EXCEPT !.to = to1, !.pc = pc1] /\ c.pc = "audience"
    BY <1>9 DEF ReadAudience, At, Becomes, TypeOK
  <2>2. /\ d.op = c.op /\ d.pc = pc1 /\ d.target = c.target /\ d.actor = c.actor
        /\ d.to = to1 /\ d.todo = c.todo
    <3> HIDE DEF to1, pc1
    <3> QED BY <1>b, <2>1 DEF Request, Fields
  <2>3. d.to = Members \cup {c.target}
    BY <2>1, <2>2 DEF Standing
  <2>4. CASE c.op \in LeaveOps
    BY <1>0, <1>a, <2>1, <2>2, <2>3, <2>4 DEF Standing, MayRemove, JoinOps, LeaveOps, AdminOps
  <2>5. CASE c.op \in {"SetMemberRole", "AddMembers"}
    BY <1>0, <1>a, <2>1, <2>2, <2>3, <2>5 DEF Standing, JoinOps, LeaveOps, AdminOps
  <2> QED BY <2>1, <2>4, <2>5 DEF Standing
<1> QED BY <1>c, <1>1, <1>2, <1>3, <1>4, <1>5, <1>6, <1>7, <1>8, <1>9

\* The owners among whom a request that is not in mid-transfer works.
LEMMA AtMostOneOwner ==
    ASSUME OneAtATime, OwnerInv, NEW r \in Requests, ~InTransfer(r)
    PROVE  Owners = {} \/ \E o \in Users : Owners = {o}
BY DEF OneAtATime, OwnerInv

\* A row that is added is a member's.
LEMMA AddedMember ==
    ASSUME TypeOK, NEW u \in Users \ Members, role' = [role EXCEPT ![u] = "member"]
    PROVE  Members' = Members \cup {u} /\ Owners' = Owners /\ Admins' = Admins
BY DEF TypeOK, Members, Owners, Admins

\* AddMembers, for one username.
LEMMA AddNextStands ==
    ASSUME TypeOK, NEW r \in Requests, Standing(req[r]), AddNext(r)
    PROVE  Owners' = Owners /\ Standing(req[r])'
<1> DEFINE c == req[r]
           d == req'[r]
<1>b. c \in Request /\ c.todo \subseteq Users
  BY FieldTypes DEF TypeOK
<1>1. c.op = "AddMembers" /\ c.pc = "add" /\ UNCHANGED <<managers, accounts, kind>>
  BY DEF AddNext, At
<1>2. c.actor \in Admins \cup managers /\ Cardinality(Members) + Cardinality(c.todo) <= MaxRoomMembers
  BY <1>1 DEF Standing
<1>3. IsFiniteSet(Members) /\ IsFiniteSet(c.todo)
      /\ Cardinality(Members) \in Nat /\ Cardinality(c.todo) \in Nat
  BY <1>b, FS_Subset, FS_CardinalityType, MembershipAssumption DEF Members
<1>4. PICK u \in c.todo :
        \/ /\ Done(r) /\ UNCHANGED role
        \/ /\ u \in accounts \cap Members
           /\ Becomes(r, IF c.todo = {u} THEN Blank ELSE [c EXCEPT !.todo = @ \ {u}])
           /\ UNCHANGED role
        \/ /\ u \in accounts \ Members
           /\ role' = [role EXCEPT ![u] = "member"]
           /\ Becomes(r, [c EXCEPT !.todo = @ \ {u}, !.target = u, !.pc = "audience"])
  BY DEF AddNext
<1>5. Cardinality(c.todo \ {u}) = Cardinality(c.todo) - 1 /\ Cardinality(c.todo \ {u}) \in Nat
  BY <1>3, <1>4, FS_RemoveElement, FS_CardinalityType
<1>6. CASE UNCHANGED role /\ d.op = "none" /\ d.pc = "idle"
  BY <1>6, IdleStands DEF Owners
<1>7. CASE UNCHANGED role /\ Becomes(r, [c EXCEPT !.todo = @ \ {u}])
  <2>1. d.op = c.op /\ d.pc = c.pc /\ d.actor = c.actor /\ d.todo = c.todo \ {u}
    BY <1>b, <1>7 DEF Becomes, TypeOK, Request, Fields
  <2>2. Owners' = Owners /\ Admins' = Admins /\ Members' = Members
    BY <1>7 DEF Owners, Admins, Members
  <2>3. Cardinality(Members) + Cardinality(c.todo \ {u}) <= MaxRoomMembers
    BY <1>2, <1>3, <1>5, MembershipAssumption
  <2> QED BY <1>1, <1>2, <2>1, <2>2, <2>3 DEF Standing, JoinOps, LeaveOps, AdminOps
<1>8. CASE /\ u \in accounts \ Members
           /\ role' = [role EXCEPT ![u] = "member"]
           /\ Becomes(r, [c EXCEPT !.todo = @ \ {u}, !.target = u, !.pc = "audience"])
  <2>1. d.op = c.op /\ d.pc = "audience" /\ d.actor = c.actor /\ d.target = u /\ d.todo = c.todo \ {u}
    BY <1>b, <1>8 DEF Becomes, TypeOK, Request, Fields
  <2>2. Members' = Members \cup {u} /\ Owners' = Owners /\ Admins' = Admins
    BY <1>b, <1>4, <1>8, AddedMember
  <2>3. Cardinality(Members') = Cardinality(Members) + 1
    BY <1>3, <1>8, <2>2, FS_AddElement
  <2>4. Cardinality(Members') + Cardinality(c.todo \ {u}) <= MaxRoomMembers
    BY <1>2, <1>3, <1>5, <2>3, MembershipAssumption
  <2> QED BY <1>1, <1>2, <2>1, <2>2, <2>4 DEF Standing, JoinOps, LeaveOps, AdminOps
<1>9. Done(r) => d.op = "none" /\ d.pc = "idle"
  BY DoneBlank
<1>10. Becomes(r, Blank) => d.op = "none" /\ d.pc = "idle"
  BY DoneBlank DEF Done
<1> QED BY <1>4, <1>6, <1>7, <1>8, <1>9, <1>10

\* The other writes of a role.
LEMMA WriteStands ==
    ASSUME TypeOK, NEW r \in Requests, Standing(req[r]),
           AddSelf(r) \/ Remove(r) \/ WriteRole(r)
    PROVE  Owners' = Owners /\ UNCHANGED <<kind, accounts>> /\ Standing(req[r])'
<1> DEFINE c == req[r]
           d == req'[r]
<1>b. c \in Request /\ c.target \in Users \cup {Nobody} /\ c.arg \in ArgsOf(c.op)
  BY FieldTypes DEF TypeOK
<1>c. ASSUME Done(r) PROVE Standing(req[r])'
  BY <1>c, DoneBlank, IdleStands
<1>1. CASE AddSelf(r)
  <2>1. Owners' = Owners /\ Admins' = Admins
    <3>1. CASE c.target \in accounts \ Members
      <4>1. c.target \in Users \ Members /\ role' = [role EXCEPT ![c.target] = "member"]
        BY <1>1, <3>1 DEF AddSelf, TypeOK
      <4> QED BY <4>1, AddedMember
    <3>2. CASE ~(c.target \in accounts \ Members)
      BY <1>1, <3>2 DEF AddSelf, Owners, Admins
    <3> QED BY <3>1, <3>2
  <2>2. CASE ~Done(r)
    <3>1. c.op = "GrantBot" /\ c.pc = "add" /\ d.pc = "write" /\ SameCall(d, c)
      BY <1>1, <2>2, GotoSame DEF AddSelf, At
    <3> QED BY <1>1, <2>1, <3>1 DEF AddSelf, Standing, SameCall, JoinOps, LeaveOps, AdminOps
  <2> QED BY <1>1, <1>c, <2>1, <2>2 DEF AddSelf
<1>2. CASE Remove(r)
  <2>1. c.op \in LeaveOps /\ c.pc = "remove" /\ role' = [role EXCEPT ![c.target] = "none"]
    BY <1>2 DEF Remove, At
  <2>2. c.target \in Members \ Owners /\ c.to = Members \cup {c.target}
    BY <2>1 DEF Standing
  <2>3. Owners' = Owners /\ Members' = Members \ {c.target}
    BY <2>1, <2>2 DEF TypeOK, Owners, Members
  <2>4. d.pc = "publish" /\ SameCall(d, c)
    BY <1>2, <2>2, GotoSame DEF Remove
  <2> QED BY <1>2, <2>1, <2>2, <2>3, <2>4 DEF Remove, Standing, SameCall, JoinOps, LeaveOps, AdminOps
<1>3. CASE WriteRole(r)
  <2>1. c.op = "SetMemberRole" /\ c.pc = "write" /\ c.arg \in {"admin", "member"}
    BY <1>b, <1>3 DEF WriteRole, At, ArgsOf
  <2>2. c.target \in Members \ Owners
    BY <2>1 DEF Standing
  <2>3. role' = [role EXCEPT ![c.target] = c.arg]
    BY <1>3, <2>2 DEF WriteRole, SetRole
  <2>4. Owners' = Owners /\ Members' = Members
    BY <2>1, <2>2, <2>3 DEF TypeOK, Owners, Members
  <2>5. d.pc = "audience" /\ SameCall(d, c)
    BY <1>3, <2>2, GotoSame DEF WriteRole
  <2> QED BY <1>3, <2>1, <2>2, <2>4, <2>5 DEF WriteRole, Standing, SameCall, JoinOps, LeaveOps, AdminOps
<1> QED BY <1>1, <1>2, <1>3

\* A transfer's two writes.
LEMMA TransferStands ==
    ASSUME TypeOK, OneAtATime, SerialInv, NEW r \in Requests, Promote(r) \/ Demote(r)
    PROVE  SerialInv'
<1> DEFINE c == req[r]
           d == req'[r]
<1>a. \A s \in Requests : s = r
  BY DEF OneAtATime
<1>b. c \in Request /\ c.target \in Users \cup {Nobody} /\ c.actor \in Users \cup {Nobody}
  BY FieldTypes DEF TypeOK
<1>c. OwnerInv /\ Standing(c) /\ c.op = "TransferOwnership"
  BY DEF SerialInv, Promote, Demote, At
<1>1. CASE Promote(r)
  <2>1. c.pc = "promote"
    BY <1>1 DEF Promote, At
  <2>2. c.actor \in Owners /\ c.target \in Members
    BY <1>c, <2>1 DEF Standing
  <2>3. Owners = {c.actor}
    BY <1>a, <1>c, <2>1, <2>2 DEF OwnerInv, InTransfer, At
  <2>4. role' = [role EXCEPT ![c.target] = "owner"]
    BY <1>1, <2>2 DEF Promote, SetRole
  <2>5. Owners' = {c.actor, c.target}
    BY <2>2, <2>3, <2>4 DEF TypeOK, Owners, Members
  <2>6. d.pc = "demote" /\ SameCall(d, c)
    BY <1>1, <2>2, GotoSame DEF Promote
  <2>7. OwnerInv'
    <3>1. CASE c.target = c.actor
      BY <2>2, <2>5, <3>1 DEF OwnerInv, Owners
    <3>2. CASE c.target # c.actor
      BY <1>c, <2>5, <2>6, <3>2 DEF OwnerInv, InTransfer, Resigning, At, SameCall
    <3> QED BY <3>1, <3>2
  <2>8. Standing(req[r])'
    BY <1>c, <2>2, <2>5, <2>6 DEF Standing, SameCall, JoinOps, LeaveOps, AdminOps
  <2> QED BY <1>a, <2>7, <2>8 DEF SerialInv
<1>2. CASE Demote(r)
  <2>1. c.pc = "demote"
    BY <1>2 DEF Demote, At
  <2>2. c.actor \in Owners /\ c.target \in Owners
    BY <1>c, <2>1 DEF Standing
  <2>3. Owners = {c.actor, c.target}
    BY <1>a, <1>c, <2>2 DEF OwnerInv
  <2>4. role' = [role EXCEPT ![c.actor] = "admin"]
    BY <1>2, <2>2 DEF Demote, SetRole, Owners, Members
  <2>5. Owners' = {c.target} \ {c.actor} /\ c.target \in Users
    BY <2>2, <2>3, <2>4 DEF TypeOK, Owners
  <2>6. Standing(req[r])'
    BY <1>2, DoneBlank, IdleStands DEF Demote
  <2>7. OwnerInv'
    BY <2>5 DEF OwnerInv
  <2> QED BY <1>a, <2>6, <2>7 DEF SerialInv
<1> QED BY <1>1, <1>2

\* The invariant of serving one request at a time is inductive.
LEMMA SerialStep == OneAtATime => (TypeOK /\ SerialInv /\ [Next]_vars => SerialInv')
<1> SUFFICES ASSUME OneAtATime, TypeOK, SerialInv, [Next]_vars PROVE SerialInv'
  OBVIOUS
<1>1. CASE UNCHANGED vars
  BY <1>1 DEF vars, SerialInv, OwnerInv, Standing, MayRemove, InTransfer, Resigning, At, Owners, Members, Admins, RoomDoor, Open,
     Live, Issued
<1>2. CASE Next
  <2> SUFFICES ASSUME NEW r \in Requests, Step(r) PROVE SerialInv'
    BY <1>2 DEF Next
  <2> DEFINE c == req[r]
             d == req'[r]
  <2>a. \A s \in Requests : s = r
    BY DEF OneAtATime
  <2>b. OwnerInv /\ Standing(req[r])
    BY DEF SerialInv
  <2>c. ASSUME Owners' = Owners, ~At(r, {"TransferOwnership"}, "demote"), Standing(req[r])'
        PROVE  SerialInv'
    <3>1. OwnerInv'
      BY <2>b, <2>c, AtMostOneOwner DEF OwnerInv, InTransfer
    <3> QED BY <2>a, <2>c, <3>1 DEF SerialInv
  <2>1. CASE \/ Begin(r) \/ Cancel(r) \/ Authorize(r) \/ Refuse(r) \/ CheckGrant(r) \/ CheckTarget(r)
             \/ CheckActor(r) \/ CountMembers(r) \/ ReadAudience(r)
    <3>1. ReadOnly /\ Standing(req[r])'
      BY <2>1, <2>b, ReadStands
    <3>2. Owners' = Owners
      BY <3>1, ReadOnlySame
    <3>3. ~At(r, {"TransferOwnership"}, "demote")
      <4>1. ASSUME Begin(r) PROVE req[r].pc = "idle"
        BY <4>1, BlankFields DEF Begin
      <4>2. ~Cancel(r)
        BY DEF Cancel, OneAtATime
      <4>3. ASSUME \/ Authorize(r) \/ Refuse(r) \/ CheckGrant(r) \/ CheckTarget(r) \/ CheckActor(r)
                   \/ CountMembers(r) \/ ReadAudience(r)
            PROVE  req[r].pc \in {"auth", "grant", "target", "actor", "count", "audience"}
        BY <4>3 DEF At, Authorize, Refuse, CheckGrant, CheckTarget, CheckActor, CountMembers, ReadAudience
      <4> QED BY <2>1, <4>1, <4>2, <4>3 DEF At
    <3> QED BY <2>c, <3>1, <3>2, <3>3
  <2>2. CASE AddNext(r)
    <3>1. Owners' = Owners /\ Standing(req[r])'
      BY <2>2, <2>b, AddNextStands
    <3> QED BY <2>2, <2>c, <3>1 DEF AddNext, At
  <2>3. CASE AddSelf(r) \/ Remove(r) \/ WriteRole(r)
    <3>1. Owners' = Owners /\ UNCHANGED <<kind, accounts>> /\ Standing(req[r])'
      BY <2>3, <2>b, WriteStands
    <3> QED BY <2>3, <2>c, <3>1 DEF AddSelf, Remove, WriteRole, At
  <2>4. CASE Promote(r) \/ Demote(r)
    BY <2>4, TransferStands
  <2>5. CASE WriteInvite(r) \/ WriteMeta(r) \/ WriteGrant(r)
    <3>1. Done(r) /\ UNCHANGED <<kind, accounts, role>>
      BY <2>5 DEF WriteInvite, WriteMeta, WriteGrant
    <3> QED BY <2>5, <2>c, <3>1, DoneBlank, IdleStands DEF WriteInvite, WriteMeta, WriteGrant, At, Owners
  <2>6. CASE DeleteAccount(r) \/ DeleteBotUser(r)
    <3>1. PICK u : EraseUser(u) /\ u \in Users \cup {Nobody}
      BY <2>6, FieldTypes DEF DeleteAccount, DeleteBotUser, TypeOK
    <3>2. Done(r) /\ ~InTransfer(r)
      BY <2>6 DEF DeleteAccount, DeleteBotUser, InTransfer, At
    <3>3. Owners' = Owners \ {u}
      BY <3>1 DEF EraseUser, TypeOK, Owners
    <3>4. OwnerInv'
      <4>1. CASE Owners = {}
        BY <3>3, <4>1 DEF OwnerInv
      <4>2. CASE \E o \in Users : Owners = {o}
        BY <3>3, <4>2 DEF OwnerInv
      <4> QED BY <2>b, <3>2, <4>1, <4>2, AtMostOneOwner
    <3>5. Standing(req[r])'
      BY <3>2, DoneBlank, IdleStands
    <3> QED BY <2>a, <3>4, <3>5 DEF SerialInv
  <2>7. CASE DeleteBotRecord(r)
    <3>1. Standing(req[r])'
      <4>1. CASE Done(r)
        BY <4>1, DoneBlank, IdleStands
      <4>2. CASE Goto(r, "user")
        <5>1. req'[r].op = "DeleteBot" /\ req'[r].pc = "user"
          BY <2>7, <4>2, GotoSame DEF DeleteBotRecord, At, SameCall
        <5> QED BY <5>1 DEF Standing, JoinOps, LeaveOps, AdminOps
      <4> QED BY <2>7, <4>1, <4>2 DEF DeleteBotRecord
    <3> QED BY <2>7, <2>c, <3>1 DEF DeleteBotRecord, At, Owners
  <2>8. CASE Publish(r)
    <3>1. UNCHANGED <<kind, visibility, role, managers, bots, accounts, linkBy, revoked>>
          /\ c.pc = "publish"
      BY <2>8 DEF Publish, store, At
    <3>2. Owners' = Owners /\ Members' = Members /\ Admins' = Admins
      BY <3>1 DEF Owners, Members, Admins
    <3>3. Standing(req[r])'
      <4>1. CASE Becomes(r, Blank)
        <5>1. req'[r].op = "none" /\ req'[r].pc = "idle"
          BY <4>1 DEF Becomes, Blank, TypeOK
        <5> QED BY <5>1, IdleStands
      <4>2. CASE Becomes(r, [c EXCEPT !.pc = "add", !.to = {}])
        <5>1. /\ d.op = c.op /\ d.pc = "add" /\ d.actor = c.actor /\ d.target = c.target
              /\ d.todo = c.todo
          BY <4>2 DEF Becomes, TypeOK, Request, Fields
        <5> QED BY <2>b, <3>1, <3>2, <5>1 DEF Standing, JoinOps, LeaveOps, AdminOps
      <4> QED BY <2>8, <4>1, <4>2 DEF Publish
    <3> QED BY <2>c, <3>1, <3>2, <3>3 DEF At
  <2> QED BY <2>1, <2>2, <2>3, <2>4, <2>5, <2>6, <2>7, <2>8 DEF Step
<1> QED BY <1>1, <1>2

\* It holds of a conversation that was just created.
LEMMA SerialInit == Init => SerialInv
<1> SUFFICES ASSUME Init PROVE SerialInv
  OBVIOUS
<1>1. PICK creator \in Users \ Bots, others \in SUBSET Users :
        role = [u \in Users |->
                 IF u = creator /\ kind # "direct" THEN "owner"
                 ELSE IF u = creator \/ u \in others THEN "member" ELSE "none"]
  BY DEF Init
<1>2. OwnerInv
  <2>1. CASE kind = "direct"
    BY <1>1, <2>1 DEF OwnerInv, Owners
  <2>2. CASE kind # "direct"
    <3>1. Owners = {creator}
      BY <1>1, <2>2 DEF Owners
    <3> QED BY <3>1 DEF OwnerInv
  <2> QED BY <2>1, <2>2
<1>3. ASSUME NEW r \in Requests PROVE Standing(req[r])
  <2>1. req[r].op = "none" /\ req[r].pc = "idle"
    BY DEF Init, Blank
  <2> QED BY <2>1 DEF Standing, JoinOps, LeaveOps, AdminOps
<1> QED BY <1>2, <1>3 DEF SerialInv

\* A step takes an owner's role by erasing the owner or by a transfer's second write.
LEMMA OwnerLost ==
    ASSUME TypeOK, OneAtATime, SerialInv, NEW r \in Requests, Step(r), NEW u \in Owners, Owners' = {}
    PROVE  u \notin accounts' \/ Resigning(req[r])
<1>0. u \in Users /\ u \in Members /\ role[u] = "owner" /\ role'[u] # "owner" /\ Standing(req[r])
  BY DEF Owners, Members, SerialInv
<1>1. CASE \/ Begin(r) \/ Cancel(r) \/ Authorize(r) \/ Refuse(r) \/ CheckGrant(r) \/ CheckTarget(r)
           \/ CheckActor(r) \/ CountMembers(r) \/ ReadAudience(r) \/ WriteInvite(r) \/ WriteMeta(r)
           \/ WriteGrant(r) \/ DeleteBotRecord(r) \/ Publish(r)
  <2>1. UNCHANGED role
    BY <1>1 DEF Begin, Cancel, Authorize, Refuse, CheckGrant, CheckTarget, CheckActor, CountMembers,
       ReadAudience, WriteInvite, WriteMeta, WriteGrant, DeleteBotRecord, Publish, ReadOnly, store
  <2> QED BY <1>0, <2>1
<1>2. CASE AddNext(r)
  <2>1. UNCHANGED role \/ \E v \in Users \ Members : role' = [role EXCEPT ![v] = "member"]
    BY <1>2 DEF AddNext, TypeOK
  <2> QED BY <1>0, <2>1 DEF TypeOK
<1>3. CASE AddSelf(r) \/ Remove(r) \/ WriteRole(r)
  BY <1>0, <1>3, WriteStands
<1>4. CASE Promote(r)
  <2>1. UNCHANGED role \/ role' = [role EXCEPT ![req[r].target] = "owner"]
    BY <1>4 DEF Promote, SetRole
  <2> QED BY <1>0, <2>1 DEF TypeOK
<1>5. CASE Demote(r)
  <2>1. req[r].op = "TransferOwnership" /\ req[r].pc = "demote"
    BY <1>5 DEF Demote, At
  <2>2. req[r].target \in Owners
    BY <1>0, <2>1 DEF Standing
  <2>3. UNCHANGED role \/ role' = [role EXCEPT ![req[r].actor] = "admin"]
    BY <1>5 DEF Demote, SetRole
  <2>4. req[r].target = req[r].actor
    BY <2>2, <2>3 DEF Owners, TypeOK
  <2> QED BY <2>1, <2>4 DEF Resigning
<1>6. CASE DeleteAccount(r) \/ DeleteBotUser(r)
  <2>1. PICK v : EraseUser(v)
    BY <1>6 DEF DeleteAccount, DeleteBotUser
  <2> QED BY <1>0, <2>1 DEF EraseUser, TypeOK
<1> QED BY <1>1, <1>2, <1>3, <1>4, <1>5, <1>6 DEF Step

\* Requests that are served one at a time leave a room with one owner at most, although a transfer takes
\* two writes and every check is made before its write; and the owner is lost only with its account, or
\* by a transfer to itself.
THEOREM OneOwnerServed == ASSUME OneAtATime PROVE Spec => OneOwnerAtRest
<1>1. Init => SerialInv
  BY SerialInit
<1>2. TypeOK /\ SerialInv /\ [Next]_vars => SerialInv'
  BY SerialStep
<1>3. TypeOK /\ SerialInv /\ SerialInv' /\ [Next]_vars =>
        [/\ Resting' => Cardinality(Owners') <= 1
         /\ Owners # {} /\ Owners' = {} =>
              \/ \E u \in Owners : u \notin accounts'
              \/ \E r \in Requests : Resigning(req[r])]_vars
  <2> SUFFICES ASSUME TypeOK, SerialInv, SerialInv', Next
               PROVE  /\ Resting' => Cardinality(Owners') <= 1
                      /\ Owners # {} /\ Owners' = {} =>
                           \/ \E u \in Owners : u \notin accounts'
                           \/ \E r \in Requests : Resigning(req[r])
    OBVIOUS
  <2>1. ASSUME Resting' PROVE Cardinality(Owners') <= 1
    <3>1. \A r \in Requests : ~InTransfer(r)'
      BY <2>1, BlankFields DEF Resting, InTransfer, At
    <3>2. Owners' = {} \/ \E o \in Users : Owners' = {o}
      BY <3>1 DEF SerialInv, OwnerInv
    <3> QED BY <3>2, FS_Singleton, FS_EmptySet
  <2>2. ASSUME Owners # {}, Owners' = {}
        PROVE  \/ \E u \in Owners : u \notin accounts'
               \/ \E r \in Requests : Resigning(req[r])
    <3>1. PICK r \in Requests : Step(r)
      BY DEF Next
    <3>2. PICK u \in Owners : TRUE
      BY <2>2
    <3>3. u \notin accounts' \/ Resigning(req[r])
      BY <2>2, <3>1, <3>2, OwnerLost
    <3> QED BY <3>2, <3>3
  <2> QED BY <2>1, <2>2
<1> QED BY <1>1, <1>2, <1>3, TypeCorrect, PTL DEF Spec, OneOwnerAtRest

\* Requests that are served one at a time tell of what they did all members of that moment and whom it
\* is about, who may just have left.
THEOREM AudienceServed == ASSUME OneAtATime PROVE Spec => AudienceIsMembers
<1>1. Init => SerialInv
  BY SerialInit
<1>2. TypeOK /\ SerialInv /\ [Next]_vars => SerialInv'
  BY SerialStep
<1>3. TypeOK /\ SerialInv /\ [Next]_vars =>
        [sent' # NoEvent => sent'.to = Members' \cup {sent'.about}]_vars
  <2> SUFFICES ASSUME TypeOK, SerialInv, NEW r \in Requests, Step(r), sent' # NoEvent
               PROVE  sent'.to = Members' \cup {sent'.about}
    BY DEF Next
  <2>1. Publish(r)
    BY DEF Step, Begin, Cancel, Authorize, Refuse, CheckGrant, CheckTarget, CheckActor, CountMembers,
       AddNext, AddSelf, Remove, WriteRole, Promote, Demote, WriteInvite, WriteMeta, WriteGrant,
       DeleteAccount, DeleteBotRecord, DeleteBotUser, ReadAudience, ReadOnly, Silent
  <2>2. /\ req[r].to = Members \cup {req[r].target}
        /\ sent' = [op |-> req[r].op, about |-> req[r].target, to |-> req[r].to]
        /\ Members' = Members
    BY <2>1 DEF Publish, At, SerialInv, Standing, store, Members
  <2> QED BY <2>2
<1> QED BY <1>1, <1>2, <1>3, TypeCorrect, PTL DEF Spec, AudienceIsMembers

-----------------------------------------------------------------------------
(* The contract                                                            *)

\* The contract counts with the same operator.
LEMMA ContractCardinality ==
    ASSUME NEW S
    PROVE  Contract!Cardinality(S) = Cardinality(S)
BY DEF Contract!Cardinality, Cardinality

\* The owner among none and among one.
LEMMA OneAmong == OwnerAmong({}) = Nobody /\ \A o : OwnerAmong({o}) = o
BY DEF OwnerAmong

\* With no transfer half made, the contract's owner and admins are those with the role.
LEMMA RoomAtRest ==
    ASSUME OneAtATime, SerialInv, NEW r \in Requests, ~InTransfer(r)
    PROVE  /\ Outgoing = {} /\ RoomOwner \in Users \cup {Nobody}
           /\ Owners = {RoomOwner} \ {Nobody}
           /\ RoomAdmins = {u \in Members : role[u] = "admin"}
           /\ Admins = Contract!Staff
<1>1. Outgoing = {}
  BY DEF OneAtATime, InTransfer, Outgoing
<1>2. Owners = {} \/ \E o \in Users : Owners = {o}
  BY AtMostOneOwner DEF SerialInv
<1>3. RoomOwner = OwnerAmong(Owners)
  BY <1>1 DEF RoomOwner
<1>4. Owners = {RoomOwner} \ {Nobody} /\ RoomOwner \in Users \cup {Nobody}
  BY <1>2, <1>3, OneAmong, MembershipAssumption
<1>5. RoomAdmins = {u \in Members : role[u] = "admin"}
  BY <1>1 DEF RoomAdmins
<1>6. Admins = {u \in Members : role[u] = "admin"} \cup Owners
  BY DEF Admins, Members, Owners
<1> QED BY <1>1, <1>4, <1>5, <1>6 DEF Contract!Staff

\* The same of the state after a step.
LEMMA RoomAtRestNext ==
    ASSUME OneAtATime, SerialInv', NEW r \in Requests, ~InTransfer(r)'
    PROVE  /\ Outgoing' = {} /\ RoomOwner' \in Users \cup {Nobody}
           /\ Owners' = {RoomOwner'} \ {Nobody}
           /\ RoomAdmins' = {u \in Members' : role'[u] = "admin"}
<1>1. Outgoing' = {}
  BY DEF OneAtATime, InTransfer, Outgoing
<1>2. Owners' = {} \/ \E o \in Users : Owners' = {o}
  BY DEF SerialInv, OwnerInv, InTransfer, OneAtATime
<1>3. RoomOwner' = OwnerAmong(Owners')
  BY <1>1 DEF RoomOwner
<1>4. Owners' = {RoomOwner'} \ {Nobody} /\ RoomOwner' \in Users \cup {Nobody}
  BY <1>2, <1>3, OneAmong, MembershipAssumption
<1>5. RoomAdmins' = {u \in Members' : role'[u] = "admin"}
  BY <1>1 DEF RoomAdmins
<1> QED BY <1>1, <1>4, <1>5

\* A step that writes none of what the contract is about leaves the room as it was.
LEMMA RoomUnchanged ==
    ASSUME OneAtATime, NEW r \in Requests, ~InTransfer(r), ~InTransfer(r)',
           UNCHANGED <<kind, visibility, role, managers, linkBy, revoked>>
    PROVE  UNCHANGED Contract!room
<1>1. Outgoing = {} /\ Outgoing' = {}
  BY DEF OneAtATime, InTransfer, Outgoing
<1>2. Owners' = Owners /\ Members' = Members /\ Open' = Open
      /\ (\E l \in Links : Live(l))' = (\E l \in Links : Live(l))
  BY DEF Owners, Members, Open, Live, Issued
<1>3. RoomOwner' = RoomOwner
  BY <1>1, <1>2 DEF RoomOwner
<1>4. RoomAdmins' = RoomAdmins
  BY <1>1, <1>2 DEF RoomAdmins
<1>5. RoomDoor' = RoomDoor
  BY <1>2 DEF RoomDoor
<1> QED BY <1>2, <1>3, <1>4, <1>5 DEF Contract!room

\* The door, when neither the links nor the visibility are written.
LEMMA DoorUnchanged ==
    ASSUME UNCHANGED <<kind, visibility, linkBy, revoked>>
    PROVE  RoomDoor' = RoomDoor
BY DEF RoomDoor, Open, Live, Issued

\* The call the contract sees.
LEMMA AskedFields ==
    ASSUME NEW r \in Requests
    PROVE  /\ RoomAsked[r] = Abstract(req[r])
           /\ RoomAsked[r].op = IF req[r].op \in LeaveOps THEN "RemoveMember" ELSE req[r].op
           /\ RoomAsked[r].actor = req[r].actor
           /\ req[r].op # "AddMembers" => RoomAsked[r].target = req[r].target
BY DEF RoomAsked, Abstract

\* A free slot serves no call.
LEMMA NoCallAtRest == Abstract(Blank) = Contract!NoCall
BY DEF Abstract, Blank, Contract!NoCall, LeaveOps

\* The call a request serves stays what it is until the request is over.
LEMMA CallKept ==
    ASSUME TypeOK, OneAtATime, NEW r \in Requests,
           req'[r] = Blank \/ Abstract(req'[r]) = Abstract(req[r])
    PROVE  Contract!Ends(r)
<1>1. \A s \in Requests : s = r
  BY DEF OneAtATime
<1>2. Abstract(Blank) = Contract!NoCall
  BY NoCallAtRest
<1>3. RoomAsked' = [s \in Requests |-> Abstract(req'[s])] /\ RoomAsked = [s \in Requests |-> Abstract(req[s])]
  BY DEF RoomAsked, Abstract
<1>4. CASE Abstract(req'[r]) = Abstract(req[r])
  <2>1. RoomAsked' = RoomAsked
    BY <1>1, <1>3, <1>4
  <2> QED BY <2>1 DEF Contract!Ends
<1>5. CASE req'[r] = Blank
  <2>1. RoomAsked' = [RoomAsked EXCEPT ![r] = Contract!NoCall]
    BY <1>1, <1>2, <1>3, <1>5
  <2> QED BY <2>1 DEF Contract!Ends
<1> QED BY <1>4, <1>5

\* What the contract does not see of a call.
LEMMA SameAbstract ==
    ASSUME NEW d, NEW c, d.op = c.op, d.actor = c.actor, d.target = c.target \/ c.op = "AddMembers"
    PROVE  Abstract(d) = Abstract(c)
BY DEF Abstract

\* A request that moves on, or ends.
LEMMA MovedEnds ==
    ASSUME TypeOK, OneAtATime, NEW r \in Requests, Done(r) \/ \E step : Goto(r, step)
    PROVE  Contract!Ends(r)
<1>1. CASE Done(r)
  BY <1>1, DoneBlank, CallKept
<1>2. ASSUME NEW step, Goto(r, step) PROVE Contract!Ends(r)
  <2>1. SameCall(req'[r], req[r])
    BY <1>2, GotoSame
  <2> QED BY <2>1, SameAbstract, CallKept DEF SameCall
<1> QED BY <1>1, <1>2

\* Of the steps only Begin changes what a request is about.
LEMMA StepEnds ==
    ASSUME TypeOK, OneAtATime, NEW r \in Requests, Step(r), ~Begin(r)
    PROVE  Contract!Ends(r)
<1> DEFINE c == req[r]
           d == req'[r]
<1>b. c \in Request
  BY DEF TypeOK
<1>1. CASE \/ Cancel(r) \/ Authorize(r) \/ Refuse(r) \/ CheckGrant(r) \/ CheckActor(r) \/ CountMembers(r)
           \/ AddSelf(r) \/ Remove(r) \/ WriteRole(r) \/ Promote(r) \/ Demote(r) \/ WriteInvite(r)
           \/ WriteMeta(r) \/ WriteGrant(r) \/ DeleteAccount(r) \/ DeleteBotRecord(r) \/ DeleteBotUser(r)
  <2>1. Done(r) \/ \E step : Goto(r, step)
    BY <1>1 DEF Cancel, Authorize, Refuse, CheckGrant, CheckActor, CountMembers, AddSelf, Remove, WriteRole,
       Promote, Demote, WriteInvite, WriteMeta, WriteGrant, DeleteAccount, DeleteBotRecord, DeleteBotUser
  <2> QED BY <2>1, MovedEnds
<1>2. CASE CheckTarget(r)
  <2>1. CASE Done(r)
    BY <2>1, MovedEnds
  <2>2. CASE Becomes(r, [c EXCEPT !.op = "LeaveRoom"]) /\ c.op = "RemoveMember"
    <3>1. d.op = "LeaveRoom" /\ d.actor = c.actor /\ d.target = c.target
      BY <1>b, <2>2 DEF Becomes, TypeOK, Request, Fields
    <3>2. Abstract(d) = Abstract(c)
      BY <2>2, <3>1 DEF Abstract, LeaveOps
    <3> QED BY <3>2, CallKept
  <2>3. CASE \E step, seen : Becomes(r, [c EXCEPT !.pc = step, !.seen = seen])
    <3>1. d.op = c.op /\ d.actor = c.actor /\ d.target = c.target
      BY <1>b, <2>3 DEF Becomes, TypeOK, Request, Fields
    <3> QED BY <3>1, SameAbstract, CallKept
  <2> QED BY <1>2, <2>1, <2>2, <2>3 DEF CheckTarget
<1>3. CASE AddNext(r)
  <2>1. PICK u \in c.todo :
          \/ Done(r)
          \/ Becomes(r, [c EXCEPT !.todo = @ \ {u}])
          \/ Becomes(r, [c EXCEPT !.todo = @ \ {u}, !.target = u, !.pc = "audience"])
    BY <1>3 DEF AddNext, Done
  <2>2. CASE ~Done(r)
    <3>1. d.op = c.op /\ d.actor = c.actor
      <4>1. CASE Becomes(r, [c EXCEPT !.todo = @ \ {u}])
        BY <1>b, <4>1 DEF Becomes, TypeOK, Request, Fields
      <4>2. CASE Becomes(r, [c EXCEPT !.todo = @ \ {u}, !.target = u, !.pc = "audience"])
        BY <1>b, <4>2 DEF Becomes, TypeOK, Request, Fields
      <4> QED BY <2>1, <2>2, <4>1, <4>2
    <3>2. c.op = "AddMembers"
      BY <1>3 DEF AddNext, At
    <3> QED BY <3>1, <3>2, SameAbstract, CallKept
  <2> QED BY <2>2, MovedEnds
<1>4. CASE ReadAudience(r)
  <2>1. \E to, step : Becomes(r, [c EXCEPT !.to = to, !.pc = step])
    BY <1>4 DEF ReadAudience
  <2>2. d.op = c.op /\ d.actor = c.actor /\ d.target = c.target
    BY <1>b, <2>1 DEF Becomes, TypeOK, Request, Fields
  <2> QED BY <2>2, SameAbstract, CallKept
<1>5. CASE Publish(r)
  <2>1. Done(r) \/ Becomes(r, [c EXCEPT !.pc = "add", !.to = {}])
    BY <1>5 DEF Publish, Done
  <2>2. CASE Becomes(r, [c EXCEPT !.pc = "add", !.to = {}])
    <3>1. d.op = c.op /\ d.actor = c.actor /\ d.target = c.target
      BY <1>b, <2>2 DEF Becomes, TypeOK, Request, Fields
    <3> QED BY <3>1, SameAbstract, CallKept
  <2> QED BY <2>1, <2>2, MovedEnds
<1> QED BY <1>1, <1>2, <1>3, <1>4, <1>5 DEF Step

-----------------------------------------------------------------------------
(* Each write is one effect                                                *)

\* A request arrives.
LEMMA BeginAsks ==
    ASSUME TypeOK, OneAtATime, NEW r \in Requests, Begin(r)
    PROVE  Contract!Ask(r)
<1> DEFINE d == req'[r]
<1>1. PICK op \in Operations, actor \in accounts :
        \E target \in TargetsOf(op, actor), arg \in ArgsOf(op), todo \in BatchesOf(op),
           link \in LinksOf(op) :
          Becomes(r, Call(op, actor, target, arg, todo, link))
  BY DEF Begin
<1>2. PICK target \in TargetsOf(op, actor), arg \in ArgsOf(op), todo \in BatchesOf(op),
           link \in LinksOf(op) :
        Becomes(r, Call(op, actor, target, arg, todo, link))
  BY <1>1
<1>3. d.op = op /\ d.actor = actor /\ d.target = target /\ d.pc = FirstStep(op)
  BY <1>2 DEF Becomes, Call, Blank, TypeOK
<1>4. op \in Ops /\ actor \in Users /\ target \in Users \cup {Nobody}
  BY OperationsAssumption, MembershipAssumption DEF TypeOK, TargetsOf
<1>5. Abstract(d) \in Contract!Calls
  BY <1>3, <1>4 DEF Abstract, Contract!Calls, Ops, OwnerOps, AdminOps, JoinOps, LeaveOps, DeleteOps
<1>6. RoomAsked' = [RoomAsked EXCEPT ![r] = Abstract(d)]
  <2>1. RoomAsked' = [s \in Requests |-> Abstract(req'[s])]
    BY DEF RoomAsked, Abstract
  <2>2. \A s \in Requests : s = r
    BY DEF OneAtATime
  <2> QED BY <2>1, <2>2 DEF RoomAsked
<1>7. RoomAsked[r] = Contract!NoCall
  BY AskedFields, NoCallAtRest DEF Begin
<1>8. UNCHANGED Contract!room
  <2>1. ~InTransfer(r) /\ ~InTransfer(r)'
    <3>1. d.pc # "demote"
      BY <1>3 DEF FirstStep
    <3> QED BY <3>1, BlankFields DEF InTransfer, At, Begin
  <2> QED BY <2>1, RoomUnchanged DEF Begin, ReadOnly, store
<1> QED BY <1>5, <1>6, <1>7, <1>8 DEF Contract!Ask

\* A row that is added changes only who is in.
LEMMA AddedRoom ==
    ASSUME TypeOK, OneAtATime, SerialInv, SerialInv', NEW r \in Requests, ~InTransfer(r), ~InTransfer(r)',
           NEW u \in Users \ Members, role' = [role EXCEPT ![u] = "member"],
           UNCHANGED <<kind, visibility, managers, linkBy, revoked>>
    PROVE  Members' = Members \cup {u} /\ UNCHANGED <<RoomOwner, RoomAdmins, managers, RoomDoor>>
<1>1. Members' = Members \cup {u} /\ Owners' = Owners
  BY AddedMember
<1>2. RoomOwner' = RoomOwner
  BY <1>1, RoomAtRest, RoomAtRestNext DEF RoomOwner
<1>3. {v \in Members' : role'[v] = "admin"} = {v \in Members : role[v] = "admin"}
  BY <1>1 DEF TypeOK, Members
<1>4. RoomAdmins' = RoomAdmins
  BY <1>3, RoomAtRest, RoomAtRestNext
<1> QED BY <1>1, <1>2, <1>4, DoorUnchanged

\* AddMembers, for one username.
LEMMA AddNextAdds ==
    ASSUME TypeOK, TypeOK', OneAtATime, SerialInv, SerialInv', NEW r \in Requests, AddNext(r)
    PROVE  UNCHANGED Contract!room \/ Contract!Add(r)
<1> DEFINE c == req[r]
           d == req'[r]
<1>b. c \in Request /\ c.todo \subseteq Users
  BY FieldTypes DEF TypeOK
<1>1. c.op = "AddMembers" /\ c.pc = "add"
      /\ UNCHANGED <<kind, visibility, managers, bots, accounts, linkBy, revoked>>
  BY DEF AddNext, At
<1>2. c.actor \in Admins \cup managers
  BY <1>1 DEF SerialInv, Standing
<1>3. PICK u \in c.todo :
        \/ Done(r) /\ UNCHANGED role
        \/ Becomes(r, [c EXCEPT !.todo = @ \ {u}]) /\ UNCHANGED role
        \/ /\ u \in accounts \ Members
           /\ role' = [role EXCEPT ![u] = "member"]
           /\ Becomes(r, [c EXCEPT !.todo = @ \ {u}, !.target = u, !.pc = "audience"])
  BY DEF AddNext, Done
<1>4. d.pc # "demote"
  <2>1. CASE Becomes(r, [c EXCEPT !.todo = @ \ {u}])
    BY <1>b, <1>1, <2>1 DEF Becomes, TypeOK, Request, Fields
  <2>2. CASE Becomes(r, [c EXCEPT !.todo = @ \ {u}, !.target = u, !.pc = "audience"])
    BY <1>b, <2>2 DEF Becomes, TypeOK, Request, Fields
  <2> QED BY <1>3, <2>1, <2>2, DoneBlank
<1>5. ~InTransfer(r) /\ ~InTransfer(r)'
  BY <1>1, <1>4 DEF InTransfer, At
<1>6. CASE UNCHANGED role
  BY <1>1, <1>5, <1>6, RoomUnchanged
<1>7. CASE /\ u \in accounts \ Members
           /\ role' = [role EXCEPT ![u] = "member"]
           /\ Becomes(r, [c EXCEPT !.todo = @ \ {u}, !.target = u, !.pc = "audience"])
  <2>1. u \in Users \ Members
    BY <1>b, <1>7
  <2>2. Members' = Members \cup {u} /\ UNCHANGED <<RoomOwner, RoomAdmins, managers, RoomDoor>>
    BY <1>1, <1>5, <1>7, <2>1, AddedRoom
  <2>3. d.op = "AddMembers" /\ d.pc = "audience" /\ d.todo \subseteq Users
    BY <1>b, <1>1, <1>7 DEF Becomes, TypeOK, Request, Fields
  <2>4. Contract!Cardinality(Members') <= MaxRoomMembers
    <3>1. Cardinality(Members') + Cardinality(d.todo) <= MaxRoomMembers
      BY <2>3 DEF SerialInv, Standing
    <3>2. Cardinality(Members') \in Nat /\ Cardinality(d.todo) \in Nat
      BY <2>3, FS_Subset, FS_CardinalityType, MembershipAssumption DEF Members
    <3> QED BY <3>1, <3>2, MembershipAssumption, ContractCardinality
  <2>5. RoomAsked[r].op = "AddMembers" /\ RoomAsked[r].actor = c.actor
    BY <1>1, AskedFields DEF LeaveOps
  <2>6. c.actor \in Contract!Staff \cup managers
    BY <1>2, <1>5, RoomAtRest
  <2> QED BY <2>1, <2>2, <2>4, <2>5, <2>6 DEF Contract!Add
<1> QED BY <1>3, <1>6, <1>7

\* JoinInvite, JoinChannel, and GrantBot's membership.
LEMMA AddSelfEnters ==
    ASSUME TypeOK, OneAtATime, SerialInv, SerialInv', NEW r \in Requests, AddSelf(r)
    PROVE  UNCHANGED Contract!room \/ Contract!Enter(r) \/ Contract!AdmitBot(r)
<1> DEFINE c == req[r]
           d == req'[r]
<1>1. c.op \in JoinOps \cup {"GrantBot"} /\ c.pc = "add"
      /\ UNCHANGED <<kind, visibility, managers, bots, accounts, linkBy, revoked>>
  BY DEF AddSelf, At
<1>2. c.op \in JoinOps => c.target = c.actor /\ RoomDoor
  BY <1>1 DEF SerialInv, Standing, JoinOps
<1>3. c.op = "GrantBot" => c.actor \in Admins
  BY <1>1 DEF SerialInv, Standing, AdminOps
<1>4. d.pc # "demote"
  BY DoneBlank, GotoSame DEF AddSelf
<1>5. ~InTransfer(r) /\ ~InTransfer(r)'
  BY <1>1, <1>4 DEF InTransfer, At
<1>6. CASE UNCHANGED role
  BY <1>1, <1>5, <1>6, RoomUnchanged
<1>7. CASE c.target \in accounts \ Members
  <2>1. c.target \in Users \ Members /\ role' = [role EXCEPT ![c.target] = "member"]
    BY <1>7 DEF AddSelf, TypeOK
  <2>2. Members' = Members \cup {c.target} /\ UNCHANGED <<RoomOwner, RoomAdmins, managers, RoomDoor>>
    BY <1>1, <1>5, <2>1, AddedRoom
  <2>3. RoomAsked[r].op = c.op /\ RoomAsked[r].actor = c.actor /\ RoomAsked[r].target = c.target
    BY <1>1, AskedFields DEF LeaveOps, JoinOps
  <2>4. CASE c.op \in JoinOps
    BY <1>2, <2>2, <2>3, <2>4 DEF Contract!Enter, JoinOps
  <2>5. CASE c.op = "GrantBot"
    <3>1. c.actor \in Contract!Staff
      BY <1>3, <1>5, <2>5, RoomAtRest
    <3> QED BY <2>2, <2>3, <2>5, <3>1 DEF Contract!AdmitBot
  <2> QED BY <1>1, <2>4, <2>5
<1> QED BY <1>6, <1>7 DEF AddSelf

\* LeaveRoom and RemoveMember: the checks were made of the roles that still stand.
LEMMA RemoveRemoves ==
    ASSUME TypeOK, OneAtATime, SerialInv, SerialInv', NEW r \in Requests, Remove(r)
    PROVE  Contract!Remove(r)
<1> DEFINE c == req[r]
           d == req'[r]
<1>1. c.op \in LeaveOps /\ c.pc = "remove" /\ role' = [role EXCEPT ![c.target] = "none"]
      /\ UNCHANGED <<kind, visibility, managers, bots, accounts, linkBy, revoked>>
  BY DEF Remove, At
<1>2. /\ c.target \in Members \ Owners
      /\ c.op = "RemoveMember" => MayRemove(c)
      /\ c.op = "LeaveRoom" => c.target = c.actor
  BY <1>1 DEF SerialInv, Standing
<1>3. d.pc # "demote"
  BY DoneBlank, GotoSame DEF Remove
<1>4. ~InTransfer(r) /\ ~InTransfer(r)'
  BY <1>1, <1>3 DEF InTransfer, At, LeaveOps
<1>5. /\ Outgoing = {} /\ RoomOwner \in Users \cup {Nobody}
      /\ Owners = {RoomOwner} \ {Nobody}
      /\ RoomAdmins = {u \in Members : role[u] = "admin"}
      /\ Admins = Contract!Staff
  BY <1>4, RoomAtRest
<1>6. Members' = Members \ {c.target} /\ Owners' = Owners
      /\ {u \in Members' : role'[u] = "admin"} = {u \in Members : role[u] = "admin"} \ {c.target}
  BY <1>1, <1>2 DEF TypeOK, Members, Owners
<1>7. RoomAdmins' = RoomAdmins \ {c.target}
  BY <1>4, <1>5, <1>6, RoomAtRestNext
<1>8. RoomOwner' = RoomOwner
  BY <1>4, <1>5, <1>6, RoomAtRestNext DEF RoomOwner
<1>9. RoomDoor' = RoomDoor
  BY <1>1, DoorUnchanged
<1>10. RoomAsked[r].op = "RemoveMember" /\ RoomAsked[r].actor = c.actor /\ RoomAsked[r].target = c.target
  BY <1>1, AskedFields DEF LeaveOps
<1>11. c.target \in Members \ {RoomOwner}
  BY <1>2, <1>5, MembershipAssumption DEF Members
<1>12. \/ c.actor = c.target
       \/ c.actor = RoomOwner
       \/ c.actor \in RoomAdmins \cup (managers \cap Members) /\ c.target \in Contract!Plain
  <2>1. CASE c.op = "LeaveRoom"
    BY <1>2, <2>1
  <2>2. CASE c.actor \in Owners
    BY <1>5, <2>2
  <2>3. CASE /\ role[c.target] = "member" /\ c.actor \in Members
             /\ role[c.actor] = "admin" \/ c.actor \in managers
    <3>1. c.target \notin Admins
      BY <2>3 DEF Admins
    <3> QED BY <1>2, <1>5, <2>3, <3>1 DEF Contract!Plain
  <2> QED BY <1>1, <1>2, <2>1, <2>2, <2>3 DEF MayRemove, LeaveOps
<1> QED BY <1>1, <1>6, <1>7, <1>8, <1>9, <1>10, <1>11, <1>12 DEF Contract!Remove

\* SetMemberRole.
LEMMA WriteRoleAppoints ==
    ASSUME TypeOK, OneAtATime, SerialInv, SerialInv', NEW r \in Requests, WriteRole(r)
    PROVE  Contract!Appoint(r)
<1> DEFINE c == req[r]
           d == req'[r]
<1>1. c.op = "SetMemberRole" /\ c.pc = "write"
      /\ UNCHANGED <<kind, visibility, managers, bots, accounts, linkBy, revoked>>
  BY DEF WriteRole, At
<1>2. c.actor \in Owners /\ c.target \in Members \ Owners /\ c.arg \in {"admin", "member"}
  BY <1>1, FieldTypes DEF SerialInv, Standing, ArgsOf, TypeOK
<1>3. d.pc # "demote"
  BY DoneBlank, GotoSame DEF WriteRole
<1>4. ~InTransfer(r) /\ ~InTransfer(r)'
  BY <1>1, <1>3 DEF InTransfer, At
<1>5. /\ RoomOwner \in Users \cup {Nobody} /\ Owners = {RoomOwner} \ {Nobody}
      /\ RoomAdmins = {u \in Members : role[u] = "admin"}
  BY <1>4, RoomAtRest
<1>6. role' = [role EXCEPT ![c.target] = c.arg]
  BY <1>2 DEF WriteRole, SetRole
<1>7. Members' = Members /\ Owners' = Owners
  BY <1>2, <1>6 DEF TypeOK, Members, Owners
<1>8. {u \in Members : role'[u] = "admin"} \in
        {{u \in Members : role[u] = "admin"} \cup {c.target}, {u \in Members : role[u] = "admin"} \ {c.target}}
  <2>1. CASE c.arg = "admin"
    BY <1>2, <1>6, <2>1 DEF TypeOK, Members
  <2>2. CASE c.arg = "member"
    BY <1>2, <1>6, <2>2 DEF TypeOK, Members
  <2> QED BY <1>2, <2>1, <2>2
<1>9. RoomAdmins' \in {RoomAdmins \cup {c.target}, RoomAdmins \ {c.target}}
  BY <1>4, <1>5, <1>7, <1>8, RoomAtRestNext
<1>10. RoomOwner' = RoomOwner
  BY <1>4, <1>5, <1>7, RoomAtRestNext
<1>11. RoomAsked[r].op = "SetMemberRole" /\ RoomAsked[r].actor = c.actor /\ RoomAsked[r].target = c.target
  BY <1>1, AskedFields DEF LeaveOps
<1>12. c.actor = RoomOwner /\ c.target \in Members \ {RoomOwner}
  BY <1>2, <1>5, MembershipAssumption DEF Members
<1> QED BY <1>1, <1>7, <1>9, <1>10, <1>11, <1>12, DoorUnchanged DEF Contract!Appoint

\* The first write of a transfer is its effect: the target counts as the owner from then on.
LEMMA PromoteTransfers ==
    ASSUME TypeOK, OneAtATime, SerialInv, SerialInv', NEW r \in Requests, Promote(r),
           req[r].target # req[r].actor
    PROVE  Contract!Transfer(r)
<1> DEFINE c == req[r]
           d == req'[r]
<1>1. c.op = "TransferOwnership" /\ c.pc = "promote"
      /\ UNCHANGED <<kind, visibility, managers, bots, accounts, linkBy, revoked>>
  BY DEF Promote, At
<1>2. c.actor \in Owners /\ c.target \in Members /\ c.target # c.actor
  BY <1>1 DEF SerialInv, Standing
<1>3. ~InTransfer(r)
  BY <1>1 DEF InTransfer, At
<1>4. /\ RoomOwner \in Users \cup {Nobody} /\ Owners = {RoomOwner} \ {Nobody}
      /\ RoomAdmins = {u \in Members : role[u] = "admin"}
  BY <1>3, RoomAtRest
<1>5. c.actor = RoomOwner /\ Owners = {c.actor} /\ c.target \in Members \ {RoomOwner}
  BY <1>2, <1>4
<1>6. role' = [role EXCEPT ![c.target] = "owner"]
  BY <1>2 DEF Promote, SetRole
<1>7. Members' = Members /\ Owners' = {c.actor, c.target}
      /\ {u \in Members : role'[u] = "admin"} = {u \in Members : role[u] = "admin"} \ {c.target}
  BY <1>2, <1>5, <1>6 DEF TypeOK, Members, Owners
<1>8. d.op = "TransferOwnership" /\ d.pc = "demote" /\ d.actor = c.actor /\ d.target = c.target
  BY <1>1, <1>2, GotoSame DEF Promote, SameCall
<1>9. Outgoing' = {c.actor}
  BY <1>2, <1>8 DEF Outgoing, InTransfer, Resigning, At, OneAtATime
<1>10. RoomOwner' = c.target
  <2>1. Owners' \ Outgoing' = {c.target}
    BY <1>2, <1>7, <1>9
  <2> QED BY <2>1, OneAmong DEF RoomOwner
<1>11. RoomAdmins' = {u \in Members' : role'[u] = "admin"} \cup (Outgoing' \cap Members')
  BY DEF RoomAdmins
<1>12. RoomAdmins' = (RoomAdmins \cup {RoomOwner}) \ {c.target}
  <2>1. c.actor \in Members
    BY <1>2 DEF Owners, Members
  <2> QED BY <1>2, <1>4, <1>5, <1>7, <1>9, <1>11, <2>1
<1>13. RoomAsked[r].op = "TransferOwnership" /\ RoomAsked[r].actor = c.actor /\ RoomAsked[r].target = c.target
  BY <1>1, AskedFields DEF LeaveOps
<1> QED BY <1>1, <1>5, <1>7, <1>10, <1>12, <1>13, DoorUnchanged DEF Contract!Transfer

\* The owner that names itself has the role already, and nothing is on its way to anybody else.
LEMMA PromoteSelfKeeps ==
    ASSUME TypeOK, OneAtATime, SerialInv, NEW r \in Requests, Promote(r), req[r].target = req[r].actor
    PROVE  UNCHANGED Contract!room
<1> DEFINE c == req[r]
           d == req'[r]
<1>1. c.op = "TransferOwnership" /\ c.pc = "promote"
      /\ UNCHANGED <<kind, visibility, managers, bots, accounts, linkBy, revoked>>
  BY DEF Promote, At
<1>2. c.actor \in Owners /\ c.target \in Members
  BY <1>1 DEF SerialInv, Standing
<1>3. role[c.target] = "owner" /\ role' = [role EXCEPT ![c.target] = "owner"]
  BY <1>2 DEF Promote, SetRole, Owners
<1>4. UNCHANGED role
  BY <1>3 DEF TypeOK
<1>5. d.op = c.op /\ d.pc = "demote" /\ d.actor = c.actor /\ d.target = c.target
  BY <1>2, GotoSame DEF Promote, SameCall
<1>6. ~InTransfer(r) /\ ~InTransfer(r)'
  BY <1>1, <1>5 DEF InTransfer, Resigning, At
<1> QED BY <1>1, <1>4, <1>6, RoomUnchanged

\* The second write changes nothing the contract still sees.
LEMMA DemoteFinishes ==
    ASSUME TypeOK, OneAtATime, SerialInv, SerialInv', NEW r \in Requests, Demote(r),
           req[r].target # req[r].actor
    PROVE  UNCHANGED Contract!room
<1> DEFINE c == req[r]
           d == req'[r]
<1>1. c.op = "TransferOwnership" /\ c.pc = "demote"
      /\ UNCHANGED <<kind, visibility, managers, bots, accounts, linkBy, revoked>>
  BY DEF Demote, At
<1>2. c.actor \in Owners /\ c.target \in Owners /\ c.target # c.actor
  BY <1>1 DEF SerialInv, Standing
<1>3. Owners = {c.actor, c.target}
  BY <1>2 DEF SerialInv, OwnerInv, OneAtATime
<1>4. Outgoing = {c.actor}
  BY <1>1, <1>2 DEF Outgoing, InTransfer, Resigning, At, OneAtATime
<1>5. RoomOwner = c.target
  <2>1. Owners \ Outgoing = {c.target}
    BY <1>2, <1>3, <1>4
  <2> QED BY <2>1, OneAmong DEF RoomOwner
<1>6. role' = [role EXCEPT ![c.actor] = "admin"]
  BY <1>2 DEF Demote, SetRole, Owners, Members
<1>7. Members' = Members /\ Owners' = {c.target} /\ c.actor \in Members
      /\ {u \in Members : role'[u] = "admin"} = {u \in Members : role[u] = "admin"} \cup {c.actor}
  BY <1>2, <1>3, <1>6 DEF TypeOK, Members, Owners
<1>8. ~InTransfer(r)'
  BY DoneBlank DEF Demote, InTransfer, At
<1>9. /\ Outgoing' = {} /\ RoomOwner' \in Users \cup {Nobody}
      /\ Owners' = {RoomOwner'} \ {Nobody}
      /\ RoomAdmins' = {u \in Members' : role'[u] = "admin"}
  BY <1>8, RoomAtRestNext
<1>10. RoomOwner' = RoomOwner
  BY <1>5, <1>7, <1>9
<1>11. RoomAdmins = {u \in Members : role[u] = "admin"} \cup {c.actor}
  BY <1>4, <1>7 DEF RoomAdmins
<1>12. RoomAdmins' = RoomAdmins
  BY <1>7, <1>9, <1>11
<1> QED BY <1>1, <1>7, <1>10, <1>12, DoorUnchanged DEF Contract!room

\* The owner that named itself is an admin after the second write, and nobody is the owner.
LEMMA DemoteSelfResigns ==
    ASSUME TypeOK, OneAtATime, SerialInv, SerialInv', NEW r \in Requests, Demote(r),
           req[r].target = req[r].actor
    PROVE  Contract!Resign(r)
<1> DEFINE c == req[r]
<1>1. c.op = "TransferOwnership" /\ c.pc = "demote"
      /\ UNCHANGED <<kind, visibility, managers, bots, accounts, linkBy, revoked>>
  BY DEF Demote, At
<1>2. c.actor \in Owners
  BY <1>1 DEF SerialInv, Standing
<1>3. ~InTransfer(r) /\ ~InTransfer(r)'
  BY <1>1, DoneBlank DEF Demote, InTransfer, Resigning, At
<1>4. /\ RoomOwner \in Users \cup {Nobody} /\ Owners = {RoomOwner} \ {Nobody}
      /\ RoomAdmins = {u \in Members : role[u] = "admin"}
  BY <1>3, RoomAtRest
<1>5. /\ RoomOwner' \in Users \cup {Nobody} /\ Owners' = {RoomOwner'} \ {Nobody}
      /\ RoomAdmins' = {u \in Members' : role'[u] = "admin"}
  BY <1>3, RoomAtRestNext
<1>6. c.actor = RoomOwner /\ Owners = {c.actor} /\ c.actor \in Users
  BY <1>2, <1>4 DEF Owners
<1>7. role' = [role EXCEPT ![c.actor] = "admin"]
  BY <1>2 DEF Demote, SetRole, Owners, Members
<1>8. Members' = Members /\ Owners' = {} /\ c.actor \in Members
      /\ {u \in Members : role'[u] = "admin"} = {u \in Members : role[u] = "admin"} \cup {c.actor}
  BY <1>2, <1>6, <1>7 DEF TypeOK, Members, Owners
<1>9. RoomOwner' = Nobody
  BY <1>5, <1>8
<1>10. RoomAdmins' = RoomAdmins \cup {RoomOwner}
  BY <1>4, <1>5, <1>6, <1>8
<1>11. RoomAsked[r].op = "TransferOwnership" /\ RoomAsked[r].actor = c.actor /\ RoomAsked[r].target = c.target
  BY <1>1, AskedFields DEF LeaveOps
<1> QED BY <1>1, <1>6, <1>8, <1>9, <1>10, <1>11, DoorUnchanged DEF Contract!Resign

\* Invites, the visibility and a bot's grant.
LEMMA StaffWrites ==
    ASSUME TypeOK, OneAtATime, SerialInv, SerialInv', NEW r \in Requests,
           WriteInvite(r) \/ WriteMeta(r) \/ WriteGrant(r)
    PROVE  Contract!SetDoor(r) \/ Contract!GrantManager(r)
<1> DEFINE c == req[r]
<1>1. c.op \in {"CreateInvite", "RevokeInvite", "UpdateRoom", "GrantBot"} /\ c.pc = "write"
      /\ UNCHANGED <<kind, role>> /\ Done(r)
  BY DEF WriteInvite, WriteMeta, WriteGrant, At
<1>2. c.actor \in Admins
  BY <1>1 DEF SerialInv, Standing, AdminOps
<1>3. ~InTransfer(r) /\ ~InTransfer(r)'
  BY <1>1, DoneBlank DEF InTransfer, At
<1>4. c.actor \in Contract!Staff
  BY <1>2, <1>3, RoomAtRest
<1>5. Members' = Members /\ Owners' = Owners
  BY <1>1 DEF Members, Owners
<1>6. RoomOwner' = RoomOwner
  BY <1>3, <1>5, RoomAtRest, RoomAtRestNext DEF RoomOwner
<1>7. RoomAdmins' = RoomAdmins
  BY <1>1, <1>3, <1>5, RoomAtRest, RoomAtRestNext
<1>8. RoomAsked[r].op = c.op /\ RoomAsked[r].actor = c.actor /\ RoomAsked[r].target = c.target
  BY <1>1, AskedFields DEF LeaveOps
<1>9. CASE WriteInvite(r) \/ WriteMeta(r)
  <2>1. c.op \in {"CreateInvite", "RevokeInvite", "UpdateRoom"} /\ UNCHANGED managers
    BY <1>9 DEF WriteInvite, WriteMeta, At
  <2>2. RoomDoor' \in BOOLEAN
    BY DEF RoomDoor
  <2> QED BY <1>4, <1>5, <1>6, <1>7, <1>8, <2>1, <2>2 DEF Contract!SetDoor
<1>10. CASE WriteGrant(r)
  <2>1. c.op = "GrantBot" /\ managers' \in {managers \cup {c.target}, managers \ {c.target}}
        /\ UNCHANGED <<kind, visibility, linkBy, revoked>>
    BY <1>10 DEF WriteGrant, At
  <2> QED BY <1>4, <1>5, <1>6, <1>7, <1>8, <2>1, DoorUnchanged DEF Contract!GrantManager
<1> QED BY <1>9, <1>10

\* A user row goes, with its membership and its invites.
LEMMA DeleteErases ==
    ASSUME TypeOK, OneAtATime, SerialInv, SerialInv', NEW r \in Requests,
           DeleteAccount(r) \/ DeleteBotUser(r)
    PROVE  Contract!Erase(r)
<1> DEFINE c == req[r]
           t == c.target
<1>1. c.op \in {"DeleteAccount", "DeleteBot"} /\ Done(r) /\ UNCHANGED <<kind, visibility, managers>>
  BY DEF DeleteAccount, DeleteBotUser, At
<1>2. c.op = "DeleteAccount" => t = c.actor
  BY DEF SerialInv, Standing
<1>3. EraseUser(t)
  BY <1>2 DEF DeleteAccount, DeleteBotUser, At
<1>4. ~InTransfer(r) /\ ~InTransfer(r)'
  BY <1>1, DoneBlank DEF InTransfer, At
<1>5. /\ RoomOwner \in Users \cup {Nobody} /\ Owners = {RoomOwner} \ {Nobody}
      /\ RoomAdmins = {u \in Members : role[u] = "admin"}
  BY <1>4, RoomAtRest
<1>6. /\ RoomOwner' \in Users \cup {Nobody} /\ Owners' = {RoomOwner'} \ {Nobody}
      /\ RoomAdmins' = {u \in Members' : role'[u] = "admin"}
  BY <1>4, RoomAtRestNext
<1>7. Members' = Members \ {t} /\ Owners' = Owners \ {t}
      /\ {u \in Members' : role'[u] = "admin"} = {u \in Members : role[u] = "admin"} \ {t}
  BY <1>3 DEF EraseUser, TypeOK, Members, Owners
<1>8. RoomOwner' = IF RoomOwner = t THEN Nobody ELSE RoomOwner
  BY <1>5, <1>6, <1>7
<1>9. RoomAdmins' = RoomAdmins \ {t}
  BY <1>5, <1>6, <1>7
<1>10. RoomDoor' \in {RoomDoor, FALSE}
  <2>1. Open' = Open
    BY <1>1 DEF Open
  <2>2. ASSUME NEW l \in Links, Live(l)' PROVE Live(l)
    BY <1>3, <2>2 DEF EraseUser, Live, Issued
  <2>3. RoomDoor' => RoomDoor
    BY <2>1, <2>2 DEF RoomDoor
  <2>4. RoomDoor \in BOOLEAN /\ RoomDoor' \in BOOLEAN
    BY DEF RoomDoor
  <2> QED BY <2>3, <2>4
<1>11. RoomAsked[r].op = c.op /\ RoomAsked[r].target = t
  BY <1>1, AskedFields DEF LeaveOps
<1> QED BY <1>1, <1>7, <1>8, <1>9, <1>10, <1>11 DEF Contract!Erase

\* A bot's grants go before its user row.
LEMMA DeleteDropsGrant ==
    ASSUME TypeOK, OneAtATime, NEW r \in Requests, DeleteBotRecord(r)
    PROVE  Contract!DropGrant(r)
<1>1. req[r].op = "DeleteBot" /\ req[r].pc = "write"
      /\ UNCHANGED <<kind, visibility, role, linkBy, revoked>>
      /\ managers' = managers \ {req[r].target}
  BY DEF DeleteBotRecord, At
<1>2. req'[r].pc # "demote"
  BY DoneBlank, GotoSame DEF DeleteBotRecord
<1>3. Outgoing = {} /\ Outgoing' = {}
  BY <1>1, <1>2 DEF OneAtATime, Outgoing, InTransfer, At
<1>4. Owners' = Owners /\ Members' = Members
  BY <1>1 DEF Owners, Members
<1>5. RoomOwner' = RoomOwner
  BY <1>3, <1>4 DEF RoomOwner
<1>6. RoomAdmins' = RoomAdmins
  BY <1>1, <1>3, <1>4 DEF RoomAdmins
<1>7. RoomAsked[r].op = "DeleteBot" /\ RoomAsked[r].target = req[r].target
  BY <1>1, AskedFields DEF LeaveOps
<1> QED BY <1>1, <1>4, <1>5, <1>6, <1>7, DoorUnchanged DEF Contract!DropGrant

\* Reading and publishing change nothing in the room.
LEMMA ReadsKeepRoom ==
    ASSUME TypeOK, OneAtATime, SerialInv, NEW r \in Requests,
           \/ Cancel(r) \/ Authorize(r) \/ Refuse(r) \/ CheckGrant(r) \/ CheckTarget(r)
           \/ CheckActor(r) \/ CountMembers(r) \/ ReadAudience(r) \/ Publish(r)
    PROVE  UNCHANGED Contract!room
<1> DEFINE c == req[r]
           d == req'[r]
<1>1. UNCHANGED <<kind, visibility, role, managers, linkBy, revoked>>
  BY DEF Cancel, Authorize, Refuse, CheckGrant, CheckTarget, CheckActor, CountMembers, ReadAudience,
     Publish, ReadOnly, store
<1>2. c \in Request
  BY DEF TypeOK
<1>3. ~InTransfer(r)
  BY DEF InTransfer, At, Cancel, OneAtATime, Authorize, Refuse, CheckGrant, CheckTarget, CheckActor,
     CountMembers, ReadAudience, Publish
<1>4. d.pc # "demote"
  <2>1. CASE Authorize(r) \/ Refuse(r) \/ CheckGrant(r) \/ CheckActor(r) \/ CountMembers(r) \/ Cancel(r)
    <3>1. Done(r) \/ \E step \in {"count", "target", "add", "write", "grant", "audience"} : Goto(r, step)
      BY <2>1 DEF Authorize, Refuse, CheckGrant, CheckActor, CountMembers, Cancel, AfterAuth
    <3> QED BY <3>1, DoneBlank, GotoSame
  <2>2. CASE CheckTarget(r)
    <3>1. CASE Becomes(r, [c EXCEPT !.op = "LeaveRoom"])
      BY <1>2, <2>2, <3>1 DEF Becomes, CheckTarget, At, TypeOK, Request, Fields
    <3>2. CASE \E seen : Becomes(r, [c EXCEPT !.pc = AfterTarget(c), !.seen = seen])
      <4>1. d.pc = AfterTarget(c)
        BY <1>2, <3>2 DEF Becomes, TypeOK, Request, Fields
      <4> QED BY <4>1 DEF AfterTarget
    <3> QED BY <2>2, <3>1, <3>2, DoneBlank DEF CheckTarget
  <2>3. CASE ReadAudience(r)
    <3>1. \E to, step : Becomes(r, [c EXCEPT !.to = to, !.pc = step]) /\ step \in {"remove", "publish"}
      BY <2>3 DEF ReadAudience
    <3> QED BY <1>2, <3>1 DEF Becomes, TypeOK, Request, Fields
  <2>4. CASE Publish(r)
    <3>1. CASE Becomes(r, [c EXCEPT !.pc = "add", !.to = {}])
      BY <1>2, <3>1 DEF Becomes, TypeOK, Request, Fields
    <3> QED BY <2>4, <3>1, DoneBlank DEF Publish, Done
  <2> QED BY <2>1, <2>2, <2>3, <2>4
<1> QED BY <1>1, <1>3, <1>4, RoomUnchanged DEF InTransfer, At

-----------------------------------------------------------------------------
(* The refinement                                                          *)

\* A conversation that was just created is one of the contract's.
LEMMA ContractInit == Init => Contract!Init
<1> SUFFICES ASSUME Init PROVE Contract!Init
  OBVIOUS
<1>1. PICK creator \in Users \ Bots, others \in SUBSET Users :
        role = [u \in Users |->
                 IF u = creator /\ kind # "direct" THEN "owner"
                 ELSE IF u = creator \/ u \in others THEN "member" ELSE "none"]
  BY DEF Init
<1>2. Outgoing = {}
  <2>1. \A r \in Requests : req[r].pc = "idle"
    BY BlankFields DEF Init
  <2> QED BY <2>1 DEF Outgoing, InTransfer, At
<1>3. RoomAdmins = {}
  <2>1. \A u \in Users : role[u] # "admin"
    BY <1>1
  <2> QED BY <1>2, <2>1 DEF RoomAdmins, Members
<1>4. Owners = IF kind = "direct" THEN {} ELSE {creator}
  BY <1>1 DEF Owners
<1>5. RoomOwner = IF kind = "direct" THEN Nobody ELSE creator
  BY <1>2, <1>4, OneAmong DEF RoomOwner
<1>6. kind # "direct" => creator \in Members
  BY <1>1 DEF Members
<1>7. kind = "direct" => ~RoomDoor
  BY DEF Init, RoomDoor, Open, Live, Issued
<1>8. RoomAsked = [r \in Requests |-> Contract!NoCall]
  <2>1. RoomAsked = [r \in Requests |-> Abstract(req[r])]
    BY DEF RoomAsked, Abstract
  <2> QED BY <2>1, NoCallAtRest DEF Init
<1>9. RoomDoor \in BOOLEAN /\ Members \in SUBSET Users /\ managers = {}
  BY DEF RoomDoor, Members, Init
<1>10. RoomOwner = Nobody => ~RoomDoor
  BY <1>5, <1>7, MembershipAssumption
<1> QED BY <1>3, <1>5, <1>6, <1>8, <1>9, <1>10 DEF Contract!Init

\* Every step of a request is one of the contract's steps, or changes nothing of what that is about.
LEMMA ContractStep ==
    OneAtATime =>
      (TypeOK /\ TypeOK' /\ SerialInv /\ SerialInv' /\ [Next]_vars => [Contract!Next]_(Contract!all))
<1> SUFFICES ASSUME OneAtATime, TypeOK, TypeOK', SerialInv, SerialInv', [Next]_vars
             PROVE  [Contract!Next]_(Contract!all)
  OBVIOUS
<1>1. CASE UNCHANGED vars
  BY <1>1 DEF vars, Contract!all, Contract!room, RoomOwner, RoomAdmins, RoomDoor, RoomAsked, Outgoing, InTransfer, Resigning, At,
     Owners, Members, Open, Live, Issued
<1>2. CASE Next
  <2> SUFFICES ASSUME NEW r \in Requests, Step(r) PROVE Contract!Next
    BY <1>2 DEF Next
  <2>1. CASE Begin(r)
    BY <2>1, BeginAsks DEF Contract!Next
  <2>2. CASE ~Begin(r)
    <3>0. Contract!Ends(r)
      BY <2>2, StepEnds
    <3>1. CASE UNCHANGED Contract!room
      BY <3>0, <3>1 DEF Contract!Next
    <3>2. CASE \/ Cancel(r) \/ Authorize(r) \/ Refuse(r) \/ CheckGrant(r) \/ CheckTarget(r)
               \/ CheckActor(r) \/ CountMembers(r) \/ ReadAudience(r) \/ Publish(r)
      BY <3>1, <3>2, ReadsKeepRoom
    <3>3. CASE AddNext(r)
      BY <3>0, <3>1, <3>3, AddNextAdds DEF Contract!Next
    <3>4. CASE AddSelf(r)
      BY <3>0, <3>1, <3>4, AddSelfEnters DEF Contract!Next
    <3>5. CASE Remove(r)
      BY <3>0, <3>5, RemoveRemoves DEF Contract!Next
    <3>6. CASE WriteRole(r)
      BY <3>0, <3>6, WriteRoleAppoints DEF Contract!Next
    <3>7. CASE Promote(r)
      BY <3>0, <3>1, <3>7, PromoteTransfers, PromoteSelfKeeps DEF Contract!Next
    <3>8. CASE Demote(r)
      BY <3>0, <3>1, <3>8, DemoteFinishes, DemoteSelfResigns DEF Contract!Next
    <3>9. CASE WriteInvite(r) \/ WriteMeta(r) \/ WriteGrant(r)
      BY <3>0, <3>9, StaffWrites DEF Contract!Next
    <3>10. CASE DeleteAccount(r) \/ DeleteBotUser(r)
      BY <3>0, <3>10, DeleteErases DEF Contract!Next
    <3>11. CASE DeleteBotRecord(r)
      BY <3>0, <3>11, DeleteDropsGrant DEF Contract!Next
    <3> QED BY <2>2, <3>2, <3>3, <3>4, <3>5, <3>6, <3>7, <3>8, <3>9, <3>10, <3>11 DEF Step
  <2> QED BY <2>1, <2>2
<1> QED BY <1>1, <1>2

\* Requests that are served one at a time do to the room what the contract says of each call: although a
\* call is several store calls, and a transfer two writes, its effect comes at one moment, and the roles
\* of that moment allow it.
THEOREM ContractServed == ASSUME OneAtATime PROVE Spec => ImplementsContract
<1>1. Init => SerialInv
  BY SerialInit
<1>2. TypeOK /\ SerialInv /\ [Next]_vars => SerialInv'
  BY SerialStep
<1>3. TypeOK /\ TypeOK' /\ SerialInv /\ SerialInv' /\ [Next]_vars => [Contract!Next]_(Contract!all)
  BY ContractStep
<1> QED BY <1>1, <1>2, <1>3, ContractInit, TypeCorrect, PTL DEF Spec, ImplementsContract, Contract!Spec
=============================================================================
