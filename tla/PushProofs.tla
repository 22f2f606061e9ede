----------------------------- MODULE PushProofs -----------------------------
(***************************************************************************)
(* What holds of the registered devices and of the alerts for any users,   *)
(* tokens, requests and limit: TypeOK, that the limit is exceeded by       *)
(* overlapping registrations only, and that what a user switches off or    *)
(* withdraws stays so.  And what holds of the phone, for any users and any *)
(* number of runs of start and stop: that whoever is in has registered     *)
(* the device, and that alerts are subscribed to once.                     *)
(***************************************************************************)
EXTENDS Push, PushCoordinator, FiniteSetTheorems, TLAPS

-----------------------------------------------------------------------------
(* Types                                                                   *)

\* The part of TypeOK about a request, and the part about all the rest.
RequestOK(q) ==
    /\ q \in Request
    /\ q.op = "none" <=> q.pc = "idle"
    /\ q.op # "none" => q.by # None
    /\ q.op \in {"register", "unregister"} => q.token # None
    /\ q.pc \in {"privacy", "prefs", "devices", "send"} => q.about # None
    /\ q.e2e => q.body # "text"
RequestsOK == req \in [Requests -> Request] /\ \A r \in Requests : RequestOK(req[r])
RestOK ==
    /\ accounts \subseteq Users /\ members \subseteq accounts
    /\ devices \subseteq accounts \X Tokens
    /\ muted \subseteq Users /\ plain \subseteq Users /\ hidden \subseteq Users

LEMMA TypeParts == TypeOK <=> RequestsOK /\ RestOK
BY DEF TypeOK, RequestsOK, RequestOK, RestOK

LEMMA NextParts == RequestsOK' /\ RestOK' => TypeOK'
BY DEF TypeOK, RequestsOK, RequestOK, RestOK

LEMMA NoRequestOK == RequestOK(NoRequest)
BY DEF RequestOK, NoRequest, Request, Bodies

LEMMA BecomesOK ==
    ASSUME RequestsOK, NEW r \in Requests, NEW q, RequestOK(q), Becomes(r, q)
    PROVE  /\ RequestsOK' /\ req'[r] = q /\ \A s \in Requests \ {r} : req'[s] = req[s]
BY DEF RequestsOK, RequestOK, Becomes

LEMMA EndOK ==
    ASSUME RequestsOK, NEW r \in Requests, End(r)
    PROVE  RequestsOK'
BY BecomesOK, NoRequestOK DEF End

\* A request that has only begun.
Fresh(q) ==
    /\ RequestOK(q) /\ q.op # "none" /\ q.about = None /\ q.todo = {}
    /\ q.pc \in {"list", "write", "members"}
    /\ q.pc = "write" => q.op # "register"

LEMMA BeginFresh ==
    ASSUME TypeOK, NEW r \in Requests, Begin(r)
    PROVE  \E q : Ask(r, q) /\ Fresh(q)
<1>1. PICK u \in accounts : \/ \E t \in Tokens : Ask(r, Registering(u, t)) \/ Ask(r, Unregistering(u, t))
                            \/ \E m \in BOOLEAN, p \in BOOLEAN : Ask(r, Preferring(u, m, p))
                            \/ \E e \in BOOLEAN : Ask(r, Alerting(u, e))
  BY DEF Begin
<1>2. u \in Users /\ u # None
  BY PushAssumption DEF TypeOK
<1>3. ASSUME NEW t \in Tokens PROVE Fresh(Registering(u, t)) /\ Fresh(Unregistering(u, t))
  <2>1. t # None
    BY PushAssumption
  <2> QED BY <1>2, <2>1 DEF Fresh, Registering, Unregistering, NoRequest, RequestOK, Request, Bodies, Ops
<1>4. ASSUME NEW m \in BOOLEAN, NEW p \in BOOLEAN PROVE Fresh(Preferring(u, m, p))
  BY <1>2 DEF Fresh, Preferring, NoRequest, RequestOK, Request, Bodies, Ops
<1>5. ASSUME NEW e \in BOOLEAN PROVE Fresh(Alerting(u, e))
  BY <1>2 DEF Fresh, Alerting, NoRequest, RequestOK, Request, Bodies, Ops
<1> QED BY <1>1, <1>3, <1>4, <1>5

LEMMA ServeType ==
    ASSUME TypeOK, NEW r \in Requests, Serve(r)
    PROVE  TypeOK'
<1>0. RequestsOK /\ RestOK /\ RequestOK(req[r]) /\ req[r] \in Request
  BY TypeParts DEF RequestsOK
<1>1. CASE CheckLimit(r)
  <2>1. RequestOK([req[r] EXCEPT !.pc = "write"])
    BY <1>0, <1>1 DEF RequestOK, Request, CheckLimit, At
  <2>2. RequestsOK'
    BY <1>0, <1>1, <2>1, EndOK, BecomesOK DEF CheckLimit, Goto
  <2> QED BY <1>0, <1>1, <2>2, NextParts DEF CheckLimit, RestOK
<1>2. CASE UpsertDevice(r)
  <2>1. RequestsOK'
    BY <1>0, <1>2, EndOK DEF UpsertDevice
  <2>2. req[r].token \in Tokens
    BY <1>0, <1>2 DEF RequestOK, Request, UpsertDevice, At
  <2>3. RestOK'
    BY <1>0, <1>2, <2>2 DEF UpsertDevice, RestOK
  <2> QED BY <2>1, <2>3, NextParts
<1>3. CASE DeleteDevice(r)
  <2>1. RequestsOK'
    BY <1>0, <1>3, EndOK DEF DeleteDevice
  <2> QED BY <1>0, <1>3, <2>1, NextParts DEF DeleteDevice, RestOK
<1>4. CASE UpsertPreferences(r)
  <2>1. RequestsOK'
    BY <1>0, <1>4, EndOK DEF UpsertPreferences
  <2>2. req[r].by \in Users
    BY <1>0, <1>4 DEF RequestOK, Request, UpsertPreferences, At
  <2>3. RestOK'
    BY <1>0, <1>4, <2>2 DEF UpsertPreferences, RestOK
  <2> QED BY <2>1, <2>3, NextParts
<1>5. CASE ReadMembers(r)
  <2>1. RequestOK([req[r] EXCEPT !.todo = members \ {req[r].by}, !.pc = "next"])
    BY <1>0, <1>5 DEF RequestOK, Request, RestOK, ReadMembers, At
  <2>2. RequestsOK'
    BY <1>0, <1>5, <2>1, BecomesOK DEF ReadMembers
  <2> QED BY <1>0, <1>5, <2>2, NextParts DEF ReadMembers, RestOK
<1>6. CASE NextMember(r)
  <2>1. ASSUME NEW u \in req[r].todo
        PROVE  RequestOK([req[r] EXCEPT !.todo = @ \ {u}, !.about = u, !.pc = "privacy"])
    <3>1. u \in Users /\ u # None
      BY <1>0, PushAssumption DEF Request
    <3> QED BY <1>0, <1>6, <3>1 DEF RequestOK, Request, NextMember, At
  <2>2. RequestsOK'
    BY <1>0, <1>6, <2>1, BecomesOK, EndOK DEF NextMember
  <2> QED BY <1>0, <1>6, <2>2, NextParts DEF NextMember, RestOK
<1>7. CASE ReadPrivacy(r)
  <2>1. Preview(req[r]) \in Bodies /\ (req[r].e2e => Preview(req[r]) # "text")
    BY DEF Preview, Bodies
  <2>2. RequestOK([req[r] EXCEPT !.body = Preview(req[r]), !.unread = FALSE, !.pc = "prefs"])
    BY <1>0, <1>7, <2>1 DEF RequestOK, Request, ReadPrivacy, At
  <2>3. ~req[r].e2e => RequestOK([req[r] EXCEPT !.body = "text", !.unread = TRUE, !.pc = "prefs"])
    BY <1>0, <1>7 DEF RequestOK, Request, ReadPrivacy, At, Bodies
  <2>4. RequestsOK'
    BY <1>0, <1>7, <2>2, <2>3, BecomesOK DEF ReadPrivacy
  <2> QED BY <1>0, <1>7, <2>4, NextParts DEF ReadPrivacy, RestOK
<1>8. CASE ReadPreferences(r)
  <2>1. RequestOK([req[r] EXCEPT !.pc = "next"])
    BY <1>0, <1>8 DEF RequestOK, Request, ReadPreferences, At
  <2>2. RequestOK([req[r] EXCEPT !.body = BodyFor(req[r]), !.pc = "devices"])
    <3>1. BodyFor(req[r]) \in {"generic", req[r].body} /\ "generic" \in Bodies /\ "generic" # "text"
      BY DEF BodyFor, Bodies
    <3> QED BY <1>0, <1>8, <3>1 DEF RequestOK, Request, ReadPreferences, At
  <2>3. RequestsOK'
    BY <1>0, <1>8, <2>1, <2>2, BecomesOK DEF ReadPreferences, Goto
  <2> QED BY <1>0, <1>8, <2>3, NextParts DEF ReadPreferences, RestOK
<1>9. CASE ListDevices(r)
  <2>1. ASSUME NEW S \in Listed(req[r].about)
        PROVE  RequestOK([req[r] EXCEPT !.to = S, !.pc = "send"])
    <3>1. S \subseteq Tokens
      BY DEF Listed, TokensOf
    <3> QED BY <1>0, <1>9, <3>1 DEF RequestOK, Request, ListDevices, At
  <2>2. RequestOK([req[r] EXCEPT !.pc = "next"])
    BY <1>0, <1>9 DEF RequestOK, Request, ListDevices, At
  <2>3. RequestsOK'
    BY <1>0, <1>9, <2>1, <2>2, BecomesOK DEF ListDevices, Goto
  <2> QED BY <1>0, <1>9, <2>3, NextParts DEF ListDevices, RestOK
<1>10. CASE Send(r)
  <2>1. RequestOK([req[r] EXCEPT !.pc = "next"])
    BY <1>0, <1>10 DEF RequestOK, Request, Send, At
  <2>2. \A t : RequestOK([req[r] EXCEPT !.to = @ \ {t}])
    BY <1>0 DEF RequestOK, Request
  <2>3. RequestsOK'
    BY <1>0, <1>10, <2>1, <2>2, BecomesOK DEF Send, Goto
  <2> QED BY <1>0, <1>10, <2>3, NextParts DEF Send, RestOK
<1> QED BY <1>1, <1>2, <1>3, <1>4, <1>5, <1>6, <1>7, <1>8, <1>9, <1>10 DEF Serve

LEMMA NextType == TypeOK /\ [Next]_vars => TypeOK'
<1> SUFFICES ASSUME TypeOK, [Next]_vars PROVE TypeOK'
  OBVIOUS
<1>0. RequestsOK /\ RestOK
  BY TypeParts
<1>1. ASSUME NEW r \in Requests, Begin(r) PROVE TypeOK'
  <2>1. PICK q : Ask(r, q) /\ Fresh(q)
    BY <1>1, BeginFresh
  <2>2. RequestsOK'
    BY <1>0, <2>1, BecomesOK DEF Ask, Fresh
  <2> QED BY <1>0, <2>1, <2>2, NextParts DEF Ask, RestOK
<1>2. ASSUME NEW r \in Requests, Cancel(r) PROVE TypeOK'
  BY <1>0, <1>2, EndOK, NextParts DEF Cancel, RestOK
<1>3. ASSUME NEW u \in Users, PutPrivacy(u) \/ SetMember(u) PROVE TypeOK'
  BY <1>0, <1>3, NextParts DEF PutPrivacy, SetMember, RequestsOK, RestOK
<1>4. ASSUME NEW u \in Users, DeleteUser(u) PROVE TypeOK'
  <2>1. RestOK'
    BY <1>0, <1>4 DEF DeleteUser, RestOK
  <2> QED BY <1>0, <1>4, <2>1, NextParts DEF DeleteUser, RequestsOK
<1>5. CASE UNCHANGED vars
  BY <1>0, <1>5, NextParts DEF vars, RequestsOK, RestOK
<1> QED BY <1>1, <1>2, <1>3, <1>4, <1>5, ServeType, PushAssumption DEF Next

LEMMA InitType == Init => TypeOK
<1> SUFFICES ASSUME Init PROVE TypeOK
  OBVIOUS
<1>1. RequestsOK
  BY NoRequestOK DEF Init, RequestsOK, RequestOK
<1> QED BY <1>1, TypeParts DEF Init, RestOK

\* Devices, preferences and requests keep their types, a device always has a user, and no alert of an
\* encrypted message has its text (TypeOK).
THEOREM TypeCorrect == Spec => []TypeOK
BY InitType, NextType, PTL DEF Spec

-----------------------------------------------------------------------------
(* The limit                                                               *)

\* Pending(u) as the requests q give it.
PendingIn(q, u) == {t \in Tokens : \E r \in Requests :
    q[r].op = "register" /\ q[r].pc = "write" /\ q[r].by = u /\ q[r].token = t}

LEMMA PendingIsIn ==
    ASSUME NEW u
    PROVE  Pending(u) = PendingIn(req, u) /\ Pending(u)' = PendingIn(req', u)
BY DEF Pending, PendingIn, At

\* No more tokens are pending than there are requests.
LEMMA PendingBounded ==
    ASSUME NEW q, NEW u
    PROVE  /\ IsFiniteSet(PendingIn(q, u))
           /\ Cardinality(PendingIn(q, u)) <= Cardinality(Requests)
<1> DEFINE W == {r \in Requests : /\ q[r].op = "register" /\ q[r].pc = "write" /\ q[r].by = u
                                  /\ q[r].token \in Tokens}
           f == [r \in W |-> q[r].token]
<1>1. f \in Surjection(W, PendingIn(q, u))
  BY DEF Surjection, PendingIn
<1>2. W \in SUBSET Requests
  OBVIOUS
<1>3. IsFiniteSet(W) /\ Cardinality(W) <= Cardinality(Requests)
  BY <1>2, FS_Subset, PushAssumption
<1>4. IsFiniteSet(PendingIn(q, u)) /\ Cardinality(PendingIn(q, u)) <= Cardinality(W)
  <2> HIDE DEF W, f
  <2> QED BY <1>1, <1>3, FS_Surjection
<1>5. Cardinality(PendingIn(q, u)) \in Nat /\ Cardinality(W) \in Nat /\ Cardinality(Requests) \in Nat
  BY <1>3, <1>4, FS_CardinalityType, PushAssumption
<1> QED BY <1>3, <1>4, <1>5

\* A step that adds no token to those of a user keeps the limit.
LEMMA NoneAdded ==
    ASSUME LimitPassedByOverlapOnly, NEW u \in Users,
           NEW T, T \subseteq TokensOf(u) \cup Pending(u)
    PROVE  Cardinality(T) <= MaxDevices - 1 + Cardinality(Requests)
<1> DEFINE S == TokensOf(u) \cup Pending(u)
<1>1. S \in SUBSET Tokens /\ T \in SUBSET S
  BY DEF TokensOf, Pending
<1>2. IsFiniteSet(S)
  BY <1>1, FS_Subset, PushAssumption
<1>3. IsFiniteSet(T) /\ Cardinality(T) <= Cardinality(S)
  BY <1>1, <1>2, FS_Subset
<1>4. Cardinality(T) \in Nat /\ Cardinality(S) \in Nat /\ Cardinality(Requests) \in Nat
  BY <1>2, <1>3, FS_CardinalityType, PushAssumption
<1>5. Cardinality(S) <= MaxDevices - 1 + Cardinality(Requests)
  BY DEF LimitPassedByOverlapOnly
<1> HIDE DEF S
<1> QED BY <1>3, <1>4, <1>5, PushAssumption

\* A list with room in it is the list of all devices of the user.
LEMMA RoomIsRoom ==
    ASSUME NEW u, NEW S \in Listed(u), RoomIn(S)
    PROVE  Cardinality(TokensOf(u)) <= MaxDevices - 1
<1>1. S = TokensOf(u)
  BY PushAssumption DEF Listed, RoomIn
<1>2. TokensOf(u) \in SUBSET Tokens
  BY DEF TokensOf
<1>3. Cardinality(TokensOf(u)) \in Nat
  BY <1>2, FS_Subset, FS_CardinalityType, PushAssumption
<1> QED BY <1>1, <1>3, PushAssumption DEF RoomIn

LEMMA CheckKeepsLimit ==
    ASSUME TypeOK, LimitPassedByOverlapOnly, NEW r \in Requests, CheckLimit(r), NEW u \in Users
    PROVE  Cardinality(TokensOf(u)' \cup Pending(u)') <= MaxDevices - 1 + Cardinality(Requests)
<1>0. RequestsOK /\ RequestOK(req[r]) /\ req[r] \in Request
  BY TypeParts DEF RequestsOK, RequestOK
<1>1. TokensOf(u)' = TokensOf(u)
  BY DEF CheckLimit, TokensOf
<1>2. PICK S \in Listed(req[r].by) :
         IF req[r].token \in S \/ RoomIn(S) THEN Goto(r, "write") ELSE End(r)
  BY DEF CheckLimit
<1>3. CASE u = req[r].by /\ RoomIn(S)
  <2>1. Cardinality(TokensOf(u)) <= MaxDevices - 1
    BY <1>3, RoomIsRoom
  <2>2. IsFiniteSet(Pending(u)') /\ Cardinality(Pending(u)') <= Cardinality(Requests)
    BY PendingIsIn, PendingBounded
  <2>3. TokensOf(u) \in SUBSET Tokens
    BY DEF TokensOf
  <2>4. IsFiniteSet(TokensOf(u))
    BY <2>3, FS_Subset, PushAssumption
  <2>5. /\ Cardinality(TokensOf(u)) \in Nat /\ Cardinality(Pending(u)') \in Nat
        /\ Cardinality(TokensOf(u) \cap Pending(u)') \in Nat /\ Cardinality(Requests) \in Nat
    <3>1. TokensOf(u) \cap Pending(u)' \in SUBSET TokensOf(u)
      OBVIOUS
    <3>2. IsFiniteSet(TokensOf(u) \cap Pending(u)')
      BY <2>4, <3>1, FS_Subset
    <3> QED BY <2>2, <2>4, <3>2, FS_CardinalityType, PushAssumption
  <2>6. Cardinality(TokensOf(u) \cup Pending(u)') =
           Cardinality(TokensOf(u)) + Cardinality(Pending(u)') - Cardinality(TokensOf(u) \cap Pending(u)')
    BY <2>2, <2>4, FS_Union
  <2> QED BY <1>1, <2>1, <2>2, <2>5, <2>6, PushAssumption
<1>4. CASE ~(u = req[r].by /\ RoomIn(S))
  <2>1. CASE req[r].token \in S \/ RoomIn(S)
    <3>1. req'[r] = [req[r] EXCEPT !.pc = "write"] /\ \A s \in Requests \ {r} : req'[s] = req[s]
      <4>1. Goto(r, "write")
        BY <1>2, <2>1
      <4> QED BY <1>0, <4>1 DEF Goto, Becomes, RequestsOK
    <3>2. req'[r].by = req[r].by /\ req'[r].token = req[r].token
      BY <1>0, <3>1 DEF Request
    <3>3. u = req[r].by => req[r].token \in TokensOf(u)
      <4>1. S \subseteq TokensOf(req[r].by)
        BY DEF Listed
      <4> QED BY <1>4, <2>1, <4>1
    <3>4. ASSUME NEW t \in PendingIn(req', u) PROVE t \in TokensOf(u) \cup PendingIn(req, u)
      <4>1. PICK s \in Requests : /\ req'[s].op = "register" /\ req'[s].pc = "write"
                                  /\ req'[s].by = u /\ req'[s].token = t
        BY DEF PendingIn
      <4>2. CASE s = r
        BY <3>2, <3>3, <4>1, <4>2
      <4>3. CASE s # r
        BY <3>1, <4>1, <4>3 DEF PendingIn
      <4> QED BY <4>2, <4>3
    <3>5. Pending(u)' \subseteq TokensOf(u) \cup Pending(u)
      BY <3>4, PendingIsIn
    <3> QED BY <1>1, <3>5, NoneAdded
  <2>2. CASE ~(req[r].token \in S \/ RoomIn(S))
    <3>1. req'[r] = NoRequest /\ \A s \in Requests \ {r} : req'[s] = req[s]
      BY <1>0, <1>2, <2>2, NoRequestOK, BecomesOK DEF End
    <3>2. Pending(u)' \subseteq Pending(u)
      BY <3>1, PendingIsIn DEF PendingIn, NoRequest
    <3> QED BY <1>1, <3>2, NoneAdded
  <2> QED BY <2>1, <2>2
<1> QED BY <1>3, <1>4

\* Of a step that replaces request r by q: nothing pending is added but by q.
LEMMA PendingOfStep ==
    ASSUME RequestsOK, NEW r \in Requests, NEW q, RequestOK(q), Becomes(r, q), q.pc # "write" \/ q.op # "register",
           NEW u
    PROVE  Pending(u)' \subseteq Pending(u)
<1>1. req'[r] = q /\ \A s \in Requests \ {r} : req'[s] = req[s]
  BY BecomesOK
<1> QED BY <1>1, PendingIsIn DEF PendingIn

LEMMA NextLimit ==
    ASSUME TypeOK, LimitPassedByOverlapOnly, [Next]_vars
    PROVE  LimitPassedByOverlapOnly'
<1>0. RequestsOK /\ \A r \in Requests : RequestOK(req[r]) /\ req[r] \in Request
  BY TypeParts DEF RequestsOK, RequestOK
<1> SUFFICES ASSUME NEW u \in Users
             PROVE  Cardinality(TokensOf(u)' \cup Pending(u)') <= MaxDevices - 1 + Cardinality(Requests)
  BY DEF LimitPassedByOverlapOnly
<1>1. ASSUME TokensOf(u)' \subseteq TokensOf(u), Pending(u)' \subseteq Pending(u)
      PROVE  Cardinality(TokensOf(u)' \cup Pending(u)') <= MaxDevices - 1 + Cardinality(Requests)
  BY <1>1, NoneAdded
<1>2. ASSUME NEW r \in Requests, End(r) PROVE Pending(u)' \subseteq Pending(u)
  BY <1>0, <1>2, NoRequestOK, PendingOfStep DEF End, NoRequest
<1>3. ASSUME devices' = devices PROVE TokensOf(u)' \subseteq TokensOf(u)
  BY <1>3 DEF TokensOf
<1>4. ASSUME req' = req PROVE Pending(u)' \subseteq Pending(u)
  BY <1>4 DEF Pending, At
<1>5. CASE \E r \in Requests : Begin(r)
  <2>1. PICK r \in Requests : Begin(r)
    BY <1>5
  <2>2. PICK q : Ask(r, q) /\ Fresh(q)
    BY <2>1, BeginFresh
  <2>3. Pending(u)' \subseteq Pending(u)
    BY <1>0, <2>2, PendingOfStep DEF Ask, Fresh
  <2> QED BY <1>1, <1>3, <2>2, <2>3 DEF Ask
<1>6. CASE \E r \in Requests : Serve(r)
  <2>1. PICK r \in Requests : Serve(r)
    BY <1>6
  <2>2. CASE CheckLimit(r)
    BY <2>2, CheckKeepsLimit
  <2>3. CASE UpsertDevice(r)
    <3>1. At(r, "register", "write") /\ req[r].token \in Tokens
      BY <1>0, <2>3 DEF UpsertDevice, At, RequestOK, Request
    <3>2. TokensOf(u)' \subseteq TokensOf(u) \cup Pending(u)
      BY <2>3, <3>1 DEF UpsertDevice, TokensOf, Pending
    <3>3. Pending(u)' \subseteq Pending(u)
      BY <1>2, <2>3 DEF UpsertDevice
    <3> QED BY <3>2, <3>3, NoneAdded
  <2>4. CASE DeleteDevice(r)
    BY <1>1, <1>2, <2>4 DEF DeleteDevice, TokensOf
  <2>5. CASE UpsertPreferences(r)
    BY <1>1, <1>2, <1>3, <2>5 DEF UpsertPreferences
  <2>6. CASE ReadMembers(r) \/ NextMember(r) \/ ReadPrivacy(r) \/ ReadPreferences(r) \/ ListDevices(r) \/ Send(r)
    <3>1. devices' = devices /\ req[r].op = "alert"
      BY <2>6 DEF ReadMembers, NextMember, ReadPrivacy, ReadPreferences, ListDevices, Send, At
    <3>2. req'[r] = NoRequest \/ req'[r].op = "alert"
      <4>1. req[r] \in Request /\ req \in [Requests -> Request]
        BY <1>0 DEF RequestsOK
      <4>2. CASE ReadMembers(r)
        BY <3>1, <4>1, <4>2 DEF ReadMembers, Becomes, Request
      <4>3. CASE NextMember(r)
        BY <3>1, <4>1, <4>3 DEF NextMember, Becomes, End, Request
      <4>4. CASE ReadPrivacy(r)
        <5>1. \A b, f : [req[r] EXCEPT !.body = b, !.unread = f, !.pc = "prefs"].op = "alert"
          BY <3>1, <4>1 DEF Request
        <5>2. \E b, f : req' = [req EXCEPT ![r] = [req[r] EXCEPT !.body = b, !.unread = f, !.pc = "prefs"]]
          BY <4>4 DEF ReadPrivacy, Becomes
        <5> QED BY <4>1, <5>1, <5>2
      <4>5. CASE ReadPreferences(r)
        BY <3>1, <4>1, <4>5 DEF ReadPreferences, Becomes, Goto, Request
      <4>6. CASE ListDevices(r)
        BY <3>1, <4>1, <4>6 DEF ListDevices, Becomes, Goto, Request
      <4>7. CASE Send(r)
        BY <3>1, <4>1, <4>7 DEF Send, Becomes, Goto, Request
      <4> QED BY <2>6, <4>2, <4>3, <4>4, <4>5, <4>6, <4>7
    <3>3. \A s \in Requests \ {r} : req'[s] = req[s]
      BY <1>0, <2>6 DEF RequestsOK, ReadMembers, NextMember, ReadPrivacy, ReadPreferences, ListDevices, Send,
                       Becomes, Goto, End
    <3>4. req'[r].op # "register"
      BY <3>2 DEF NoRequest
    <3>5. Pending(u)' \subseteq Pending(u)
      BY <3>3, <3>4, PendingIsIn DEF PendingIn
    <3> QED BY <1>1, <1>3, <3>1, <3>5
  <2> QED BY <2>1, <2>2, <2>3, <2>4, <2>5, <2>6 DEF Serve
<1>7. CASE \E r \in Requests : Cancel(r)
  BY <1>1, <1>2, <1>3, <1>7 DEF Cancel
<1>8. CASE \E v \in Users : PutPrivacy(v) \/ SetMember(v) \/ DeleteUser(v)
  BY <1>1, <1>4, <1>8 DEF PutPrivacy, SetMember, DeleteUser, TokensOf
<1>9. CASE UNCHANGED vars
  BY <1>1, <1>3, <1>4, <1>9 DEF vars
<1> QED BY <1>5, <1>6, <1>7, <1>8, <1>9, PushAssumption DEF Next

LEMMA InitLimit == Init => LimitPassedByOverlapOnly
<1> SUFFICES ASSUME Init, NEW u \in Users
             PROVE  Cardinality(TokensOf(u) \cup Pending(u)) <= MaxDevices - 1 + Cardinality(Requests)
  BY DEF LimitPassedByOverlapOnly
<1>1. TokensOf(u) \cup Pending(u) = {}
  BY DEF Init, TokensOf, Pending, At, NoRequest
<1>2. Cardinality(TokensOf(u) \cup Pending(u)) = 0
  BY <1>1, FS_EmptySet
<1>3. Cardinality(Requests) \in Nat
  BY FS_CardinalityType, PushAssumption
<1> QED BY <1>2, <1>3, PushAssumption

\* However many registrations of a user overlap, the user has at most MaxDevices - 1 devices and one
\* more for each of them (LimitPassedByOverlapOnly).
THEOREM LimitHoldsButForOverlap == Spec => []LimitPassedByOverlapOnly
BY InitType, NextType, InitLimit, NextLimit, PTL DEF Spec

-----------------------------------------------------------------------------
(* Quiet users                                                             *)

\* If request r becomes q, and q has not read a choice that nobody has read, nobody has read it.
LEMMA BecomesQuiet ==
    ASSUME RequestsOK, NEW r \in Requests, NEW q, RequestOK(q), Becomes(r, q),
           NEW u, NEW c, \A s \in Requests : ~ReadBefore(req[s], u, c), ~ReadBefore(q, u, c)
    PROVE  \A s \in Requests : ~ReadBefore(req'[s], u, c)
BY BecomesOK

LEMMA NoRequestQuiet ==
    ASSUME NEW u \in Users, NEW c
    PROVE  ~ReadBefore(NoRequest, u, c)
BY PushAssumption DEF ReadBefore, NoRequest

LEMMA EndQuiet ==
    ASSUME RequestsOK, NEW r \in Requests, End(r),
           NEW u \in Users, NEW c, \A s \in Requests : ~ReadBefore(req[s], u, c)
    PROVE  \A s \in Requests : ~ReadBefore(req'[s], u, c)
BY NoRequestQuiet, NoRequestOK, BecomesQuiet DEF End

LEMMA ServeQuiet ==
    ASSUME TypeOK, NEW r \in Requests, Serve(r), NEW u \in Users, NEW c \in Choices,
           Off(u, c), \A s \in Requests : ~ReadBefore(req[s], u, c)
    PROVE  \A s \in Requests : ~ReadBefore(req'[s], u, c)
<1>0. RequestsOK /\ RequestOK(req[r]) /\ req[r] \in Request /\ ~ReadBefore(req[r], u, c)
  BY TypeParts DEF RequestsOK, RequestOK
<1>a. ASSUME NEW q, req' = [req EXCEPT ![r] = q], ~ReadBefore(q, u, c)
      PROVE  \A s \in Requests : ~ReadBefore(req'[s], u, c)
  BY <1>0, <1>a DEF RequestsOK
<1>b. ASSUME End(r)
      PROVE  \A s \in Requests : ~ReadBefore(req'[s], u, c)
  BY <1>0, <1>b, EndQuiet
<1>1. CASE CheckLimit(r)
  <2>1. ~ReadBefore([req[r] EXCEPT !.pc = "write"], u, c)
    BY <1>0 DEF ReadBefore, Request
  <2> QED BY <1>1, <1>a, <1>b, <2>1 DEF CheckLimit, Goto, Becomes
<1>2. CASE UpsertDevice(r) \/ DeleteDevice(r) \/ UpsertPreferences(r)
  BY <1>2, <1>b DEF UpsertDevice, DeleteDevice, UpsertPreferences
<1>3. CASE ReadMembers(r)
  <2>1. ~ReadBefore([req[r] EXCEPT !.todo = members \ {req[r].by}, !.pc = "next"], u, c)
    BY <1>0 DEF ReadBefore, Request, Off
  <2> QED BY <1>3, <1>a, <2>1 DEF ReadMembers, Becomes
<1>4. CASE NextMember(r)
  <2>1. ASSUME NEW v \in req[r].todo
        PROVE  ~ReadBefore([req[r] EXCEPT !.todo = @ \ {v}, !.about = v, !.pc = "privacy"], u, c)
    BY <1>0, <2>1 DEF ReadBefore, Request
  <2> QED BY <1>4, <1>a, <1>b, <2>1 DEF NextMember, Becomes
<1>5. CASE ReadPrivacy(r)
  <2>1. c = "privacy" /\ u = req[r].about => Preview(req[r]) # "text"
    BY DEF Preview, Off
  <2>2. ~ReadBefore([req[r] EXCEPT !.body = Preview(req[r]), !.unread = FALSE, !.pc = "prefs"], u, c)
    BY <1>0, <2>1 DEF ReadBefore, Request
  <2>3. ~ReadBefore([req[r] EXCEPT !.body = "text", !.unread = TRUE, !.pc = "prefs"], u, c)
    BY <1>0 DEF ReadBefore, Request
  <2> QED BY <1>5, <1>a, <2>2, <2>3 DEF ReadPrivacy, Becomes
<1>6. CASE ReadPreferences(r)
  <2>1. ~ReadBefore([req[r] EXCEPT !.pc = "next"], u, c)
    BY <1>0 DEF ReadBefore, Request
  <2>2. ASSUME req[r].about \notin muted
        PROVE  ~ReadBefore([req[r] EXCEPT !.body = BodyFor(req[r]), !.pc = "devices"], u, c)
    <3>1. BodyFor(req[r]) = "text" => req[r].about \notin plain /\ req[r].body = "text"
      BY DEF BodyFor
    <3>2. At(r, "alert", "prefs")
      BY <1>6 DEF ReadPreferences
    <3> QED BY <1>0, <2>2, <3>1, <3>2 DEF ReadBefore, Request, Off, At
  <2> QED BY <1>6, <1>a, <2>1, <2>2 DEF ReadPreferences, Becomes, Goto
<1>7. CASE ListDevices(r)
  <2>1. ASSUME NEW S PROVE ~ReadBefore([req[r] EXCEPT !.to = S, !.pc = "send"], u, c)
    BY <1>0, <1>7 DEF ReadBefore, Request, ListDevices, At
  <2>2. ~ReadBefore([req[r] EXCEPT !.pc = "next"], u, c)
    BY <1>0 DEF ReadBefore, Request
  <2> QED BY <1>7, <1>a, <2>1, <2>2 DEF ListDevices, Becomes, Goto
<1>8. CASE Send(r)
  <2>1. ~ReadBefore([req[r] EXCEPT !.pc = "next"], u, c)
    BY <1>0 DEF ReadBefore, Request
  <2>2. ASSUME NEW t PROVE ~ReadBefore([req[r] EXCEPT !.to = @ \ {t}], u, c)
    BY <1>0 DEF ReadBefore, Request
  <2> QED BY <1>8, <1>a, <2>1, <2>2 DEF Send, Becomes, Goto
<1> QED BY <1>1, <1>2, <1>3, <1>4, <1>5, <1>6, <1>7, <1>8 DEF Serve

LEMMA NextQuiet ==
    ASSUME TypeOK, [Next]_vars, NEW u \in Users, NEW c \in Choices,
           Quiet(u, c), Off(u, c)'
    PROVE  Quiet(u, c)'
<1>0. RequestsOK /\ Off(u, c) /\ \A s \in Requests : ~ReadBefore(req[s], u, c)
  BY TypeParts DEF Quiet
<1> SUFFICES \A s \in Requests : ~ReadBefore(req'[s], u, c)
  BY DEF Quiet, ReadBefore
<1>1. ASSUME NEW r \in Requests, Begin(r) PROVE \A s \in Requests : ~ReadBefore(req'[s], u, c)
  <2>1. PICK q : Ask(r, q) /\ Fresh(q)
    BY <1>1, BeginFresh
  <2>2. ~ReadBefore(q, u, c)
    BY <2>1, PushAssumption DEF Fresh, ReadBefore
  <2> QED BY <1>0, <2>1, <2>2, BecomesQuiet DEF Ask, Fresh
<1>2. ASSUME NEW r \in Requests, Cancel(r) PROVE \A s \in Requests : ~ReadBefore(req'[s], u, c)
  BY <1>0, <1>2, EndQuiet DEF Cancel
<1>3. CASE req' = req
  BY <1>0, <1>3
<1> QED BY <1>0, <1>1, <1>2, <1>3, ServeQuiet DEF Next, PutPrivacy, SetMember, DeleteUser, vars

\* What a user switched off stays off, but for the alerts that read the choice before it was made and
\* those that failed to read the privacy (QuietStaysQuiet): such a failure shows nothing that the
\* user's own preferences hide, and no other failure shows anything.
THEOREM QuietHolds == Spec => QuietStaysQuiet
<1>1. TypeOK /\ [Next]_vars =>
         [\A u \in Users, choice \in Choices :
             Quiet(u, choice) /\ Off(u, choice)' => Quiet(u, choice)']_vars
  BY NextQuiet
<1> QED BY <1>1, TypeCorrect, PTL DEF Spec, QuietStaysQuiet

-----------------------------------------------------------------------------
(* Withdrawn devices                                                       *)

\* Request q neither registers the device nor has it listed.
Spares(q, u, t) ==
    /\ ~(q.op = "register" /\ q.by = u /\ q.token = t)
    /\ ~(q.op = "alert" /\ q.pc = "send" /\ q.about = u /\ t \in q.to)

LEMMA UntouchedSpares ==
    ASSUME NEW u, NEW t
    PROVE  /\ Untouched(u, t) <=> \A s \in Requests : Spares(req[s], u, t)
           /\ Untouched(u, t)' <=> \A s \in Requests : Spares(req'[s], u, t)
BY DEF Untouched, Spares, At

LEMMA ServeSpares ==
    ASSUME TypeOK, NEW r \in Requests, Serve(r), NEW u \in Users, NEW t \in Tokens,
           <<u, t>> \notin devices, \A s \in Requests : Spares(req[s], u, t)
    PROVE  <<u, t>> \notin devices' /\ \A s \in Requests : Spares(req'[s], u, t)
<1>0. RequestsOK /\ req[r] \in Request /\ Spares(req[r], u, t)
  BY TypeParts DEF RequestsOK, RequestOK
<1>a. ASSUME NEW q, req' = [req EXCEPT ![r] = q], Spares(q, u, t)
      PROVE  \A s \in Requests : Spares(req'[s], u, t)
  BY <1>0, <1>a DEF RequestsOK
<1>b. ASSUME End(r) PROVE \A s \in Requests : Spares(req'[s], u, t)
  BY <1>a, <1>b DEF End, Becomes, Spares, NoRequest
<1>c. ASSUME NEW step, step # "send" PROVE Spares([req[r] EXCEPT !.pc = step], u, t)
  BY <1>0, <1>c DEF Spares, Request
<1>1. CASE CheckLimit(r)
  BY <1>1, <1>a, <1>b, <1>c DEF CheckLimit, Goto, Becomes
<1>2. CASE UpsertDevice(r)
  <2>1. <<u, t>> \notin devices'
    BY <1>0, <1>2 DEF UpsertDevice, At, Spares
  <2> QED BY <1>2, <1>b, <2>1 DEF UpsertDevice
<1>3. CASE DeleteDevice(r) \/ UpsertPreferences(r)
  BY <1>3, <1>b DEF DeleteDevice, UpsertPreferences
<1>4. CASE ReadMembers(r)
  <2>1. Spares([req[r] EXCEPT !.todo = members \ {req[r].by}, !.pc = "next"], u, t)
    BY <1>0 DEF Spares, Request
  <2> QED BY <1>4, <1>a, <2>1 DEF ReadMembers, Becomes
<1>5. CASE NextMember(r)
  <2>1. ASSUME NEW v PROVE Spares([req[r] EXCEPT !.todo = @ \ {v}, !.about = v, !.pc = "privacy"], u, t)
    BY <1>0 DEF Spares, Request
  <2> QED BY <1>5, <1>a, <1>b, <2>1 DEF NextMember, Becomes
<1>6. CASE ReadPrivacy(r)
  <2>1. ASSUME NEW b, NEW f PROVE Spares([req[r] EXCEPT !.body = b, !.unread = f, !.pc = "prefs"], u, t)
    BY <1>0 DEF Spares, Request
  <2> QED BY <1>6, <1>a, <2>1 DEF ReadPrivacy, Becomes
<1>7. CASE ReadPreferences(r)
  <2>1. ASSUME NEW b PROVE Spares([req[r] EXCEPT !.body = b, !.pc = "devices"], u, t)
    BY <1>0 DEF Spares, Request
  <2> QED BY <1>7, <1>a, <1>c, <2>1 DEF ReadPreferences, Becomes, Goto
<1>8. CASE ListDevices(r)
  <2>1. ASSUME NEW S \in Listed(req[r].about) PROVE Spares([req[r] EXCEPT !.to = S, !.pc = "send"], u, t)
    <3>1. req[r].about = u => t \notin S
      BY DEF Listed, TokensOf
    <3> QED BY <1>0, <3>1 DEF Spares, Request
  <2> QED BY <1>8, <1>a, <1>c, <2>1 DEF ListDevices, Becomes, Goto
<1>9. CASE Send(r)
  <2>1. ASSUME NEW v PROVE Spares([req[r] EXCEPT !.to = @ \ {v}], u, t)
    BY <1>0 DEF Spares, Request
  <2> QED BY <1>9, <1>a, <1>c, <2>1 DEF Send, Becomes, Goto
<1> QED BY <1>1, <1>2, <1>3, <1>4, <1>5, <1>6, <1>7, <1>8, <1>9 DEF Serve

LEMMA NextSpares ==
    ASSUME TypeOK, [Next]_vars, NEW u \in Users, NEW t \in Tokens, <<u, t>> \notin devices, Untouched(u, t)
    PROVE  /\ <<u, t>> \notin devices'
           /\ Untouched(u, t)' \/ \E r \in Requests : req[r].op = "none" /\ req'[r].op = "register"
<1>0. RequestsOK /\ \A s \in Requests : Spares(req[s], u, t)
  BY TypeParts, UntouchedSpares
<1>1. ASSUME NEW r \in Requests, Begin(r)
      PROVE  /\ <<u, t>> \notin devices'
             /\ Untouched(u, t)' \/ \E s \in Requests : req[s].op = "none" /\ req'[s].op = "register"
  <2>1. PICK q : Ask(r, q) /\ Fresh(q)
    BY <1>1, BeginFresh
  <2>2. req'[r] = q /\ req[r].op = "none" /\ \A s \in Requests \ {r} : req'[s] = req[s]
    BY <1>0, <2>1, BecomesOK DEF Ask, Fresh, RequestsOK, RequestOK
  <2>3. q.op = "register" \/ Spares(q, u, t)
    BY <2>1 DEF Fresh, Spares
  <2> QED BY <1>0, <2>1, <2>2, <2>3, UntouchedSpares DEF Ask
<1>2. ASSUME NEW r \in Requests, Cancel(r) PROVE <<u, t>> \notin devices' /\ Untouched(u, t)'
  <2>1. req'[r] = NoRequest /\ \A s \in Requests \ {r} : req'[s] = req[s]
    BY <1>0, <1>2, NoRequestOK, BecomesOK DEF Cancel, End
  <2> QED BY <1>0, <1>2, <2>1, UntouchedSpares DEF Cancel, Spares, NoRequest
<1>3. ASSUME NEW r \in Requests, Serve(r) PROVE <<u, t>> \notin devices' /\ Untouched(u, t)'
  BY <1>0, <1>3, ServeSpares, UntouchedSpares
<1>4. CASE req' = req /\ devices' \subseteq devices
  BY <1>0, <1>4, UntouchedSpares
<1> QED BY <1>1, <1>2, <1>3, <1>4 DEF Next, PutPrivacy, SetMember, DeleteUser, vars

\* A device that was withdrawn is not registered again, nor sent anything, by calls that began after
\* its withdrawal, unless one of them registers it (WithdrawnGetsNothing).
THEOREM WithdrawalHolds == Spec => WithdrawnGetsNothing
<1>1. TypeOK /\ [Next]_vars =>
         [\A u \in Users, t \in Tokens :
             <<u, t>> \notin devices /\ Untouched(u, t) =>
                /\ <<u, t>> \notin devices'
                /\ Untouched(u, t)' \/ \E r \in Requests : req[r].op = "none" /\ req'[r].op = "register"]_vars
  BY NextSpares
<1> QED BY <1>1, TypeCorrect, PTL DEF Spec, WithdrawnGetsNothing

-----------------------------------------------------------------------------
(* The phone: types                                                        *)

LEMMA PhoneNextType == PhoneTypeOK /\ [PhoneNext]_phoneVars => PhoneTypeOK'
<1> SUFFICES ASSUME PhoneTypeOK, [PhoneNext]_phoneVars PROVE PhoneTypeOK'
  OBVIOUS
<1> USE CoordinatorAssumption DEF PhoneTypeOK, Task, storage, coordinator
<1>1. ASSUME NEW t \in Tasks, Restore(t) PROVE PhoneTypeOK'
  <2>1. CASE user = Nobody
    BY <1>1, <2>1 DEF Restore
  <2>2. CASE user # Nobody /\ started
    BY <1>1, <2>2 DEF Restore, Start, Overlap
  <2>3. CASE user # Nobody /\ ~started
    BY <1>1, <2>3 DEF Restore, Await, Start, Overlap
  <2> QED BY <2>1, <2>2, <2>3
<1>2. ASSUME NEW t \in Tasks, StartThrows(t) PROVE PhoneTypeOK'
  BY <1>2 DEF StartThrows, EndTask, Idle
<1>3. ASSUME NEW t \in Tasks, AskToRegister(t) PROVE PhoneTypeOK'
  BY <1>3 DEF AskToRegister, Await
<1>4. ASSUME NEW t \in Tasks, Register(t) PROVE PhoneTypeOK'
  BY <1>4 DEF Register, Await
<1>5. ASSUME NEW t \in Tasks, RegisterFails(t) PROVE PhoneTypeOK'
  BY <1>5 DEF RegisterFails, Await
<1>6. ASSUME NEW t \in Tasks, StoreId(t) PROVE PhoneTypeOK'
  BY <1>6 DEF StoreId, Await
<1>7. ASSUME NEW t \in Tasks, Listen(t) PROVE PhoneTypeOK'
  BY <1>7 DEF Listen, EndTask, Idle
<1>8. ASSUME NEW t \in Tasks, LogOut(t) PROVE PhoneTypeOK'
  BY <1>8 DEF LogOut, Await, Overlap
<1>9. ASSUME NEW t \in Tasks, Leave(t) PROVE PhoneTypeOK'
  BY <1>9 DEF Leave, Await
<1>10. ASSUME NEW t \in Tasks, CancelSubscription(t) PROVE PhoneTypeOK'
  BY <1>10 DEF CancelSubscription, Await
<1>11. ASSUME NEW t \in Tasks, Clear(t) PROVE PhoneTypeOK'
  BY <1>11 DEF Clear, Await
<1>12. ASSUME NEW t \in Tasks, Withdraw(t) PROVE PhoneTypeOK'
  BY <1>12 DEF Withdraw, EndTask, Idle
<1>13. ASSUME NEW u \in Holders, SignIn(u) PROVE PhoneTypeOK'
  BY <1>13 DEF SignIn
<1>14. CASE SignOut
  BY <1>14 DEF SignOut, Overlap
<1>15. CASE DeleteAccount
  BY <1>15 DEF DeleteAccount, Overlap
<1>16. CASE LoseSession
  BY <1>16 DEF LoseSession, Overlap
<1>17. CASE Kill
  <2>1. task' \in [Tasks -> Task] /\ \A t \in Tasks : task'[t].pc = "idle"
    BY <1>17 DEF Kill, Idle
  <2>2. live' \in 0..MaxLive
    BY <1>17 DEF Kill
  <2> QED BY <1>17, <2>1, <2>2 DEF Kill
<1>18. CASE UNCHANGED phoneVars
  BY <1>18 DEF phoneVars
<1> QED BY <1>1, <1>2, <1>3, <1>4, <1>5, <1>6, <1>7, <1>8, <1>9, <1>10, <1>11, <1>12, <1>13, <1>14,
     <1>15, <1>16, <1>17, <1>18 DEF PhoneNext

\* The phone's storage, its subscriptions and the runs of start and stop keep their types; a row belongs
\* to an account, and no registration goes out without a user.
THEOREM PhoneTypeCorrect == PhoneSpec => []PhoneTypeOK
<1>1. PhoneInit => PhoneTypeOK
  <2> SUFFICES ASSUME PhoneInit PROVE PhoneTypeOK
    OBVIOUS
  <2>1. task \in [Tasks -> Task] /\ \A t \in Tasks : task[t].pc = "idle"
    BY DEF PhoneInit, Task, Idle
  <2>2. live \in 0..MaxLive
    BY CoordinatorAssumption DEF PhoneInit
  <2> QED BY <2>1, <2>2 DEF PhoneInit, PhoneTypeOK
<1>2. PhoneTypeOK /\ [PhoneNext]_phoneVars => PhoneTypeOK'
  BY PhoneNextType
<1> QED BY <1>1, <1>2, PTL DEF PhoneSpec

-----------------------------------------------------------------------------
(* The phone: one run at a time                                            *)

Starting(t) == task[t].pc \in {"token", "asked", "store", "listen"}
Stopping(t) == task[t].pc \in {"leave", "cancel", "clear", "withdraw"}

\* Runs of start and stop that overlap are noted.
OneTask ==
    "overlap" \notin excuse =>
        \A s, t \in Tasks : task[s].pc # "idle" /\ task[t].pc # "idle" => s = t

LEMMA OneTaskStep == PhoneTypeOK /\ OneTask /\ [PhoneNext]_phoneVars => OneTask'
<1> SUFFICES ASSUME PhoneTypeOK, OneTask, [PhoneNext]_phoneVars PROVE OneTask'
  OBVIOUS
<1> USE DEF PhoneTypeOK, Task, NothingRuns, storage, coordinator, OneTask
<1>1. ASSUME NEW t \in Tasks, Restore(t) PROVE OneTask'
  BY <1>1 DEF Restore, Await, Start, Overlap
<1>2. ASSUME NEW t \in Tasks, StartThrows(t) PROVE OneTask'
  BY <1>2 DEF StartThrows, EndTask, Idle
<1>3. ASSUME NEW t \in Tasks, AskToRegister(t) PROVE OneTask'
  BY <1>3 DEF AskToRegister, Await
<1>4. ASSUME NEW t \in Tasks, Register(t) PROVE OneTask'
  BY <1>4 DEF Register, Await
<1>5. ASSUME NEW t \in Tasks, RegisterFails(t) PROVE OneTask'
  BY <1>5 DEF RegisterFails, Await
<1>6. ASSUME NEW t \in Tasks, StoreId(t) PROVE OneTask'
  BY <1>6 DEF StoreId, Await
<1>7. ASSUME NEW t \in Tasks, Listen(t) PROVE OneTask'
  BY <1>7 DEF Listen, EndTask, Idle
<1>8. ASSUME NEW t \in Tasks, LogOut(t) PROVE OneTask'
  BY <1>8 DEF LogOut, Await, Overlap
<1>9. ASSUME NEW t \in Tasks, Leave(t) PROVE OneTask'
  BY <1>9 DEF Leave, Await
<1>10. ASSUME NEW t \in Tasks, CancelSubscription(t) PROVE OneTask'
  BY <1>10 DEF CancelSubscription, Await
<1>11. ASSUME NEW t \in Tasks, Clear(t) PROVE OneTask'
  BY <1>11 DEF Clear, Await
<1>12. ASSUME NEW t \in Tasks, Withdraw(t) PROVE OneTask'
  BY <1>12 DEF Withdraw, EndTask, Idle
<1>13. ASSUME NEW u \in Holders, SignIn(u) PROVE OneTask'
  BY <1>13 DEF SignIn
<1>14. CASE SignOut
  BY <1>14 DEF SignOut, Overlap
<1>15. CASE DeleteAccount
  BY <1>15 DEF DeleteAccount, Overlap
<1>16. CASE LoseSession
  BY <1>16 DEF LoseSession, Overlap
<1>17. CASE Kill
  BY <1>17 DEF Kill, Idle
<1>18. CASE UNCHANGED phoneVars
  BY <1>18 DEF phoneVars
<1> QED BY <1>1, <1>2, <1>3, <1>4, <1>5, <1>6, <1>7, <1>8, <1>9, <1>10, <1>11, <1>12, <1>13, <1>14,
     <1>15, <1>16, <1>17, <1>18 DEF PhoneNext

-----------------------------------------------------------------------------
(* The phone: who is in has registered                                     *)

\* How far a start has got that nothing has disturbed, and that a stop only runs with nobody in.
StartInv ==
    excuse = {} =>
        /\ SignedIn => started
        /\ started => SignedIn \/ \E t \in Tasks : task[t].pc \in {"leave", "cancel", "clear"}
        /\ \A t \in Tasks :
              /\ Stopping(t) => ~SignedIn
              /\ Starting(t) => SignedIn
              /\ task[t].pc = "withdraw" => ~started
              /\ task[t].pc \in {"asked", "store"} => task[t].by = user
              /\ task[t].pc \in {"store", "listen"} => user \in rows
              /\ task[t].pc = "listen" => deviceId = user
        /\ SignedIn /\ NothingRuns => user \in rows /\ deviceId = user

LEMMA StartInvStep == PhoneTypeOK /\ OneTask /\ StartInv /\ [PhoneNext]_phoneVars => StartInv'
<1> SUFFICES ASSUME PhoneTypeOK, OneTask, StartInv, [PhoneNext]_phoneVars PROVE StartInv'
  OBVIOUS
<1> USE DEF PhoneTypeOK, Task, NothingRuns, SignedIn, storage, coordinator,
    Starting, Stopping, OneTask, StartInv
<1>1. ASSUME NEW t \in Tasks, Restore(t) PROVE StartInv'
  BY <1>1 DEF Restore, Await, Start, Overlap
<1>2. ASSUME NEW t \in Tasks, StartThrows(t) PROVE StartInv'
  BY <1>2 DEF StartThrows, EndTask, Idle
<1>3. ASSUME NEW t \in Tasks, AskToRegister(t) PROVE StartInv'
  BY <1>3 DEF AskToRegister, Await
<1>4. ASSUME NEW t \in Tasks, Register(t) PROVE StartInv'
  BY <1>4 DEF Register, Await
<1>5. ASSUME NEW t \in Tasks, RegisterFails(t) PROVE StartInv'
  BY <1>5 DEF RegisterFails, Await
<1>6. ASSUME NEW t \in Tasks, StoreId(t) PROVE StartInv'
  BY <1>6 DEF StoreId, Await
<1>7. ASSUME NEW t \in Tasks, Listen(t) PROVE StartInv'
  BY <1>7 DEF Listen, EndTask, Idle
<1>8. ASSUME NEW t \in Tasks, LogOut(t) PROVE StartInv'
  BY <1>8 DEF LogOut, Await, Overlap
<1>9. ASSUME NEW t \in Tasks, Leave(t) PROVE StartInv'
  BY <1>9 DEF Leave, Await
<1>10. ASSUME NEW t \in Tasks, CancelSubscription(t) PROVE StartInv'
  BY <1>10 DEF CancelSubscription, Await
<1>11. ASSUME NEW t \in Tasks, Clear(t) PROVE StartInv'
  BY <1>11 DEF Clear, Await
<1>12. ASSUME NEW t \in Tasks, Withdraw(t) PROVE StartInv'
  BY <1>12 DEF Withdraw, EndTask, Idle
<1>13. ASSUME NEW u \in Holders, SignIn(u) PROVE StartInv'
  BY <1>13 DEF SignIn
<1>14. CASE SignOut
  BY <1>14 DEF SignOut, Overlap
<1>15. CASE DeleteAccount
  BY <1>15 DEF DeleteAccount, Overlap
<1>16. CASE LoseSession
  BY <1>16 DEF LoseSession, Overlap
<1>17. CASE Kill
  BY <1>17 DEF Kill, Idle
<1>18. CASE UNCHANGED phoneVars
  BY <1>18 DEF phoneVars
<1> QED BY <1>1, <1>2, <1>3, <1>4, <1>5, <1>6, <1>7, <1>8, <1>9, <1>10, <1>11, <1>12, <1>13, <1>14,
     <1>15, <1>16, <1>17, <1>18 DEF PhoneNext

\* Settings, the menu and a lost session leave the shell in different ways, and start returns early if it
\* was never stopped: whoever is in has registered the device all the same, and can withdraw it.
THEOREM PhoneRegistered == PhoneSpec => []StartedIsRegistered
<1>1. PhoneInit => OneTask /\ StartInv
  BY DEF PhoneInit, Idle, SignedIn, OneTask, StartInv, Starting, Stopping
<1>2. PhoneTypeOK /\ OneTask /\ StartInv /\ [PhoneNext]_phoneVars => OneTask' /\ StartInv'
  BY OneTaskStep, StartInvStep
<1>3. StartInv => StartedIsRegistered
  BY DEF StartInv, StartedIsRegistered
<1> QED BY <1>1, <1>2, <1>3, PhoneTypeCorrect, PTL DEF PhoneSpec

-----------------------------------------------------------------------------
(* The phone: one subscription                                             *)

\* A subscription that counts is the one that is held, and the coordinator is started while it counts.
SubscriptionInv ==
    "overlap" \notin excuse =>
        /\ live <= 1 /\ (live = 1 => sub = "live") /\ (~started => live = 0)
        /\ \A t \in Tasks :
              /\ Starting(t) => started /\ live = 0
              /\ task[t].pc = "clear" => live = 0
              /\ task[t].pc = "withdraw" => ~started

LEMMA SubscriptionStep ==
    PhoneTypeOK /\ OneTask /\ SubscriptionInv /\ [PhoneNext]_phoneVars => SubscriptionInv'
<1> SUFFICES ASSUME PhoneTypeOK, OneTask, SubscriptionInv, [PhoneNext]_phoneVars
             PROVE  SubscriptionInv'
  OBVIOUS
<1> USE DEF PhoneTypeOK, Task, NothingRuns, storage, coordinator, Starting, OneTask,
    SubscriptionInv
<1>1. ASSUME NEW t \in Tasks, Restore(t) PROVE SubscriptionInv'
  BY <1>1 DEF Restore, Await, Start, Overlap
<1>2. ASSUME NEW t \in Tasks, StartThrows(t) PROVE SubscriptionInv'
  BY <1>2 DEF StartThrows, EndTask, Idle
<1>3. ASSUME NEW t \in Tasks, AskToRegister(t) PROVE SubscriptionInv'
  BY <1>3 DEF AskToRegister, Await
<1>4. ASSUME NEW t \in Tasks, Register(t) PROVE SubscriptionInv'
  BY <1>4 DEF Register, Await
<1>5. ASSUME NEW t \in Tasks, RegisterFails(t) PROVE SubscriptionInv'
  BY <1>5 DEF RegisterFails, Await
<1>6. ASSUME NEW t \in Tasks, StoreId(t) PROVE SubscriptionInv'
  BY <1>6 DEF StoreId, Await
<1>7. ASSUME NEW t \in Tasks, Listen(t) PROVE SubscriptionInv'
  BY <1>7 DEF Listen, EndTask, Idle
<1>8. ASSUME NEW t \in Tasks, LogOut(t) PROVE SubscriptionInv'
  BY <1>8 DEF LogOut, Await, Overlap
<1>9. ASSUME NEW t \in Tasks, Leave(t) PROVE SubscriptionInv'
  BY <1>9 DEF Leave, Await
<1>10. ASSUME NEW t \in Tasks, CancelSubscription(t) PROVE SubscriptionInv'
  BY <1>10 DEF CancelSubscription, Await
<1>11. ASSUME NEW t \in Tasks, Clear(t) PROVE SubscriptionInv'
  BY <1>11 DEF Clear, Await
<1>12. ASSUME NEW t \in Tasks, Withdraw(t) PROVE SubscriptionInv'
  BY <1>12 DEF Withdraw, EndTask, Idle
<1>13. ASSUME NEW u \in Holders, SignIn(u) PROVE SubscriptionInv'
  BY <1>13 DEF SignIn
<1>14. CASE SignOut
  BY <1>14 DEF SignOut, Overlap
<1>15. CASE DeleteAccount
  BY <1>15 DEF DeleteAccount, Overlap
<1>16. CASE LoseSession
  BY <1>16 DEF LoseSession, Overlap
<1>17. CASE Kill
  BY <1>17 DEF Kill, Idle
<1>18. CASE UNCHANGED phoneVars
  BY <1>18 DEF phoneVars
<1> QED BY <1>1, <1>2, <1>3, <1>4, <1>5, <1>6, <1>7, <1>8, <1>9, <1>10, <1>11, <1>12, <1>13, <1>14,
     <1>15, <1>16, <1>17, <1>18 DEF PhoneNext

\* start keeps a subscription after four awaits and stop lets go of it before one: unless they overlap
\* there is never a second one, and none once stop is over.
THEOREM PhoneSubscribesOnce == PhoneSpec => []OneSubscription
<1>1. PhoneInit => OneTask /\ SubscriptionInv
  BY DEF PhoneInit, Idle, OneTask, SubscriptionInv, Starting
<1>2. PhoneTypeOK /\ OneTask /\ SubscriptionInv /\ [PhoneNext]_phoneVars => OneTask' /\ SubscriptionInv'
  BY OneTaskStep, SubscriptionStep
<1>3. SubscriptionInv => OneSubscription
  BY DEF SubscriptionInv, OneSubscription
<1> QED BY <1>1, <1>2, <1>3, PhoneTypeCorrect, PTL DEF PhoneSpec
=============================================================================
