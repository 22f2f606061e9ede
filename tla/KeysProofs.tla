----------------------------- MODULE KeysProofs -----------------------------
(***************************************************************************)
(* What holds of direct chats, blocks and one-time keys for any users,     *)
(* conversations, keys and requests, whoever asks for whatever: TypeOK,    *)
(* that a pair has one chat, that a one-time key's row is answered once,   *)
(* and that a block and a revocation shut out for as long as they stand.   *)
(* The applications of FirstContact are among the clients of Keys, so this *)
(* holds of them too; and the keys a server may hand out can be opened by  *)
(* the device that published them, wherever the application is killed.     *)
(* And what holds of the messages of a direct chat as one application      *)
(* keeps them, however loads, events and retries interleave: nothing is    *)
(* missed, no text is lost, and what is deleted does not come back.        *)
(***************************************************************************)
EXTENDS FirstContact, MessageCache, FiniteSetTheorems, SequenceTheorems, TLAPS

-----------------------------------------------------------------------------
(* Types                                                                   *)

\* The part of TypeOK about a request, and the part about all the rest.
RequestOK(q) ==
    /\ q \in Request
    /\ q.op # "none" => q.by # None
    /\ q.op \in {"create", "fetch"} => q.about # None
    /\ q.pc = "take" => q.row # None
RequestsOK == req \in [Requests -> Request] /\ \A r \in Requests : RequestOK(req[r])
RestOK ==
    /\ conv \in [Convs -> SUBSET Users]
    /\ blocks \subseteq Users \X Users
    /\ dev \in [Users -> {"none", "live", "revoked"}]
    /\ prekeys \subseteq Row
    /\ given \subseteq Row
    /\ pubs \in Nat

LEMMA TypeParts == TypeOK <=> RequestsOK /\ RestOK
BY DEF TypeOK, RequestsOK, RequestOK, RestOK

LEMMA NextParts == RequestsOK' /\ RestOK' => TypeOK'
BY DEF TypeOK, RequestsOK, RequestOK, RestOK

LEMMA NoneNoRow == None \notin Row
BY KeysAssumption DEF Row

LEMMA NoRequestOK == RequestOK(NoRequest)
BY DEF RequestOK, NoRequest, Request

LEMMA BecomesOK ==
    ASSUME RequestsOK, NEW r \in Requests, NEW q, RequestOK(q), Becomes(r, q)
    PROVE  RequestsOK'
BY DEF RequestsOK, RequestOK, Becomes

LEMMA EndOK ==
    ASSUME RequestsOK, NEW r \in Requests, End(r)
    PROVE  RequestsOK'
BY BecomesOK, NoRequestOK DEF End

LEMMA GotoOK ==
    ASSUME RequestsOK, NEW r \in Requests,
           NEW step \in {"find", "insert", "answer", "device", "delete", "commit", "choose", "done"},
           Goto(r, step)
    PROVE  RequestsOK'
<1>1. RequestOK([req[r] EXCEPT !.pc = step])
  BY DEF RequestsOK, RequestOK, Request
<1> QED BY <1>1, BecomesOK DEF Goto

\* A request of either kind is about users of the instance.
LEMMA Named ==
    ASSUME RequestsOK, NEW r \in Requests, req[r].op # "none"
    PROVE  /\ req[r].by \in Users
           /\ req[r].op \in {"create", "fetch"} => req[r].about \in Users
           /\ req[r] \in Request
BY DEF RequestsOK, RequestOK, Request

LEMMA AskedOK ==
    /\ \A u \in Users : \A v \in Users : RequestOK(Creating(u, v)) /\ RequestOK(Fetching(u, v))
    /\ \A u \in Users : \A K \in SUBSET Keys : RequestOK(Publishing(u, K))
<1>1. ASSUME NEW u \in Users, NEW v \in Users
      PROVE  RequestOK(Creating(u, v)) /\ RequestOK(Fetching(u, v))
  <2>1. u # None /\ v # None
    BY KeysAssumption
  <2> QED BY <2>1 DEF RequestOK, Creating, Fetching, NoRequest, Request
<1>2. ASSUME NEW u \in Users, NEW K \in SUBSET Keys
      PROVE  RequestOK(Publishing(u, K))
  <2>1. u # None
    BY KeysAssumption
  <2> QED BY <2>1 DEF RequestOK, Publishing, NoRequest, Request
<1> QED BY <1>1, <1>2

LEMMA BeginOK ==
    ASSUME RequestsOK, NEW r \in Requests, Begin(r)
    PROVE  RequestsOK' /\ UNCHANGED <<conv, blocks, dev, prekeys, given, pubs>>
BY AskedOK, BecomesOK DEF Begin, Ask

\* How a request begins: no key yet, and nothing done.
LEMMA AskedFresh ==
    ASSUME NEW u, NEW v, NEW K
    PROVE  /\ \A q \in {Creating(u, v), Fetching(u, v), Publishing(u, K)} :
                 q.pc \in {"blocked", "device"} /\ q.row = None /\ q.by = u
           /\ Creating(u, v).op = "create" /\ Creating(u, v).about = v /\ Creating(u, v).pc = "blocked"
           /\ Fetching(u, v).op = "fetch" /\ Fetching(u, v).about = v
           /\ Fetching(u, v).pc = (IF u = v THEN "device" ELSE "blocked")
           /\ Publishing(u, K).op = "publish" /\ Publishing(u, K).keys = K
BY DEF Creating, Fetching, Publishing, NoRequest

LEMMA BeginFresh ==
    ASSUME NEW r \in Requests, Begin(r)
    PROVE  \E q : Ask(r, q) /\ q.pc \in {"blocked", "device"} /\ q.row = None
BY AskedFresh DEF Begin

LEMMA BeginUnchecked ==
    ASSUME NEW r \in Requests, Begin(r)
    PROVE  \E q : Ask(r, q) /\ (q.pc \in {"idle", "blocked"} \/ q.op = "publish" \/ q.by = q.about)
<1>1. PICK u \in Users : \/ \E v \in Users \ {u} : Ask(r, Creating(u, v))
                         \/ \E v \in Users : Ask(r, Fetching(u, v))
                         \/ \E K \in SUBSET Keys : Ask(r, Publishing(u, K))
  BY DEF Begin
<1>2. ASSUME NEW v \in Users, Ask(r, Creating(u, v)) PROVE Creating(u, v).pc = "blocked"
  BY AskedFresh
<1>3. ASSUME NEW v \in Users, Ask(r, Fetching(u, v))
      PROVE  Fetching(u, v).pc = "blocked" \/ Fetching(u, v).by = Fetching(u, v).about
  BY AskedFresh
<1>4. ASSUME NEW K \in SUBSET Keys, Ask(r, Publishing(u, K)) PROVE Publishing(u, K).op = "publish"
  BY AskedFresh
<1> QED BY <1>1, <1>2, <1>3, <1>4

LEMMA ServeType ==
    ASSUME TypeOK, NEW r \in Requests, Serve(r)
    PROVE  TypeOK'
<1>0. RequestsOK /\ RestOK
  BY TypeParts
<1>1. CASE CheckBlocked(r)
  <2>1. RequestsOK'
    BY <1>0, <1>1, EndOK, GotoOK DEF CheckBlocked
  <2> QED BY <1>0, <1>1, <2>1, NextParts DEF CheckBlocked, RestOK
<1>2. CASE FindChat(r)
  <2>1. RequestsOK'
    BY <1>0, <1>2, EndOK, GotoOK DEF FindChat
  <2> QED BY <1>0, <1>2, <2>1, NextParts DEF FindChat, RestOK
<1>3. CASE CreateConversation(r)
  <2>1. RequestsOK'
    BY <1>0, <1>3, GotoOK DEF CreateConversation
  <2>2. Pair(r) \subseteq Users
    BY <1>0, <1>3, Named DEF CreateConversation, At, Pair
  <2>3. conv' \in [Convs -> SUBSET Users]
    BY <1>0, <1>3, <2>2 DEF CreateConversation, RestOK, ChatOf
  <2> QED BY <1>0, <1>3, <2>1, <2>3, NextParts DEF CreateConversation, RestOK
<1>4. CASE AnswerChat(r)
  <2>1. PICK c \in ChatOf(Pair(r)) : Becomes(r, [req[r] EXCEPT !.conv = c, !.pc = "done"])
    BY <1>4 DEF AnswerChat
  <2>2. RequestOK([req[r] EXCEPT !.conv = c, !.pc = "done"])
    BY <1>0 DEF RequestsOK, RequestOK, Request, ChatOf
  <2>3. RequestsOK'
    BY <1>0, <2>1, <2>2, BecomesOK
  <2> QED BY <1>0, <1>4, <2>3, NextParts DEF AnswerChat, RestOK
<1>5. CASE UpsertE2EDevice(r)
  <2>1. RequestsOK'
    BY <1>0, <1>5, GotoOK DEF UpsertE2EDevice
  <2> QED BY <1>0, <1>5, <2>1, NextParts DEF UpsertE2EDevice, RestOK
<1>6. CASE DeletePreKeys(r)
  <2>1. RequestOK([req[r] EXCEPT !.seen = Of(req[r].by), !.pc = "commit"])
    BY <1>0 DEF RequestsOK, RequestOK, Request, RestOK, Of
  <2>2. RequestsOK'
    BY <1>0, <1>6, <2>1, BecomesOK DEF DeletePreKeys
  <2> QED BY <1>0, <1>6, <2>2, NextParts DEF DeletePreKeys, RestOK
<1>7. CASE CommitPreKeys(r)
  <2>1. RequestsOK'
    BY <1>0, <1>7, EndOK DEF CommitPreKeys
  <2>2. {<<req[r].by, k, pubs + 1>> : k \in req[r].keys} \subseteq Row
    BY <1>0, <1>7, Named DEF CommitPreKeys, At, RestOK, Request, Row
  <2>3. prekeys' \subseteq Row /\ pubs' \in Nat
    BY <1>0, <1>7, <2>2 DEF CommitPreKeys, RestOK
  <2> QED BY <1>0, <1>7, <2>1, <2>3, NextParts DEF CommitPreKeys, RestOK
<1>8. CASE CheckChat(r)
  <2>1. RequestsOK'
    BY <1>0, <1>8, EndOK, GotoOK DEF CheckChat
  <2> QED BY <1>0, <1>8, <2>1, NextParts DEF CheckChat, RestOK
<1>9. CASE ReadDevice(r)
  <2>1. RequestsOK'
    BY <1>0, <1>9, EndOK, GotoOK DEF ReadDevice
  <2> QED BY <1>0, <1>9, <2>1, NextParts DEF ReadDevice, RestOK
<1>10. CASE ChoosePreKey(r)
  <2>1. ASSUME NEW x \in Of(req[r].about)
        PROVE  RequestOK([req[r] EXCEPT !.row = x, !.pc = "take"])
    <3>1. x \in Row /\ x # None
      BY <1>0, <2>1, NoneNoRow DEF RestOK, Of
    <3>2. RequestOK(req[r])
      BY <1>0 DEF RequestsOK
    <3> QED BY <3>1, <3>2 DEF RequestOK, Request
  <2>2. RequestsOK'
    BY <1>0, <1>10, <2>1, GotoOK, BecomesOK DEF ChoosePreKey
  <2> QED BY <1>0, <1>10, <2>2, NextParts DEF ChoosePreKey, RestOK
<1>11. CASE TakePreKey(r)
  <2>1. RequestOK([req[r] EXCEPT !.row = None, !.pc = "done"])
    BY <1>0 DEF RequestsOK, RequestOK, Request
  <2>2. RequestsOK'
    BY <1>0, <1>11, <2>1, GotoOK, BecomesOK DEF TakePreKey
  <2>3. prekeys' \subseteq Row /\ given' \subseteq Row
    BY <1>0, <1>11 DEF TakePreKey, RestOK
  <2> QED BY <1>0, <1>11, <2>2, <2>3, NextParts DEF TakePreKey, RestOK
<1> QED BY <1>1, <1>2, <1>3, <1>4, <1>5, <1>6, <1>7, <1>8, <1>9, <1>10, <1>11 DEF Serve

LEMMA NextType == TypeOK /\ [KeysNext]_keyVars => TypeOK'
<1> SUFFICES ASSUME TypeOK, [KeysNext]_keyVars PROVE TypeOK'
  OBVIOUS
<1>0. RequestsOK /\ RestOK
  BY TypeParts
<1>1. ASSUME NEW r \in Requests, Begin(r) PROVE TypeOK'
  BY <1>0, <1>1, BeginOK, NextParts DEF RestOK
<1>2. ASSUME NEW r \in Requests, Cancel(r) PROVE TypeOK'
  BY <1>0, <1>2, EndOK, NextParts DEF Cancel, RestOK
<1>3. ASSUME NEW u \in Users, NEW v \in Users, SetBlock(u, v) PROVE TypeOK'
  BY <1>0, <1>3, NextParts DEF SetBlock, RequestsOK, RestOK
<1>4. ASSUME NEW u \in Users, RevokeE2EDevice(u) PROVE TypeOK'
  BY <1>0, <1>4, NextParts DEF RevokeE2EDevice, RequestsOK, RestOK
<1>5. CASE UNCHANGED keyVars
  BY <1>0, <1>5, NextParts DEF keyVars, RequestsOK, RestOK
<1> QED BY <1>1, <1>2, <1>3, <1>4, <1>5, ServeType DEF KeysNext

LEMMA InitType == KeysInit => TypeOK
<1> SUFFICES ASSUME KeysInit PROVE TypeOK
  OBVIOUS
<1>1. RequestsOK
  BY NoRequestOK DEF KeysInit, RequestsOK, RequestOK
<1> QED BY <1>1, TypeParts DEF KeysInit, RestOK

\* Chats, blocks, devices and keys keep their types under every interleaving and cancellation, and a
\* fetch that takes a key names the row (TypeOK).
THEOREM TypeCorrect == KeysSpec => []TypeOK
BY InitType, NextType, PTL DEF KeysSpec

-----------------------------------------------------------------------------
(* One chat a pair                                                         *)

\* OneChat, with the id a request is answered being one of a row.
ChatInv ==
    /\ \A c, d \in Convs : conv[c] = conv[d] /\ conv[c] # {} => c = d
    /\ \A r \in Requests : At(r, {"create"}, "done") =>
          req[r].conv \in Convs /\ conv[req[r].conv] = Pair(r)

\* A step that writes no chat and leaves no request of CreateDirect done.
LEMMA ChatQuiet ==
    ASSUME TypeOK, ChatInv, NEW r \in Requests, NEW q, Becomes(r, q), UNCHANGED conv,
           ~(q.op = "create" /\ q.pc = "done")
    PROVE  ChatInv'
BY DEF TypeOK, ChatInv, Becomes, At, Pair

LEMMA ServeChat ==
    ASSUME TypeOK, ChatInv, NEW r \in Requests, Serve(r)
    PROVE  ChatInv'
<1>0. req[r] \in Request /\ ~(NoRequest.op = "create")
  BY DEF TypeOK, NoRequest
<1>1. CASE CreateConversation(r)
  <2>1. Pair(r) # {} /\ conv \in [Convs -> SUBSET Users] /\ req \in [Requests -> Request]
    BY DEF Pair, TypeOK
  <2>2. CASE ChatOf(Pair(r)) # {}
    BY <1>0, <1>1, <2>2, ChatQuiet DEF CreateConversation, Goto, Request
  <2>3. CASE ChatOf(Pair(r)) = {}
    <3>1. PICK c \in ChatOf({}) : conv' = [conv EXCEPT ![c] = Pair(r)]
      BY <1>1, <2>3 DEF CreateConversation
    <3>2. c \in Convs /\ conv[c] = {} /\ \A d \in Convs : conv[d] # Pair(r)
      BY <3>1, <2>3 DEF ChatOf
    <3>3. conv'[c] = Pair(r) /\ \A d \in Convs \ {c} : conv'[d] = conv[d]
      BY <2>1, <3>1, <3>2
    <3>4. \A d, e \in Convs : conv'[d] = conv'[e] /\ conv'[d] # {} => d = e
      BY <3>2, <3>3 DEF ChatInv
    <3>5. ASSUME NEW s \in Requests, At(s, {"create"}, "done")'
          PROVE  (req[s].conv \in Convs /\ conv[req[s].conv] = Pair(s))'
      <4>1. s # r /\ req'[s] = req[s]
        BY <1>0, <1>1, <2>1, <3>5 DEF CreateConversation, Goto, Becomes, At, Request
      <4>2. req[s].conv \in Convs /\ conv[req[s].conv] = Pair(s)
        BY <3>5, <4>1 DEF ChatInv, At
      <4>3. req[s].conv # c
        BY <3>2, <4>2 DEF Pair
      <4> QED BY <3>3, <4>1, <4>2, <4>3 DEF Pair
    <3> QED BY <3>4, <3>5 DEF ChatInv
  <2> QED BY <2>2, <2>3
<1>2. CASE AnswerChat(r)
  BY <1>0, <1>2 DEF AnswerChat, Becomes, ChatInv, ChatOf, At, Pair, TypeOK, Request
<1>3. CASE CheckBlocked(r)
  BY <1>0, <1>3, ChatQuiet DEF CheckBlocked, Goto, End, Request
<1>4. CASE FindChat(r)
  BY <1>0, <1>4, ChatQuiet DEF FindChat, Goto, End, Request
<1>5. CASE UpsertE2EDevice(r)
  BY <1>0, <1>5, ChatQuiet DEF UpsertE2EDevice, Goto, Request
<1>6. CASE DeletePreKeys(r)
  BY <1>0, <1>6, ChatQuiet DEF DeletePreKeys, Request
<1>7. CASE CommitPreKeys(r)
  BY <1>0, <1>7, ChatQuiet DEF CommitPreKeys, End
<1>8. CASE CheckChat(r)
  BY <1>0, <1>8, ChatQuiet DEF CheckChat, Goto, End, Request
<1>9. CASE ReadDevice(r)
  BY <1>0, <1>9, ChatQuiet DEF ReadDevice, Goto, End, At, Request
<1>10. CASE ChoosePreKey(r)
  BY <1>0, <1>10, ChatQuiet DEF ChoosePreKey, Goto, At, Request
<1>11. CASE TakePreKey(r)
  BY <1>0, <1>11, ChatQuiet DEF TakePreKey, Goto, At, Request
<1> QED BY <1>1, <1>2, <1>3, <1>4, <1>5, <1>6, <1>7, <1>8, <1>9, <1>10, <1>11 DEF Serve

LEMMA NextChat == TypeOK /\ ChatInv /\ [KeysNext]_keyVars => ChatInv'
<1> SUFFICES ASSUME TypeOK, ChatInv, [KeysNext]_keyVars PROVE ChatInv'
  OBVIOUS
<1>1. ASSUME NEW r \in Requests, Begin(r) PROVE ChatInv'
  <2>1. PICK q : Ask(r, q) /\ q.pc \in {"blocked", "device"}
    BY <1>1, BeginFresh
  <2> QED BY <2>1, ChatQuiet DEF Ask
<1>2. ASSUME NEW r \in Requests, Cancel(r) PROVE ChatInv'
  BY <1>2, ChatQuiet DEF Cancel, End, NoRequest
<1>3. ASSUME NEW u \in Users, NEW v \in Users, SetBlock(u, v) \/ RevokeE2EDevice(u) PROVE ChatInv'
  BY <1>3 DEF SetBlock, RevokeE2EDevice, ChatInv, At, Pair
<1>4. CASE UNCHANGED keyVars
  BY <1>4 DEF keyVars, ChatInv, At, Pair
<1> QED BY <1>1, <1>2, <1>3, <1>4, ServeChat DEF KeysNext

LEMMA InitChat == KeysInit => ChatInv
BY DEF KeysInit, ChatInv, At, NoRequest

LEMMA ChatInvOneChat == ChatInv => OneChat
BY DEF ChatInv, OneChat

\* However many calls of CreateDirect overlap, a pair has one chat and they are answered that one
\* (OneChat).
THEOREM PairHasOneChat == KeysSpec => []OneChat
<1>1. TypeOK /\ ChatInv /\ [KeysNext]_keyVars => TypeOK' /\ ChatInv'
  BY NextType, NextChat
<1>2. KeysInit => TypeOK /\ ChatInv
  BY InitType, InitChat
<1> QED BY <1>1, <1>2, ChatInvOneChat, PTL DEF KeysSpec

-----------------------------------------------------------------------------
(* One-time keys                                                           *)

\* A fetch that takes or has no key yet.
Empty(q) == q.op = "fetch" /\ q.pc # "take" => q.row = None

\* HandedOnce, with the rows of past and present publications numbered and what was taken kept.
HandInv ==
    /\ given \cap prekeys = {}
    /\ \A x \in given \cup prekeys : x[3] <= pubs
    /\ \A r \in Requests : req[r].pc # "done" => Empty(req[r])
    /\ \A r \in Requests : Taken(r) => req[r].row \in given
    /\ \A r, s \in Requests : Taken(r) /\ Taken(s) /\ req[r].row = req[s].row => r = s

\* A step that touches no key and leaves its request without one.
LEMMA HandQuiet ==
    ASSUME TypeOK, HandInv, NEW r \in Requests, NEW q, Becomes(r, q), Empty(q),
           UNCHANGED <<prekeys, given, pubs>>
    PROVE  HandInv'
<1>1. req'[r] = q /\ \A s \in Requests \ {r} : req'[s] = req[s]
  BY DEF TypeOK, Becomes
<1>2. ~Taken(r)' /\ \A s \in Requests \ {r} : Taken(s)' = Taken(s)
  BY <1>1 DEF Taken, At, Empty
<1> QED BY <1>1, <1>2 DEF HandInv

LEMMA NoRequestEmpty == Empty(NoRequest)
BY DEF Empty, NoRequest

LEMMA CommitHand ==
    ASSUME TypeOK, HandInv, NEW r \in Requests, CommitPreKeys(r)
    PROVE  HandInv'
<1>1. CASE UNCHANGED <<prekeys, pubs>>
  BY <1>1, HandQuiet, NoRequestEmpty DEF CommitPreKeys, End
<1>2. CASE /\ prekeys' = (prekeys \ req[r].seen) \cup {<<req[r].by, k, pubs + 1>> : k \in req[r].keys}
           /\ pubs' = pubs + 1
  <2>1. req'[r] = NoRequest /\ \A s \in Requests \ {r} : req'[s] = req[s]
    BY DEF TypeOK, CommitPreKeys, End, Becomes
  <2>2. ~Taken(r)' /\ \A s \in Requests \ {r} : Taken(s)' = Taken(s)
    BY <2>1 DEF Taken, At, NoRequest
  <2>3. given' = given /\ pubs \in Nat /\ given \subseteq Row /\ prekeys \subseteq Row
    BY DEF CommitPreKeys, TypeOK
  <2>4. \A x \in Row : x[3] \in Nat
    BY DEF Row
  <2>5. \A x \in given : x[3] <= pubs /\ x[3] \in Nat
    BY <2>3, <2>4 DEF HandInv
  <2>6. \A k \in req[r].keys : <<req[r].by, k, pubs + 1>> \notin given
    BY <2>3, <2>5
  <2>7. given' \cap prekeys' = {}
    BY <1>2, <2>3, <2>6 DEF HandInv
  <2>8. \A x \in given' \cup prekeys' : x[3] <= pubs'
    BY <1>2, <2>3, <2>4 DEF HandInv
  <2>9. \A s \in Requests : req'[s].pc # "done" => Empty(req[s])'
    BY <2>1, NoRequestEmpty DEF HandInv, Empty
  <2> QED BY <2>1, <2>2, <2>3, <2>7, <2>8, <2>9 DEF HandInv
<1> QED BY <1>1, <1>2 DEF CommitPreKeys

LEMMA TakeHand ==
    ASSUME TypeOK, HandInv, NEW r \in Requests, TakePreKey(r)
    PROVE  HandInv'
<1>0. req[r] \in Request /\ req \in [Requests -> Request] /\ req[r].op = "fetch"
  BY DEF TypeOK, TakePreKey, At
<1>1. CASE req[r].row \notin prekeys
  BY <1>0, <1>1, HandQuiet DEF TakePreKey, Empty, Request
<1>2. CASE req[r].row \in prekeys
  <2>1. /\ prekeys' = prekeys \ {req[r].row} /\ given' = given \cup {req[r].row} /\ pubs' = pubs
        /\ req' = [req EXCEPT ![r].pc = "done"]
    BY <1>0, <1>2 DEF TakePreKey, Goto, Becomes
  <2>2. req'[r] = [req[r] EXCEPT !.pc = "done"] /\ \A s \in Requests \ {r} : req'[s] = req[s]
    BY <1>0, <2>1
  <2>3. req'[r].row = req[r].row /\ req'[r].pc = "done" /\ req'[r].op = "fetch"
    BY <1>0, <2>2 DEF Request
  <2>4. \A s \in Requests \ {r} : Taken(s)' = Taken(s)
    BY <2>2 DEF Taken, At
  <2>5. \A s \in Requests \ {r} : Taken(s) => req[s].row # req[r].row
    BY <1>2 DEF HandInv
  <2>6. given' \cap prekeys' = {} /\ \A x \in given' \cup prekeys' : x[3] <= pubs'
    BY <1>2, <2>1 DEF HandInv
  <2>7. \A s \in Requests : req'[s].pc # "done" => Empty(req[s])'
    BY <2>2, <2>3 DEF HandInv, Empty
  <2>8. \A s \in Requests : Taken(s)' => req'[s].row \in given'
    BY <2>1, <2>2, <2>3, <2>4 DEF HandInv
  <2>9. \A s, t \in Requests : Taken(s)' /\ Taken(t)' /\ req'[s].row = req'[t].row => s = t
    BY <2>2, <2>3, <2>4, <2>5 DEF HandInv
  <2> QED BY <2>6, <2>7, <2>8, <2>9 DEF HandInv
<1> QED BY <1>1, <1>2

LEMMA ServeHand ==
    ASSUME TypeOK, HandInv, NEW r \in Requests, Serve(r)
    PROVE  HandInv'
<1>0. /\ req[r] \in Request
      /\ req[r].op = "fetch" /\ req[r].pc \notin {"take", "done"} => req[r].row = None
  BY DEF TypeOK, HandInv, Empty
<1>1. CASE CheckBlocked(r)
  BY <1>0, <1>1, HandQuiet, NoRequestEmpty DEF CheckBlocked, Goto, End, At, Request, Empty
<1>2. CASE FindChat(r)
  BY <1>0, <1>2, HandQuiet DEF FindChat, Goto, At, Request, Empty
<1>3. CASE CreateConversation(r)
  BY <1>0, <1>3, HandQuiet DEF CreateConversation, Goto, At, Request, Empty
<1>4. CASE AnswerChat(r)
  BY <1>0, <1>4, HandQuiet DEF AnswerChat, At, Request, Empty
<1>5. CASE UpsertE2EDevice(r)
  BY <1>0, <1>5, HandQuiet DEF UpsertE2EDevice, Goto, At, Request, Empty
<1>6. CASE DeletePreKeys(r)
  BY <1>0, <1>6, HandQuiet DEF DeletePreKeys, At, Request, Empty
<1>7. CASE CheckChat(r)
  BY <1>0, <1>7, HandQuiet, NoRequestEmpty DEF CheckChat, Goto, End, At, Request, Empty
<1>8. CASE ReadDevice(r)
  BY <1>0, <1>8, HandQuiet, NoRequestEmpty DEF ReadDevice, Goto, End, At, Request, Empty
<1>9. CASE ChoosePreKey(r)
  BY <1>0, <1>9, HandQuiet DEF ChoosePreKey, Goto, At, Request, Empty
<1> QED BY <1>1, <1>2, <1>3, <1>4, <1>5, <1>6, <1>7, <1>8, <1>9, CommitHand, TakeHand DEF Serve

LEMMA NextHand == TypeOK /\ HandInv /\ [KeysNext]_keyVars => HandInv'
<1> SUFFICES ASSUME TypeOK, HandInv, [KeysNext]_keyVars PROVE HandInv'
  OBVIOUS
<1>1. ASSUME NEW r \in Requests, Begin(r) PROVE HandInv'
  <2>1. PICK q : Ask(r, q) /\ Empty(q)
    BY <1>1, BeginFresh DEF Empty
  <2> QED BY <2>1, HandQuiet DEF Ask
<1>2. ASSUME NEW r \in Requests, Cancel(r) PROVE HandInv'
  BY <1>2, HandQuiet, NoRequestEmpty DEF Cancel, End
<1>3. ASSUME NEW u \in Users, NEW v \in Users, SetBlock(u, v) \/ RevokeE2EDevice(u) PROVE HandInv'
  BY <1>3 DEF SetBlock, RevokeE2EDevice, HandInv, Taken, At, Empty
<1>4. CASE UNCHANGED keyVars
  BY <1>4 DEF keyVars, HandInv, Taken, At, Empty
<1> QED BY <1>1, <1>2, <1>3, <1>4, ServeHand DEF KeysNext

LEMMA InitHand == KeysInit => HandInv
BY NoRequestEmpty DEF KeysInit, HandInv, Taken, At, NoRequest

LEMMA HandInvHandedOnce == HandInv => HandedOnce
BY DEF HandInv, HandedOnce

\* Whatever fetches and publications overlap, no row of a one-time key is answered twice (HandedOnce).
THEOREM KeysAreHandedOnce == KeysSpec => []HandedOnce
<1>1. TypeOK /\ HandInv /\ [KeysNext]_keyVars => TypeOK' /\ HandInv'
  BY NextType, NextHand
<1>2. KeysInit => TypeOK /\ HandInv
  BY InitType, InitHand
<1> QED BY <1>1, <1>2, HandInvHandedOnce, PTL DEF KeysSpec

-----------------------------------------------------------------------------
(* Blocks and revocations                                                  *)

\* What a step of its requests may do to a pair that is shut out.
Kept(u, v) ==
    /\ \A r \in Requests : ~Passed(r, u, v)'
    /\ ChatOf({u, v}) = {} => ChatOf({u, v})' = {}

LEMMA KeptQuiet ==
    ASSUME TypeOK, NEW u \in Users, NEW v \in Users, ShutOut(u, v), NEW r \in Requests, NEW q,
           Becomes(r, q), UNCHANGED conv,
           \/ q.pc \in {"idle", "blocked"} \/ q.op \notin {"create", "fetch"}
           \/ q.op = req[r].op /\ q.by = req[r].by /\ q.about = req[r].about /\ req[r].pc \notin {"idle", "blocked"}
           \/ ~Blocked(q.by, q.about) \/ q.by = q.about
    PROVE  Kept(u, v)
<1>1. req'[r] = q /\ \A s \in Requests \ {r} : req'[s] = req[s]
  BY DEF TypeOK, Becomes
<1>2. \A s \in Requests \ {r} : ~Passed(s, u, v)'
  BY <1>1 DEF ShutOut, Passed, Pair
<1>3. ASSUME q.pc \notin {"idle", "blocked"},
             \/ q.op = "create" /\ {q.by, q.about} = {u, v}
             \/ q.op = "fetch" /\ q.by = u /\ q.about = v
      PROVE  FALSE
  <2>1. q.by # q.about /\ Blocked(q.by, q.about)
    BY <1>3 DEF ShutOut, Blocked
  <2>2. /\ q.op = req[r].op /\ q.by = req[r].by /\ q.about = req[r].about
        /\ req[r].pc \notin {"idle", "blocked"}
    BY <1>3, <2>1
  <2> QED BY <1>3, <2>2 DEF ShutOut, Passed, Pair
<1>4. ~Passed(r, u, v)'
  BY <1>1, <1>3 DEF Passed, Pair
<1> QED BY <1>2, <1>4 DEF Kept, ChatOf

LEMMA ServeKept ==
    ASSUME TypeOK, NEW u \in Users, NEW v \in Users, ShutOut(u, v), NEW r \in Requests, Serve(r)
    PROVE  Kept(u, v)
<1>0. req[r] \in Request /\ NoRequest.pc = "idle"
  BY DEF TypeOK, NoRequest
<1>1. CASE CheckBlocked(r)
  BY <1>0, <1>1, KeptQuiet DEF CheckBlocked, Goto, End, Request
<1>2. CASE FindChat(r)
  BY <1>0, <1>2, KeptQuiet DEF FindChat, Goto, At, Request
<1>3. CASE CreateConversation(r)
  <2>1. Pair(r) # {u, v}
    BY <1>3 DEF CreateConversation, At, ShutOut, Passed
  <2>2. ChatOf({u, v}) = {} => ChatOf({u, v})' = {}
    BY <1>3, <2>1 DEF CreateConversation, ChatOf, TypeOK
  <2>3. req'[r] = [req[r] EXCEPT !.pc = "answer"] /\ \A s \in Requests \ {r} : req'[s] = req[s]
    BY <1>3 DEF CreateConversation, Goto, Becomes, TypeOK
  <2>4. \A s \in Requests : ~Passed(s, u, v)'
    BY <1>0, <1>3, <2>3 DEF ShutOut, CreateConversation, At, Passed, Pair, Request
  <2> QED BY <2>2, <2>4 DEF Kept
<1>4. CASE AnswerChat(r)
  BY <1>0, <1>4, KeptQuiet DEF AnswerChat, At, Request
<1>5. CASE UpsertE2EDevice(r)
  BY <1>0, <1>5, KeptQuiet DEF UpsertE2EDevice, Goto, At, Request
<1>6. CASE DeletePreKeys(r)
  BY <1>0, <1>6, KeptQuiet DEF DeletePreKeys, At, Request
<1>7. CASE CommitPreKeys(r)
  BY <1>0, <1>7, KeptQuiet DEF CommitPreKeys, End
<1>8. CASE CheckChat(r)
  BY <1>0, <1>8, KeptQuiet DEF CheckChat, Goto, End, At, Request
<1>9. CASE ReadDevice(r)
  BY <1>0, <1>9, KeptQuiet DEF ReadDevice, Goto, End, At, Request
<1>10. CASE ChoosePreKey(r)
  BY <1>0, <1>10, KeptQuiet DEF ChoosePreKey, Goto, At, Request
<1>11. CASE TakePreKey(r)
  BY <1>0, <1>11, KeptQuiet DEF TakePreKey, Goto, At, Request
<1> QED BY <1>1, <1>2, <1>3, <1>4, <1>5, <1>6, <1>7, <1>8, <1>9, <1>10, <1>11 DEF Serve

\* A block that stands, once the requests that had passed its check are over, keeps the pair from a
\* chat and from a bundle (BlockedGetsNothing).
THEOREM BlockShutsOut == KeysSpec => BlockedGetsNothing
<1>1. ASSUME TypeOK, [KeysNext]_keyVars, NEW u \in Users, NEW v \in Users,
             ShutOut(u, v), Blocked(u, v)'
      PROVE  ShutOut(u, v)' /\ (ChatOf({u, v}) = {} => ChatOf({u, v})' = {})
  <2>1. ASSUME NEW r \in Requests, Begin(r) PROVE Kept(u, v)
    <3>1. PICK q : Ask(r, q) /\ (q.pc \in {"idle", "blocked"} \/ q.op = "publish" \/ q.by = q.about)
      BY <2>1, BeginUnchecked
    <3> QED BY <1>1, <3>1, KeptQuiet DEF Ask
  <2>2. ASSUME NEW r \in Requests, Cancel(r) PROVE Kept(u, v)
    BY <1>1, <2>2, KeptQuiet DEF Cancel, End, NoRequest
  <2>3. ASSUME NEW r \in Requests, Serve(r) PROVE Kept(u, v)
    BY <1>1, <2>3, ServeKept
  <2>4. ASSUME NEW a \in Users, NEW b \in Users, SetBlock(a, b) PROVE Kept(u, v)
    BY <1>1, <2>4 DEF SetBlock, Kept, ShutOut, Passed, Pair, ChatOf
  <2>5. ASSUME NEW a \in Users, RevokeE2EDevice(a) PROVE Kept(u, v)
    BY <1>1, <2>5 DEF RevokeE2EDevice, Kept, ShutOut, Passed, Pair, ChatOf
  <2>6. ASSUME UNCHANGED keyVars PROVE Kept(u, v)
    BY <1>1, <2>6 DEF keyVars, Kept, ShutOut, Passed, Pair, ChatOf
  <2>7. Kept(u, v)
    BY <1>1, <2>1, <2>2, <2>3, <2>4, <2>5, <2>6 DEF KeysNext
  <2> QED BY <1>1, <2>7 DEF Kept, ShutOut
<1>2. TypeOK /\ [KeysNext]_keyVars =>
        \A u, v \in Users : ShutOut(u, v) /\ Blocked(u, v)' =>
           ShutOut(u, v)' /\ (ChatOf({u, v}) = {} => ChatOf({u, v})' = {})
  BY <1>1
<1> QED BY <1>2, TypeCorrect, PTL DEF KeysSpec, BlockedGetsNothing

\* A request that has read the device or may revive it.
Reading(q, u) == q.about = u /\ q.op = "fetch" /\ q.pc \in {"choose", "take", "done"}

LEMMA ReadsQuiet ==
    ASSUME TypeOK, NEW u \in Users, ~Reads(u), NEW r \in Requests, NEW q, Becomes(r, q),
           Reading(q, u) => Reading(req[r], u)
    PROVE  ~Reads(u)'
<1>1. req'[r] = q /\ \A s \in Requests \ {r} : req'[s] = req[s]
  BY DEF TypeOK, Becomes
<1> QED BY <1>1 DEF Reads, Reading

LEMMA ServeReads ==
    ASSUME TypeOK, NEW u \in Users, dev[u] = "revoked", ~Reads(u), ~Publishes(u),
           NEW r \in Requests, Serve(r)
    PROVE  dev'[u] = "revoked" /\ ~Reads(u)'
<1>0. req[r] \in Request
  BY DEF TypeOK
<1>1. CASE CheckBlocked(r)
  BY <1>0, <1>1, ReadsQuiet DEF CheckBlocked, Goto, End, NoRequest, At, Request, Reading
<1>2. CASE FindChat(r)
  BY <1>0, <1>2, ReadsQuiet DEF FindChat, Goto, At, Request, Reading
<1>3. CASE CreateConversation(r)
  BY <1>0, <1>3, ReadsQuiet DEF CreateConversation, Goto, At, Request, Reading
<1>4. CASE AnswerChat(r)
  BY <1>0, <1>4, ReadsQuiet DEF AnswerChat, At, Request, Reading
<1>5. CASE UpsertE2EDevice(r)
  <2>1. req[r].by # u
    BY <1>5 DEF UpsertE2EDevice, Publishes
  <2>2. dev'[u] = "revoked"
    BY <1>5, <2>1 DEF UpsertE2EDevice, TypeOK
  <2> QED BY <1>0, <1>5, <2>2, ReadsQuiet DEF UpsertE2EDevice, Goto, At, Request, Reading
<1>6. CASE DeletePreKeys(r)
  BY <1>0, <1>6, ReadsQuiet DEF DeletePreKeys, At, Request, Reading
<1>7. CASE CommitPreKeys(r)
  BY <1>0, <1>7, ReadsQuiet DEF CommitPreKeys, End, NoRequest, Reading
<1>8. CASE CheckChat(r)
  BY <1>0, <1>8, ReadsQuiet DEF CheckChat, Goto, End, NoRequest, At, Request, Reading
<1>9. CASE ReadDevice(r)
  BY <1>0, <1>9, ReadsQuiet DEF ReadDevice, ServesKeys, Goto, End, NoRequest, At, Request, Reading
<1>10. CASE ChoosePreKey(r)
  BY <1>0, <1>10, ReadsQuiet DEF ChoosePreKey, Goto, At, Request, Reading
<1>11. CASE TakePreKey(r)
  BY <1>0, <1>11, ReadsQuiet DEF TakePreKey, Goto, At, Request, Reading
<1> QED BY <1>1, <1>2, <1>3, <1>4, <1>5, <1>6, <1>7, <1>8, <1>9, <1>10, <1>11 DEF Serve

\* Without a publication under way a revoked device's keys are answered to nobody again
\* (RevokedServesNothing).
THEOREM RevocationHolds == KeysSpec => RevokedServesNothing
<1>1. ASSUME TypeOK, [KeysNext]_keyVars, NEW u \in Users,
             dev[u] = "revoked", ~Reads(u), ~Publishes(u)
      PROVE  dev'[u] = "revoked" /\ ~Reads(u)'
  <2>1. ASSUME NEW r \in Requests, Begin(r) PROVE dev'[u] = "revoked" /\ ~Reads(u)'
    <3>1. PICK q : Ask(r, q) /\ q.pc \in {"blocked", "device"}
      BY <2>1, BeginFresh
    <3> QED BY <1>1, <3>1, ReadsQuiet DEF Ask, Reading
  <2>2. ASSUME NEW r \in Requests, Cancel(r) PROVE dev'[u] = "revoked" /\ ~Reads(u)'
    BY <1>1, <2>2, ReadsQuiet DEF Cancel, End, NoRequest, Reading
  <2>3. ASSUME NEW a \in Users, NEW b \in Users, SetBlock(a, b) \/ RevokeE2EDevice(a)
        PROVE  dev'[u] = "revoked" /\ ~Reads(u)'
    BY <1>1, <2>3 DEF SetBlock, RevokeE2EDevice, Reads, TypeOK
  <2>4. CASE UNCHANGED keyVars
    BY <1>1, <2>4 DEF keyVars, Reads
  <2> QED BY <1>1, <2>1, <2>2, <2>3, <2>4, ServeReads DEF KeysNext
<1>2. TypeOK /\ [KeysNext]_keyVars =>
        \A u \in Users : dev[u] = "revoked" /\ ~Reads(u) /\ ~Publishes(u) =>
           (dev[u]' = "revoked" /\ ~Reads(u)')
  BY <1>1
<1> QED BY <1>2, TypeCorrect, PTL DEF KeysSpec, RevokedServesNothing

-----------------------------------------------------------------------------
(* The applications                                                        *)

ClientOK ==
    /\ disk \in [Owners -> SUBSET Keys] /\ mem \in [Owners -> SUBSET Keys]
    /\ made \in [Owners -> Nat] /\ starts \in [Owners -> 0..MaxStarts]
    /\ app \in [Owners -> {"off", "export", "persist", "post", "running"}]
    /\ met \subseteq Peers \X Owners
    /\ letters \subseteq Peers \X Owners \X Keys \X Nat
    /\ \A u \in Owners : app[u] = "off" => mem[u] = {}
\* Keys are fetched by peers from owners.
Asker(q) == q.op = "fetch" => q.by \in Peers /\ q.about \in Owners
ContactInv == TypeOK /\ ClientOK /\ \A r \in Requests : Asker(req[r])

LEMMA ContactParts == ContactInv => ContactTypeOK
BY DEF ContactInv, ClientOK, ContactTypeOK

\* Every step of the applications is one of the clients of Keys, or none of the server's.
LEMMA StepImplements == ContactInv /\ [ContactNext]_vars => [KeysNext]_keyVars
<1> SUFFICES ASSUME ContactInv, [ContactNext]_vars PROVE [KeysNext]_keyVars
  OBVIOUS
<1>1. ASSUME NEW u \in Owners, Start(u) \/ TopUp(u) \/ Persist(u) \/ Kill(u)
      PROVE  UNCHANGED keyVars
  BY <1>1 DEF Start, TopUp, Persist, Kill, keyVars
<1>2. ASSUME NEW u \in Owners, NEW r \in Requests, Post(u, r) PROVE KeysNext
  <2>1. u \in Users /\ mem[u] \in SUBSET Keys
    BY FirstContactAssumption DEF ContactInv, ClientOK
  <2>2. Begin(r)
    BY <1>2, <2>1 DEF Post, Begin
  <2> QED BY <2>2 DEF KeysNext
<1>3. ASSUME NEW p \in Peers, NEW u \in Owners, NEW r \in Requests, Create(p, u, r) \/ Fetch(p, u, r)
      PROVE  KeysNext
  <2>1. p \in Users /\ u \in Users \ {p}
    BY FirstContactAssumption
  <2>2. Begin(r)
    BY <1>3, <2>1 DEF Create, Fetch, Begin
  <2> QED BY <2>2 DEF KeysNext
<1>4. ASSUME NEW r \in Requests, Write(r) PROVE KeysNext
  <2>1. Cancel(r)
    BY <1>4 DEF Write, Cancel, At
  <2> QED BY <2>1 DEF KeysNext
<1>5. ASSUME NEW l \in letters, Open(l) PROVE UNCHANGED keyVars
  BY <1>5 DEF Open, keyVars
<1>6. ASSUME Server PROVE KeysNext
  <2>1. CASE \E r \in Requests : Serve(r) \/ Cancel(r)
    BY <2>1 DEF KeysNext
  <2>2. CASE \E u \in Owners, v \in Peers : Cardinality(blocks \ {<<u, v>>}) < MaxBlocked /\ SetBlock(u, v)
    BY <2>2, FirstContactAssumption DEF KeysNext
  <2>3. CASE \E u \in Owners : RevokeE2EDevice(u)
    BY <2>3, FirstContactAssumption DEF KeysNext
  <2> QED BY <1>6, <2>1, <2>2, <2>3 DEF Server
<1>7. ASSUME UNCHANGED vars PROVE UNCHANGED keyVars
  BY <1>7 DEF vars, keyVars
<1> QED BY <1>1, <1>2, <1>3, <1>4, <1>5, <1>6, <1>7 DEF ContactNext, Client

LEMMA ServeAsker ==
    ASSUME TypeOK, NEW r \in Requests, Serve(r) \/ Cancel(r), Asker(req[r])
    PROVE  /\ Asker(req[r])' /\ \A s \in Requests \ {r} : req'[s] = req[s]
           /\ \E q : Becomes(r, q) /\ (q = NoRequest \/ (q.op = req[r].op /\ q.by = req[r].by /\ q.keys = req[r].keys))
<1>0. req[r] \in Request /\ req \in [Requests -> Request]
  BY DEF TypeOK
<1>1. ASSUME NEW q, Becomes(r, q), q = NoRequest \/ (q.op = req[r].op /\ q.by = req[r].by /\ q.about = req[r].about)
      PROVE  Asker(req[r])' /\ \A s \in Requests \ {r} : req'[s] = req[s]
  BY <1>0, <1>1 DEF Becomes, Asker, NoRequest
<1> DEFINE Keeps(q) == q = NoRequest \/ (q.op = req[r].op /\ q.by = req[r].by /\ q.about = req[r].about
                                        /\ q.keys = req[r].keys)
<1>2. /\ \A step : Keeps([req[r] EXCEPT !.pc = step])
      /\ \A c : Keeps([req[r] EXCEPT !.conv = c, !.pc = "done"])
      /\ \A x, step : Keeps([req[r] EXCEPT !.row = x, !.pc = step])
      /\ \A x : Keeps([req[r] EXCEPT !.seen = x, !.pc = "commit"])
      /\ Keeps(NoRequest)
  BY <1>0 DEF Request
<1>3. \A q : Keeps(q) => (q = NoRequest \/ (q.op = req[r].op /\ q.by = req[r].by /\ q.about = req[r].about))
  OBVIOUS
<1> HIDE DEF Keeps
<1>4. PICK q : Becomes(r, q) /\ Keeps(q)
  <2>1. CASE CheckBlocked(r) \/ FindChat(r) \/ CreateConversation(r) \/ UpsertE2EDevice(r)
    BY <1>2, <2>1 DEF CheckBlocked, FindChat, CreateConversation, UpsertE2EDevice, Goto, End
  <2>2. CASE CommitPreKeys(r) \/ CheckChat(r) \/ ReadDevice(r) \/ Cancel(r)
    BY <1>2, <2>2 DEF CommitPreKeys, CheckChat, ReadDevice, Cancel, Goto, End
  <2>3. CASE AnswerChat(r) \/ DeletePreKeys(r)
    BY <1>2, <2>3 DEF AnswerChat, DeletePreKeys
  <2>4. CASE ChoosePreKey(r) \/ TakePreKey(r)
    BY <1>2, <2>4 DEF ChoosePreKey, TakePreKey, Goto
  <2> QED BY <2>1, <2>2, <2>3, <2>4 DEF Serve
<1>5. Asker(req[r])' /\ \A s \in Requests \ {r} : req'[s] = req[s]
  BY <1>1, <1>3, <1>4
<1> QED BY <1>4, <1>5 DEF Keeps

LEMMA NextContact == ContactInv /\ [ContactNext]_vars => ContactInv'
<1> SUFFICES ASSUME ContactInv, [ContactNext]_vars PROVE ContactInv'
  OBVIOUS
<1>0. TypeOK' /\ TypeOK /\ ClientOK
  BY StepImplements, NextType DEF ContactInv
<1> USE DEF ContactInv
<1>1. ASSUME NEW u \in Owners, Start(u) PROVE ContactInv'
  <2>1. starts[u] + 1 \in 0..MaxStarts
    BY <1>0, <1>1, FirstContactAssumption DEF ClientOK, Start
  <2>2. ClientOK'
    BY <1>0, <1>1, <2>1 DEF ClientOK, Start
  <2> QED BY <1>0, <1>1, <2>2 DEF Start, keyVars, Asker
<1>2. ASSUME NEW u \in Owners, TopUp(u) PROVE ContactInv'
  <2> DEFINE need == IF Cardinality(mem[u]) < Few THEN Full - Cardinality(mem[u]) ELSE 0
             new == made[u] + 1 .. made[u] + need
  <2>1. Cardinality(mem[u]) \in Nat
    BY <1>0, FirstContactAssumption, FS_Subset, FS_CardinalityType DEF ClientOK
  <2>2. need \in Nat
    BY <2>1, FirstContactAssumption
  <2>3. /\ new \subseteq Keys
        /\ mem' = [mem EXCEPT ![u] = @ \cup new] /\ made' = [made EXCEPT ![u] = @ + need]
        /\ app[u] = "export" /\ app' = [app EXCEPT ![u] = "persist"]
        /\ UNCHANGED <<keyVars, disk, starts, met, letters>>
    BY <1>2 DEF TopUp
  <2> HIDE DEF need, new
  <2>4. ClientOK'
    BY <1>0, <2>2, <2>3 DEF ClientOK
  <2> QED BY <1>0, <2>3, <2>4 DEF keyVars, Asker
<1>3. ASSUME NEW u \in Owners, Persist(u) \/ Kill(u) PROVE ContactInv'
  <2>1. ClientOK'
    BY <1>0, <1>3 DEF ClientOK, Persist, Kill
  <2> QED BY <1>0, <1>3, <2>1 DEF Persist, Kill, keyVars, Asker
<1>4. ASSUME NEW u \in Owners, NEW r \in Requests, Post(u, r) PROVE ContactInv'
  <2>1. ClientOK'
    BY <1>0, <1>4 DEF ClientOK, Post
  <2>2. req' = [req EXCEPT ![r] = Publishing(u, mem[u])] /\ Publishing(u, mem[u]).op = "publish"
    BY <1>4, AskedFresh DEF Post, Ask, Becomes
  <2>3. \A s \in Requests : Asker(req[s])'
    BY <1>0, <2>2 DEF Asker, TypeOK
  <2> QED BY <1>0, <2>1, <2>3
<1>5. ASSUME NEW p \in Peers, NEW u \in Owners, NEW r \in Requests, Create(p, u, r) \/ Fetch(p, u, r)
      PROVE  ContactInv'
  <2>1. ClientOK'
    BY <1>0, <1>5 DEF ClientOK, Create, Fetch, clientVars
  <2>2. Asker(Creating(p, u)) /\ Asker(Fetching(p, u))
    BY AskedFresh DEF Asker
  <2>3. \A s \in Requests : Asker(req[s])'
    BY <1>0, <1>5, <2>2 DEF Create, Fetch, Ask, Becomes, Asker, TypeOK
  <2> QED BY <1>0, <2>1, <2>3
<1>6. ASSUME NEW r \in Requests, Write(r) PROVE ContactInv'
  <2>1. req[r] \in Request /\ req[r].by \in Peers /\ req[r].about \in Owners
    BY <1>0, <1>6 DEF Write, At, TypeOK, Asker
  <2>2. req[r].row # None => req[r].row[2] \in Keys /\ req[r].row[3] \in Nat
    BY <2>1 DEF Request, Row
  <2>3. ClientOK'
    BY <1>0, <1>6, <2>1, <2>2 DEF ClientOK, Write
  <2>4. \A s \in Requests : Asker(req[s])'
    BY <1>0, <1>6 DEF Write, End, Becomes, Asker, NoRequest, TypeOK
  <2> QED BY <1>0, <2>3, <2>4
<1>7. ASSUME NEW l \in letters, Open(l) PROVE ContactInv'
  <2>1. l[2] \in Owners /\ app[l[2]] # "off"
    BY <1>0, <1>7 DEF ClientOK, Open
  <2>2. ClientOK'
    BY <1>0, <1>7, <2>1 DEF ClientOK, Open
  <2> QED BY <1>0, <1>7, <2>2 DEF Open, keyVars, Asker
<1>8. ASSUME Server PROVE ContactInv'
  <2>1. ClientOK'
    BY <1>0, <1>8 DEF ClientOK, Server, clientVars
  <2>2. \A s \in Requests : Asker(req[s])'
    <3>1. CASE \E r \in Requests : Serve(r) \/ Cancel(r)
      BY <1>0, <3>1, ServeAsker DEF Asker
    <3>2. CASE UNCHANGED req
      BY <3>2 DEF Asker
    <3> QED BY <1>8, <3>1, <3>2 DEF Server, SetBlock, RevokeE2EDevice
  <2> QED BY <1>0, <2>1, <2>2
<1>9. ASSUME UNCHANGED vars PROVE ContactInv'
  BY <1>0, <1>9 DEF vars, ClientOK, Asker
<1> QED BY <1>1, <1>2, <1>3, <1>4, <1>5, <1>6, <1>7, <1>8, <1>9 DEF ContactNext, Client

LEMMA InitContact == ContactInit => ContactInv
<1> SUFFICES ASSUME ContactInit PROVE ContactInv
  OBVIOUS
<1>1. TypeOK
  BY InitType DEF ContactInit
<1>2. ClientOK
  BY FirstContactAssumption DEF ContactInit, ClientOK
<1>3. \A r \in Requests : Asker(req[r])
  BY DEF ContactInit, KeysInit, NoRequest, Asker
<1> QED BY <1>1, <1>2, <1>3 DEF ContactInv

\* The applications and the server together keep their types, and only peers of an owner fetch its
\* keys (ContactTypeOK).
THEOREM ContactTypeCorrect == ContactSpec => []ContactTypeOK
BY InitContact, NextContact, ContactParts, PTL DEF ContactSpec

\* The applications use the server as Keys allows it: what KeysProofs shows of KeysSpec holds.
THEOREM ContactImplementsKeys == ContactSpec => KeysSpec
<1>1. ContactInit => KeysInit
  BY DEF ContactInit
<1> QED BY <1>1, InitContact, NextContact, StepImplements, PTL DEF ContactSpec, KeysSpec

-----------------------------------------------------------------------------
(* Keys that can be opened                                                 *)

\* The row a first message was written with.
Used(l) == <<l[2], l[3], l[4]>>
Stored(x) == x[1] \in Owners => x[2] \in disk[x[1]] \/ GivenBefore(x[1], x[2], x[3])
\* What a publication sends is stored, or has been handed out and used up since.
Publishable(q) ==
    q.op = "publish" /\ q.by \in Owners =>
        \A k \in q.keys : k \in disk[q.by] \/ \E x \in given : x[1] = q.by /\ x[2] = k
OwnKey(q) == q.op = "fetch" /\ q.pc = "take" => q.row[1] = q.about

\* KeysCanBeOpened, for the keys under way as well; a row is in one first message or answer only.
OpenInv ==
    /\ \A u \in Owners : app[u] # "off" => disk[u] \subseteq mem[u]
    /\ \A u \in Owners : app[u] = "post" => mem[u] \subseteq disk[u]
    /\ \A r \in Requests : Publishable(req[r]) /\ OwnKey(req[r])
    /\ \A x \in prekeys : Stored(x)
    /\ \A r \in Requests : Taken(r) => req[r].row[1] = req[r].about /\ Stored(req[r].row)
    /\ \A l \in letters : Used(l) \in given /\ Stored(Used(l))
    /\ \A l, m \in letters : Used(l) = Used(m) => l = m
    /\ \A r \in Requests, l \in letters : Taken(r) => req[r].row # Used(l)

LEMMA OpenInvOpened == ContactInv /\ OpenInv => KeysCanBeOpened
<1> SUFFICES ASSUME ContactInv, OpenInv PROVE KeysCanBeOpened
  OBVIOUS
<1>1. \A l \in letters : l[2] \in Owners
  BY DEF ContactInv, ClientOK
<1>2. \A l \in letters : Stored(Used(l)) => l[3] \in disk[l[2]] \/ GivenBefore(l[2], l[3], l[4])
  BY <1>1 DEF Stored, Used
<1> QED BY <1>2 DEF OpenInv, Stored, KeysCanBeOpened

\* A step of a request that touches no key and leaves it without one.
LEMMA OpenQuiet ==
    ASSUME TypeOK, OpenInv, NEW r \in Requests, NEW q, Becomes(r, q), Empty(q),
           Publishable(q), OwnKey(q), UNCHANGED <<prekeys, given, disk, mem, app, letters>>
    PROVE  OpenInv'
<1>1. req'[r] = q /\ \A s \in Requests \ {r} : req'[s] = req[s]
  BY DEF TypeOK, Becomes
<1>2. ~Taken(r)' /\ \A s \in Requests \ {r} : Taken(s)' = Taken(s)
  BY <1>1 DEF Taken, At, Empty
<1>3. \A x : Stored(x)' = Stored(x)
  BY DEF Stored, GivenBefore
<1>4. \A s \in Requests : Publishable(req[s])' /\ OwnKey(req[s])'
  BY <1>1 DEF OpenInv, Publishable, OwnKey
<1>5. \A s \in Requests : Taken(s)' => Taken(s) /\ req'[s] = req[s]
  BY <1>1, <1>2
<1> QED BY <1>3, <1>4, <1>5 DEF OpenInv

\* The stored keys only grow, and so do those handed out: what is stored stays.
LEMMA StoredGrows ==
    ASSUME ClientOK, NEW x, Stored(x), given \subseteq given', \A u \in Owners : disk[u] \subseteq disk'[u]
    PROVE  Stored(x)'
BY DEF Stored, GivenBefore

LEMMA PublishableGrows ==
    ASSUME NEW q, Publishable(q), given \subseteq given', \A u \in Owners : disk[u] \subseteq disk'[u]
    PROVE  Publishable(q)'
BY DEF Publishable

LEMMA CommitOpen ==
    ASSUME TypeOK, ClientOK, HandInv, OpenInv, NEW r \in Requests, CommitPreKeys(r),
           UNCHANGED <<disk, mem, app, letters>>
    PROVE  OpenInv'
<1>0. Publishable(NoRequest) /\ OwnKey(NoRequest)
  BY DEF Publishable, OwnKey, NoRequest
<1>1. CASE prekeys' = prekeys
  BY <1>0, <1>1, OpenQuiet, NoRequestEmpty DEF CommitPreKeys, End
<1>2. CASE prekeys' = (prekeys \ req[r].seen) \cup {<<req[r].by, k, pubs + 1>> : k \in req[r].keys}
  <2>1. /\ req'[r] = NoRequest /\ \A s \in Requests \ {r} : req'[s] = req[s]
        /\ given' = given /\ pubs \in Nat /\ given \subseteq Row
    BY DEF TypeOK, CommitPreKeys, End, Becomes
  <2>2. \A s \in Requests : Taken(s)' => Taken(s) /\ req'[s] = req[s]
    BY <2>1 DEF Taken, At, NoRequest
  <2>3. \A x : Stored(x)' = Stored(x)
    BY <2>1 DEF Stored, GivenBefore
  <2>4. ASSUME NEW k \in req[r].keys PROVE Stored(<<req[r].by, k, pubs + 1>>)
    <3>1. Publishable(req[r]) /\ req[r].op = "publish"
      BY DEF OpenInv, CommitPreKeys, At
    <3>2. \A x \in given : x[3] <= pubs /\ x[3] \in Nat
      BY <2>1 DEF HandInv, Row
    <3>3. \A x \in given : x[3] # pubs + 1
      BY <2>1, <3>2
    <3> QED BY <3>1, <3>3 DEF Publishable, Stored, GivenBefore
  <2>5. \A x \in prekeys' : Stored(x)'
    BY <1>2, <2>3, <2>4 DEF OpenInv
  <2>6. \A s \in Requests : Publishable(req[s])' /\ OwnKey(req[s])'
    BY <1>0, <2>1 DEF OpenInv, Publishable, OwnKey
  <2> QED BY <2>1, <2>2, <2>3, <2>5, <2>6 DEF OpenInv
<1> QED BY <1>1, <1>2 DEF CommitPreKeys

LEMMA TakeOpen ==
    ASSUME TypeOK, ClientOK, HandInv, OpenInv, NEW r \in Requests, TakePreKey(r),
           UNCHANGED <<disk, mem, app, letters>>
    PROVE  OpenInv'
<1>0. req[r] \in Request /\ req \in [Requests -> Request] /\ req[r].op = "fetch" /\ req[r].pc = "take"
  BY DEF TypeOK, TakePreKey, At
<1>1. CASE req[r].row \notin prekeys
  BY <1>0, <1>1, OpenQuiet DEF TakePreKey, Empty, Publishable, OwnKey, Request
<1>2. CASE req[r].row \in prekeys
  <2>1. /\ prekeys' = prekeys \ {req[r].row} /\ given' = given \cup {req[r].row}
        /\ req' = [req EXCEPT ![r].pc = "done"]
    BY <1>0, <1>2 DEF TakePreKey, Goto, Becomes
  <2>2. req'[r] = [req[r] EXCEPT !.pc = "done"] /\ \A s \in Requests \ {r} : req'[s] = req[s]
    BY <1>0, <2>1
  <2>3. req'[r].row = req[r].row /\ req'[r].op = "fetch" /\ req'[r].about = req[r].about /\ req'[r].pc = "done"
    BY <1>0, <2>2 DEF Request
  <2>4. \A s \in Requests \ {r} : Taken(s)' = Taken(s)
    BY <2>2 DEF Taken, At
  <2>5. \A x : Stored(x) => Stored(x)'
    BY <2>1, StoredGrows
  <2>6. \A s \in Requests : Publishable(req[s])' /\ OwnKey(req[s])'
    <3>1. \A s \in Requests : Publishable(req[s]) => Publishable(req[s])'
      BY <2>1, <2>2, <2>3 DEF Publishable
    <3> QED BY <2>2, <2>3, <3>1 DEF OpenInv, OwnKey
  <2>7. req[r].row[1] = req[r].about /\ Stored(req[r].row) /\ req[r].row \notin given
    BY <1>0, <1>2 DEF OpenInv, OwnKey, HandInv
  <2>8. \A s \in Requests : Taken(s)' => req'[s].row[1] = req'[s].about /\ Stored(req[s].row)'
    <3>1. ASSUME NEW s \in Requests \ {r}, Taken(s)'
          PROVE  req'[s].row[1] = req'[s].about /\ Stored(req[s].row)'
      <4>1. Taken(s) /\ req'[s] = req[s]
        BY <2>2, <2>4, <3>1
      <4>2. Stored(req[s].row)
        BY <4>1 DEF OpenInv
      <4> QED BY <2>1, <4>1, <4>2 DEF OpenInv, Stored, GivenBefore
    <3>2. req'[r].row[1] = req'[r].about /\ Stored(req[r].row)'
      BY <2>1, <2>3, <2>7 DEF Stored, GivenBefore
    <3> QED BY <3>1, <3>2
  <2>9. \A l \in letters' : Used(l) \in given' /\ Stored(Used(l))'
    BY <2>1, <2>5 DEF OpenInv
  <2>10. \A s \in Requests, l \in letters' : Taken(s)' => req'[s].row # Used(l)
    <3>1. \A l \in letters' : l \in letters /\ Used(l) \in given /\ req'[r].row # Used(l)
      BY <2>3, <2>7 DEF OpenInv
    <3>2. \A s \in Requests \ {r}, l \in letters' : Taken(s)' => req'[s].row # Used(l)
      BY <2>2, <2>4, <3>1 DEF OpenInv
    <3> QED BY <3>1, <3>2
  <2>11. \A x \in prekeys' : Stored(x)'
    BY <2>1, <2>5 DEF OpenInv
  <2> QED BY <2>6, <2>8, <2>9, <2>10, <2>11 DEF OpenInv
<1> QED BY <1>1, <1>2

LEMMA ServeOpen ==
    ASSUME TypeOK, ClientOK, HandInv, OpenInv, NEW r \in Requests, Serve(r) \/ Cancel(r),
           UNCHANGED <<disk, mem, app, letters>>
    PROVE  OpenInv'
<1>0. /\ req[r] \in Request /\ Publishable(NoRequest) /\ OwnKey(NoRequest)
      /\ req[r].op = "fetch" /\ req[r].pc \notin {"take", "done"} => req[r].row = None
      /\ Publishable(req[r])
  BY DEF TypeOK, HandInv, Empty, Publishable, OwnKey, NoRequest, OpenInv
<1>1. ASSUME NEW step, Goto(r, step), step # "take", step = "done" /\ req[r].op = "fetch" => req[r].row = None,
             req[r].pc \notin {"take", "done"}, UNCHANGED <<prekeys, given>>
      PROVE  OpenInv'
  <2>1. /\ Empty([req[r] EXCEPT !.pc = step]) /\ OwnKey([req[r] EXCEPT !.pc = step])
        /\ Publishable([req[r] EXCEPT !.pc = step])
    BY <1>0, <1>1 DEF Empty, OwnKey, Publishable, Request
  <2> QED BY <1>1, <2>1, OpenQuiet DEF Goto
<1>2. ASSUME End(r), UNCHANGED <<prekeys, given>> PROVE OpenInv'
  BY <1>0, <1>2, OpenQuiet, NoRequestEmpty DEF End
<1>3. CASE CheckBlocked(r) \/ FindChat(r) \/ CheckChat(r)
  BY <1>1, <1>2, <1>3 DEF CheckBlocked, FindChat, CheckChat, At
<1>4. CASE CreateConversation(r) \/ UpsertE2EDevice(r)
  BY <1>1, <1>2, <1>4 DEF CreateConversation, UpsertE2EDevice, At
<1>5. CASE ReadDevice(r)
  BY <1>0, <1>1, <1>2, <1>5 DEF ReadDevice, At
<1>6. CASE AnswerChat(r)
  <2>1. PICK c \in Convs : Becomes(r, [req[r] EXCEPT !.conv = c, !.pc = "done"])
    BY <1>6 DEF AnswerChat, ChatOf
  <2>2. /\ Empty([req[r] EXCEPT !.conv = c, !.pc = "done"]) /\ OwnKey([req[r] EXCEPT !.conv = c, !.pc = "done"])
        /\ Publishable([req[r] EXCEPT !.conv = c, !.pc = "done"])
    BY <1>0, <1>6 DEF AnswerChat, At, Empty, OwnKey, Publishable, Request
  <2> QED BY <1>6, <2>1, <2>2, OpenQuiet DEF AnswerChat
<1>7. CASE DeletePreKeys(r)
  <2> DEFINE q == [req[r] EXCEPT !.seen = Of(req[r].by), !.pc = "commit"]
  <2>1. Empty(q) /\ OwnKey(q) /\ Publishable(q)
    BY <1>0, <1>7 DEF DeletePreKeys, At, Empty, OwnKey, Publishable, Request
  <2> QED BY <1>7, <2>1, OpenQuiet DEF DeletePreKeys
<1>8. CASE ChoosePreKey(r)
  <2>1. CASE Goto(r, "done")
    BY <1>0, <1>1, <1>8, <2>1 DEF ChoosePreKey, At
  <2>2. ASSUME NEW x \in Of(req[r].about), Becomes(r, [req[r] EXCEPT !.row = x, !.pc = "take"])
        PROVE  OpenInv'
    <3>1. /\ Empty([req[r] EXCEPT !.row = x, !.pc = "take"]) /\ OwnKey([req[r] EXCEPT !.row = x, !.pc = "take"])
          /\ Publishable([req[r] EXCEPT !.row = x, !.pc = "take"])
      BY <1>0, <1>8 DEF ChoosePreKey, At, Of, Empty, OwnKey, Publishable, Request
    <3> QED BY <1>8, <2>2, <3>1, OpenQuiet DEF ChoosePreKey
  <2> QED BY <1>8, <2>1, <2>2 DEF ChoosePreKey
<1>9. CASE Cancel(r)
  BY <1>2, <1>9 DEF Cancel
<1> QED BY <1>3, <1>4, <1>5, <1>6, <1>7, <1>8, <1>9, CommitOpen, TakeOpen DEF Serve

\* A step of an application that touches nothing of the server's and keeps what is stored.
LEMMA StoreOpen ==
    ASSUME ClientOK, OpenInv, UNCHANGED <<keyVars, letters>>,
           \A u \in Owners : disk[u] \subseteq disk'[u],
           \A u \in Owners : app'[u] # "off" => disk'[u] \subseteq mem'[u],
           \A u \in Owners : app'[u] = "post" => mem'[u] \subseteq disk'[u]
    PROVE  OpenInv'
<1>1. \A x : Stored(x) => Stored(x)'
  BY StoredGrows DEF keyVars
<1>2. \A r \in Requests : Publishable(req[r])' /\ OwnKey(req[r])'
  BY PublishableGrows DEF keyVars, OpenInv, Publishable, OwnKey
<1>3. \A r \in Requests : Taken(r)' = Taken(r)
  BY DEF keyVars, Taken, At
<1> QED BY <1>1, <1>2, <1>3 DEF keyVars, OpenInv

\* The key of an opened message has been handed out, so that of another row is not lost with it.
LEMMA OpenOpen ==
    ASSUME TypeOK, ClientOK, HandInv, OpenInv, NEW l \in letters, Open(l)
    PROVE  OpenInv'
<1> DEFINE u == l[2] k == l[3]
<1>0. u \in Owners /\ app[u] # "off" /\ Used(l) \in given
  BY DEF ClientOK, OpenInv, Open
<1>1. /\ mem' = [mem EXCEPT ![u] = @ \ {k}] /\ disk' = [disk EXCEPT ![u] = mem[u] \ {k}]
      /\ letters' = letters \ {l} /\ app' = app
      /\ prekeys' = prekeys /\ given' = given /\ req' = req
  BY DEF Open, keyVars
<1>2. \A v \in Owners \ {u} : disk'[v] = disk[v] /\ mem'[v] = mem[v]
  BY <1>0, <1>1 DEF ClientOK
<1>3. disk'[u] = mem[u] \ {k} /\ mem'[u] = mem[u] \ {k} /\ disk[u] \subseteq mem[u]
  BY <1>0, <1>1 DEF ClientOK, OpenInv
<1>4. ASSUME NEW x, x \in Row, Stored(x), x # Used(l) PROVE Stored(x)'
  <2>1. CASE x[1] = u /\ x[2] = k
    <3>1. x[3] # l[4]
      BY <1>4, <2>1 DEF Row, Used
    <3>2. Used(l)[1] = u /\ Used(l)[2] = k /\ Used(l)[3] = l[4]
      BY DEF Used
    <3>3. GivenBefore(x[1], x[2], x[3])'
      BY <1>0, <1>1, <2>1, <3>1, <3>2 DEF GivenBefore
    <3> QED BY <3>3 DEF Stored
  <2>2. CASE ~(x[1] = u /\ x[2] = k)
    BY <1>1, <1>2, <1>3, <1>4, <2>2 DEF Stored, GivenBefore
  <2> QED BY <2>1, <2>2
<1>5. ASSUME NEW r \in Requests PROVE Publishable(req[r])' /\ OwnKey(req[r])'
  <2>1. Publishable(req[r]) /\ OwnKey(req[r])
    BY DEF OpenInv
  <2>2. Used(l)[1] = u /\ Used(l)[2] = k
    BY DEF Used
  <2> QED BY <1>0, <1>1, <1>2, <1>3, <2>1, <2>2 DEF Publishable, OwnKey
<1>6. \A x \in prekeys' : Stored(x)'
  BY <1>0, <1>1, <1>4 DEF OpenInv, HandInv, TypeOK
<1>7. \A r \in Requests : Taken(r)' => req'[r].row[1] = req'[r].about /\ Stored(req[r].row)'
  BY <1>1, <1>4 DEF OpenInv, Taken, At, TypeOK, HandInv
<1>8. \A m \in letters' : Used(m) \in given' /\ Stored(Used(m))'
  BY <1>1, <1>4 DEF OpenInv, TypeOK
<1>9. \A r \in Requests, m \in letters' : Taken(r)' => req'[r].row # Used(m)
  BY <1>1 DEF OpenInv, Taken, At
<1>10. \A v \in Owners : app'[v] # "off" => disk'[v] \subseteq mem'[v]
  BY <1>1, <1>2, <1>3 DEF OpenInv
<1>11. \A v \in Owners : app'[v] = "post" => mem'[v] \subseteq disk'[v]
  BY <1>1, <1>2, <1>3 DEF OpenInv
<1> HIDE DEF u, k
<1> QED BY <1>1, <1>5, <1>6, <1>7, <1>8, <1>9, <1>10, <1>11 DEF OpenInv

\* The row of a bundle goes from its request into the first message.
LEMMA WriteOpen ==
    ASSUME ContactInv, HandInv, OpenInv, NEW r \in Requests, Write(r)
    PROVE  OpenInv'
<1>0. /\ TypeOK /\ req[r] \in Request /\ req[r].op = "fetch" /\ req[r].pc = "done"
      /\ prekeys' = prekeys /\ given' = given /\ disk' = disk /\ mem' = mem /\ app' = app
  BY DEF Write, At, TypeOK, ContactInv
<1>1. req'[r] = NoRequest /\ \A s \in Requests \ {r} : req'[s] = req[s]
  BY <1>0 DEF Write, End, Becomes, TypeOK
<1>2. ~Taken(r)' /\ \A s \in Requests : Taken(s)' => s # r /\ Taken(s) /\ req'[s] = req[s]
  BY <1>1 DEF Taken, At, NoRequest
<1>3. \A x : Stored(x)' = Stored(x)
  BY <1>0 DEF Stored, GivenBefore
<1>4. \A s \in Requests : Publishable(req[s])' /\ OwnKey(req[s])'
  BY <1>0, <1>1 DEF OpenInv, Publishable, OwnKey, NoRequest
<1>5. CASE letters' = letters
  BY <1>0, <1>2, <1>3, <1>4, <1>5 DEF OpenInv
<1>6. CASE req[r].row # None
  <2> DEFINE new == <<req[r].by, req[r].about, req[r].row[2], req[r].row[3]>>
  <2>1. letters' = letters \cup {new} /\ Taken(r)
    BY <1>0, <1>6 DEF Write, Taken, At
  <2>2. Used(new) = req[r].row
    <3>1. req[r].row \in Row /\ req[r].row[1] = req[r].about
      BY <1>0, <1>6, <2>1 DEF Request, OpenInv
    <3>2. req[r].row = <<req[r].row[1], req[r].row[2], req[r].row[3]>>
      BY <3>1 DEF Row
    <3> QED BY <3>1, <3>2 DEF Used
  <2> HIDE DEF new
  <2>3. Used(new) \in given /\ Stored(Used(new)) /\ \A m \in letters : Used(m) # Used(new)
    BY <2>1, <2>2 DEF HandInv, OpenInv
  <2>4. \A s \in Requests \ {r} : Taken(s) => req[s].row # Used(new)
    BY <2>1, <2>2 DEF HandInv
  <2>5. \A m \in letters' : Used(m) \in given' /\ Stored(Used(m))'
    BY <1>0, <1>3, <2>1, <2>3 DEF OpenInv
  <2>6. \A l, m \in letters' : Used(l) = Used(m) => l = m
    BY <2>1, <2>3 DEF OpenInv
  <2>7. \A s \in Requests, m \in letters' : Taken(s)' => req'[s].row # Used(m)
    BY <1>2, <2>1, <2>4 DEF OpenInv
  <2> QED BY <1>0, <1>2, <1>3, <1>4, <2>5, <2>6, <2>7 DEF OpenInv
<1> QED BY <1>5, <1>6 DEF Write

LEMMA NextOpen == ContactInv /\ HandInv /\ OpenInv /\ [ContactNext]_vars => OpenInv'
<1> SUFFICES ASSUME ContactInv, HandInv, OpenInv, [ContactNext]_vars PROVE OpenInv'
  OBVIOUS
<1>0. TypeOK /\ ClientOK
  BY DEF ContactInv
<1>1. ASSUME NEW u \in Owners, Start(u) \/ TopUp(u) \/ Persist(u) \/ Kill(u) PROVE OpenInv'
  BY <1>0, <1>1, StoreOpen DEF Start, TopUp, Persist, Kill, ClientOK, OpenInv
<1>2. ASSUME NEW u \in Owners, NEW r \in Requests, Post(u, r) PROVE OpenInv'
  <2>1. app[u] = "post" /\ app' = [app EXCEPT ![u] = "running"]
    BY <1>2 DEF Post
  <2>2. Publishable(Publishing(u, mem[u])) /\ OwnKey(Publishing(u, mem[u])) /\ Empty(Publishing(u, mem[u]))
    BY <2>1, AskedFresh DEF Publishable, OwnKey, OpenInv, Empty
  <2>3. req' = [req EXCEPT ![r] = Publishing(u, mem[u])]
        /\ UNCHANGED <<prekeys, given, disk, mem, letters>>
    BY <1>2 DEF Post, Ask, Becomes
  <2>4. \A s \in Requests : /\ Publishable(req[s])' /\ OwnKey(req[s])'
                            /\ Taken(s)' => Taken(s) /\ req'[s] = req[s]
    <3>1. req'[r] = Publishing(u, mem[u]) /\ \A s \in Requests \ {r} : req'[s] = req[s]
      BY <1>0, <2>3 DEF TypeOK
    <3>2. ~Taken(r)'
      BY <3>1, AskedFresh DEF Taken, At
    <3>3. \A q : Publishable(q)' = Publishable(q)
      BY <2>3 DEF Publishable
    <3>4. Publishable(req[r])' /\ OwnKey(req[r])'
      BY <2>2, <2>3, <3>1 DEF Publishable, OwnKey
    <3>5. ASSUME NEW s \in Requests \ {r} PROVE Publishable(req[s])' /\ OwnKey(req[s])'
      BY <2>3, <3>1 DEF OpenInv, Publishable, OwnKey
    <3>6. ASSUME NEW s \in Requests \ {r}, Taken(s)' PROVE Taken(s) /\ req'[s] = req[s]
      BY <3>1, <3>6 DEF Taken, At
    <3> QED BY <3>2, <3>4, <3>5, <3>6
  <2>5. \A x : Stored(x)' = Stored(x)
    BY <2>3 DEF Stored, GivenBefore
  <2>6. \A v \in Owners : app'[v] # "off" => app[v] # "off"
    BY <1>0, <2>1 DEF ClientOK
  <2>7. \A v \in Owners : app'[v] = "post" => app[v] = "post"
    BY <1>0, <2>1 DEF ClientOK
  <2> QED BY <2>3, <2>4, <2>5, <2>6, <2>7 DEF OpenInv
<1>3. ASSUME NEW p \in Peers, NEW u \in Owners, NEW r \in Requests, Create(p, u, r) \/ Fetch(p, u, r)
      PROVE  OpenInv'
  <2>1. PICK q \in {Creating(p, u), Fetching(p, u)} : Ask(r, q)
    BY <1>3 DEF Create, Fetch
  <2>2. Publishable(q) /\ OwnKey(q) /\ Empty(q)
    BY AskedFresh DEF Publishable, OwnKey, Empty
  <2> QED BY <1>0, <1>3, <2>1, <2>2, OpenQuiet DEF Create, Fetch, Ask, clientVars
<1>4. ASSUME Server PROVE OpenInv'
  <2>1. UNCHANGED <<disk, mem, app, letters>>
    BY <1>4 DEF Server, clientVars
  <2>2. CASE \E r \in Requests : Serve(r) \/ Cancel(r)
    BY <1>0, <2>1, <2>2, ServeOpen
  <2>3. CASE UNCHANGED <<prekeys, given, req>>
    BY <2>1, <2>3 DEF OpenInv, Publishable, OwnKey, Stored, GivenBefore, Taken, At
  <2> QED BY <1>4, <2>2, <2>3 DEF Server, SetBlock, RevokeE2EDevice
<1>5. ASSUME UNCHANGED vars PROVE OpenInv'
  BY <1>5 DEF vars, OpenInv, Publishable, OwnKey, Stored, GivenBefore, Taken, At
<1> QED BY <1>0, <1>1, <1>2, <1>3, <1>4, <1>5, WriteOpen, OpenOpen DEF ContactNext, Client

LEMMA InitOpen == ContactInit => OpenInv
<1> SUFFICES ASSUME ContactInit PROVE OpenInv
  OBVIOUS
<1>1. /\ prekeys = {} /\ letters = {} /\ \A r \in Requests : req[r].op = "none"
      /\ \A u \in Owners : app[u] = "off"
  BY DEF ContactInit, KeysInit, NoRequest
<1> QED BY <1>1 DEF OpenInv, Publishable, OwnKey, Taken, At

\* Wherever the application is killed, what the server may hand out of its keys, or has handed out, is
\* stored, but for keys handed out twice (KeysCanBeOpened); by the inductive invariant OpenInv.
THEOREM KeysOpen == ContactSpec => []KeysCanBeOpened
<1>1. ContactInit => ContactInv /\ HandInv /\ OpenInv
  BY InitContact, InitOpen, InitHand DEF ContactInit
<1>2. ContactInv /\ HandInv /\ OpenInv /\ [ContactNext]_vars => ContactInv' /\ HandInv' /\ OpenInv'
  <2>1. ContactInv => TypeOK
    BY DEF ContactInv
  <2> QED BY <2>1, NextContact, NextOpen, StepImplements, NextHand
<1> QED BY <1>1, <1>2, OpenInvOpened, PTL DEF ContactSpec

-----------------------------------------------------------------------------
(* The message cache: what goes with a row                                 *)

\* The parts of CacheTypeOK: the types, and what the variables have to do with each other.
CacheTypes ==
    /\ log \in [Messages -> {"unsent", "standing", "deleted"}]
    /\ mine \subseteq Messages /\ due \subseteq mine
    /\ telling \subseteq Event
    /\ link \in {"down", "open", "up"}
    /\ wire \in Seq(Event \cup {Connected})
    /\ known \in BOOLEAN
    /\ items \in [Messages -> {"none", "readable", "placeholder"}]
    /\ arriving \in [Messages -> Copy]
    /\ load \in [Loads -> Load]
    /\ adopting \in [msg : Messages \cup {0}, copy : Copy]
    /\ opened \cup plain \subseteq Messages /\ missed \cup garbled \subseteq Messages
CacheTies ==
    /\ Listed # {} => known
    /\ opened \cap mine = {} /\ opened \subseteq Encrypted

\* Nothing knows of a message before it is written.
UnsentUnknown ==
    \A m \in Messages : log[m] = "unsent" =>
        /\ m \notin mine \cup opened \cup plain \cup Listed
        /\ ~HasCopy(m) /\ Created(m) \notin telling /\ ~InWire(Created(m))

\* A deletion is told of after it was written.
DeletionTold ==
    \A m \in Messages : Deleted(m) \in telling \/ InWire(Deleted(m)) => log[m] = "deleted"

\* A creation is told of once.
CreationToldOnce ==
    /\ \A m \in Messages :
          /\ Created(m) \in telling => ~InWire(Created(m)) /\ arriving[m] = "none"
          /\ InWire(Created(m)) => arriving[m] = "none"
    /\ \A i, j \in DOMAIN wire : wire[i] = wire[j] /\ wire[i].type = "created" => i = j

\* What is decrypted was encrypted, for the user and by somebody else.
PeersText ==
    \A m \in Messages :
        /\ Decrypting("opening", m) \/ Decrypting("opened", m) => m \in Encrypted \ mine
        /\ items[m] = "placeholder" \/ Decrypting("placeholder", m) => m \in Encrypted

\* Only a load that has had its answer holds a page.
PagesInv == \A l \in Loads : load[l].pc # "hydrating" => load[l].page = Nothing

\* What is adopted was in the list.
AdoptionInv ==
    /\ adopting.copy # "raw"
    /\ adopting.copy # "none" =>
         /\ known /\ adopting.msg \in Messages
         /\ adopting.msg \in Listed \cup missed \/ log[adopting.msg] = "deleted"

CopiesInv == UnsentUnknown /\ DeletionTold /\ CreationToldOnce /\ PeersText /\ PagesInv /\ AdoptionInv

-----------------------------------------------------------------------------
(* The message cache: copies and events                                    *)

Copies == Copy \ {"none"}

LEMMA NothingType == Nothing \in [Messages -> Copy] /\ \A m \in Messages : Nothing[m] = "none"
  BY DEF Nothing, Copy

LEMMA NoLoadType == \A step \in {"idle", "chats", "asked", "hydrating"} :
                      /\ [NoLoad EXCEPT !.pc = step] \in Load /\ [NoLoad EXCEPT !.pc = step].page = Nothing
                      /\ [NoLoad EXCEPT !.pc = step].pc = step
                      /\ NoLoad \in Load /\ NoLoad.page = Nothing /\ NoLoad.pc = "idle"
  BY NothingType DEF NoLoad, Load

LEMMA TurnEffect ==
  ASSUME CacheTypes, NEW m \in Messages, NEW from \in Copies, NEW to \in Copies, from # to, Turn(m, from, to)
  PROVE  /\ Decrypting(from, m) /\ Decrypting(to, m)'
         /\ \A k \in Messages : \A c \in Copies : Decrypting(c, k)' => Decrypting(c, k) \/ (k = m /\ c = to)
         /\ \A k \in Messages : \A c \in Copies : Decrypting(c, k) => Decrypting(c, k)' \/ (k = m /\ c = from)
         /\ PagesInv => PagesInv'
         /\ CacheTypes => arriving' \in [Messages -> Copy] /\ load' \in [Loads -> Load]
                          /\ adopting' \in [msg : Messages \cup {0}, copy : Copy]
         /\ adopting' = adopting \/ (adopting.copy # "none" /\ adopting' = [adopting EXCEPT !.copy = to])
         /\ \A k \in Messages : arriving'[k] = arriving[k] \/ arriving[k] # "none"
         /\ \A i \in Loads : load'[i].pc = load[i].pc
PROOF
  <1>1. CASE arriving[m] = from /\ arriving' = [arriving EXCEPT ![m] = to] /\ UNCHANGED <<load, adopting>>
    BY <1>1 DEF CacheTypes, Decrypting, Copies, PagesInv
  <1>2. ASSUME NEW l \in Loads, load[l].page[m] = from, load' = [load EXCEPT ![l].page[m] = to],
               UNCHANGED <<arriving, adopting>>
        PROVE  /\ Decrypting(from, m) /\ Decrypting(to, m)'
               /\ \A k \in Messages : \A c \in Copies : Decrypting(c, k)' => Decrypting(c, k) \/ (k = m /\ c = to)
               /\ \A k \in Messages : \A c \in Copies : Decrypting(c, k) => Decrypting(c, k)' \/ (k = m /\ c = from)
               /\ PagesInv => PagesInv'
               /\ load' \in [Loads -> Load] /\ \A i \in Loads : load'[i].pc = load[i].pc
    <2>1. load[l] \in Load /\ load[l].page \in [Messages -> Copy]
      BY DEF CacheTypes, Load
    <2>2. /\ load' \in [Loads -> Load] /\ load'[l].page[m] = to
          /\ \A k \in Messages : k # m => load'[l].page[k] = load[l].page[k]
          /\ \A i \in Loads : i # l => load'[i] = load[i]
          /\ load'[l].pc = load[l].pc
      BY <1>2, <2>1 DEF CacheTypes, Load, Copies
    <2>3. Decrypting(from, m) /\ Decrypting(to, m)'
      BY <1>2, <2>2 DEF Decrypting
    <2>4. \A k \in Messages : \A c \in Copies : Decrypting(c, k)' => Decrypting(c, k) \/ (k = m /\ c = to)
      BY <1>2, <2>2 DEF Decrypting
    <2>5. \A k \in Messages : \A c \in Copies : Decrypting(c, k) => Decrypting(c, k)' \/ (k = m /\ c = from)
      BY <1>2, <2>2 DEF Decrypting
    <2>6. PagesInv => PagesInv'
      BY <1>2, <2>2, NothingType DEF PagesInv, Copies
    <2> QED BY <2>2, <2>3, <2>4, <2>5, <2>6
  <1>3. CASE adopting = [msg |-> m, copy |-> from] /\ adopting' = [adopting EXCEPT !.copy = to]
             /\ UNCHANGED <<arriving, load>>
    <2>1. adopting' = [msg |-> m, copy |-> to]
      BY <1>3
    <2> QED BY <1>3, <2>1 DEF CacheTypes, Decrypting, Copies, PagesInv
  <1> QED
    BY <1>1, <1>2, <1>3 DEF Turn, CacheTypes

\* The steps that leave the copies alone.
CopiesSame ==
    \A k \in Messages : \A c \in Copies : Decrypting(c, k)' <=> Decrypting(c, k)

LEMMA SameCopies == ASSUME UNCHANGED <<arriving, load, adopting>> PROVE CopiesSame
  BY DEF CopiesSame, Decrypting

LEMMA LoadEffect ==
  ASSUME CacheTypes, PagesInv, NEW l \in Loads, NEW r \in Load, r.page = Nothing, load[l].pc # "hydrating",
         load' = [load EXCEPT ![l] = r], UNCHANGED <<arriving, adopting>>
  PROVE  CopiesSame /\ PagesInv' /\ load' \in [Loads -> Load] /\ load'[l] = r
         /\ \A i \in Loads \ {l} : load'[i] = load[i]
PROOF
  <1>1. load' \in [Loads -> Load] /\ load'[l] = r /\ \A i \in Loads \ {l} : load'[i] = load[i]
    BY DEF CacheTypes
  <1>2. load[l].page = Nothing
    BY DEF PagesInv
  <1>3. \A i \in Loads : load'[i].page = load[i].page
    BY <1>1, <1>2
  <1>4. CopiesSame
    BY <1>3 DEF CopiesSame, Decrypting
  <1>5. PagesInv'
    BY <1>1 DEF PagesInv
  <1> QED BY <1>1, <1>4, <1>5

LEMMA ListEffect ==
  ASSUME CacheTypes, PagesInv, NEW l \in Loads, ListMessages(l)
  PROVE  /\ \A k \in Messages : \A c \in Copies :
               Decrypting(c, k)' <=> Decrypting(c, k) \/ (c = "raw" /\ k \in Newest)
         /\ PagesInv' /\ load' \in [Loads -> Load] /\ \A i \in Loads \ {l} : load'[i] = load[i]
PROOF
  <1> DEFINE page == [m \in Messages |-> IF m \in Newest THEN "raw" ELSE "none"]
  <1>1. page \in [Messages -> Copy] /\ \A m \in Messages : page[m] = IF m \in Newest THEN "raw" ELSE "none"
    BY DEF Copy
  <1>2. load' = [load EXCEPT ![l] = [pc |-> "hydrating", page |-> page]]
    BY DEF ListMessages
  <1> HIDE DEF page
  <1>3. /\ load' \in [Loads -> Load] /\ load'[l] = [pc |-> "hydrating", page |-> page]
        /\ \A i \in Loads \ {l} : load'[i] = load[i]
    BY <1>1, <1>2 DEF CacheTypes, Load
  <1>4. load[l].page = Nothing
    BY DEF PagesInv, ListMessages
  <1>5. PagesInv'
    BY <1>3 DEF PagesInv
  <1>6. /\ \A k \in Messages : \A c \in Copies :
               Decrypting(c, k)' <=> Decrypting(c, k) \/ (c = "raw" /\ k \in Newest)
    <2> SUFFICES ASSUME NEW k \in Messages, NEW c \in Copies
                 PROVE  Decrypting(c, k)' <=> Decrypting(c, k) \/ (c = "raw" /\ k \in Newest)
      OBVIOUS
    <2>1. load[l].page[k] # c
      BY <1>4, NothingType DEF Copies
    <2>2. load'[l].page[k] = c <=> c = "raw" /\ k \in Newest
      BY <1>1, <1>3 DEF Copies
    <2>3. arriving' = arriving /\ adopting' = adopting
      BY DEF ListMessages
    <2> QED BY <1>3, <2>1, <2>2, <2>3 DEF Decrypting
  <1> QED BY <1>3, <1>5, <1>6

\* A page leaves with its load, an event with its message, what was adopted with the loop.
LEMMA MergeEffect ==
  ASSUME CacheTypes, NEW l \in Loads, Merge(l)
  PROVE  /\ \A k \in Messages : \A c \in Copies : Decrypting(c, k)' => Decrypting(c, k)
         /\ \A k \in Messages : \A c \in Copies : Decrypting(c, k) => Decrypting(c, k)' \/ load[l].page[k] = c
         /\ \A k \in Messages : \A c \in Copies : load[l].page[k] = c => Decrypting(c, k)
         /\ PagesInv => PagesInv'
         /\ load' \in [Loads -> Load] /\ \A i \in Loads \ {l} : load'[i] = load[i]
PROOF
  <1>1. /\ load' \in [Loads -> Load] /\ load'[l] = NoLoad /\ \A i \in Loads \ {l} : load'[i] = load[i]
    BY NoLoadType DEF CacheTypes, Merge
  <1>2. \A k \in Messages : load'[l].page[k] = "none"
    BY <1>1, NoLoadType, NothingType
  <1>3. \A k \in Messages : \A c \in Copies : Decrypting(c, k)' => Decrypting(c, k)
    BY <1>1, <1>2 DEF Decrypting, Merge, Copies
  <1>4. \A k \in Messages : \A c \in Copies : Decrypting(c, k) => Decrypting(c, k)' \/ load[l].page[k] = c
    BY <1>1 DEF Decrypting, Merge
  <1>5. \A k \in Messages : \A c \in Copies : load[l].page[k] = c => Decrypting(c, k)
    BY DEF Decrypting
  <1>6. PagesInv => PagesInv'
    BY <1>1, NoLoadType DEF PagesInv
  <1> QED BY <1>1, <1>3, <1>4, <1>5, <1>6

LEMMA UpsertEffect ==
  ASSUME CacheTypes, NEW m \in Messages, Upsert(m)
  PROVE  /\ \A k \in Messages : \A c \in Copies : Decrypting(c, k)' => Decrypting(c, k)
         /\ \A k \in Messages : \A c \in Copies : Decrypting(c, k) => Decrypting(c, k)' \/ (k = m /\ arriving[m] = c)
         /\ Decrypting(arriving[m], m)
  BY DEF CacheTypes, Decrypting, Upsert, Copies

LEMMA AdoptedEffect ==
  ASSUME CacheTypes, Adopted
  PROVE  /\ \A k \in Messages : \A c \in Copies : Decrypting(c, k)' => Decrypting(c, k)
         /\ \A k \in Messages : \A c \in Copies : Decrypting(c, k) => Decrypting(c, k)' \/ (k = adopting.msg /\ c = adopting.copy)
         /\ Decrypting(adopting.copy, adopting.msg)
  BY DEF CacheTypes, Decrypting, Adopted, NoAdoption, Copies

LEMMA AdoptEffect ==
  ASSUME CacheTypes, NEW m \in Messages, Adopt(m)
  PROVE  \A k \in Messages : \A c \in Copies :
            Decrypting(c, k)' <=> Decrypting(c, k) \/ (k = m /\ c = "opening")
  BY DEF CacheTypes, Decrypting, Adopt, NoAdoption, Copies

LEMMA LookType == \A m : Look(m) \in {"readable", "placeholder", "opening"}
  BY DEF Look

LEMMA FallbackType == \A m : Fallback(m) \in {"readable", "placeholder"}
  BY DEF Fallback

\* Events: which of them the channel holds.
LEMMA EventFacts ==
  /\ \A m \in Messages : /\ Created(m) \in Event /\ Deleted(m) \in Event
                         /\ Created(m) # Connected /\ Deleted(m) # Connected
                         /\ Created(m).type = "created" /\ Created(m).msg = m
                         /\ Deleted(m).type = "deleted" /\ Deleted(m).msg = m
  /\ \A m, k \in Messages : Created(m) # Deleted(k) /\ (Created(m) = Created(k) => m = k)
                            /\ (Deleted(m) = Deleted(k) => m = k)
  /\ \A e \in Event : e.msg \in Messages /\ (e = Created(e.msg) \/ e = Deleted(e.msg)) /\ e # Connected
                      /\ (e.type = "created" => e = Created(e.msg)) /\ (e.type = "deleted" => e = Deleted(e.msg))
  BY DEF Event, Created, Deleted, Connected

Frame == Event \cup {Connected}

LEMMA FrameFacts ==
  \A e \in Frame : /\ e.type = "created" => e \in Event
                   /\ e.type = "deleted" => e \in Event
                   /\ e.type = "connected" => e = Connected
  BY DEF Frame, Event, Connected

LEMMA AppendEffect ==
  ASSUME CacheTypes, NEW e \in Frame, wire' = Append(wire, e)
  PROVE  /\ wire' \in Seq(Frame)
         /\ \A x \in Frame : InWire(x)' <=> InWire(x) \/ x = e
         /\ Len(wire') = Len(wire) + 1 /\ Len(wire) \in Nat /\ wire'[Len(wire) + 1] = e
         /\ \A i \in 1..Len(wire) : wire'[i] = wire[i]
PROOF
  <1>1. wire \in Seq(Frame)
    BY DEF CacheTypes, Frame
  <1>2. /\ wire' \in Seq(Frame) /\ Len(wire') = Len(wire) + 1 /\ Len(wire) \in Nat
        /\ \A i \in 1..Len(wire) : wire'[i] = wire[i]
        /\ wire'[Len(wire) + 1] = e
    BY <1>1, AppendProperties, LenProperties
  <1>3. DOMAIN wire = 1..Len(wire) /\ DOMAIN wire' = 1..Len(wire')
    BY <1>1, <1>2, LenProperties
  <1>4. \A x \in Frame : InWire(x)' <=> InWire(x) \/ x = e
    BY <1>2, <1>3 DEF InWire
  <1> QED BY <1>2, <1>4

LEMMA TailEffect ==
  ASSUME CacheTypes, wire # <<>>, wire' = Tail(wire)
  PROVE  /\ wire' \in Seq(Frame) /\ Head(wire) \in Frame /\ InWire(Head(wire))
         /\ Head(wire) = wire[1] /\ Len(wire) \in Nat /\ Len(wire) > 0
         /\ \A i \in DOMAIN wire' : i + 1 \in DOMAIN wire /\ wire'[i] = wire[i + 1] /\ i \in Nat /\ i >= 1
         /\ \A x \in Frame : InWire(x)' => InWire(x)
         /\ \A x \in Frame : InWire(x) => InWire(x)' \/ x = Head(wire)
PROOF
  <1>1. wire \in Seq(Frame)
    BY DEF CacheTypes, Frame
  <1>2. /\ wire' \in Seq(Frame) /\ Len(wire') = Len(wire) - 1 /\ Len(wire) \in Nat /\ Len(wire) > 0
        /\ \A i \in 1..Len(wire') : wire'[i] = wire[i + 1]
        /\ Head(wire) = wire[1] /\ Head(wire) \in Frame
    BY <1>1, HeadTailProperties, EmptySeq, LenProperties
  <1>3. DOMAIN wire = 1..Len(wire) /\ DOMAIN wire' = 1..Len(wire')
    BY <1>1, <1>2, LenProperties
  <1>4. \A i \in DOMAIN wire' : i + 1 \in DOMAIN wire /\ wire'[i] = wire[i + 1] /\ i \in Nat /\ i >= 1
    BY <1>2, <1>3
  <1>5. \A x \in Frame : InWire(x)' => InWire(x)
    BY <1>4 DEF InWire
  <1>6. \A x \in Frame : InWire(x) => InWire(x)' \/ x = Head(wire)
    <2> SUFFICES ASSUME NEW x \in Frame, NEW i \in DOMAIN wire, wire[i] = x, x # Head(wire)
                 PROVE  InWire(x)'
      BY DEF InWire
    <2>1. i # 1 /\ i - 1 \in DOMAIN wire' /\ wire'[i - 1] = x
      BY <1>2, <1>3
    <2> QED BY <2>1 DEF InWire
  <1>7. InWire(Head(wire))
    BY <1>2, <1>3 DEF InWire
  <1> QED BY <1>2, <1>4, <1>5, <1>6, <1>7

-----------------------------------------------------------------------------
(* The message cache: types                                                *)

LEMMA CacheTypesInit == Init => CacheTypes
PROOF
  <1> SUFFICES ASSUME Init PROVE CacheTypes
    OBVIOUS
  <1>1. arriving \in [Messages -> Copy] /\ load \in [Loads -> Load] /\ wire \in Seq(Event \cup {Connected})
    BY NothingType, NoLoadType, EmptySeq DEF Init
  <1>2. /\ log \in [Messages -> {"unsent", "standing", "deleted"}]
        /\ items \in [Messages -> {"none", "readable", "placeholder"}]
        /\ adopting \in [msg : Messages \cup {0}, copy : Copy]
    BY DEF Init, Nothing, NoAdoption, Copy
  <1> QED BY <1>1, <1>2 DEF Init, CacheTypes

LEMMA RecalledType == CacheTypes => \A m \in Messages : Recalled(m) \subseteq Messages
  BY DEF CacheTypes, Recalled

LEMMA CacheTypesNext == CacheTypes /\ [Next]_cacheVars => CacheTypes'
PROOF
  <1> SUFFICES ASSUME CacheTypes, Next PROVE CacheTypes'
    BY DEF CacheTypes, cacheVars
  <1> USE DEF CacheTypes
  <1>1. ASSUME NEW m \in Messages, InsertMessage(m) \/ SoftDeleteMessage(m) PROVE CacheTypes'
    BY <1>1, EventFacts DEF InsertMessage, SoftDeleteMessage, socket, cipher, notes
  <1>2. ASSUME NEW m \in Messages, Decrypt(m) PROVE CacheTypes'
    <2>1. Turn(m, "opening", "opened") /\ opened' \subseteq Messages
      BY <1>2 DEF Decrypt
    <2>2. /\ arriving' \in [Messages -> Copy] /\ load' \in [Loads -> Load]
          /\ adopting' \in [msg : Messages \cup {0}, copy : Copy]
      BY <2>1, TurnEffect DEF Copies, Copy
    <2> QED BY <1>2, <2>1, <2>2 DEF Decrypt, rows, socket, notes
  <1>3. ASSUME NEW m \in Messages, DecryptFails(m) PROVE CacheTypes'
    <2>1. PICK to \in {"readable", "placeholder"} : to = Fallback(m)
      BY FallbackType
    <2>2. Turn(m, "opening", to)
      BY <1>3, <2>1 DEF DecryptFails
    <2>3. /\ arriving' \in [Messages -> Copy] /\ load' \in [Loads -> Load]
          /\ adopting' \in [msg : Messages \cup {0}, copy : Copy]
      BY <2>2, TurnEffect DEF Copies, Copy
    <2> QED BY <1>3, <2>3 DEF DecryptFails, rows, socket, cipher, notes
  <1>4. ASSUME NEW m \in Messages, Remember(m) PROVE CacheTypes'
    <2>1. Turn(m, "opened", "readable") /\ plain' \subseteq Messages
      BY <1>4 DEF Remember
    <2>2. /\ arriving' \in [Messages -> Copy] /\ load' \in [Loads -> Load]
          /\ adopting' \in [msg : Messages \cup {0}, copy : Copy]
      BY <2>1, TurnEffect DEF Copies, Copy
    <2> QED BY <1>4, <2>1, <2>2 DEF Remember, rows, socket, notes
  <1>5. ASSUME NEW m \in Messages, PersistFails(m) PROVE CacheTypes'
    <2>1. PICK to \in {"readable", "placeholder"} : to = Fallback(m)
      BY FallbackType
    <2>2. Turn(m, "opened", to) /\ garbled' \subseteq Messages
      BY <1>5, <2>1 DEF PersistFails
    <2>3. /\ arriving' \in [Messages -> Copy] /\ load' \in [Loads -> Load]
          /\ adopting' \in [msg : Messages \cup {0}, copy : Copy]
      BY <2>2, TurnEffect DEF Copies, Copy
    <2> QED BY <1>5, <2>2, <2>3 DEF PersistFails, rows, socket, cipher
  <1>6. ASSUME NEW m \in Messages, Upsert(m) PROVE CacheTypes'
    BY <1>6 DEF Upsert, Upserted, rows, socket, cipher, notes, Copy
  <1>7. ASSUME NEW m \in Messages, DeleteAnswered(m) \/ Answered(m) \/ AnswerLost(m) PROVE CacheTypes'
    <2>1. CASE DeleteAnswered(m)
      BY <2>1 DEF DeleteAnswered, Remove, rows, socket, cipher, notes
    <2>2. CASE Answered(m)
      BY <2>2 DEF Answered, Upserted, rows, socket, notes
    <2>3. CASE AnswerLost(m)
      BY <2>3 DEF AnswerLost, rows, socket, cipher, notes
    <2> QED BY <1>7, <2>1, <2>2, <2>3
  <1>8. ASSUME NEW m \in Messages, Adopt(m) PROVE CacheTypes'
    BY <1>8 DEF Adopt, rows, socket, cipher, notes, Copy
  <1>9. ASSUME NEW e \in telling, Publish(e) PROVE CacheTypes'
    <2>1. e \in Event
      OBVIOUS
    <2>2. telling' \subseteq Event /\ missed' \subseteq Messages
      BY <1>9, <2>1, EventFacts DEF Publish
    <2>3. wire' \in Seq(Event \cup {Connected})
      BY <1>9, <2>1, AppendEffect DEF Publish, Frame
    <2> QED BY <1>9, <2>2, <2>3 DEF Publish, cipher
  <1>10. ASSUME NEW e \in telling, KeepSilent(e) PROVE CacheTypes'
    BY <1>10, EventFacts DEF KeepSilent, socket, cipher
  <1>11. ASSUME NEW l \in Loads, OpenChat(l) \/ LoadFails(l) \/ Resync(l) \/ Connect(l) PROVE CacheTypes'
    <2>1. PICK r \in Load : load' = [load EXCEPT ![l] = r]
      BY <1>11, NoLoadType DEF OpenChat, LoadFails, Resync, Connect, BeginLoad
    <2>2. load' \in [Loads -> Load]
      BY <2>1
    <2>3. missed' \subseteq Messages
      BY <1>11 DEF OpenChat, LoadFails, Resync, Connect, Unlisted, Standing, notes
    <2> QED BY <1>11, <2>2, <2>3 DEF OpenChat, LoadFails, Resync, Connect, rows, socket, cipher, notes
  <1>12. ASSUME NEW l \in Loads, ListMessages(l) PROVE CacheTypes'
    <2>1. [m \in Messages |-> IF m \in Newest THEN "raw" ELSE "none"] \in [Messages -> Copy]
      BY DEF Copy
    <2>2. [pc |-> "hydrating", page |-> [m \in Messages |-> IF m \in Newest THEN "raw" ELSE "none"]] \in Load
      BY <2>1 DEF Load
    <2>3. load' \in [Loads -> Load]
      BY <1>12, <2>2 DEF ListMessages
    <2>4. missed' \subseteq Messages
      BY <1>12 DEF ListMessages, Unlisted, Standing
    <2> QED BY <1>12, <2>3, <2>4 DEF ListMessages, rows, socket, cipher
  <1>13. ASSUME NEW l \in Loads, Merge(l) PROVE CacheTypes'
    <2>1. load' \in [Loads -> Load]
      BY <1>13, MergeEffect
    <2>2. Merged(load[l].page) \in [Messages -> {"none", "readable", "placeholder"}]
      BY <1>13 DEF Merged, Merge
    <2> QED BY <1>13, <2>1, <2>2 DEF Merge, rows, socket, cipher
  <1>14. ASSUME NEW l \in Loads, TakeConnected(l) PROVE CacheTypes'
    <2>1. load' \in [Loads -> Load]
      BY <1>14, NoLoadType DEF TakeConnected, BeginLoad
    <2>2. wire' \in Seq(Event \cup {Connected})
      BY <1>14, TailEffect DEF TakeConnected, NextIs, Frame
    <2> QED BY <1>14, <2>1, <2>2 DEF TakeConnected, rows, cipher, notes
  <1>15. ASSUME NEW l \in Loads, NEW m \in Messages, HydrateNext(l, m) PROVE CacheTypes'
    <2>1. PICK to \in {"readable", "placeholder", "opening"} : to = Look(m)
      BY LookType
    <2>2. Turn(m, "raw", to)
      BY <1>15, <2>1 DEF HydrateNext, Turn
    <2>3. /\ arriving' \in [Messages -> Copy] /\ load' \in [Loads -> Load]
          /\ adopting' \in [msg : Messages \cup {0}, copy : Copy]
      BY <2>2, TurnEffect DEF Copies, Copy
    <2> QED BY <1>15, <2>3, RecalledType DEF HydrateNext, rows, socket, notes
  <1>16. CASE Subscribe
    <2>1. <<Connected>> \in Seq(Event \cup {Connected})
      BY SeqDef, SMT
    <2> QED BY <1>16, <2>1 DEF Subscribe, rows, cipher, notes
  <1>17. CASE Break
    <2>1. <<>> \in Seq(Event \cup {Connected})
      BY EmptySeq
    <2> QED BY <1>17, <2>1 DEF Break, rows, cipher, notes
  <1>18. CASE TakeCreated
    <2>1. wire' \in Seq(Event \cup {Connected}) /\ Head(wire) \in Frame
      BY <1>18, TailEffect DEF TakeCreated, NextIs, Frame
    <2>2. Head(wire).msg \in Messages
      BY <1>18, <2>1, FrameFacts, EventFacts DEF TakeCreated, NextIs
    <2>3. Look(Head(wire).msg) \in Copy
      BY LookType DEF Copy
    <2>4. arriving' \in [Messages -> Copy]
      BY <1>18, <2>2, <2>3 DEF TakeCreated
    <2> QED BY <1>18, <2>1, <2>2, <2>4, RecalledType DEF TakeCreated, rows, notes
  <1>19. CASE TakeDeleted
    <2>1. wire' \in Seq(Event \cup {Connected})
      BY <1>19, TailEffect DEF TakeDeleted, NextIs, Frame
    <2> QED BY <1>19, <2>1 DEF TakeDeleted, Remove, rows, cipher, notes
  <1>20. CASE Adopted
    BY <1>20 DEF Adopted, NoAdoption, Copy, rows, socket, cipher, notes
  <1>21. CASE Clear
    BY <1>21 DEF Clear, Nothing, Listed, rows, socket, cipher
  <1> QED
    BY <1>1, <1>2, <1>3, <1>4, <1>5, <1>6, <1>7, <1>8, <1>9, <1>10, <1>11, <1>12, <1>13, <1>14, <1>15,
       <1>16, <1>17, <1>18, <1>19, <1>20, <1>21 DEF Next

-----------------------------------------------------------------------------
(* The message cache: where copies come from                               *)

\* The steps that touch no copy.
StillStep ==
    \/ \E m \in Messages : InsertMessage(m) \/ SoftDeleteMessage(m) \/ DeleteAnswered(m) \/ Answered(m) \/ AnswerLost(m)
    \/ \E e \in telling : Publish(e) \/ KeepSilent(e)
    \/ Subscribe \/ Break \/ TakeDeleted \/ Clear
\* The steps that begin a load or end one without an answer.
LoadStep(l) == OpenChat(l) \/ Resync(l) \/ LoadFails(l) \/ Connect(l) \/ TakeConnected(l)
\* The steps that take a copy further.
TurnStep(m, from, to) ==
    /\ from # to /\ from # "placeholder" /\ to # "raw" /\ from \in Copies /\ to \in Copies /\ Turn(m, from, to)
    /\ \/ Decrypt(m) /\ from = "opening" /\ to = "opened"
       \/ DecryptFails(m) /\ from = "opening" /\ to = Fallback(m)
       \/ Remember(m) /\ from = "opened" /\ to = "readable"
       \/ PersistFails(m) /\ from = "opened" /\ to = Fallback(m)
       \/ \E l \in Loads : HydrateNext(l, m) /\ from = "raw" /\ to = Look(m)

LEMMA StepKinds ==
  ASSUME Next
  PROVE  \/ StillStep
         \/ \E l \in Loads : LoadStep(l) \/ ListMessages(l) \/ Merge(l)
         \/ \E m \in Messages : Upsert(m) \/ Adopt(m)
         \/ \E m \in Messages : \E from, to \in Copies : TurnStep(m, from, to)
         \/ TakeCreated \/ Adopted
PROOF
  <1>1. ASSUME NEW m \in Messages, Decrypt(m) PROVE TurnStep(m, "opening", "opened")
    BY <1>1 DEF TurnStep, Copies, Copy, Decrypt
  <1>2. ASSUME NEW m \in Messages, DecryptFails(m) PROVE \E from, to \in Copies : TurnStep(m, from, to)
    <2>1. PICK to \in Copies : to = Fallback(m) /\ to # "opening" /\ to # "raw"
      BY FallbackType DEF Copies, Copy
    <2>2. TurnStep(m, "opening", to)
      BY <1>2, <2>1 DEF TurnStep, Copies, Copy, DecryptFails
    <2> QED BY <2>2 DEF Copies, Copy
  <1>3. ASSUME NEW m \in Messages, Remember(m) PROVE TurnStep(m, "opened", "readable")
    BY <1>3 DEF TurnStep, Copies, Copy, Remember
  <1>4. ASSUME NEW m \in Messages, PersistFails(m) PROVE \E from, to \in Copies : TurnStep(m, from, to)
    <2>1. PICK to \in Copies : to = Fallback(m) /\ to # "opened" /\ to # "raw"
      BY FallbackType DEF Copies, Copy
    <2>2. TurnStep(m, "opened", to)
      BY <1>4, <2>1 DEF TurnStep, Copies, Copy, PersistFails
    <2> QED BY <2>2 DEF Copies, Copy
  <1>5. ASSUME NEW m \in Messages, NEW l \in Loads, HydrateNext(l, m)
        PROVE  \E from, to \in Copies : TurnStep(m, from, to)
    <2>1. PICK to \in Copies : to = Look(m) /\ to # "raw"
      BY LookType DEF Copies, Copy
    <2>2. Turn(m, "raw", to)
      BY <1>5, <2>1 DEF HydrateNext, Turn
    <2>3. TurnStep(m, "raw", to)
      BY <1>5, <2>1, <2>2 DEF TurnStep, Copies, Copy
    <2> QED BY <2>3 DEF Copies, Copy
  <1>6. "opening" \in Copies /\ "opened" \in Copies /\ "readable" \in Copies
    BY DEF Copies, Copy
  <1>7. ASSUME NEW m \in Messages, Decrypt(m) \/ DecryptFails(m) \/ Remember(m) \/ PersistFails(m)
                 \/ \E l \in Loads : HydrateNext(l, m)
        PROVE  \E from, to \in Copies : TurnStep(m, from, to)
    BY <1>1, <1>2, <1>3, <1>4, <1>5, <1>6, <1>7
  <1> QED BY <1>7 DEF Next, StillStep, LoadStep

LEMMA StillEffect == ASSUME StillStep PROVE UNCHANGED <<arriving, load, adopting>>
  BY DEF StillStep, InsertMessage, SoftDeleteMessage, DeleteAnswered, Answered, AnswerLost, Publish, KeepSilent,
         Subscribe, Break, TakeDeleted, Clear

LEMMA LoadStepEffect ==
  ASSUME CacheTypes, PagesInv, NEW l \in Loads, LoadStep(l)
  PROVE  /\ CopiesSame /\ PagesInv' /\ load[l].pc # "hydrating" /\ UNCHANGED <<arriving, adopting>>
         /\ load'[l].pc # "hydrating" /\ \A i \in Loads \ {l} : load'[i] = load[i]
PROOF
  <1>1. PICK r \in Load : r.page = Nothing /\ r.pc # "hydrating" /\ load' = [load EXCEPT ![l] = r]
    BY NoLoadType DEF LoadStep, OpenChat, Resync, LoadFails, Connect, TakeConnected, BeginLoad
  <1>2. load[l].pc # "hydrating"
    BY DEF LoadStep, OpenChat, Resync, LoadFails, Connect, TakeConnected, BeginLoad
  <1>3. UNCHANGED <<arriving, adopting>>
    BY DEF LoadStep, OpenChat, Resync, LoadFails, Connect, TakeConnected
  <1> QED BY <1>1, <1>2, <1>3, LoadEffect

LEMMA TakeCreatedEffect ==
  ASSUME CacheTypes, CreationToldOnce, TakeCreated
  PROVE  \E m \in Messages : \E look \in {"readable", "placeholder", "opening"} :
            /\ look = Look(m) /\ Head(wire) = Created(m) /\ InWire(Created(m)) /\ plain' = Recalled(m)
            /\ arriving' = [arriving EXCEPT ![m] = look] /\ arriving[m] = "none"
            /\ \A k \in Messages : \A c \in Copies : Decrypting(c, k)' <=> Decrypting(c, k) \/ (k = m /\ c = look)
PROOF
  <1>1. Head(wire) \in Frame /\ InWire(Head(wire))
    BY TailEffect DEF TakeCreated, NextIs
  <1>2. PICK m \in Messages : m = Head(wire).msg /\ Head(wire) = Created(m)
    BY <1>1, FrameFacts, EventFacts DEF TakeCreated, NextIs
  <1>3. PICK look \in {"readable", "placeholder", "opening"} : look = Look(m)
    BY LookType
  <1>4. arriving' = [arriving EXCEPT ![m] = look] /\ arriving[m] = "none" /\ plain' = Recalled(m)
        /\ UNCHANGED <<load, adopting>>
    BY <1>1, <1>2, <1>3 DEF TakeCreated, CreationToldOnce
  <1>5. \A k \in Messages : \A c \in Copies : Decrypting(c, k)' <=> Decrypting(c, k) \/ (k = m /\ c = look)
    BY <1>4 DEF Decrypting, CacheTypes, Copies
  <1> QED BY <1>1, <1>2, <1>3, <1>4, <1>5

\* A copy is a copy from before, or was listed by the server, told of, or taken from the list; and what is
\* decrypted, or could not be, was encrypted.
LEMMA NewCopies ==
  ASSUME CacheTypes, CopiesInv, Next, NEW k \in Messages, NEW c \in Copies, Decrypting(c, k)'
  PROVE  /\ HasCopy(k) \/ k \in Standing \/ InWire(Created(k)) \/ items[k] = "placeholder"
         /\ c \in {"opening", "opened"} => k \in Encrypted \ mine
         /\ c = "placeholder" => k \in Encrypted
         /\ c = "opening" => Decrypting(c, k) \/ k \notin plain
         /\ c = "placeholder" =>
               Decrypting(c, k) \/ Decrypting("opening", k) \/ Decrypting("opened", k) \/ k \in mine \ plain
PROOF
  <1> DEFINE Goal == /\ HasCopy(k) \/ k \in Standing \/ InWire(Created(k)) \/ items[k] = "placeholder"
                     /\ c \in {"opening", "opened"} => k \in Encrypted \ mine
                     /\ c = "placeholder" => k \in Encrypted
                     /\ c = "opening" => Decrypting(c, k) \/ k \notin plain
                     /\ c = "placeholder" =>
                           Decrypting(c, k) \/ Decrypting("opening", k) \/ Decrypting("opened", k) \/ k \in mine \ plain
  <1> SUFFICES Goal
    OBVIOUS
  <1>1. ASSUME Decrypting(c, k) PROVE Goal
    BY <1>1 DEF HasCopy, Copies, CopiesInv, PeersText
  <1>2. CASE CopiesSame
    BY <1>1, <1>2 DEF CopiesSame
  <1>3. CASE StillStep
    BY <1>2, <1>3, StillEffect, SameCopies
  <1>4. ASSUME NEW l \in Loads, LoadStep(l) PROVE Goal
    BY <1>2, <1>4, LoadStepEffect DEF CopiesInv
  <1>5. ASSUME NEW l \in Loads, ListMessages(l) PROVE Goal
    <2>1. Decrypting(c, k) \/ (c = "raw" /\ k \in Newest)
      BY <1>5, ListEffect DEF CopiesInv
    <2> QED BY <1>1, <2>1 DEF Newest
  <1>6. ASSUME NEW l \in Loads, Merge(l) PROVE Goal
    BY <1>1, <1>6, MergeEffect
  <1>7. ASSUME NEW m \in Messages, Upsert(m) PROVE Goal
    BY <1>1, <1>7, UpsertEffect
  <1>8. ASSUME NEW m \in Messages, Adopt(m) PROVE Goal
    <2>1. Decrypting(c, k) \/ (k = m /\ c = "opening")
      BY <1>8, AdoptEffect
    <2>2. items[m] = "placeholder" /\ m \in Encrypted \ mine /\ m \notin plain
      BY <1>8 DEF Adopt, CopiesInv, PeersText
    <2> QED BY <1>1, <2>1, <2>2
  <1>9. CASE Adopted
    BY <1>1, <1>9, AdoptedEffect
  <1>10. CASE TakeCreated
    <2>1. PICK m \in Messages : \E look \in {"readable", "placeholder", "opening"} :
            /\ look = Look(m) /\ InWire(Created(m))
            /\ Decrypting(c, k)' <=> Decrypting(c, k) \/ (k = m /\ c = look)
      BY <1>10, TakeCreatedEffect DEF CopiesInv
    <2>2. Look(m) = "opening" => m \in Encrypted \ mine /\ m \notin plain
      BY DEF Look
    <2>3. Look(m) = "placeholder" => m \in Encrypted /\ m \in mine \ plain
      BY DEF Look
    <2> QED BY <1>1, <2>1, <2>2, <2>3
  <1>11. ASSUME NEW m \in Messages, NEW from \in Copies, NEW to \in Copies, TurnStep(m, from, to) PROVE Goal
    <2>1. Decrypting(from, m) /\ (Decrypting(c, k) \/ (k = m /\ c = to))
      BY <1>11, TurnEffect DEF TurnStep
    <2>2. from \in {"opening", "opened"} => m \in Encrypted \ mine
      BY <2>1 DEF CopiesInv, PeersText
    <2>3. \/ from \in {"opening", "opened"} /\ to \in {"opened", "readable", "placeholder"}
          \/ from = "raw" /\ to = Look(m)
      BY <1>11, FallbackType DEF TurnStep
    <2>4. Look(m) = "opening" => m \in Encrypted \ mine /\ m \notin plain
      BY DEF Look
    <2>5. Look(m) = "placeholder" => m \in Encrypted /\ m \in mine \ plain
      BY DEF Look
    <2>6. HasCopy(m)
      BY <2>1 DEF HasCopy, Copies
    <2>7. from \in {"opening", "opened"} => Decrypting("opening", m) \/ Decrypting("opened", m)
      BY <2>1
    <2>8. CASE k = m /\ c = to
      <3>1. CASE from \in {"opening", "opened"} /\ to \in {"opened", "readable", "placeholder"}
        BY <3>1, <2>8, <2>2, <2>6, <2>7
      <3>2. CASE from = "raw" /\ to = Look(m)
        BY <3>2, <2>8, <2>4, <2>5, <2>6, LookType
      <3> QED BY <3>1, <3>2, <2>3
    <2> QED BY <1>1, <2>1, <2>8
  <1> HIDE DEF Goal
  <1>12. \/ StillStep
         \/ \E l \in Loads : LoadStep(l) \/ ListMessages(l) \/ Merge(l)
         \/ \E m \in Messages : Upsert(m) \/ Adopt(m)
         \/ \E m \in Messages : \E from, to \in Copies : TurnStep(m, from, to)
         \/ TakeCreated \/ Adopted
    BY StepKinds
  <1>13. (\E l \in Loads : LoadStep(l) \/ ListMessages(l) \/ Merge(l)) => Goal
    BY <1>4, <1>5, <1>6
  <1>14. (\E m \in Messages : Upsert(m) \/ Adopt(m)) => Goal
    BY <1>7, <1>8
  <1>15. (\E m \in Messages : \E from, to \in Copies : TurnStep(m, from, to)) => Goal
    BY <1>11
  <1> QED
    BY <1>3, <1>9, <1>10, <1>12, <1>13, <1>14, <1>15

-----------------------------------------------------------------------------
(* The message cache: where the rest comes from                            *)

LEMMA RowsEffect ==
  ASSUME Next
  PROVE  \/ UNCHANGED <<log, mine>> /\ telling' \subseteq telling /\ due' \subseteq due
         \/ \E m \in Messages : InsertMessage(m) \/ SoftDeleteMessage(m)
PROOF
  <1>1. ASSUME NEW m \in Messages, Decrypt(m) \/ DecryptFails(m) \/ Remember(m) \/ PersistFails(m) \/ Upsert(m)
                                   \/ DeleteAnswered(m) \/ Answered(m) \/ AnswerLost(m) \/ Adopt(m)
        PROVE  UNCHANGED <<log, mine, telling>> /\ due' \subseteq due
    BY <1>1 DEF Decrypt, DecryptFails, Remember, PersistFails, Upsert, DeleteAnswered, Answered, AnswerLost, Adopt, rows
  <1>2. ASSUME NEW e \in telling, Publish(e) \/ KeepSilent(e)
        PROVE  UNCHANGED <<log, mine, due>> /\ telling' \subseteq telling
    BY <1>2 DEF Publish, KeepSilent
  <1>3. ASSUME NEW l \in Loads, OpenChat(l) \/ Resync(l) \/ LoadFails(l) \/ ListMessages(l) \/ Merge(l)
                                \/ Connect(l) \/ TakeConnected(l) \/ \E m \in Messages : HydrateNext(l, m)
        PROVE  UNCHANGED <<log, mine, telling, due>>
    BY <1>3 DEF OpenChat, Resync, LoadFails, ListMessages, Merge, Connect, TakeConnected, HydrateNext, rows
  <1>4. ASSUME Subscribe \/ Break \/ TakeCreated \/ TakeDeleted \/ Adopted \/ Clear
        PROVE  UNCHANGED <<log, mine, telling, due>>
    BY <1>4 DEF Subscribe, Break, TakeCreated, TakeDeleted, Adopted, Clear, rows
  <1> QED BY <1>1, <1>2, <1>3, <1>4 DEF Next

LEMMA WireEffect ==
  ASSUME CacheTypes, Next
  PROVE  \/ UNCHANGED <<wire, link>>
         \/ wire' = wire /\ \E l \in Loads : Connect(l)
         \/ \E e \in telling : Publish(e) /\ link = "up" /\ link' = "up" /\ wire' = Append(wire, e)
                               /\ telling' = telling \ {e} /\ missed' = missed
         \/ Subscribe \/ Break
         \/ wire # <<>> /\ wire' = Tail(wire) /\ link' = link
              /\ (TakeCreated \/ TakeDeleted \/ \E l \in Loads : TakeConnected(l))
PROOF
  <1>1. ASSUME NEW m \in Messages, InsertMessage(m) \/ SoftDeleteMessage(m)
                                   \/ Decrypt(m) \/ DecryptFails(m) \/ Remember(m) \/ PersistFails(m) \/ Upsert(m)
                                   \/ DeleteAnswered(m) \/ Answered(m) \/ AnswerLost(m) \/ Adopt(m)
        PROVE  UNCHANGED <<wire, link>>
    BY <1>1 DEF InsertMessage, SoftDeleteMessage, Decrypt, DecryptFails, Remember, PersistFails, Upsert,
                DeleteAnswered, Answered, AnswerLost, Adopt, socket
  <1>2. ASSUME NEW e \in telling, Publish(e) \/ KeepSilent(e)
        PROVE  UNCHANGED <<wire, link>> \/ (Publish(e) /\ link = "up" /\ link' = "up" /\ wire' = Append(wire, e)
                               /\ telling' = telling \ {e} /\ missed' = missed)
    BY <1>2 DEF Publish, KeepSilent, socket
  <1>3. ASSUME NEW l \in Loads, OpenChat(l) \/ Resync(l) \/ LoadFails(l) \/ ListMessages(l) \/ Merge(l)
                                \/ \E m \in Messages : HydrateNext(l, m)
        PROVE  UNCHANGED <<wire, link>>
    BY <1>3 DEF OpenChat, Resync, LoadFails, ListMessages, Merge, HydrateNext, socket
  <1>4. ASSUME NEW l \in Loads, Connect(l) PROVE wire' = wire
    BY <1>4 DEF Connect
  <1>5. ASSUME Adopted \/ Clear PROVE UNCHANGED <<wire, link>>
    BY <1>5 DEF Adopted, Clear, socket
  <1>6. ASSUME TakeCreated \/ TakeDeleted \/ \E l \in Loads : TakeConnected(l)
        PROVE  wire # <<>> /\ wire' = Tail(wire) /\ link' = link
    BY <1>6 DEF TakeCreated, TakeDeleted, TakeConnected, NextIs
  <1> QED BY <1>1, <1>2, <1>3, <1>4, <1>5, <1>6 DEF Next

\* An event on its way was written by the server, or was on its way before.
LEMMA EventsFrom ==
  ASSUME CacheTypes, Next, NEW e \in Event, e \in telling' \/ InWire(e)'
  PROVE  e \in telling \/ InWire(e) \/ \E m \in Messages : InsertMessage(m) \/ SoftDeleteMessage(m)
PROOF
  <1>1. CASE e \in telling'
    BY <1>1, RowsEffect
  <1>2. CASE InWire(e)'
    <2>1. CASE UNCHANGED wire
      BY <1>2, <2>1 DEF InWire
    <2>2. ASSUME NEW x \in telling, wire' = Append(wire, x) PROVE e \in telling \/ InWire(e)
      BY <1>2, <2>2, AppendEffect DEF Frame, CacheTypes
    <2>3. CASE wire # <<>> /\ wire' = Tail(wire)
      BY <1>2, <2>3, TailEffect DEF Frame
    <2>4. CASE Subscribe \/ Break
      BY <1>2, <2>4, EventFacts DEF InWire, Subscribe, Break
    <2> QED BY <2>1, <2>2, <2>3, <2>4, WireEffect
  <1> QED BY <1>1, <1>2

\* What is listed was, or a copy of it has arrived, or the answer to its POST.
LEMMA ListedFrom ==
  ASSUME CacheTypes, Next, NEW k \in Messages, k \in Listed'
  PROVE  k \in Listed \cup due \/ HasCopy(k)
PROOF
  <1>1. items'[k] # "none" /\ (items' = items => k \in Listed)
    BY DEF Listed
  <1>2. ASSUME NEW m \in Messages, Upsert(m) PROVE k \in Listed \/ HasCopy(k)
    <2>1. HasCopy(m) /\ (k # m => items'[k] = items[k])
      BY <1>2, UpsertEffect DEF Upsert, Upserted, HasCopy, Copy, CacheTypes
    <2> QED BY <1>1, <2>1 DEF Listed
  <1>3. ASSUME NEW m \in Messages, Answered(m) PROVE k \in Listed \cup due
    <2>1. m \in due /\ (k # m => items'[k] = items[k])
      BY <1>3 DEF Answered, Upserted, CacheTypes
    <2> QED BY <1>1, <2>1 DEF Listed
  <1>4. ASSUME NEW l \in Loads, Merge(l) PROVE k \in Listed \/ HasCopy(k)
    <2>1. load[l].page[k] \in {"none", "readable", "placeholder"}
      BY <1>4 DEF Merge
    <2>2. load[l].page[k] # "none" => HasCopy(k)
      BY <1>4, <2>1, MergeEffect DEF HasCopy, Copies, Copy
    <2>3. load[l].page[k] = "none" => items'[k] = items[k]
      BY <1>4 DEF Merge, Merged
    <2> QED BY <1>1, <2>2, <2>3 DEF Listed
  <1>5. ASSUME Adopted PROVE k \in Listed \/ HasCopy(k)
    <2>1. k # adopting.msg => items'[k] = items[k]
      BY <1>5 DEF Adopted, CacheTypes
    <2>2. k = adopting.msg => HasCopy(k)
      BY <1>5, AdoptedEffect DEF HasCopy, Adopted, Copy
    <2> QED BY <1>1, <2>1, <2>2 DEF Listed
  <1>6. ASSUME NEW m \in Messages, DeleteAnswered(m) PROVE k \in Listed
    BY <1>1, <1>6 DEF DeleteAnswered, Remove, Listed, CacheTypes
  <1>7. ASSUME TakeDeleted PROVE k \in Listed
    BY <1>1, <1>7 DEF TakeDeleted, Remove, Listed, CacheTypes
  <1>8. ASSUME Clear PROVE k \in Listed
    BY <1>1, <1>8, NothingType DEF Clear
  <1>9. ASSUME NEW m \in Messages, InsertMessage(m) \/ SoftDeleteMessage(m) \/ Decrypt(m) \/ DecryptFails(m) \/ Remember(m)
                                   \/ PersistFails(m) \/ AnswerLost(m) \/ Adopt(m)
        PROVE  items' = items
    BY <1>9 DEF InsertMessage, SoftDeleteMessage, Decrypt, DecryptFails, Remember, PersistFails, AnswerLost, Adopt
  <1>10. ASSUME NEW l \in Loads, OpenChat(l) \/ Resync(l) \/ LoadFails(l) \/ ListMessages(l) \/ Connect(l)
                                 \/ TakeConnected(l) \/ \E m \in Messages : HydrateNext(l, m)
         PROVE  items' = items
    BY <1>10 DEF OpenChat, Resync, LoadFails, ListMessages, Connect, TakeConnected, HydrateNext
  <1>11. ASSUME NEW e \in telling, Publish(e) \/ KeepSilent(e) PROVE items' = items
    BY <1>11 DEF Publish, KeepSilent
  <1>12. ASSUME Subscribe \/ Break \/ TakeCreated PROVE items' = items
    BY <1>12 DEF Subscribe, Break, TakeCreated
  <1> QED
    BY <1>1, <1>2, <1>3, <1>4, <1>5, <1>6, <1>7, <1>8, <1>9, <1>10, <1>11, <1>12 DEF Next

\* A text that is remembered was at hand, and a key that is used was about to be.
LEMMA CipherFrom ==
  ASSUME CacheTypes, CreationToldOnce, Next, NEW k \in Messages
  PROVE  /\ k \in opened' => k \in opened \/ Decrypting("opening", k)
         /\ k \in plain' => k \in plain \cup due \/ HasCopy(k) \/ items[k] = "readable"
PROOF
  <1>1. ASSUME NEW m \in Messages, Decrypt(m)
        PROVE  plain' = plain /\ (k \in opened' => k \in opened \/ Decrypting("opening", k))
    BY <1>1, TurnEffect DEF Decrypt, Copies, Copy
  <1>2. ASSUME NEW m \in Messages, Remember(m) PROVE opened' = opened /\ (k \in plain' => k \in plain \/ HasCopy(k))
    <2>1. HasCopy(m)
      BY <1>2, TurnEffect DEF Remember, Copies, Copy, HasCopy
    <2> QED BY <1>2, <2>1 DEF Remember
  <1>3. ASSUME NEW m \in Messages, Answered(m) PROVE opened' = opened /\ (k \in plain' => k \in plain \cup due)
    BY <1>3 DEF Answered
  <1>4. ASSUME NEW l \in Loads, NEW m \in Messages, HydrateNext(l, m)
        PROVE  opened' = opened /\ (k \in plain' => k \in plain \/ items[k] = "readable")
    BY <1>4 DEF HydrateNext, Recalled
  <1>5. ASSUME TakeCreated PROVE opened' = opened /\ (k \in plain' => k \in plain \/ items[k] = "readable")
    BY <1>5, TakeCreatedEffect DEF TakeCreated, Recalled
  <1>6. ASSUME NEW m \in Messages, InsertMessage(m) \/ SoftDeleteMessage(m) \/ DecryptFails(m) \/ PersistFails(m)
                                   \/ Upsert(m) \/ DeleteAnswered(m) \/ AnswerLost(m) \/ Adopt(m)
        PROVE  UNCHANGED <<opened, plain>>
    BY <1>6 DEF InsertMessage, SoftDeleteMessage, DecryptFails, PersistFails, Upsert, DeleteAnswered, AnswerLost,
                Adopt, cipher
  <1>7. ASSUME NEW l \in Loads, OpenChat(l) \/ Resync(l) \/ LoadFails(l) \/ ListMessages(l) \/ Merge(l) \/ Connect(l)
                                 \/ TakeConnected(l)
        PROVE  UNCHANGED <<opened, plain>>
    BY <1>7 DEF OpenChat, Resync, LoadFails, ListMessages, Merge, Connect, TakeConnected, cipher
  <1>8. ASSUME NEW e \in telling, Publish(e) \/ KeepSilent(e) PROVE UNCHANGED <<opened, plain>>
    BY <1>8 DEF Publish, KeepSilent, cipher
  <1>9. ASSUME Subscribe \/ Break \/ TakeDeleted \/ Adopted \/ Clear PROVE UNCHANGED <<opened, plain>>
    BY <1>9 DEF Subscribe, Break, TakeDeleted, Adopted, Clear, cipher
  <1> QED BY <1>1, <1>2, <1>3, <1>4, <1>5, <1>6, <1>7, <1>8, <1>9 DEF Next

-----------------------------------------------------------------------------
(* The message cache: the invariant                                        *)

CacheInv == CacheTypes /\ CacheTies /\ CopiesInv

LEMMA CacheInvInit == Init => CacheInv
PROOF
  <1> SUFFICES ASSUME Init PROVE CacheInv
    OBVIOUS
  <1>1. CacheTypes
    BY CacheTypesInit
  <1>2. /\ \A m \in Messages : items[m] = "none" /\ arriving[m] = "none"
        /\ \A l \in Loads : load[l].page = Nothing
        /\ adopting.copy = "none" /\ DOMAIN wire = {}
    BY NothingType, NoLoadType DEF Init, NoAdoption
  <1>3. \A m \in Messages : \A c \in Copies : ~Decrypting(c, m)
    BY <1>2, NothingType DEF Decrypting, Copies
  <1>4. Listed = {} /\ \A e : ~InWire(e)
    BY <1>2 DEF Listed, InWire
  <1>5. UnsentUnknown
    BY <1>3, <1>4 DEF UnsentUnknown, HasCopy, Copies, Init
  <1>6. DeletionTold /\ PagesInv /\ AdoptionInv
    BY <1>2, <1>4 DEF DeletionTold, PagesInv, AdoptionInv, Init
  <1>7. CreationToldOnce
    BY <1>2, <1>4 DEF CreationToldOnce, Init
  <1>8. PeersText
    BY <1>2, <1>3 DEF PeersText, Copies, Copy
  <1>9. CacheTies
    BY <1>4 DEF CacheTies, Init
  <1> QED BY <1>1, <1>5, <1>6, <1>7, <1>8, <1>9 DEF CacheInv, CopiesInv

\* A message is written once, and deleted after.
LEMMA LogEffect ==
  ASSUME CacheTypes, Next, NEW k \in Messages
  PROVE  /\ log'[k] = "unsent" => log[k] = "unsent" /\ ~InsertMessage(k)
         /\ log[k] = "deleted" => log'[k] = "deleted"
         /\ log'[k] = "standing" /\ log[k] # "standing" => InsertMessage(k)
         /\ log'[k] = "deleted" /\ log[k] # "deleted" => SoftDeleteMessage(k)
         /\ k \in mine' => k \in mine \/ log[k] = "unsent"
PROOF
  <1>1. ASSUME UNCHANGED <<log, mine>> PROVE ~InsertMessage(k)
    BY <1>1 DEF InsertMessage, CacheTypes
  <1>2. CASE UNCHANGED <<log, mine>>
    BY <1>1, <1>2
  <1>3. ASSUME NEW m \in Messages, InsertMessage(m)
        PROVE  /\ log'[k] = "unsent" => log[k] = "unsent" /\ ~InsertMessage(k)
               /\ log[k] = "deleted" => log'[k] = "deleted"
               /\ log'[k] = "standing" /\ log[k] # "standing" => InsertMessage(k)
               /\ log'[k] = "deleted" => log[k] = "deleted"
               /\ k \in mine' => k \in mine \/ log[k] = "unsent"
    BY <1>3 DEF InsertMessage, CacheTypes
  <1>4. ASSUME NEW m \in Messages, SoftDeleteMessage(m)
        PROVE  /\ log'[k] = "unsent" => log[k] = "unsent" /\ ~InsertMessage(k)
               /\ log[k] = "deleted" => log'[k] = "deleted"
               /\ log'[k] = "standing" => log[k] = "standing"
               /\ log'[k] = "deleted" /\ log[k] # "deleted" => SoftDeleteMessage(k)
               /\ k \in mine' => k \in mine
    BY <1>4 DEF InsertMessage, SoftDeleteMessage, CacheTypes
  <1> QED BY <1>2, <1>3, <1>4, RowsEffect

\* A creation that is told of anew is that of a message that was not written.
LEMMA CreatedFrom ==
  ASSUME CacheTypes, Next, NEW k \in Messages, Created(k) \in telling' \/ InWire(Created(k))'
  PROVE  Created(k) \in telling \/ InWire(Created(k)) \/ InsertMessage(k)
PROOF
  <1>1. ASSUME NEW m \in Messages, InsertMessage(m) \/ SoftDeleteMessage(m)
        PROVE  Created(k) \in telling \/ InWire(Created(k)) \/ InsertMessage(k)
    <2>1. wire' = wire /\ (Created(k) \in telling' => Created(k) \in telling \/ InsertMessage(k))
      BY <1>1, EventFacts DEF InsertMessage, SoftDeleteMessage, socket
    <2> QED BY <2>1 DEF InWire
  <1> QED BY <1>1, EventsFrom, EventFacts

LEMMA UnsentUnknownNext == ASSUME CacheInv, Next PROVE UnsentUnknown'
PROOF
  <1> SUFFICES ASSUME NEW k \in Messages, log'[k] = "unsent"
               PROVE  /\ k \notin (mine \cup opened \cup plain \cup Listed)'
                      /\ ~HasCopy(k)' /\ Created(k) \notin telling' /\ ~InWire(Created(k))'
    BY DEF UnsentUnknown
  <1>1. CacheTypes /\ CopiesInv
    BY DEF CacheInv
  <1>2. /\ log[k] = "unsent" /\ ~InsertMessage(k) /\ k \notin mine \cup opened \cup plain \cup Listed
        /\ ~HasCopy(k) /\ Created(k) \notin telling /\ ~InWire(Created(k)) /\ k \notin due
        /\ items[k] = "none"
    BY <1>1, LogEffect DEF CopiesInv, UnsentUnknown, CacheTypes, Listed
  <1>3. Created(k) \notin telling' /\ ~InWire(Created(k))'
    BY <1>1, <1>2, CreatedFrom
  <1>4. k \notin Listed'
    BY <1>1, <1>2, ListedFrom
  <1>5. ~HasCopy(k)'
    <2> SUFFICES ASSUME NEW c \in Copies, Decrypting(c, k)' PROVE FALSE
      BY DEF HasCopy, Copies
    <2> QED BY <1>1, <1>2, NewCopies DEF Standing
  <1>6. k \notin opened' /\ k \notin plain'
    BY <1>1, <1>2, CipherFrom DEF CopiesInv, HasCopy, Copy
  <1>7. k \notin mine'
    <2>1. CASE UNCHANGED mine
      BY <1>2, <2>1
    <2>2. ASSUME NEW m \in Messages, InsertMessage(m) \/ SoftDeleteMessage(m) PROVE k \notin mine'
      BY <1>2, <2>2 DEF InsertMessage, SoftDeleteMessage
    <2> QED BY <2>1, <2>2, RowsEffect
  <1> QED BY <1>3, <1>4, <1>5, <1>6, <1>7

LEMMA DeletionToldNext == ASSUME CacheInv, Next PROVE DeletionTold'
PROOF
  <1> SUFFICES ASSUME NEW k \in Messages, Deleted(k) \in telling' \/ InWire(Deleted(k))'
               PROVE  log'[k] = "deleted"
    BY DEF DeletionTold
  <1>1. CacheTypes /\ DeletionTold
    BY DEF CacheInv, CopiesInv
  <1>2. CASE Deleted(k) \in telling \/ InWire(Deleted(k))
    BY <1>1, <1>2, LogEffect DEF DeletionTold
  <1>3. ASSUME NEW m \in Messages, InsertMessage(m) \/ SoftDeleteMessage(m), Deleted(k) \notin telling, ~InWire(Deleted(k))
        PROVE  log'[k] = "deleted"
    <2>1. wire' = wire /\ Deleted(k) \in telling'
      BY <1>3 DEF InsertMessage, SoftDeleteMessage, socket, InWire
    <2>2. SoftDeleteMessage(m) /\ m = k
      BY <1>3, <2>1, EventFacts DEF InsertMessage, SoftDeleteMessage
    <2> QED BY <1>1, <2>2 DEF SoftDeleteMessage, CacheTypes
  <1> QED BY <1>1, <1>2, <1>3, EventsFrom, EventFacts

\* An event that arrives is taken from the channel.
LEMMA ArrivingFrom ==
  ASSUME CacheTypes, CreationToldOnce, Next, NEW k \in Messages, arriving'[k] # "none"
  PROVE  arriving[k] # "none" \/ (TakeCreated /\ Head(wire) = Created(k) /\ InWire(Created(k)))
PROOF
  <1>1. CASE arriving' = arriving
    BY <1>1
  <1>2. ASSUME NEW m \in Messages, NEW from \in Copies, NEW to \in Copies, TurnStep(m, from, to)
        PROVE  arriving[k] # "none"
    BY <1>2, TurnEffect DEF TurnStep
  <1>3. CASE StillStep \/ \E l \in Loads : LoadStep(l) \/ ListMessages(l) \/ Merge(l)
    <2>1. arriving' = arriving
      BY <1>3, StillEffect DEF ListMessages, Merge, LoadStep, OpenChat, Resync, LoadFails, Connect, TakeConnected
    <2> QED BY <1>1, <2>1
  <1>4. ASSUME NEW m \in Messages, Upsert(m) \/ Adopt(m) PROVE arriving[k] # "none"
    BY <1>4 DEF Upsert, Adopt, CacheTypes
  <1>5. CASE Adopted
    BY <1>5, <1>1 DEF Adopted
  <1>6. CASE TakeCreated
    <2>1. PICK m \in Messages : \E look : /\ Head(wire) = Created(m) /\ InWire(Created(m))
                                          /\ arriving' = [arriving EXCEPT ![m] = look]
      BY <1>6, TakeCreatedEffect
    <2> QED BY <1>6, <2>1 DEF CacheTypes
  <1> QED BY <1>2, <1>3, <1>4, <1>5, <1>6, StepKinds

LEMMA CreationToldOnceNext == ASSUME CacheInv, Next PROVE CreationToldOnce'
PROOF
  <1>1. CacheTypes /\ UnsentUnknown /\ CreationToldOnce
    BY DEF CacheInv, CopiesInv
  <1>2. ASSUME NEW k \in Messages, Created(k) \in telling' PROVE ~InWire(Created(k))' /\ arriving'[k] = "none"
    <2>1. ~InWire(Created(k)) /\ arriving[k] = "none"
      <3>1. CASE Created(k) \in telling
        BY <1>1, <3>1 DEF CreationToldOnce
      <3>2. CASE InsertMessage(k)
        <4>1. ~HasCopy(k) /\ ~InWire(Created(k))
          BY <1>1, <3>2 DEF InsertMessage, UnsentUnknown
        <4>2. arriving[k] = "none"
          BY <1>1, <4>1 DEF HasCopy, Decrypting, CacheTypes
        <4> QED BY <4>1, <4>2
      <3>3. Created(k) \in telling \/ InsertMessage(k)
        <4>1. ASSUME NEW m \in Messages, InsertMessage(m) \/ SoftDeleteMessage(m)
              PROVE  Created(k) \in telling \/ InsertMessage(k)
          BY <1>2, <4>1, EventFacts DEF InsertMessage, SoftDeleteMessage
        <4> QED BY <1>2, <4>1, RowsEffect
      <3> QED BY <3>1, <3>2, <3>3
    <2>2. arriving'[k] = "none"
      BY <1>1, <2>1, ArrivingFrom
    <2>3. ~InWire(Created(k))'
      <3>1. CASE UNCHANGED wire
        BY <2>1, <3>1 DEF InWire
      <3>2. ASSUME NEW x \in telling, wire' = Append(wire, x), telling' = telling \ {x} PROVE ~InWire(Created(k))'
        <4>1. x # Created(k) /\ x \in Frame /\ Created(k) \in Frame
          BY <1>1, <1>2, <3>2, EventFacts DEF Frame, CacheTypes
        <4> QED BY <1>1, <2>1, <3>2, <4>1, AppendEffect
      <3>3. CASE wire # <<>> /\ wire' = Tail(wire)
        BY <1>1, <2>1, <3>3, TailEffect, EventFacts DEF Frame
      <3>4. CASE Subscribe \/ Break
        BY <3>4, EventFacts DEF InWire, Subscribe, Break
      <3> QED BY <1>1, <3>1, <3>2, <3>3, <3>4, WireEffect
    <2> QED BY <2>2, <2>3
  <1>3. ASSUME NEW k \in Messages, InWire(Created(k))' PROVE arriving'[k] = "none"
    <2>1. CASE wire # <<>> /\ wire' = Tail(wire)
      <3>1. InWire(Created(k)) /\ arriving[k] = "none"
        BY <1>1, <1>3, <2>1, TailEffect, EventFacts DEF Frame, CreationToldOnce
      <3>2. Head(wire) # Created(k)
        <4> SUFFICES ASSUME Head(wire) = Created(k) PROVE FALSE
          OBVIOUS
        <4>1. PICK i \in DOMAIN wire' : wire'[i] = Created(k)
          BY <1>3 DEF InWire
        <4>2. i + 1 \in DOMAIN wire /\ wire[i + 1] = Created(k) /\ wire[1] = Created(k) /\ i \in Nat /\ i >= 1
          BY <1>1, <2>1, <4>1, TailEffect
        <4>3. 1 \in DOMAIN wire
          BY <1>1, <2>1, TailEffect, LenProperties DEF CacheTypes
        <4>4. i + 1 = 1
          BY <1>1, <4>2, <4>3, EventFacts DEF CreationToldOnce
        <4> QED BY <4>2, <4>4
      <3> QED BY <1>1, <3>1, <3>2, ArrivingFrom
    <2>2. ASSUME NEW x \in telling, wire' = Append(wire, x), telling' = telling \ {x} PROVE arriving'[k] = "none"
      <3>1. wire' # Tail(wire) \/ wire = <<>>
        <4> SUFFICES ASSUME wire' = Tail(wire), wire # <<>> PROVE FALSE
          OBVIOUS
        <4>1. Len(wire') = Len(wire) + 1 /\ Len(wire) \in Nat
          BY <1>1, <2>2, AppendEffect DEF Frame, CacheTypes
        <4>2. Len(wire') = Len(wire) - 1
          BY <1>1, HeadTailProperties DEF CacheTypes
        <4> QED BY <4>1, <4>2
      <3>2. ~TakeCreated
        BY <3>1 DEF TakeCreated, NextIs
      <3>3. Created(k) \in telling \/ InWire(Created(k))
        BY <1>1, <1>3, <2>2, AppendEffect, EventFacts DEF Frame, CacheTypes
      <3>4. arriving[k] = "none"
        BY <1>1, <3>3 DEF CreationToldOnce
      <3> QED BY <1>1, <3>2, <3>4, ArrivingFrom
    <2>3. CASE UNCHANGED wire
      <3>1. InWire(Created(k)) /\ arriving[k] = "none"
        BY <1>1, <1>3, <2>3 DEF InWire, CreationToldOnce
      <3>2. ~TakeCreated
        <4> SUFFICES ASSUME TakeCreated PROVE FALSE
          OBVIOUS
        <4>1. wire # <<>> /\ wire' = Tail(wire)
          BY DEF TakeCreated, NextIs
        <4>2. Len(wire') = Len(wire) - 1 /\ Len(wire) \in Nat
          BY <1>1, <4>1, HeadTailProperties, LenProperties DEF CacheTypes
        <4> QED BY <2>3, <4>2
      <3> QED BY <1>1, <3>1, <3>2, ArrivingFrom
    <2>4. CASE Subscribe \/ Break
      BY <1>3, <2>4, EventFacts DEF InWire, Subscribe, Break
    <2> QED BY <1>1, <2>1, <2>2, <2>3, <2>4, WireEffect
  <1>4. ASSUME NEW i \in DOMAIN wire', NEW j \in DOMAIN wire', wire'[i] = wire'[j], wire'[i].type = "created"
        PROVE  i = j
    <2>1. CASE UNCHANGED wire
      BY <1>1, <1>4, <2>1 DEF CreationToldOnce
    <2>2. ASSUME NEW x \in telling, wire' = Append(wire, x) PROVE i = j
      <3>1. /\ wire' \in Seq(Frame) /\ Len(wire') = Len(wire) + 1 /\ Len(wire) \in Nat
            /\ wire'[Len(wire) + 1] = x /\ \A n \in 1..Len(wire) : wire'[n] = wire[n]
        BY <1>1, <2>2, AppendEffect DEF Frame, CacheTypes
      <3>2. DOMAIN wire' = 1..Len(wire') /\ DOMAIN wire = 1..Len(wire)
        BY <1>1, <3>1, LenProperties DEF CacheTypes
      <3>3. x.type = "created" => \A n \in DOMAIN wire : wire[n] # x
        <4>1. x \in Event
          BY <1>1 DEF CacheTypes
        <4>2. x.type = "created" => ~InWire(x)
          BY <1>1, <4>1, EventFacts DEF CreationToldOnce
        <4> QED BY <4>2 DEF InWire
      <3>4. CASE i \in DOMAIN wire /\ j \in DOMAIN wire
        BY <1>1, <1>4, <3>1, <3>2, <3>4 DEF CreationToldOnce
      <3>5. CASE i \in DOMAIN wire /\ j \notin DOMAIN wire
        <4>1. j = Len(wire) + 1 /\ wire'[i] = wire[i]
          BY <3>1, <3>2, <3>5
        <4> QED BY <1>4, <3>1, <3>3, <3>5, <4>1
      <3>6. CASE i \notin DOMAIN wire /\ j \in DOMAIN wire
        <4>1. i = Len(wire) + 1 /\ wire'[j] = wire[j]
          BY <3>1, <3>2, <3>6
        <4> QED BY <1>4, <3>1, <3>3, <3>6, <4>1
      <3>7. CASE i \notin DOMAIN wire /\ j \notin DOMAIN wire
        BY <3>1, <3>2, <3>7
      <3> QED BY <3>4, <3>5, <3>6, <3>7
    <2>3. CASE wire # <<>> /\ wire' = Tail(wire)
      <3>1. /\ i + 1 \in DOMAIN wire /\ wire'[i] = wire[i + 1] /\ i \in Nat
            /\ j + 1 \in DOMAIN wire /\ wire'[j] = wire[j + 1] /\ j \in Nat
        BY <1>1, <2>3, TailEffect
      <3>2. i + 1 = j + 1
        BY <1>1, <1>4, <3>1 DEF CreationToldOnce
      <3> QED BY <3>1, <3>2
    <2>4. CASE Subscribe \/ Break
      BY <1>4, <2>4 DEF Subscribe, Break
    <2> QED BY <1>1, <2>1, <2>2, <2>3, <2>4, WireEffect
  <1> QED BY <1>2, <1>3, <1>4 DEF CreationToldOnce

LEMMA PagesNext == ASSUME CacheInv, Next PROVE PagesInv'
PROOF
  <1>1. CacheTypes /\ PagesInv /\ CreationToldOnce
    BY DEF CacheInv, CopiesInv
  <1>2. CASE load' = load
    BY <1>1, <1>2 DEF PagesInv
  <1>3. CASE StillStep
    BY <1>2, <1>3, StillEffect
  <1>4. ASSUME NEW l \in Loads, LoadStep(l) \/ ListMessages(l) \/ Merge(l) PROVE PagesInv'
    BY <1>1, <1>4, LoadStepEffect, ListEffect, MergeEffect
  <1>5. ASSUME NEW m \in Messages, Upsert(m) \/ Adopt(m) PROVE load' = load
    BY <1>5 DEF Upsert, Adopt
  <1>6. ASSUME NEW m \in Messages, NEW from \in Copies, NEW to \in Copies, TurnStep(m, from, to) PROVE PagesInv'
    BY <1>1, <1>6, TurnEffect DEF TurnStep
  <1>7. CASE TakeCreated \/ Adopted
    BY <1>2, <1>7 DEF TakeCreated, Adopted
  <1> QED BY <1>2, <1>3, <1>4, <1>5, <1>6, <1>7, StepKinds

\* What is a placeholder in the list was, or a placeholder has arrived.
LEMMA PlaceholderFrom ==
  ASSUME CacheTypes, Next, NEW k \in Messages, items'[k] = "placeholder"
  PROVE  items[k] = "placeholder" \/ Decrypting("placeholder", k)
PROOF
  <1>0. "placeholder" \in Copies
    BY DEF Copies, Copy
  <1>1. ASSUME NEW m \in Messages, Upsert(m) PROVE items[k] = "placeholder" \/ Decrypting("placeholder", k)
    BY <1>1 DEF Upsert, Upserted, Decrypting, CacheTypes
  <1>2. ASSUME NEW m \in Messages, Answered(m) PROVE items[k] = "placeholder"
    BY <1>2 DEF Answered, Upserted, CacheTypes
  <1>3. ASSUME NEW l \in Loads, Merge(l) PROVE items[k] = "placeholder" \/ Decrypting("placeholder", k)
    BY <1>0, <1>3, MergeEffect DEF Merge, Merged
  <1>4. ASSUME Adopted \/ TakeDeleted \/ Clear PROVE items[k] = "placeholder"
    <2>1. CASE Adopted
      BY <2>1 DEF Adopted, CacheTypes
    <2>2. CASE TakeDeleted
      BY <2>2 DEF TakeDeleted, Remove, CacheTypes
    <2>3. CASE Clear
      BY <2>3, NothingType DEF Clear
    <2> QED BY <1>4, <2>1, <2>2, <2>3
  <1>6. ASSUME NEW m \in Messages, DeleteAnswered(m) PROVE items[k] = "placeholder"
    BY <1>6 DEF DeleteAnswered, Remove, CacheTypes
  <1>9. ASSUME NEW m \in Messages, InsertMessage(m) \/ SoftDeleteMessage(m) \/ Decrypt(m) \/ DecryptFails(m) \/ Remember(m)
                                   \/ PersistFails(m) \/ AnswerLost(m) \/ Adopt(m)
        PROVE  items' = items
    BY <1>9 DEF InsertMessage, SoftDeleteMessage, Decrypt, DecryptFails, Remember, PersistFails, AnswerLost, Adopt
  <1>10. ASSUME NEW l \in Loads, OpenChat(l) \/ Resync(l) \/ LoadFails(l) \/ ListMessages(l) \/ Connect(l)
                                 \/ TakeConnected(l) \/ \E m \in Messages : HydrateNext(l, m)
         PROVE  items' = items
    BY <1>10 DEF OpenChat, Resync, LoadFails, ListMessages, Connect, TakeConnected, HydrateNext
  <1>11. ASSUME NEW e \in telling, Publish(e) \/ KeepSilent(e) PROVE items' = items
    BY <1>11 DEF Publish, KeepSilent
  <1>12. ASSUME Subscribe \/ Break \/ TakeCreated PROVE items' = items
    BY <1>12 DEF Subscribe, Break, TakeCreated
  <1> QED
    BY <1>1, <1>2, <1>3, <1>4, <1>6, <1>9, <1>10, <1>11, <1>12 DEF Next

LEMMA PeersTextNext == ASSUME CacheInv, Next PROVE PeersText'
PROOF
  <1>1. CacheTypes /\ CopiesInv /\ PeersText /\ UnsentUnknown
    BY DEF CacheInv, CopiesInv
  <1>2. "opening" \in Copies /\ "opened" \in Copies /\ "placeholder" \in Copies
    BY DEF Copies, Copy
  <1>3. ASSUME NEW k \in Messages, Decrypting("opening", k)' \/ Decrypting("opened", k)' PROVE k \in Encrypted \ mine'
    <2>1. k \in Encrypted \ mine
      BY <1>1, <1>2, <1>3, NewCopies
    <2>2. ASSUME k \in mine' PROVE FALSE
      <3>1. InsertMessage(k)
        BY <2>1, <2>2, RowsEffect DEF InsertMessage, SoftDeleteMessage
      <3>2. ~HasCopy(k)
        BY <1>1, <3>1 DEF InsertMessage, UnsentUnknown
      <3>3. UNCHANGED <<arriving, load, adopting>>
        BY <3>1 DEF InsertMessage
      <3>4. Decrypting("opening", k) \/ Decrypting("opened", k)
        BY <1>2, <1>3, <3>3, SameCopies DEF CopiesSame
      <3> QED BY <3>2, <3>4 DEF HasCopy, Copy
    <2> QED BY <2>1, <2>2
  <1>4. ASSUME NEW k \in Messages, items'[k] = "placeholder" \/ Decrypting("placeholder", k)' PROVE k \in Encrypted
    <2>1. CASE Decrypting("placeholder", k)'
      BY <1>1, <1>2, <2>1, NewCopies
    <2>2. CASE items'[k] = "placeholder"
      BY <1>1, <2>2, PlaceholderFrom DEF PeersText
    <2> QED BY <1>4, <2>1, <2>2
  <1> QED BY <1>3, <1>4 DEF PeersText

\* A message leaves the list when it is deleted, or when the conversation is cleared, which "missed" says;
\* and "missed" when it is listed.
LEMMA ListedStays ==
  ASSUME CacheTypes, DeletionTold, Next, NEW k \in Messages, k \in Listed \cup missed
  PROVE  k \in (Listed \cup missed)' \/ log[k] = "deleted"
PROOF
  <1>1. items' = items => Listed' = Listed
    BY DEF Listed
  <1>2. ASSUME NEW m \in Messages, Upsert(m) \/ Answered(m) PROVE k \in (Listed \cup missed)'
    BY <1>2 DEF Upsert, Answered, Upserted, Listed, CacheTypes, notes
  <1>3. ASSUME NEW l \in Loads, Merge(l) PROVE k \in (Listed \cup missed)'
    <2>1. CASE load[l].page[k] = "none"
      BY <1>3, <2>1 DEF Merge, Merged, Listed
    <2>2. CASE load[l].page[k] # "none"
      BY <1>3, <2>2 DEF Merge, Merged, Listed
    <2> QED BY <2>1, <2>2
  <1>4. CASE Adopted
    BY <1>4 DEF Adopted, Listed, CacheTypes, notes
  <1>5. CASE TakeDeleted
    <2>1. Head(wire) \in Frame /\ InWire(Head(wire)) /\ Head(wire).type = "deleted"
      BY <1>5, TailEffect DEF TakeDeleted, NextIs
    <2>2. PICK m \in Messages : m = Head(wire).msg /\ Head(wire) = Deleted(m)
      BY <2>1, FrameFacts, EventFacts
    <2>3. log[m] = "deleted"
      BY <2>1, <2>2 DEF DeletionTold
    <2>4. k # m => k \in (Listed \cup missed)'
      BY <1>5, <2>2 DEF TakeDeleted, Remove, Listed, CacheTypes, notes
    <2> QED BY <2>3, <2>4
  <1>6. CASE Clear
    BY <1>6 DEF Clear
  <1>7. ASSUME NEW m \in Messages, DeleteAnswered(m) PROVE k \in (Listed \cup missed)' \/ log[k] = "deleted"
    BY <1>7 DEF DeleteAnswered, Remove, Listed, CacheTypes, notes
  <1>8. ASSUME NEW m \in Messages, InsertMessage(m) \/ SoftDeleteMessage(m) \/ Decrypt(m) \/ DecryptFails(m) \/ Remember(m)
                                   \/ PersistFails(m) \/ AnswerLost(m) \/ Adopt(m)
        PROVE  items' = items /\ missed' = missed
    BY <1>8 DEF InsertMessage, SoftDeleteMessage, Decrypt, DecryptFails, Remember, PersistFails, AnswerLost, Adopt, notes
  <1>9. ASSUME NEW l \in Loads, OpenChat(l) \/ Resync(l) \/ LoadFails(l) \/ ListMessages(l) \/ Connect(l)
                                \/ TakeConnected(l) \/ \E m \in Messages : HydrateNext(l, m)
        PROVE  items' = items /\ missed \subseteq missed'
    BY <1>9 DEF OpenChat, Resync, LoadFails, ListMessages, Connect, TakeConnected, HydrateNext, notes
  <1>10. ASSUME NEW e \in telling, Publish(e) \/ KeepSilent(e) PROVE items' = items /\ missed \subseteq missed'
    BY <1>10 DEF Publish, KeepSilent
  <1>11. ASSUME Subscribe \/ Break \/ TakeCreated PROVE items' = items /\ missed' = missed
    BY <1>11 DEF Subscribe, Break, TakeCreated, notes
  <1> QED
    BY <1>1, <1>2, <1>3, <1>4, <1>5, <1>6, <1>7, <1>8, <1>9, <1>10, <1>11 DEF Next

\* A conversation stays a key, and is one when a message is listed.
LEMMA KnownEffect ==
  ASSUME CacheTypes, AdoptionInv, Next
  PROVE  known' = known \/ known' = TRUE
PROOF
  <1>1. ASSUME NEW m \in Messages, InsertMessage(m) \/ SoftDeleteMessage(m) \/ Decrypt(m) \/ DecryptFails(m) \/ Remember(m)
                                   \/ PersistFails(m) \/ Upsert(m) \/ DeleteAnswered(m) \/ Answered(m)
                                   \/ AnswerLost(m) \/ Adopt(m)
        PROVE  known' = known \/ known' = TRUE
    BY <1>1 DEF InsertMessage, SoftDeleteMessage, Decrypt, DecryptFails, Remember, PersistFails, Upsert, DeleteAnswered,
                Answered, AnswerLost, Adopt
  <1>2. ASSUME NEW l \in Loads, OpenChat(l) \/ Resync(l) \/ LoadFails(l) \/ ListMessages(l) \/ Merge(l) \/ Connect(l)
                                \/ TakeConnected(l) \/ \E m \in Messages : HydrateNext(l, m)
        PROVE  known' = known \/ known' = TRUE
    BY <1>2 DEF OpenChat, Resync, LoadFails, ListMessages, Merge, Connect, TakeConnected, HydrateNext
  <1>3. ASSUME NEW e \in telling, Publish(e) \/ KeepSilent(e) PROVE known' = known
    BY <1>3 DEF Publish, KeepSilent
  <1>4. ASSUME Subscribe \/ Break \/ TakeCreated \/ TakeDeleted \/ Adopted \/ Clear
        PROVE  known' = known \/ known' = TRUE
    BY <1>4 DEF Subscribe, Break, TakeCreated, TakeDeleted, Adopted, Clear
  <1> QED BY <1>1, <1>2, <1>3, <1>4 DEF Next

LEMMA AdoptionNext == ASSUME CacheInv, Next PROVE AdoptionInv'
PROOF
  <1>1. CacheTypes /\ AdoptionInv /\ DeletionTold /\ CacheTies
    BY DEF CacheInv, CopiesInv
  <1> DEFINE Remains(k) == k \in Listed \cup missed \/ log[k] = "deleted"
  <1>2. ASSUME NEW k \in Messages, Remains(k) PROVE Remains(k)'
    BY <1>1, <1>2, ListedStays, LogEffect
  <1>3. ASSUME adopting' = adopting \/ (adopting.copy # "none" /\ \E c \in Copies \ {"raw"} : adopting' = [adopting EXCEPT !.copy = c])
        PROVE  AdoptionInv'
    <2>1. adopting'.msg = adopting.msg /\ adopting'.copy # "raw" /\ (adopting'.copy # "none" => adopting.copy # "none")
      BY <1>1, <1>3 DEF AdoptionInv, CacheTypes
    <2>2. adopting.copy # "none" => known' /\ adopting.msg \in Messages /\ Remains(adopting.msg)
      BY <1>1, KnownEffect DEF AdoptionInv
    <2>3. ASSUME adopting'.copy # "none" PROVE adopting'.msg \in (Listed \cup missed)' \/ log'[adopting'.msg] = "deleted"
      <3>1. PICK k \in Messages : k = adopting.msg /\ Remains(k)
        BY <2>1, <2>2, <2>3
      <3>2. Remains(k)'
        BY <1>2, <3>1
      <3> QED BY <2>1, <3>1, <3>2
    <2> QED BY <2>1, <2>2, <2>3 DEF AdoptionInv
  <1>4. CASE StillStep
    BY <1>3, <1>4, StillEffect
  <1>5. ASSUME NEW l \in Loads, LoadStep(l) \/ ListMessages(l) \/ Merge(l) PROVE adopting' = adopting
    BY <1>5 DEF LoadStep, OpenChat, Resync, LoadFails, Connect, TakeConnected, ListMessages, Merge
  <1>6. ASSUME NEW m \in Messages, Upsert(m) PROVE adopting' = adopting
    BY <1>6 DEF Upsert
  <1>7. ASSUME NEW m \in Messages, Adopt(m) PROVE AdoptionInv'
    <2>1. adopting'.msg = m /\ adopting'.copy = "opening" /\ m \in Listed /\ UNCHANGED <<known, items>>
      BY <1>7 DEF Adopt, Listed
    <2>2. known' /\ m \in Listed'
      BY <1>1, <2>1 DEF CacheTies, Listed
    <2> QED BY <2>1, <2>2 DEF AdoptionInv
  <1>8. ASSUME NEW m \in Messages, NEW from \in Copies, NEW to \in Copies, TurnStep(m, from, to) PROVE AdoptionInv'
    <2>1. /\ adopting' = adopting \/ (adopting.copy # "none" /\ adopting' = [adopting EXCEPT !.copy = to])
          /\ to # "raw"
      BY <1>1, <1>8, TurnEffect DEF TurnStep
    <2> QED BY <1>3, <2>1
  <1>9. CASE TakeCreated
    BY <1>3, <1>9 DEF TakeCreated
  <1>10. CASE Adopted
    BY <1>10 DEF Adopted, NoAdoption, AdoptionInv
  <1> QED BY <1>3, <1>4, <1>5, <1>6, <1>7, <1>8, <1>9, <1>10, StepKinds

\* The answers and events that list a message make the conversation a key; what was adopted came from one.
LEMMA CacheTiesNext == ASSUME CacheInv, Next PROVE CacheTies'
PROOF
  <1>1. CacheTypes /\ CacheTies /\ CopiesInv
    BY DEF CacheInv
  <1>2. opened' \subseteq Encrypted /\ (opened \cap mine)' = {}
    <2> SUFFICES ASSUME NEW k \in opened' PROVE k \in Encrypted /\ k \notin mine'
      OBVIOUS
    <2>1. k \in Messages
      BY <1>1, CacheTypesNext DEF CacheTypes
    <2>2. k \in opened \/ Decrypting("opening", k)
      BY <1>1, <2>1, CipherFrom DEF CopiesInv
    <2>3. k \in Encrypted \ mine
      BY <1>1, <2>1, <2>2 DEF CacheTies, CopiesInv, PeersText
    <2>4. k \notin opened \/ log[k] # "unsent"
      BY <1>1, <2>1 DEF CopiesInv, UnsentUnknown
    <2>5. Decrypting("opening", k) => HasCopy(k)
      BY DEF HasCopy, Copy
    <2>6. log[k] # "unsent"
      BY <1>1, <2>1, <2>2, <2>4, <2>5 DEF CopiesInv, UnsentUnknown
    <2> QED BY <1>1, <2>1, <2>3, <2>6, LogEffect
  <1>3. ASSUME Listed' # {} PROVE known'
    <2>1. ASSUME Listed # {} PROVE known'
      BY <1>1, <2>1, KnownEffect DEF CacheTies, CopiesInv
    <2>2. CASE Listed' = Listed
      BY <1>3, <2>1, <2>2
    <2>3. ASSUME items' = items PROVE Listed' = Listed
      BY <2>3 DEF Listed
    <2>4. ASSUME NEW m \in Messages, Upsert(m) \/ Answered(m) PROVE known'
      BY <2>4 DEF Upsert, Answered
    <2>5. ASSUME NEW l \in Loads, Merge(l) PROVE known'
      BY <2>5 DEF Merge
    <2>6. CASE Adopted
      BY <1>1, <2>6 DEF Adopted, CopiesInv, AdoptionInv
    <2>7. CASE Clear
      BY <2>7 DEF Clear
    <2>8. CASE TakeDeleted
      <3>1. Listed' \subseteq Listed
        BY <1>1, <2>8 DEF TakeDeleted, Remove, Listed, CacheTypes
      <3> QED BY <1>3, <2>1, <3>1
    <2>9. ASSUME NEW m \in Messages, DeleteAnswered(m) PROVE known'
      <3>1. Listed' \subseteq Listed
        BY <1>1, <2>9 DEF DeleteAnswered, Remove, Listed, CacheTypes
      <3> QED BY <1>3, <2>1, <3>1
    <2>10. ASSUME NEW m \in Messages, InsertMessage(m) \/ SoftDeleteMessage(m) \/ Decrypt(m) \/ DecryptFails(m) \/ Remember(m)
                                   \/ PersistFails(m) \/ AnswerLost(m) \/ Adopt(m)
        PROVE  items' = items
      BY <2>10 DEF InsertMessage, SoftDeleteMessage, Decrypt, DecryptFails, Remember, PersistFails, AnswerLost, Adopt
    <2>11. ASSUME NEW l \in Loads, OpenChat(l) \/ Resync(l) \/ LoadFails(l) \/ ListMessages(l) \/ Connect(l)
                                 \/ TakeConnected(l) \/ \E m \in Messages : HydrateNext(l, m)
         PROVE  items' = items
      BY <2>11 DEF OpenChat, Resync, LoadFails, ListMessages, Connect, TakeConnected, HydrateNext
    <2>12. ASSUME NEW e \in telling, Publish(e) \/ KeepSilent(e) PROVE items' = items
      BY <2>12 DEF Publish, KeepSilent
    <2>13. ASSUME Subscribe \/ Break \/ TakeCreated PROVE items' = items
      BY <2>13 DEF Subscribe, Break, TakeCreated
    <2> QED
      BY <2>2, <2>3, <2>4, <2>5, <2>6, <2>7, <2>8, <2>9, <2>10, <2>11, <2>12, <2>13 DEF Next
  <1> QED BY <1>2, <1>3 DEF CacheTies

\* The parts of CacheInv are about the variables only.
LEMMA CacheInvStutter == CacheInv /\ UNCHANGED cacheVars => CacheInv'
PROOF
  <1> SUFFICES ASSUME CacheInv, UNCHANGED cacheVars PROVE CacheInv'
    OBVIOUS
  <1>1. /\ log' = log /\ mine' = mine /\ due' = due /\ telling' = telling /\ link' = link /\ wire' = wire
        /\ known' = known /\ items' = items /\ arriving' = arriving /\ load' = load /\ adopting' = adopting
        /\ opened' = opened /\ plain' = plain /\ missed' = missed /\ garbled' = garbled
    BY DEF cacheVars
  <1>2. CacheTypes' /\ CacheTies'
    BY <1>1 DEF CacheInv, CacheTypes, CacheTies, Listed
  <1>3. UnsentUnknown' /\ DeletionTold' /\ CreationToldOnce'
    BY <1>1 DEF CacheInv, CopiesInv, UnsentUnknown, DeletionTold, CreationToldOnce, Listed, HasCopy, Decrypting, InWire
  <1>4. PeersText' /\ PagesInv' /\ AdoptionInv'
    BY <1>1 DEF CacheInv, CopiesInv, PeersText, PagesInv, AdoptionInv, Listed, Decrypting
  <1> QED BY <1>2, <1>3, <1>4 DEF CacheInv, CopiesInv

LEMMA CacheInvNext == CacheInv /\ [Next]_cacheVars => CacheInv'
PROOF
  <1>1. ASSUME CacheInv, Next PROVE CacheInv'
    BY <1>1, CacheTypesNext, CacheTiesNext, UnsentUnknownNext, DeletionToldNext, CreationToldOnceNext, PeersTextNext,
       PagesNext, AdoptionNext DEF CacheInv, CopiesInv
  <1> QED BY <1>1, CacheInvStutter

LEMMA CacheInvHolds == Spec => []CacheInv
  BY CacheInvInit, CacheInvNext, PTL DEF Spec

\* Every variable of the message cache has its type, a conversation with messages is a key of _messages,
\* and only an encrypted message of the peer is decrypted, however answers, events and retries interleave.
THEOREM CacheTypeCorrect == Spec => []CacheTypeOK
PROOF
  <1>1. CacheInv => CacheTypeOK
    BY DEF CacheInv, CacheTypes, CacheTies, CacheTypeOK
  <1> QED BY <1>1, CacheInvHolds, PTL

\* A deleted message that has left the app never comes back, whatever is loaded or reconnected.
THEOREM DeletedStaysGone == Spec => GoneStaysGone
PROOF
  <1>1. ASSUME CacheInv, Next, NEW k \in Messages, Gone(k) PROVE Gone(k)'
    <2>1. CacheTypes /\ CopiesInv
      BY <1>1 DEF CacheInv
    <2>2. /\ log[k] = "deleted" /\ k \notin Listed \cup due
          /\ ~HasCopy(k) /\ Created(k) \notin telling /\ ~InWire(Created(k))
      BY <1>1 DEF Gone
    <2>3. ~InsertMessage(k) /\ log'[k] = "deleted" /\ items[k] = "none"
      BY <1>1, <2>1, <2>2, LogEffect DEF InsertMessage, Listed
    <2>4. k \notin Listed'
      BY <1>1, <2>1, <2>2, ListedFrom
    <2>5. ~HasCopy(k)'
      <3> SUFFICES ASSUME NEW c \in Copies, Decrypting(c, k)' PROVE FALSE
        BY DEF HasCopy, Copies
      <3> QED BY <1>1, <2>1, <2>2, <2>3, NewCopies DEF Standing
    <2>6. Created(k) \notin telling' /\ ~InWire(Created(k))'
      BY <1>1, <2>1, <2>2, <2>3, CreatedFrom
    <2>7. k \notin due'
      <3>1. ASSUME NEW m \in Messages, InsertMessage(m) \/ SoftDeleteMessage(m) PROVE k \notin due'
        BY <2>2, <2>3, <3>1 DEF InsertMessage, SoftDeleteMessage
      <3> QED BY <1>1, <2>2, <3>1, RowsEffect
    <2> QED BY <2>3, <2>4, <2>5, <2>6, <2>7 DEF Gone
  <1>2. CacheInv /\ [Next]_cacheVars => [\A m \in Messages : Gone(m) => Gone(m)']_cacheVars
    BY <1>1
  <1> QED BY <1>2, CacheInvHolds, PTL DEF Spec, GoneStaysGone

-----------------------------------------------------------------------------
(* The message cache: nothing is missed                                    *)

LEMMA CopyStays ==
  ASSUME CacheInv, Next, NEW k \in Messages, HasCopy(k)
  PROVE  HasCopy(k)' \/ k \in (Listed \cup missed)' \/ log[k] = "deleted"
PROOF
  <1> DEFINE Goal == HasCopy(k)' \/ k \in (Listed \cup missed)' \/ log[k] = "deleted"
  <1> SUFFICES Goal
    OBVIOUS
  <1>1. CacheTypes /\ CopiesInv
    BY DEF CacheInv
  <1>2. PICK c \in Copies : Decrypting(c, k)
    BY DEF HasCopy, Copies
  <1>3. ASSUME NEW d \in Copies, Decrypting(d, k)' PROVE Goal
    BY <1>3 DEF HasCopy, Copies
  <1>4. CASE StillStep
    BY <1>2, <1>3, <1>4, StillEffect, SameCopies DEF CopiesSame
  <1>5. ASSUME NEW l \in Loads, LoadStep(l) \/ ListMessages(l) PROVE Goal
    BY <1>1, <1>2, <1>3, <1>5, LoadStepEffect, ListEffect DEF CopiesSame, CopiesInv
  <1>6. ASSUME NEW l \in Loads, Merge(l) PROVE Goal
    <2>1. Decrypting(c, k)' \/ load[l].page[k] # "none"
      BY <1>1, <1>2, <1>6, MergeEffect DEF Copies
    <2>2. load[l].page[k] # "none" => items'[k] # "none"
      BY <1>6 DEF Merge, Merged
    <2> QED BY <1>3, <2>1, <2>2 DEF Listed
  <1>7. ASSUME NEW m \in Messages, Upsert(m) PROVE Goal
    <2>1. Decrypting(c, k)' \/ k = m
      BY <1>1, <1>2, <1>7, UpsertEffect
    <2>2. items'[m] # "none"
      BY <1>1, <1>7 DEF Upsert, Upserted, CacheTypes
    <2> QED BY <1>3, <2>1, <2>2 DEF Listed
  <1>8. ASSUME NEW m \in Messages, Adopt(m) PROVE Goal
    BY <1>1, <1>2, <1>3, <1>8, AdoptEffect
  <1>9. CASE Adopted
    <2>1. Decrypting(c, k)' \/ (k = adopting.msg /\ adopting.copy # "none")
      BY <1>1, <1>2, <1>9, AdoptedEffect DEF Copies
    <2>2. k = adopting.msg /\ adopting.copy # "none" => k \in Listed \cup missed \/ log[k] = "deleted"
      BY <1>1 DEF CopiesInv, AdoptionInv
    <2>3. k \in Listed \cup missed => k \in (Listed \cup missed)' \/ log[k] = "deleted"
      BY <1>1, ListedStays DEF CopiesInv
    <2> QED BY <1>3, <2>1, <2>2, <2>3
  <1>10. CASE TakeCreated
    <2>1. Decrypting(c, k)'
      BY <1>1, <1>2, <1>10, TakeCreatedEffect DEF CopiesInv
    <2> QED BY <1>3, <2>1
  <1>11. ASSUME NEW m \in Messages, NEW from \in Copies, NEW to \in Copies, TurnStep(m, from, to) PROVE Goal
    <2>1. Decrypting(c, k)' \/ (k = m /\ Decrypting(to, m)')
      BY <1>1, <1>2, <1>11, TurnEffect DEF TurnStep
    <2> QED BY <1>3, <2>1
  <1> QED BY <1>4, <1>5, <1>6, <1>7, <1>8, <1>9, <1>10, <1>11, StepKinds

\* What a load, a resync or a connection that is on its way leads to.
Coming == InWire(Connected) \/ \E l \in Loads : load[l].pc \in {"chats", "asked"}

LEMMA ComingStays ==
  ASSUME CacheInv, Next, link' = "up", Coming, NEW k \in Standing \ Listed
  PROVE  Coming' \/ HasCopy(k)' \/ k \in missed'
PROOF
  <1> DEFINE Goal == Coming' \/ HasCopy(k)' \/ k \in missed'
  <1> SUFFICES Goal
    OBVIOUS
  <1>1. CacheTypes /\ CopiesInv /\ PagesInv /\ k \in Messages
    BY DEF CacheInv, CopiesInv, Standing
  <1>2. ASSUME NEW l \in Loads, load'[l].pc \in {"chats", "asked"} PROVE Goal
    BY <1>2 DEF Coming
  <1>3. CASE InWire(Connected)
    <2>1. CASE UNCHANGED wire
      BY <1>3, <2>1 DEF InWire, Coming
    <2>2. ASSUME NEW e \in telling, wire' = Append(wire, e) PROVE Goal
      <3>1. InWire(Connected)'
        BY <1>1, <1>3, <2>2, AppendEffect DEF Frame, CacheTypes
      <3> QED BY <3>1 DEF Coming
    <2>3. CASE Subscribe
      BY <2>3 DEF Subscribe, InWire, Coming
    <2>4. CASE Break
      BY <2>4 DEF Break
    <2>5. CASE wire # <<>> /\ wire' = Tail(wire) /\ (TakeCreated \/ TakeDeleted \/ \E l \in Loads : TakeConnected(l))
      <3>1. InWire(Connected)' \/ Head(wire) = Connected
        BY <1>1, <1>3, <2>5, TailEffect DEF Frame
      <3>2. ASSUME Head(wire) = Connected PROVE Goal
        <4>1. PICK l \in Loads : TakeConnected(l)
          BY <2>5, <3>2 DEF TakeCreated, TakeDeleted, NextIs, Connected
        <4>2. load'[l].pc = "chats"
          BY <1>1, <4>1, NoLoadType DEF TakeConnected, BeginLoad, CacheTypes
        <4> QED BY <1>2, <4>2
      <3> QED BY <3>1, <3>2 DEF Coming
    <2> QED BY <1>1, <2>1, <2>2, <2>3, <2>4, <2>5, WireEffect
  <1>4. ASSUME NEW i \in Loads, load[i].pc \in {"chats", "asked"} PROVE Goal
    <2>1. CASE load'[i].pc = load[i].pc
      BY <1>2, <1>4, <2>1
    <2>2. CASE StillStep
      BY <2>1, <2>2, StillEffect
    <2>3. ASSUME NEW l \in Loads, l # i, LoadStep(l) \/ ListMessages(l) \/ Merge(l) PROVE Goal
      BY <1>1, <2>1, <2>3, LoadStepEffect, ListEffect, MergeEffect
    <2>4. CASE OpenChat(i) \/ Connect(i) \/ TakeConnected(i) \/ Merge(i)
      BY <1>4, <2>4 DEF OpenChat, Connect, TakeConnected, BeginLoad, Merge
    <2>5. CASE Resync(i)
      <3>1. CASE known
        <4>1. load'[i].pc = "asked"
          BY <1>1, <2>5, <3>1, NoLoadType DEF Resync, CacheTypes
        <4> QED BY <1>2, <4>1
      <3>2. CASE ~known
        BY <2>5, <3>2 DEF Resync, Unlisted
      <3> QED BY <3>1, <3>2
    <2>6. CASE LoadFails(i)
      BY <2>6 DEF LoadFails, Unlisted
    <2>7. CASE ListMessages(i)
      <3>1. CASE k \in Newest
        <4>1. Decrypting("raw", k)'
          BY <1>1, <2>7, <3>1, ListEffect DEF Copies, Copy
        <4> QED BY <4>1 DEF HasCopy, Copy
      <3>2. CASE k \notin Newest
        BY <2>7, <3>2 DEF ListMessages, Unlisted
      <3> QED BY <3>1, <3>2
    <2>8. ASSUME NEW m \in Messages, Upsert(m) \/ Adopt(m) PROVE Goal
      BY <2>1, <2>8 DEF Upsert, Adopt
    <2>9. CASE TakeCreated \/ Adopted
      BY <2>1, <2>9 DEF TakeCreated, Adopted
    <2>10. ASSUME NEW m \in Messages, NEW from \in Copies, NEW to \in Copies, TurnStep(m, from, to) PROVE Goal
      BY <1>1, <2>1, <2>10, TurnEffect DEF TurnStep
    <2>11. ASSUME NEW l \in Loads, LoadStep(l) \/ ListMessages(l) \/ Merge(l) PROVE Goal
      BY <2>3, <2>4, <2>5, <2>6, <2>7, <2>11 DEF LoadStep
    <2> QED BY <2>2, <2>8, <2>9, <2>10, <2>11, StepKinds
  <1> QED BY <1>3, <1>4 DEF Coming

\* A creation that was to be told of is on its way once it is published, is dropped, which "missed" says, or
\* meets no subscription.
LEMMA CreatedStays ==
  ASSUME CacheInv, Next, link' = "up", link = "up", NEW k \in Messages, Created(k) \in telling \/ InWire(Created(k))
  PROVE  Created(k) \in telling' \/ InWire(Created(k))' \/ HasCopy(k)' \/ k \in missed' \/ Subscribe
PROOF
  <1>1. CacheTypes /\ CopiesInv
    BY DEF CacheInv
  <1>2. CASE Created(k) \in telling
    <2>1. CASE Created(k) \in telling'
      BY <2>1
    <2>2. ASSUME NEW e \in telling, Publish(e), Created(k) \notin telling'
          PROVE  InWire(Created(k))' \/ k \in missed'
      <3>1. e = Created(k)
        BY <1>2, <2>2 DEF Publish
      <3>2. CASE wire' = Append(wire, e)
        BY <1>1, <3>1, <3>2, AppendEffect, EventFacts DEF Frame
      <3>3. CASE missed' = missed \cup (IF e.type = "created" THEN {e.msg} ELSE {})
        BY <3>1, <3>3, EventFacts
      <3> QED BY <2>2, <3>2, <3>3 DEF Publish
    <2>3. ASSUME NEW e \in telling, KeepSilent(e), Created(k) \notin telling' PROVE k \in missed'
      <3>1. e = Created(k)
        BY <1>2, <2>3 DEF KeepSilent
      <3> QED BY <2>3, <3>1, EventFacts DEF KeepSilent
    <2>4. ASSUME ~\E e \in telling : Publish(e) \/ KeepSilent(e) PROVE Created(k) \in telling'
      <3>1. ASSUME NEW m \in Messages, InsertMessage(m) \/ SoftDeleteMessage(m) PROVE Created(k) \in telling'
        BY <1>2, <3>1 DEF InsertMessage, SoftDeleteMessage
      <3>2. ASSUME NEW m \in Messages, Decrypt(m) \/ DecryptFails(m) \/ Remember(m) \/ PersistFails(m) \/ Upsert(m)
                                   \/ DeleteAnswered(m) \/ Answered(m) \/ AnswerLost(m) \/ Adopt(m)
            PROVE  telling' = telling
        BY <3>2 DEF Decrypt, DecryptFails, Remember, PersistFails, Upsert, DeleteAnswered, Answered, AnswerLost, Adopt, rows
      <3>3. ASSUME NEW l \in Loads, OpenChat(l) \/ Resync(l) \/ LoadFails(l) \/ ListMessages(l) \/ Merge(l)
                                \/ Connect(l) \/ TakeConnected(l) \/ \E m \in Messages : HydrateNext(l, m)
            PROVE  telling' = telling
        BY <3>3 DEF OpenChat, Resync, LoadFails, ListMessages, Merge, Connect, TakeConnected, HydrateNext, rows
      <3>4. ASSUME Subscribe \/ Break \/ TakeCreated \/ TakeDeleted \/ Adopted \/ Clear PROVE telling' = telling
        BY <3>4 DEF Subscribe, Break, TakeCreated, TakeDeleted, Adopted, Clear, rows
      <3> QED BY <1>2, <2>4, <3>1, <3>2, <3>3, <3>4 DEF Next
    <2> QED BY <2>1, <2>2, <2>3, <2>4
  <1>3. CASE InWire(Created(k))
    <2>1. CASE UNCHANGED wire
      BY <1>3, <2>1 DEF InWire
    <2>2. ASSUME NEW e \in telling, wire' = Append(wire, e) PROVE InWire(Created(k))'
      BY <1>1, <1>3, <2>2, AppendEffect, EventFacts DEF Frame, CacheTypes
    <2>3. CASE Break
      BY <2>3 DEF Break
    <2>4. CASE wire # <<>> /\ wire' = Tail(wire) /\ (TakeCreated \/ TakeDeleted \/ \E l \in Loads : TakeConnected(l))
      <3>1. InWire(Created(k))' \/ Head(wire) = Created(k)
        BY <1>1, <1>3, <2>4, TailEffect, EventFacts DEF Frame
      <3>2. ASSUME Head(wire) = Created(k) PROVE HasCopy(k)'
        <4>1. TakeCreated
          BY <2>4, <3>2, EventFacts DEF TakeConnected, TakeDeleted, NextIs
        <4>2. PICK m \in Messages : \E look \in {"readable", "placeholder", "opening"} :
                 Head(wire) = Created(m) /\ (look \in Copies => Decrypting(look, m)')
          BY <1>1, <4>1, TakeCreatedEffect DEF CopiesInv
        <4>3. m = k
          BY <3>2, <4>2, EventFacts
        <4> QED BY <4>2, <4>3 DEF HasCopy, Copies, Copy
      <3> QED BY <3>1, <3>2
    <2> QED BY <1>1, <2>1, <2>2, <2>3, <2>4, WireEffect
  <1> QED BY <1>2, <1>3

\* Nothing falls between a load and the subscription, whether the conversation is known or not.
MissedInv ==
    link = "up" =>
        \A k \in Standing \ missed :
            k \in Listed \/ HasCopy(k) \/ Created(k) \in telling \/ InWire(Created(k)) \/ Coming

LEMMA MissedNext == ASSUME CacheInv, MissedInv, Next PROVE MissedInv'
PROOF
  <1> SUFFICES ASSUME link' = "up", NEW k \in Messages, log'[k] = "standing", k \notin missed', k \notin Listed',
                      ~HasCopy(k)', Created(k) \notin telling', ~InWire(Created(k))', ~Coming'
               PROVE  FALSE
    BY DEF MissedInv, Standing
  <1>1. CacheTypes /\ CopiesInv
    BY DEF CacheInv
  <1>2. log[k] = "standing"
    <2>1. ~InsertMessage(k)
      BY DEF InsertMessage
    <2> QED BY <1>1, <2>1, LogEffect
  <1>3. ~Subscribe
    BY EventFacts DEF Subscribe, InWire, Coming
  <1>4. link = "up"
    <2>1. ASSUME NEW l \in Loads, Connect(l) PROVE link' # "up"
      BY <2>1 DEF Connect
    <2> QED BY <1>1, <1>3, <2>1, WireEffect DEF Break
  <1>5. k \notin Listed \cup missed
    BY <1>1, <1>2, ListedStays DEF CopiesInv
  <1>6. ~HasCopy(k)
    BY <1>2, CopyStays
  <1>7. Created(k) \notin telling /\ ~InWire(Created(k))
    BY <1>3, <1>4, CreatedStays
  <1>8. k \in Standing \ Listed
    BY <1>2, <1>5 DEF Standing
  <1>9. ~Coming
    BY <1>8, ComingStays
  <1> QED BY <1>4, <1>5, <1>6, <1>7, <1>8, <1>9 DEF MissedInv

LEMMA MissedStutter == MissedInv /\ UNCHANGED cacheVars => MissedInv'
  BY DEF MissedInv, cacheVars, Standing, Listed, HasCopy, Decrypting, InWire, Coming

\* While the server has the app subscribed, a message that stands is in the list of a known conversation, or
\* on its way there, except for those the code does not load again (missed): nothing falls between a load
\* and the subscription.
THEOREM NothingIsMissed == Spec => []NothingMissed
PROOF
  <1>1. Init => MissedInv
    BY DEF Init, MissedInv
  <1>2. CacheInv /\ MissedInv /\ [Next]_cacheVars => MissedInv'
    BY MissedNext, MissedStutter
  <1>3. MissedInv => NothingMissed
    BY DEF MissedInv, NothingMissed, Coming
  <1> QED BY <1>1, <1>2, <1>3, CacheInvHolds, PTL DEF Spec

-----------------------------------------------------------------------------
(* The message cache: no text is lost                                      *)

\* The text of m is at hand.
TextAtHand(m) == items[m] = "readable" \/ Decrypting("opened", m) \/ Decrypting("readable", m)

\* A copy of m is a placeholder, or may become one.
MayHide(m) == items[m] = "placeholder" \/ Decrypting("placeholder", m) \/ Decrypting("opening", m)

\* A key that was used has its text remembered, lost, or on its way; and while a copy of a message that
\* was read may still end as a placeholder, or has, the text is at hand.
TextInv ==
    \A m \in Messages \ garbled :
        /\ m \in opened \ plain => Decrypting("opened", m)
        /\ m \in Standing \cap (opened \cup plain) /\ MayHide(m) => TextAtHand(m)

\* What was read, remembered or lost stays so.
LEMMA CipherStays == ASSUME Next PROVE opened \subseteq opened' /\ plain \subseteq plain' /\ garbled \subseteq garbled'
PROOF
  <1>1. ASSUME NEW m \in Messages, Decrypt(m) \/ Remember(m) \/ PersistFails(m) \/ Answered(m)
        PROVE  opened \subseteq opened' /\ plain \subseteq plain' /\ garbled \subseteq garbled'
    BY <1>1 DEF Decrypt, Remember, PersistFails, Answered, cipher, notes
  <1>2. ASSUME TakeCreated \/ Clear \/ \E l \in Loads : Merge(l) \/ \E m \in Messages : HydrateNext(l, m)
        PROVE  opened \subseteq opened' /\ plain \subseteq plain' /\ garbled \subseteq garbled'
    BY <1>2 DEF TakeCreated, Clear, Merge, HydrateNext, Recalled, cipher, notes
  <1>3. ASSUME NEW m \in Messages, InsertMessage(m) \/ SoftDeleteMessage(m) \/ DecryptFails(m)
                                   \/ Upsert(m) \/ DeleteAnswered(m) \/ AnswerLost(m) \/ Adopt(m)
        PROVE  UNCHANGED <<opened, plain, garbled>>
    BY <1>3 DEF InsertMessage, SoftDeleteMessage, DecryptFails, Upsert, DeleteAnswered, AnswerLost,
                Adopt, cipher, notes
  <1>4. ASSUME NEW l \in Loads, OpenChat(l) \/ Resync(l) \/ LoadFails(l) \/ ListMessages(l) \/ Connect(l) \/ TakeConnected(l)
        PROVE  UNCHANGED <<opened, plain, garbled>>
    BY <1>4 DEF OpenChat, Resync, LoadFails, ListMessages, Connect, TakeConnected, cipher, notes
  <1>5. ASSUME NEW e \in telling, Publish(e) \/ KeepSilent(e) PROVE UNCHANGED <<opened, plain, garbled>>
    BY <1>5 DEF Publish, KeepSilent, cipher
  <1>6. ASSUME Subscribe \/ Break \/ TakeDeleted \/ Adopted PROVE UNCHANGED <<opened, plain, garbled>>
    BY <1>6 DEF Subscribe, Break, TakeDeleted, Adopted, cipher, notes
  <1> QED BY <1>1, <1>2, <1>3, <1>4, <1>5, <1>6 DEF Next

\* The only step that takes an opened copy is the one that remembers its text, or loses it.
LEMMA OpenedStays ==
  ASSUME CacheInv, Next, NEW k \in Messages, Decrypting("opened", k)
  PROVE  Decrypting("opened", k)' \/ (Decrypting("readable", k)' /\ k \in plain') \/ k \in garbled'
PROOF
  <1> DEFINE Goal == Decrypting("opened", k)' \/ (Decrypting("readable", k)' /\ k \in plain') \/ k \in garbled'
  <1> SUFFICES Goal
    OBVIOUS
  <1>1. CacheTypes /\ CopiesInv /\ "opened" \in Copies
    BY DEF CacheInv, Copies, Copy
  <1>2. CASE StillStep
    BY <1>1, <1>2, StillEffect, SameCopies DEF CopiesSame
  <1>3. ASSUME NEW l \in Loads, LoadStep(l) \/ ListMessages(l) PROVE Goal
    BY <1>1, <1>3, LoadStepEffect, ListEffect DEF CopiesSame, CopiesInv
  <1>4. ASSUME NEW l \in Loads, Merge(l) PROVE Goal
    <2>1. load[l].page[k] # "opened"
      BY <1>4 DEF Merge
    <2> QED BY <1>1, <1>4, <2>1, MergeEffect
  <1>5. ASSUME NEW m \in Messages, Upsert(m) PROVE Goal
    <2>1. arriving[m] # "opened"
      BY <1>5 DEF Upsert
    <2> QED BY <1>1, <1>5, <2>1, UpsertEffect
  <1>6. ASSUME NEW m \in Messages, Adopt(m) PROVE Goal
    BY <1>1, <1>6, AdoptEffect
  <1>7. CASE Adopted
    <2>1. adopting.copy # "opened"
      BY <1>7 DEF Adopted
    <2> QED BY <1>1, <1>7, <2>1, AdoptedEffect
  <1>8. CASE TakeCreated
    BY <1>1, <1>8, TakeCreatedEffect DEF CopiesInv
  <1>9. ASSUME NEW m \in Messages, NEW from \in Copies, NEW to \in Copies, TurnStep(m, from, to) PROVE Goal
    <2>1. Decrypting("opened", k)' \/ (k = m /\ from = "opened" /\ Decrypting(to, m)')
      BY <1>1, <1>9, TurnEffect DEF TurnStep
    <2>2. from = "opened" => (Remember(m) /\ to = "readable") \/ PersistFails(m)
      BY <1>9 DEF TurnStep
    <2>3. Remember(m) => m \in plain'
      BY DEF Remember
    <2>4. PersistFails(m) => m \in garbled'
      BY DEF PersistFails
    <2> QED BY <2>1, <2>2, <2>3, <2>4
  <1> QED BY <1>2, <1>3, <1>4, <1>5, <1>6, <1>7, <1>8, <1>9, StepKinds

\* A text on its way arrives.
LEMMA ReadableCopyStays ==
  ASSUME CacheInv, Next, NEW k \in Messages, Decrypting("readable", k)
  PROVE  Decrypting("readable", k)' \/ items'[k] = "readable" \/ Decrypting("opened", k)'
PROOF
  <1> DEFINE Goal == Decrypting("readable", k)' \/ items'[k] = "readable" \/ Decrypting("opened", k)'
  <1> SUFFICES Goal
    OBVIOUS
  <1>1. CacheTypes /\ CopiesInv /\ "readable" \in Copies
    BY DEF CacheInv, Copies, Copy
  <1>2. CASE StillStep
    BY <1>1, <1>2, StillEffect, SameCopies DEF CopiesSame
  <1>3. ASSUME NEW l \in Loads, LoadStep(l) \/ ListMessages(l) PROVE Goal
    BY <1>1, <1>3, LoadStepEffect, ListEffect DEF CopiesSame, CopiesInv
  <1>4. ASSUME NEW l \in Loads, Merge(l) PROVE Goal
    <2>1. load[l].page[k] = "readable" => items'[k] = "readable"
      BY <1>4 DEF Merge, Merged
    <2> QED BY <1>1, <1>4, <2>1, MergeEffect
  <1>5. ASSUME NEW m \in Messages, Upsert(m) PROVE Goal
    <2>1. arriving[m] = "readable" => items'[m] = "readable"
      BY <1>1, <1>5 DEF Upsert, Upserted, CacheTypes
    <2> QED BY <1>1, <1>5, <2>1, UpsertEffect
  <1>6. ASSUME NEW m \in Messages, Adopt(m) PROVE Goal
    BY <1>1, <1>6, AdoptEffect
  <1>7. CASE Adopted
    <2>1. adopting.copy = "readable" /\ adopting.msg = k => items'[k] = "readable"
      BY <1>1, <1>7 DEF Adopted, CacheTypes
    <2> QED BY <1>1, <1>7, <2>1, AdoptedEffect
  <1>8. CASE TakeCreated
    BY <1>1, <1>8, TakeCreatedEffect DEF CopiesInv
  <1>9. ASSUME NEW m \in Messages, NEW from \in Copies, NEW to \in Copies, TurnStep(m, from, to) PROVE Goal
    <2>1. from # "readable"
      BY <1>9 DEF TurnStep
    <2> QED BY <1>1, <1>9, <2>1, TurnEffect DEF TurnStep
  <1> QED BY <1>2, <1>3, <1>4, <1>5, <1>6, <1>7, <1>8, <1>9, StepKinds

\* A text in the list stays there, unless the message is deleted or the conversation cleared.
LEMMA ReadableStays ==
  ASSUME CacheInv, Next, NEW k \in Messages, items[k] = "readable"
  PROVE  items'[k] = "readable" \/ log[k] = "deleted" \/ Clear
PROOF
  <1>1. CacheTypes /\ DeletionTold
    BY DEF CacheInv, CopiesInv
  <1>2. ASSUME NEW m \in Messages, Upsert(m) \/ Answered(m) PROVE items'[k] = "readable"
    BY <1>1, <1>2 DEF Upsert, Answered, Upserted, CacheTypes
  <1>3. ASSUME NEW l \in Loads, Merge(l) PROVE items'[k] = "readable"
    <2>1. load[l].page[k] \in {"none", "readable", "placeholder"}
      BY <1>3 DEF Merge
    <2> QED BY <1>3, <2>1 DEF Merge, Merged
  <1>4. CASE Adopted
    BY <1>1, <1>4 DEF Adopted, CacheTypes
  <1>5. CASE TakeDeleted
    <2>1. Head(wire) \in Frame /\ InWire(Head(wire)) /\ Head(wire).type = "deleted"
      BY <1>1, <1>5, TailEffect DEF TakeDeleted, NextIs
    <2>2. PICK m \in Messages : m = Head(wire).msg /\ Head(wire) = Deleted(m)
      BY <2>1, FrameFacts, EventFacts
    <2>3. log[m] = "deleted"
      BY <1>1, <2>1, <2>2 DEF DeletionTold
    <2>4. k # m => items'[k] = items[k]
      BY <1>1, <1>5, <2>2 DEF TakeDeleted, Remove, CacheTypes
    <2> QED BY <2>3, <2>4
  <1>7. ASSUME NEW m \in Messages, DeleteAnswered(m) PROVE items'[k] = "readable" \/ log[k] = "deleted"
    BY <1>1, <1>7 DEF DeleteAnswered, Remove, CacheTypes
  <1>8. ASSUME NEW m \in Messages, InsertMessage(m) \/ SoftDeleteMessage(m) \/ Decrypt(m) \/ DecryptFails(m) \/ Remember(m)
                                   \/ PersistFails(m) \/ AnswerLost(m) \/ Adopt(m)
        PROVE  items' = items
    BY <1>8 DEF InsertMessage, SoftDeleteMessage, Decrypt, DecryptFails, Remember, PersistFails, AnswerLost, Adopt
  <1>9. ASSUME NEW l \in Loads, OpenChat(l) \/ Resync(l) \/ LoadFails(l) \/ ListMessages(l) \/ Connect(l)
                                \/ TakeConnected(l) \/ \E m \in Messages : HydrateNext(l, m)
        PROVE  items' = items
    BY <1>9 DEF OpenChat, Resync, LoadFails, ListMessages, Connect, TakeConnected, HydrateNext
  <1>10. ASSUME NEW e \in telling, Publish(e) \/ KeepSilent(e) PROVE items' = items
    BY <1>10 DEF Publish, KeepSilent
  <1>11. ASSUME Subscribe \/ Break \/ TakeCreated PROVE items' = items
    BY <1>11 DEF Subscribe, Break, TakeCreated
  <1> QED
    BY <1>2, <1>3, <1>4, <1>5, <1>7, <1>8, <1>9, <1>10, <1>11 DEF Next

\* A message whose text comes to be read, or remembered, has it at hand.
LEMMA NewText ==
  ASSUME CacheInv, Next, NEW k \in Messages, k \in (opened \cup plain)', k \notin opened \cup plain
  PROVE  TextAtHand(k) \/ TextAtHand(k)'
PROOF
  <1>1. CacheTypes /\ CopiesInv
    BY DEF CacheInv
  <1>2. ASSUME NEW m \in Messages, Decrypt(m) \/ Remember(m) PROVE TextAtHand(k)'
    <2>1. m = k
      BY <1>2 DEF Decrypt, Remember
    <2>2. CASE Decrypt(m)
      BY <1>1, <2>1, <2>2, TurnEffect DEF Decrypt, Copies, Copy, TextAtHand
    <2>3. CASE Remember(m)
      BY <1>1, <2>1, <2>3, TurnEffect DEF Remember, Copies, Copy, TextAtHand
    <2> QED BY <1>2, <2>2, <2>3
  <1>3. ASSUME NEW m \in Messages, Answered(m) PROVE TextAtHand(k)'
    BY <1>1, <1>3 DEF Answered, Upserted, TextAtHand, CacheTypes
  <1>4. ASSUME NEW l \in Loads, NEW m \in Messages, HydrateNext(l, m) PROVE TextAtHand(k)
    BY <1>4 DEF HydrateNext, Recalled, TextAtHand
  <1>5. CASE TakeCreated
    BY <1>1, <1>5, TakeCreatedEffect DEF TakeCreated, Recalled, TextAtHand, CopiesInv
  <1>6. ASSUME NEW m \in Messages, InsertMessage(m) \/ SoftDeleteMessage(m) \/ DecryptFails(m) \/ PersistFails(m)
                                   \/ Upsert(m) \/ DeleteAnswered(m) \/ AnswerLost(m) \/ Adopt(m)
        PROVE  UNCHANGED <<opened, plain>>
    BY <1>6 DEF InsertMessage, SoftDeleteMessage, DecryptFails, PersistFails, Upsert, DeleteAnswered, AnswerLost,
                Adopt, cipher
  <1>7. ASSUME NEW l \in Loads, OpenChat(l) \/ Resync(l) \/ LoadFails(l) \/ ListMessages(l) \/ Merge(l) \/ Connect(l)
                                 \/ TakeConnected(l)
        PROVE  UNCHANGED <<opened, plain>>
    BY <1>7 DEF OpenChat, Resync, LoadFails, ListMessages, Merge, Connect, TakeConnected, cipher
  <1>8. ASSUME NEW e \in telling, Publish(e) \/ KeepSilent(e) PROVE UNCHANGED <<opened, plain>>
    BY <1>8 DEF Publish, KeepSilent, cipher
  <1>9. ASSUME Subscribe \/ Break \/ TakeDeleted \/ Adopted \/ Clear PROVE UNCHANGED <<opened, plain>>
    BY <1>9 DEF Subscribe, Break, TakeDeleted, Adopted, Clear, cipher
  <1> QED BY <1>2, <1>3, <1>4, <1>5, <1>6, <1>7, <1>8, <1>9 DEF Next

LEMMA TextNext == ASSUME CacheInv, TextInv, Next PROVE TextInv'
PROOF
  <1> SUFFICES ASSUME NEW k \in Messages, k \notin garbled'
               PROVE  /\ k \in (opened \ plain)' => Decrypting("opened", k)'
                      /\ k \in (Standing \cap (opened \cup plain))' /\ MayHide(k)' => TextAtHand(k)'
    BY DEF TextInv
  <1>1. CacheTypes /\ CopiesInv /\ CacheTies
    BY DEF CacheInv
  <1>2. k \notin garbled /\ "opened" \in Copies /\ "opening" \in Copies /\ "placeholder" \in Copies
    BY CipherStays DEF Copies, Copy
  <1>3. ASSUME k \in (opened \ plain)' PROVE Decrypting("opened", k)'
    <2>1. k \notin plain
      BY <1>3, CipherStays
    <2>2. CASE k \in opened
      BY <1>2, <1>3, <2>1, <2>2, OpenedStays DEF TextInv
    <2>3. CASE k \notin opened
      <3>1. Decrypt(k)
        <4>1. ASSUME NEW m \in Messages, Decrypt(m) PROVE m = k
          BY <1>3, <2>3, <4>1 DEF Decrypt
        <4>2. ASSUME NEW m \in Messages, InsertMessage(m) \/ SoftDeleteMessage(m) \/ DecryptFails(m) \/ Remember(m)
                          \/ PersistFails(m) \/ Upsert(m) \/ DeleteAnswered(m) \/ Answered(m) \/ AnswerLost(m) \/ Adopt(m)
              PROVE  opened' = opened
          BY <4>2 DEF InsertMessage, SoftDeleteMessage, DecryptFails, Remember, PersistFails, Upsert, DeleteAnswered,
                      Answered, AnswerLost, Adopt, cipher
        <4>3. ASSUME NEW l \in Loads, OpenChat(l) \/ Resync(l) \/ LoadFails(l) \/ ListMessages(l) \/ Merge(l)
                                \/ Connect(l) \/ TakeConnected(l) \/ \E m \in Messages : HydrateNext(l, m)
              PROVE  opened' = opened
          BY <4>3 DEF OpenChat, Resync, LoadFails, ListMessages, Merge, Connect, TakeConnected, HydrateNext, cipher
        <4>4. ASSUME NEW e \in telling, Publish(e) \/ KeepSilent(e) PROVE opened' = opened
          BY <4>4 DEF Publish, KeepSilent, cipher
        <4>5. ASSUME Subscribe \/ Break \/ TakeCreated \/ TakeDeleted \/ Adopted \/ Clear PROVE opened' = opened
          BY <4>5 DEF Subscribe, Break, TakeCreated, TakeDeleted, Adopted, Clear, cipher
        <4> QED BY <1>3, <2>3, <4>1, <4>2, <4>3, <4>4, <4>5 DEF Next
      <3> QED BY <1>1, <1>2, <3>1, TurnEffect DEF Decrypt
    <2> QED BY <2>2, <2>3
  <1>4. ASSUME k \in (Standing \cap (opened \cup plain))', MayHide(k)' PROVE TextAtHand(k)'
    <2>1. log[k] # "deleted" /\ (log[k] = "standing" \/ InsertMessage(k))
      BY <1>1, <1>4, LogEffect DEF Standing
    <2>2. ASSUME InsertMessage(k) PROVE FALSE
      <3>1. UNCHANGED <<opened, plain>> /\ log[k] = "unsent"
        BY <2>2 DEF InsertMessage, cipher
      <3> QED BY <1>1, <1>4, <3>1 DEF CopiesInv, UnsentUnknown
    <2>3. k \in Standing
      BY <2>1, <2>2 DEF Standing
    <2>4. ASSUME TextAtHand(k) PROVE TextAtHand(k)'
      <3>1. CASE Decrypting("opened", k)
        BY <3>1, OpenedStays DEF TextAtHand
      <3>2. CASE Decrypting("readable", k)
        BY <3>2, ReadableCopyStays DEF TextAtHand
      <3>3. CASE items[k] = "readable"
        <4>1. ASSUME Clear PROVE FALSE
          <5>1. items'[k] = "none" /\ ~Decrypting("opening", k) /\ ~Decrypting("placeholder", k)
            BY <1>2, <4>1, NothingType DEF Clear
          <5>2. CopiesSame
            BY <4>1, SameCopies DEF Clear
          <5> QED BY <1>2, <1>4, <5>1, <5>2 DEF MayHide, CopiesSame
        <4> QED BY <2>1, <3>3, <4>1, ReadableStays DEF TextAtHand
      <3> QED BY <2>4, <3>1, <3>2, <3>3 DEF TextAtHand
    <2>5. ASSUME ~TextAtHand(k), k \in opened \cup plain PROVE FALSE
      <3>1. items[k] # "placeholder" /\ ~Decrypting("placeholder", k) /\ ~Decrypting("opening", k)
            /\ ~Decrypting("opened", k)
        BY <1>2, <2>3, <2>5 DEF TextInv, MayHide, TextAtHand
      <3>2. k \in plain
        BY <1>2, <2>5, <3>1 DEF TextInv
      <3>3. items'[k] # "placeholder"
        BY <1>1, <3>1, PlaceholderFrom
      <3>4. ~Decrypting("placeholder", k)'
        BY <1>1, <1>2, <3>1, <3>2, NewCopies
      <3>5. ~Decrypting("opening", k)'
        BY <1>1, <1>2, <3>1, <3>2, NewCopies
      <3> QED BY <1>4, <3>3, <3>4, <3>5 DEF MayHide
    <2> QED BY <1>4, <2>4, <2>5, NewText
  <1> QED BY <1>3, <1>4

LEMMA TextStutter == TextInv /\ UNCHANGED cacheVars => TextInv'
  BY DEF TextInv, MayHide, TextAtHand, cacheVars, Standing, Decrypting

\* A message can be decrypted once; whichever of the overlapping hydrations of an event, a load and a retry
\* has done it, the list shows the text and not the placeholder, or the text is on its way, except where the
\* code loses it (garbled).
THEOREM NoTextIsLost == Spec => []TextIsNotLost
PROOF
  <1>1. Init => TextInv
    BY DEF Init, TextInv
  <1>2. CacheInv /\ TextInv /\ [Next]_cacheVars => TextInv'
    BY TextNext, TextStutter
  <1>3. CacheTypes /\ TextInv => TextIsNotLost
    <2> SUFFICES ASSUME CacheTypes, TextInv, NEW m \in (Standing \cap (opened \cup plain)) \ garbled,
                        items[m] = "placeholder"
                 PROVE  Decrypting("opened", m) \/ Decrypting("readable", m)
      BY DEF TextIsNotLost
    <2>1. TextAtHand(m)
      BY DEF TextInv, MayHide, Standing
    <2> QED BY <2>1 DEF TextAtHand
  <1>4. CacheInv => CacheTypes
    BY DEF CacheInv
  <1> QED BY <1>1, <1>2, <1>3, <1>4, CacheInvHolds, PTL DEF Spec

=============================================================================
