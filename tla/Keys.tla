-------------------------------- MODULE Keys --------------------------------
(***************************************************************************)
(* Direct chats, blocks and the keys of the end-to-end encryption, on the  *)
(* server: Service.CreateDirect, Block, Unblock, PublishKeys, FetchBundle  *)
(* and RevokeE2EDevice over conversations, user_blocks, e2e_devices and    *)
(* e2e_prekeys.                                                            *)
(*                                                                         *)
(* A request runs in its own goroutine and its statements interleave with  *)
(* those of the others.  Two of them are more than a step, because the     *)
(* database runs them at READ COMMITTED: the delete of ReplacePreKeys sees *)
(* the rows of its snapshot only, and ConsumePreKey's delete finds that    *)
(* the row its subquery chose has gone.                                    *)
(*                                                                         *)
(* A user has one device, as the client has.  The users' rows do not go.   *)
(***************************************************************************)
EXTENDS Naturals, FiniteSets

CONSTANTS
    Users,
    Convs,          \* ids of conversations rows
    Keys,           \* one-time keys: key_id and public_key
    Requests,       \* requests under way at one time
    None,           \* no user, conversation or row
    MaxPublications \* bound: committed publications

ASSUME KeysAssumption ==
    /\ None \notin Users \cup Convs \cup (Users \X Keys \X Nat)
    /\ MaxPublications \in Nat

VARIABLES
    conv,           \* conversations: the pair of pair_key, {} without a row
    blocks,         \* user_blocks
    dev,            \* e2e_devices: no row, live, or with revoked_at set
    prekeys,        \* e2e_prekeys: user, key and the publication that inserted the row
    given,          \* rows ConsumePreKey has returned
    pubs,           \* number of committed publications
    req             \* the requests under way

keyVars == <<conv, blocks, dev, prekeys, given, pubs, req>>

Row == Users \X Keys \X Nat
Of(u) == {x \in prekeys : x[1] = u}

Request == [op : {"none", "create", "fetch", "publish"}, by : Users \cup {None}, about : Users \cup {None},
            conv : Convs \cup {None}, keys : SUBSET Keys, seen : SUBSET Row, row : Row \cup {None},
            pc : {"idle", "blocked", "find", "insert", "answer", "device", "delete", "commit",
                  "choose", "take", "done"}]

NoRequest == [op |-> "none", by |-> None, about |-> None, conv |-> None, keys |-> {}, seen |-> {},
              row |-> None, pc |-> "idle"]

\* Every variable has its type, and a request under way names its users and what it writes.
TypeOK ==
    /\ conv \in [Convs -> SUBSET Users]
    /\ blocks \subseteq Users \X Users
    /\ dev \in [Users -> {"none", "live", "revoked"}]
    /\ prekeys \subseteq Row
    /\ given \subseteq Row
    /\ pubs \in Nat
    /\ req \in [Requests -> Request]
    /\ \A r \in Requests :
          /\ req[r].op # "none" => req[r].by # None
          /\ req[r].op \in {"create", "fetch"} => req[r].about # None
          /\ req[r].pc = "take" => req[r].row # None

-----------------------------------------------------------------------------
(* Control of a request                                                    *)

At(r, ops, step) == req[r].op \in ops /\ req[r].pc = step
Becomes(r, q) == req' = [req EXCEPT ![r] = q]
Goto(r, step) == Becomes(r, [req[r] EXCEPT !.pc = step])
End(r) == Becomes(r, NoRequest)

Pair(r) == {req[r].by, req[r].about}
\* A block in either direction.
Blocked(u, v) == <<u, v>> \in blocks \/ <<v, u>> \in blocks

Creating(u, v) == [NoRequest EXCEPT !.op = "create", !.by = u, !.about = v, !.pc = "blocked"]
\* One's own bundle needs no check.
Fetching(u, v) == [NoRequest EXCEPT !.op = "fetch", !.by = u, !.about = v,
                                    !.pc = IF u = v THEN "device" ELSE "blocked"]
Publishing(u, K) == [NoRequest EXCEPT !.op = "publish", !.by = u, !.keys = K, !.pc = "device"]

Ask(r, q) ==
    /\ req[r].pc = "idle"
    /\ Becomes(r, q)
    /\ UNCHANGED <<conv, blocks, dev, prekeys, given, pubs>>

\* Whoever asks for whatever keys.
Begin(r) == \E u \in Users :
    \/ \E v \in Users \ {u} : Ask(r, Creating(u, v))
    \/ \E v \in Users : Ask(r, Fetching(u, v))
    \/ \E K \in SUBSET Keys : Ask(r, Publishing(u, K))

\* Slip: a bundle is fetched without looking at blocks.
CheckBlockedCreate(r) ==
    /\ At(r, {"create", "fetch"}, "blocked")
    /\ IF req[r].op = "create" /\ Blocked(req[r].by, req[r].about) THEN End(r) ELSE Goto(r, "find")
    /\ UNCHANGED <<conv, blocks, dev, prekeys, given, pubs>>

CheckBlocked(r) ==
    /\ At(r, {"create", "fetch"}, "blocked")
    /\ IF Blocked(req[r].by, req[r].about) THEN End(r) ELSE Goto(r, "find")
    /\ UNCHANGED <<conv, blocks, dev, prekeys, given, pubs>>

-----------------------------------------------------------------------------
(* CreateDirect                                                            *)

ChatOf(pair) == {c \in Convs : conv[c] = pair}

\* GetConversationByPairKey
FindChat(r) ==
    /\ At(r, {"create"}, "find")
    /\ IF ChatOf(Pair(r)) = {} THEN Goto(r, "insert") ELSE Goto(r, "answer")
    /\ UNCHANGED <<conv, blocks, dev, prekeys, given, pubs>>

\* Slip: the insert has no ON CONFLICT.
InsertAlways(r) ==
    /\ At(r, {"create"}, "insert")
    /\ \E c \in ChatOf({}) : conv' = [conv EXCEPT ![c] = Pair(r)]
    /\ Goto(r, "answer")
    /\ UNCHANGED <<blocks, dev, prekeys, given, pubs>>

\* ON CONFLICT (pair_key) DO NOTHING
CreateConversation(r) ==
    /\ At(r, {"create"}, "insert")
    /\ IF ChatOf(Pair(r)) # {} THEN UNCHANGED conv
       ELSE \E c \in ChatOf({}) : conv' = [conv EXCEPT ![c] = Pair(r)]
    /\ Goto(r, "answer")
    /\ UNCHANGED <<blocks, dev, prekeys, given, pubs>>

\* The answer names the row that is there.
AnswerChat(r) ==
    /\ At(r, {"create"}, "answer")
    /\ \E c \in ChatOf(Pair(r)) : Becomes(r, [req[r] EXCEPT !.conv = c, !.pc = "done"])
    /\ UNCHANGED <<conv, blocks, dev, prekeys, given, pubs>>

-----------------------------------------------------------------------------
(* PublishKeys                                                             *)

\* UpsertE2EDevice takes back a revocation.
UpsertE2EDevice(r) ==
    /\ At(r, {"publish"}, "device")
    /\ dev' = [dev EXCEPT ![req[r].by] = "live"]
    /\ Goto(r, "delete")
    /\ UNCHANGED <<conv, blocks, prekeys, given, pubs>>

\* The snapshot of the delete.
DeletePreKeys(r) ==
    /\ At(r, {"publish"}, "delete")
    /\ Becomes(r, [req[r] EXCEPT !.seen = Of(req[r].by), !.pc = "commit"])
    /\ UNCHANGED <<conv, blocks, dev, prekeys, given, pubs>>

\* The rows another transaction has committed since the snapshot are still there: a key of the
\* same id makes the insert fail and the transaction roll back.
CommitPreKeys(r) ==
    /\ At(r, {"publish"}, "commit")
    /\ IF \E x \in Of(req[r].by) \ req[r].seen : x[2] \in req[r].keys
       THEN UNCHANGED <<prekeys, pubs>>
       ELSE /\ pubs < MaxPublications
            /\ prekeys' = (prekeys \ req[r].seen) \cup {<<req[r].by, k, pubs + 1>> : k \in req[r].keys}
            /\ pubs' = pubs + 1
    /\ End(r)
    /\ UNCHANGED <<conv, blocks, dev, given>>

-----------------------------------------------------------------------------
(* FetchBundle                                                             *)

\* The pair has a direct chat.
CheckChat(r) ==
    /\ At(r, {"fetch"}, "find")
    /\ IF ChatOf(Pair(r)) = {} THEN End(r) ELSE Goto(r, "device")
    /\ UNCHANGED <<conv, blocks, dev, prekeys, given, pubs>>

\* Slip: any row of e2e_devices will do.
ServesRow(u) == dev[u] # "none"
\* revoked_at IS NULL
ServesKeys(u) == dev[u] = "live"

\* GetE2EDevice or ListE2EDevices.  One's own bundle takes no one-time key.
ReadDevice(r) ==
    /\ At(r, {"fetch"}, "device")
    /\ IF ~ServesKeys(req[r].about) THEN End(r)
       ELSE Goto(r, IF req[r].by = req[r].about THEN "done" ELSE "choose")
    /\ UNCHANGED <<conv, blocks, dev, prekeys, given, pubs>>

\* The subquery of ConsumePreKey.
ChoosePreKey(r) ==
    /\ At(r, {"fetch"}, "choose")
    /\ \/ Of(req[r].about) = {} /\ Goto(r, "done")
       \/ \E x \in Of(req[r].about) : Becomes(r, [req[r] EXCEPT !.row = x, !.pc = "take"])
    /\ UNCHANGED <<conv, blocks, dev, prekeys, given, pubs>>

\* Slip: the chosen key is answered whether the delete found it or not.
TakeChosen(r) ==
    /\ At(r, {"fetch"}, "take")
    /\ prekeys' = prekeys \ {req[r].row}
    /\ given' = given \cup {req[r].row}
    /\ Goto(r, "done")
    /\ UNCHANGED <<conv, blocks, dev, pubs>>

\* Its delete.  Without a row the bundle is answered without a one-time key.
TakePreKey(r) ==
    /\ At(r, {"fetch"}, "take")
    /\ IF req[r].row \in prekeys
       THEN /\ prekeys' = prekeys \ {req[r].row}
            /\ given' = given \cup {req[r].row}
            /\ Goto(r, "done")
       ELSE /\ Becomes(r, [req[r] EXCEPT !.row = None, !.pc = "done"])
            /\ UNCHANGED <<prekeys, given>>
    /\ UNCHANGED <<conv, blocks, dev, pubs>>

-----------------------------------------------------------------------------

\* The request's context is cancelled, or its answer is lost.
Cancel(r) ==
    /\ req[r].pc # "idle"
    /\ End(r)
    /\ UNCHANGED <<conv, blocks, dev, prekeys, given, pubs>>

\* BlockUser, UnblockUser: one statement each.
SetBlock(u, v) ==
    /\ blocks' = IF <<u, v>> \in blocks THEN blocks \ {<<u, v>>} ELSE blocks \cup {<<u, v>>}
    /\ UNCHANGED <<conv, dev, prekeys, given, pubs, req>>

RevokeE2EDevice(u) ==
    /\ dev[u] # "none"
    /\ dev' = [dev EXCEPT ![u] = "revoked"]
    /\ UNCHANGED <<conv, blocks, prekeys, given, pubs, req>>

Serve(r) ==
    \/ CheckBlocked(r) \/ FindChat(r) \/ CreateConversation(r) \/ AnswerChat(r)
    \/ UpsertE2EDevice(r) \/ DeletePreKeys(r) \/ CommitPreKeys(r)
    \/ CheckChat(r) \/ ReadDevice(r) \/ ChoosePreKey(r) \/ TakePreKey(r)

KeysInit ==
    /\ conv = [c \in Convs |-> {}]
    /\ blocks = {} /\ prekeys = {} /\ given = {} /\ pubs = 0
    /\ dev = [u \in Users |-> "none"]
    /\ req = [r \in Requests |-> NoRequest]

KeysNext ==
    \/ \E r \in Requests : Begin(r) \/ Serve(r) \/ Cancel(r)
    \/ \E u, v \in Users : SetBlock(u, v)
    \/ \E u \in Users : RevokeE2EDevice(u)

KeysSpec == KeysInit /\ [][KeysNext]_keyVars

-----------------------------------------------------------------------------

\* CreateDirect looks for the pair's chat and inserts one later, and answers with what it reads
\* again: however many calls overlap, a pair has one chat, and that is the one they are answered.
OneChat ==
    /\ \A c, d \in Convs : conv[c] = conv[d] /\ conv[c] # {} => c = d
    /\ \A r \in Requests : At(r, {"create"}, "done") => conv[req[r].conv] = Pair(r)

\* The row of a one-time key a request has taken and not yet answered.
Taken(r) == At(r, {"fetch"}, "done") /\ req[r].row # None

\* ConsumePreKey's choice may have been taken by another fetch, or replaced by a publication, when
\* its delete runs: no row is answered to two fetches, and none that was answered is left.
HandedOnce ==
    /\ given \cap prekeys = {}
    /\ \A r, s \in Requests : Taken(r) /\ Taken(s) /\ req[r].row = req[s].row => r = s

\* A request of u about v, or between them, that has passed the check of a block.
Passed(r, u, v) ==
    /\ req[r].pc \notin {"idle", "blocked"}
    /\ \/ req[r].op = "create" /\ Pair(r) = {u, v}
       \/ req[r].op = "fetch" /\ req[r].by = u /\ req[r].about = v

ShutOut(u, v) == u # v /\ Blocked(u, v) /\ \A r \in Requests : ~Passed(r, u, v)

\* IsBlocked is one read at the start of CreateDirect and FetchBundle: once a block stands and the
\* requests that had passed the check are over, the pair gets no chat and no bundle while it stands.
BlockedGetsNothing ==
    [][\A u, v \in Users : ShutOut(u, v) /\ Blocked(u, v)' =>
          ShutOut(u, v)' /\ (ChatOf({u, v}) = {} => ChatOf({u, v})' = {})]_keyVars

\* A publication that may still bring the device back, or has been let begin.
Publishes(u) == \E r \in Requests : req[r].by = u /\ At(r, {"publish"}, "device")
\* A fetch that has read the device.
Reads(u) == \E r \in Requests :
               req[r].about = u /\ req[r].op = "fetch" /\ req[r].pc \in {"choose", "take", "done"}

\* RevokeE2EDevice leaves the one-time keys in place and a publication under way takes the revocation
\* back: without one, nobody is answered with the device's keys again.
RevokedServesNothing ==
    [][\A u \in Users : dev[u] = "revoked" /\ ~Reads(u) /\ ~Publishes(u) =>
          (dev[u]' = "revoked" /\ ~Reads(u)') ]_keyVars

=============================================================================
