---------------------------- MODULE FirstContact ----------------------------
(***************************************************************************)
(* The applications of users who write to each other for the first time,   *)
(* on top of Keys: SignalE2eService with the one-time keys a device keeps, *)
(* and the part of HttpChatDataSource that publishes them at every start,  *)
(* fetches a peer's bundle and opens a peer's first message.               *)
(*                                                                         *)
(* The Signal protocol is a library: of a first message only the one-time  *)
(* key it was written with is kept, which the addressee needs to open it   *)
(* and then forgets.  The application can be killed at any await.          *)
(***************************************************************************)
EXTENDS Keys

CONSTANTS
    Owners,         \* bound: the users who publish keys
    Peers,          \* bound: the users who write to them
    Few, Full,      \* fewer than Few keys are topped up to Full, 20 and 80 in the code
    MaxStarts,      \* bound: starts of an application
    MaxBlocked      \* bound: the peers blocked at one time

ASSUME FirstContactAssumption ==
    /\ Owners \subseteq Users /\ Peers \subseteq Users \ Owners
    /\ IsFiniteSet(Keys)
    /\ Few \in Nat /\ Full \in Nat /\ Few <= Full /\ MaxStarts \in Nat
    /\ MaxBlocked \in Nat

VARIABLES
    disk,           \* the one-time keys in SecureStorage
    mem,            \* those of the running application
    made,           \* number of keys generated
    app,            \* what publishLocalKeys does next
    starts,
    met,            \* peer and user: the peer has a session
    letters         \* first messages: peer, user, key and publication of the row

clientVars == <<disk, mem, made, app, starts, met, letters>>
vars == <<conv, blocks, dev, prekeys, given, pubs, req, disk, mem, made, app, starts, met, letters>>

\* Every variable has its type, and an application that does not run has no memory.
ContactTypeOK ==
    /\ TypeOK
    /\ disk \in [Owners -> SUBSET Keys] /\ mem \in [Owners -> SUBSET Keys]
    /\ made \in [Owners -> Nat] /\ starts \in [Owners -> 0..MaxStarts]
    /\ app \in [Owners -> {"off", "export", "persist", "post", "running"}]
    /\ met \subseteq Peers \X Owners
    /\ letters \subseteq Peers \X Owners \X Keys \X Nat
    /\ \A u \in Owners : app[u] = "off" => mem[u] = {}

-----------------------------------------------------------------------------
(* publishLocalKeys                                                        *)

\* _bindAccount, install and _restoreState
Start(u) ==
    /\ app[u] = "off" /\ starts[u] < MaxStarts
    /\ mem' = [mem EXCEPT ![u] = disk[u]]
    /\ app' = [app EXCEPT ![u] = "export"]
    /\ starts' = [starts EXCEPT ![u] = @ + 1]
    /\ UNCHANGED <<keyVars, disk, made, met, letters>>

\* exportPublicBundle: new keys when few are left.
TopUp(u) ==
    /\ app[u] = "export"
    /\ LET need == IF Cardinality(mem[u]) < Few THEN Full - Cardinality(mem[u]) ELSE 0
           new == made[u] + 1 .. made[u] + need
       IN /\ new \subseteq Keys
          /\ mem' = [mem EXCEPT ![u] = @ \cup new]
          /\ made' = [made EXCEPT ![u] = @ + need]
    /\ app' = [app EXCEPT ![u] = "persist"]
    /\ UNCHANGED <<keyVars, disk, starts, met, letters>>

\* Slip: the new keys are stored with the next change of the session state only.
PersistLater(u) ==
    /\ app[u] = "persist"
    /\ app' = [app EXCEPT ![u] = "post"]
    /\ UNCHANGED <<keyVars, disk, mem, made, starts, met, letters>>

\* _persistState
Persist(u) ==
    /\ app[u] = "persist"
    /\ disk' = [disk EXCEPT ![u] = mem[u]]
    /\ app' = [app EXCEPT ![u] = "post"]
    /\ UNCHANGED <<keyVars, mem, made, starts, met, letters>>

\* All the keys the device keeps are sent, those the server has handed out among them.  After an
\* error the next message sent publishes again, which is what a restart does too.
Post(u, r) ==
    /\ app[u] = "post"
    /\ Ask(r, Publishing(u, mem[u]))
    /\ app' = [app EXCEPT ![u] = "running"]
    /\ UNCHANGED <<disk, mem, made, starts, met, letters>>

Kill(u) ==
    /\ app[u] # "off"
    /\ mem' = [mem EXCEPT ![u] = {}]
    /\ app' = [app EXCEPT ![u] = "off"]
    /\ UNCHANGED <<keyVars, disk, made, starts, met, letters>>

-----------------------------------------------------------------------------
(* establishSession and the first message                                  *)

Create(p, u, r) ==
    /\ \A c \in Convs : conv[c] # {p, u}
    /\ Ask(r, Creating(p, u))
    /\ UNCHANGED clientVars

\* hasSession, then the GET of the bundle.
Fetch(p, u, r) ==
    /\ <<p, u>> \notin met
    /\ Ask(r, Fetching(p, u))
    /\ UNCHANGED clientVars

\* processRemoteBundle, and a message to the user with it.
Write(r) ==
    /\ At(r, {"fetch"}, "done")
    /\ met' = met \cup {<<req[r].by, req[r].about>>}
    /\ letters' = IF req[r].row = None THEN letters
                  ELSE letters \cup {<<req[r].by, req[r].about, req[r].row[2], req[r].row[3]>>}
    /\ End(r)
    /\ UNCHANGED <<conv, blocks, dev, prekeys, given, pubs, disk, mem, made, app, starts>>

\* decrypt forgets the key and stores what is left.  Without the key the placeholder is shown.
Open(l) ==
    LET u == l[2] IN
    /\ app[u] # "off" /\ l[3] \in mem[u]
    /\ mem' = [mem EXCEPT ![u] = @ \ {l[3]}]
    /\ disk' = [disk EXCEPT ![u] = mem[u] \ {l[3]}]
    /\ letters' = letters \ {l}
    /\ UNCHANGED <<keyVars, made, app, starts, met>>

-----------------------------------------------------------------------------

Client ==
    \/ \E u \in Owners : Start(u) \/ TopUp(u) \/ Persist(u) \/ Kill(u)
    \/ \E u \in Owners, r \in Requests : Post(u, r)
    \/ \E p \in Peers, u \in Owners, r \in Requests : Create(p, u, r) \/ Fetch(p, u, r)
    \/ \E r \in Requests : Write(r)
    \/ \E l \in letters : Open(l)

Server ==
    /\ \/ \E r \in Requests : Serve(r) \/ Cancel(r)
       \/ \E u \in Owners, v \in Peers :
             Cardinality(blocks \ {<<u, v>>}) < MaxBlocked /\ SetBlock(u, v)
       \/ \E u \in Owners : RevokeE2EDevice(u)
    /\ UNCHANGED clientVars

ContactInit ==
    /\ KeysInit
    /\ disk = [u \in Owners |-> {}] /\ mem = [u \in Owners |-> {}]
    /\ made = [u \in Owners |-> 0] /\ starts = [u \in Owners |-> 0]
    /\ app = [u \in Owners |-> "off"]
    /\ met = {} /\ letters = {}

ContactNext == Client \/ Server

ContactSpec == ContactInit /\ [][ContactNext]_vars

-----------------------------------------------------------------------------

GivenBefore(u, k, n) == \E x \in given : x[1] = u /\ x[2] = k /\ x[3] # n

\* The keys are stored before they are published and a first message takes one away: a key the
\* server may hand out, or has handed out, can be opened with what the device stores, whenever the
\* application is killed; but for a key that was handed out, was published once more because its
\* first message had not come, and was used up by that message.
KeysCanBeOpened ==
    /\ \A x \in prekeys : x[1] \in Owners => x[2] \in disk[x[1]] \/ GivenBefore(x[1], x[2], x[3])
    /\ \A l \in letters : l[3] \in disk[l[2]] \/ GivenBefore(l[2], l[3], l[4])

=============================================================================
