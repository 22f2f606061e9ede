-------------------------------- MODULE Push --------------------------------
(***************************************************************************)
(* Push notifications, on the server: the devices a user has registered,   *)
(* the preferences, and the alerts a message sends to the members of its   *)
(* conversation (notify.Service and Server.dispatchMessageAlert).          *)
(*                                                                         *)
(* A request runs in its own goroutine, one statement or one call of the   *)
(* sender at a time, and may be cancelled between two of them.  A device   *)
(* is its user and its token: the id is left out, and with it that two     *)
(* overlapping registrations of a token are answered two ids.              *)
(***************************************************************************)
EXTENDS Integers, FiniteSets

CONSTANTS
    Users,
    Tokens,         \* push tokens of devices
    Requests,       \* requests under way at one time
    None,           \* no user or token
    MaxDevices,     \* MaxDevicesPerUser
    Operations,     \* bound: the calls a request slot may make, and for whom
    Changed         \* bound: the users whose other rows change

Ops == {"register", "unregister", "preferences", "alert"}

ASSUME PushAssumption ==
    /\ IsFiniteSet(Users) /\ IsFiniteSet(Tokens) /\ IsFiniteSet(Requests)
    /\ None \notin Users \cup Tokens
    /\ MaxDevices \in Nat \ {0}
    /\ Operations \in [Requests -> SUBSET (Users \X Ops)]
    /\ Changed \subseteq Users

VARIABLES
    accounts,       \* users with a row in users
    members,        \* members of the conversation
    devices,        \* notification_devices: user and token
    muted,          \* users with messages_enabled false
    plain,          \* users with show_preview false
    hidden,         \* users with user_privacy.notification_preview false
    req             \* the requests under way

vars == <<accounts, members, devices, muted, plain, hidden, req>>

Bodies == {"generic", "encrypted", "text"}

Request == [op : Ops \cup {"none"}, by : Users \cup {None}, token : Tokens \cup {None},
            mute : BOOLEAN, plain : BOOLEAN,    \* the preferences to write
            e2e : BOOLEAN,                      \* of the message
            todo : SUBSET Users,                \* members still to be alerted
            about : Users \cup {None},          \* the member being alerted
            unread : BOOLEAN,                   \* the read of the member's privacy has failed
            body : Bodies, to : SUBSET Tokens,  \* what is sent, and where still
            pc : {"idle", "list", "write", "members", "next", "privacy", "prefs", "devices", "send"}]

NoRequest == [op |-> "none", by |-> None, token |-> None, mute |-> FALSE, plain |-> FALSE,
              e2e |-> FALSE, todo |-> {}, about |-> None, unread |-> FALSE, body |-> "generic",
              to |-> {}, pc |-> "idle"]

\* Every variable has its type, a device has a user, a request names what it writes and whom it
\* alerts, and the text of an encrypted message is in no alert.
TypeOK ==
    /\ accounts \subseteq Users /\ members \subseteq accounts
    /\ devices \subseteq accounts \X Tokens
    /\ muted \subseteq Users /\ plain \subseteq Users /\ hidden \subseteq Users
    /\ req \in [Requests -> Request]
    /\ \A r \in Requests :
          /\ req[r].op = "none" <=> req[r].pc = "idle"
          /\ req[r].op # "none" => req[r].by # None
          /\ req[r].op \in {"register", "unregister"} => req[r].token # None
          /\ req[r].pc \in {"privacy", "prefs", "devices", "send"} => req[r].about # None
          /\ req[r].e2e => req[r].body # "text"

-----------------------------------------------------------------------------
(* Control of a request                                                    *)

At(r, op, step) == req[r].op = op /\ req[r].pc = step
Becomes(r, q) == req' = [req EXCEPT ![r] = q]
Goto(r, step) == Becomes(r, [req[r] EXCEPT !.pc = step])
End(r) == Becomes(r, NoRequest)

Registering(u, t) == [NoRequest EXCEPT !.op = "register", !.by = u, !.token = t, !.pc = "list"]
Unregistering(u, t) == [NoRequest EXCEPT !.op = "unregister", !.by = u, !.token = t, !.pc = "write"]
Preferring(u, m, p) == [NoRequest EXCEPT !.op = "preferences", !.by = u, !.mute = m, !.plain = p,
                                         !.pc = "write"]
\* A message has been sent.
Alerting(u, e) == [NoRequest EXCEPT !.op = "alert", !.by = u, !.e2e = e, !.pc = "members"]

Ask(r, q) ==
    /\ req[r].pc = "idle" /\ <<q.by, q.op>> \in Operations[r]
    /\ Becomes(r, q)
    /\ UNCHANGED <<accounts, members, devices, muted, plain, hidden>>

Begin(r) == \E u \in accounts :
    \/ \E t \in Tokens : Ask(r, Registering(u, t)) \/ Ask(r, Unregistering(u, t))
    \/ \E m \in BOOLEAN, p \in BOOLEAN : Ask(r, Preferring(u, m, p))
    \/ \E e \in BOOLEAN : Ask(r, Alerting(u, e))

-----------------------------------------------------------------------------
(* Devices and preferences                                                 *)

TokensOf(u) == {t \in Tokens : <<u, t>> \in devices}

\* ListDevices: the newest MaxDevices rows; which ones these are is left open.
Listed(u) ==
    {S \in SUBSET TokensOf(u) :
        IF Cardinality(TokensOf(u)) <= MaxDevices THEN S = TokensOf(u) ELSE Cardinality(S) = MaxDevices}

\* Slip: one more.
RoomForMore(S) == Cardinality(S) <= MaxDevices
RoomIn(S) == Cardinality(S) < MaxDevices

\* A registered token is written again without a look at the limit.
CheckLimit(r) ==
    /\ At(r, "register", "list")
    /\ \E S \in Listed(req[r].by) :
          IF req[r].token \in S \/ RoomIn(S) THEN Goto(r, "write") ELSE End(r)
    /\ UNCHANGED <<accounts, members, devices, muted, plain, hidden>>

\* ON CONFLICT (user_id, token) DO UPDATE
UpsertDevice(r) ==
    /\ At(r, "register", "write")
    /\ devices' = devices \cup ({req[r].by} \cap accounts) \X {req[r].token}
    /\ End(r)
    /\ UNCHANGED <<accounts, members, muted, plain, hidden>>

DeleteDevice(r) ==
    /\ At(r, "unregister", "write")
    /\ devices' = devices \ {<<req[r].by, req[r].token>>}
    /\ End(r)
    /\ UNCHANGED <<accounts, members, muted, plain, hidden>>

\* Both columns are written, whatever the client knew of them.
UpsertPreferences(r) ==
    /\ At(r, "preferences", "write")
    /\ muted' = IF req[r].mute THEN muted \cup {req[r].by} ELSE muted \ {req[r].by}
    /\ plain' = IF req[r].plain THEN plain \cup {req[r].by} ELSE plain \ {req[r].by}
    /\ End(r)
    /\ UNCHANGED <<accounts, members, devices, hidden>>

-----------------------------------------------------------------------------
(* The alerts of a message                                                 *)

\* MemberIDs, but for the sender.
ReadMembers(r) ==
    /\ At(r, "alert", "members")
    /\ Becomes(r, [req[r] EXCEPT !.todo = members \ {req[r].by}, !.pc = "next"])
    /\ UNCHANGED <<accounts, members, devices, muted, plain, hidden>>

NextMember(r) ==
    /\ At(r, "alert", "next")
    /\ \/ req[r].todo = {} /\ End(r)
       \/ \E u \in req[r].todo :
             Becomes(r, [req[r] EXCEPT !.todo = @ \ {u}, !.about = u, !.pc = "privacy"])
    /\ UNCHANGED <<accounts, members, devices, muted, plain, hidden>>

\* The preview of dispatchMessageAlert.
Preview(q) == IF q.e2e THEN "encrypted" ELSE IF q.about \in hidden THEN "generic" ELSE "text"

\* A read that fails, for an error of the database or a timeout, hides nothing: the text is shown.
ReadPrivacy(r) ==
    /\ At(r, "alert", "privacy")
    /\ \/ Becomes(r, [req[r] EXCEPT !.body = Preview(req[r]), !.unread = FALSE, !.pc = "prefs"])
       \/ /\ ~req[r].e2e
          /\ Becomes(r, [req[r] EXCEPT !.body = "text", !.unread = TRUE, !.pc = "prefs"])
    /\ UNCHANGED <<accounts, members, devices, muted, plain, hidden>>

\* Slip: the preview is not taken away.
BodyAsPreviewed(q) == q.body
BodyFor(q) == IF q.about \in plain THEN "generic" ELSE q.body

\* A member whose preferences or devices cannot be read is passed over.
ReadPreferences(r) ==
    /\ At(r, "alert", "prefs")
    /\ \/ Goto(r, "next")
       \/ /\ req[r].about \notin muted
          /\ Becomes(r, [req[r] EXCEPT !.body = BodyFor(req[r]), !.pc = "devices"])
    /\ UNCHANGED <<accounts, members, devices, muted, plain, hidden>>

\* Slip: the alert is sent to the sender's devices too.
ListAndKeep(r) ==
    /\ At(r, "alert", "devices")
    /\ \E S \in Listed(req[r].about) :
          Becomes(r, [req[r] EXCEPT !.to = S \cup TokensOf(req[r].by), !.pc = "send"])
    /\ UNCHANGED <<accounts, members, devices, muted, plain, hidden>>

ListDevices(r) ==
    /\ At(r, "alert", "devices")
    /\ \/ Goto(r, "next")
       \/ \E S \in Listed(req[r].about) : Becomes(r, [req[r] EXCEPT !.to = S, !.pc = "send"])
    /\ UNCHANGED <<accounts, members, devices, muted, plain, hidden>>

\* Sender.Send, whose failure is ignored.
Send(r) ==
    /\ At(r, "alert", "send")
    /\ \/ req[r].to = {} /\ Goto(r, "next")
       \/ \E t \in req[r].to : Becomes(r, [req[r] EXCEPT !.to = @ \ {t}])
    /\ UNCHANGED <<accounts, members, devices, muted, plain, hidden>>

-----------------------------------------------------------------------------

Cancel(r) ==
    /\ req[r].pc # "idle"
    /\ End(r)
    /\ UNCHANGED <<accounts, members, devices, muted, plain, hidden>>

\* The requests of other components.
PutPrivacy(u) ==
    /\ u \in accounts
    /\ hidden' = IF u \in hidden THEN hidden \ {u} ELSE hidden \cup {u}
    /\ UNCHANGED <<accounts, members, devices, muted, plain, req>>

SetMember(u) ==
    /\ u \in accounts
    /\ members' = IF u \in members THEN members \ {u} ELSE members \cup {u}
    /\ UNCHANGED <<accounts, devices, muted, plain, hidden, req>>

\* The rows that go with the row of a user.
DeleteUser(u) ==
    /\ u \in accounts
    /\ accounts' = accounts \ {u}
    /\ members' = members \ {u}
    /\ devices' = {d \in devices : d[1] # u}
    /\ muted' = muted \ {u} /\ plain' = plain \ {u} /\ hidden' = hidden \ {u}
    /\ UNCHANGED req

Init ==
    /\ accounts = Users /\ members = Users
    /\ devices = {} /\ muted = {} /\ plain = {} /\ hidden = {}
    /\ req = [r \in Requests |-> NoRequest]

Serve(r) ==
    \/ CheckLimit(r) \/ UpsertDevice(r) \/ DeleteDevice(r) \/ UpsertPreferences(r)
    \/ ReadMembers(r) \/ NextMember(r) \/ ReadPrivacy(r) \/ ReadPreferences(r)
    \/ ListDevices(r) \/ Send(r)

Next ==
    \/ \E r \in Requests : Begin(r) \/ Serve(r) \/ Cancel(r)
    \/ \E u \in Changed : PutPrivacy(u) \/ SetMember(u) \/ DeleteUser(u)

Spec == Init /\ [][Next]_vars

-----------------------------------------------------------------------------

\* Tokens a registration of u that has passed the limit has still to write.
Pending(u) == {t \in Tokens : \E r \in Requests :
                  At(r, "register", "write") /\ req[r].by = u /\ req[r].token = t}

\* RegisterDevice counts the rows and inserts one later, and writes a token it found again even if it
\* has gone by then: a user exceeds the limit by no more than the registrations that overlap.
LimitPassedByOverlapOnly ==
    \A u \in Users :
        Cardinality(TokensOf(u) \cup Pending(u)) <= MaxDevices - 1 + Cardinality(Requests)

Choices == {"member", "alerts", "preview", "privacy"}

\* What keeps an alert, or its text, from a user.
Off(u, choice) ==
    \/ choice = "member" /\ u \notin members
    \/ choice = "alerts" /\ u \in muted
    \/ choice = "preview" /\ u \in plain
    \/ choice = "privacy" /\ u \in hidden

\* The alert q has read the choice of u before.
ReadBefore(q, u, choice) ==
    \/ choice = "member" /\ (u \in q.todo \/ u = q.about)
    \/ choice = "alerts" /\ u = q.about /\ q.pc \in {"devices", "send"}
    \/ choice = "preview" /\ u = q.about /\ q.pc \in {"devices", "send"} /\ q.body = "text"
    \/ /\ choice = "privacy" /\ u = q.about /\ q.pc \in {"prefs", "devices", "send"}
       /\ q.body = "text" /\ ~q.unread

Quiet(u, choice) == Off(u, choice) /\ \A r \in Requests : ~ReadBefore(req[r], u, choice)

\* dispatchMessageAlert reads the members, the privacy and the preferences long before it sends:
\* once a user has left, muted messages or hidden their text, and the alerts that had read otherwise
\* are over, no alert sends of it to the user's devices until the user takes it back; but an alert
\* whose read of the privacy has failed shows the text that is hidden by the privacy alone.
QuietStaysQuiet ==
    [][\A u \in Users, choice \in Choices :
          Quiet(u, choice) /\ Off(u, choice)' => Quiet(u, choice)']_vars

\* No registration of the device is under way and no alert has it listed.
Untouched(u, t) ==
    \A r \in Requests :
        /\ ~(req[r].op = "register" /\ req[r].by = u /\ req[r].token = t)
        /\ ~(At(r, "alert", "send") /\ req[r].about = u /\ t \in req[r].to)

\* A registration that found the token writes the row again after it was withdrawn, and an alert
\* sends to the rows it listed: but for those under way, a withdrawn device stays withdrawn and is
\* sent nothing until it is registered again.
WithdrawnGetsNothing ==
    [][\A u \in Users, t \in Tokens :
          <<u, t>> \notin devices /\ Untouched(u, t) =>
             /\ <<u, t>> \notin devices'
             /\ Untouched(u, t)' \/ \E r \in Requests : req[r].op = "none" /\ req'[r].op = "register"]_vars

=============================================================================
