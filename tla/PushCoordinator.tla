--------------------------- MODULE PushCoordinator ---------------------------
(***************************************************************************)
(* One device's part in push notifications: PushCoordinator.start and      *)
(* stop, and the ways in and out of the shell that call them, or do not.   *)
(*                                                                         *)
(* The server's rows are those of the device's token, one for each user    *)
(* that registered it; what is stored on the device is the id of the last. *)
(* start and stop run up to their next await; a request may fail or its    *)
(* answer may be lost.  The token of the device is made once and never     *)
(* changes.  Credentials are in Device: here a user is signed in or nobody *)
(* is.                                                                     *)
(***************************************************************************)
EXTENDS Integers, FiniteSets

CONSTANTS
    Holders,        \* users who may sign in on this device
    Tasks,          \* bound: runs of start, stop or logout under way at one time
    MaxLive,        \* bound: subscriptions that are live at one time
    Nobody,         \* nobody, no id
    Stale           \* an id whose row has gone

ASSUME CoordinatorAssumption ==
    /\ IsFiniteSet(Holders) /\ IsFiniteSet(Tasks) /\ MaxLive \in Nat \ {0}
    /\ Nobody \notin Holders /\ Stale \notin Holders \cup {Nobody}

VARIABLES
    enrolled,       \* users with a row in users
    rows,           \* notification_devices: the users with a row for this token
    user,           \* whose access token is stored
    shell,          \* ShellHomePage: "out", "restoring" a session, "in" with one
    deviceId,       \* seyra.push.device_id: whose row it names
    started,        \* _started
    sub,            \* _sub: "none", "live" or "cancelled"
    live,           \* subscriptions to the alerts that have not been cancelled
    task,           \* start, stop and logout under way
    excuse          \* auxiliary: what may have kept a start from registering, or doubled it

storage == <<user, deviceId>>
coordinator == <<started, sub, live>>
phoneVars == <<enrolled, rows, storage, shell, coordinator, task, excuse>>

\* A start: "token", "asked", "store", "listen". A logout and its stop: "leave", "cancel", "clear",
\* "withdraw".
Task == [pc : {"idle", "token", "asked", "store", "listen", "leave", "cancel", "clear", "withdraw"},
         by : Holders \cup {Nobody}]     \* who registers
Idle == [pc |-> "idle", by |-> Nobody]

\* Every variable has its type, a row belongs to an account, a subscription that is held counts, and
\* no request goes out without a user.
PhoneTypeOK ==
    /\ enrolled \subseteq Holders /\ rows \subseteq enrolled
    /\ user \in enrolled \cup {Nobody} /\ deviceId \in Holders \cup {Nobody, Stale}
    /\ shell \in {"out", "restoring", "in"}
    /\ started \in BOOLEAN /\ sub \in {"none", "live", "cancelled"} /\ live \in 0..MaxLive
    /\ task \in [Tasks -> Task]
    /\ excuse \subseteq {"failed", "left", "overlap"}
    /\ \A t \in Tasks : task[t].pc \in {"asked", "store"} => task[t].by # Nobody
    /\ sub = "live" => live > 0

-----------------------------------------------------------------------------

Await(t, step) == task' = [task EXCEPT ![t].pc = step]
EndTask(t) == task' = [task EXCEPT ![t] = Idle]
NothingRuns == \A t \in Tasks : task[t].pc = "idle"
Overlap == IF NothingRuns THEN {} ELSE {"overlap"}

-----------------------------------------------------------------------------
(* start                                                                   *)

\* Slip: every shell starts the coordinator.
StartAgain(t) ==
    /\ started' = TRUE
    /\ Await(t, "token")
    /\ excuse' = (excuse \cap {"overlap"}) \cup Overlap

\* Only the first start since a stop does anything.
Start(t) ==
    IF started
    THEN UNCHANGED <<started, task>> /\ excuse' = excuse \cup Overlap
    ELSE /\ started' = TRUE
         /\ Await(t, "token")
         /\ excuse' = (excuse \cap {"overlap"}) \cup Overlap

\* The shell has looked for a session.
Restore(t) ==
    /\ shell = "restoring" /\ task[t].pc = "idle"
    /\ IF user = Nobody
       THEN shell' = "out" /\ UNCHANGED <<started, task, excuse>>
       ELSE shell' = "in" /\ Start(t)
    /\ UNCHANGED <<enrolled, rows, storage, sub, live>>

\* The display, its permission or the storage throws, before the request or when the id is written:
\* nobody waits for start, and it counts as started, without a subscription.
StartThrows(t) ==
    /\ task[t].pc \in {"token", "store"}
    /\ EndTask(t)
    /\ excuse' = excuse \cup {"failed"}
    /\ UNCHANGED <<enrolled, rows, storage, shell, coordinator>>

\* The display is ready, and the token made or found.
AskToRegister(t) ==
    /\ task[t].pc = "token"
    /\ IF user = Nobody
       THEN Await(t, "listen") /\ excuse' = excuse \cup {"failed"}
       ELSE task' = [task EXCEPT ![t] = [pc |-> "asked", by |-> user]] /\ UNCHANGED excuse
    /\ UNCHANGED <<enrolled, rows, storage, shell, coordinator>>

Register(t) ==
    /\ task[t].pc = "asked" /\ task[t].by \in enrolled
    /\ rows' = rows \cup {task[t].by}
    /\ Await(t, "store")
    /\ UNCHANGED <<enrolled, storage, shell, coordinator, excuse>>

\* The request is refused or lost, or its answer is.
RegisterFails(t) ==
    /\ task[t].pc = "asked"
    /\ rows' \in {rows, rows \cup ({task[t].by} \cap enrolled)}
    /\ excuse' = excuse \cup {"failed"}
    /\ Await(t, "listen")
    /\ UNCHANGED <<enrolled, storage, shell, coordinator>>

StoreId(t) ==
    /\ task[t].pc = "store"
    /\ deviceId' = IF task[t].by \in rows THEN task[t].by ELSE Stale
    /\ Await(t, "listen")
    /\ UNCHANGED <<enrolled, rows, user, shell, coordinator, excuse>>

\* A subscription that was held is forgotten.
Listen(t) ==
    /\ task[t].pc = "listen" /\ live < MaxLive
    /\ sub' = "live" /\ live' = live + 1
    /\ EndTask(t)
    /\ UNCHANGED <<enrolled, rows, storage, shell, started, excuse>>

-----------------------------------------------------------------------------
(* stop                                                                    *)

\* Logout in Settings: the credentials are gone before anything else happens.
LogOut(t) ==
    /\ shell = "in" /\ task[t].pc = "idle"
    /\ user' = Nobody
    /\ Await(t, "leave")
    /\ excuse' = excuse \cup Overlap
    /\ UNCHANGED <<enrolled, rows, deviceId, shell, coordinator>>

\* To a new shell, and without waiting for it to stop().
Leave(t) ==
    /\ task[t].pc = "leave"
    /\ shell' = "restoring"
    /\ Await(t, "cancel")
    /\ UNCHANGED <<enrolled, rows, storage, coordinator, excuse>>

CancelSubscription(t) ==
    /\ task[t].pc = "cancel"
    /\ IF sub = "live"
       THEN sub' = "cancelled" /\ live' = live - 1
       ELSE UNCHANGED <<sub, live>>
    /\ Await(t, "clear")
    /\ UNCHANGED <<enrolled, rows, storage, shell, started, excuse>>

\* Slip: it counts as started.
ClearSubscription(t) ==
    /\ task[t].pc = "clear"
    /\ sub' = "none"
    /\ Await(t, "withdraw")
    /\ UNCHANGED <<enrolled, rows, storage, shell, started, live, excuse>>

Clear(t) ==
    /\ task[t].pc = "clear"
    /\ sub' = "none" /\ started' = FALSE
    /\ Await(t, "withdraw")
    /\ UNCHANGED <<enrolled, rows, storage, shell, live, excuse>>

\* Needs a token, and finds only a row of who is signed in; the id stays stored.
Withdraw(t) ==
    /\ task[t].pc = "withdraw"
    /\ \/ UNCHANGED <<rows, deviceId>>
       \/ /\ user # Nobody /\ deviceId = user
          /\ rows' = rows \ {user} /\ deviceId' = Stale
    /\ EndTask(t)
    /\ UNCHANGED <<enrolled, user, shell, coordinator, excuse>>

-----------------------------------------------------------------------------
(* Ways in and out that do not stop                                        *)

SignIn(u) ==
    /\ shell = "out" /\ user = Nobody /\ u \in enrolled
    /\ user' = u /\ shell' = "restoring"
    /\ UNCHANGED <<enrolled, rows, deviceId, coordinator, task, excuse>>

\* The menu of the shell.
SignOut ==
    /\ shell = "in"
    /\ user' = Nobody /\ shell' = "out"
    /\ excuse' = excuse \cup {"left"} \cup Overlap
    /\ UNCHANGED <<enrolled, rows, deviceId, coordinator, task>>

\* Slip: the rows stay.
DeleteUserOnly ==
    /\ shell = "in" /\ user # Nobody
    /\ enrolled' = enrolled \ {user} /\ user' = Nobody /\ shell' = "restoring"
    /\ excuse' = excuse \cup {"left"} \cup Overlap
    /\ UNCHANGED <<rows, deviceId, coordinator, task>>

\* The server deletes the rows of the user with the account.
DeleteAccount ==
    /\ shell = "in" /\ user # Nobody
    /\ enrolled' = enrolled \ {user} /\ rows' = rows \ {user}
    /\ deviceId' = IF deviceId = user THEN Stale ELSE deviceId
    /\ user' = Nobody /\ shell' = "restoring"
    /\ excuse' = excuse \cup {"left"} \cup Overlap
    /\ UNCHANGED <<coordinator, task>>

\* A refresh was refused somewhere, and the credentials were erased.
LoseSession ==
    /\ user # Nobody
    /\ user' = Nobody
    /\ excuse' = excuse \cup {"left"} \cup Overlap
    /\ UNCHANGED <<enrolled, rows, deviceId, shell, coordinator, task>>

Kill ==
    /\ shell' = "restoring"
    /\ started' = FALSE /\ sub' = "none" /\ live' = 0
    /\ task' = [t \in Tasks |-> Idle]
    /\ excuse' = {}
    /\ UNCHANGED <<enrolled, rows, storage>>

PhoneInit ==
    /\ enrolled = Holders /\ rows = {} /\ user = Nobody /\ deviceId = Nobody /\ shell = "restoring"
    /\ started = FALSE /\ sub = "none" /\ live = 0
    /\ task = [t \in Tasks |-> Idle] /\ excuse = {}

PhoneNext ==
    \/ \E t \in Tasks :
          \/ Restore(t) \/ StartThrows(t)
          \/ AskToRegister(t) \/ Register(t) \/ RegisterFails(t) \/ StoreId(t) \/ Listen(t)
          \/ LogOut(t) \/ Leave(t) \/ CancelSubscription(t) \/ Clear(t) \/ Withdraw(t)
    \/ \E u \in Holders : SignIn(u)
    \/ SignOut \/ DeleteAccount \/ LoseSession \/ Kill

PhoneSpec == PhoneInit /\ [][PhoneNext]_phoneVars

-----------------------------------------------------------------------------

SignedIn == shell = "in" /\ user # Nobody

\* Whoever is in has registered the device, and can withdraw it, when nothing is under way: unless the
\* registration or the storage failed, somebody left without a stop since the start, or runs of start and stop overlapped.
StartedIsRegistered ==
    SignedIn /\ NothingRuns /\ excuse = {} => started /\ user \in rows /\ deviceId = user

\* start awaits four times before it keeps its subscription and stop once before it lets go of one:
\* if they do not overlap, no alert is shown twice, and none after a stop.
OneSubscription ==
    "overlap" \notin excuse => live <= 1 /\ (~started => live = 0)
=============================================================================
