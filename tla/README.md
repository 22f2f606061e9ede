# Seyra in TLA+

TLA+ models of the Seyra messenger (Go server in `src/backend`, Flutter client in
`src/lib`), the TLC runs that check them and the theorems that TLAPS proves about
them. `PROJECT.json` maps every definition to the lines it stands for, lists the
runs, the hazards of the code and the theorems.

## The system

The server is an HTTP API over Postgres with one WebSocket per client for events.
Its services (`auth`, `chat`, `notify`) hold no lock over a request: each call on a
store is one SQL statement or one transaction, and the store calls of concurrent
requests interleave. A request ends early when its client goes away, when a store
call fails or when the process stops; what it has written stays. The client is a
Dart program on one thread, whose tasks interleave at every `await`.

| part | code | state | operations | what makes it correct |
| --- | --- | --- | --- | --- |
| Conversation membership | `chat/membership.go`, `social.go`, `service.go`, `extras.go` | members and roles, visibility, invites, bots and their grants | add, join by invite, join a channel, leave, remove, set role, transfer, invite, rename, grant a bot, delete a user or bot | nobody comes in or rises without somebody entitled letting them; a room keeps its owner; a direct chat keeps its two; events reach members |
| Login sessions | `auth/service.go`, `postgres_store.go` | users, session rows, hashes of one token pair each, failed logins (in memory) | register, login, refresh, logout, revoke others, revoke one, delete the account | what is revoked stays revoked; sessions need accounts; only the user ends its sessions; the limiter limits |
| Realtime sockets and hub | `http/realtime.go`, `chat/hub.go` | open sockets and their tokens, queues of 64 events | open, recheck every 30 s, publish, inbound frames | a dead session's socket closes |
| Device credentials | `http_auth_remote_data_source.dart`, `http_chat_data_source.dart` | two entries of SecureStorage | login, logout, restore, authorised calls with a refresh, account deletion | what is stored works, or nothing is stored; signed out means signed out |
| Calls | `social.go`, `call_page.dart`, `shell_home_page.dart` | call rows; a ringing dialog and a page per client | start, answer, reject, hang up, missed, ICE, history | a call that is over stays over; its end is heard |
| Messages | `service.go`, `extras.go`, `social.go`, `reactions.go` | messages, pins, reactions, restrictions, blocks | send, forward, edit, delete, pin, react | who may not speak adds nothing; deleted stays deleted |
| Attachments and media | `extras.go`, `media/store.go` | rows and blobs | upload, open, delete | rows and blobs agree; a message carries its sender's file |
| Client message cache | `http_chat_data_source.dart`, `message_sync.dart`, `io_chat_realtime.dart` | a list per conversation, plaintexts | load, resync, apply events, decrypt, delete, clear | nothing falls between a load and the subscription; a text is not lost; what is gone stays gone |
| Direct chats | `service.go`, `ids.go` | conversations by pair key, blocks | create, block, unblock | a pair has one chat; a block shuts out |
| End-to-end keys | `social.go`, `signal_e2e_service.dart` | device rows, one-time keys, on both sides | publish, fetch a bundle, revoke, top up, first message | a one-time key is handed out once and can be opened |
| Push | `notify/`, `http/chat.go`, `push_coordinator.dart` | device registrations, preferences; on the phone a subscription and a device id | register, withdraw, prefer, alert; start, stop | the limit; who is quiet is left alone; who is in is registered |
| Accounts, profiles, privacy | `http/profile.go`, `http/phase.go`, `postgres_social.go`, `media/store.go`, `http/server.go` | switches and texts of a user, the photo and its column | edit, upload, remove, show | an edit changes what it names; hidden stays hidden; the photo is whole |

How they interact: every HTTP handler authenticates through Login sessions and then
calls a chat or notify operation; chat operations write rows and hand an event with an
audience to the hub, which queues it for the sockets of those users; the client's data
sources attach the stored access token to every request and, on `session_expired`,
refresh the pair, store it and retry. What the socket brings goes to the message cache
and to the two call screens. Deleting a user row cascades in Postgres over memberships,
invites, sessions, devices and attachments.

What is hard: store calls of several requests in an order no test produces; requests cut
short between two writes; answers lost on the way to a device that acts on the loss;
credentials replaced while other tasks use them; checks whose answer is old when it is
used; sockets that outlive the token they were opened with; events that come before
anybody listens; a blob store no transaction covers; a message that can be decrypted
once and is hydrated by three tasks.

## The modules

All server modules are built alike: a request is a record whose `pc` names the store call
it makes next, `Begin` is the client's call, one action follows per store call, `Cancel`
is the end of a request between two calls. Definitions whose comment begins with "Slip"
are wrong forms of the definition beside them; no specification uses them. They serve to
confirm that each property notices the mistake (`mutants` in `PROJECT.json`).

**Membership** models one conversation; conversations do not share rows that matter here.
`kind`, `visibility`, `role`, `managers`, `bots`, `accounts`, `linkBy` and `revoked` are
the columns of `conversations`, `conversation_members`, `bot_grants`, `bots`, `users` and
`invite_links`; `sent` is what the last step gave to `Hub.Publish`. The first check of
each operation is `Authorized`, the test of the target `TargetOK`, and `EraseUser` has
the cascades of the migrations.

**RoomContract** is its abstract specification: the members, admins and owner of a room,
the bots that may manage it and whether a door stands open, where every call takes effect
at one moment, is authorised by the roles of that moment and adds nobody past the limit.
A transfer to oneself is a call of its own there (`Resign`), with the effect the code gives
it: the owner becomes an admin and the room has no owner.
The end of Membership maps the one to the other (`RoomOwner`, `RoomAdmins`, `RoomDoor`,
`RoomAsked`; a transfer to another counts as done when the target is promoted, the one to
oneself when its actor is demoted)
and states `ImplementsContract`; `MembershipProofs` proves it.

**Sessions** models the server's accounts, session rows and sockets. A token pair is a
session and a generation, since `UpdateSessionTokens` replaces both hashes at once; a row
is `fresh`, `stale` (access token expired), `spent` (refresh token too) or `absent`, and
`revoked` has the rows whose `revoked_at` is set, which the UPDATE of the tokens asks for
and does not set. `Serve` has one action per store call of the nine operations; `Recheck` is the
socket's ticker; `Expire`, `Forget`, `Cancel` and `Restart` are time and failure.

**Device** models one device: the entries `access` and `refresh` of SecureStorage, a task
per call, one action per `await` (a storage call, a request, its answer), and of the
server the part it sees, the session rows with lookup and later write (`stale` and `spent`
are the sessions whose access token and whose refresh token have expired). `Refresh` is the
refresh the chat data source makes whenever its socket is lost. `Lose` drops a
request or an answer at any point, `Kill` ends the app. The auxiliary `alone` says that
since the device last had nothing stored no call overlapped another or died with the app.
Account deletion's second check and its delete are one step there; Sessions has them
apart. All sessions of Device are of one account. The client's two copies of the
authorised call (auth and chat data source) behave alike and are one operation, `Call`.

**Calls** models `call_sessions`, `call_participants` and the call.signal events:
`StartCall`, `SignalCall`, `DeleteCall`, `ClearCallHistory`, by any user with any action.
`inbox` is what the hub has queued for a client. **CallPages** extends it with what makes
those requests: `ringing`, the dialog of `ShellHomePage`, and `page`, a `CallPage` with a
`pc` for each await (`opening` before it subscribes to the signals, `calling` and
`answering` while its first request is awaited, `open`, `leaving`). `CallsProofs` shows
that CallPages implements Calls.

**Access** has what decides who may write in a conversation: role, restriction, block,
grants, and the writes of them by others (each one step: Membership has the steps of
those that matter). **Posting** extends it with messages, pins, reactions, attachments
and blobs. The five checks of `sendMessage` are five reads before the insert (`Checks`,
`Barred`); editing and deleting read the message and write later, with the condition their
SQL has; upload and removal have the blob and the row as steps of their own.

**Keys** has direct chats (`CreateDirect` looks, inserts or loses to the unique pair key,
reads again), blocks, and the tables of the end-to-end keys. `ReplacePreKeys` is a delete
that sees its snapshot and a commit; `ConsumePreKey` chooses a row in its subquery and
takes it in a later step if it is still there, as READ COMMITTED allows. **FirstContact**
adds the applications: the one-time keys in storage (`disk`) and in memory (`mem`), the
publication at every start, a peer's first message (`letters`) and its opening.
`KeysProofs` shows that it implements Keys.

**Push** has the registered devices, the three switches that keep an alert or its text
from a user, and the alert of a message: members, then for each member privacy,
preferences, devices and the sends. Each of these reads may fail: without the preferences
or the devices the member is passed over, without the privacy (`unread`) the text is shown.

**PushCoordinator** is the phone's side of push: `start` and `stop` up to each `await`, a
subscription that may be held, cancelled or forgotten (`sub`, `live`), the stored device
id, and the shell's ways in and out, of which only logging out in Settings calls `stop`.
Credentials are one variable here, `user`; Device has their steps.

**Profile** has the switches and texts of every user as the set of those that are on, the
photo as a blob under the one key of its user, and the six places that ask a switch before
they show something (`Gate`). An edit reads the row and writes it whole; an upload
truncates the object, fills it and sets the column; a showing reads what it shows, the
switch, and shows.

**MessageCache** has one chat as one running app keeps it, against the server's rows:
`items` is `HttpChatDataSource._messages`, each message with its text or with the
placeholder. A copy of a message on its way into the list goes through `raw`, `opening`
(decryption awaited), `opened` (key used, state being stored) to `readable` or
`placeholder`; copies are those of a page being hydrated (`load`), of a socket event
(`arriving`) and of the retry before a send (`adopting`). `wire` is what the subscription
holds and the socket carries; `missed` and `garbled` are auxiliary and name the messages
the code loses knowingly, described with the properties.

`…Proofs` modules hold the theorems, `MC…` modules the constants of the instances. There
is a `…Proofs` module beside each component's, but that `KeysProofs` is about FirstContact
and MessageCache too, which model the two ends of a direct chat in the app, and
`PushProofs` about both sides of push.

## The runs

| run | instance | question | answer |
| --- | --- | --- | --- |
| `membership_serial` | two humans, a bot, a link, one request at a time, every operation | Do the store calls of one request add up to the contract? Does anybody but the owner take its role? | `ImplementsContract`, `OneOwnerAtRest`, `AudienceIsMembers`, `OwnerStaysOwner` hold |
| `membership_races` | two humans, a bot, a link, two requests, cut short anywhere, among additions, invites, transfers and deleted accounts | Can a race open a closed conversation, widen a direct chat or give an ownerless room an owner? | no: `SealedStaysSealed`, `DirectPair`, `OrphanStaysOrphan` |
| `sessions` | two users, two sessions of up to two pairs, two requests | Does a race revive a session, pass the limiter, leave one behind its account or end another's? | no: `SessionStaysOver`, `PassedAreOver`, `SessionsHaveAccounts`, `OnlyOwnSessions`; by one at most: `FailuresBounded` |
| `sockets` | one session of two pairs, two sockets, a restart | Does the socket of a dead token close? | yes: `SocketCloses`, under fairness |
| `device` | two tasks, two sessions, a killed app | Does a device keep a pair that works; can anything but a login sign it in? | one call at a time yes: `StoredPairServes`; no: `SignedOutStays` |
| `calls` | caller and callee, one call, history and removal by the callee | Does a call stay over, and do both screens hear of its end? | yes: `SettledStays`; yes if they listened: `EndIsHeard`, under fairness |
| `posting` | a human and a bot, a direct chat or a channel, one message, one file, two requests | Can who is barred still speak, what is deleted change, a message carry a stranger's file, a row lose its blob? | no: `BarredSaysNothing`, `DeletedStaysDeleted`, `FilesAreTheSenders`, `RowHasBlob` |
| `keys` | an owner of keys, two peers, two keys, two publications, two starts | Is a chat doubled, a key handed out twice or not to be opened, a block or a revocation passed? | no: `OneChat`, `HandedOnce`, `KeysCanBeOpened`, `BlockedGetsNothing`, `RevokedServesNothing` |
| `push` | two users, three tokens, a limit of one device, two requests | Is the limit kept, and who is quiet left alone? | by overlap only: `LimitPassedByOverlapOnly`; yes: `QuietStaysQuiet`, `WithdrawnGetsNothing` |
| `coordinator` | two users of one device, two runs of start, stop and logout | Is who is in registered, and shown each alert once? | yes, but for failures, a way out without `stop` and overlap: `StartedIsRegistered`, `OneSubscription` |
| `profile` | two users, two requests, a photo, two edits that share a field, a deleted account | Does an edit touch what it does not name, does what is hidden show, is the photo whole? | no, no, yes, but for overlapping or broken edits: `OnlyNamedChange`, `HiddenStaysHidden`, `PhotoIsWhole` |
| `cache` | two messages, one encrypted, a page of one, one slot, one load at a time | Is a message missed, its text lost, a deleted one back? | no, but for what the properties name: `NothingMissed`, `TextIsNotLost`, `GoneStaysGone` |

Bounds. Two overlapping requests or tasks show every race between a check and a write,
since each check is followed by writes on the same rows and nothing counts requests but
the limiter and the device limit, whose bounds are stated in their number. Users differ
where an actor, a target and a rival must; a bot is the only user with a grant. Two or
three generations of a token pair tell a current pair from an older one and one that
comes; `MaxPairs` bounds the pairs of any two sessions together. One call is enough where
nothing relates two calls but a page that does not know its call yet, which is noted among
the hazards. `posting` has one message and one file, so a forwarded copy is inserted in
the theorems' generality only; `Marked` restricts reactions and pins to the direct chat,
where they meet the fewest other checks. In `keys` the numbers 20 and 80 of the top-up are
1 and 2 (`Few`, `Full`), and at most one peer is blocked at a time (`MaxBlocked`). In
`cache` message 1 is encrypted, deletable and perhaps the user's own, message 2 is none of
these but fills the page of one and the subscription's slot (`Own`, `Deletable`); with two
loads at a time the same properties hold, in four minutes. `Slots` is the hub's 64 in
`calls`, where no queue fills, and 1 in `cache`, where it must. `MaxBatch`,
`MaxGeneration`, `MaxRestarts`, `MaxStarts`, `MaxPublications`, `Operations`, `Callers`,
`Erasers`, `Erasable`, `Named`, `Tasks`, `MaxLive`, `Removed`, `Changed`, `Leavers`,
`MayCancel` and `MayKill` bound or switch off behaviour, and the configurations name them; `MaxRoomMembers`, `LoginLimit`, `MaxDevices` and `PageSize` are
the code's limits made small. The theorems need none of these bounds. `MaxLive` allows a
third subscription beside one that leaked; `Named` has edits of one table that share a
field and of the other that do not meet it. `device` uses a VIEW that leaves out what no action reads any more of a task that has ended,
and `sessions` one that leaves out the expiry of a row that is revoked.
Symmetry is used for safety only. `Logout` is fired by
`sockets` and is left out of `sessions`, where it is a revocation like the others.

Nothing is assumed of the database driver: an insert that reports an error may have been
committed, and a read may fail in a request that goes on. What the code then does is in the
models, and the two properties it touches name the case (`late` in `RowHasBlob`, `unread`
in `QuietStaysQuiet`).

Deadlock is checked except where the system may come to rest for good: a conversation
without accounts, calls that have all been made and ended, bounds on publications and
starts used up, users gone (`membership_serial`, `membership_races`, `calls`, `keys`,
`push`).

Fairness. `sockets` assumes weak fairness of `Recheck` for each socket: the ticker of an
open socket fires every thirty seconds and its token, once dead, stays dead, so the
recheck remains enabled. `calls` assumes that the server finishes the requests it has
begun and that a client's event loop takes what has arrived and what is answered; nothing
is assumed of users, of the microphone or of the permissions dialog. All other runs check
safety and assume nothing.

## What disagrees with the documents

- `CHAT_BACKEND_CONTRACT.md:76` protects the owner from removal, demotion and leaving.
  The role is tested in one store call and the write has no condition on it, so a transfer
  in between makes it hit the new owner, and the room has none. What does hold, whatever
  overlaps, is `OwnerStaysOwner`: an owner against whom nothing had passed its test keeps
  the role. A transfer to oneself (`social.go:207` does not exclude it) needs no race: it
  writes owner and then admin to one row, and the room has no owner. `OneOwnerAtRest` says
  that served one at a time no request takes the last owner but this one and a deleted
  account; `OrphanStaysOrphan` says that nobody can repair it.
- `AUTH_BACKEND_CONTRACT.md:163` says that logout revokes the session. A logout with an
  access token older than an hour erases the device's tokens, swallows `session_expired`,
  and leaves the session live. `SignedOutStays` is the half that holds.
- `CHAT_BACKEND_CONTRACT.md:91` says that no further events go to a removed member.
  `publishMembers` (`service.go:442`) reads the ids and publishes to them later; a
  removal in between is not seen. `AudienceIsMembers` is stated of one request at a time.
- `SECURITY.md:72` says that a mark of reading is returned only when the peer has receipts
  enabled. Choosing in Settings who sees the photo or the last seen time sends all six
  switches from a copy that starts with all of them on and ignores that its load failed
  (`http_profile_data_source.dart:103`): receipts come on for a user who had turned them
  off. The server, which Profile has, then does what it was told.
- `settings_page.dart:372` tells the user that the device is registered. The shell's own
  sign-out does not stop the coordinator, so the next user's `start` does nothing, while the
  id of the first is still stored; `StartedIsRegistered` excepts that way out by name.
- `SECURITY.md:61` and `CHAT_BACKEND_CONTRACT.md:93` take an ended call for ended. An
  answer that passed its check before the end makes the call active again
  (`social.go:386`); `SettledStays` excepts exactly that answer.

What else the properties except, because the code does it: a message that a full
subscription dropped, that was never published, that a failed load or a full page left
out (`missed`; nothing pages further back); a text whose Signal state could not be stored,
or whose copy was hydrated while the user cleared the chat (`garbled`); a deleted message
of which a copy was on its way, which does come back; a one-time key handed out, published
again before its first message came, and used up by it (`GivenBefore`); a field that an
edit of another field set back, because the row had changed since it was read (`met`); a
photo whose edits overlapped or were cut short (`disturbed`); a user found by a search that
could not ask its switch (`failed`); the text of an alert whose sender could not read the
privacy of the member (`http/chat.go:161` takes the error for "no settings"); an attachment
whose insert was committed and reported an error, as when the request's context ends while
it runs: `extras.go:101` deletes the blob of a row that is there (`late`).

## The proofs

TLAPS checks these for every value of the constants, from the assumptions named in the
modules: finite sets of users or tasks, absent values outside their sets, positive limits.

*Membership.* `TypeCorrect`. `SealedForever`, `OrphanForever` and `OwnerStays` are action
properties, each from two lemmas: a request that is not past its check writes nothing that matters,
and no request gets past a check while the state refuses it; `MayStillAdmit` and the
second conjunct of `Orphaned` account for requests let through earlier, `AgainstOwner` for
those that will take an owner's role. `DirectStaysPair`
needs the inductive invariant `DirectInv`: that a direct chat has at most two members
does not follow from itself, since an admin, a link or a request past its check could add
a third; that it is sealed from its creation and has no admin does.

Three theorems are about requests that are served one at a time. `OneAtATime` is their
hypothesis: there is one slot for requests and none is cut short, which is what
`membership_serial` runs; overlap and a transfer that stops half way do break these
properties, as the section above says. The operations
stay several store calls all the same, so each proof has to show that what a request
established in one call still stands at the next. That is `Standing`, and with `OwnerInv`
(at most one owner, or the two of a transfer between its writes) it is the inductive
invariant `SerialInv`. `OneOwnerServed` and `AudienceServed` follow from it, the former with
a lemma on the steps that can take a room's last owner (`OwnerLost`). `ContractServed` is the refinement of RoomContract: one lemma for each write names the
contract's step that it is (`AddNextAdds` to `DeleteDropsGrant`), reading and publishing
are no step of the room (`ReadsKeepRoom`), and the call stays the one that was asked
(`StepEnds`); the guards the contract asks for, above all the roles of the moment of the
write and the limit of members, come from `Standing`.

*Sessions.* The inductive invariant `SessionInv` relates rows and requests: a row that is
there has a live account, an authenticated request acts for the owner of the session it
presents, the sessions a request has left to revoke are that user's, and those
RevokeOthers has passed are over. `AccountsOutliveSessions`, `RevokeOthersRevokes` and
`OwnUserEndsSession` follow from it; none is inductive alone, since the write names only
a session id and what was checked about that id lies in the request. `OverForever` follows
from what every step keeps of a session that is over, its generation included (`Kept`). `LimitExceededByOverlap` counts the attempts between
the test of the lock and the note of the failure (`LimitInv`): each may still add one.

*Device.* `SignedOutForGood` needs to know of every task about to write that it is a login
or a refresh (`WritesInv`). `PairServes` is for any number of tasks and with the app
killed anywhere: its invariant `SerialInv` says, while `alone` holds, at which step of the
one task the stored pair is whole (`Settled`), which pair is on its way into storage
(`Brought`), and which operations can be in a refresh (`Staged`).

*Calls.* `OverStaysOver`: no statement takes a call from over to active but an answer that
was let through, and none is let through while the call is over. `PagesImplementCalls`:
every step of a screen is a step of Calls or leaves its variables alone; hence
`PagesOverStaysOver`. `PagesTypeCorrect` is their type invariant.

*Posting.* `DeletionHolds` rests on the conditions of the writes. `SendersFiles` needs
`FileInv`: a file id is held by one upload, and the file a send has looked up is its
sender's or has lost its row, in which case the insert refuses. `BlobsAreKept` needs
`StoredInv`: an upload that has stored its blob and not yet its row still has the blob, and
a blob is cleaned up only where there is no row, or one whose insert reported an error.
`BarredAreSilent` takes the checks in their order: who is past a later
one is past the earlier. `TypeCorrect`.

*Keys.* `PairHasOneChat` has in its invariant what the insert and the second read of each
request know. `KeysAreHandedOnce`: a row that was given is gone for good, since rows carry
their publication. `BlockShutsOut` and `RevocationHolds` are of the kind of
`SealedForever`. *FirstContact.* `ContactImplementsKeys` carries these theorems over to
the system with the applications. `KeysOpen` is proved by `OpenInv`, with what the handed
out keys (`HandInv`) and the applications (`ContactInv`) keep: a key is stored before it
is published, and leaves the storage only by the message that was written with it.

*Push.* `LimitHoldsButForOverlap` counts registrations past the check. `QuietHolds`
and `WithdrawalHolds` are about the alerts that had read before. `TypeCorrect` includes that no alert carries the text of an encrypted message.
*PushCoordinator.* `PhoneTypeCorrect`. `PhoneRegistered` rests on `StartInv`, which says
how far an undisturbed start has got at each of its awaits and that a stop runs with nobody
in; `PhoneSubscribesOnce` on `SubscriptionInv`: the one subscription that counts is the one
that is held, and a start has none yet. Both need `OneTask`, that overlap is always noted.

*Profile.* `TypeCorrect` includes that a row belongs to an account. `EditsKeepToNames` needs
`EditInv`: what an edit has read is what its row still has, unless another write of it was
noted (`met`). `PhotosAreWhole` needs `PhotoInv`: a photo that is undisturbed is edited by
one request, which is at a known step of its sequence, and the object is whole before its
key is set. `SwitchesHide` is of the kind of `SealedForever`.

*MessageCache.* The lemmas follow each copy of a message (`TurnEffect` to
`TakeCreatedEffect`), each event of the channel (`AppendEffect`, `TailEffect`) and each row,
and say where it may have come from (`NewCopies`, `EventsFrom`, `ListedFrom`). With them
`CacheInv` is inductive: nothing knows of a message before it is written, a creation is told
of once, so that an event being hydrated is never overwritten by a second, only a load that
has its answer holds a page, and what is adopted had been listed. `CacheTypeCorrect` and
`DeletedStaysGone` follow. `NothingIsMissed` needs `MissedInv`, which is `NothingMissed`
without its hypothesis that the conversation is known: what a load will bring has to be said
before the conversation is, since the load is what makes it known. `NoTextIsLost` needs
`TextInv`: a key that was used has an opened copy until the text is remembered, and while a
copy of a message that was read is being decrypted, or is a placeholder, the text is at hand
(`TextAtHand`).

The type invariants of most modules are proved and not among the runs; those of Profile,
PushCoordinator and MessageCache are both.

Model-checked only: `SocketCloses` and `EndIsHeard`, which as liveness properties are out of
TLAPS's reach. Every other property of the runs is a theorem, for every value of the
constants; only the three theorems about requests served one at a time have a hypothesis
beside the modules' assumptions (`OneAtATime`). No theorem is about a recursive
definition: the modules have none.

## What is not modelled

- In Membership: titles; the block list, of which the refusal it can cause is kept; who
  owns a bot; the loop over an account's bots in `deleteAccount` (one `DeleteBot` each).
  `RevokeInvite` is modelled although no route reaches it yet.
- In Sessions: passwords, whose comparison is a choice; user agents; exact expiry times. A name registered again after a deletion is
  another user.
- In Device: several accounts in turn; malformed answers.
- In CallPages: audio, ICE and the peer connection beyond the order of their awaits; a
  client that is killed or loses its socket during a call.
- In Posting: read marks, replies, and the events after a write (of
  which MessageCache has the creation and the deletion).
- In Keys and FirstContact: the ratchet after the first message; key ids that are used
  again once a device has lost its storage.
- In PushCoordinator: the webhook, the display of an alert and the tap that opens it; a
  registration whose request is still on its way when the app is killed.
- In Profile: the username, changed by one statement under a unique index; what is shown
  of a user to itself; presence, whose time is not related to anything. The object of a
  deleted account stays in the store, and no row names it.
- The pages of the app that change the privacy switches: each keeps a copy of all of them,
  loaded without looking at a failure, and sends or replaces the whole of it.
- In MessageCache: the bubbles of messages being sent and their retry, what is emitted to
  the page and when, unread counts, several conversations and a change of account within
  one process. A resync's list of conversations decides nothing about the messages.
- Whole parts, with the reason in `components` of `PROJECT.json`: read-only
  queries, widgets, routing, theme, mocks, in-memory stores, development aids, seeds,
  configuration and migrations.

## What would come next

Pending bubbles and their retry in MessageCache, for the duplicate a lost answer makes;
read marks, against the messages that arrive while a page is read; a second call in
CallPages; PushCoordinator composed with Device, for the tokens its requests carry.
