---------------------------- MODULE MessageCache ----------------------------
(***************************************************************************)
(* The messages of one direct chat as one running app keeps them:          *)
(* HttpChatDataSource._messages, filled by the answers of GET messages and *)
(* by the events of the socket, against the rows of the server.            *)
(*                                                                         *)
(* The server writes a message, then publishes it to the subscriptions it  *)
(* finds; a full subscription drops the event.  The app loads the          *)
(* conversation when it is opened, and again when the socket connects:     *)
(* once when the upgrade has succeeded and once when the server, having    *)
(* subscribed, says so.  Dart runs one handler at a time, up to its next   *)
(* await.  A message of the peer can be decrypted once; its plaintext is   *)
(* kept in memory.                                                         *)
(*                                                                         *)
(* Left out: the bubbles of messages that are being sent, what of the list *)
(* is emitted to the page, unread counts and receipts, other conversations *)
(* and another account in the same process.  message.updated starts the    *)
(* load that opening the conversation starts.                              *)
(***************************************************************************)
EXTENDS Integers, Sequences, FiniteSets

CONSTANTS
    MaxMessages,    \* bound: messages, numbered in the order of created_at
    PageSize,       \* DefaultPageSize
    Slots,          \* capacity of a subscription's channel
    Loads,          \* bound: loads under way at one time
    Encrypted,      \* the messages sent with e2e
    Own,            \* bound: the messages the user may be the sender of
    Deletable       \* bound: the messages that may be deleted

ASSUME CacheAssumption ==
    /\ MaxMessages \in Nat /\ PageSize \in Nat \ {0} /\ Slots \in Nat
    /\ IsFiniteSet(Loads) /\ Encrypted \subseteq 1..MaxMessages /\ Own \cup Deletable \subseteq 1..MaxMessages

Messages == 1..MaxMessages

VARIABLES
    log,            \* messages rows
    mine,           \* those with the user's sender_id
    due,            \* the user's, whose POST this app waits for
    telling,        \* written and not yet published
    link,           \* the socket: "down", "open" once upgraded, "up" while subscribed
    wire,           \* from the subscription's channel to the app's event loop
    known,          \* is the conversation a key of _messages
    items,          \* _messages: each message's body
    arriving,       \* message.created events being hydrated
    load,           \* _loadMessages and _resyncAfterReconnect under way
    adopting,       \* the message _adoptSessionFromPeerMessages is decrypting
    opened,         \* messages whose key the Signal session has used
    plain,          \* _e2ePlaintext
    missed,         \* auxiliary: messages the app was not told of, or lost, and has not loaded since
    garbled         \* auxiliary: messages whose plaintext was lost, or raced a clearConversation

rows == <<log, mine, telling>>
socket == <<link, wire>>
cipher == <<opened, plain>>
notes == <<missed, garbled>>
cacheVars == <<log, mine, due, telling, link, wire, known, items, arriving, load, adopting,
          opened, plain, missed, garbled>>

Event == [type : {"created", "deleted"}, msg : Messages]
Connected == [type |-> "connected", msg |-> 0]
Created(m) == [type |-> "created", msg |-> m]
Deleted(m) == [type |-> "deleted", msg |-> m]

\* A copy of a message on its way into the list: "raw" as received; "opening" while its decryption
\* is awaited, "opened" once the key is used; then with or without its text.
Copy == {"none", "raw", "opening", "opened", "readable", "placeholder"}
Load == [pc : {"idle", "chats", "asked", "hydrating"}, page : [Messages -> Copy]]
Nothing == [m \in Messages |-> "none"]
NoLoad == [pc |-> "idle", page |-> Nothing]
NoAdoption == [msg |-> 0, copy |-> "none"]

Standing == {m \in Messages : log[m] = "standing"}
Listed == {m \in Messages : items[m] # "none"}

\* Every variable has its type; a conversation with messages is a key, and only an encrypted message
\* of the peer is decrypted.
CacheTypeOK ==
    /\ log \in [Messages -> {"unsent", "standing", "deleted"}]
    /\ mine \subseteq Messages /\ due \subseteq mine
    /\ telling \subseteq Event
    /\ link \in {"down", "open", "up"}
    /\ wire \in Seq(Event \cup {Connected})
    /\ known \in BOOLEAN
    /\ items \in [Messages -> {"none", "readable", "placeholder"}]
    /\ arriving \in [Messages -> Copy]
    /\ load \in [Loads -> Load]
    /\ adopting \in [msg : Messages \cup {0}, copy : Copy]
    /\ opened \cup plain \subseteq Messages /\ missed \cup garbled \subseteq Messages
    /\ Listed # {} => known
    /\ opened \cap mine = {} /\ opened \subseteq Encrypted

-----------------------------------------------------------------------------
(* The server                                                              *)

\* sendMessage of the peer, of another device of the user, or of this app, which waits for an answer.
\* created_at is taken before the row is written: two requests may write in the other order.
InsertMessage(m) ==
    /\ log[m] = "unsent"
    /\ log' = [log EXCEPT ![m] = "standing"]
    /\ telling' = telling \cup {Created(m)}
    /\ \/ UNCHANGED <<mine, due>>
       \/ m \in Own /\ mine' = mine \cup {m} /\ due' \in {due, due \cup {m}}
    /\ UNCHANGED <<socket, known, items, arriving, load, adopting, cipher, notes>>

\* DeleteMessage, by the sender.
SoftDeleteMessage(m) ==
    /\ log[m] = "standing" /\ m \in Deletable
    /\ log' = [log EXCEPT ![m] = "deleted"]
    /\ telling' = telling \cup {Deleted(m)}
    /\ UNCHANGED <<mine, due, socket, known, items, arriving, load, adopting, cipher, notes>>

\* Hub.Publish: concurrent requests publish in any order.
Publish(e) ==
    /\ e \in telling
    /\ telling' = telling \ {e}
    /\ \/ /\ link = "up"
          /\ wire' = Append(wire, e)
          /\ UNCHANGED missed
       \/ /\ link # "up"
          /\ UNCHANGED <<wire, missed>>
       \/ /\ link = "up" /\ Len(SelectSeq(wire, LAMBDA x : x # Connected)) >= Slots
          /\ missed' = missed \cup (IF e.type = "created" THEN {e.msg} ELSE {})
          /\ UNCHANGED wire
    /\ UNCHANGED <<log, mine, due, link, known, items, arriving, load, adopting, cipher, garbled>>

\* publishMembersExcept gives up when MemberIDs fails: the sender has gone, or the store.
KeepSilent(e) ==
    /\ e \in telling
    /\ telling' = telling \ {e}
    /\ missed' = missed \cup (IF e.type = "created" THEN {e.msg} ELSE {})
    /\ UNCHANGED <<log, mine, due, socket, known, items, arriving, load, adopting, cipher, garbled>>

\* Slip: the server does not say that it has subscribed.
SubscribeSilently ==
    /\ link = "open"
    /\ link' = "up"
    /\ UNCHANGED <<rows, due, wire, known, items, arriving, load, adopting, cipher, notes>>

\* Hub.Subscribe, and the first frame.
Subscribe ==
    /\ link = "open"
    /\ link' = "up"
    /\ wire' = <<Connected>>
    /\ UNCHANGED <<rows, due, known, items, arriving, load, adopting, cipher, notes>>

-----------------------------------------------------------------------------
(* Loading                                                                 *)

BeginLoad(l, step) ==
    /\ load[l].pc = "idle"
    /\ load' = [load EXCEPT ![l] = [NoLoad EXCEPT !.pc = step]]

\* watchMessages, and message.updated
OpenChat(l) ==
    /\ BeginLoad(l, "asked")
    /\ UNCHANGED <<rows, due, socket, known, items, arriving, adopting, cipher, notes>>

\* What is lost with a load that does not come: nothing loads it again.
Unlisted == Standing \ Listed

\* _resyncAfterReconnect, the list of conversations having come: the conversations then known.
Resync(l) ==
    /\ load[l].pc = "chats"
    /\ load' = [load EXCEPT ![l] = IF known THEN [NoLoad EXCEPT !.pc = "asked"] ELSE NoLoad]
    /\ missed' = IF known THEN missed ELSE missed \cup Unlisted
    /\ UNCHANGED <<rows, due, socket, known, items, arriving, adopting, cipher, garbled>>

LoadFails(l) ==
    /\ load[l].pc \in {"chats", "asked"}
    /\ load' = [load EXCEPT ![l] = NoLoad]
    /\ missed' = missed \cup Unlisted
    /\ UNCHANGED <<rows, due, socket, known, items, arriving, adopting, cipher, garbled>>

\* Slip: deleted messages are listed too.
NewestOfAll ==
    LET written == {m \in Messages : log[m] # "unsent"} IN
    {m \in written : Cardinality({k \in written : k > m}) < PageSize}
\* WHERE deleted_at IS NULL ORDER BY created_at DESC LIMIT PageSize
Newest == {m \in Standing : Cardinality({k \in Standing : k > m}) < PageSize}

ListMessages(l) ==
    /\ load[l].pc = "asked"
    /\ load' = [load EXCEPT ![l] =
                  [pc |-> "hydrating", page |-> [m \in Messages |-> IF m \in Newest THEN "raw" ELSE "none"]]]
    /\ missed' = missed \cup (Unlisted \ Newest)
    /\ UNCHANGED <<rows, due, socket, known, items, arriving, adopting, cipher, garbled>>

-----------------------------------------------------------------------------
(* Hydrating                                                               *)

\* Slip: one's own messages are tried as well.
LookAnyway(m) ==
    IF m \notin Encrypted \/ m \in plain \/ items[m] = "readable" THEN "readable" ELSE "opening"

\* _hydrateMessage up to its first await.
Look(m) ==
    IF m \notin Encrypted \/ m \in plain \/ items[m] = "readable" THEN "readable"
    ELSE IF m \in mine THEN "placeholder"
    ELSE "opening"

\* The text in the list is remembered with it.
Recalled(m) == plain \cup (IF items[m] = "readable" THEN {m} \cap Encrypted ELSE {})

\* The last resort of _hydrateMessage: the text may have come into the list meanwhile.
Fallback(m) == IF items[m] = "readable" THEN "readable" ELSE "placeholder"

\* The copies that are being decrypted: in which state, for which message.
Decrypting(copy, m) ==
    \/ arriving[m] = copy
    \/ \E l \in Loads : load[l].page[m] = copy
    \/ adopting = [msg |-> m, copy |-> copy]

\* One copy of m goes on.
Turn(m, from, to) ==
    \/ /\ arriving[m] = from
       /\ arriving' = [arriving EXCEPT ![m] = to]
       /\ UNCHANGED <<load, adopting>>
    \/ /\ \E l \in Loads :
             /\ load[l].page[m] = from
             /\ load' = [load EXCEPT ![l].page[m] = to]
       /\ UNCHANGED <<arriving, adopting>>
    \/ /\ adopting = [msg |-> m, copy |-> from]
       /\ adopting' = [adopting EXCEPT !.copy = to]
       /\ UNCHANGED <<arriving, load>>

\* SessionCipher.decrypt uses the message's key; two that overlap may both get it.
Decrypt(m) ==
    /\ m \notin opened \/ Decrypting("opened", m)
    /\ Turn(m, "opening", "opened")
    /\ opened' = opened \cup {m}
    /\ UNCHANGED <<rows, due, socket, known, items, plain, notes>>

\* It throws: there is no session, or the key has been used.
DecryptFails(m) ==
    /\ Turn(m, "opening", Fallback(m))
    /\ UNCHANGED <<rows, due, socket, known, items, cipher, notes>>

\* _persistState, then _rememberPlaintext
Remember(m) ==
    /\ Turn(m, "opened", "readable")
    /\ plain' = plain \cup {m}
    /\ UNCHANGED <<rows, due, socket, known, items, opened, notes>>

\* _persistState throws when the key is used already: the text is lost.
PersistFails(m) ==
    /\ Turn(m, "opened", Fallback(m))
    /\ garbled' = garbled \cup {m}
    /\ UNCHANGED <<rows, due, socket, known, items, cipher, missed>>

\* The loop over a page hydrates one message after the other.
HydrateNext(l, m) ==
    /\ load[l].page[m] = "raw"
    /\ \A k \in 1..(m - 1) : load[l].page[k] \in {"none", "readable", "placeholder"}
    /\ load' = [load EXCEPT ![l].page[m] = Look(m)]
    /\ plain' = Recalled(m)
    /\ UNCHANGED <<rows, due, socket, known, items, arriving, adopting, opened, notes>>

-----------------------------------------------------------------------------
(* The list                                                                *)

\* mergeMessagesById: nothing is removed, and no text gives way to a placeholder.
Merged(page) ==
    [m \in Messages |-> IF page[m] = "none" \/ (page[m] = "placeholder" /\ items[m] = "readable")
                        THEN items[m] ELSE page[m]]

Merge(l) ==
    /\ load[l].pc = "hydrating"
    /\ \A m \in Messages : load[l].page[m] \in {"none", "readable", "placeholder"}
    /\ items' = Merged(load[l].page)
    /\ known' = TRUE
    /\ load' = [load EXCEPT ![l] = NoLoad]
    /\ missed' = {m \in missed : load[l].page[m] = "none"}
    /\ UNCHANGED <<rows, due, socket, arriving, adopting, cipher, garbled>>

\* Slip: what is in the list is replaced.
Replaced(m, copy) == [items EXCEPT ![m] = copy]
\* _upsertMessage
Upserted(m, copy) == [items EXCEPT ![m] = IF @ = "readable" THEN @ ELSE copy]

Upsert(m) ==
    /\ arriving[m] \in {"readable", "placeholder"}
    /\ items' = Upserted(m, arriving[m])
    /\ known' = TRUE
    /\ arriving' = [arriving EXCEPT ![m] = "none"]
    /\ UNCHANGED <<rows, due, socket, load, adopting, cipher, notes>>

\* message.deleted, and the answer to the app's own DELETE.
Remove(m) == items' = [items EXCEPT ![m] = "none"]

DeleteAnswered(m) ==
    /\ log[m] = "deleted" /\ Deleted(m) \notin telling
    /\ m \in mine \cap Listed
    /\ Remove(m)
    /\ UNCHANGED <<rows, due, socket, known, arriving, load, adopting, cipher, notes>>

\* The answer to a POST, which the server gives after publishing, and the text that was sent.
Answered(m) ==
    /\ m \in due /\ Created(m) \notin telling
    /\ due' = due \ {m}
    /\ plain' = plain \cup ({m} \cap Encrypted)
    /\ items' = Upserted(m, "readable")
    /\ known' = TRUE
    /\ UNCHANGED <<rows, socket, arriving, load, adopting, opened, notes>>

AnswerLost(m) ==
    /\ m \in due
    /\ due' = due \ {m}
    /\ UNCHANGED <<rows, socket, known, items, arriving, load, adopting, cipher, notes>>

\* Before a message is sent, the peer's that could not be read are tried again: an iteration of
\* _adoptSessionFromPeerMessages, which leaves off at the first message that was read.
Adopt(m) ==
    /\ adopting = NoAdoption
    /\ items[m] = "placeholder" /\ m \notin mine \cup plain
    /\ adopting' = [msg |-> m, copy |-> "opening"]
    /\ UNCHANGED <<rows, due, socket, known, items, arriving, load, cipher, notes>>

\* _replaceMessage puts a message that was read into the list, whether it is still there or not.
Adopted ==
    /\ adopting.copy \in {"readable", "placeholder"}
    /\ items' = IF adopting.copy = "readable" THEN [items EXCEPT ![adopting.msg] = "readable"] ELSE items
    /\ adopting' = NoAdoption
    /\ UNCHANGED <<rows, due, socket, known, arriving, load, cipher, notes>>

\* clearConversation, on this device only.
Clear ==
    /\ items' = Nothing
    /\ known' = TRUE
    /\ missed' = missed \cup Listed
    /\ garbled' = garbled \cup {m \in Messages : \E copy \in {"opening", "placeholder"} : Decrypting(copy, m)}
    /\ UNCHANGED <<rows, due, socket, arriving, load, adopting, cipher>>

-----------------------------------------------------------------------------
(* The socket                                                              *)

\* WebSocket.connect: the server has upgraded, and the app tells itself realtime.connected.
Connect(l) ==
    /\ link = "down"
    /\ link' = "open"
    /\ BeginLoad(l, "chats")
    /\ UNCHANGED <<rows, due, wire, known, items, arriving, adopting, cipher, notes>>

\* The connection ends, and what it has not brought is lost; another one is tried after a delay.
Break ==
    /\ link # "down"
    /\ link' = "down" /\ wire' = <<>>
    /\ UNCHANGED <<rows, due, known, items, arriving, load, adopting, cipher, notes>>

NextIs(type) == wire # <<>> /\ Head(wire).type = type

TakeConnected(l) ==
    /\ NextIs("connected")
    /\ wire' = Tail(wire)
    /\ BeginLoad(l, "chats")
    /\ UNCHANGED <<rows, due, link, known, items, arriving, adopting, cipher, notes>>

TakeCreated ==
    /\ NextIs("created")
    /\ wire' = Tail(wire)
    /\ LET m == Head(wire).msg IN
       /\ arriving' = [arriving EXCEPT ![m] = Look(m)]
       /\ plain' = Recalled(m)
    /\ UNCHANGED <<rows, due, link, known, items, load, adopting, opened, notes>>

TakeDeleted ==
    /\ NextIs("deleted")
    /\ wire' = Tail(wire)
    /\ Remove(Head(wire).msg)
    /\ UNCHANGED <<rows, due, link, known, arriving, load, adopting, cipher, notes>>

-----------------------------------------------------------------------------

Init ==
    /\ log = [m \in Messages |-> "unsent"]
    /\ mine = {} /\ due = {} /\ telling = {}
    /\ link = "down" /\ wire = <<>>
    /\ known = FALSE /\ items = Nothing /\ arriving = Nothing
    /\ load = [l \in Loads |-> NoLoad]
    /\ adopting = NoAdoption
    /\ opened = {} /\ plain = {} /\ missed = {} /\ garbled = {}

Next ==
    \/ \E m \in Messages :
          \/ InsertMessage(m) \/ SoftDeleteMessage(m)
          \/ Decrypt(m) \/ DecryptFails(m) \/ Remember(m) \/ PersistFails(m)
          \/ Upsert(m) \/ DeleteAnswered(m) \/ Answered(m) \/ AnswerLost(m) \/ Adopt(m)
    \/ \E e \in telling : Publish(e) \/ KeepSilent(e)
    \/ \E l \in Loads :
          \/ OpenChat(l) \/ Resync(l) \/ LoadFails(l) \/ ListMessages(l) \/ Merge(l)
          \/ Connect(l) \/ TakeConnected(l)
          \/ \E m \in Messages : HydrateNext(l, m)
    \/ Subscribe \/ Break \/ TakeCreated \/ TakeDeleted
    \/ Adopted \/ Clear

Spec == Init /\ [][Next]_cacheVars

-----------------------------------------------------------------------------
(* Properties                                                              *)

InWire(e) == \E i \in DOMAIN wire : wire[i] = e

\* A copy of m is in the app, on its way into the list.
HasCopy(m) == \E copy \in Copy \ {"none"} : Decrypting(copy, m)

\* While the server has the app subscribed, a message that stands is in the list of a known
\* conversation, or on its way there: an event, a load or the resync a connection begins with.
\* Nothing falls between a load and the subscription.  Excepted are the messages of "missed": an event
\* that was dropped or never published, a load that failed or found a full page, a resync that came
\* before the conversation's first load.
NothingMissed ==
    link = "up" /\ known =>
        \A m \in Standing \ missed :
            \/ m \in Listed
            \/ HasCopy(m) \/ Created(m) \in telling \/ InWire(Created(m))
            \/ InWire(Connected) \/ \E l \in Loads : load[l].pc \in {"chats", "asked"}

\* Deleted, not listed, and nothing on its way brings it.
Gone(m) ==
    /\ log[m] = "deleted" /\ m \notin Listed \cup due
    /\ ~HasCopy(m) /\ Created(m) \notin telling /\ ~InWire(Created(m))

\* A deleted message that has left the app never comes back, whatever is loaded or reconnected.
GoneStaysGone == [][\A m \in Messages : Gone(m) => Gone(m)']_cacheVars

\* A message can be decrypted once.  Whichever of the overlapping hydrations of an event, a load and a
\* retry has done it, the list shows the text and not the placeholder, or the text is on its way.
TextIsNotLost ==
    \A m \in (Standing \cap (opened \cup plain)) \ garbled :
        items[m] = "placeholder" => Decrypting("opened", m) \/ Decrypting("readable", m)

=============================================================================
