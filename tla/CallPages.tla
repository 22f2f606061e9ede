----------------------------- MODULE CallPages -----------------------------
(***************************************************************************)
(* Calls together with the two screens that make its requests: the dialog  *)
(* of ShellHomePage, which rings for an offer, and CallPage, which opens   *)
(* the microphone, offers or answers, and hangs up.                        *)
(*                                                                         *)
(* A user has one client.  Its code runs on one thread and lets others run *)
(* at every await: between opening a page and its subscription to the      *)
(* signals (permissions, ICE servers, getUserMedia), while startCall or an *)
(* answer is under way, and while a hang-up is.  Both screens listen to    *)
(* one broadcast stream, which keeps nothing for a listener that comes     *)
(* later.  The socket stays up: a client that is killed or disconnected is *)
(* left to the hub's model.                                                *)
(*                                                                         *)
(* Bounds: a user has one page at a time, and the requests of _start and   *)
(* of leaving (or declining, or the history) one at a time each.           *)
(***************************************************************************)
EXTENDS Calls

CONSTANTS
    Callers,        \* bound: the users who dial
    Erasers,        \* bound: the users who delete call history
    Removed         \* bound: the members who may be removed

ASSUME CallPagesAssumption ==
    /\ Requests = Users \X {"start", "side"}
    /\ Callers \subseteq Users /\ Erasers \subseteq Users /\ Removed \subseteq Users

VARIABLES
    ringing,        \* ShellHomePage._ringingCallId
    page            \* the user's CallPage

vars == <<call, members, req, inbox, ringing, page>>
screens == <<ringing, page>>

\* "opening": before _signals is subscribed; "calling", "answering": its first request is awaited;
\* "open": _start is over; "leaving": _hangup awaits its request, the signals still heard.
Page == [pc : {"closed", "opening", "calling", "answering", "open", "leaving"},
         outgoing : BOOLEAN,
         offer : Calls \cup {None},     \* the call_id of incomingPayload
         call : Calls \cup {None},      \* _callId
         late : BOOLEAN]                \* auxiliary: its call was over before it listened

NoPage == [pc |-> "closed", outgoing |-> FALSE, offer |-> None, call |-> None, late |-> FALSE]

\* The screens have their types, and a page knows its call from the moment it answers.
PagesTypeOK ==
    /\ TypeOK
    /\ ringing \in [Users -> Calls \cup {None}]
    /\ page \in [Users -> Page]
    /\ \A u \in Users : page[u].pc = "opening" => page[u].call = None
    /\ \A u \in Users : page[u].pc = "opening" /\ ~page[u].outgoing => page[u].offer # None

Listening(u) == page[u].pc \in {"calling", "answering", "open", "leaving"}
Turns(u, p) == page' = [page EXCEPT ![u] = p]

Free(u, slot) == req[<<u, slot>>].pc = "idle"
Send(u, slot, q) == Becomes(<<u, slot>>, q)

-----------------------------------------------------------------------------
(* What a user does                                                        *)

Dial(u) ==
    /\ u \in Callers
    /\ page[u].pc = "closed" /\ ringing[u] = None /\ Free(u, "start")
    /\ Turns(u, [NoPage EXCEPT !.pc = "opening", !.outgoing = TRUE])
    /\ UNCHANGED <<callVars, ringing>>

\* The dialog answers true; the page opens with the payload of the offer.
Accept(u) ==
    /\ ringing[u] # None
    /\ page[u].pc = "closed" /\ Free(u, "start")
    /\ Turns(u, [NoPage EXCEPT !.pc = "opening", !.offer = ringing[u]])
    /\ ringing' = [ringing EXCEPT ![u] = None]
    /\ UNCHANGED callVars

Decline(u) ==
    /\ ringing[u] # None /\ Free(u, "side")
    /\ Send(u, "side", Signalling(u, ringing[u], "reject"))
    /\ ringing' = [ringing EXCEPT ![u] = None]
    /\ UNCHANGED <<call, members, inbox, page>>

\* _start up to its first request: the microphone is open, the signals are subscribed and, with no
\* await between, the call of an offer is taken up.
Opened(u) ==
    /\ page[u].pc = "opening" /\ Free(u, "start")
    /\ IF page[u].outgoing
       THEN /\ (\E c \in Calls : call[c].state = "none")
            /\ Turns(u, [page[u] EXCEPT !.pc = "calling"])
            /\ Send(u, "start", Starting(u))
       ELSE /\ Turns(u, [page[u] EXCEPT !.pc = "answering", !.call = page[u].offer,
                                           !.late = call[page[u].offer].state \in Over])
            /\ Send(u, "start", Signalling(u, page[u].offer, "answer"))
    /\ UNCHANGED <<call, members, inbox, ringing>>

\* _release: a call whose id is known is hung up, by the button (the page waits for the answer) or
\* by leaving the page.  Otherwise nothing is sent.
Leave(u) ==
    /\ page[u].pc \in {"opening", "calling", "answering", "open"}
    /\ IF page[u].call # None
       THEN /\ Free(u, "side")
            /\ Send(u, "side", Signalling(u, page[u].call, "hangup"))
            /\ \/ Turns(u, [page[u] EXCEPT !.pc = "leaving", !.call = None])
               \/ Turns(u, NoPage)
       ELSE Turns(u, NoPage) /\ UNCHANGED req
    /\ UNCHANGED <<call, members, inbox, ringing>>

\* The call history page.
DeleteHistory(u) ==
    /\ u \in Erasers /\ Free(u, "side")
    /\ \/ Send(u, "side", Clearing(u))
       \/ \E c \in Calls : Own(u, c) /\ Send(u, "side", Deleting(u, c))
    /\ UNCHANGED <<call, members, inbox, screens>>

-----------------------------------------------------------------------------
(* What its client hears                                                   *)

\* The answer of a request.  startCall's gives the page its call unless it is gone; an answer's
\* outcome is not looked at; a hang-up's closes the page that waits for it.
Returned(u, slot) ==
    LET r == <<u, slot>> IN
    /\ Return(r)
    /\ IF slot = "start" /\ page[u].pc \in {"calling", "answering"}
       THEN Turns(u, [page[u] EXCEPT !.pc = "open",
                        !.call = IF req[r].op = "start" /\ req[r].ok THEN req[r].call ELSE @])
       ELSE IF slot = "side" /\ page[u].pc = "leaving"
       THEN Turns(u, NoPage)
       ELSE UNCHANGED page
    /\ UNCHANGED ringing

\* The signals that end a call.
Ends == {"reject", "hangup", "missed"}

\* Slip: a page that waits for its first request leaves the end of a call unheard.
EndsOpenPage(u, e) == e.action \in Ends /\ page[u].pc = "open" /\ page[u].call = e.call

\* _onSignal: the end of its call closes the page, and so does the end of any call while it has no id.
EndsPage(u, e) ==
    /\ e.action \in Ends
    /\ Listening(u)
    /\ page[u].call \in {None, e.call}

\* The shell's listener: an offer rings unless it is the user's own; the end of the ringing call
\* closes its dialog.
RingsAfter(u, e) ==
    IF e.action = "offer" /\ call[e.call].caller # u THEN e.call
    ELSE IF e.action \in Ends /\ ringing[u] = e.call THEN None
    ELSE ringing[u]

Hear(u) ==
    /\ Take(u)
    /\ LET e == Head(inbox[u]) IN
       /\ ringing' = [ringing EXCEPT ![u] = RingsAfter(u, e)]
       /\ IF EndsPage(u, e) THEN Turns(u, NoPage) ELSE UNCHANGED page

-----------------------------------------------------------------------------

\* RemoveMember, by a request of the membership component.
Kick(u) ==
    /\ u \in Removed
    /\ members' = members \ {u}
    /\ UNCHANGED <<call, req, inbox, screens>>

PagesInit ==
    /\ CallsInit
    /\ ringing = [u \in Users |-> None]
    /\ page = [u \in Users |-> NoPage]

PagesNext ==
    \/ \E u \in Users :
          \/ Dial(u) \/ Accept(u) \/ Decline(u) \/ Opened(u) \/ Leave(u) \/ DeleteHistory(u)
          \/ Hear(u) \/ Kick(u)
          \/ \E slot \in {"start", "side"} : Returned(u, slot)
    \/ \E r \in Requests : Serve(r) /\ UNCHANGED screens

PagesSpec == PagesInit /\ [][PagesNext]_vars

\* The server finishes the requests it has begun and the client's event loop handles what has
\* arrived; what a user does, and when the microphone is there, nothing guarantees.
Fairness ==
    /\ \A r \in Requests : WF_vars(Serve(r) /\ UNCHANGED screens)
    /\ \A u \in Users : WF_vars(Hear(u)) /\ \A slot \in {"start", "side"} : WF_vars(Returned(u, slot))

FairPagesSpec == PagesSpec /\ Fairness

-----------------------------------------------------------------------------

\* The user's dialog rings for the call, or a page that listened before its end is about it.
Attends(u, c) == ringing[u] = c \/ (Listening(u) /\ page[u].call = c /\ ~page[u].late)
IsOver(c) == call[c].state \in Over

\* Whoever rings for a call or is in it hears of its end, whatever the order of the requests: the
\* dialog and the page go away, unless the user is no member any more or the call is not over (an
\* answer that overlapped the end, call history deleted).  The broadcast stream keeps nothing for
\* a page that subscribes after the end (call_page.dart:229): such a page is not promised this.
EndIsHeard ==
    \A u \in Users, c \in Calls :
        Attends(u, c) /\ IsOver(c) ~> ~Attends(u, c) \/ u \notin members \/ ~IsOver(c)

=============================================================================
