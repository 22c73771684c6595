---------------------------- MODULE ReceiveSession -----------------------------
(***************************************************************************)
(* One tether_receive_session_t (src/src/receive-session.c): its state, as *)
(* three threads set it.  The creator runs session_create_locked; the      *)
(* WebSocket's callback thread runs signaling_event; the peer connection's *)
(* callback thread runs wrtc_state_cb and wrtc_local_sdp.  None of them    *)
(* holds a lock while it reads or sets the state, so what a thread does in *)
(* one go is a sequence of calls, each an action.                          *)
(***************************************************************************)
EXTENDS Integers, Sequences

CONSTANTS
    MaxAccepts,     \* bound: how often the sender accepts the receiver
    MaxLosses       \* bound: how often the peer connection is lost

ASSUME SessionAssumption == MaxAccepts \in Nat /\ MaxLosses \in Nat

VARIABLES
    state,          \* s->state
    todo,           \* todo[t]: the calls thread t has still to make
    socket,         \* the WebSocket
    assigned,       \* sig->ws is set
    inbox,          \* messages from the server not yet handled
    outbox,         \* messages to the server not yet handled there
    room,           \* where the receiver stands at the server
    accepts,        \* acceptances by the sender so far
    offersDue,      \* offers the sender has still to send
    link,           \* s->wrtc
    applied,        \* history: offers applied to s->wrtc
    losses,         \* history: number of times link was lost
    overwritten     \* history: the creator stored over another thread's state

netVars == <<socket, assigned, inbox, outbox>>
farVars == <<room, accepts, offersDue>>
linkVars == <<link, applied, losses>>
receiveVars == <<state, todo, netVars, farVars, linkVars, overwritten>>

Threads == {"creator", "ws", "rtc"}

States == {"connecting", "awaiting_accept", "accepted", "negotiating",
           "connected", "failed", "closed"}

Refusals == {"token_invalid", "token_locked_out"}

Calls == [call : {"set", "store"}, to : States] \cup [call : {"connect", "assign", "apply"}]

\* new: without a description; unapplied: without one after an offer that could
\* not be applied; unanswered: the answer could not be made.
Links == {"new", "unapplied", "offered", "unanswered", "answered", "connecting",
          "connected", "failed", "closed"}

SessionTypeOK ==
    /\ state \in States
    /\ todo \in [Threads -> Seq(Calls)]
    /\ socket \in {"none", "connecting", "open", "closed"}
    /\ assigned \in BOOLEAN
    /\ inbox \in Seq({"accepted", "offer", "rejected"} \cup Refusals)
    /\ outbox \in Seq({"hello", "answer"})
    /\ room \in {"out", "waiting", "admitted", "refused", "gone"}
    /\ accepts \in 0 .. MaxAccepts
    /\ offersDue \in Nat
    /\ link \in Links
    /\ applied \in Nat
    /\ losses \in 0 .. MaxLosses
    /\ overwritten \in BOOLEAN

Set(st) == [call |-> "set", to |-> st]
Store(st) == [call |-> "store", to |-> st]
Do(c) == [call |-> c]

\* session_create_locked; the result of tether_signaling_connect is not
\* looked at.
SessionInit ==
    /\ state = "connecting"
    /\ todo = [t \in Threads |->
                 IF t = "creator"
                 THEN <<Do("connect"), Do("assign"), Set("awaiting_accept")>> ELSE <<>>]
    /\ socket = "none"
    /\ assigned = FALSE
    /\ inbox = <<>>
    /\ outbox = <<>>
    /\ room = "out"
    /\ accepts = 0
    /\ offersDue = 0
    /\ link = "new"
    /\ applied = 0
    /\ losses = 0
    /\ overwritten = FALSE

-----------------------------------------------------------------------------
(* Calls.                                                                  *)

Idle(t) == todo[t] = <<>>
Calling(t, c) == ~Idle(t) /\ Head(todo[t]).call = c
Proceed(t) == todo' = [todo EXCEPT ![t] = Tail(@)]
Start(t, calls) == Idle(t) /\ todo' = [todo EXCEPT ![t] = calls]

\* send_raw does nothing without a socket.
Send(m) == outbox' = IF assigned /\ socket = "open" THEN Append(outbox, m) ELSE outbox

\* set_state: the load and the comparison, then, in a step of its own, the
\* store.
CallSet(t) ==
    /\ Calling(t, "set")
    /\ LET new == Head(todo[t]).to IN
        todo' = [todo EXCEPT ![t] =
                   (IF state = new THEN <<>> ELSE <<Store(new)>>) \o Tail(@)]
    /\ UNCHANGED <<state, netVars, farVars, linkVars, overwritten>>

CallStore(t) ==
    /\ Calling(t, "store")
    /\ state' = Head(todo[t]).to
    /\ overwritten' = (overwritten \/ (t = "creator" /\ state # "connecting"))
    /\ Proceed(t)
    /\ UNCHANGED <<netVars, farVars, linkVars>>

\* tether_signaling_connect: the WebSocket is created, its callbacks are set,
\* and only then sig->ws.
CallConnect ==
    /\ Calling("creator", "connect")
    /\ socket' \in {"connecting", "closed"}
    /\ Proceed("creator")
    /\ UNCHANGED <<state, assigned, inbox, outbox, farVars, linkVars, overwritten>>

CallAssign ==
    /\ Calling("creator", "assign")
    /\ assigned' = TRUE
    /\ Proceed("creator")
    /\ UNCHANGED <<state, socket, inbox, outbox, farVars, linkVars, overwritten>>

\* The connection has no description, and goes to l once it gets one.  What a
\* further description does to a connection that has one is undefined; here
\* nothing.
Described(l) ==
    /\ applied' = applied + 1
    /\ link' = IF link \in {"new", "unapplied"} THEN l ELSE link

\* tether_webrtc_apply_remote_sdp.
CallApply ==
    /\ Calling("ws", "apply")
    /\ Described("offered")
    /\ Proceed("ws")
    /\ UNCHANGED <<state, netVars, farVars, losses, overwritten>>

\* rtcSetRemoteDescription takes the offer, and rtcSetLocalDescription fails:
\* there is no answer, and signaling_event does not look at the result.
CallApplyUnanswered ==
    /\ Calling("ws", "apply")
    /\ Described("unanswered")
    /\ Proceed("ws")
    /\ UNCHANGED <<state, netVars, farVars, losses, overwritten>>

\* The message has no sdp, or rtcSetRemoteDescription fails.
CallApplyFails ==
    /\ Calling("ws", "apply")
    /\ link' = IF link = "new" THEN "unapplied" ELSE link
    /\ Proceed("ws")
    /\ UNCHANGED <<state, netVars, farVars, applied, losses, overwritten>>

-----------------------------------------------------------------------------
(* The WebSocket thread.                                                   *)

\* on_open sends the hello; before sig->ws is set it gets lost.
WsOpen ==
    /\ socket = "connecting"
    /\ socket' = "open"
    /\ outbox' = IF assigned THEN Append(outbox, "hello") ELSE outbox
    /\ UNCHANGED <<state, todo, assigned, inbox, farVars, linkVars, overwritten>>

\* on_closed and on_error leave the session's state alone.
WsLost ==
    /\ socket \in {"connecting", "open"}
    /\ socket' = "closed"
    /\ inbox' = <<>>
    /\ outbox' = <<>>
    /\ UNCHANGED <<state, todo, assigned, farVars, linkVars, overwritten>>

FromServer(m) == inbox # <<>> /\ Head(inbox) = m /\ inbox' = Tail(inbox)

\* signaling_event, REQUEST_ACCEPTED.
WsAccepted ==
    /\ FromServer("accepted")
    /\ Start("ws", IF state \in {"negotiating", "connected"} THEN <<>> ELSE <<Set("accepted")>>)
    /\ UNCHANGED <<state, socket, assigned, outbox, farVars, linkVars, overwritten>>

\* Mutant of WsRefused: one of the two refusals only.
WsInvalidOnly ==
    /\ \E m \in Refusals : FromServer(m)
    /\ Start("ws", IF Head(inbox) = "token_invalid" THEN <<Set("failed")>> ELSE <<>>)
    /\ UNCHANGED <<state, socket, assigned, outbox, farVars, linkVars, overwritten>>

\* signaling_event, TOKEN_INVALID and TOKEN_LOCKED_OUT.
WsRefused ==
    /\ \E m \in Refusals : FromServer(m)
    /\ Start("ws", <<Set("failed")>>)
    /\ UNCHANGED <<state, socket, assigned, outbox, farVars, linkVars, overwritten>>

\* Mutants of Ignoring.
IgnoringUnlessNegotiating == {"connected", "failed", "closed"}
IgnoringOnceAccepted == {"accepted", "negotiating", "connected", "failed", "closed"}

\* The states in which an offer is a duplicate.
Ignoring == {"negotiating", "connected", "failed", "closed"}

\* Mutant of OnOffer: the description before the state.
OnOfferApplyFirst == <<Do("apply"), Set("negotiating")>>

OnOffer == <<Set("negotiating"), Do("apply")>>

\* signaling_event, SDP_OFFER.
WsOffer ==
    /\ FromServer("offer")
    /\ Start("ws", IF state \in Ignoring THEN <<>> ELSE OnOffer)
    /\ UNCHANGED <<state, socket, assigned, outbox, farVars, linkVars, overwritten>>

\* signaling_event ignores a rejection.
WsRejected ==
    /\ FromServer("rejected")
    /\ Idle("ws")
    /\ UNCHANGED <<state, todo, socket, assigned, outbox, farVars, linkVars, overwritten>>

-----------------------------------------------------------------------------
(* The peer connection's thread.                                           *)

\* wrtc_local_sdp.
RtcAnswer ==
    /\ Idle("rtc")
    /\ link = "offered"
    /\ link' = "answered"
    /\ Send("answer")
    /\ UNCHANGED <<state, todo, socket, assigned, inbox, farVars, applied, losses, overwritten>>

\* wrtc_state_cb.  A lost connection may come back (DISCONNECTED counts as
\* FAILED).
RtcMoves(from, to, st) ==
    /\ link \in from
    /\ link' = to
    /\ Start("rtc", <<Set(st)>>)
    /\ UNCHANGED <<state, netVars, farVars, applied, overwritten>>

RtcConnecting == RtcMoves({"answered"}, "connecting", "negotiating") /\ UNCHANGED losses

RtcConnected == RtcMoves({"connecting", "failed"}, "connected", "connected") /\ UNCHANGED losses

RtcFailed ==
    /\ losses < MaxLosses
    /\ losses' = losses + 1
    /\ RtcMoves({"connecting", "connected"}, "failed", "failed")

RtcClosed ==
    /\ losses < MaxLosses
    /\ losses' = losses + 1
    /\ RtcMoves({"connecting", "connected", "failed"}, "closed", "closed")

-----------------------------------------------------------------------------
(* The server (module Room) and the sender (module Sender).                *)

ToReceiver(m) == inbox' = IF socket = "open" THEN Append(inbox, m) ELSE inbox

ServerTakes ==
    /\ outbox # <<>>
    /\ outbox' = Tail(outbox)
    /\ \/ /\ Head(outbox) = "hello"
          /\ \/ room' = "waiting" /\ UNCHANGED inbox
             \/ room' = "refused" /\ \E m \in Refusals : ToReceiver(m)
       \/ /\ Head(outbox) = "answer"
          /\ UNCHANGED <<room, inbox>>
    /\ UNCHANGED <<state, todo, socket, assigned, accepts, offersDue, linkVars, overwritten>>

\* Every acceptance makes the sender create a session, which sends an offer.
SenderAccepts ==
    /\ room \in {"waiting", "admitted"}
    /\ accepts < MaxAccepts
    /\ accepts' = accepts + 1
    /\ offersDue' = offersDue + 1
    /\ room' = "admitted"
    /\ ToReceiver("accepted")
    /\ UNCHANGED <<state, todo, socket, assigned, outbox, linkVars, overwritten>>

SenderOffers ==
    /\ room = "admitted"
    /\ offersDue > 0
    /\ offersDue' = offersDue - 1
    /\ ToReceiver("offer")
    /\ UNCHANGED <<state, todo, socket, assigned, outbox, room, accepts, linkVars, overwritten>>

SenderRejects ==
    /\ room \in {"waiting", "admitted"}
    /\ room' = "gone"
    /\ ToReceiver("rejected")
    /\ UNCHANGED <<state, todo, socket, assigned, outbox, accepts, offersDue, linkVars, overwritten>>

-----------------------------------------------------------------------------

Thread(t) == CallSet(t) \/ CallStore(t)

Creator == Thread("creator") \/ CallConnect \/ CallAssign

Apply == CallApply \/ CallApplyUnanswered \/ CallApplyFails

Ws == Thread("ws") \/ Apply \/ WsAccepted \/ WsRefused \/ WsOffer \/ WsRejected

Rtc == Thread("rtc") \/ RtcAnswer

SessionNext ==
    \/ Creator
    \/ Ws
    \/ WsOpen
    \/ WsLost
    \/ Rtc
    \/ RtcConnecting \/ RtcConnected \/ RtcFailed \/ RtcClosed
    \/ ServerTakes
    \/ SenderAccepts \/ SenderOffers \/ SenderRejects

SessionSpec == SessionInit /\ [][SessionNext]_receiveVars

\* The threads run, a connection with an offer answers it, the server takes
\* what is sent to it.  No socket has to open, no connection to be made, and
\* nobody has to accept.
SessionFairSpec ==
    /\ SessionSpec
    /\ WF_receiveVars(Creator) /\ WF_receiveVars(Ws) /\ WF_receiveVars(Rtc)
    /\ WF_receiveVars(ServerTakes)

-----------------------------------------------------------------------------

Quiet == inbox = <<>> /\ \A t \in Threads : Idle(t)

\* A duplicate offer is never applied to a connection that is being made or
\* stands and was never lost, however often the sender accepts again, unless
\* the creator overwrote the state.
LiveLinkKeepsItsOffer ==
    [][applied' > applied /\ applied > 0 => losses > 0 \/ overwritten]_receiveVars

\* Once nothing is under way, the state of a receiver that was accepted once
\* is the state of its connection, unless the creator overwrote it: the loads
\* and stores of the other two threads do not cross.
StateCatchesUp ==
    Quiet /\ accepts <= 1 /\ ~overwritten =>
        /\ link = "connected" <=> state = "connected"
        /\ link \in {"answered", "connecting"} => state = "negotiating"
        /\ link = "failed" => state = "failed"
        /\ link = "closed" <=> state = "closed"

\* An offer could not be applied or answered: nobody is told, and as the state
\* is negotiating by then every later offer is taken for a duplicate, although
\* there is no connection "already negotiating" (receive-session.c).
OfferFailed == link \in {"unapplied", "unanswered"}

\* The first offer that arrives is answered, whatever came before it, unless
\* the socket is lost or libdatachannel fails on it.
FirstOfferAnswered ==
    (inbox # <<>> /\ Head(inbox) = "offer") ~>
        \/ link \in {"answered", "connecting", "connected", "failed", "closed"}
        \/ socket = "closed"
        \/ OfferFailed

\* A receiver the server refused shows as failed for good, unless the refusal
\* is lost with the socket or the creator overwrites it.
RefusalIsFinal ==
    (inbox # <<>> /\ Head(inbox) \in Refusals) ~>
        ([](state = "failed") \/ socket = "closed" \/ overwritten)

=============================================================================
