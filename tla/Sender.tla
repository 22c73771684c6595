------------------------------- MODULE Sender --------------------------------
(***************************************************************************)
(* One tether_sender_t (src/src/sender.c) with its dialog                  *)
(* (src/src/sender-dialog.cpp), its WebSocket and its peer connections.    *)
(*                                                                         *)
(* Three kinds of threads act on it: the Qt thread, which runs the user's  *)
(* clicks and the events posted to it; the WebSocket's callback thread;    *)
(* and one callback thread per peer connection.  A lock is held only       *)
(* inside one action.  What a thread still has to do after an unlock is    *)
(* its sequence of calls in todo: other threads run in between.            *)
(***************************************************************************)
EXTENDS Admission, SequencesExt

CONSTANTS
    MaxSessions,                    \* bound: no click on Accept beyond it, failures counted
    MaxPosted                       \* bound: the dialog keeps up with the user and the media

VARIABLES
    sessions,       \* s->sessions, in order: the peer and its connection
    todo,           \* todo[t]: the calls thread t has still to make
    phase,          \* "running"; "revoking" then "revoked", or "closing" then "closed"
    online,         \* the WebSocket is open
    inbox,          \* messages from the server not yet handled
    outbox,         \* messages to the server not yet handled there
    room,           \* the server's view of each peer
    posted,         \* events queued to the Qt thread
    rows            \* peersList_ of the dialog

mediaVars == <<sessions>>
wireVars == <<online, inbox, outbox, room>>
dialogVars == <<posted, rows>>
senderVars == <<admissionVars, mediaVars, todo, phase, wireVars, dialogVars>>

Threads == {"qt", "ws"}

\* new: created and listed; offering: negotiate called; lost: FAILED or CLOSED
\* was reported (RTC_DISCONNECTED counts as FAILED: the connection may recover,
\* or go on to RTC_FAILED and RTC_CLOSED, which are reported again);
\* unrecorded: lost, with tether_admission_disconnect_peer still to be called;
\* freed: disconnected by the user, the entry still in the list; released: no
\* longer in the list; unmade: could not be created and was never in the list.
Links == {"new", "offering", "offered", "answered", "connecting", "connected",
          "unrecorded", "lost", "freed", "released", "unmade"}

Calls == [call : {"accept", "create", "reject", "gone", "pending",
                  "disconnect"}, peer : Peers]
    \cup [call : {"negotiate"}, session : Nat \ {0}]
    \cup [call : {"revoke", "free", "close"}]

Sessions == [peer : Peers, link : Links]
Received == [msg : {"pending", "answer", "peer_gone"}, peer : Peers]
Sent == [msg : {"accept", "reject", "offer"}, peer : Peers] \cup [msg : {"revoke"}]
Shown == {"waiting", "connected", "failed"}
Events == [event : Shown \cup {"pending", "gone"}, peer : Peers]
Rows == [peer : Peers, shown : Shown]

SenderTypeOK ==
    /\ TypeOK
    /\ sessions \in Seq(Sessions)
    /\ todo \in [Threads -> Seq(Calls)]
    /\ phase \in {"running", "revoking", "revoked", "closing", "closed"}
    /\ online \in BOOLEAN
    /\ inbox \in Seq(Received)
    /\ outbox \in Seq(Sent)
    /\ room \in [Peers -> {"out", "waiting", "admitted", "gone"}]
    /\ posted \in Seq(Events)
    /\ rows \in Seq(Rows)

SenderInit ==
    /\ Init
    /\ sessions = <<>>
    /\ todo = [t \in Threads |-> <<>>]
    /\ phase = "running"
    /\ online = TRUE
    /\ inbox = <<>>
    /\ outbox = <<>>
    /\ room = [p \in Peers |-> "out"]
    /\ posted = <<>>
    /\ rows = <<>>

-----------------------------------------------------------------------------

Idle(t) == todo[t] = <<>>

Call(c, p) == [call |-> c, peer |-> p]

\* Mutants of OnAccepted: the session first; no message to the server.
OnAcceptedCreateFirst(p) == <<Call("create", p), Call("accept", p)>>
OnAcceptedSilent(p) == <<Call("create", p)>>

\* on_admission_changed for an accepted peer: the server hears of it before
\* the session exists.
OnAccepted(p) == <<Call("accept", p), Call("create", p)>>

\* on_admission_changed for a rejected peer.
OnRejected(p) == <<Call("reject", p), Call("gone", p)>>

\* A thread starts on the calls its event makes.
Start(t, calls) == Idle(t) /\ todo' = [todo EXCEPT ![t] = calls]

\* send_raw does nothing once the socket is gone.
Send(m) == outbox' = IF online THEN Append(outbox, m) ELSE outbox

\* The SenderDialog trampolines queue to the Qt thread; nothing is queued
\* once the destructor runs (shutting_down_).
Post(e, p) ==
    posted' = IF phase \in {"closing", "closed"} THEN posted
              ELSE Append(posted, [event |-> e, peer |-> p])

\* find_session_locked: the first entry of the peer, whatever its state.
SessionsOf(p) == {i \in DOMAIN sessions :
    sessions[i].peer = p /\ sessions[i].link \notin {"released", "unmade"}}
FirstOf(s) == {i \in s : \A j \in s : i <= j}

\* The sessions with an index in s go to link l.
Relink(s, l) ==
    sessions' = [i \in DOMAIN sessions |->
        IF i \in s THEN [sessions[i] EXCEPT !.link = l] ELSE sessions[i]]

RowsOf(p) == {i \in DOMAIN rows : rows[i].peer = p}

-----------------------------------------------------------------------------
(* The Qt thread: clicks.                                                  *)

Creations == Len(sessions) +
    Cardinality({t \in Threads : \E i \in DOMAIN todo[t] : todo[t][i].call = "create"})

\* Accept and Reject are enabled for a row that is not connected, Disconnect
\* for one that is.
UserAccept(i) ==
    /\ phase = "running"
    /\ i \in DOMAIN rows
    /\ rows[i].shown # "connected"
    /\ Creations < MaxSessions
    /\ Accept(rows[i].peer, TRUE)
    /\ Start("qt", IF Listed(rows[i].peer) THEN OnAccepted(rows[i].peer) ELSE <<>>)
    /\ UNCHANGED <<mediaVars, phase, wireVars, dialogVars>>

UserReject(i) ==
    /\ phase = "running"
    /\ i \in DOMAIN rows
    /\ rows[i].shown # "connected"
    /\ Reject(rows[i].peer)
    /\ Start("qt", IF Listed(rows[i].peer) THEN OnRejected(rows[i].peer) ELSE <<>>)
    /\ UNCHANGED <<mediaVars, phase, wireVars, dialogVars>>

\* tether_sender_disconnect_peer frees the connection and the audio of the
\* first session of the peer; the entry stays in the list.
UserDisconnect(i) ==
    /\ phase = "running"
    /\ i \in DOMAIN rows
    /\ rows[i].shown = "connected"
    /\ LET p == rows[i].peer IN
        /\ Relink(FirstOf(SessionsOf(p)), "freed")
        /\ Start("qt", <<Call("disconnect", p), Call("reject", p), Call("gone", p)>>)
    /\ UNCHANGED <<admissionVars, phase, wireVars, dialogVars>>

\* Mutant of UserRevoke: only the accepted peers are revoked.
UserRevokeAccepted ==
    /\ phase = "running"
    /\ state' = [p \in Peers |-> IF p \in Accepted THEN "revoked" ELSE state[p]]
    /\ Start("qt", <<[call |-> "revoke"], [call |-> "free"], [call |-> "close"]>>)
    /\ phase' = "revoking"
    /\ UNCHANGED <<fingerprint, pinned, userAccepted, userPinned, rateVars, now,
                   mediaVars, wireVars, dialogVars>>

\* Revoke: revoke_all, then the sender is released and the list cleared.
UserRevoke ==
    /\ phase = "running"
    /\ RevokeAll
    /\ Start("qt", <<[call |-> "revoke"], [call |-> "free"], [call |-> "close"]>>)
    /\ phase' = "revoking"
    /\ UNCHANGED <<mediaVars, wireVars, dialogVars>>

\* Closing the dialog: ~SenderDialog releases the sender.
UserClose ==
    /\ phase = "running"
    /\ Start("qt", <<[call |-> "free"], [call |-> "close"]>>)
    /\ phase' = "closing"
    /\ UNCHANGED <<admissionVars, mediaVars, wireVars, dialogVars>>

-----------------------------------------------------------------------------
(* The Qt thread: posted events.                                           *)

QtEvent ==
    /\ Idle("qt")
    /\ phase # "closed"
    /\ posted # <<>>
    /\ posted' = Tail(posted)
    /\ LET e == Head(posted).event
           p == Head(posted).peer
       IN  \/ /\ e = "pending"
              /\ rows' = Append(rows, [peer |-> p, shown |-> "waiting"])
           \/ /\ e # "pending"
              /\ RowsOf(p) = {}
              /\ UNCHANGED rows
           \/ \E i \in FirstOf(RowsOf(p)) :
              \/ e \in Shown /\ rows' = [rows EXCEPT ![i].shown = e]
              \/ e = "gone" /\ rows' = RemoveAt(rows, i)
    /\ UNCHANGED <<admissionVars, mediaVars, todo, phase, wireVars>>

-----------------------------------------------------------------------------
(* The calls a thread makes one after the other.                           *)

Next1(t) == Head(todo[t])
Calling(t, c) == ~Idle(t) /\ Next1(t).call = c
Proceed(t) == todo' = [todo EXCEPT ![t] = Tail(@)]

\* tether_signaling_accept and tether_signaling_reject.
CallSend(t) ==
    /\ Calling(t, "accept") \/ Calling(t, "reject")
    /\ Send([msg |-> Next1(t).call, peer |-> Next1(t).peer])
    /\ Proceed(t)
    /\ UNCHANGED <<admissionVars, mediaVars, phase, online, inbox, room, dialogVars>>

\* create_session up to the unlock: the list is not searched for an earlier
\* session of the peer.  The thread goes on with the connection it created.
CallCreate(t) ==
    /\ Calling(t, "create")
    /\ sessions' = Append(sessions, [peer |-> Next1(t).peer, link |-> "new"])
    /\ todo' = [todo EXCEPT ![t] =
            <<[call |-> "negotiate", session |-> Len(sessions) + 1]>> \o Tail(@)]
    /\ UNCHANGED <<admissionVars, phase, wireVars, dialogVars>>

\* create_session when tether_webrtc_create returns NULL: it returns, and
\* neither the list nor the dialog nor the server hears of it.
CallCreateFails(t) ==
    /\ Calling(t, "create")
    /\ sessions' = Append(sessions, [peer |-> Next1(t).peer, link |-> "unmade"])
    /\ Proceed(t)
    /\ UNCHANGED <<admissionVars, phase, wireVars, dialogVars>>

\* tether_webrtc_negotiate, without the lock.  On a connection that was freed
\* meanwhile the call is undefined; here it has no effect.
CallNegotiate(t) ==
    /\ Calling(t, "negotiate")
    /\ Relink({i \in DOMAIN sessions : i = Next1(t).session /\ sessions[i].link = "new"},
              "offering")
    /\ Proceed(t)
    /\ UNCHANGED <<admissionVars, phase, wireVars, dialogVars>>

\* The callbacks on_pending and on_peer_gone.
CallPost(t) ==
    /\ Calling(t, "pending") \/ Calling(t, "gone")
    /\ Post(Next1(t).call, Next1(t).peer)
    /\ Proceed(t)
    /\ UNCHANGED <<admissionVars, mediaVars, phase, wireVars, rows>>

\* tether_admission_disconnect_peer; on_admission_changed ignores the state.
CallDisconnect(t) ==
    /\ Calling(t, "disconnect")
    /\ DisconnectPeer(Next1(t).peer)
    /\ Proceed(t)
    /\ UNCHANGED <<mediaVars, phase, wireVars, dialogVars>>

CallRevoke ==
    /\ Calling("qt", "revoke")
    /\ Send([msg |-> "revoke"])
    /\ Proceed("qt")
    /\ UNCHANGED <<admissionVars, mediaVars, phase, online, inbox, room, dialogVars>>

\* tether_sender_release: every listed session is released and the list
\* cleared, under the lock.
CallFree ==
    /\ Calling("qt", "free")
    /\ Relink(DOMAIN sessions, "released")
    /\ Proceed("qt")
    /\ UNCHANGED <<admissionVars, phase, wireVars, dialogVars>>

\* tether_signaling_release returns once the WebSocket's callback has; the
\* dialog then clears its rows.  What was sent before still arrives.
CallClose ==
    /\ Calling("qt", "close")
    /\ Idle("ws")
    /\ online' = FALSE
    /\ inbox' = <<>>
    /\ rows' = <<>>
    /\ phase' = IF phase = "revoking" THEN "revoked" ELSE "closed"
    /\ Proceed("qt")
    /\ UNCHANGED <<admissionVars, mediaVars, outbox, room, posted>>

-----------------------------------------------------------------------------
(* The WebSocket thread: on_signaling_event.                               *)

Receive(m) == inbox # <<>> /\ Head(inbox).msg = m /\ Idle("ws") /\ inbox' = Tail(inbox)

\* Mutant of WsPending: a session for every new peer, whatever its state.
WsPendingEager(f) ==
    /\ Receive("pending")
    /\ LET p == Head(inbox).peer IN
        /\ AddPending(p, f)
        /\ Start("ws", IF ~Listed(p) /\ state'[p] # "absent"
                       THEN OnAccepted(p) \o <<Call("pending", p)>>
                       ELSE <<Call("pending", p)>>)
    /\ UNCHANGED <<mediaVars, phase, online, outbox, room, dialogVars>>

\* REQUEST_PENDING: the result of add_pending is not looked at, and the
\* dialog hears of the peer after an automatic acceptance ran its course.
WsPending(f) ==
    /\ Receive("pending")
    /\ LET p == Head(inbox).peer IN
        /\ AddPending(p, f)
        /\ Start("ws", IF ~Listed(p) /\ state'[p] = "accepted"
                       THEN OnAccepted(p) \o <<Call("pending", p)>>
                       ELSE <<Call("pending", p)>>)
    /\ UNCHANGED <<mediaVars, phase, online, outbox, room, dialogVars>>

\* SDP_ANSWER, for the first session of the peer; ICE candidates take the
\* same way.
WsAnswer ==
    /\ Receive("answer")
    /\ Relink({i \in FirstOf(SessionsOf(Head(inbox).peer)) : sessions[i].link = "offered"},
              "answered")
    /\ UNCHANGED <<admissionVars, todo, phase, online, outbox, room, dialogVars>>

\* Mutant of WsPeerGone: the dialog is not told.
WsPeerGoneSilent ==
    /\ Receive("peer_gone")
    /\ DisconnectPeer(Head(inbox).peer)
    /\ UNCHANGED <<mediaVars, todo, phase, online, outbox, room, dialogVars>>

WsPeerGone ==
    /\ Receive("peer_gone")
    /\ LET p == Head(inbox).peer IN
        DisconnectPeer(p) /\ Start("ws", <<Call("gone", p)>>)
    /\ UNCHANGED <<mediaVars, phase, online, outbox, room, dialogVars>>

\* on_closed and on_error: the state of the socket changes, nothing else;
\* what was under way in either direction is lost.
WsLost ==
    /\ online
    /\ online' = FALSE
    /\ inbox' = <<>>
    /\ outbox' = <<>>
    /\ UNCHANGED <<admissionVars, mediaVars, todo, phase, room, dialogVars>>

-----------------------------------------------------------------------------
(* The callback thread of a peer connection.                               *)

\* session_local_sdp.
RtcOffer(i) ==
    /\ sessions[i].link = "offering"
    /\ Relink({i}, "offered")
    /\ Send([msg |-> "offer", peer |-> sessions[i].peer])
    /\ UNCHANGED <<admissionVars, todo, phase, online, inbox, room, dialogVars>>

\* session_state, for CONNECTING and CONNECTED.
RtcProgress(i) ==
    /\ Len(posted) < MaxPosted
    /\ \/ /\ sessions[i].link = "answered"
          /\ Relink({i}, "connecting")
          /\ Post("waiting", sessions[i].peer)
       \/ /\ sessions[i].link \in {"connecting", "lost"}
          /\ Relink({i}, "connected")
          /\ Post("connected", sessions[i].peer)
    /\ UNCHANGED <<admissionVars, todo, phase, wireVars, rows>>

\* session_state, for FAILED and CLOSED: first the dialog, then the list, at
\* every such callback, those after the first included.
RtcLost(i) ==
    /\ Len(posted) < MaxPosted
    /\ sessions[i].link \in {"connecting", "connected", "lost"}
    /\ Relink({i}, "unrecorded")
    /\ Post("failed", sessions[i].peer)
    /\ UNCHANGED <<admissionVars, todo, phase, wireVars, rows>>

\* Mutant of RtcRecord: the list is not told.
RtcRecordNothing(i) ==
    /\ sessions[i].link = "unrecorded"
    /\ Relink({i}, "lost")
    /\ UNCHANGED <<admissionVars, todo, phase, wireVars, dialogVars>>

RtcRecord(i) ==
    /\ sessions[i].link = "unrecorded"
    /\ Relink({i}, "lost")
    /\ DisconnectPeer(sessions[i].peer)
    /\ UNCHANGED <<todo, phase, wireVars, dialogVars>>

-----------------------------------------------------------------------------
(* The server (module Room) and the receivers, as the sender sees them.    *)

ToSender(m, p) == inbox' = IF online THEN Append(inbox, [msg |-> m, peer |-> p]) ELSE inbox

Knock(p) ==
    /\ room[p] = "out"
    /\ online
    /\ room' = [room EXCEPT ![p] = "waiting"]
    /\ ToSender("pending", p)
    /\ UNCHANGED <<admissionVars, mediaVars, todo, phase, online, outbox, dialogVars>>

Leave(p) ==
    /\ room[p] \in {"waiting", "admitted"}
    /\ room' = [room EXCEPT ![p] = "gone"]
    /\ ToSender("peer_gone", p)
    /\ UNCHANGED <<admissionVars, mediaVars, todo, phase, online, outbox, dialogVars>>

\* An offer is relayed to an admitted receiver, which answers it, and is
\* dropped for any other.
ServerTakes ==
    /\ outbox # <<>>
    /\ outbox' = Tail(outbox)
    /\ LET m == Head(outbox) IN
        \/ /\ m.msg = "accept"
           /\ room' = IF room[m.peer] = "waiting" THEN [room EXCEPT ![m.peer] = "admitted"]
                      ELSE room
           /\ UNCHANGED inbox
        \/ /\ m.msg = "reject"
           /\ room' = [room EXCEPT ![m.peer] = "gone"]
           /\ UNCHANGED inbox
        \/ /\ m.msg = "revoke"
           /\ room' = [p \in Peers |-> IF room[p] = "out" THEN "out" ELSE "gone"]
           /\ UNCHANGED inbox
        \/ /\ m.msg = "offer"
           /\ IF room[m.peer] = "admitted" THEN ToSender("answer", m.peer) ELSE UNCHANGED inbox
           /\ UNCHANGED room
    /\ UNCHANGED <<admissionVars, mediaVars, todo, phase, online, dialogVars>>

-----------------------------------------------------------------------------

SenderTick == Tick /\ UNCHANGED <<mediaVars, todo, phase, wireVars, dialogVars>>

User ==
    /\ Len(posted) < MaxPosted
    /\ \/ \E i \in DOMAIN rows : UserAccept(i) \/ UserReject(i) \/ UserDisconnect(i)
       \/ UserRevoke
       \/ UserClose

Thread(t) ==
    \/ CallSend(t)
    \/ CallCreate(t) \/ CallCreateFails(t) \/ CallNegotiate(t)
    \/ CallPost(t)
    \/ CallDisconnect(t)

Qt == QtEvent \/ Thread("qt") \/ CallRevoke \/ CallFree \/ CallClose

Ws == (\E f \in Fingerprints : WsPending(f)) \/ WsAnswer \/ WsPeerGone \/ Thread("ws")

Rtc(i) == RtcOffer(i) \/ RtcProgress(i) \/ RtcLost(i) \/ RtcRecord(i)

SenderNext ==
    \/ User
    \/ Qt
    \/ Ws
    \/ WsLost
    \/ \E i \in DOMAIN sessions : Rtc(i)
    \/ \E p \in Peers : Knock(p) \/ Leave(p)
    \/ ServerTakes
    \/ SenderTick

SenderSpec == SenderInit /\ [][SenderNext]_senderVars

\* The threads run and the server takes what is sent to it; nobody has to
\* click, knock or leave, and no connection has to be made or lost.
SenderFairSpec ==
    /\ SenderSpec
    /\ WF_senderVars(Qt) /\ WF_senderVars(Ws) /\ WF_senderVars(ServerTakes)

-----------------------------------------------------------------------------

Quiet == /\ \A t \in Threads : Idle(t)
         /\ inbox = <<>> /\ outbox = <<>> /\ posted = <<>>

\* No connection for a peer that still waits: the peer of every session has
\* left the pending state, by the user's accept or by the automatic one,
\* whichever thread created the session (create_session runs on the Qt and on
\* the WebSocket thread).
NoMediaWhilePending ==
    \A i \in DOMAIN sessions : state[sessions[i].peer] \notin {"absent", "pending"}

\* "no media flows until the sender accepts" (README.md): every session is one
\* of a peer the user accepted, or of one that presents the fingerprint of a
\* peer the user pinned.  Violated: receivers present none, the dialog pins
\* with every accept, and two empty fingerprints match.
MediaNeedsAccept ==
    \A i \in DOMAIN sessions :
        LET p == sessions[i].peer IN
            \/ sessions[i].link = "unmade"
            \/ p \in userAccepted
            \/ /\ fingerprint[p] # NoPrint
               /\ \E q \in userPinned : fingerprint[q] = fingerprint[p]

\* The server admits the receiver before the offer arrives there, so that
\* relayToPeer never drops it: on_admission_changed sends the accept first, and
\* the peer connection's thread sends the offer on the same socket.
OfferAfterAccept ==
    \A i \in DOMAIN outbox :
        outbox[i].msg = "offer" =>
            \/ room[outbox[i].peer] # "waiting"
            \/ \E j \in 1 .. i - 1 :
                  outbox[j] = [msg |-> "accept", peer |-> outbox[i].peer]

\* Once nothing is under way, the dialog lists exactly the receivers the server
\* holds, each once, although on_pending and on_peer_gone are posted by both
\* threads.
RowsMatchRoom ==
    phase = "running" /\ online /\ Quiet =>
        \A p \in Peers :
            Cardinality(RowsOf(p)) = IF room[p] \in {"waiting", "admitted"} THEN 1 ELSE 0

\* The last connection to be created for the peer could not be.
LeftUnmade(p) ==
    \E i \in DOMAIN sessions :
        /\ sessions[i] = [peer |-> p, link |-> "unmade"]
        /\ \A j \in DOMAIN sessions : j > i => sessions[j].peer # p

\* An accepted entry has a connection that was not lost or freed, unless a
\* thread is still about to create it or to record its end: the list is never
\* left saying accepted by a failure, a disconnect or a re-accept that crosses
\* one.  Excepted is a peer whose last connection could not be created:
\* create_session returns without a word and the entry stays accepted.
AcceptedIsServed ==
    phase = "running" =>
        \A p \in Accepted :
            \/ \E i \in SessionsOf(p) : sessions[i].link \notin {"lost", "freed"}
            \/ \E t \in Threads : \E k \in DOMAIN todo[t] :
                    todo[t][k] \in {Call("create", p), Call("disconnect", p)}
            \/ LeftUnmade(p)

\* An accepted receiver does not stay in the server's waiting room, unless the
\* socket is lost.
AcceptReachesRoom ==
    \A p \in Peers : state[p] = "accepted" ~> room[p] # "waiting" \/ ~online

\* The admission list, as the three threads use it, is the one of module
\* Admission: what is proved of the list holds of the sender.  A disconnect is
\* a step of the list that leaves the pin, as set_peer_state does; the comment
\* in tether_sender_disconnect_peer says that the call also clears it.
AdmissionSpec == Spec

=============================================================================
