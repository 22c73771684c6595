-------------------------------- MODULE Room ---------------------------------
(***************************************************************************)
(* The signaling room: the Durable Object of one token                     *)
(* (src/backend/src/room.ts).  Its events (an upgrade request, a message,  *)
(* a close) run one at a time: while a handler awaits storage the object's *)
(* input gate delivers nothing else, so a handler is one action.  A        *)
(* restart may come at any time, also between two storage operations of    *)
(* one handler; it closes every connection, and what is not in storage is  *)
(* lost.                                                                   *)
(***************************************************************************)
EXTENDS Integers, Sequences, FiniteSets

CONSTANTS
    Conns,          \* connections
    Ttl,            \* the granted lifetime of a token
    Window,         \* RATE_LIMIT_WINDOW_SECONDS
    MaxAttempts,    \* RATE_LIMIT_MAX_ATTEMPTS
    Lockout,        \* LOCKOUT_SECONDS
    MaxHellos,      \* bound: hellos on one connection
    MaxTime,        \* bound: the clock stops here
    MaxRestarts     \* bound: restarts of the object

ASSUME RoomAssumption ==
    /\ IsFiniteSet(Conns)
    /\ MaxHellos \in Nat \ {0}
    /\ Ttl \in Nat
    /\ Window \in Nat \ {0}
    /\ MaxAttempts \in Nat \ {0}
    /\ Lockout \in Nat \ {0}
    /\ MaxTime \in Nat \ {0}
    /\ MaxRestarts \in Nat

VARIABLES
    now,            \* Date.now()
    token,          \* this.token is set (to the name of the object)
    expiresAt,      \* this.expiresAt; 0: not set
    reusable,       \* this.reusable
    stored,         \* the three of them in storage
    link,           \* the WebSocket of each connection
    hellos,         \* history: the hellos each connection said
    peers,          \* this.peers
    order,          \* the insertion order of this.peers, for the senders
    accepted,       \* the receivers whose accepted flag is set
    attempts,       \* this.attempts
    lockedOutUntil, \* this.lockedOutUntil
    view,           \* the receivers announced on each connection
    served,         \* history: the receivers that got a message of a sender
    dismissed,      \* history: the receivers a sender rejected or revoked
    openUntil,      \* history: the deadline the last sender set, -1 once revoked
    claims,         \* history: bad claims since the restart or the last lockout
    lockedAt,       \* history: when the last lockout started, -Lockout if none did
    restarts        \* history: number of restarts

tokenVars == <<token, expiresAt, reusable, stored, openUntil>>
socketVars == <<link, hellos>>
peerVars == <<peers, order, accepted, view, served, dismissed>>
rateVars == <<attempts, lockedOutUntil, claims, lockedAt>>
roomVars == <<now, tokenVars, socketVars, peerVars, rateVars, restarts>>

\* Every hello makes a peer with an id of its own, also a further one on the
\* same connection.
Peers == [ws : Conns, n : 1 .. MaxHellos, role : {"sender", "receiver"}]
Senders == {p \in Peers : p.role = "sender"}
Receivers == {p \in Peers : p.role = "receiver"}

\* closing: closed by the room; what the client sent before it learns of that
\* still arrives.
Sockets == {"unused", "open", "closing", "closed"}

Storage == [token : BOOLEAN, expiresAt : Nat, reusable : BOOLEAN]

TypeOK ==
    /\ now \in Nat \ {0}
    /\ token \in BOOLEAN
    /\ expiresAt \in Nat
    /\ reusable \in BOOLEAN
    /\ stored \in Storage
    /\ link \in [Conns -> Sockets]
    /\ hellos \in [Conns -> 0 .. MaxHellos]
    /\ peers \in SUBSET Peers
    /\ order \in SUBSET (Senders \X Senders)
    /\ accepted \in SUBSET (peers \cap Receivers)
    /\ attempts \in Seq(Nat)
    /\ lockedOutUntil \in Nat
    /\ view \in [Conns -> SUBSET Receivers]
    /\ served \in SUBSET Receivers
    /\ dismissed \in SUBSET Receivers
    /\ openUntil \in Nat \cup {-1}
    /\ claims \in Seq(Nat)
    /\ lockedAt \in Int
    /\ restarts \in Nat

Init ==
    /\ now = 1
    /\ token = FALSE
    /\ expiresAt = 0
    /\ reusable = FALSE
    /\ stored = [token |-> FALSE, expiresAt |-> 0, reusable |-> FALSE]
    /\ link = [w \in Conns |-> "unused"]
    /\ hellos = [w \in Conns |-> 0]
    /\ peers = {}
    /\ order = {}
    /\ accepted = {}
    /\ attempts = <<>>
    /\ lockedOutUntil = 0
    /\ view = [w \in Conns |-> {}]
    /\ served = {}
    /\ dismissed = {}
    /\ openUntil = -1
    /\ claims = <<>>
    /\ lockedAt = -Lockout
    /\ restarts = 0

-----------------------------------------------------------------------------

\* findSender: the sender that joined first, if there is one.
FindSender == {s \in peers \cap Senders :
    \A x \in peers \cap Senders : <<x, s>> \notin order}

\* The peers of S leave this.peers.
Drop(S) ==
    /\ peers' = peers \ S
    /\ order' = {o \in order : o[1] \notin S /\ o[2] \notin S}
    /\ accepted' = accepted \ S

\* The room closes the connections of W.
Close(W) == link' = [w \in Conns |-> IF w \in W /\ link[w] = "open" THEN "closing" ELSE link[w]]

WsOf(S) == {p.ws : p \in S}

\* findPeerByWs(p.ws) is p, the first that joined on the connection.
Found(p) == p \in peers /\ \A q \in peers : q.ws = p.ws => p.n <= q.n

From(p) == Found(p) /\ link[p.ws] # "closed"

\* A hello of connection w, the first or a further one.
Hello(w) ==
    /\ link[w] \in {"open", "closing"}
    /\ hellos[w] < MaxHellos
    /\ hellos' = [hellos EXCEPT ![w] = @ + 1]

Newcomer(w, role) == [ws |-> w, n |-> hellos[w] + 1, role |-> role]

-----------------------------------------------------------------------------

\* fetch: an upgrade adopts the object's name as the token and stores it.
Connect(w) ==
    /\ link[w] = "unused"
    /\ link' = [link EXCEPT ![w] = "open"]
    /\ token' = TRUE
    /\ stored' = IF token THEN stored ELSE [stored EXCEPT !.token = TRUE]
    /\ UNCHANGED <<now, expiresAt, reusable, openUntil, hellos, peerVars, rateVars, restarts>>

\* The first sender hello sets the deadline and whether the token outlives
\* the sender; a later one finds them set.
Grant(reuse) ==
    IF expiresAt = 0
    THEN /\ expiresAt' = now + Ttl
         /\ reusable' = reuse
         /\ stored' = [token |-> token \/ stored.token, expiresAt |-> now + Ttl,
                       reusable |-> reuse]
         /\ openUntil' = now + Ttl
    ELSE UNCHANGED <<expiresAt, reusable, stored, openUntil>>

SenderHello(w, reuse) ==
    /\ Hello(w)
    /\ Grant(reuse)
    /\ LET s == Newcomer(w, "sender") IN
        /\ peers' = peers \cup {s}
        /\ order' = order \cup ((peers \cap Senders) \X {s})
    /\ UNCHANGED <<now, token, link, accepted, view, served, dismissed, rateVars, restarts>>

\* this.attempts keeps the times of the window; they are in order, so what
\* the filter keeps is the end of the sequence.
Recent ==
    LET kept == {i \in DOMAIN attempts : now - attempts[i] < Window}
    IN  SubSeq(attempts, Len(attempts) - Cardinality(kept) + 1, Len(attempts))

\* Mutant of RecordAttempt: one attempt more than allowed.
RecordAttemptLate ==
    IF Len(Recent) + 1 > MaxAttempts
    THEN /\ lockedOutUntil' = now + Lockout
         /\ attempts' = <<>>
         /\ lockedAt' = now
         /\ claims' = <<>>
    ELSE /\ attempts' = Append(Recent, now)
         /\ claims' = Append(claims, now)
         /\ UNCHANGED <<lockedOutUntil, lockedAt>>

\* recordAttempt.
RecordAttempt ==
    IF Len(Recent) + 1 >= MaxAttempts
    THEN /\ lockedOutUntil' = now + Lockout
         /\ attempts' = <<>>
         /\ lockedAt' = now
         /\ claims' = <<>>
    ELSE /\ attempts' = Append(Recent, now)
         /\ claims' = Append(claims, now)
         /\ UNCHANGED <<lockedOutUntil, lockedAt>>

\* A wrong claim, or any claim while the token is not set.
HelloInvalid(w) ==
    /\ Hello(w)
    /\ RecordAttempt
    /\ Close({w})
    /\ UNCHANGED <<now, tokenVars, peerVars, restarts>>

HelloExpired(w) ==
    /\ Hello(w)
    /\ token
    /\ now > expiresAt
    /\ Close({w})
    /\ UNCHANGED <<now, tokenVars, peerVars, rateVars, restarts>>

HelloLockedOut(w) ==
    /\ Hello(w)
    /\ token
    /\ now <= expiresAt
    /\ now < lockedOutUntil
    /\ Close({w})
    /\ UNCHANGED <<now, tokenVars, peerVars, rateVars, restarts>>

\* What findSender's client sees; nothing gets to one that is gone.
Hears(w) == link[w] = "open" /\ w \in WsOf(FindSender)

\* The receiver waits; a sender that is there is told.
HelloWait(w) ==
    /\ Hello(w)
    /\ token
    /\ now <= expiresAt
    /\ now >= lockedOutUntil
    /\ LET r == Newcomer(w, "receiver") IN
        /\ peers' = peers \cup {r}
        /\ view' = [x \in Conns |-> IF Hears(x) THEN view[x] \cup {r} ELSE view[x]]
    /\ UNCHANGED <<now, tokenVars, link, order, accepted, served, dismissed, rateVars, restarts>>

-----------------------------------------------------------------------------
(* Messages of a sender about a receiver announced to it.                  *)

About(s, r) == From(s) /\ r \in view[s.ws] \cap peers

Accept(s, r) ==
    /\ About(s, r)
    /\ accepted' = accepted \cup {r}
    /\ UNCHANGED <<now, tokenVars, socketVars, peers, order, view, served, dismissed, rateVars,
                   restarts>>

\* A send to a connection the room closed throws, and ends the handler there:
\* it may do less than this, which for a rejection is nothing.
Reject(s, r) ==
    /\ About(s, r)
    /\ Drop({r})
    /\ Close({r.ws})
    /\ dismissed' = dismissed \cup {r}
    /\ UNCHANGED <<now, tokenVars, hellos, view, served, rateVars, restarts>>

\* Mutant of Relay: no check of the flag.
RelayUnchecked(s, r) ==
    /\ About(s, r)
    /\ link[r.ws] = "open"
    /\ served' = served \cup {r}
    /\ UNCHANGED <<now, tokenVars, socketVars, peers, order, accepted, view, dismissed, rateVars,
                   restarts>>

\* relayToPeer, to a receiver; a message to one that is not accepted is
\* dropped.  What a receiver sends reaches the sender without that check and
\* changes nothing here.
Relay(s, r) ==
    /\ About(s, r)
    /\ r \in accepted
    /\ link[r.ws] = "open"
    /\ served' = served \cup {r}
    /\ UNCHANGED <<now, tokenVars, socketVars, peers, order, accepted, view, dismissed, rateVars,
                   restarts>>

\* The receivers the loop of handleRevoke gets to: all of them, unless a send
\* throws, to a connection that was closed before or by the loop itself.
Reached(D) ==
    LET left == (peers \cap Receivers) \ D IN
    left # {} => \E q \in left : link[q.ws] # "open" \/ q.ws \in WsOf(D)

\* Mutant of Revoke: only the token is forgotten.
RevokeTokenOnly(s) ==
    /\ From(s)
    /\ token' = FALSE
    /\ stored' = [stored EXCEPT !.token = FALSE]
    /\ openUntil' = -1
    /\ \E D \in SUBSET (peers \cap Receivers) :
        /\ Reached(D)
        /\ Drop(D)
        /\ Close(WsOf(D))
        /\ dismissed' = dismissed \cup D
    /\ UNCHANGED <<now, expiresAt, reusable, hellos, view, served, rateVars, restarts>>

\* handleRevoke.  reusable stays, in memory and in storage.
Revoke(s) ==
    /\ From(s)
    /\ token' = FALSE
    /\ expiresAt' = 0
    /\ stored' = [stored EXCEPT !.token = FALSE, !.expiresAt = 0]
    /\ openUntil' = -1
    /\ \E D \in SUBSET (peers \cap Receivers) :
        /\ Reached(D)
        /\ Drop(D)
        /\ Close(WsOf(D))
        /\ dismissed' = dismissed \cup D
    /\ UNCHANGED <<now, reusable, hellos, view, served, rateVars, restarts>>

-----------------------------------------------------------------------------
(* Connections that end, restarts, time.                                   *)

\* The close of connection w; close and error both come to onClose, so it may
\* run again, for the next peer of the connection.
Ends(w) ==
    /\ link[w] \in {"open", "closing"} \/ w \in WsOf(peers)
    /\ link' = [link EXCEPT ![w] = "closed"]

\* onClose without a peer.
StrangerCloses(w) ==
    /\ Ends(w)
    /\ w \notin WsOf(peers)
    /\ UNCHANGED <<now, tokenVars, hellos, peerVars, rateVars, restarts>>

\* Mutant of ReceiverCloses: a waiting receiver leaves silently.
ReceiverClosesUntold(r) ==
    /\ Ends(r.ws)
    /\ Found(r)
    /\ Drop({r})
    /\ view' = [w \in Conns |-> IF r \in accepted /\ Hears(w) THEN view[w] \ {r} ELSE view[w]]
    /\ UNCHANGED <<now, tokenVars, hellos, served, dismissed, rateVars, restarts>>

\* onClose of a receiver: its end is announced to the sender.
ReceiverCloses(r) ==
    /\ Ends(r.ws)
    /\ Found(r)
    /\ Drop({r})
    /\ view' = [w \in Conns |-> IF Hears(w) THEN view[w] \ {r} ELSE view[w]]
    /\ UNCHANGED <<now, tokenVars, hellos, served, dismissed, rateVars, restarts>>

\* onClose of a sender, which is announced to nobody; everybody else is closed
\* unless the token is reusable.
SenderCloses(s) ==
    /\ Found(s)
    /\ IF reusable
       THEN Drop({s}) /\ Ends(s.ws)
       ELSE /\ Drop(peers)
            /\ link' = [w \in Conns |->
                           IF w = s.ws THEN "closed"
                           ELSE IF w \in WsOf(peers) /\ link[w] = "open" THEN "closing"
                           ELSE link[w]]
    /\ UNCHANGED <<now, tokenVars, hellos, view, served, dismissed, rateVars, restarts>>

\* The object starts again from storage st.
StartFrom(st) ==
    /\ restarts < MaxRestarts
    /\ restarts' = restarts + 1
    /\ stored' = st
    /\ token' = st.token
    /\ expiresAt' = st.expiresAt
    /\ reusable' = st.reusable
    /\ link' = [w \in Conns |-> IF link[w] = "unused" THEN "unused" ELSE "closed"]
    /\ Drop(peers)
    /\ view' = [w \in Conns |-> {}]
    /\ attempts' = <<>>
    /\ lockedOutUntil' = 0
    /\ claims' = <<>>
    /\ lockedAt' = -Lockout
    /\ UNCHANGED <<now, served, dismissed>>

Restart == StartFrom(stored) /\ UNCHANGED <<openUntil, hellos>>

\* Between the puts of expiresAt and reusable in a first sender hello.
HelloCut(w) ==
    /\ Hello(w)
    /\ expiresAt = 0
    /\ StartFrom([stored EXCEPT !.expiresAt = now + Ttl])
    /\ openUntil' = now + Ttl

\* Between the two deletes of a revoke: the deadline outlives the token.
RevokeCut(s) ==
    /\ From(s)
    /\ StartFrom([stored EXCEPT !.token = FALSE])
    /\ UNCHANGED <<openUntil, hellos>>

Tick ==
    /\ now < MaxTime
    /\ now' = now + 1
    /\ UNCHANGED <<tokenVars, socketVars, peerVars, rateVars, restarts>>

-----------------------------------------------------------------------------

OfConnection(w) ==
    \/ Connect(w)
    \/ \E reuse \in BOOLEAN : SenderHello(w, reuse)
    \/ HelloInvalid(w) \/ HelloExpired(w) \/ HelloLockedOut(w) \/ HelloWait(w)
    \/ HelloCut(w) \/ StrangerCloses(w)

OfSender(s) ==
    \/ \E r \in Receivers : Accept(s, r) \/ Reject(s, r) \/ Relay(s, r)
    \/ Revoke(s) \/ SenderCloses(s) \/ RevokeCut(s)

Next ==
    \/ \E w \in Conns : OfConnection(w)
    \/ \E s \in Senders : OfSender(s)
    \/ \E r \in Receivers : ReceiverCloses(r)
    \/ Restart
    \/ Tick

Spec == Init /\ [][Next]_roomVars

-----------------------------------------------------------------------------

\* Where each receiver stands, for the abstract service.
Standing(r) ==
    IF r \in accepted THEN "admitted"
    ELSE IF r \in peers THEN "waiting"
    ELSE IF hellos[r.ws] < r.n THEN "outside"
    ELSE "out"

WR == INSTANCE WaitingRoom WITH status <- [r \in Receivers |-> Standing(r)]

\* The room is the waiting room of module WaitingRoom: messages of the sender
\* reach a receiver only while it is admitted, and one that was rejected,
\* revoked, refused or cut off never comes back, restarts included.
IsWaitingRoom == WR!WRSpec

\* A receiver gets into the room only before the deadline the last sender set,
\* never after a completed revoke although fetch adopts the token again, and
\* not while a lockout lasts.
EntryIsDue ==
    [][(peers' \ peers) \cap Receivers # {} =>
         now <= openUntil /\ now >= lockedAt + Lockout]_roomVars

\* Wrong claims since the last lockout: never MaxAttempts of them within one
\* window, whatever recordAttempt has dropped meanwhile.
ClaimsAreLimited ==
    \A i, j \in DOMAIN claims :
        j = i + MaxAttempts - 1 => claims[j] - claims[i] >= Window

\* What the sender was told stays true: every receiver announced to it is
\* still there, on an open connection, unless a sender sent it away or its
\* connection said hello more than once, which the clients do not: then onClose
\* deletes the first of its peers only, and the others stay.
SenderIsCurrent ==
    \A s \in peers \cap Senders : link[s.ws] = "open" =>
        \A r \in view[s.ws] :
            \/ r \in peers /\ link[r.ws] = "open"
            \/ r \in dismissed \/ hellos[r.ws] > 1

=============================================================================
