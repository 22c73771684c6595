------------------------------ MODULE RoomProofs ------------------------------
(***************************************************************************)
(* Theorems about the signaling room, for any number of connections and    *)
(* any time limits: it keeps its types, it is the waiting room of module   *)
(* WaitingRoom, a receiver gets in only when entry is due, what a sender   *)
(* was told stays true, and wrong claims are limited.                      *)
(***************************************************************************)
EXTENDS Room, TLAPS, SequenceTheorems, FiniteSetTheorems

LEMMA TypeInit == Init => TypeOK
<1> SUFFICES ASSUME Init PROVE TypeOK
  OBVIOUS
<1>1. lockedAt \in Int
  BY RoomAssumption DEF Init
<1>2. attempts \in Seq(Nat) /\ claims \in Seq(Nat)
  BY EmptySeq DEF Init
<1>3. link \in [Conns -> Sockets] /\ stored \in Storage
  BY DEF Init, Sockets, Storage
<1>4. view \in [Conns -> SUBSET Receivers] /\ openUntil \in Nat \cup {-1}
  BY DEF Init
<1>5. /\ peers = {} /\ accepted = {} /\ order = {} /\ served = {} /\ dismissed = {}
      /\ hellos \in [Conns -> 0 .. MaxHellos]
  BY RoomAssumption DEF Init, RoomAssumption
<1>6. now \in Nat \ {0} /\ expiresAt \in Nat /\ lockedOutUntil \in Nat /\ restarts \in Nat
  BY DEF Init
<1>7. token \in BOOLEAN /\ reusable \in BOOLEAN
  BY DEF Init
<1> QED BY <1>1, <1>2, <1>3, <1>4, <1>5, <1>6, <1>7 DEF TypeOK

-----------------------------------------------------------------------------
(* Types.                                                                  *)

\* The attempts of the window are a sequence of times.
LEMMA RecentType ==
    ASSUME attempts \in Seq(Nat), now \in Nat
    PROVE  Recent \in Seq(Nat)
<1> DEFINE kept == {i \in DOMAIN attempts : now - attempts[i] < Window}
           n == Len(attempts)
<1>1. n \in Nat /\ DOMAIN attempts = 1 .. n
  BY LenProperties
<1>2. IsFiniteSet(1 .. n) /\ Cardinality(1 .. n) = n
  <2>1. n \in Nat /\ n \in Int /\ 1 \in Int
    BY <1>1
  <2> HIDE DEF n, kept
  <2>2. /\ IsFiniteSet(1 .. n)
        /\ Cardinality(1 .. n) = IF 1 > n THEN 0 ELSE n - 1 + 1
    BY <2>1, FS_Interval
  <2> QED BY <2>1, <2>2
<1>3. kept \in SUBSET (1 .. n)
  BY <1>1
<1>4. IsFiniteSet(kept) /\ Cardinality(kept) <= n
  BY <1>2, <1>3, FS_Subset
<1>5. Cardinality(kept) \in Nat
  BY <1>4, FS_CardinalityType
<1> DEFINE m == n - Cardinality(kept) + 1
<1>6. m \in 1 .. n + 1
  BY <1>1, <1>4, <1>5
<1>7. \A i \in m .. n : attempts[i] \in Nat
  BY <1>1, <1>6
<1> HIDE DEF kept, m
<1>8. SubSeq(attempts, m, n) \in Seq(Nat)
  <2>1. CASE m <= n
    BY <2>1, <1>1, <1>6, SubSeqProperties
  <2>2. CASE m > n
    BY <2>2, <1>1, <1>6, SubSeqProperties
  <2> QED BY <2>1, <2>2, <1>1, <1>6
<1> QED BY <1>8 DEF Recent, m, kept

LEMMA RecordType ==
    ASSUME TypeOK, RecordAttempt
    PROVE  /\ attempts' \in Seq(Nat) /\ claims' \in Seq(Nat)
           /\ lockedOutUntil' \in Nat /\ lockedAt' \in Int
<1>1. Recent \in Seq(Nat) /\ now \in Nat
  BY RecentType DEF TypeOK
<1>2. Append(Recent, now) \in Seq(Nat) /\ Append(claims, now) \in Seq(Nat)
  BY <1>1, AppendProperties DEF TypeOK
<1>3. <<>> \in Seq(Nat)
  BY EmptySeq
<1>4. now + Lockout \in Nat /\ now \in Int
  BY <1>1, RoomAssumption
<1> QED BY <1>2, <1>3, <1>4 DEF TypeOK, RecordAttempt

\* The roles of the peers.
LEMMA Roles ==
    /\ \A s \in Senders : s \in Peers /\ s \notin Receivers /\ s.ws \in Conns
    /\ \A r \in Receivers : /\ r \in Peers /\ r \notin Senders /\ r.ws \in Conns
                            /\ r.n \in Nat /\ r.n >= 1
BY DEF Senders, Receivers, Peers

\* A hello counts, and makes a peer whose number is new.
LEMMA Newcomers ==
    ASSUME TypeOK, NEW w \in Conns, Hello(w)
    PROVE  /\ link[w] \in {"open", "closing"}
           /\ hellos[w] \in Nat /\ hellos'[w] = hellos[w] + 1
           /\ \A x \in Conns \ {w} : hellos'[x] = hellos[x]
           /\ hellos' \in [Conns -> 0 .. MaxHellos]
           /\ \A role \in {"sender", "receiver"} :
                 /\ Newcomer(w, role) \in Peers /\ Newcomer(w, role).ws = w
                 /\ Newcomer(w, role).n = hellos[w] + 1 /\ Newcomer(w, role).role = role
           /\ Newcomer(w, "sender") \in Senders /\ Newcomer(w, "receiver") \in Receivers
<1>1. /\ MaxHellos \in Nat /\ hellos \in [Conns -> 0 .. MaxHellos] /\ hellos[w] \in 0 .. MaxHellos
      /\ link[w] \in {"open", "closing"} /\ hellos[w] < MaxHellos
      /\ hellos' = [hellos EXCEPT ![w] = hellos[w] + 1]
  BY RoomAssumption DEF TypeOK, Hello, RoomAssumption
<1>2. hellos[w] \in Nat /\ hellos[w] + 1 \in 0 .. MaxHellos /\ hellos[w] + 1 \in 1 .. MaxHellos
  BY ONLY <1>1
<1>3. /\ hellos'[w] = hellos[w] + 1 /\ \A x \in Conns \ {w} : hellos'[x] = hellos[x]
      /\ hellos' \in [Conns -> 0 .. MaxHellos]
  BY ONLY <1>1, <1>2, w \in Conns
<1>4. ASSUME NEW role \in {"sender", "receiver"}
      PROVE  /\ Newcomer(w, role) \in Peers /\ Newcomer(w, role).ws = w
             /\ Newcomer(w, role).n = hellos[w] + 1 /\ Newcomer(w, role).role = role
  BY ONLY <1>2, w \in Conns, role \in {"sender", "receiver"} DEF Newcomer, Peers
<1>5. Newcomer(w, "sender") \in Senders /\ Newcomer(w, "receiver") \in Receivers
  BY <1>4 DEF Senders, Receivers
<1> QED BY <1>1, <1>2, <1>3, <1>4, <1>5

LEMMA CloseType ==
    ASSUME TypeOK, NEW W, Close(W)
    PROVE  link' \in [Conns -> Sockets]
BY DEF TypeOK, Close, Sockets

LEMMA DropType ==
    ASSUME TypeOK, NEW S, Drop(S)
    PROVE  /\ peers' \in SUBSET Peers
           /\ order' \in SUBSET (Senders \X Senders)
           /\ accepted' \in SUBSET (peers' \cap Receivers)
BY DEF TypeOK, Drop

LEMMA ConnectType == ASSUME TypeOK, NEW w \in Conns, Connect(w) PROVE TypeOK'
<1>1. link' \in [Conns -> Sockets] /\ stored' \in Storage
  BY DEF TypeOK, Connect, Sockets, Storage
<1> QED BY <1>1 DEF TypeOK, Connect, peerVars, rateVars

LEMMA SenderHelloType ==
    ASSUME TypeOK, NEW w \in Conns, NEW reuse \in BOOLEAN, SenderHello(w, reuse)
    PROVE  TypeOK'
<1>1. now + Ttl \in Nat
  BY RoomAssumption DEF TypeOK, RoomAssumption
<1>2. expiresAt' \in Nat /\ reusable' \in BOOLEAN /\ stored' \in Storage
      /\ openUntil' \in Nat \cup {-1}
  BY <1>1 DEF TypeOK, SenderHello, Grant, Storage
<1>3. Hello(w) /\ Newcomer(w, "sender") \in Senders /\ Newcomer(w, "sender") \in Peers
  BY Newcomers DEF SenderHello
<1>4. peers' \in SUBSET Peers /\ accepted' \in SUBSET (peers' \cap Receivers)
  BY <1>3 DEF TypeOK, SenderHello
<1>5. order' \in SUBSET (Senders \X Senders)
  BY <1>3 DEF TypeOK, SenderHello
<1> QED BY <1>2, <1>3, <1>4, <1>5, Newcomers DEF TypeOK, SenderHello, rateVars

LEMMA HelloType ==
    ASSUME TypeOK, NEW w \in Conns,
           HelloInvalid(w) \/ HelloExpired(w) \/ HelloLockedOut(w) \/ HelloWait(w)
    PROVE  TypeOK'
<1>0. Hello(w)
  BY DEF HelloInvalid, HelloExpired, HelloLockedOut, HelloWait
<1>1. CASE HelloInvalid(w)
  <2>1. /\ Close({w}) /\ RecordAttempt
        /\ UNCHANGED <<now, token, expiresAt, reusable, stored, openUntil, peers, order, accepted,
                       view, served, dismissed, restarts>>
    BY <1>1 DEF HelloInvalid, tokenVars, peerVars
  <2>2. link' \in [Conns -> Sockets] /\ hellos' \in [Conns -> 0 .. MaxHellos]
    BY <1>0, <2>1, CloseType, Newcomers
  <2>3. /\ attempts' \in Seq(Nat) /\ claims' \in Seq(Nat)
        /\ lockedOutUntil' \in Nat /\ lockedAt' \in Int
    BY <2>1, RecordType
  <2> QED BY ONLY TypeOK, <2>1, <2>2, <2>3 DEF TypeOK
<1>2. CASE HelloExpired(w) \/ HelloLockedOut(w)
  <2>1. /\ Close({w})
        /\ UNCHANGED <<now, token, expiresAt, reusable, stored, openUntil, peers, order, accepted,
                       view, served, dismissed, restarts, attempts, lockedOutUntil, claims,
                       lockedAt>>
    BY <1>2 DEF HelloExpired, HelloLockedOut, tokenVars, peerVars, rateVars
  <2>2. link' \in [Conns -> Sockets] /\ hellos' \in [Conns -> 0 .. MaxHellos]
    BY <1>0, <2>1, CloseType, Newcomers
  <2> QED BY ONLY TypeOK, <2>1, <2>2 DEF TypeOK
<1>3. CASE HelloWait(w)
  <2>1. Newcomer(w, "receiver") \in Receivers /\ Newcomer(w, "receiver") \in Peers
    BY <1>0, Newcomers
  <2>2. view' \in [Conns -> SUBSET Receivers]
    BY <1>3, <2>1 DEF TypeOK, HelloWait
  <2>3. peers' \in SUBSET Peers /\ accepted' \in SUBSET (peers' \cap Receivers)
    BY <1>3, <2>1 DEF TypeOK, HelloWait
  <2> QED BY <1>0, <1>3, <2>2, <2>3, Newcomers DEF TypeOK, HelloWait, tokenVars, rateVars
<1> QED BY <1>1, <1>2, <1>3

LEMMA MessageType ==
    ASSUME TypeOK, NEW s \in Senders, NEW r \in Receivers,
           Accept(s, r) \/ Relay(s, r)
    PROVE  TypeOK'
BY DEF TypeOK, Accept, Relay, About, tokenVars, socketVars, rateVars

LEMMA DismissType ==
    ASSUME TypeOK, NEW s \in Senders,
           (\E r \in Receivers : Reject(s, r)) \/ Revoke(s)
    PROVE  TypeOK'
<1>1. CASE \E r \in Receivers : Reject(s, r)
  <2>1. PICK r \in Receivers : Reject(s, r)
    BY <1>1
  <2> QED BY <2>1, DropType, CloseType DEF TypeOK, Reject, tokenVars, rateVars
<1>2. CASE Revoke(s)
  <2>1. stored' \in Storage
    BY <1>2 DEF TypeOK, Revoke, Storage
  <2>2. PICK D \in SUBSET (peers \cap Receivers) :
             Drop(D) /\ Close(WsOf(D)) /\ dismissed' = dismissed \cup D
    BY <1>2 DEF Revoke
  <2> QED BY <1>2, <2>1, <2>2, DropType, CloseType DEF TypeOK, Revoke, rateVars
<1> QED BY <1>1, <1>2

LEMMA EndType ==
    ASSUME TypeOK,
           \/ \E r \in Receivers : ReceiverCloses(r)
           \/ \E s \in Senders : SenderCloses(s)
           \/ \E w \in Conns : StrangerCloses(w)
    PROVE  TypeOK'
<1>0. ASSUME NEW w, Ends(w) PROVE link' \in [Conns -> Sockets]
  BY <1>0 DEF TypeOK, Ends, Sockets
<1>1. CASE \E r \in Receivers : ReceiverCloses(r)
  <2>1. PICK r \in Receivers : ReceiverCloses(r)
    BY <1>1
  <2>2. view' \in [Conns -> SUBSET Receivers]
    BY <2>1 DEF TypeOK, ReceiverCloses
  <2> QED BY <1>0, <2>1, <2>2, DropType DEF TypeOK, ReceiverCloses, tokenVars, rateVars
<1>2. CASE \E s \in Senders : SenderCloses(s)
  <2>1. PICK s \in Senders : SenderCloses(s)
    BY <1>2
  <2>2. link' \in [Conns -> Sockets]
    BY <1>0, <2>1 DEF TypeOK, SenderCloses, Sockets
  <2>3. Drop({s}) \/ Drop(peers)
    BY <2>1 DEF SenderCloses
  <2> QED BY <2>1, <2>2, <2>3, DropType DEF TypeOK, SenderCloses, tokenVars, rateVars
<1>3. CASE \E w \in Conns : StrangerCloses(w)
  BY <1>0, <1>3 DEF TypeOK, StrangerCloses, tokenVars, peerVars, rateVars
<1> QED BY <1>1, <1>2, <1>3

LEMMA RestartType ==
    ASSUME TypeOK, \/ Restart
                   \/ \E w \in Conns : HelloCut(w)
                   \/ \E s \in Senders : RevokeCut(s)
    PROVE  TypeOK'
<1>1. \E st \in Storage : /\ StartFrom(st) /\ openUntil' \in Nat \cup {-1}
                         /\ hellos' \in [Conns -> 0 .. MaxHellos]
  <2>1. CASE Restart
    BY <2>1 DEF TypeOK, Restart
  <2>2. CASE \E w \in Conns : HelloCut(w)
    <3>1. now + Ttl \in Nat
      BY RoomAssumption DEF TypeOK, RoomAssumption
    <3>2. [stored EXCEPT !.expiresAt = now + Ttl] \in Storage
      BY <3>1 DEF TypeOK, Storage
    <3> QED BY <2>2, <3>1, <3>2, Newcomers DEF HelloCut
  <2>3. CASE \E s \in Senders : RevokeCut(s)
    <3>1. [stored EXCEPT !.token = FALSE] \in Storage
      BY DEF TypeOK, Storage
    <3> QED BY <2>3, <3>1 DEF TypeOK, RevokeCut
  <2> QED BY <2>1, <2>2, <2>3
<1>2. PICK st \in Storage : /\ StartFrom(st) /\ openUntil' \in Nat \cup {-1}
                          /\ hellos' \in [Conns -> 0 .. MaxHellos]
  BY <1>1
<1>3. link' \in [Conns -> Sockets] /\ view' \in [Conns -> SUBSET Receivers]
  BY <1>2 DEF TypeOK, StartFrom, Sockets
<1>4. /\ peers' \in SUBSET Peers
      /\ order' \in SUBSET (Senders \X Senders)
      /\ accepted' \in SUBSET (peers' \cap Receivers)
  BY <1>2, DropType DEF StartFrom
<1>5. -Lockout \in Int /\ <<>> \in Seq(Nat)
  BY RoomAssumption, EmptySeq DEF RoomAssumption
<1> QED BY <1>2, <1>3, <1>4, <1>5 DEF TypeOK, StartFrom, Storage

LEMMA TypeNext == TypeOK /\ [Next]_roomVars => TypeOK'
<1> SUFFICES ASSUME TypeOK, [Next]_roomVars PROVE TypeOK'
  OBVIOUS
<1>1. CASE \E w \in Conns : OfConnection(w)
  BY <1>1, ConnectType, SenderHelloType, HelloType, EndType, RestartType DEF OfConnection
<1>2. CASE \E s \in Senders : OfSender(s)
  BY <1>2, MessageType, DismissType, EndType, RestartType DEF OfSender
<1>3. CASE \E r \in Receivers : ReceiverCloses(r)
  BY <1>3, EndType
<1>4. CASE Restart
  BY <1>4, RestartType
<1>5. CASE Tick
  BY <1>5 DEF TypeOK, Tick, tokenVars, socketVars, peerVars, rateVars
<1>6. CASE UNCHANGED roomVars
  BY <1>6 DEF TypeOK, roomVars, tokenVars, socketVars, peerVars, rateVars
<1> QED BY <1>1, <1>2, <1>3, <1>4, <1>5, <1>6 DEF Next

\* The room keeps its types under every message, close and restart.
THEOREM RoomTypeCorrect == Spec => []TypeOK
<1>1. Init => TypeOK
  BY TypeInit
<1>2. TypeOK /\ [Next]_roomVars => TypeOK'
  BY TypeNext
<1> QED BY <1>1, <1>2, PTL DEF Spec

-----------------------------------------------------------------------------
(* Every peer belongs to a hello of its own.                               *)

Numbered ==
    /\ \A p \in peers : p.n <= hellos[p.ws]
    /\ \A p, q \in peers : p.ws = q.ws /\ p.n = q.n => p = q

PeersInv == TypeOK /\ Numbered

LEMMA NumberedJoin ==
    ASSUME TypeOK, Numbered, NEW w \in Conns, Hello(w), NEW role \in {"sender", "receiver"},
           peers' \in SUBSET (peers \cup {Newcomer(w, role)})
    PROVE  Numbered'
<1>1. \A p \in peers : /\ p.ws \in Conns /\ p.n \in Nat /\ p.n <= hellos[p.ws]
                       /\ hellos[p.ws] \in Nat
  BY DEF TypeOK, Peers, Numbered
<1>2. /\ hellos[w] \in Nat /\ hellos'[w] = hellos[w] + 1
      /\ \A x \in Conns \ {w} : hellos'[x] = hellos[x]
      /\ Newcomer(w, role).ws = w /\ Newcomer(w, role).n = hellos[w] + 1
  BY Newcomers
<1>3. \A p \in peers : p.n <= hellos'[p.ws]
  BY <1>1, <1>2
<1>4. \A p \in peers' : p.n <= hellos'[p.ws]
  BY <1>2, <1>3
<1>5. \A p \in peers : p.ws = w => p.n # hellos[w] + 1
  BY <1>1
<1>6. \A p, q \in peers' : p.ws = q.ws /\ p.n = q.n => p = q
  <2> SUFFICES ASSUME NEW p \in peers', NEW q \in peers', p.ws = q.ws, p.n = q.n
               PROVE  p = q
    OBVIOUS
  <2>1. CASE p \in peers /\ q \in peers
    BY <2>1 DEF Numbered
  <2>2. CASE p = Newcomer(w, role)
    BY <1>2, <1>5, <2>2
  <2>3. CASE q = Newcomer(w, role)
    BY <1>2, <1>5, <2>3
  <2> QED BY <2>1, <2>2, <2>3
<1> QED BY <1>4, <1>6 DEF Numbered

LEMMA NumberedKept ==
    ASSUME Numbered, peers' \in SUBSET peers, UNCHANGED hellos
    PROVE  Numbered'
BY DEF Numbered

LEMMA NumberedNext == PeersInv /\ [Next]_roomVars => PeersInv'
<1> SUFFICES ASSUME TypeOK, Numbered, [Next]_roomVars PROVE Numbered'
  BY TypeNext DEF PeersInv
<1>1. ASSUME NEW w \in Conns, OfConnection(w) PROVE Numbered'
  <2>1. CASE \E reuse \in BOOLEAN : SenderHello(w, reuse)
    <3>1. Hello(w) /\ peers' \in SUBSET (peers \cup {Newcomer(w, "sender")})
      BY <2>1 DEF SenderHello
    <3> QED BY <3>1, NumberedJoin
  <2>2. CASE HelloInvalid(w) \/ HelloExpired(w) \/ HelloLockedOut(w) \/ HelloWait(w)
    <3>1. Hello(w) /\ peers' \in SUBSET (peers \cup {Newcomer(w, "receiver")})
      BY <2>2 DEF HelloInvalid, HelloExpired, HelloLockedOut, HelloWait, peerVars
    <3> QED BY <3>1, NumberedJoin
  <2>3. CASE HelloCut(w)
    <3>1. Hello(w) /\ peers' \in SUBSET (peers \cup {Newcomer(w, "sender")})
      BY <2>3 DEF HelloCut, StartFrom, Drop
    <3> QED BY <3>1, NumberedJoin
  <2>4. CASE Connect(w) \/ StrangerCloses(w)
    BY <2>4, NumberedKept DEF Connect, StrangerCloses, peerVars
  <2> QED BY <1>1, <2>1, <2>2, <2>3, <2>4 DEF OfConnection
<1>2. ASSUME NEW s \in Senders, OfSender(s) PROVE Numbered'
  <2>1. UNCHANGED hellos
    BY <1>2 DEF OfSender, Accept, Reject, Relay, Revoke, SenderCloses, RevokeCut, socketVars
  <2>2. peers' \in SUBSET peers
    BY <1>2 DEF OfSender, Accept, Reject, Relay, Revoke, SenderCloses, RevokeCut, StartFrom, Drop
  <2> QED BY <2>1, <2>2, NumberedKept
<1>3. CASE \E r \in Receivers : ReceiverCloses(r)
  BY <1>3, NumberedKept DEF ReceiverCloses, Drop
<1>4. CASE Restart \/ Tick \/ UNCHANGED roomVars
  BY <1>4, NumberedKept DEF Restart, StartFrom, Drop, Tick, roomVars, socketVars, peerVars
<1> QED BY <1>1, <1>2, <1>3, <1>4 DEF Next

LEMMA PeersInvariance == Spec => []PeersInv
<1>1. Init => PeersInv
  BY TypeInit DEF Init, PeersInv, Numbered
<1> QED BY <1>1, NumberedNext, PTL DEF Spec

-----------------------------------------------------------------------------
(* The room implements the waiting room.                                   *)

Standings == [r \in Receivers |-> Standing(r)]

LEMMA SameStandings ==
    ASSUME UNCHANGED <<hellos, peers, accepted>>
    PROVE  Standings' = Standings
BY DEF Standings, Standing

\* Receivers leave; the others stay where they are.
LEMMA Dismissed ==
    ASSUME served' = served,
           \A r \in Receivers : Standing(r)' \in {Standing(r), "out"}
    PROVE  WR!WRNext
<1>1. Standings' \in [Receivers -> WR!Stages]
  BY DEF Standings, Standing, WR!Stages
<1>2. \A r \in Receivers : Standings'[r] \in {Standings[r], "out"}
  BY DEF Standings
<1>3. WR!Dismiss
  BY <1>1, <1>2 DEF WR!Dismiss, Standings
<1> QED BY <1>3 DEF WR!WRNext

\* Where the others stand when somebody says hello.
LEMMA HelloStandings ==
    ASSUME TypeOK, Numbered, NEW w \in Conns, Hello(w),
           NEW r \in Receivers, UNCHANGED accepted,
           r \in peers' <=> r \in peers
    PROVE  Standing(r)' \in {Standing(r), "out"}
<1>1. /\ hellos[r.ws] \in Nat /\ r.n \in Nat
      /\ hellos'[r.ws] = hellos[r.ws] \/ hellos'[r.ws] = hellos[r.ws] + 1
  BY Newcomers, Roles DEF TypeOK
<1>2. CASE hellos[r.ws] < r.n
  BY <1>2 DEF Standing
<1>3. CASE ~(hellos[r.ws] < r.n)
  <2>1. ~(hellos'[r.ws] < r.n)
    BY <1>1, <1>3
  <2> QED BY <1>3, <2>1 DEF Standing
<1> QED BY <1>2, <1>3

LEMMA WaitStep ==
    ASSUME TypeOK, Numbered, NEW w \in Conns, HelloWait(w)
    PROVE  WR!WRNext
<1>a. Hello(w) /\ peers' = peers \cup {Newcomer(w, "receiver")} /\ UNCHANGED <<accepted, served>>
  BY DEF HelloWait
<1>b. PICK r \in Receivers : r = Newcomer(w, "receiver")
  BY <1>a, Newcomers
<1>0. /\ r.ws = w /\ r.n = hellos[w] + 1 /\ hellos[w] \in Nat
      /\ hellos'[w] = hellos[w] + 1
      /\ \A x \in Conns \ {w} : hellos'[x] = hellos[x]
      /\ peers' = peers \cup {r} /\ UNCHANGED <<accepted, served>>
  BY <1>a, <1>b, Newcomers
<1>1. r \notin peers /\ r \notin accepted
  <2>1. ~(r.n <= hellos[r.ws])
    BY <1>0
  <2> QED BY <2>1 DEF Numbered, TypeOK
<1>2. Standing(r) = "outside"
  <2>1. hellos[r.ws] < r.n
    BY <1>0
  <2> QED BY <1>1, <2>1 DEF Standing
<1>3. Standing(r)' = "waiting"
  BY <1>0, <1>1 DEF Standing
<1>4. ASSUME NEW x \in Receivers \ {r}
      PROVE  Standing(x)' = Standing(x)
  <2>1. (x \in peers' <=> x \in peers) /\ (x \in accepted' <=> x \in accepted)
    BY <1>0
  <2>2. hellos'[x.ws] < x.n <=> hellos[x.ws] < x.n
    <3>1. CASE x.ws # w
      BY <1>0, <3>1, Roles
    <3>2. CASE x.ws = w
      <4>1. x.n # r.n
        BY <1>0, <3>2 DEF Receivers, Peers
      <4> QED BY <1>0, <3>2, <4>1, Roles
    <3> QED BY <3>1, <3>2
  <2> QED BY <2>1, <2>2 DEF Standing
<1>5. Standings' = [Standings EXCEPT ![r] = "waiting"]
  BY <1>3, <1>4 DEF Standings
<1>6. WR!Knock(r)
  BY <1>0, <1>2, <1>5 DEF WR!Knock, Standings
<1> QED BY <1>0, <1>6 DEF WR!WRNext

LEMMA AcceptStep ==
    ASSUME TypeOK, NEW s \in Senders, NEW r \in Receivers, Accept(s, r)
    PROVE  WR!WRNext \/ UNCHANGED WR!wrVars
<1>0. /\ accepted' = accepted \cup {r} /\ UNCHANGED <<hellos, peers, served>>
      /\ r \in peers
  BY DEF Accept, About, socketVars
<1>1. CASE r \in accepted
  <2>1. accepted' = accepted
    BY <1>0, <1>1
  <2>2. UNCHANGED WR!wrVars
    BY <1>0, <2>1, SameStandings DEF WR!wrVars, Standings
  <2> QED BY <2>2
<1>2. CASE r \notin accepted
  <2>1. Standing(r) = "waiting" /\ Standing(r)' = "admitted"
    BY <1>0, <1>2 DEF Standing
  <2>2. \A x \in Receivers \ {r} : Standing(x)' = Standing(x)
    BY <1>0 DEF Standing
  <2>3. Standings' = [Standings EXCEPT ![r] = "admitted"]
    BY <2>1, <2>2 DEF Standings
  <2>4. WR!Admit(r)
    BY <1>0, <2>1, <2>3 DEF WR!Admit, Standings
  <2> QED BY <2>4 DEF WR!WRNext
<1> QED BY <1>1, <1>2

LEMMA RelayStep ==
    ASSUME NEW s \in Senders, NEW r \in Receivers, Relay(s, r)
    PROVE  WR!WRNext
<1>1. Standing(r) = "admitted"
  BY DEF Standing, Relay
<1>2. Standings' = Standings
  BY SameStandings DEF Relay, socketVars
<1>3. WR!Serve(r)
  BY <1>1, <1>2 DEF WR!Serve, Standings, Relay
<1> QED BY <1>3 DEF WR!WRNext

\* The peers of S leave.
LEMMA DropStep ==
    ASSUME TypeOK, Numbered, NEW S, Drop(S), served' = served, UNCHANGED hellos
    PROVE  WR!WRNext
<1> SUFFICES ASSUME NEW r \in Receivers
             PROVE  Standing(r)' \in {Standing(r), "out"}
  BY Dismissed
<1>1. CASE r \in S /\ r \in peers
  <2>1. r \notin peers' /\ r \notin accepted'
    BY <1>1 DEF Drop
  <2>2. ~(hellos'[r.ws] < r.n)
    <3>1. r.n <= hellos[r.ws] /\ r.n \in Nat /\ hellos[r.ws] \in Nat
      BY <1>1, Roles DEF TypeOK, Numbered
    <3> QED BY <3>1
  <2> QED BY <2>1, <2>2 DEF Standing
<1>2. CASE ~(r \in S /\ r \in peers)
  <2>1. (r \in peers' <=> r \in peers) /\ (r \in accepted' <=> r \in accepted)
    BY <1>2 DEF Drop, TypeOK
  <2> QED BY <2>1 DEF Standing
<1> QED BY <1>1, <1>2

\* A hello the room refuses, or that makes a sender.
LEMMA RefuseStep ==
    ASSUME TypeOK, Numbered, NEW w \in Conns,
           \/ \E reuse \in BOOLEAN : SenderHello(w, reuse)
           \/ HelloInvalid(w) \/ HelloExpired(w) \/ HelloLockedOut(w)
    PROVE  WR!WRNext
<1>1. /\ Hello(w) /\ UNCHANGED <<accepted, served>>
      /\ \A r \in Receivers : r \in peers' <=> r \in peers
  <2>1. Hello(w)
    BY DEF SenderHello, HelloInvalid, HelloExpired, HelloLockedOut
  <2>2. Newcomer(w, "sender") \notin Receivers
    BY <2>1, Newcomers, Roles
  <2> QED BY <2>1, <2>2 DEF SenderHello, HelloInvalid, HelloExpired, HelloLockedOut, peerVars
<1>2. \A r \in Receivers : Standing(r)' \in {Standing(r), "out"}
  BY <1>1, HelloStandings
<1> QED BY <1>1, <1>2, Dismissed

LEMMA CutStep ==
    ASSUME TypeOK, Numbered, NEW w \in Conns, HelloCut(w)
    PROVE  WR!WRNext
<1>1. Hello(w) /\ peers' = {} /\ accepted' = {} /\ served' = served
  BY DEF HelloCut, StartFrom, Drop, TypeOK
<1> SUFFICES ASSUME NEW r \in Receivers
             PROVE  Standing(r)' \in {Standing(r), "out"}
  BY <1>1, Dismissed
<1>2. /\ hellos[r.ws] \in Nat /\ r.n \in Nat /\ r.ws \in Conns
      /\ hellos'[r.ws] = hellos[r.ws] \/ hellos'[r.ws] = hellos[r.ws] + 1
  BY <1>1, Newcomers, Roles DEF TypeOK
<1>3. CASE r \in peers
  <2>1. r.n <= hellos[r.ws]
    BY <1>3 DEF Numbered
  <2>2. ~(hellos'[r.ws] < r.n)
    BY <1>2, <2>1
  <2> QED BY <1>1, <2>2 DEF Standing
<1>4. CASE r \notin peers
  <2>1. r \notin accepted
    BY <1>4 DEF TypeOK
  <2>2. hellos'[r.ws] < r.n => hellos[r.ws] < r.n
    BY <1>2
  <2> QED BY <1>1, <1>4, <2>1, <2>2 DEF Standing
<1> QED BY <1>3, <1>4

LEMMA ConnectionStep ==
    ASSUME TypeOK, Numbered, NEW w \in Conns, OfConnection(w)
    PROVE  WR!WRNext \/ UNCHANGED WR!wrVars
<1>1. CASE Connect(w) \/ StrangerCloses(w)
  <2>1. UNCHANGED <<hellos, peers, accepted, served>>
    BY <1>1 DEF Connect, StrangerCloses, peerVars
  <2> QED BY <2>1, SameStandings DEF WR!wrVars, Standings
<1> QED BY <1>1, RefuseStep, WaitStep, CutStep DEF OfConnection

LEMMA SenderStep ==
    ASSUME TypeOK, Numbered, NEW s \in Senders, OfSender(s)
    PROVE  WR!WRNext \/ UNCHANGED WR!wrVars
<1>1. CASE \E r \in Receivers : Accept(s, r)
  BY <1>1, AcceptStep
<1>2. CASE \E r \in Receivers : Relay(s, r)
  BY <1>2, RelayStep
<1>3. CASE \E r \in Receivers : Reject(s, r)
  BY <1>3, DropStep DEF Reject
<1>4. CASE Revoke(s)
  BY <1>4, DropStep DEF Revoke
<1>5. CASE SenderCloses(s)
  BY <1>5, DropStep DEF SenderCloses
<1>6. CASE RevokeCut(s)
  BY <1>6, DropStep DEF RevokeCut, StartFrom
<1> QED BY <1>1, <1>2, <1>3, <1>4, <1>5, <1>6 DEF OfSender

LEMMA WaitingRoomStep ==
    PeersInv /\ [Next]_roomVars => [WR!WRNext]_(WR!wrVars)
<1> SUFFICES ASSUME TypeOK, Numbered, [Next]_roomVars
             PROVE  WR!WRNext \/ UNCHANGED WR!wrVars
  BY DEF PeersInv
<1>1. CASE Restart
  BY <1>1, DropStep DEF Restart, StartFrom
<1>2. CASE \E r \in Receivers : ReceiverCloses(r)
  BY <1>2, DropStep DEF ReceiverCloses
<1>3. CASE Tick \/ UNCHANGED roomVars
  <2>1. UNCHANGED <<hellos, peers, accepted, served>>
    BY <1>3 DEF Tick, roomVars, socketVars, peerVars
  <2> QED BY <2>1, SameStandings DEF WR!wrVars, Standings
<1> QED BY <1>1, <1>2, <1>3, ConnectionStep, SenderStep DEF Next

\* The room, with its storage, restarts and limits, is the waiting room: what
\* relayToPeer and onClose do is what the service promises.
THEOREM RoomIsWaitingRoom == Spec => IsWaitingRoom
<1>1. Init => WR!WRInit
  <2> SUFFICES ASSUME Init, NEW r \in Receivers PROVE Standing(r) = "outside"
    BY DEF Init, WR!WRInit
  <2>1. hellos[r.ws] < r.n
    BY Roles DEF Init
  <2> QED BY <2>1 DEF Init, Standing
<1>2. PeersInv /\ [Next]_roomVars => [WR!WRNext]_(WR!wrVars)
  BY WaitingRoomStep
<1> QED BY <1>1, <1>2, PeersInvariance, PTL DEF Spec, IsWaitingRoom, WR!WRSpec

-----------------------------------------------------------------------------
(* A receiver gets in only when entry is due.                              *)

\* The deadline in memory, and the one a restart would load, is the one the
\* last sender set; a lockout in memory is one that started.
Deadline ==
    /\ expiresAt # 0 => expiresAt = openUntil
    /\ stored.expiresAt # 0 => stored.expiresAt = openUntil
    /\ lockedAt + Lockout <= lockedOutUntil

DeadlineInv == TypeOK /\ Deadline

LEMMA DeadlineInit == Init => DeadlineInv
BY TypeInit, RoomAssumption DEF Init, DeadlineInv, Deadline

LEMMA DeadlineSame ==
    ASSUME Deadline, UNCHANGED <<expiresAt, stored, openUntil, lockedAt, lockedOutUntil>>
    PROVE  Deadline'
BY DEF Deadline

LEMMA DeadlineFrom ==
    ASSUME NEW st \in Storage, StartFrom(st),
           st.expiresAt # 0 => st.expiresAt = openUntil'
    PROVE  Deadline'
<1>1. -Lockout + Lockout <= 0
  BY RoomAssumption
<1> QED BY <1>1 DEF StartFrom, Deadline

LEMMA DeadlineConnection ==
    ASSUME TypeOK, Deadline, NEW w \in Conns, OfConnection(w)
    PROVE  Deadline'
<1>0. now + Ttl \in Nat
  BY RoomAssumption DEF TypeOK, RoomAssumption
<1>1. CASE \E reuse \in BOOLEAN : SenderHello(w, reuse)
  BY <1>0, <1>1 DEF SenderHello, Grant, Deadline, rateVars
<1>2. CASE HelloInvalid(w)
  <2>1. UNCHANGED <<expiresAt, stored, openUntil>> /\ RecordAttempt
    BY <1>2 DEF HelloInvalid, tokenVars
  <2> QED BY <2>1, RoomAssumption DEF RecordAttempt, Deadline, TypeOK
<1>3. CASE HelloExpired(w) \/ HelloLockedOut(w) \/ HelloWait(w) \/ StrangerCloses(w)
  <2>1. UNCHANGED <<expiresAt, stored, openUntil, lockedAt, lockedOutUntil>>
    BY <1>3 DEF HelloExpired, HelloLockedOut, HelloWait, StrangerCloses, tokenVars, rateVars
  <2> QED BY <2>1, DeadlineSame
<1>4. CASE Connect(w)
  <2>1. stored'.expiresAt = stored.expiresAt
        /\ UNCHANGED <<expiresAt, openUntil, lockedAt, lockedOutUntil>>
    BY <1>4 DEF Connect, rateVars, TypeOK, Storage
  <2> QED BY <2>1 DEF Deadline
<1>5. CASE HelloCut(w)
  <2> DEFINE st == [stored EXCEPT !.expiresAt = now + Ttl]
  <2>1. st \in Storage /\ st.expiresAt = now + Ttl
    BY <1>0 DEF TypeOK, Storage
  <2>2. StartFrom(st) /\ openUntil' = now + Ttl
    BY <1>5 DEF HelloCut
  <2> HIDE DEF st
  <2> QED BY <2>1, <2>2, DeadlineFrom
<1> QED BY <1>1, <1>2, <1>3, <1>4, <1>5 DEF OfConnection

LEMMA DeadlineSender ==
    ASSUME TypeOK, Deadline, NEW s \in Senders, OfSender(s)
    PROVE  Deadline'
<1>1. CASE \E r \in Receivers : Accept(s, r) \/ Relay(s, r) \/ Reject(s, r)
  <2>1. UNCHANGED <<expiresAt, stored, openUntil, lockedAt, lockedOutUntil>>
    BY <1>1 DEF Accept, Relay, Reject, tokenVars, rateVars
  <2> QED BY <2>1, DeadlineSame
<1>2. CASE Revoke(s)
  <2>1. expiresAt' = 0 /\ stored'.expiresAt = 0
        /\ UNCHANGED <<lockedAt, lockedOutUntil>>
    BY <1>2 DEF Revoke, rateVars, TypeOK, Storage
  <2> QED BY <2>1 DEF Deadline
<1>3. CASE SenderCloses(s)
  <2>1. UNCHANGED <<expiresAt, stored, openUntil, lockedAt, lockedOutUntil>>
    BY <1>3 DEF SenderCloses, tokenVars, rateVars
  <2> QED BY <2>1, DeadlineSame
<1>4. CASE RevokeCut(s)
  <2> DEFINE st == [stored EXCEPT !.token = FALSE]
  <2>1. st \in Storage /\ st.expiresAt = stored.expiresAt
    BY DEF TypeOK, Storage
  <2>2. StartFrom(st) /\ openUntil' = openUntil
    BY <1>4 DEF RevokeCut
  <2> HIDE DEF st
  <2> QED BY <2>1, <2>2, DeadlineFrom DEF Deadline
<1> QED BY <1>1, <1>2, <1>3, <1>4 DEF OfSender

LEMMA DeadlineNext == DeadlineInv /\ [Next]_roomVars => DeadlineInv'
<1> SUFFICES ASSUME TypeOK, Deadline, [Next]_roomVars PROVE Deadline'
  BY TypeNext DEF DeadlineInv
<1>1. CASE \E r \in Receivers : ReceiverCloses(r)
  <2>1. UNCHANGED <<expiresAt, stored, openUntil, lockedAt, lockedOutUntil>>
    BY <1>1 DEF ReceiverCloses, tokenVars, rateVars
  <2> QED BY <2>1, DeadlineSame
<1>2. CASE Restart
  BY <1>2, DeadlineFrom DEF Restart, TypeOK, Deadline
<1>3. CASE Tick \/ UNCHANGED roomVars
  <2>1. UNCHANGED <<expiresAt, stored, openUntil, lockedAt, lockedOutUntil>>
    BY <1>3 DEF Tick, roomVars, tokenVars, rateVars
  <2> QED BY <2>1, DeadlineSame
<1> QED BY <1>1, <1>2, <1>3, DeadlineConnection, DeadlineSender DEF Next

\* Only the waiting branch of handleHello lets a receiver in.
LEMMA EntryIsWait ==
    ASSUME TypeOK, [Next]_roomVars, (peers' \ peers) \cap Receivers # {}
    PROVE  now >= 1 /\ now <= expiresAt /\ now >= lockedOutUntil
<1>1. CASE \E w \in Conns : HelloWait(w)
  BY <1>1 DEF HelloWait, TypeOK
<1>2. ASSUME NEW w \in Conns, OfConnection(w), ~HelloWait(w) PROVE FALSE
  <2>1. CASE \E reuse \in BOOLEAN : SenderHello(w, reuse)
    <3>1. Hello(w) /\ peers' = peers \cup {Newcomer(w, "sender")}
      BY <2>1 DEF SenderHello
    <3>2. Newcomer(w, "sender") \notin Receivers
      BY <3>1, Newcomers, Roles
    <3> QED BY <3>1, <3>2
  <2>2. CASE ~\E reuse \in BOOLEAN : SenderHello(w, reuse)
    BY <1>2, <2>2 DEF OfConnection, Connect, HelloInvalid, HelloExpired, HelloLockedOut, HelloCut,
       StrangerCloses, StartFrom, Drop, peerVars
  <2> QED BY <2>1, <2>2
<1>3. ASSUME NEW s \in Senders, OfSender(s) PROVE FALSE
  BY <1>3 DEF OfSender, Accept, Reject, Relay, Revoke, SenderCloses, RevokeCut, StartFrom, Drop
<1>4. CASE (\E r \in Receivers : ReceiverCloses(r)) \/ Restart \/ Tick \/ UNCHANGED roomVars
  BY <1>4 DEF ReceiverCloses, Restart, StartFrom, Drop, Tick, roomVars, peerVars
<1> QED BY <1>1, <1>2, <1>3, <1>4 DEF Next

\* A receiver gets in only before the deadline the last sender set, not after
\* a revoke, and not during a lockout (handleHello), restarts included.
THEOREM EntryIsAlwaysDue == Spec => EntryIsDue
<1>1. DeadlineInv /\ [Next]_roomVars =>
        [(peers' \ peers) \cap Receivers # {} =>
             now <= openUntil /\ now >= lockedAt + Lockout]_roomVars
  <2> SUFFICES ASSUME TypeOK, Deadline, [Next]_roomVars,
                      (peers' \ peers) \cap Receivers # {}
               PROVE  now <= openUntil /\ now >= lockedAt + Lockout
    BY DEF DeadlineInv
  <2>1. now >= 1 /\ now <= expiresAt /\ now >= lockedOutUntil
    BY EntryIsWait
  <2> QED BY <2>1, RoomAssumption DEF Deadline, TypeOK
<1> QED BY <1>1, DeadlineInit, DeadlineNext, PTL DEF Spec, EntryIsDue

-----------------------------------------------------------------------------
(* What a sender was told stays true.                                      *)

\* Of two senders in the room one joined first.
Seniority ==
    /\ order \in SUBSET ((peers \cap Senders) \X (peers \cap Senders))
    /\ \A x \in peers \cap Senders : <<x, x>> \notin order
    /\ \A x, y \in peers \cap Senders : x # y => <<x, y>> \in order \/ <<y, x>> \in order

\* Only the first sender was ever told of a receiver.
Listening == \A w \in Conns : link[w] = "open" /\ view[w] # {} => w \in WsOf(FindSender)

\* A connection hears nothing before it is open, and the room closes only
\* those that said hello.
Quiet == \A w \in Conns : /\ link[w] = "unused" => view[w] = {}
                          /\ link[w] = "closing" => hellos[w] > 0

\* A receiver that was announced leaves only if a sender sends it away.
Announced == \A s \in peers \cap Senders : link[s.ws] = "open" =>
                 view[s.ws] \subseteq peers \cup dismissed

\* A connection that said hello once is open as long as its peer is there.
Once == \A p \in peers : hellos[p.ws] <= 1 => link[p.ws] = "open"

Told == Seniority /\ Listening /\ Quiet /\ Announced /\ Once

SenderInv == PeersInv /\ Told

\* The peer of a connection that said hello once is its only one.
LEMMA OnlyPeer ==
    ASSUME TypeOK, Numbered, NEW p \in peers, NEW q \in peers, p.ws = q.ws, hellos[p.ws] <= 1
    PROVE  p = q
<1>1. p.n \in Nat /\ p.n >= 1 /\ q.n \in Nat /\ q.n >= 1 /\ hellos[p.ws] \in Nat
  BY DEF TypeOK, Peers
<1>2. p.n <= hellos[p.ws] /\ q.n <= hellos[p.ws]
  BY DEF Numbered
<1>3. p.n = 1 /\ q.n = 1
  BY ONLY <1>1, <1>2, hellos[p.ws] <= 1
<1> QED BY <1>3 DEF Numbered

\* A peer's connection said hello.
LEMMA Spoke ==
    ASSUME TypeOK, Numbered, NEW p \in peers
    PROVE  p.ws \in Conns /\ hellos[p.ws] \in Nat /\ hellos[p.ws] > 0
<1>1. p.ws \in Conns /\ p.n \in Nat /\ p.n >= 1 /\ hellos[p.ws] \in Nat
  BY DEF TypeOK, Peers
<1>2. p.n <= hellos[p.ws]
  BY DEF Numbered
<1> QED BY <1>1, <1>2

LEMMA SenderInvInit == Init => SenderInv
<1> SUFFICES ASSUME Init PROVE SenderInv
  OBVIOUS
<1>1. /\ peers = {} /\ order = {} /\ \A w \in Conns : view[w] = {} /\ link[w] = "unused"
  BY DEF Init
<1>2. PeersInv
  BY <1>1, TypeInit DEF PeersInv, Numbered
<1>3. Seniority /\ Listening /\ Quiet /\ Announced /\ Once
  BY <1>1 DEF Seniority, Listening, Quiet, Announced, Once
<1> QED BY <1>2, <1>3 DEF SenderInv, Told

\* Nobody joins or leaves; no connection that heard something opens.
LEMMA ToldSame ==
    ASSUME TypeOK, Told, UNCHANGED <<peers, order, view, dismissed>>,
           \A w \in Conns : link'[w] = "open" => link[w] = "open" \/ view[w] = {}
    PROVE  Seniority' /\ Listening' /\ Announced'
<1>1. FindSender' = FindSender
  BY DEF FindSender
<1>2. Seniority'
  BY DEF Seniority, Told
<1>3. Listening'
  BY <1>1 DEF Listening, Told, WsOf
<1>4. Announced'
  <2> SUFFICES ASSUME NEW s \in peers \cap Senders, link'[s.ws] = "open"
               PROVE  view[s.ws] \subseteq peers \cup dismissed
    BY DEF Announced
  <2>1. s.ws \in Conns
    BY Roles
  <2>2. link[s.ws] = "open" \/ view[s.ws] = {}
    BY <2>1
  <2> QED BY <2>2 DEF Announced, Told
<1> QED BY <1>2, <1>3, <1>4

\* The peers of S leave, and with them at most their connections; what the
\* first sender still sees of S was sent away.
LEMMA Leave ==
    ASSUME TypeOK, Numbered, Told, NEW S \in SUBSET peers, Drop(S), UNCHANGED hellos,
           dismissed \subseteq dismissed',
           \A w \in Conns : view'[w] \subseteq view[w],
           \A w \in Conns : \/ link'[w] = link[w]
                            \/ w \in WsOf(S) /\ link'[w] \in {"closing", "closed"},
           \A s \in S \cap Senders : link'[s.ws] # "open",
           \A w \in WsOf(FindSender) : link'[w] = "open" => view'[w] \cap S \subseteq dismissed'
    PROVE  Told'
<1>0. peers' = peers \ S /\ order' = {o \in order : o[1] \notin S /\ o[2] \notin S}
  BY DEF Drop
<1>1. Seniority'
  <2>1. order' \in SUBSET ((peers' \cap Senders) \X (peers' \cap Senders))
    <3> SUFFICES ASSUME NEW o \in order'
                 PROVE  o \in (peers' \cap Senders) \X (peers' \cap Senders)
      OBVIOUS
    <3>1. o \in order /\ o[1] \notin S /\ o[2] \notin S
      BY <1>0
    <3>2. o[1] \in peers \cap Senders /\ o[2] \in peers \cap Senders /\ o = <<o[1], o[2]>>
      BY <3>1 DEF Seniority, Told
    <3>3. o[1] \in peers' \cap Senders /\ o[2] \in peers' \cap Senders
      BY <1>0, <3>1, <3>2
    <3> QED BY <3>2, <3>3
  <2>2. \A x \in peers' \cap Senders : <<x, x>> \notin order'
    BY <1>0 DEF Seniority, Told
  <2>3. ASSUME NEW x \in peers' \cap Senders, NEW y \in peers' \cap Senders, x # y
        PROVE  <<x, y>> \in order' \/ <<y, x>> \in order'
    <3>1. x \in peers \cap Senders /\ y \in peers \cap Senders /\ x \notin S /\ y \notin S
      BY <1>0
    <3>2. <<x, y>> \in order \/ <<y, x>> \in order
      BY <2>3, <3>1 DEF Seniority, Told
    <3>3. <<x, y>>[1] = x /\ <<x, y>>[2] = y /\ <<y, x>>[1] = y /\ <<y, x>>[2] = x
      OBVIOUS
    <3> QED BY <1>0, <3>1, <3>2, <3>3
  <2> QED BY <2>1, <2>2, <2>3 DEF Seniority
<1>2. ASSUME NEW w \in Conns, link'[w] = "open" PROVE link[w] = "open"
  BY <1>2
<1>3. ASSUME NEW f \in FindSender, link'[f.ws] = "open" PROVE f \in FindSender'
  <2>1. f \in peers \cap Senders /\ \A x \in peers \cap Senders : <<x, f>> \notin order
    BY <1>3 DEF FindSender
  <2>2. f \notin S
    BY <1>3, <2>1
  <2>3. f \in peers' \cap Senders /\ \A x \in peers' \cap Senders : <<x, f>> \notin order'
    BY <1>0, <2>1, <2>2
  <2> QED BY <2>3 DEF FindSender
<1>4. Listening'
  <2> SUFFICES ASSUME NEW w \in Conns, link'[w] = "open", view'[w] # {}
               PROVE  w \in WsOf(FindSender)'
    BY DEF Listening
  <2>1. link[w] = "open" /\ view[w] # {}
    BY <1>2
  <2>2. w \in WsOf(FindSender)
    BY <2>1 DEF Listening, Told
  <2>3. PICK f \in FindSender : f.ws = w
    BY <2>2 DEF WsOf
  <2>4. f \in FindSender'
    BY <1>3, <2>3
  <2> QED BY <2>3, <2>4 DEF WsOf
<1>5. Quiet'
  <2> SUFFICES ASSUME NEW w \in Conns
               PROVE  /\ link'[w] = "unused" => view'[w] = {}
                      /\ link'[w] = "closing" => hellos[w] > 0
    BY DEF Quiet
  <2>1. CASE link'[w] = link[w]
    BY <2>1 DEF Quiet, Told
  <2>2. CASE w \in WsOf(S) /\ link'[w] \in {"closing", "closed"}
    <3>1. PICK p \in S : p.ws = w
      BY <2>2 DEF WsOf
    <3>2. hellos[w] > 0
      BY <3>1, Spoke
    <3> QED BY <2>2, <3>2
  <2> QED BY <2>1, <2>2
<1>6. Announced'
  <2> SUFFICES ASSUME NEW s \in peers' \cap Senders, link'[s.ws] = "open", NEW r \in view'[s.ws]
               PROVE  r \in peers' \cup dismissed'
    BY DEF Announced
  <2>1. s \in peers \cap Senders /\ s.ws \in Conns
    BY <1>0, Roles
  <2>2. link[s.ws] = "open" /\ r \in view[s.ws]
    BY <1>2, <2>1
  <2>3. r \in peers \cup dismissed
    BY <2>1, <2>2 DEF Announced, Told
  <2>4. s.ws \in WsOf(FindSender)
    BY <2>1, <2>2 DEF Listening, Told
  <2>5. r \in S => r \in dismissed'
    BY <2>4
  <2> QED BY <1>0, <2>3, <2>5
<1>7. Once'
  <2> SUFFICES ASSUME NEW p \in peers', hellos[p.ws] <= 1
               PROVE  link'[p.ws] = "open"
    BY DEF Once
  <2>1. p \in peers /\ p \notin S /\ p.ws \in Conns
    BY <1>0, Spoke
  <2>2. link[p.ws] = "open"
    BY <2>1 DEF Once, Told
  <2>3. p.ws \notin WsOf(S)
    <3> SUFFICES ASSUME NEW q \in S, q.ws = p.ws PROVE FALSE
      BY DEF WsOf
    <3>1. q \in peers
      OBVIOUS
    <3>2. p = q
      BY <2>1, <3>1, OnlyPeer
    <3> QED BY <2>1, <3>2
  <2> QED BY <2>1, <2>2, <2>3
<1> QED BY <1>1, <1>4, <1>5, <1>6, <1>7 DEF Told

\* A further hello leaves the first one's count behind.
LEMMA HellosGrow ==
    ASSUME TypeOK, Numbered, NEW w \in Conns, Hello(w)
    PROVE  /\ hellos'[w] > 0
           /\ \A x \in Conns : hellos[x] > 0 => hellos'[x] > 0
           /\ \A p \in peers : hellos'[p.ws] <= 1 => hellos[p.ws] <= 1 /\ p.ws # w
<1>1. /\ hellos[w] \in Nat /\ hellos'[w] = hellos[w] + 1
      /\ \A x \in Conns \ {w} : hellos'[x] = hellos[x]
  BY Newcomers
<1>2. hellos'[w] > 0
  BY <1>1
<1>3. \A x \in Conns : hellos[x] > 0 => hellos'[x] > 0
  BY <1>1, <1>2
<1>4. ASSUME NEW p \in peers, hellos'[p.ws] <= 1
      PROVE  hellos[p.ws] <= 1 /\ p.ws # w
  <2>1. p.ws \in Conns /\ hellos[p.ws] \in Nat /\ hellos[p.ws] > 0
    BY Spoke
  <2>2. p.ws # w
    BY <1>1, <1>4, <2>1
  <2> QED BY <1>1, <1>4, <2>1, <2>2
<1> QED BY <1>2, <1>3, <1>4

\* Everybody who is still alone on a connection, and the newcomer too, is on an
\* open one.
LEMMA OnceHello ==
    ASSUME TypeOK, Numbered, Told, NEW w \in Conns, Hello(w), UNCHANGED link,
           NEW role \in {"sender", "receiver"}, peers' = peers \cup {Newcomer(w, role)}
    PROVE  Once'
<1> SUFFICES ASSUME NEW p \in peers', hellos'[p.ws] <= 1
             PROVE  link[p.ws] = "open"
  BY DEF Once
<1>1. /\ Newcomer(w, role).ws = w /\ hellos[w] \in Nat /\ hellos'[w] = hellos[w] + 1
      /\ link[w] \in {"open", "closing"}
  BY Newcomers
<1>2. CASE p \in peers
  <2>1. hellos[p.ws] <= 1
    BY <1>2, HellosGrow
  <2> QED BY <1>2, <2>1 DEF Once, Told
<1>3. CASE p = Newcomer(w, role)
  <2>1. p.ws = w /\ ~(hellos[w] > 0)
    BY <1>1, <1>3
  <2>2. link[w] # "closing"
    BY <2>1 DEF Quiet, Told
  <2> QED BY <1>1, <2>1, <2>2
<1> QED BY <1>2, <1>3

LEMMA ToldSenderHello ==
    ASSUME TypeOK, Numbered, Told,
           NEW w \in Conns, NEW reuse \in BOOLEAN, SenderHello(w, reuse)
    PROVE  Told'
<1> DEFINE s == Newcomer(w, "sender")
<1>0. /\ Hello(w) /\ s \in Senders /\ s.ws = w /\ s.n = hellos[w] + 1 /\ hellos[w] \in Nat
  BY Newcomers DEF SenderHello
<1>1. s \notin peers
  <2>1. ~(s.n <= hellos[s.ws])
    BY <1>0
  <2> QED BY <2>1 DEF Numbered
<1>2. /\ peers' = peers \cup {s} /\ order' = order \cup ((peers \cap Senders) \X {s})
      /\ UNCHANGED <<view, link, dismissed>>
  BY DEF SenderHello
<1>3. Once'
  BY <1>0, <1>2, OnceHello
<1> HIDE DEF s
<1>4. peers' \cap Senders = (peers \cap Senders) \cup {s}
  BY <1>0, <1>2
<1>5. Seniority'
  <2>1. order' \in SUBSET ((peers' \cap Senders) \X (peers' \cap Senders))
    BY <1>2, <1>4 DEF Seniority, Told
  <2>2. \A x \in peers' \cap Senders : <<x, x>> \notin order'
    BY <1>1, <1>2, <1>4 DEF Seniority, Told
  <2>3. \A x, y \in peers' \cap Senders : x # y => <<x, y>> \in order' \/ <<y, x>> \in order'
    BY <1>2, <1>4 DEF Seniority, Told
  <2> QED BY <2>1, <2>2, <2>3 DEF Seniority
<1>6. \A x \in FindSender : x \in FindSender'
  BY <1>1, <1>2, <1>4 DEF FindSender, Seniority, Told
<1>7. Listening'
  <2>1. WsOf(FindSender) \subseteq WsOf(FindSender)'
    BY <1>6 DEF WsOf
  <2> QED BY <1>2, <2>1 DEF Listening, Told
<1>8. Quiet'
  BY <1>0, <1>2, HellosGrow DEF Quiet, Told
<1>9. Announced'
  <2> SUFFICES ASSUME NEW x \in peers' \cap Senders, link[x.ws] = "open", NEW r \in view[x.ws]
               PROVE  r \in peers' \cup dismissed
    BY <1>2 DEF Announced
  <2>1. x.ws \in Conns
    BY Roles
  <2>2. x.ws \in WsOf(FindSender)
    BY <2>1 DEF Listening, Told
  <2>3. PICK f \in peers \cap Senders : f.ws = x.ws
    BY <2>2 DEF WsOf, FindSender
  <2>4. r \in peers \cup dismissed
    BY <2>3 DEF Announced, Told
  <2> QED BY <1>2, <2>4
<1> QED BY <1>3, <1>5, <1>7, <1>8, <1>9 DEF Told

LEMMA ToldWait ==
    ASSUME TypeOK, Numbered, Told, NEW w \in Conns, HelloWait(w)
    PROVE  Told'
<1> DEFINE r == Newcomer(w, "receiver")
<1>0. Hello(w) /\ r \in Receivers
  BY Newcomers DEF HelloWait
<1>1. /\ peers' = peers \cup {r} /\ UNCHANGED <<order, link, dismissed>>
      /\ view' = [x \in Conns |-> IF Hears(x) THEN view[x] \cup {r} ELSE view[x]]
  BY DEF HelloWait
<1>2. Once'
  BY <1>0, <1>1, OnceHello
<1> HIDE DEF r
<1>3. peers' \cap Senders = peers \cap Senders
  BY <1>0, <1>1, Roles
<1>4. FindSender' = FindSender
  BY <1>1, <1>3 DEF FindSender
<1>5. Seniority'
  BY <1>1, <1>3 DEF Seniority, Told
<1>6. Listening'
  <2> SUFFICES ASSUME NEW x \in Conns, link[x] = "open", view'[x] # {}
               PROVE  x \in WsOf(FindSender)
    BY <1>1, <1>4 DEF Listening, WsOf
  <2>1. CASE Hears(x)
    BY <2>1 DEF Hears
  <2>2. CASE ~Hears(x)
    <3>1. view[x] # {}
      BY <1>1, <2>2
    <3> QED BY <3>1 DEF Listening, Told
  <2> QED BY <2>1, <2>2
<1>7. Quiet'
  <2>1. \A x \in Conns : link[x] = "unused" => view'[x] = view[x]
    BY <1>1 DEF Hears
  <2> QED BY <1>0, <1>1, <2>1, HellosGrow DEF Quiet, Told
<1>8. Announced'
  <2> SUFFICES ASSUME NEW s \in peers \cap Senders, link[s.ws] = "open"
               PROVE  view'[s.ws] \subseteq peers' \cup dismissed
    BY <1>1, <1>3 DEF Announced
  <2>1. s.ws \in Conns
    BY Roles
  <2>2. view'[s.ws] \subseteq view[s.ws] \cup {r}
    BY <1>1, <2>1
  <2>3. view[s.ws] \subseteq peers \cup dismissed
    BY DEF Announced, Told
  <2> QED BY <1>1, <2>2, <2>3
<1> QED BY <1>2, <1>5, <1>6, <1>7, <1>8 DEF Told

LEMMA ToldRefused ==
    ASSUME TypeOK, Numbered, Told, NEW w \in Conns,
           HelloInvalid(w) \/ HelloExpired(w) \/ HelloLockedOut(w)
    PROVE  Told'
<1>1. Hello(w) /\ Close({w}) /\ UNCHANGED <<peers, order, view, dismissed>>
  BY DEF HelloInvalid, HelloExpired, HelloLockedOut, peerVars
<1>2. /\ \A x \in Conns \ {w} : link'[x] = link[x]
      /\ link'[w] = IF link[w] = "open" THEN "closing" ELSE link[w]
  BY <1>1 DEF Close
<1>3. \A x \in Conns : link'[x] = "open" => link[x] = "open"
  BY <1>2
<1>4. Seniority' /\ Listening' /\ Announced'
  BY <1>1, <1>3, ToldSame
<1>5. Quiet'
  BY <1>1, <1>2, HellosGrow DEF Quiet, Told
<1>6. Once'
  <2> SUFFICES ASSUME NEW p \in peers, hellos'[p.ws] <= 1
               PROVE  link'[p.ws] = "open"
    BY <1>1 DEF Once
  <2>1. hellos[p.ws] <= 1 /\ p.ws # w /\ p.ws \in Conns
    BY <1>1, HellosGrow, Spoke
  <2>2. link[p.ws] = "open"
    BY <2>1 DEF Once, Told
  <2> QED BY <1>2, <2>1, <2>2
<1> QED BY <1>4, <1>5, <1>6 DEF Told

\* A connection without a peer opens or ends.
LEMMA ToldStranger ==
    ASSUME TypeOK, Numbered, Told, NEW w \in Conns, Connect(w) \/ StrangerCloses(w)
    PROVE  Told'
<1>1. UNCHANGED <<peers, order, view, dismissed, hellos>>
  BY DEF Connect, StrangerCloses, peerVars
<1>2. \A x \in Conns \ {w} : link'[x] = link[x]
  BY DEF Connect, StrangerCloses, Ends, TypeOK
<1>3. link'[w] = "closed" \/ (link'[w] = "open" /\ link[w] = "unused")
  BY DEF Connect, StrangerCloses, Ends, TypeOK
<1>4. \A x \in Conns : link'[x] = "open" => link[x] = "open" \/ view[x] = {}
  BY <1>2, <1>3 DEF Quiet, Told
<1>5. Seniority' /\ Listening' /\ Announced'
  BY <1>1, <1>4, ToldSame
<1>6. Quiet'
  BY <1>1, <1>2, <1>3 DEF Quiet, Told
<1>7. Once'
  <2> SUFFICES ASSUME NEW p \in peers, hellos[p.ws] <= 1
               PROVE  link'[p.ws] = "open"
    BY <1>1 DEF Once
  <2>1. link[p.ws] = "open" /\ p.ws \in Conns
    BY Spoke DEF Once, Told
  <2>2. CASE Connect(w)
    BY <1>2, <1>3, <2>1, <2>2 DEF Connect
  <2>3. CASE StrangerCloses(w)
    <3>1. p.ws # w
      BY <2>3 DEF StrangerCloses, WsOf
    <3> QED BY <1>2, <2>1, <3>1
  <2> QED BY <2>2, <2>3
<1> QED BY <1>5, <1>6, <1>7 DEF Told

\* Receivers a sender sends away.
LEMMA ToldDismiss ==
    ASSUME TypeOK, Numbered, Told, NEW D \in SUBSET (peers \cap Receivers),
           Drop(D), Close(WsOf(D)), dismissed' = dismissed \cup D, UNCHANGED <<hellos, view>>
    PROVE  Told'
<1>1. D \in SUBSET peers /\ D \cap Senders = {}
  BY Roles
<1>2. \A w \in Conns : \/ link'[w] = link[w]
                       \/ w \in WsOf(D) /\ link'[w] \in {"closing", "closed"}
  BY DEF Close
<1>3. /\ dismissed \subseteq dismissed' /\ \A w \in Conns : view'[w] \subseteq view[w]
      /\ \A w : view'[w] \cap D \subseteq dismissed'
  OBVIOUS
<1> QED BY <1>1, <1>2, <1>3, Leave

LEMMA ToldReceiverCloses ==
    ASSUME TypeOK, Numbered, Told, NEW r \in Receivers, ReceiverCloses(r)
    PROVE  Told'
<1>1. /\ Drop({r}) /\ {r} \in SUBSET peers /\ {r} \cap Senders = {} /\ r.ws \in Conns
      /\ UNCHANGED <<hellos, dismissed>>
      /\ view' = [w \in Conns |-> IF Hears(w) THEN view[w] \ {r} ELSE view[w]]
  BY Roles DEF ReceiverCloses, Found
<1>2. link' = [link EXCEPT ![r.ws] = "closed"]
  BY DEF ReceiverCloses, Ends
<1>3. \A w \in Conns : \/ link'[w] = link[w]
                       \/ w \in WsOf({r}) /\ link'[w] \in {"closing", "closed"}
  BY <1>2 DEF TypeOK, WsOf
<1>4. \A w \in Conns : view'[w] \subseteq view[w]
  BY <1>1
<1>5. ASSUME NEW w \in WsOf(FindSender), link'[w] = "open"
      PROVE  view'[w] \cap {r} \subseteq dismissed'
  <2>1. w \in Conns
    BY Roles DEF WsOf, FindSender
  <2>2. link[w] = "open"
    BY <1>3, <1>5, <2>1
  <2>3. Hears(w)
    BY <2>2 DEF Hears
  <2> QED BY <1>1, <2>1, <2>3
<1> QED BY <1>1, <1>3, <1>4, <1>5, Leave

LEMMA ToldSenderCloses ==
    ASSUME TypeOK, Numbered, Told, NEW s \in Senders, SenderCloses(s)
    PROVE  Told'
<1>0. s \in peers /\ s.ws \in Conns /\ UNCHANGED <<hellos, view, dismissed>>
  BY Roles DEF SenderCloses, Found
<1>1. CASE reusable
  <2>1. Drop({s}) /\ {s} \in SUBSET peers /\ link' = [link EXCEPT ![s.ws] = "closed"]
    BY <1>0, <1>1 DEF SenderCloses, Ends
  <2>2. link'[s.ws] = "closed" /\ \A w \in Conns : w # s.ws => link'[w] = link[w]
    BY <1>0, <2>1 DEF TypeOK
  <2>3. s.ws \in WsOf({s})
    BY DEF WsOf
  <2>4. \A w \in Conns : \/ link'[w] = link[w]
                         \/ w \in WsOf({s}) /\ link'[w] \in {"closing", "closed"}
    BY <2>2, <2>3
  <2>5. \A x \in {s} \cap Senders : link'[x.ws] # "open"
    BY <2>2
  <2>6. ASSUME NEW w \in WsOf(FindSender)
        PROVE  view'[w] \cap {s} \subseteq dismissed'
    <3>1. w \in Conns
      BY Roles DEF WsOf, FindSender
    <3>2. view'[w] \subseteq Receivers
      BY <1>0, <3>1 DEF TypeOK
    <3> QED BY <3>2, Roles
  <2>7. dismissed \subseteq dismissed' /\ \A w \in Conns : view'[w] \subseteq view[w]
    BY <1>0
  <2> QED BY <1>0, <2>1, <2>4, <2>5, <2>6, <2>7, Leave
<1>2. CASE ~reusable
  <2>1. Drop(peers) /\ peers \in SUBSET peers
    BY <1>2 DEF SenderCloses
  <2>2. \A w \in Conns : link'[w] = IF w = s.ws THEN "closed"
                                    ELSE IF w \in WsOf(peers) /\ link[w] = "open" THEN "closing"
                                    ELSE link[w]
    BY <1>2 DEF SenderCloses
  <2>3. s.ws \in WsOf(peers)
    BY <1>0 DEF WsOf
  <2>4. \A w \in Conns : \/ link'[w] = link[w]
                         \/ w \in WsOf(peers) /\ link'[w] \in {"closing", "closed"}
    BY <2>2, <2>3
  <2>5. \A w \in WsOf(peers) : w \in Conns /\ link'[w] # "open"
    <3>1. \A w \in WsOf(peers) : w \in Conns
      BY Spoke DEF WsOf
    <3> QED BY <2>2, <3>1
  <2>6. \A x \in peers \cap Senders : link'[x.ws] # "open"
    BY <2>5 DEF WsOf
  <2>7. \A w \in WsOf(FindSender) : link'[w] # "open"
    BY <2>6 DEF WsOf, FindSender
  <2>8. dismissed \subseteq dismissed' /\ \A w \in Conns : view'[w] \subseteq view[w]
    BY <1>0
  <2> QED BY <1>0, <2>1, <2>4, <2>6, <2>7, <2>8, Leave
<1> QED BY <1>1, <1>2

LEMMA ToldRestart ==
    ASSUME TypeOK, Told, NEW st, StartFrom(st)
    PROVE  Told'
<1>1. /\ peers' = {} /\ order' = {o \in order : o[1] \notin peers /\ o[2] \notin peers}
      /\ \A w \in Conns : view'[w] = {} /\ link'[w] \in {"unused", "closed"}
  BY DEF StartFrom, Drop
<1>2. order' = {}
  BY <1>1 DEF Seniority, Told
<1> QED BY <1>1, <1>2 DEF Told, Seniority, Listening, Quiet, Announced, Once

LEMMA ToldConnection ==
    ASSUME TypeOK, Numbered, Told, NEW w \in Conns, OfConnection(w)
    PROVE  Told'
<1>1. CASE \E reuse \in BOOLEAN : SenderHello(w, reuse)
  BY <1>1, ToldSenderHello
<1>2. CASE HelloInvalid(w) \/ HelloExpired(w) \/ HelloLockedOut(w)
  BY <1>2, ToldRefused
<1>3. CASE HelloWait(w)
  BY <1>3, ToldWait
<1>4. CASE HelloCut(w)
  BY <1>4, ToldRestart DEF HelloCut
<1>5. CASE Connect(w) \/ StrangerCloses(w)
  BY <1>5, ToldStranger
<1> QED BY <1>1, <1>2, <1>3, <1>4, <1>5 DEF OfConnection

LEMMA ToldUnmoved ==
    ASSUME TypeOK, Told, UNCHANGED <<peers, order, view, dismissed, link, hellos>>
    PROVE  Told'
<1>1. Seniority' /\ Listening' /\ Announced'
  BY ToldSame
<1>2. Quiet' /\ Once'
  BY DEF Quiet, Once, Told
<1> QED BY <1>1, <1>2 DEF Told

LEMMA ToldSender ==
    ASSUME TypeOK, Numbered, Told, NEW s \in Senders, OfSender(s)
    PROVE  Told'
<1>1. CASE \E r \in Receivers : Accept(s, r) \/ Relay(s, r)
  <2>1. UNCHANGED <<peers, order, view, dismissed, link, hellos>>
    BY <1>1 DEF Accept, Relay, socketVars
  <2> QED BY <2>1, ToldUnmoved
<1>2. CASE \E r \in Receivers : Reject(s, r)
  <2>1. PICK r \in Receivers : Reject(s, r)
    BY <1>2
  <2> DEFINE D == {r}
  <2>2. D \in SUBSET (peers \cap Receivers) /\ Drop(D) /\ dismissed' = dismissed \cup D
        /\ UNCHANGED <<hellos, view>>
    BY <2>1 DEF Reject, About
  <2>3. WsOf(D) = {r.ws}
    BY DEF WsOf
  <2>4. Close(WsOf(D))
    BY <2>1, <2>3 DEF Reject
  <2> HIDE DEF D
  <2> QED BY <2>2, <2>4, ToldDismiss
<1>3. CASE Revoke(s)
  <2>1. UNCHANGED <<hellos, view>>
    BY <1>3 DEF Revoke
  <2>2. PICK D \in SUBSET (peers \cap Receivers) :
             Drop(D) /\ Close(WsOf(D)) /\ dismissed' = dismissed \cup D
    BY <1>3 DEF Revoke
  <2> QED BY <2>1, <2>2, ToldDismiss
<1>4. CASE SenderCloses(s)
  BY <1>4, ToldSenderCloses
<1>5. CASE RevokeCut(s)
  BY <1>5, ToldRestart DEF RevokeCut
<1> QED BY <1>1, <1>2, <1>3, <1>4, <1>5 DEF OfSender

LEMMA SenderInvNext == SenderInv /\ [Next]_roomVars => SenderInv'
<1> SUFFICES ASSUME TypeOK, Numbered, Told, [Next]_roomVars
             PROVE  Told'
  BY NumberedNext DEF SenderInv, PeersInv
<1>1. CASE \E r \in Receivers : ReceiverCloses(r)
  BY <1>1, ToldReceiverCloses
<1>2. CASE Restart
  BY <1>2, ToldRestart DEF Restart
<1>3. CASE Tick \/ UNCHANGED roomVars
  <2>1. UNCHANGED <<peers, order, view, dismissed, link, hellos>>
    BY <1>3 DEF Tick, roomVars, socketVars, peerVars
  <2> QED BY <2>1, ToldUnmoved
<1> QED BY <1>1, <1>2, <1>3, ToldConnection, ToldSender DEF Next

\* What a sender was told stays true: whoever was announced to it is in the
\* room on an open connection, or was sent away by a sender (onClose,
\* handleReject, handleRevoke); connections that said hello again are excepted.
THEOREM SenderStaysCurrent == Spec => []SenderIsCurrent
<1>1. SenderInv => SenderIsCurrent
  <2> SUFFICES ASSUME TypeOK, Numbered, Announced, Once,
                      NEW s \in peers \cap Senders, link[s.ws] = "open", NEW r \in view[s.ws]
               PROVE  \/ r \in peers /\ link[r.ws] = "open"
                      \/ r \in dismissed \/ hellos[r.ws] > 1
    BY DEF SenderInv, PeersInv, Told, SenderIsCurrent
  <2>1. r \in peers \cup dismissed
    BY DEF Announced
  <2>2. CASE r \in peers
    <3>1. hellos[r.ws] \in Nat
      BY <2>2, Spoke
    <3>2. hellos[r.ws] <= 1 \/ hellos[r.ws] > 1
      BY <3>1
    <3> QED BY <2>2, <3>2 DEF Once
  <2> QED BY <2>1, <2>2
<1> QED BY <1>1, SenderInvInit, SenderInvNext, PTL DEF Spec

-----------------------------------------------------------------------------
(* Wrong claims are limited.                                               *)

\* The attempts are the last of the claims, in the order of the clock; what was
\* dropped of them is older than a window.
Attempts ==
    /\ Len(attempts) <= Len(claims) /\ Len(attempts) < MaxAttempts
    /\ \A i \in DOMAIN claims : claims[i] <= now
    /\ \A i, j \in DOMAIN claims : i <= j => claims[i] <= claims[j]
    /\ \A i \in DOMAIN attempts : attempts[i] = claims[Len(claims) - Len(attempts) + i]
    /\ \A i \in DOMAIN claims :
          i <= Len(claims) - Len(attempts) => now - claims[i] >= Window

ClaimsInv == TypeOK /\ Attempts /\ ClaimsAreLimited

LEMMA ClaimsInit == Init => ClaimsInv
BY TypeInit, RoomAssumption DEF Init, ClaimsInv, Attempts, ClaimsAreLimited

\* What the filter of recordAttempt keeps is as long as the end of the attempts
\* that lies in the window.
LEMMA RecentIs ==
    ASSUME TypeOK, Attempts
    PROVE  \E c \in 0 .. Len(attempts) :
              /\ Recent = SubSeq(attempts, Len(attempts) - c + 1, Len(attempts))
              /\ \A i \in DOMAIN attempts :
                    now - attempts[i] < Window <=> i > Len(attempts) - c
<1> DEFINE kept == {i \in DOMAIN attempts : now - attempts[i] < Window}
           n == Len(attempts)
           c == Cardinality(kept)
<1>1. /\ n \in Nat /\ DOMAIN attempts = 1 .. n /\ now \in Nat /\ Window \in Nat
      /\ \A i \in 1 .. n : attempts[i] \in Nat
  BY RoomAssumption DEF TypeOK
<1>2. \A i, j \in 1 .. n : i <= j => attempts[i] <= attempts[j]
  <2>1. claims \in Seq(Nat) /\ DOMAIN claims = 1 .. Len(claims) /\ Len(claims) \in Nat
    BY DEF TypeOK
  <2> DEFINE m == Len(claims)
  <2>2. /\ n <= m
        /\ \A i, j \in 1 .. m : i <= j => claims[i] <= claims[j]
        /\ \A i \in 1 .. n : attempts[i] = claims[m - n + i]
    BY <1>1, <2>1 DEF Attempts
  <2>3. m \in Nat
    BY <2>1
  <2> HIDE DEF m, n, kept
  <2> SUFFICES ASSUME NEW i \in 1 .. n, NEW j \in 1 .. n, i <= j
               PROVE  attempts[i] <= attempts[j]
    OBVIOUS
  <2>4. /\ m - n + i \in 1 .. m /\ m - n + j \in 1 .. m
        /\ m - n + i <= m - n + j
    BY <1>1, <2>2, <2>3
  <2> QED BY <2>2, <2>4
<1>3. \A i, j \in 1 .. n : i <= j /\ i \in kept => j \in kept
  BY <1>1, <1>2
<1>4. Recent = SubSeq(attempts, n - c + 1, n)
  BY DEF Recent
<1>5. kept \in SUBSET (1 .. n)
  BY <1>1
<1>6. \A i \in 1 .. n : now - attempts[i] < Window <=> i \in kept
  BY <1>1
<1> HIDE DEF kept, n
<1>7. \A i \in 1 .. n + 1 : IsFiniteSet(i .. n) /\ Cardinality(i .. n) = n - i + 1
  <2> TAKE i \in 1 .. n + 1
  <2>1. i \in Int /\ n \in Int
    BY <1>1
  <2>2. /\ IsFiniteSet(i .. n)
        /\ Cardinality(i .. n) = IF i > n THEN 0 ELSE n - i + 1
    BY <2>1, FS_Interval
  <2> QED BY <1>1, <2>2
<1>8. IsFiniteSet(kept) /\ c \in 0 .. n
  <2>1. IsFiniteSet(1 .. n) /\ Cardinality(1 .. n) = n
    BY <1>1, <1>7
  <2>2. IsFiniteSet(kept) /\ Cardinality(kept) <= n
    BY <1>5, <2>1, FS_Subset
  <2> QED BY <1>1, <2>2, FS_CardinalityType
<1>9. \A i \in 1 .. n : i \in kept => i > n - c
  <2> TAKE i \in 1 .. n
  <2> HAVE i \in kept
  <2>1. i .. n \subseteq kept
    BY <1>1, <1>3
  <2>2. Cardinality(i .. n) <= c
    BY <2>1, <1>8, FS_Subset
  <2>3. Cardinality(i .. n) = n - i + 1
    BY <1>7, <1>1
  <2> QED BY <2>2, <2>3, <1>1, <1>8
<1>10. \A i \in 1 .. n : i \notin kept => i <= n - c
  <2> TAKE i \in 1 .. n
  <2> HAVE i \notin kept
  <2>1. kept \subseteq i + 1 .. n
    BY <1>1, <1>3, <1>5
  <2>2. IsFiniteSet(i + 1 .. n) /\ Cardinality(i + 1 .. n) = n - (i + 1) + 1
    <3>1. n \in Nat /\ i \in 1 .. n
      BY <1>1
    <3>2. i + 1 \in 1 .. n + 1
      BY ONLY <3>1
    <3> QED BY <3>2, <1>7
  <2>3. c <= n - (i + 1) + 1
    BY <2>1, <2>2, FS_Subset
  <2> QED BY <2>3, <1>1, <1>8
<1> HIDE DEF c
<1>11. \A i \in 1 .. n : now - attempts[i] < Window <=> i > n - c
  <2>1. \A i \in 1 .. n : i \in kept <=> i > n - c
    <3>1. \A i \in 1 .. n : i <= n - c <=> ~(i > n - c)
      BY <1>1, <1>8
    <3> QED BY ONLY <1>9, <1>10, <3>1
  <2> QED BY ONLY <1>6, <2>1
<1> QED BY <1>1, <1>4, <1>8, <1>11 DEF n

\* recordAttempt.
LEMMA RecordKeepsLimit ==
    ASSUME ClaimsInv, RecordAttempt, UNCHANGED now, TypeOK'
    PROVE  ClaimsInv'
<1> USE RoomAssumption DEF ClaimsInv
<1>1. CASE Len(Recent) + 1 >= MaxAttempts
  <2>1. attempts' = <<>> /\ claims' = <<>>
    BY <1>1 DEF RecordAttempt
  <2> QED BY <2>1 DEF Attempts, ClaimsAreLimited
<1>2. CASE ~(Len(Recent) + 1 >= MaxAttempts)
  <2>0. PICK c \in 0 .. Len(attempts) :
              /\ Recent = SubSeq(attempts, Len(attempts) - c + 1, Len(attempts))
              /\ \A i \in DOMAIN attempts :
                    now - attempts[i] < Window <=> i > Len(attempts) - c
    BY RecentIs
  <2> DEFINE n == Len(attempts)
             m == Len(claims)
  <2>1. /\ attempts \in Seq(Nat) /\ claims \in Seq(Nat) /\ n \in Nat /\ m \in Nat
        /\ DOMAIN attempts = 1 .. n /\ DOMAIN claims = 1 .. m /\ now \in Nat
        /\ \A i \in 1 .. m : claims[i] \in Nat
    BY DEF TypeOK
  <2>2. /\ Recent \in Seq(Nat) /\ Len(Recent) = c
        /\ \A i \in 1 .. c : Recent[i] = attempts[n - c + i]
    BY <2>0, <2>1
  <2>3. attempts' = Append(Recent, now) /\ claims' = Append(claims, now) /\ now' = now
    BY <1>2 DEF RecordAttempt
  <2>4. /\ Len(attempts') = c + 1 /\ DOMAIN attempts' = 1 .. c + 1
        /\ attempts'[c + 1] = now
        /\ \A i \in 1 .. c : attempts'[i] = attempts[n - c + i]
    <3>1. \A k \in 1 .. c : Append(Recent, now)[k] = Recent[k]
      BY <2>1, <2>2, AppendProperties
    <3>2. Len(Append(Recent, now)) = c + 1 /\ Append(Recent, now)[c + 1] = now
      BY <2>1, <2>2, AppendProperties
    <3>3. DOMAIN Append(Recent, now) = 1 .. c + 1
      BY <2>0, <2>1, <2>2, <3>2, AppendProperties, LenProperties
    <3> QED BY <2>2, <2>3, <3>1, <3>2, <3>3
  <2>5. /\ Len(claims') = m + 1 /\ DOMAIN claims' = 1 .. m + 1
        /\ claims'[m + 1] = now
        /\ \A i \in 1 .. m : claims'[i] = claims[i]
    BY <2>1, <2>3
  <2>6. /\ n <= m /\ c + 1 < MaxAttempts
        /\ \A i \in 1 .. m : claims[i] <= now
        /\ \A i, j \in 1 .. m : i <= j => claims[i] <= claims[j]
        /\ \A i \in 1 .. n : attempts[i] = claims[m - n + i]
        /\ \A i \in 1 .. m : i <= m - n => now - claims[i] >= Window
    <3>1. c + 1 < MaxAttempts
      BY <1>2, <2>1, <2>2
    <3> QED BY <2>1, <3>1 DEF Attempts
  <2>7. \A i \in 1 .. m : i <= m - c => now - claims[i] >= Window
    <3> SUFFICES ASSUME NEW i \in 1 .. m, i <= m - c, i > m - n
                 PROVE  now - claims[i] >= Window
      BY <2>1, <2>6
    <3> DEFINE k == i - (m - n)
    <3>0. n \in Nat /\ m \in Nat /\ c \in 0 .. n /\ i \in 1 .. m
      BY <2>0, <2>1
    <3>1. k \in 1 .. n /\ ~(k > n - c) /\ m - n + k = i
      <4> HIDE DEF n, m
      <4> QED BY <3>0, <2>6
    <3>2. attempts[k] = claims[i]
      BY <2>6, <3>1
    <3>3. ~(now - attempts[k] < Window)
      BY <2>0, <2>1, <3>1
    <3>4. ~(now - claims[i] < Window) /\ claims[i] \in Nat /\ now \in Nat /\ Window \in Nat
      BY <2>1, <3>2, <3>3
    <3> QED BY ONLY <3>4
  <2> HIDE DEF n, m
  <2>8. \A i \in 1 .. c + 1 : attempts'[i] = claims'[m + 1 - (c + 1) + i]
    <3> TAKE i \in 1 .. c + 1
    <3>1. CASE i = c + 1
      <4>1. m + 1 - (c + 1) + i = m + 1
        BY <3>1, <2>0, <2>1
      <4> QED BY <3>1, <4>1, <2>4, <2>5
    <3>2. CASE i \in 1 .. c
      <4>1. n - c + i \in 1 .. n /\ m - n + (n - c + i) = m + 1 - (c + 1) + i
            /\ m + 1 - (c + 1) + i \in 1 .. m
        BY <3>2, <2>0, <2>1, <2>6 DEF n
      <4> QED BY <4>1, <3>2, <2>4, <2>5, <2>6
    <3> QED BY <3>1, <3>2, <2>0, <2>1 DEF n
  <2>9. Attempts'
    <3>1. Len(attempts') <= Len(claims') /\ Len(attempts') < MaxAttempts
      BY <2>0, <2>1, <2>4, <2>5, <2>6 DEF n
    <3>2. \A i \in 1 .. m + 1 : claims'[i] <= now
      BY <2>1, <2>5, <2>6
    <3>3. \A i, j \in 1 .. m + 1 : i <= j => claims'[i] <= claims'[j]
      <4> SUFFICES ASSUME NEW i \in 1 .. m + 1, NEW j \in 1 .. m + 1, i <= j
                   PROVE  claims'[i] <= claims'[j]
        OBVIOUS
      <4>0. m \in Nat
        BY <2>1
      <4>1. CASE j = m + 1
        BY <4>1, <3>2, <2>5
      <4>2. CASE j # m + 1
        <5>1. i \in 1 .. m /\ j \in 1 .. m
          BY ONLY <4>0, <4>2, i \in 1 .. m + 1, j \in 1 .. m + 1, i <= j
        <5> QED BY <5>1, <2>5, <2>6
      <4> QED BY <4>1, <4>2
    <3>4. \A i \in 1 .. m + 1 : i <= m + 1 - (c + 1) => now - claims'[i] >= Window
      <4> SUFFICES ASSUME NEW i \in 1 .. m + 1, i <= m + 1 - (c + 1)
                   PROVE  now - claims'[i] >= Window
        OBVIOUS
      <4>0. m \in Nat /\ n \in Nat /\ c \in 0 .. n
        BY <2>0, <2>1 DEF n
      <4>1. i \in 1 .. m /\ i <= m - c
        BY ONLY <4>0, i \in 1 .. m + 1, i <= m + 1 - (c + 1)
      <4> QED BY <4>1, <2>5, <2>7
    <3>5. Len(attempts') = c + 1 /\ Len(claims') = m + 1 /\ now' = now
          /\ DOMAIN attempts' = 1 .. c + 1 /\ DOMAIN claims' = 1 .. m + 1
      BY <2>3, <2>4, <2>5
    <3> DEFINE d == m + 1 - (c + 1)
    <3>10. Len(claims') - Len(attempts') = d
      <4>1. m \in Nat /\ c \in Nat
        BY <2>0, <2>1 DEF m
      <4> DEFINE x == Len(attempts')
                 y == Len(claims')
      <4>2. x = c + 1 /\ y = m + 1
        BY ONLY <3>5
      <4> HIDE DEF x, y
      <4>3. y - x = m + 1 - (c + 1)
        BY ONLY <4>1, <4>2
      <4> QED BY ONLY <4>3 DEF x, y, d
    <3> HIDE DEF d
    <3>6. \A i \in DOMAIN claims' : claims'[i] <= now'
      BY ONLY <3>2, <3>5
    <3>7. \A i, j \in DOMAIN claims' : i <= j => claims'[i] <= claims'[j]
      BY ONLY <3>3, <3>5
    <3>8. \A i \in DOMAIN attempts' :
             attempts'[i] = claims'[Len(claims') - Len(attempts') + i]
      BY ONLY <2>8, <3>5, <3>10 DEF d
    <3>9. \A i \in DOMAIN claims' :
             i <= Len(claims') - Len(attempts') => now' - claims'[i] >= Window
      BY ONLY <3>4, <3>5, <3>10 DEF d
    <3> QED BY ONLY <3>1, <3>6, <3>7, <3>8, <3>9 DEF Attempts
  <2>10. ASSUME NEW i \in 1 .. m + 1, NEW j \in 1 .. m + 1, j = i + MaxAttempts - 1
         PROVE  claims'[j] - claims'[i] >= Window
    <3>1. CASE j = m + 1
      <4>1. i \in 1 .. m /\ i <= m - c
        BY <3>1, <2>0, <2>1, <2>6, <2>10 DEF n
      <4> QED BY <3>1, <4>1, <2>5, <2>7
    <3>2. CASE j # m + 1
      <4>1. i \in 1 .. m /\ j \in 1 .. m
        BY <3>2, <2>1, <2>10
      <4> QED BY <4>1, <2>1, <2>5, <2>10 DEF ClaimsAreLimited
    <3> QED BY <3>1, <3>2
  <2>11. ClaimsAreLimited'
    BY <2>5, <2>10 DEF ClaimsAreLimited
  <2> QED BY <2>9, <2>11
<1> QED BY <1>1, <1>2

LEMMA ClaimsNext == ClaimsInv /\ [Next]_roomVars => ClaimsInv'
<1> SUFFICES ASSUME ClaimsInv, [Next]_roomVars, TypeOK' PROVE ClaimsInv'
  BY TypeNext DEF ClaimsInv
<1>1. CASE UNCHANGED <<attempts, claims, now>>
  BY <1>1 DEF ClaimsInv, Attempts, ClaimsAreLimited
<1>2. ASSUME NEW st, StartFrom(st)
      PROVE  ClaimsInv'
  <2>1. attempts' = <<>> /\ claims' = <<>>
    BY <1>2 DEF StartFrom
  <2> QED BY <2>1, RoomAssumption DEF ClaimsInv, Attempts, ClaimsAreLimited
<1>3. CASE Tick
  <2>1. UNCHANGED <<attempts, claims>> /\ now' = now + 1
    BY <1>3 DEF Tick, rateVars
  <2>2. \A i \in DOMAIN claims : claims[i] \in Nat
    BY DEF ClaimsInv, TypeOK
  <2>3. now \in Nat /\ Window \in Nat
    BY RoomAssumption DEF ClaimsInv, TypeOK, RoomAssumption
  <2>4. \A i \in DOMAIN claims :
          /\ claims[i] <= now => claims[i] <= now + 1
          /\ now - claims[i] >= Window => (now + 1) - claims[i] >= Window
    BY ONLY <2>2, <2>3
  <2>5. Attempts'
    <3>1. \A i \in DOMAIN claims' : claims'[i] <= now'
      <4>1. \A i \in DOMAIN claims : claims[i] <= now + 1
        BY <2>4 DEF ClaimsInv, Attempts
      <4> QED
        BY ONLY <2>1, <4>1, Zenon
    <3>2. ASSUME NEW i \in DOMAIN claims', i <= Len(claims') - Len(attempts')
          PROVE  now' - claims'[i] >= Window
      <4>1. i \in DOMAIN claims /\ i <= Len(claims) - Len(attempts)
        BY ONLY <2>1, <3>2, Zenon
      <4>2. now - claims[i] >= Window
        BY ONLY <4>1, ClaimsInv DEF ClaimsInv, Attempts
      <4>3. (now + 1) - claims[i] >= Window
        BY ONLY <2>4, <4>1, <4>2
      <4>4. now' - claims'[i] = (now + 1) - claims[i]
        BY ONLY <2>1
      <4> QED
        BY ONLY <4>3, <4>4
    <3>3. Attempts /\ attempts' = attempts /\ claims' = claims
      BY <2>1 DEF ClaimsInv
    <3>4. /\ Len(attempts') <= Len(claims') /\ Len(attempts') < MaxAttempts
          /\ \A i, j \in DOMAIN claims' : i <= j => claims'[i] <= claims'[j]
          /\ \A i \in DOMAIN attempts' :
                attempts'[i] = claims'[Len(claims') - Len(attempts') + i]
      BY ONLY <3>3 DEF Attempts
    <3> QED
      BY ONLY <3>1, <3>2, <3>4 DEF Attempts
  <2>6. ClaimsAreLimited'
    BY <2>1 DEF ClaimsInv, ClaimsAreLimited
  <2> QED
    BY <2>5, <2>6 DEF ClaimsInv
<1>4. ASSUME NEW w \in Conns, HelloInvalid(w)
      PROVE  ClaimsInv'
  BY <1>4, RecordKeepsLimit DEF HelloInvalid
<1>5. ASSUME NEW s \in Senders, OfSender(s)
      PROVE  ClaimsInv'
  BY <1>1, <1>2, <1>5 DEF OfSender, Accept, Reject, Relay, Revoke, SenderCloses, RevokeCut,
     rateVars
<1>6. ASSUME NEW w \in Conns, OfConnection(w)
      PROVE  ClaimsInv'
  BY <1>1, <1>2, <1>4, <1>6 DEF OfConnection, Connect, SenderHello, HelloExpired, HelloLockedOut,
     HelloWait, HelloCut, StrangerCloses, rateVars
<1>7. CASE \E r \in Receivers : ReceiverCloses(r)
  BY <1>1, <1>7 DEF ReceiverCloses, rateVars
<1>8. CASE Restart
  BY <1>2, <1>8 DEF Restart
<1>9. CASE UNCHANGED roomVars
  BY <1>1, <1>9 DEF roomVars, rateVars
<1> QED BY <1>3, <1>5, <1>6, <1>7, <1>8, <1>9 DEF Next

\* However the claims are spread and whatever recordAttempt forgets, there are
\* never MaxAttempts of them within one window without a lockout.
THEOREM WrongClaimsAreLimited == Spec => []ClaimsAreLimited
<1>1. ClaimsInv => ClaimsAreLimited
  BY DEF ClaimsInv
<1> QED BY <1>1, ClaimsInit, ClaimsNext, PTL DEF Spec

=============================================================================
