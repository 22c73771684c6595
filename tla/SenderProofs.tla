---------------------------- MODULE SenderProofs -----------------------------
(***************************************************************************)
(* Theorems about the admission list, for every number of peers,           *)
(* fingerprints, and every setting of the cap and the rate limit; and      *)
(* about a sender with its dialog, for every number of peers and sessions  *)
(* and every interleaving of its threads.  The sender implements the list  *)
(* of module Admission, so that what is proved of the list holds of the    *)
(* sender that uses it.                                                    *)
(***************************************************************************)
EXTENDS Sender, FiniteSetTheorems, SequenceTheorems, TLAPS

USE AdmissionAssumption

-----------------------------------------------------------------------------
(* The admission list: types.                                              *)

LEMMA TypeInit == Init => TypeOK
  BY DEF Init, TypeOK

\* What one call of tether_admission_add_pending does to the types.
LEMMA TypeAddPending ==
  ASSUME TypeOK, NEW p \in Peers, NEW f \in Fingerprints, AddPending(p, f)
  PROVE  TypeOK'
<1>1. CASE AddWhileLockedOut
  BY <1>1 DEF TypeOK, AddWhileLockedOut, admissionVars, peerVars, rateVars
<1>2. CASE AddHitsLimit
  <2>1. PICK k \in 1 .. Len(attempts) + 1 :
            /\ attempts' = SubSeq(attempts, k, Len(attempts))
            /\ lockoutUntil' = now + Lockout
            /\ UNCHANGED <<peerVars, ledger, now>>
    BY <1>2 DEF AddHitsLimit
  <2>2. SubSeq(attempts, k, Len(attempts)) \in Seq(Nat)
    BY DEF TypeOK
  <2>3. now + Lockout \in Nat
    BY AdmissionAssumption DEF TypeOK
  <2>. QED BY <2>1, <2>2, <2>3 DEF TypeOK, peerVars
<1>3. CASE AddRegistered(p, f)
  <2>1. PICK k \in 1 .. Len(attempts) + 1 :
            /\ attempts' = Append(SubSeq(attempts, k, Len(attempts)), now)
            /\ ledger' = Append(ledger, now)
            /\ UNCHANGED <<lockoutUntil, now>>
            /\ UNCHANGED peerVars \/ Enlist(p, f)
    BY <1>3 DEF AddRegistered
  <2>2. attempts' \in Seq(Nat) /\ ledger' \in Seq(Nat) /\ lockoutUntil' \in Nat
    <3>1. /\ attempts \in Seq(Nat) /\ ledger \in Seq(Nat) /\ lockoutUntil \in Nat
          /\ now \in Nat
      BY DEF TypeOK
    <3>2. SubSeq(attempts, k, Len(attempts)) \in Seq(Nat)
      BY <3>1
    <3>3. Append(SubSeq(attempts, k, Len(attempts)), now) \in Seq(Nat)
      BY <3>1, <3>2
    <3>4. Append(ledger, now) \in Seq(Nat)
      BY <3>1
    <3> QED
      BY <2>1, <3>1, <3>3, <3>4
  <2>3. /\ state' \in [Peers -> PeerStates \cup {"absent"}]
        /\ fingerprint' \in [Peers -> Fingerprints]
        /\ pinned' \in SUBSET Peers
        /\ userAccepted' \in SUBSET Peers
        /\ userPinned' \in SUBSET Peers
    BY <2>1 DEF TypeOK, Enlist, peerVars, PeerStates
  <2>. QED BY <2>1, <2>2, <2>3 DEF TypeOK
<1>. QED BY <1>1, <1>2, <1>3 DEF AddPending

LEMMA TypeNext == TypeOK /\ [Next]_admissionVars => TypeOK'
<1>. SUFFICES ASSUME TypeOK, [Next]_admissionVars PROVE TypeOK'
  OBVIOUS
<1>1. ASSUME NEW p \in Peers, NEW f \in Fingerprints, AddPending(p, f)
      PROVE TypeOK'
  BY <1>1, TypeAddPending
<1>2. ASSUME NEW p \in Peers, NEW pin \in BOOLEAN, Accept(p, pin)
      PROVE TypeOK'
  BY <1>2 DEF TypeOK, Accept, SetPeerState, PeerStates, rateVars
<1>3. ASSUME NEW p \in Peers, Reject(p) PROVE TypeOK'
  BY <1>3 DEF TypeOK, Reject, SetPeerState, PeerStates, rateVars
<1>4. ASSUME NEW p \in Peers, DisconnectPeer(p) PROVE TypeOK'
  BY <1>4 DEF TypeOK, DisconnectPeer, SetPeerState, PeerStates, rateVars
<1>5. CASE RevokeAll
  BY <1>5 DEF TypeOK, RevokeAll, PeerStates, rateVars
<1>6. CASE Tick
  BY <1>6 DEF TypeOK, Tick, peerVars, rateVars
<1>7. CASE UNCHANGED admissionVars
  BY <1>7 DEF TypeOK, admissionVars, peerVars, rateVars
<1>. QED BY <1>1, <1>2, <1>3, <1>4, <1>5, <1>6, <1>7 DEF Next

\* The variables of the admission list keep their types, whatever calls the
\* user, the signaling thread and the WebRTC threads make on it.
THEOREM TypeCorrect == Spec => []TypeOK
<1>. QED BY TypeInit, TypeNext, PTL DEF Spec

-----------------------------------------------------------------------------
(* The admission list: provenance of pins and acceptances.                 *)

\* Inductive: the pins and the user's decisions are about peers in the list,
\* whose fingerprints no later call rewrites.
ProvenanceInv ==
    /\ \A p \in pinned \cup userAccepted \cup userPinned : Listed(p)
    /\ PinProvenance
    /\ AcceptProvenance

LEMMA ProvenanceInit == Init => ProvenanceInv
  BY DEF Init, ProvenanceInv, PinProvenance, AcceptProvenance, Accepted

\* A new entry is pinned and accepted only through a pinned entry, which
\* leads to a user's pin by the induction hypothesis.
LEMMA ProvenanceEnlist ==
  ASSUME TypeOK, ProvenanceInv, NEW p \in Peers, NEW f \in Fingerprints,
         ~Listed(p), Enlist(p, f)
  PROVE  ProvenanceInv'
<1>1. \A q \in Peers \ {p} : state'[q] = state[q] /\ fingerprint'[q] = fingerprint[q]
  BY DEF TypeOK, Enlist
<1>2. fingerprint'[p] = f /\ state'[p] \in {"accepted", "pending"}
  BY DEF TypeOK, Enlist
<1>3. p \notin pinned /\ p \notin userAccepted /\ p \notin userPinned
  BY DEF ProvenanceInv
<1>4. UNCHANGED <<userAccepted, userPinned>>
  BY DEF Enlist
<1>5. PinMatch(f) => \E r \in userPinned : fingerprint'[r] = f
  BY <1>1, <1>3 DEF PinMatch, ProvenanceInv, PinProvenance, TypeOK
<1>6. (\A q \in pinned \cup userAccepted \cup userPinned : Listed(q))'
  BY <1>1, <1>2, <1>3, <1>4 DEF Enlist, ProvenanceInv, Listed, TypeOK
<1>7. PinProvenance'
  BY <1>1, <1>2, <1>3, <1>4, <1>5 DEF Enlist, ProvenanceInv, PinProvenance, TypeOK
<1>8. AcceptProvenance'
  <2>. SUFFICES ASSUME NEW q \in Peers, state'[q] = "accepted", fingerprint'[q] # NoPrint
                PROVE  \/ q \in userAccepted'
                       \/ \E r \in userPinned' : fingerprint'[r] = fingerprint'[q]
    BY DEF AcceptProvenance, Accepted
  <2>1. CASE q = p
    <3>1. PinMatch(f)
      BY <2>1 DEF Enlist, TypeOK
    <3>. QED BY <2>1, <3>1, <1>2, <1>4, <1>5
  <2>2. CASE q # p
    BY <2>2, <1>1, <1>3, <1>4 DEF ProvenanceInv, AcceptProvenance, Accepted, TypeOK
  <2>. QED BY <2>1, <2>2
<1>. QED BY <1>6, <1>7, <1>8 DEF ProvenanceInv

LEMMA ProvenanceNext ==
  TypeOK /\ ProvenanceInv /\ [Next]_admissionVars => ProvenanceInv'
<1>. SUFFICES ASSUME TypeOK, ProvenanceInv, [Next]_admissionVars PROVE ProvenanceInv'
  OBVIOUS
<1>. USE DEF ProvenanceInv, PinProvenance, AcceptProvenance, Accepted, Listed
<1>1. CASE UNCHANGED peerVars
  BY <1>1 DEF peerVars
<1>2. ASSUME NEW p \in Peers, NEW f \in Fingerprints, AddPending(p, f)
      PROVE ProvenanceInv'
  <2>1. UNCHANGED peerVars \/ (~Listed(p) /\ Enlist(p, f))
    BY <1>2 DEF AddPending, AddWhileLockedOut, AddHitsLimit, AddRegistered, admissionVars
  <2>. QED BY <2>1, <1>1, ProvenanceEnlist
<1>3. ASSUME NEW p \in Peers, NEW pin \in BOOLEAN, Accept(p, pin)
      PROVE ProvenanceInv'
  BY <1>3 DEF TypeOK, Accept, SetPeerState
<1>4. ASSUME NEW p \in Peers, Reject(p) \/ DisconnectPeer(p)
      PROVE ProvenanceInv'
  BY <1>4 DEF TypeOK, Reject, DisconnectPeer, SetPeerState
<1>5. CASE RevokeAll
  BY <1>5 DEF TypeOK, RevokeAll
<1>6. CASE Tick \/ UNCHANGED admissionVars
  BY <1>1, <1>6 DEF Tick, admissionVars
<1>. QED BY <1>2, <1>3, <1>4, <1>5, <1>6 DEF Next

\* Every pin leads back to a peer the user accepted with a pin, over any
\* chain of automatic acceptances in tether_admission_add_pending.
THEOREM PinsComeFromUsers == Spec => []PinProvenance
<1>1. ProvenanceInv => PinProvenance
  BY DEF ProvenanceInv
<1>. QED BY <1>1, TypeInit, TypeNext, ProvenanceInit, ProvenanceNext, PTL DEF Spec

\* Every accepted peer that presents a fingerprint was accepted by the user or
\* shares it with one the user pinned: set_peer_state and the auto-accept loop
\* are the only ways in.  A peer that presents none is not covered.
THEOREM AcceptancesComeFromUsers == Spec => []AcceptProvenance
<1>1. ProvenanceInv => AcceptProvenance
  BY DEF ProvenanceInv
<1>. QED BY <1>1, TypeInit, TypeNext, ProvenanceInit, ProvenanceNext, PTL DEF Spec

-----------------------------------------------------------------------------
(* The admission list: the rate limit.                                     *)

\* Inductive: the attempts kept are the latest ones of the ledger, and those
\* already pruned lie more than a window back.
RateInv ==
    /\ Len(attempts) <= Len(ledger)
    /\ \A i \in 1 .. Len(attempts) : attempts[i] = ledger[Len(ledger) - Len(attempts) + i]
    /\ \A i \in 1 .. Len(ledger) - Len(attempts) : ledger[i] + Window < now
    /\ RateWindow

LEMMA RateInit == Init => RateInv
  BY DEF Init, RateInv, RateWindow

\* Pruning drops only attempts that left the window, and keeps the order of
\* the rest; the clock must not have wrapped below the window.
LEMMA PruneKeepsSuffix ==
  ASSUME TypeOK, RateInv, Uptime >= Window,
         NEW k \in 1 .. Len(attempts) + 1, PruneStopsAt(k)
  PROVE  LET live == SubSeq(attempts, k, Len(attempts))
         IN  /\ live \in Seq(Nat)
             /\ Len(live) = Len(attempts) - k + 1
             /\ Len(live) <= Len(ledger)
             /\ \A i \in 1 .. Len(live) : live[i] = ledger[Len(ledger) - Len(live) + i]
             /\ \A i \in 1 .. Len(ledger) - Len(live) : ledger[i] + Window < now
<1>. DEFINE live == SubSeq(attempts, k, Len(attempts))
<1>1. Cutoff = now - Window
  BY DEF TypeOK, Cutoff
<1>2. /\ live \in Seq(Nat)
      /\ Len(live) = Len(attempts) - k + 1
      /\ \A i \in 1 .. Len(live) : live[i] = attempts[k + i - 1]
  BY DEF TypeOK
<1>. HIDE DEF live
<1>3. \A i \in 1 .. Len(live) : live[i] = ledger[Len(ledger) - Len(live) + i]
  <2>. SUFFICES ASSUME NEW i \in 1 .. Len(live)
                PROVE  live[i] = ledger[Len(ledger) - Len(live) + i]
    OBVIOUS
  <2>1. k + i - 1 \in 1 .. Len(attempts)
    BY <1>2 DEF TypeOK
  <2>2. attempts[k + i - 1] = ledger[Len(ledger) - Len(attempts) + (k + i - 1)]
    BY <2>1 DEF RateInv
  <2>. QED BY <1>2, <2>2 DEF TypeOK
<1>4. \A i \in 1 .. Len(ledger) - Len(live) : ledger[i] + Window < now
  <2>. SUFFICES ASSUME NEW i \in 1 .. Len(ledger) - Len(live)
                PROVE  ledger[i] + Window < now
    OBVIOUS
  <2>1. CASE i <= Len(ledger) - Len(attempts)
    BY <2>1 DEF RateInv, TypeOK
  <2>2. CASE i > Len(ledger) - Len(attempts)
    <3>1. i - (Len(ledger) - Len(attempts)) \in 1 .. k - 1
      BY <2>2, <1>2 DEF TypeOK
    <3>2. attempts[i - (Len(ledger) - Len(attempts))] = ledger[i]
      BY <3>1 DEF RateInv, TypeOK
    <3>3. ledger[i] < Cutoff
      BY <3>1, <3>2 DEF PruneStopsAt
    <3>. QED BY <3>3, <1>1 DEF TypeOK
  <2>. QED BY <2>1, <2>2 DEF TypeOK
<1>5. Len(live) <= Len(ledger)
  BY <1>2 DEF RateInv, TypeOK
<1>. QED BY <1>2, <1>3, <1>4, <1>5 DEF live

\* Appending a time to a list of times leaves the list in place and the time last.
LEMMA TimeAppended ==
  ASSUME NEW s \in Seq(Nat), NEW t \in Nat
  PROVE  /\ Len(Append(s, t)) = Len(s) + 1
         /\ \A i \in 1 .. Len(s) : Append(s, t)[i] = s[i]
         /\ Append(s, t)[Len(s) + 1] = t
  OBVIOUS

LEMMA RateRegister ==
  ASSUME TypeOK, RateInv, Uptime >= Window,
         NEW p \in Peers, NEW f \in Fingerprints, AddRegistered(p, f)
  PROVE  RateInv'
<1>1. PICK k \in 1 .. Len(attempts) + 1 :
          /\ PruneStopsAt(k)
          /\ Len(attempts) - k + 1 < MaxAttempts
          /\ attempts' = Append(SubSeq(attempts, k, Len(attempts)), now)
          /\ ledger' = Append(ledger, now)
          /\ now' = now
  BY DEF AddRegistered
<1>. DEFINE live == SubSeq(attempts, k, Len(attempts))
<1>2. /\ live \in Seq(Nat)
      /\ Len(live) = Len(attempts) - k + 1
      /\ Len(live) <= Len(ledger)
      /\ \A i \in 1 .. Len(live) : live[i] = ledger[Len(ledger) - Len(live) + i]
      /\ \A i \in 1 .. Len(ledger) - Len(live) : ledger[i] + Window < now
  BY <1>1, PruneKeepsSuffix
<1>. HIDE DEF live
<1>3. attempts' = Append(live, now)
  BY <1>1 DEF live
<1>4. /\ Len(attempts') = Len(live) + 1
      /\ Len(ledger') = Len(ledger) + 1
      /\ \A i \in 1 .. Len(ledger) : ledger'[i] = ledger[i]
      /\ ledger'[Len(ledger) + 1] = now
      /\ \A i \in 1 .. Len(live) : attempts'[i] = live[i]
      /\ attempts'[Len(live) + 1] = now
  <2>1. now \in Nat /\ ledger \in Seq(Nat)
    BY DEF TypeOK
  <2>. live \in Seq(Nat)
    BY <1>2
  <2>2. /\ Len(Append(ledger, now)) = Len(ledger) + 1
        /\ \A i \in 1 .. Len(ledger) : Append(ledger, now)[i] = ledger[i]
        /\ Append(ledger, now)[Len(ledger) + 1] = now
    BY <2>1, TimeAppended
  <2>3. /\ Len(Append(live, now)) = Len(live) + 1
        /\ \A i \in 1 .. Len(live) : Append(live, now)[i] = live[i]
        /\ Append(live, now)[Len(live) + 1] = now
    BY <2>1, TimeAppended
  <2>. QED BY <2>2, <2>3, <1>1, <1>3
<1>5. /\ Len(ledger) \in Nat /\ Len(live) \in Nat /\ now \in Nat
      /\ Len(live) <= Len(ledger)
      /\ \A i \in 1 .. Len(ledger) : ledger[i] \in Nat
  BY <1>2 DEF TypeOK
<1>6. \A i \in 1 .. Len(attempts') : attempts'[i] = ledger'[Len(ledger') - Len(attempts') + i]
  <2>. SUFFICES ASSUME NEW i \in 1 .. Len(attempts')
                PROVE  attempts'[i] = ledger'[Len(ledger') - Len(attempts') + i]
    OBVIOUS
  <2>. Len(ledger') - Len(attempts') + i = Len(ledger) - Len(live) + i
    BY <1>4, <1>5
  <2>. i \in 1 .. Len(live) + 1
    BY <1>4, <1>5
  <2>1. CASE i = Len(live) + 1
    BY <2>1, <1>4, <1>5
  <2>2. CASE i # Len(live) + 1
    <3>1. i \in 1 .. Len(live) /\ Len(ledger) - Len(live) + i \in 1 .. Len(ledger)
      BY <2>2, <1>5
    <3>. QED BY <3>1, <1>2, <1>4
  <2>. QED BY <2>1, <2>2
<1>7. \A i \in 1 .. Len(ledger') - Len(attempts') : ledger'[i] + Window < now'
  <2>. SUFFICES ASSUME NEW i \in 1 .. Len(ledger) - Len(live)
                PROVE  ledger'[i] + Window < now
    BY <1>1, <1>4, <1>5
  <2>1. i \in 1 .. Len(ledger)
    BY <1>5
  <2>. QED BY <2>1, <1>2, <1>4
<1>8. RateWindow'
  <2>. SUFFICES ASSUME NEW i \in 1 .. Len(ledger') - MaxAttempts
                PROVE  ledger'[i] + Window < ledger'[i + MaxAttempts]
    BY DEF RateWindow
  <2>. i \in 1 .. Len(ledger) + 1 - MaxAttempts
    BY <1>4
  <2>0. /\ i \in Int /\ i >= 1 /\ i <= Len(ledger) + 1 - MaxAttempts
        /\ Len(ledger) \in Nat /\ MaxAttempts \in Nat \ {0}
    BY <1>5
  <2>1. CASE i <= Len(ledger) - MaxAttempts
    <3>1. i \in 1 .. Len(ledger) /\ i + MaxAttempts \in 1 .. Len(ledger)
      BY ONLY <2>0, <2>1
    <3>2. ledger[i] + Window < ledger[i + MaxAttempts]
      BY <2>1, <1>5 DEF RateInv, RateWindow
    <3>. QED BY <3>1, <3>2, <1>4
  <2>2. CASE i > Len(ledger) - MaxAttempts
    <3>. i = Len(ledger) + 1 - MaxAttempts
      BY ONLY <2>0, <2>2
    <3>1. i \in 1 .. Len(ledger) - Len(live) /\ i \in 1 .. Len(ledger)
      BY <1>1, <1>2, <1>5
    <3>2. i + MaxAttempts = Len(ledger) + 1
      BY <1>5
    <3>. QED BY <3>1, <3>2, <1>2, <1>4
  <2>. QED BY ONLY <2>0, <2>1, <2>2
<1>. QED BY <1>2, <1>4, <1>5, <1>6, <1>7, <1>8 DEF RateInv

LEMMA RateNext ==
  ASSUME Uptime >= Window
  PROVE  TypeOK /\ RateInv /\ [Next]_admissionVars => RateInv'
<1>. SUFFICES ASSUME TypeOK, RateInv, [Next]_admissionVars PROVE RateInv'
  OBVIOUS
<1>1. CASE UNCHANGED <<rateVars, now>>
  BY <1>1 DEF RateInv, RateWindow, rateVars
<1>2. ASSUME NEW p \in Peers, NEW f \in Fingerprints, AddPending(p, f)
      PROVE RateInv'
  <2>1. CASE AddWhileLockedOut
    BY <2>1, <1>1 DEF AddWhileLockedOut, admissionVars
  <2>2. CASE AddHitsLimit
    <3>1. PICK k \in 1 .. Len(attempts) + 1 :
              /\ PruneStopsAt(k)
              /\ attempts' = SubSeq(attempts, k, Len(attempts))
              /\ ledger' = ledger /\ now' = now
      BY <2>2 DEF AddHitsLimit
    <3>. QED BY <3>1, PruneKeepsSuffix DEF RateInv, RateWindow
  <2>3. CASE AddRegistered(p, f)
    BY <2>3, RateRegister
  <2>. QED BY <1>2, <2>1, <2>2, <2>3 DEF AddPending
<1>3. CASE Tick
  BY <1>3 DEF Tick, RateInv, RateWindow, rateVars, TypeOK
<1>4. CASE UNCHANGED admissionVars
  BY <1>4, <1>1 DEF admissionVars
<1>5. ASSUME NEW p \in Peers, \/ \E pin \in BOOLEAN : Accept(p, pin)
                              \/ Reject(p) \/ DisconnectPeer(p)
      PROVE RateInv'
  BY <1>5, <1>1 DEF Accept, Reject, DisconnectPeer, SetPeerState
<1>6. CASE RevokeAll
  BY <1>6, <1>1 DEF RevokeAll
<1>. QED BY <1>2, <1>3, <1>4, <1>5, <1>6 DEF Next

\* On a host that has been up for at least a window, no window of time holds
\* more than rate_limit_max_attempts registered attempts: pruning, lockouts
\* and their expiry included.
THEOREM RateLimitHolds ==
  ASSUME Uptime >= Window
  PROVE  Spec => []RateWindow
<1>1. RateInv => RateWindow
  BY DEF RateInv
<1>2. TypeOK /\ RateInv /\ [Next]_admissionVars => RateInv'
  BY RateNext
<1>. QED BY <1>1, <1>2, TypeInit, TypeNext, RateInit, PTL DEF Spec

-----------------------------------------------------------------------------
(* The admission list: steps.                                              *)

\* Only add_pending lists a peer, and only below the cap.
LEMMA AutoAcceptStep ==
  ASSUME TypeOK, [Next]_admissionVars, NEW p \in Peers, ~Listed(p), p \in Accepted'
  PROVE  Cardinality(Accepted') <= MaxReceivers
<1>1. \E f \in Fingerprints : ~CapReached /\ Enlist(p, f)
  <2>1. state'[p] = "accepted" /\ state[p] = "absent"
    BY DEF Accepted, Listed
  <2>2. PICK q \in Peers, f \in Fingerprints : AddPending(q, f)
    BY <2>1 DEF Next, Accept, Reject, DisconnectPeer, SetPeerState, RevokeAll, Tick,
                TypeOK, Listed, admissionVars, peerVars
  <2>3. ~CapReached /\ Enlist(q, f)
    BY <2>1, <2>2 DEF AddPending, AddWhileLockedOut, AddHitsLimit, AddRegistered,
                      admissionVars, peerVars
  <2>4. q = p
    BY <2>1, <2>3 DEF Enlist, TypeOK
  <2>. QED BY <2>3, <2>4
<1>2. Accepted' = Accepted \cup {p}
  BY <1>1 DEF Enlist, Accepted, TypeOK
<1>3. IsFiniteSet(Accepted)
  <2>1. Accepted \subseteq Peers
    BY DEF Accepted
  <2>. QED BY <2>1, FS_Subset
<1>4. p \notin Accepted
  BY DEF Accepted, Listed
<1>5. /\ Cardinality(Accepted \cup {p}) = Cardinality(Accepted) + 1
      /\ Cardinality(Accepted) \in Nat
  <2>1. Cardinality(Accepted) \in Nat
    BY ONLY <1>3, FS_CardinalityType
  <2>2. Cardinality(Accepted \cup {p})
          = IF p \in Accepted THEN Cardinality(Accepted) ELSE Cardinality(Accepted) + 1
    BY ONLY <1>3, FS_AddElement
  <2>. QED BY ONLY <1>4, <2>1, <2>2
<1>6. Cardinality(Accepted) < MaxReceivers
  BY <1>1, <1>5 DEF CapReached
<1>. QED BY <1>2, <1>5, <1>6

\* The automatic acceptances of pinned peers never take the list over
\* max_receivers.
THEOREM AutoAcceptStaysUnderCap == Spec => AutoAcceptRespectsCap
<1>1. TypeOK /\ [Next]_admissionVars =>
        [\A p \in Peers : ~Listed(p) /\ p \in Accepted' =>
              Cardinality(Accepted') <= MaxReceivers]_admissionVars
  BY AutoAcceptStep
<1>. QED BY <1>1, TypeInit, TypeNext, PTL DEF Spec, AutoAcceptRespectsCap

\* No call takes a pin away or changes what it stands for.
THEOREM PinsAreNeverCleared == Spec => PinsAreKept
<1>1. TypeOK /\ ProvenanceInv /\ [Next]_admissionVars =>
        [\A p \in pinned : p \in pinned' /\ fingerprint'[p] = fingerprint[p]]_admissionVars
  <2>. SUFFICES ASSUME TypeOK, ProvenanceInv, Next, NEW p \in pinned
                PROVE  p \in pinned' /\ fingerprint'[p] = fingerprint[p]
    OBVIOUS
  <2>1. ASSUME NEW q \in Peers, NEW f \in Fingerprints, AddPending(q, f)
        PROVE  p \in pinned' /\ fingerprint'[p] = fingerprint[p]
    BY <2>1 DEF AddPending, AddWhileLockedOut, AddHitsLimit, AddRegistered, Enlist,
                admissionVars, peerVars, ProvenanceInv, Listed, TypeOK
  <2>2. ASSUME ~\E q \in Peers, f \in Fingerprints : AddPending(q, f)
        PROVE  p \in pinned' /\ fingerprint'[p] = fingerprint[p]
    BY <2>2 DEF Next, Accept, Reject, DisconnectPeer, SetPeerState, RevokeAll, Tick, peerVars
  <2>. QED BY <2>1, <2>2
<1>. QED BY <1>1, TypeInit, TypeNext, ProvenanceInit, ProvenanceNext, PTL
         DEF Spec, PinsAreKept

-----------------------------------------------------------------------------
(* The sender: what its steps are made of.                                 *)

\* The calls of a thread and the peers and sessions they carry.
LEMMA CallKinds ==
  ASSUME NEW r \in Calls
  PROVE  /\ r.call \in {"accept", "create", "reject", "gone", "pending", "disconnect"}
              => r.peer \in Peers /\ r = Call(r.call, r.peer)
         /\ r.call = "negotiate" => r.session \in Nat \ {0}
  BY DEF Calls, Call

\* Changing the links of some sessions leaves the list as long as it was, and
\* each entry with its peer.
LEMMA RelinkKeepsPeers ==
  ASSUME sessions \in Seq(Sessions), NEW s, NEW l \in Links, Relink(s, l)
  PROVE  /\ sessions' \in Seq(Sessions)
         /\ DOMAIN sessions' = DOMAIN sessions
         /\ \A i \in DOMAIN sessions : sessions'[i].peer = sessions[i].peer
<1>1. Len(sessions) \in Nat /\ DOMAIN sessions = 1 .. Len(sessions)
  OBVIOUS
<1>2. \A i \in 1 .. Len(sessions) : sessions[i] \in Sessions
  OBVIOUS
<1>3. \A r \in Sessions : [r EXCEPT !.link = l] \in Sessions /\ [r EXCEPT !.link = l].peer = r.peer
  BY DEF Sessions
<1>4. sessions' = [i \in 1 .. Len(sessions) |->
        IF i \in s THEN [sessions[i] EXCEPT !.link = l] ELSE sessions[i]]
  BY <1>1 DEF Relink
<1>5. \A i \in 1 .. Len(sessions) :
        sessions'[i] = IF i \in s THEN [sessions[i] EXCEPT !.link = l] ELSE sessions[i]
  BY <1>4
<1>6. \A i \in 1 .. Len(sessions) :
        sessions'[i] \in Sessions /\ sessions'[i].peer = sessions[i].peer
  BY <1>2, <1>3, <1>5
<1>7. sessions' \in [1 .. Len(sessions) -> Sessions]
  BY <1>4, <1>6
<1>8. sessions' \in Seq(Sessions)
  BY <1>1, <1>7, IsASeq
<1>9. DOMAIN sessions' = DOMAIN sessions
  BY <1>1, <1>4
<1>. QED BY <1>1, <1>6, <1>8, <1>9

LEMMA SendType ==
  ASSUME outbox \in Seq(Sent), NEW m \in Sent, Send(m)
  PROVE  outbox' \in Seq(Sent)
  BY DEF Send

LEMMA PostType ==
  ASSUME posted \in Seq(Events), NEW p \in Peers, NEW e \in Shown \cup {"pending", "gone"},
         Post(e, p)
  PROVE  posted' \in Seq(Events)
<1>1. [event |-> e, peer |-> p] \in Events
  BY DEF Events
<1>. QED BY <1>1 DEF Post

LEMMA StartType ==
  ASSUME todo \in [Threads -> Seq(Calls)], NEW t \in Threads, NEW calls \in Seq(Calls),
         Start(t, calls)
  PROVE  todo' \in [Threads -> Seq(Calls)]
  BY DEF Start

LEMMA ProceedType ==
  ASSUME todo \in [Threads -> Seq(Calls)], NEW t \in Threads, ~Idle(t), Proceed(t)
  PROVE  todo' \in [Threads -> Seq(Calls)]
<1>1. todo[t] \in Seq(Calls) /\ todo[t] # <<>>
  BY DEF Idle
<1>2. Tail(todo[t]) \in Seq(Calls)
  BY <1>1, HeadTailProperties
<1>. QED BY <1>2 DEF Proceed

\* A row leaves the dialog's list.
LEMMA RemoveType ==
  ASSUME NEW s \in Seq(Rows), NEW i \in DOMAIN s
  PROVE  RemoveAt(s, i) \in Seq(Rows)
<1>1. i \in 1 .. Len(s) /\ Len(s) \in Nat
  OBVIOUS
<1>2. SubSeq(s, 1, i - 1) \in Seq(Rows)
  BY <1>1
<1>3. SubSeq(s, i + 1, Len(s)) \in Seq(Rows)
  BY <1>1
<1>. QED BY <1>2, <1>3, ConcatProperties DEF RemoveAt

-----------------------------------------------------------------------------
(* The sender implements the admission list.                               *)

\* The peer a message, a call, a row or a session is about.
LEMMA PeersOfState ==
  ASSUME SenderTypeOK
  PROVE  /\ \A i \in DOMAIN rows : rows[i].peer \in Peers
         /\ \A i \in DOMAIN sessions : sessions[i].peer \in Peers
         /\ inbox # <<>> => Head(inbox) \in Received /\ Head(inbox).peer \in Peers
         /\ posted # <<>> => Head(posted) \in Events /\ Head(posted).peer \in Peers
         /\ outbox # <<>> => Head(outbox) \in Sent
         /\ \A t \in Threads : ~Idle(t) => Next1(t) \in Calls
<1>1. /\ rows \in Seq(Rows) /\ sessions \in Seq(Sessions) /\ inbox \in Seq(Received)
      /\ posted \in Seq(Events) /\ outbox \in Seq(Sent)
      /\ \A t \in Threads : todo[t] \in Seq(Calls)
  BY DEF SenderTypeOK
<1>2. \A i \in DOMAIN rows : rows[i].peer \in Peers
  <2>1. \A i \in DOMAIN rows : rows[i] \in Rows
    BY <1>1
  <2>. QED BY <2>1 DEF Rows
<1>3. \A i \in DOMAIN sessions : sessions[i].peer \in Peers
  <2>1. \A i \in DOMAIN sessions : sessions[i] \in Sessions
    BY <1>1
  <2>. QED BY <2>1 DEF Sessions
<1>4. inbox # <<>> => Head(inbox) \in Received /\ Head(inbox).peer \in Peers
  <2>1. inbox # <<>> => Head(inbox) \in Received
    BY <1>1
  <2>. QED BY <2>1 DEF Received
<1>5. posted # <<>> => Head(posted) \in Events /\ Head(posted).peer \in Peers
  <2>1. posted # <<>> => Head(posted) \in Events
    BY <1>1
  <2>. QED BY <2>1 DEF Events
<1>6. outbox # <<>> => Head(outbox) \in Sent
  BY <1>1
<1>7. \A t \in Threads : ~Idle(t) => Next1(t) \in Calls
  BY <1>1 DEF Idle, Next1
<1>. QED BY <1>2, <1>3, <1>4, <1>5, <1>6, <1>7

\* Every step of a thread is one call on the list, or leaves it alone.
LEMMA StepOnList ==
  ASSUME SenderTypeOK, [SenderNext]_senderVars
  PROVE  [Next]_admissionVars
<1>1. CASE UNCHANGED admissionVars
  BY <1>1
<1>2. CASE User
  <2>1. ASSUME NEW i \in DOMAIN rows, UserAccept(i) \/ UserReject(i) PROVE Next
    <3>. rows[i].peer \in Peers
      BY PeersOfState
    <3>. QED BY <2>1 DEF UserAccept, UserReject, Next
  <2>2. CASE UserRevoke
    BY <2>2 DEF UserRevoke, Next
  <2>3. ASSUME UserClose \/ \E i \in DOMAIN rows : UserDisconnect(i)
        PROVE  UNCHANGED admissionVars
    BY <2>3 DEF UserClose, UserDisconnect
  <2>. QED BY <1>2, <2>1, <2>2, <2>3 DEF User
<1>3. ASSUME NEW t \in Threads, Thread(t) PROVE [Next]_admissionVars
  <2>1. CASE CallDisconnect(t)
    <3>1. Next1(t) \in Calls /\ Next1(t).call = "disconnect"
      BY <2>1, PeersOfState DEF CallDisconnect, Calling
    <3>. Next1(t).peer \in Peers
      BY <3>1, CallKinds
    <3>. QED BY <2>1 DEF CallDisconnect, Next
  <2>2. ASSUME CallSend(t) \/ CallCreate(t) \/ CallCreateFails(t) \/ CallNegotiate(t) \/ CallPost(t)
        PROVE  UNCHANGED admissionVars
    BY <2>2 DEF CallSend, CallCreate, CallCreateFails, CallNegotiate, CallPost
  <2>. QED BY <1>3, <2>1, <2>2 DEF Thread
<1>4. CASE Qt
  <2>1. ASSUME QtEvent \/ CallRevoke \/ CallFree \/ CallClose
        PROVE  UNCHANGED admissionVars
    BY <2>1 DEF QtEvent, CallRevoke, CallFree, CallClose
  <2>. QED BY <1>3, <1>4, <2>1 DEF Qt, Threads
<1>5. CASE Ws
  <2>1. ASSUME NEW f \in Fingerprints, WsPending(f) PROVE Next
    <3>. Head(inbox).peer \in Peers
      BY <2>1, PeersOfState DEF WsPending, Receive
    <3>. QED BY <2>1 DEF WsPending, Next
  <2>2. CASE WsPeerGone
    <3>. Head(inbox).peer \in Peers
      BY <2>2, PeersOfState DEF WsPeerGone, Receive
    <3>. QED BY <2>2 DEF WsPeerGone, Next
  <2>3. CASE WsAnswer
    BY <2>3 DEF WsAnswer
  <2>. QED BY <1>3, <1>5, <2>1, <2>2, <2>3 DEF Ws, Threads
<1>6. ASSUME NEW i \in DOMAIN sessions, Rtc(i) PROVE [Next]_admissionVars
  <2>1. CASE RtcRecord(i)
    <3>. sessions[i].peer \in Peers
      BY PeersOfState
    <3>. QED BY <2>1 DEF RtcRecord, Next
  <2>2. ASSUME RtcOffer(i) \/ RtcProgress(i) \/ RtcLost(i) PROVE UNCHANGED admissionVars
    BY <2>2 DEF RtcOffer, RtcProgress, RtcLost
  <2>. QED BY <1>6, <2>1, <2>2 DEF Rtc
<1>7. ASSUME WsLost \/ ServerTakes \/ \E p \in Peers : Knock(p) \/ Leave(p)
      PROVE  UNCHANGED admissionVars
  BY <1>7 DEF WsLost, ServerTakes, Knock, Leave
<1>8. CASE SenderTick
  BY <1>8 DEF SenderTick, Next
<1>9. CASE UNCHANGED senderVars
  BY <1>9 DEF senderVars
<1>. QED BY <1>2, <1>4, <1>5, <1>6, <1>7, <1>8, <1>9 DEF SenderNext

-----------------------------------------------------------------------------
(* Type correctness.                                                       *)

LEMMA SenderTypeInit == SenderInit => SenderTypeOK
<1>. SUFFICES ASSUME SenderInit PROVE SenderTypeOK
  OBVIOUS
<1>1. TypeOK
  BY TypeInit DEF SenderInit
<1>2. \A S : <<>> \in Seq(S)
  OBVIOUS
<1>. QED BY <1>1, <1>2 DEF SenderInit, SenderTypeOK

\* The calls that follow a decision are typed.
LEMMA CallsType ==
  ASSUME NEW p \in Peers
  PROVE  /\ \A c \in {"accept", "create", "reject", "gone", "pending", "disconnect"} :
                Call(c, p) \in Calls
         /\ OnAccepted(p) \in Seq(Calls)
         /\ OnRejected(p) \in Seq(Calls)
         /\ OnAccepted(p) \o <<Call("pending", p)>> \in Seq(Calls)
         /\ <<>> \in Seq(Calls)
<1>1. \A c \in {"accept", "create", "reject", "gone", "pending", "disconnect"} :
         Call(c, p) \in Calls
  BY DEF Call, Calls
<1>2. \A a, b \in Calls : <<a, b>> \in Seq(Calls)
  OBVIOUS
<1>3. \A a \in Calls : <<a>> \in Seq(Calls)
  OBVIOUS
<1>4. OnAccepted(p) \in Seq(Calls) /\ OnRejected(p) \in Seq(Calls)
  BY <1>1, <1>2 DEF OnAccepted, OnRejected
<1>5. <<Call("pending", p)>> \in Seq(Calls)
  BY <1>1, <1>3
<1>. QED BY <1>1, <1>4, <1>5, ConcatProperties

LEMMA TypeUser ==
  ASSUME SenderTypeOK, TypeOK', User
  PROVE  SenderTypeOK'
<1>. USE DEF SenderTypeOK
<1>1. ASSUME NEW i \in DOMAIN rows, UserAccept(i) PROVE SenderTypeOK'
  <2>1. rows[i].peer \in Peers
    BY PeersOfState
  <2>2. \E calls \in Seq(Calls) : Start("qt", calls)
    BY <2>1, <1>1, CallsType DEF UserAccept
  <2>3. todo' \in [Threads -> Seq(Calls)]
    BY <2>2, StartType DEF Threads
  <2>. QED BY <1>1, <2>3 DEF UserAccept, mediaVars, wireVars, dialogVars
<1>2. ASSUME NEW i \in DOMAIN rows, UserReject(i) PROVE SenderTypeOK'
  <2>1. rows[i].peer \in Peers
    BY PeersOfState
  <2>2. \E calls \in Seq(Calls) : Start("qt", calls)
    BY <2>1, <1>2, CallsType DEF UserReject
  <2>3. todo' \in [Threads -> Seq(Calls)]
    BY <2>2, StartType DEF Threads
  <2>. QED BY <1>2, <2>3 DEF UserReject, mediaVars, wireVars, dialogVars
<1>3. ASSUME NEW i \in DOMAIN rows, UserDisconnect(i) PROVE SenderTypeOK'
  <2>. DEFINE p == rows[i].peer
              calls == <<Call("disconnect", p), Call("reject", p), Call("gone", p)>>
  <2>1. p \in Peers
    BY PeersOfState
  <2>2. calls \in Seq(Calls)
    BY <2>1, CallsType
  <2>3. todo' \in [Threads -> Seq(Calls)]
    BY <2>2, <1>3, StartType DEF UserDisconnect, Threads
  <2>4. sessions' \in Seq(Sessions)
    <3>1. Relink(FirstOf(SessionsOf(p)), "freed")
      BY <1>3 DEF UserDisconnect
    <3>. QED BY <3>1, RelinkKeepsPeers DEF Links
  <2>. QED BY <1>3, <2>3, <2>4 DEF UserDisconnect, admissionVars, wireVars, dialogVars
<1>4. CASE UserRevoke
  <2>1. <<[call |-> "revoke"], [call |-> "free"], [call |-> "close"]>> \in Seq(Calls)
    BY DEF Calls
  <2>2. todo' \in [Threads -> Seq(Calls)]
    BY <2>1, <1>4, StartType DEF UserRevoke, Threads
  <2>. QED BY <1>4, <2>2 DEF UserRevoke, mediaVars, wireVars, dialogVars
<1>5. CASE UserClose
  <2>1. <<[call |-> "free"], [call |-> "close"]>> \in Seq(Calls)
    BY DEF Calls
  <2>2. todo' \in [Threads -> Seq(Calls)]
    BY <2>1, <1>5, StartType DEF UserClose, Threads
  <2>. QED BY <1>5, <2>2 DEF UserClose, mediaVars, wireVars, dialogVars
<1>. QED BY <1>1, <1>2, <1>3, <1>4, <1>5 DEF User

LEMMA TypeThread ==
  ASSUME SenderTypeOK, TypeOK', NEW t \in Threads, Thread(t)
  PROVE  SenderTypeOK'
<1>. USE DEF SenderTypeOK
<1>. DEFINE r == Next1(t)
<1>1. ASSUME ~Idle(t) PROVE r \in Calls
  BY <1>1, PeersOfState
<1>2. CASE CallSend(t)
  <2>1. r \in Calls /\ r.call \in {"accept", "reject"} /\ ~Idle(t)
    BY <1>1, <1>2 DEF CallSend, Calling
  <2>2. [msg |-> r.call, peer |-> r.peer] \in Sent
    BY <2>1, CallKinds DEF Sent
  <2>3. outbox' \in Seq(Sent)
    BY <1>2, <2>2, SendType DEF CallSend
  <2>4. todo' \in [Threads -> Seq(Calls)]
    BY <1>2, <2>1, ProceedType DEF CallSend
  <2>. QED BY <1>2, <2>3, <2>4 DEF CallSend, mediaVars, dialogVars
<1>3. CASE CallCreate(t)
  <2>1. r \in Calls /\ r.call = "create" /\ ~Idle(t)
    BY <1>1, <1>3 DEF CallCreate, Calling
  <2>2. [peer |-> r.peer, link |-> "new"] \in Sessions
    BY <2>1, CallKinds DEF Sessions, Links
  <2>3. sessions' \in Seq(Sessions)
    BY <1>3, <2>2 DEF CallCreate
  <2>4. todo' \in [Threads -> Seq(Calls)]
    <3>1. [call |-> "negotiate", session |-> Len(sessions) + 1] \in Calls
      <4>1. Len(sessions) + 1 \in Nat \ {0}
        OBVIOUS
      <4>. QED BY <4>1 DEF Calls
    <3>2. todo[t] \in Seq(Calls) /\ todo[t] # <<>>
      BY <2>1 DEF Idle
    <3>3. Tail(todo[t]) \in Seq(Calls)
      BY <3>2, HeadTailProperties
    <3>4. <<[call |-> "negotiate", session |-> Len(sessions) + 1]>> \o Tail(todo[t]) \in Seq(Calls)
      BY <3>1, <3>3
    <3>. QED BY <1>3, <3>4 DEF CallCreate
  <2>. QED BY <1>3, <2>3, <2>4 DEF CallCreate, wireVars, dialogVars
<1>4. CASE CallNegotiate(t)
  <2>1. ~Idle(t)
    BY <1>4 DEF CallNegotiate, Calling
  <2>2. todo' \in [Threads -> Seq(Calls)]
    BY <1>4, <2>1, ProceedType DEF CallNegotiate
  <2>3. sessions' \in Seq(Sessions)
    BY <1>4, RelinkKeepsPeers DEF CallNegotiate, Links
  <2>. QED BY <1>4, <2>2, <2>3 DEF CallNegotiate, wireVars, dialogVars
<1>5. CASE CallPost(t)
  <2>1. r \in Calls /\ r.call \in {"pending", "gone"} /\ ~Idle(t)
    BY <1>1, <1>5 DEF CallPost, Calling
  <2>2. posted' \in Seq(Events)
    BY <1>5, <2>1, CallKinds, PostType DEF CallPost
  <2>3. todo' \in [Threads -> Seq(Calls)]
    BY <1>5, <2>1, ProceedType DEF CallPost
  <2>. QED BY <1>5, <2>2, <2>3 DEF CallPost, mediaVars, wireVars
<1>6. CASE CallDisconnect(t)
  <2>1. ~Idle(t)
    BY <1>6 DEF CallDisconnect, Calling
  <2>2. todo' \in [Threads -> Seq(Calls)]
    BY <1>6, <2>1, ProceedType DEF CallDisconnect
  <2>. QED BY <1>6, <2>2 DEF CallDisconnect, mediaVars, wireVars, dialogVars
<1>7. CASE CallCreateFails(t)
  <2>1. r \in Calls /\ r.call = "create" /\ ~Idle(t)
    BY <1>1, <1>7 DEF CallCreateFails, Calling
  <2>2. [peer |-> r.peer, link |-> "unmade"] \in Sessions
    BY <2>1, CallKinds DEF Sessions, Links
  <2>3. sessions' \in Seq(Sessions)
    BY <1>7, <2>2 DEF CallCreateFails
  <2>4. todo' \in [Threads -> Seq(Calls)]
    BY <1>7, <2>1, ProceedType DEF CallCreateFails
  <2>. QED BY <1>7, <2>3, <2>4 DEF CallCreateFails, wireVars, dialogVars
<1>. QED BY <1>2, <1>3, <1>4, <1>5, <1>6, <1>7 DEF Thread

LEMMA TypeQt ==
  ASSUME SenderTypeOK, TypeOK', Qt
  PROVE  SenderTypeOK'
<1>. USE DEF SenderTypeOK
<1>1. CASE QtEvent
  <2>1. posted # <<>> /\ posted' = Tail(posted)
    BY <1>1 DEF QtEvent
  <2>2. posted' \in Seq(Events)
    BY <2>1, HeadTailProperties
  <2>. DEFINE e == Head(posted).event
              p == Head(posted).peer
  <2>3. p \in Peers
    BY <2>1, PeersOfState
  <2>4. rows' \in Seq(Rows)
    <3>1. CASE rows' = Append(rows, [peer |-> p, shown |-> "waiting"])
      <4>1. [peer |-> p, shown |-> "waiting"] \in Rows
        BY <2>3 DEF Rows, Shown
      <4>. QED BY <3>1, <4>1
    <3>2. CASE UNCHANGED rows
      BY <3>2
    <3>3. ASSUME NEW i \in FirstOf(RowsOf(p)), e \in Shown, rows' = [rows EXCEPT ![i].shown = e]
          PROVE  rows' \in Seq(Rows)
      <4>1. i \in 1 .. Len(rows)
        BY DEF FirstOf, RowsOf
      <4>2. rows[i] \in Rows
        BY <4>1
      <4>3. [rows[i] EXCEPT !.shown = e] \in Rows
        BY <4>2, <3>3 DEF Rows
      <4>4. rows' = [rows EXCEPT ![i] = [rows[i] EXCEPT !.shown = e]]
        BY <3>3
      <4>. HIDE DEF e
      <4>. QED BY <4>1, <4>3, <4>4, ExceptSeq
    <3>4. ASSUME NEW i \in FirstOf(RowsOf(p)), rows' = RemoveAt(rows, i)
          PROVE  rows' \in Seq(Rows)
      <4>1. i \in DOMAIN rows
        BY DEF FirstOf, RowsOf
      <4>. QED BY <3>4, <4>1, RemoveType
    <3>. QED BY <1>1, <3>1, <3>2, <3>3, <3>4 DEF QtEvent
  <2>. QED BY <1>1, <2>2, <2>4 DEF QtEvent, admissionVars, mediaVars, wireVars
<1>2. CASE Thread("qt")
  BY <1>2, TypeThread DEF Threads
<1>3. CASE CallRevoke
  <2>1. [msg |-> "revoke"] \in Sent
    BY DEF Sent
  <2>2. outbox' \in Seq(Sent)
    BY <1>3, <2>1, SendType DEF CallRevoke
  <2>3. todo' \in [Threads -> Seq(Calls)]
    BY <1>3, ProceedType DEF CallRevoke, Calling, Threads
  <2>. QED BY <1>3, <2>2, <2>3 DEF CallRevoke, mediaVars, dialogVars
<1>4. CASE CallFree
  <2>1. todo' \in [Threads -> Seq(Calls)]
    BY <1>4, ProceedType DEF CallFree, Calling, Threads
  <2>2. sessions' \in Seq(Sessions)
    BY <1>4, RelinkKeepsPeers DEF CallFree, Links
  <2>. QED BY <1>4, <2>1, <2>2 DEF CallFree, wireVars, dialogVars
<1>5. CASE CallClose
  <2>1. todo' \in [Threads -> Seq(Calls)]
    BY <1>5, ProceedType DEF CallClose, Calling, Threads
  <2>2. inbox' \in Seq(Received) /\ rows' \in Seq(Rows)
    BY <1>5 DEF CallClose
  <2>. QED BY <1>5, <2>1, <2>2 DEF CallClose, mediaVars
<1>. QED BY <1>1, <1>2, <1>3, <1>4, <1>5 DEF Qt

LEMMA TypeWs ==
  ASSUME SenderTypeOK, TypeOK', Ws
  PROVE  SenderTypeOK'
<1>. USE DEF SenderTypeOK
<1>. DEFINE p == Head(inbox).peer
<1>1. ASSUME NEW m, Receive(m)
      PROVE  inbox' \in Seq(Received) /\ p \in Peers
  <2>1. inbox # <<>> /\ inbox' = Tail(inbox)
    BY <1>1 DEF Receive
  <2>. QED BY <2>1, PeersOfState, HeadTailProperties
<1>2. ASSUME NEW f \in Fingerprints, WsPending(f) PROVE SenderTypeOK'
  <2>1. inbox' \in Seq(Received) /\ p \in Peers
    BY <1>1, <1>2 DEF WsPending
  <2>2. <<Call("pending", p)>> \in Seq(Calls)
    <3>1. Call("pending", p) \in Calls
      BY <2>1, CallsType
    <3>. QED BY <3>1
  <2>3. \E calls \in Seq(Calls) : Start("ws", calls)
    BY <1>2, <2>1, <2>2, CallsType DEF WsPending
  <2>4. todo' \in [Threads -> Seq(Calls)]
    BY <2>3, StartType DEF Threads
  <2>. QED BY <1>2, <2>1, <2>4 DEF WsPending, mediaVars, dialogVars
<1>3. CASE WsAnswer
  <2>1. inbox' \in Seq(Received)
    BY <1>1, <1>3 DEF WsAnswer
  <2>2. sessions' \in Seq(Sessions)
    BY <1>3, RelinkKeepsPeers DEF WsAnswer, Links
  <2>. QED BY <1>3, <2>1, <2>2 DEF WsAnswer, dialogVars
<1>4. CASE WsPeerGone
  <2>1. inbox' \in Seq(Received) /\ p \in Peers
    BY <1>1, <1>4 DEF WsPeerGone
  <2>2. <<Call("gone", p)>> \in Seq(Calls)
    <3>1. Call("gone", p) \in Calls
      BY <2>1, CallsType
    <3>. QED BY <3>1
  <2>3. todo' \in [Threads -> Seq(Calls)]
    BY <1>4, <2>2, StartType DEF WsPeerGone, Threads
  <2>. QED BY <1>4, <2>1, <2>3 DEF WsPeerGone, mediaVars, dialogVars
<1>5. CASE Thread("ws")
  BY <1>5, TypeThread DEF Threads
<1>. QED BY <1>2, <1>3, <1>4, <1>5 DEF Ws

LEMMA TypeRtc ==
  ASSUME SenderTypeOK, TypeOK', NEW i \in DOMAIN sessions, Rtc(i)
  PROVE  SenderTypeOK'
<1>. USE DEF SenderTypeOK
<1>1. sessions[i].peer \in Peers
  BY PeersOfState
<1>2. \A l \in Links : Relink({i}, l) => sessions' \in Seq(Sessions)
  BY RelinkKeepsPeers
<1>3. CASE RtcOffer(i)
  <2>1. [msg |-> "offer", peer |-> sessions[i].peer] \in Sent
    BY <1>1 DEF Sent
  <2>2. outbox' \in Seq(Sent)
    BY <1>3, <2>1, SendType DEF RtcOffer
  <2>3. sessions' \in Seq(Sessions)
    BY <1>2, <1>3 DEF RtcOffer, Links
  <2>. QED BY <1>3, <2>2, <2>3 DEF RtcOffer, dialogVars
<1>4. CASE RtcProgress(i)
  <2>1. posted' \in Seq(Events)
    BY <1>1, <1>4, PostType DEF RtcProgress, Shown
  <2>2. sessions' \in Seq(Sessions)
    BY <1>2, <1>4 DEF RtcProgress, Links
  <2>. QED BY <1>4, <2>1, <2>2 DEF RtcProgress, wireVars
<1>5. CASE RtcLost(i)
  <2>1. posted' \in Seq(Events)
    BY <1>1, <1>5, PostType DEF RtcLost, Shown
  <2>2. sessions' \in Seq(Sessions)
    BY <1>2, <1>5 DEF RtcLost, Links
  <2>. QED BY <1>5, <2>1, <2>2 DEF RtcLost, wireVars
<1>6. CASE RtcRecord(i)
  <2>1. sessions' \in Seq(Sessions)
    BY <1>2, <1>6 DEF RtcRecord, Links
  <2>. QED BY <1>6, <2>1 DEF RtcRecord, wireVars, dialogVars
<1>. QED BY <1>3, <1>4, <1>5, <1>6 DEF Rtc

LEMMA TypeWire ==
  ASSUME SenderTypeOK, TypeOK',
         WsLost \/ ServerTakes \/ \E p \in Peers : Knock(p) \/ Leave(p)
  PROVE  SenderTypeOK'
<1>. USE DEF SenderTypeOK
<1>0. ASSUME NEW p \in Peers, NEW m \in {"pending", "answer", "peer_gone"}, ToSender(m, p)
      PROVE  inbox' \in Seq(Received)
  <2>1. [msg |-> m, peer |-> p] \in Received
    BY DEF Received
  <2>. QED BY <1>0, <2>1 DEF ToSender
<1>1. CASE WsLost
  <2>1. inbox' \in Seq(Received) /\ outbox' \in Seq(Sent)
    BY <1>1 DEF WsLost
  <2>. QED BY <1>1, <2>1 DEF WsLost, mediaVars, dialogVars
<1>2. CASE ServerTakes
  <2>1. outbox # <<>> /\ outbox' = Tail(outbox) /\ Head(outbox) \in Sent
    BY <1>2, PeersOfState DEF ServerTakes
  <2>2. outbox' \in Seq(Sent)
    BY <2>1, HeadTailProperties
  <2>3. Head(outbox).msg # "revoke" => Head(outbox).peer \in Peers
    BY <2>1 DEF Sent
  <2>4. inbox' \in Seq(Received)
    BY <1>2, <2>3, <1>0 DEF ServerTakes
  <2>5. room' \in [Peers -> {"out", "waiting", "admitted", "gone"}]
    BY <1>2 DEF ServerTakes
  <2>. QED BY <1>2, <2>2, <2>4, <2>5 DEF ServerTakes, mediaVars, dialogVars
<1>3. ASSUME NEW p \in Peers, Knock(p) \/ Leave(p) PROVE SenderTypeOK'
  <2>1. inbox' \in Seq(Received)
    BY <1>0, <1>3 DEF Knock, Leave
  <2>2. room' \in [Peers -> {"out", "waiting", "admitted", "gone"}]
    BY <1>3 DEF Knock, Leave
  <2>. QED BY <1>3, <2>1, <2>2 DEF Knock, Leave, mediaVars, dialogVars
<1>. QED BY <1>1, <1>2, <1>3

LEMMA SenderTypeNext == SenderTypeOK /\ [SenderNext]_senderVars => SenderTypeOK'
<1>. SUFFICES ASSUME SenderTypeOK, [SenderNext]_senderVars PROVE SenderTypeOK'
  OBVIOUS
<1>1. TypeOK'
  BY StepOnList, TypeNext DEF SenderTypeOK
<1>2. CASE SenderTick \/ UNCHANGED senderVars
  <2>1. UNCHANGED <<mediaVars, todo, phase, wireVars, dialogVars>>
    BY <1>2 DEF SenderTick, senderVars
  <2>. QED BY <1>1, <2>1 DEF SenderTypeOK, mediaVars, wireVars, dialogVars
<1>. QED BY <1>1, <1>2, TypeUser, TypeQt, TypeWs, TypeRtc, TypeWire DEF SenderNext

\* The state of the sender keeps its types, whatever its threads interleave.
THEOREM SenderTypeCorrect == SenderSpec => []SenderTypeOK
<1>. QED BY SenderTypeInit, SenderTypeNext, PTL DEF SenderSpec

\* tether_sender uses the admission list only as module Admission lets it be
\* used: what admission.c promises, it promises to the sender.
THEOREM SenderImplementsAdmission == SenderSpec => AdmissionSpec
<1>1. SenderInit => Init
  BY DEF SenderInit
<1>2. SenderTypeOK /\ [SenderNext]_senderVars => [Next]_admissionVars
  BY StepOnList
<1>. QED BY <1>1, <1>2, SenderTypeInit, SenderTypeNext, PTL
         DEF SenderSpec, Spec, AdmissionSpec

-----------------------------------------------------------------------------
(* The calls a thread has still to make.                                   *)

\* A thread that makes a call keeps the others it has to make.
LEMMA ProceedKeeps ==
  ASSUME SenderTypeOK, NEW t \in Threads, ~Idle(t), Proceed(t)
  PROVE  /\ \A u \in Threads \ {t} : todo'[u] = todo[u]
         /\ 1 \in DOMAIN todo[t] /\ todo[t][1] = Next1(t)
         /\ \A k \in DOMAIN todo[t] :
               k = 1 \/ (k - 1 \in DOMAIN todo'[t] /\ todo'[t][k - 1] = todo[t][k])
         /\ \A k \in DOMAIN todo'[t] : \E j \in DOMAIN todo[t] : todo'[t][k] = todo[t][j]
<1>1. todo[t] \in Seq(Calls) /\ todo[t] # <<>>
  BY DEF Idle, SenderTypeOK
<1>2. todo'[t] = Tail(todo[t]) /\ \A u \in Threads \ {t} : todo'[u] = todo[u]
  BY DEF Proceed, SenderTypeOK
<1>3. 1 \in DOMAIN todo[t] /\ todo[t][1] = Next1(t)
  BY <1>1 DEF Next1
<1>. DEFINE s == todo[t]
            r == Tail(s)
<1>. HIDE DEF s
<1>4. s \in Seq(Calls) /\ s # <<>>
  BY <1>1 DEF s
<1>5. /\ \A k \in DOMAIN s : k = 1 \/ (k - 1 \in DOMAIN r /\ r[k - 1] = s[k])
      /\ \A k \in DOMAIN r : k + 1 \in DOMAIN s /\ r[k] = s[k + 1]
  BY <1>4, HeadTailProperties
<1>. QED BY <1>2, <1>3, <1>5 DEF s

\* A thread that has created a session negotiates it next, and keeps the other
\* calls it has to make in their places.
LEMMA CreateKeeps ==
  ASSUME SenderTypeOK, NEW t \in Threads, CallCreate(t)
  PROVE  /\ \A u \in Threads \ {t} : todo'[u] = todo[u]
         /\ 1 \in DOMAIN todo[t] /\ todo[t][1] = Next1(t)
         /\ DOMAIN todo'[t] = DOMAIN todo[t] /\ DOMAIN todo[t] = 1 .. Len(todo[t])
         /\ todo'[t][1].call = "negotiate"
         /\ \A k \in DOMAIN todo[t] : k = 1 \/ todo'[t][k] = todo[t][k]
<1>. DEFINE s == todo[t]
            next == [call |-> "negotiate", session |-> Len(sessions) + 1]
            rest == Tail(s)
<1>1. /\ s \in Seq(Calls) /\ s # <<>>
      /\ todo'[t] = <<next>> \o rest
      /\ \A u \in Threads \ {t} : todo'[u] = todo[u]
      /\ Next1(t) = s[1]
  BY DEF CallCreate, SenderTypeOK, Calling, Idle, Next1
<1>2. next \in Calls
  <2>1. Len(sessions) + 1 \in Nat \ {0}
    BY DEF SenderTypeOK
  <2>. QED BY <2>1 DEF Calls
<1>3. next.call = "negotiate"
  OBVIOUS
<1>. HIDE DEF next, s
<1>4. /\ rest \in Seq(Calls) /\ Len(rest) = Len(s) - 1
      /\ \A k \in 1 .. Len(rest) : rest[k] = s[k + 1]
      /\ DOMAIN s = 1 .. Len(s) /\ Len(s) \in Nat \ {0}
  BY <1>1, HeadTailProperties
<1>5. <<next>> \in Seq(Calls) /\ Len(<<next>>) = 1 /\ <<next>>[1] = next
  BY <1>2
<1>. HIDE DEF rest
<1>6. /\ <<next>> \o rest \in Seq(Calls)
      /\ Len(<<next>> \o rest) = 1 + Len(rest)
      /\ \A k \in 1 .. 1 + Len(rest) :
            (<<next>> \o rest)[k] = IF k <= 1 THEN <<next>>[k] ELSE rest[k - 1]
  BY <1>4, <1>5, ConcatProperties
<1>7. DOMAIN todo'[t] = 1 .. Len(s)
  BY <1>1, <1>4, <1>6, LenProperties
<1>8. \A k \in 2 .. Len(s) : todo'[t][k] = s[k]
  <2>. SUFFICES ASSUME NEW k \in 2 .. Len(s) PROVE todo'[t][k] = s[k]
    OBVIOUS
  <2>1. k - 1 \in 1 .. Len(rest) /\ k \in 1 .. 1 + Len(rest) /\ ~(k <= 1) /\ (k - 1) + 1 = k
    BY <1>4
  <2>2. todo'[t][k] = rest[k - 1]
    BY <1>1, <1>6, <2>1
  <2>3. rest[k - 1] = s[(k - 1) + 1]
    BY <1>4, <2>1
  <2>. QED BY <2>1, <2>2, <2>3
<1>9. todo'[t][1] = next /\ 1 \in DOMAIN s
  BY <1>1, <1>4, <1>5, <1>6
<1>10. \A k \in DOMAIN s : k = 1 \/ todo'[t][k] = s[k]
  BY <1>4, <1>8
<1>. QED BY <1>1, <1>3, <1>4, <1>7, <1>9, <1>10 DEF s

-----------------------------------------------------------------------------
(* No media without a decision.                                            *)

\* A session is to be created for peer p.
Creates(calls, p) == \E k \in DOMAIN calls : calls[k] = Call("create", p)

\* The peers a thread is still to create a session for.
DueIn(t) == {p \in Peers : Creates(todo[t], p)}

Due == UNION {DueIn(t) : t \in Threads}

\* The peers a thread is about to create a session for.
Creating == {p \in Peers : \E t \in Threads : ~Idle(t) /\ Next1(t) = Call("create", p)}

Served == {sessions[i].peer : i \in DOMAIN sessions}

\* The peer has left the waiting state.
Decided(p) == state[p] \notin {"absent", "pending"}

\* Inductive: NoMediaWhilePending needs the decision to be there from the
\* moment a thread is to create the session.
MediaInv == \A p \in Served \cup Due : Decided(p)

LEMMA MediaInit == SenderInit => MediaInv
  BY DEF SenderInit, MediaInv, Served, Due, DueIn, Creates, Threads

\* A decision stays: no operation of the list makes an entry pending again.
LEMMA DecidedStays ==
  ASSUME TypeOK, [Next]_admissionVars, NEW p \in Peers, Decided(p)
  PROVE  Decided(p)'
<1>1. CASE UNCHANGED state
  BY <1>1 DEF Decided
<1>2. ASSUME NEW q \in Peers, NEW f \in Fingerprints, AddPending(q, f)
      PROVE  Decided(p)'
  <2>1. UNCHANGED state \/ (~Listed(q) /\ Enlist(q, f))
    BY <1>2 DEF AddPending, AddWhileLockedOut, AddHitsLimit, AddRegistered, admissionVars, peerVars
  <2>2. CASE ~Listed(q) /\ Enlist(q, f)
    <3>1. p # q
      BY <2>2 DEF Decided, Listed
    <3>2. state'[p] = state[p]
      BY <2>2, <3>1 DEF Enlist, TypeOK
    <3>. QED BY <3>2 DEF Decided
  <2>. QED BY <1>1, <2>1, <2>2
<1>3. ASSUME NEW q \in Peers, NEW s, s \in {"accepted", "rejected", "disconnected"},
             NEW pin, SetPeerState(q, s, pin)
      PROVE  Decided(p)'
  <2>1. state'[p] = state[p] \/ state'[p] = s
    BY <1>3 DEF SetPeerState, TypeOK
  <2>. QED BY <1>3, <2>1 DEF Decided
<1>4. ASSUME NEW q \in Peers, NEW pin \in BOOLEAN, Accept(q, pin)
      PROVE  Decided(p)'
  BY <1>3, <1>4 DEF Accept
<1>5. ASSUME NEW q \in Peers, Reject(q) \/ DisconnectPeer(q)
      PROVE  Decided(p)'
  BY <1>3, <1>5 DEF Reject, DisconnectPeer
<1>6. CASE RevokeAll
  BY <1>6 DEF RevokeAll, Listed, Decided
<1>7. CASE Tick \/ UNCHANGED admissionVars
  BY <1>1, <1>7 DEF Tick, admissionVars, peerVars
<1>. QED BY <1>2, <1>4, <1>5, <1>6, <1>7 DEF Next

\* A thread that makes a call has one less to make.
LEMMA ProceedDue ==
  ASSUME SenderTypeOK, NEW t \in Threads, ~Idle(t), Proceed(t)
  PROVE  Due' \subseteq Due
<1>1. /\ \A u \in Threads \ {t} : todo'[u] = todo[u]
      /\ \A k \in DOMAIN todo'[t] : \E j \in DOMAIN todo[t] : todo'[t][k] = todo[t][j]
  BY ProceedKeeps
<1>2. DueIn(t)' \subseteq DueIn(t)
  BY <1>1 DEF DueIn, Creates
<1>3. \A u \in Threads \ {t} : DueIn(u)' = DueIn(u)
  BY <1>1 DEF DueIn
<1>. QED BY <1>2, <1>3 DEF Due

\* A thread that starts on some calls has them to make.
LEMMA StartDue ==
  ASSUME SenderTypeOK, NEW t \in Threads, NEW calls, Start(t, calls),
         NEW p \in Due'
  PROVE  p \in Due \/ Creates(calls, p)
<1>1. todo'[t] = calls /\ \A u \in Threads \ {t} : todo'[u] = todo[u]
  BY DEF Start, SenderTypeOK
<1>2. PICK u \in Threads : p \in DueIn(u)'
  BY DEF Due
<1>3. CASE u = t
  BY <1>1, <1>2, <1>3 DEF DueIn
<1>4. CASE u # t
  BY <1>1, <1>2, <1>4 DEF DueIn, Due
<1>. QED BY <1>3, <1>4

\* The peers a decision makes a session due for.
LEMMA DecisionDue ==
  ASSUME NEW p, NEW q
  PROVE  /\ Creates(OnAccepted(p), q) => q = p
         /\ Creates(OnAccepted(p) \o <<Call("pending", p)>>, q) => q = p
         /\ ~Creates(OnRejected(p), q)
         /\ ~Creates(<<Call("pending", p)>>, q)
         /\ ~Creates(<<Call("gone", p)>>, q)
         /\ ~Creates(<<>>, q)
<1>1. \A c, d : Call(c, p) = Call(d, q) => c = d /\ p = q
  BY DEF Call
<1>. DEFINE first == OnAccepted(p)
            last == <<Call("pending", p)>>
<1>2. /\ \A k \in DOMAIN first : first[k] = Call("create", q) => q = p
      /\ \A k \in DOMAIN OnRejected(p) : OnRejected(p)[k] # Call("create", q)
      /\ \A k \in DOMAIN last : last[k] # Call("create", q)
      /\ \A k \in DOMAIN <<Call("gone", p)>> : <<Call("gone", p)>>[k] # Call("create", q)
  BY <1>1 DEF OnAccepted, OnRejected
<1>3. /\ first \in Seq({Call("accept", p), Call("create", p)}) /\ Len(first) = 2
      /\ last \in Seq({Call("pending", p)}) /\ Len(last) = 1
  BY DEF OnAccepted
<1>4. DOMAIN first = 1 .. 2 /\ DOMAIN last = 1 .. 1
  BY <1>3
<1>. HIDE DEF first, last
<1>5. /\ Len(first \o last) = 3
      /\ \A k \in 1 .. 3 : (first \o last)[k] = IF k <= 2 THEN first[k] ELSE last[k - 2]
      /\ DOMAIN (first \o last) = 1 .. 3
  <2>1. /\ first \in Seq({Call("accept", p), Call("create", p), Call("pending", p)})
        /\ last \in Seq({Call("accept", p), Call("create", p), Call("pending", p)})
    BY <1>3
  <2>2. first \o last \in Seq({Call("accept", p), Call("create", p), Call("pending", p)})
    BY <2>1, ConcatProperties
  <2>3. Len(first) + Len(last) = 3
    BY <1>3
  <2>4. /\ Len(first \o last) = Len(first) + Len(last)
        /\ \A k \in 1 .. Len(first) + Len(last) :
              (first \o last)[k] = IF k <= Len(first) THEN first[k] ELSE last[k - Len(first)]
    BY <2>1, ConcatProperties
  <2>5. DOMAIN (first \o last) = 1 .. Len(first \o last)
    BY <2>2, LenProperties
  <2>. QED BY <1>3, <2>3, <2>4, <2>5
<1>6. \A k \in DOMAIN (first \o last) : (first \o last)[k] = Call("create", q) => q = p
  <2>. SUFFICES ASSUME NEW k \in 1 .. 3, (first \o last)[k] = Call("create", q) PROVE q = p
    BY <1>5
  <2>1. CASE k \in 1 .. 2
    BY <2>1, <1>2, <1>4, <1>5
  <2>2. CASE k = 3
    BY <2>2, <1>2, <1>4, <1>5
  <2>. QED BY <2>1, <2>2
<1>. QED BY <1>2, <1>6 DEF Creates, first, last

\* A session becomes due only for a peer that the step leaves accepted.
LEMMA StepDue ==
  ASSUME SenderTypeOK, SenderTypeOK', [SenderNext]_senderVars, NEW p \in Due'
  PROVE  p \in Due \/ p \in Accepted'
<1>0. p \in Peers
  BY DEF Due, DueIn
<1>1. CASE UNCHANGED todo
  BY <1>1 DEF Due, DueIn
<1>2. CASE User
  <2>1. ASSUME NEW i \in DOMAIN rows, UserAccept(i)
        PROVE  p \in Due \/ p \in Accepted'
    <3>. DEFINE q == rows[i].peer
    <3>0. q \in Peers
      BY PeersOfState
    <3>1. CASE Listed(q)
      <4>1. Start("qt", OnAccepted(q))
        BY <2>1, <3>1 DEF UserAccept
      <4>2. p \in Due \/ p = q
        <5>1. p \in Due \/ Creates(OnAccepted(q), p)
          BY <4>1, StartDue DEF Threads
        <5>2. Creates(OnAccepted(q), p) => p = q
          BY DecisionDue
        <5>. QED BY <5>1, <5>2
      <4>3. state'[q] = "accepted"
        BY <2>1, <3>0, <3>1 DEF UserAccept, Accept, SetPeerState, SenderTypeOK, TypeOK
      <4>. QED BY <1>0, <4>2, <4>3 DEF Accepted
    <3>2. CASE ~Listed(q)
      <4>1. Start("qt", <<>>)
        BY <2>1, <3>2 DEF UserAccept
      <4>2. ~Creates(<<>>, p)
        BY DecisionDue
      <4>. QED BY <4>1, <4>2, StartDue DEF Threads
    <3>. QED BY <3>1, <3>2
  <2>2. ASSUME NEW i \in DOMAIN rows, UserReject(i)
        PROVE  p \in Due
    <3>1. Start("qt", OnRejected(rows[i].peer)) \/ Start("qt", <<>>)
      BY <2>2 DEF UserReject
    <3>2. CASE Start("qt", OnRejected(rows[i].peer))
      <4>1. ~Creates(OnRejected(rows[i].peer), p)
        BY DecisionDue
      <4>. QED BY <3>2, <4>1, StartDue DEF Threads
    <3>3. CASE Start("qt", <<>>)
      <4>1. ~Creates(<<>>, p)
        BY DecisionDue
      <4>. QED BY <3>3, <4>1, StartDue DEF Threads
    <3>. QED BY <3>1, <3>2, <3>3
  <2>3. ASSUME NEW i \in DOMAIN rows, UserDisconnect(i)
        PROVE  p \in Due
    <3>. DEFINE q == rows[i].peer
                calls == <<Call("disconnect", q), Call("reject", q), Call("gone", q)>>
    <3>1. Start("qt", calls)
      BY <2>3 DEF UserDisconnect
    <3>2. ~Creates(calls, p)
      BY DEF Call, Creates
    <3>. HIDE DEF calls
    <3>. QED BY <3>1, <3>2, StartDue DEF Threads
  <2>4. ASSUME UserRevoke \/ UserClose
        PROVE  p \in Due
    <3>1. PICK calls \in {<<[call |-> "revoke"], [call |-> "free"], [call |-> "close"]>>,
                          <<[call |-> "free"], [call |-> "close"]>>} : Start("qt", calls)
      BY <2>4 DEF UserRevoke, UserClose
    <3>2. \A k \in DOMAIN calls : calls[k].call # "create"
      BY <3>1
    <3>3. Call("create", p).call = "create"
      BY DEF Call
    <3>4. ~Creates(calls, p)
      BY <3>2, <3>3 DEF Creates
    <3>. QED BY <3>1, <3>4, StartDue DEF Threads
  <2>. QED BY <1>2, <2>1, <2>2, <2>3, <2>4 DEF User
<1>3. ASSUME NEW t \in Threads, Thread(t) PROVE p \in Due
  <2>1. CASE \/ CallSend(t) \/ CallCreateFails(t) \/ CallNegotiate(t)
             \/ CallPost(t) \/ CallDisconnect(t)
    <3>1. ~Idle(t) /\ Proceed(t)
      BY <2>1 DEF CallSend, CallCreateFails, CallNegotiate, CallPost, CallDisconnect, Calling
    <3>. QED BY <3>1, ProceedDue
  <2>2. CASE CallCreate(t)
    <3>1. /\ \A u \in Threads \ {t} : todo'[u] = todo[u]
          /\ DOMAIN todo'[t] = DOMAIN todo[t]
          /\ todo'[t][1].call = "negotiate"
          /\ \A k \in DOMAIN todo[t] : k = 1 \/ todo'[t][k] = todo[t][k]
      BY <2>2, CreateKeeps
    <3>2. PICK u \in Threads : p \in DueIn(u)'
      BY DEF Due
    <3>3. PICK k \in DOMAIN todo'[u] : todo'[u][k] = Call("create", p)
      BY <3>2 DEF DueIn, Creates, Call
    <3>4. ~(u = t /\ k = 1)
      BY <3>1, <3>3 DEF Call
    <3>5. k \in DOMAIN todo[u] /\ todo[u][k] = Call("create", p)
      BY <3>1, <3>3, <3>4
    <3>. QED BY <1>0, <3>5 DEF Due, DueIn, Creates
  <2>. QED BY <1>3, <2>1, <2>2 DEF Thread
<1>4. CASE Qt
  <2>1. ASSUME CallRevoke \/ CallFree \/ CallClose PROVE p \in Due
    <3>1. ~Idle("qt") /\ Proceed("qt")
      BY <2>1 DEF CallRevoke, CallFree, CallClose, Calling
    <3>. QED BY <3>1, ProceedDue DEF Threads
  <2>2. CASE QtEvent
    BY <2>2, <1>1 DEF QtEvent
  <2>. QED BY <1>3, <1>4, <2>1, <2>2 DEF Qt, Threads
<1>5. CASE Ws
  <2>. DEFINE q == Head(inbox).peer
  <2>1. ASSUME NEW f \in Fingerprints, WsPending(f) PROVE p \in Due \/ p \in Accepted'
    <3>1. CASE state'[q] = "accepted"
      <4>. DEFINE calls == OnAccepted(q) \o <<Call("pending", q)>>
      <4>1. Start("ws", calls) \/ Start("ws", <<Call("pending", q)>>)
        BY <2>1 DEF WsPending
      <4>2. Creates(calls, p) => p = q
        BY DecisionDue
      <4>3. ~Creates(<<Call("pending", q)>>, p)
        BY DecisionDue
      <4>. HIDE DEF calls
      <4>4. p \in Due \/ Creates(calls, p) \/ Creates(<<Call("pending", q)>>, p)
        BY <4>1, StartDue DEF Threads
      <4>. QED BY <1>0, <3>1, <4>2, <4>3, <4>4 DEF Accepted
    <3>2. CASE state'[q] # "accepted"
      <4>1. Start("ws", <<Call("pending", q)>>)
        BY <2>1, <3>2 DEF WsPending
      <4>2. ~Creates(<<Call("pending", q)>>, p)
        BY DecisionDue
      <4>. QED BY <4>1, <4>2, StartDue DEF Threads
    <3>. QED BY <3>1, <3>2
  <2>2. CASE WsPeerGone
    <3>1. Start("ws", <<Call("gone", q)>>)
      BY <2>2 DEF WsPeerGone
    <3>2. ~Creates(<<Call("gone", q)>>, p)
      BY DecisionDue
    <3>. QED BY <3>1, <3>2, StartDue DEF Threads
  <2>3. CASE WsAnswer
    BY <2>3, <1>1 DEF WsAnswer
  <2>. QED BY <1>3, <1>5, <2>1, <2>2, <2>3 DEF Ws, Threads
<1>6. ASSUME \/ \E i \in DOMAIN sessions : Rtc(i)
             \/ WsLost \/ ServerTakes \/ SenderTick
             \/ \E q \in Peers : Knock(q) \/ Leave(q)
             \/ UNCHANGED senderVars
      PROVE  UNCHANGED todo
  BY <1>6 DEF Rtc, RtcOffer, RtcProgress, RtcLost, RtcRecord, WsLost, ServerTakes,
              SenderTick, Knock, Leave, senderVars
<1>. QED BY <1>1, <1>2, <1>4, <1>5, <1>6 DEF SenderNext

LEMMA CreatingIsDue == SenderTypeOK => Creating \subseteq Due
<1>. SUFFICES ASSUME SenderTypeOK, NEW p \in Peers, NEW t \in Threads,
                     ~Idle(t), Next1(t) = Call("create", p)
              PROVE  p \in Due
  BY DEF Creating
<1>1. todo[t] \in Seq(Calls) /\ todo[t] # <<>>
  BY DEF Idle, SenderTypeOK
<1>2. Next1(t) = todo[t][1] /\ 1 \in DOMAIN todo[t]
  BY <1>1 DEF Next1
<1>. QED BY <1>2 DEF Due, DueIn, Creates

\* Only create_session adds a session, and only for the peer its call is for.
LEMMA StepServed ==
  ASSUME SenderTypeOK, [SenderNext]_senderVars
  PROVE  Served' \subseteq Served \cup Creating
<1>1. ASSUME UNCHANGED sessions PROVE Served' = Served
  BY <1>1 DEF Served
<1>2. ASSUME NEW s, NEW l \in Links, Relink(s, l) PROVE Served' = Served
  <2>1. sessions \in Seq(Sessions)
    BY DEF SenderTypeOK
  <2>2. /\ DOMAIN sessions' = DOMAIN sessions
        /\ \A i \in DOMAIN sessions : sessions'[i].peer = sessions[i].peer
    BY <1>2, <2>1, RelinkKeepsPeers
  <2>. QED BY <2>2 DEF Served
<1>3. ASSUME NEW t \in Threads, CallCreate(t) \/ CallCreateFails(t)
      PROVE  Served' \subseteq Served \cup Creating
  <2>. DEFINE r == Next1(t)
  <2>1. todo[t] \in Seq(Calls) /\ todo[t] # <<>> /\ r \in Calls /\ r.call = "create"
    BY <1>3, PeersOfState DEF CallCreate, CallCreateFails, Calling, Idle, SenderTypeOK
  <2>2. r.peer \in Peers /\ r = Call("create", r.peer)
    BY <2>1, CallKinds
  <2>4. r.peer \in Creating
    BY <2>1, <2>2 DEF Idle, Creating
  <2>5. PICK new \in Sessions : sessions' = Append(sessions, new) /\ new.peer = r.peer
    <3>1. PICK l \in {"new", "unmade"} :
              sessions' = Append(sessions, [peer |-> r.peer, link |-> l])
      BY <1>3 DEF CallCreate, CallCreateFails
    <3>2. [peer |-> r.peer, link |-> l] \in Sessions
      BY <2>2, <3>1 DEF Sessions, Links
    <3>. QED BY <3>1, <3>2
  <2>6. sessions \in Seq(Sessions)
    BY DEF SenderTypeOK
  <2>. HIDE DEF r
  <2>7. /\ DOMAIN sessions' = 1 .. Len(sessions) + 1
        /\ \A i \in 1 .. Len(sessions) : sessions'[i] = sessions[i]
        /\ sessions'[Len(sessions) + 1] = new
    BY <2>5, <2>6
  <2>8. ASSUME NEW i \in DOMAIN sessions' PROVE sessions'[i].peer \in Served \cup Creating
    <3>1. CASE i \in 1 .. Len(sessions)
      BY <2>6, <2>7, <3>1 DEF Served
    <3>2. CASE i = Len(sessions) + 1
      BY <2>4, <2>5, <2>7, <3>2
    <3>. QED BY <2>6, <2>7, <3>1, <3>2
  <2>. QED BY <2>8 DEF Served
<1>4. ASSUME NEW t \in Threads, Thread(t) PROVE Served' \subseteq Served \cup Creating
  <2>1. CASE CallNegotiate(t)
    BY <2>1, <1>2 DEF CallNegotiate, Links
  <2>2. CASE CallSend(t) \/ CallPost(t) \/ CallDisconnect(t)
    BY <2>2, <1>1 DEF CallSend, CallPost, CallDisconnect, mediaVars
  <2>. QED BY <1>3, <1>4, <2>1, <2>2 DEF Thread
<1>5. CASE User
  <2>1. ASSUME NEW i \in DOMAIN rows, UserDisconnect(i) PROVE Served' = Served
    BY <2>1, <1>2 DEF UserDisconnect, Links
  <2>2. ASSUME UserRevoke \/ UserClose \/ \E i \in DOMAIN rows : UserAccept(i) \/ UserReject(i)
        PROVE  UNCHANGED sessions
    BY <2>2 DEF UserRevoke, UserClose, UserAccept, UserReject, mediaVars
  <2>. QED BY <1>1, <1>5, <2>1, <2>2 DEF User
<1>6. CASE Qt
  <2>1. CASE CallFree
    BY <2>1, <1>2 DEF CallFree, Links
  <2>2. ASSUME QtEvent \/ CallRevoke \/ CallClose PROVE UNCHANGED sessions
    BY <2>2 DEF QtEvent, CallRevoke, CallClose, mediaVars
  <2>. QED BY <1>1, <1>4, <1>6, <2>1, <2>2 DEF Qt, Threads
<1>7. CASE Ws
  <2>1. CASE WsAnswer
    BY <2>1, <1>2 DEF WsAnswer, Links
  <2>2. ASSUME WsPeerGone \/ \E f \in Fingerprints : WsPending(f) PROVE UNCHANGED sessions
    BY <2>2 DEF WsPeerGone, WsPending, mediaVars
  <2>. QED BY <1>1, <1>4, <1>7, <2>1, <2>2 DEF Ws, Threads
<1>8. ASSUME NEW i \in DOMAIN sessions, Rtc(i) PROVE Served' = Served
  BY <1>2, <1>8 DEF Rtc, RtcOffer, RtcProgress, RtcLost, RtcRecord, Links
<1>9. ASSUME \/ WsLost \/ ServerTakes \/ SenderTick
             \/ \E p \in Peers : Knock(p) \/ Leave(p)
             \/ UNCHANGED senderVars
      PROVE  UNCHANGED sessions
  BY <1>9 DEF WsLost, ServerTakes, SenderTick, Knock, Leave, senderVars, mediaVars
<1>. QED BY <1>1, <1>5, <1>6, <1>7, <1>8, <1>9 DEF SenderNext

LEMMA MediaNext == SenderTypeOK /\ MediaInv /\ [SenderNext]_senderVars => MediaInv'
<1>. SUFFICES ASSUME SenderTypeOK, MediaInv, [SenderNext]_senderVars,
                     NEW p \in Served' \cup Due'
              PROVE  Decided(p)'
  BY DEF MediaInv
<1>1. SenderTypeOK' /\ TypeOK /\ [Next]_admissionVars
  BY SenderTypeNext, StepOnList DEF SenderTypeOK
<1>2. p \in Peers
  <2>1. Served' \subseteq Served \cup Due
    BY StepServed, CreatingIsDue
  <2>2. Served \subseteq Peers
    BY PeersOfState DEF Served
  <2>. QED BY <2>1, <2>2 DEF Due, DueIn
<1>3. p \in Served \cup Due \/ p \in Accepted'
  BY <1>1, StepServed, StepDue, CreatingIsDue
<1>4. CASE p \in Served \cup Due
  BY <1>1, <1>2, <1>4, DecidedStays DEF MediaInv
<1>5. CASE p \in Accepted'
  BY <1>5 DEF Accepted, Decided
<1>. QED BY <1>3, <1>4, <1>5

\* No session is ever created for a receiver that still waits for a decision,
\* whichever of its threads runs create_session and however late.
THEOREM PendingGetNoMedia == SenderSpec => []NoMediaWhilePending
<1>1. MediaInv => NoMediaWhilePending
  BY DEF MediaInv, NoMediaWhilePending, Served, Decided
<1>. QED BY <1>1, SenderTypeInit, SenderTypeNext, MediaInit, MediaNext, PTL DEF SenderSpec

-----------------------------------------------------------------------------
(* The accept goes before the offer.                                       *)

AcceptOf(p) == [msg |-> "accept", peer |-> p]
OfferOf(p) == [msg |-> "offer", peer |-> p]

\* The server has admitted the peer, or will before it hears anything else
\* that is sent from now on.
Admitting(p) ==
    \/ room[p] # "waiting"
    \/ \E j \in DOMAIN outbox : outbox[j] = AcceptOf(p)
    \/ ~online

\* A thread that is to create a session is to send the accept before.
InOrder(t) ==
    \A k \in DOMAIN todo[t], p \in Peers :
        todo[t][k] = Call("create", p) =>
            Admitting(p) \/ \E j \in 1 .. k - 1 : todo[t][j] = Call("accept", p)

\* The sender has heard of the peer.
Known(p) ==
    \/ Listed(p)
    \/ \E i \in DOMAIN inbox : inbox[i].peer = p
    \/ \E i \in DOMAIN outbox : outbox[i] = OfferOf(p)

\* Inductive: every session's peer is admitted or about to be; and the sender
\* knows only peers that have knocked, so that none of them knocks again.
OfferInv ==
    /\ OfferAfterAccept
    /\ \A p \in Served : Admitting(p)
    /\ \A t \in Threads : InOrder(t)
    /\ \A p \in Peers : Known(p) => room[p] # "out"

LEMMA OfferInit == SenderInit => OfferInv
  BY DEF SenderInit, Init, OfferInv, OfferAfterAccept, Served, InOrder, Known, Listed, Threads

\* What a step does to the socket and the server.
LEMMA WireStep ==
  ASSUME SenderTypeOK, [SenderNext]_senderVars
  PROVE  \/ UNCHANGED <<online, outbox, room>>
         \/ \E m \in Sent : /\ Send(m)
                            /\ m.msg = "offer" => m.peer \in Served
                            /\ UNCHANGED <<online, room>>
         \/ ~online' /\ outbox' \in {outbox, <<>>} /\ UNCHANGED room
         \/ ServerTakes
         \/ \E p \in Peers : Knock(p) \/ Leave(p)
<1>1. ASSUME UNCHANGED wireVars PROVE UNCHANGED <<online, outbox, room>>
  BY <1>1 DEF wireVars
<1>. DEFINE Sending == \E m \in Sent : /\ Send(m)
                                       /\ m.msg = "offer" => m.peer \in Served
                                       /\ UNCHANGED <<online, room>>
<1>2. ASSUME NEW t \in Threads, CallSend(t) PROVE Sending
  <2>. DEFINE m == [msg |-> Next1(t).call, peer |-> Next1(t).peer]
  <2>1. Next1(t) \in Calls /\ Next1(t).call \in {"accept", "reject"}
    BY <1>2, PeersOfState DEF CallSend, Calling
  <2>2. m \in Sent /\ m.msg # "offer"
    BY <2>1, CallKinds DEF Sent
  <2>3. Send(m) /\ UNCHANGED <<online, room>>
    BY <1>2 DEF CallSend
  <2>. QED BY <2>2, <2>3
<1>3. CASE CallRevoke
  <2>1. [msg |-> "revoke"] \in Sent /\ [msg |-> "revoke"].msg # "offer"
    BY DEF Sent
  <2>2. Send([msg |-> "revoke"]) /\ UNCHANGED <<online, room>>
    BY <1>3 DEF CallRevoke
  <2>. QED BY <2>1, <2>2
<1>4. ASSUME NEW i \in DOMAIN sessions, RtcOffer(i) PROVE Sending
  <2>. DEFINE m == [msg |-> "offer", peer |-> sessions[i].peer]
  <2>1. m \in Sent /\ m.peer \in Served
    BY PeersOfState DEF Sent, Served
  <2>2. Send(m) /\ UNCHANGED <<online, room>>
    BY <1>4 DEF RtcOffer
  <2>. QED BY <2>1, <2>2
<1>5. ASSUME NEW t \in Threads, Thread(t) PROVE Sending \/ UNCHANGED <<online, outbox, room>>
  BY <1>1, <1>2, <1>5 DEF Thread, CallCreate, CallCreateFails, CallNegotiate,
                          CallPost, CallDisconnect
<1>6. CASE User
  BY <1>1, <1>6 DEF User, UserAccept, UserReject, UserDisconnect, UserRevoke, UserClose
<1>7. CASE Qt
  <2>1. CASE CallClose
    BY <2>1 DEF CallClose
  <2>2. CASE QtEvent \/ CallFree
    BY <1>1, <2>2 DEF QtEvent, CallFree
  <2>. QED BY <1>3, <1>5, <1>7, <2>1, <2>2 DEF Qt, Threads
<1>8. CASE Ws
  <2>1. ASSUME WsAnswer \/ WsPeerGone \/ \E f \in Fingerprints : WsPending(f)
        PROVE  UNCHANGED <<online, outbox, room>>
    BY <2>1 DEF WsAnswer, WsPeerGone, WsPending
  <2>. QED BY <1>5, <1>8, <2>1 DEF Ws, Threads
<1>9. ASSUME NEW i \in DOMAIN sessions, Rtc(i) PROVE Sending \/ UNCHANGED <<online, outbox, room>>
  BY <1>1, <1>4, <1>9 DEF Rtc, RtcProgress, RtcLost, RtcRecord
<1>10. CASE WsLost
  BY <1>10 DEF WsLost
<1>11. CASE SenderTick \/ UNCHANGED senderVars
  BY <1>1, <1>11 DEF SenderTick, senderVars
<1>12. \/ User \/ Qt \/ Ws \/ WsLost \/ SenderTick \/ UNCHANGED senderVars
       \/ \E i \in DOMAIN sessions : Rtc(i)
       \/ ServerTakes
       \/ \E p \in Peers : Knock(p) \/ Leave(p)
  BY DEF SenderNext
<1>. QED BY <1>6, <1>7, <1>8, <1>9, <1>10, <1>11, <1>12

\* What the server does with a message.
LEMMA TakeStep ==
  ASSUME SenderTypeOK, ServerTakes
  PROVE  /\ outbox \in Seq(Sent) /\ outbox # <<>> /\ outbox' = Tail(outbox)
         /\ UNCHANGED online
         /\ \A p \in Peers : room'[p] = "waiting" =>
                room[p] = "waiting" /\ Head(outbox) # AcceptOf(p)
         /\ \A p \in Peers : room'[p] = "out" => room[p] = "out"
<1>. DEFINE m == Head(outbox)
<1>1. outbox \in Seq(Sent) /\ outbox # <<>> /\ outbox' = Tail(outbox) /\ UNCHANGED online
  BY DEF ServerTakes, SenderTypeOK
<1>2. room \in [Peers -> {"out", "waiting", "admitted", "gone"}]
  BY DEF SenderTypeOK
<1>3. m \in Sent
  BY <1>1
<1>4. CASE m.msg = "accept"
  <2>1. m.peer \in Peers /\ m = AcceptOf(m.peer)
    BY <1>3, <1>4 DEF Sent, AcceptOf
  <2>2. room' = IF room[m.peer] = "waiting" THEN [room EXCEPT ![m.peer] = "admitted"] ELSE room
    BY <1>4 DEF ServerTakes
  <2>3. \A p \in Peers : m = AcceptOf(p) => p = m.peer
    BY DEF AcceptOf
  <2>. QED BY <1>1, <1>2, <2>1, <2>2, <2>3
<1>5. CASE m.msg # "accept"
  <2>1. \A p \in Peers : m # AcceptOf(p)
    BY <1>5 DEF AcceptOf
  <2>2. \/ m.msg = "reject" /\ room' = [room EXCEPT ![m.peer] = "gone"]
        \/ room' = [p \in Peers |-> IF room[p] = "out" THEN "out" ELSE "gone"]
        \/ room' = room
    BY <1>5 DEF ServerTakes
  <2>. QED BY <1>1, <1>2, <2>1, <2>2
<1>. QED BY <1>4, <1>5

\* A message appended to the socket leaves what was sent before in place.
LEMMA SendKeeps ==
  ASSUME outbox \in Seq(Sent), NEW m \in Sent, Send(m)
  PROVE  /\ DOMAIN outbox \subseteq DOMAIN outbox'
         /\ \A i \in DOMAIN outbox : outbox'[i] = outbox[i]
         /\ \A i \in DOMAIN outbox' :
                i \in DOMAIN outbox \/ (online /\ i = Len(outbox) + 1 /\ outbox'[i] = m)
  BY DEF Send

\* The server takes the messages from the front.
LEMMA TakeKeeps ==
  ASSUME outbox \in Seq(Sent), outbox # <<>>, outbox' = Tail(outbox)
  PROVE  /\ \A i \in DOMAIN outbox' : i + 1 \in DOMAIN outbox /\ outbox'[i] = outbox[i + 1]
         /\ \A i \in DOMAIN outbox : i = 1 \/ (i - 1 \in DOMAIN outbox' /\ outbox'[i - 1] = outbox[i])
         /\ outbox[1] = Head(outbox)
  BY HeadTailProperties

\* An admitted peer stays so: only a peer that is out can knock.
LEMMA AdmittingStays ==
  ASSUME SenderTypeOK, [SenderNext]_senderVars,
         NEW p \in Peers, room[p] # "out", Admitting(p)
  PROVE  Admitting(p)'
<1>0. outbox \in Seq(Sent) /\ room \in [Peers -> {"out", "waiting", "admitted", "gone"}]
  BY DEF SenderTypeOK
<1>1. CASE UNCHANGED <<online, outbox, room>>
  BY <1>1 DEF Admitting
<1>2. ASSUME NEW m \in Sent, Send(m), UNCHANGED <<online, room>> PROVE Admitting(p)'
  BY <1>0, <1>2, SendKeeps DEF Admitting
<1>3. CASE ~online'
  BY <1>3 DEF Admitting
<1>4. CASE ServerTakes
  <2>1. /\ outbox # <<>> /\ outbox' = Tail(outbox) /\ UNCHANGED online
        /\ room'[p] = "waiting" => room[p] = "waiting" /\ Head(outbox) # AcceptOf(p)
    BY <1>4, TakeStep
  <2>2. CASE room'[p] # "waiting" \/ ~online
    BY <2>1, <2>2 DEF Admitting
  <2>3. CASE room'[p] = "waiting" /\ online
    <3>1. PICK j \in DOMAIN outbox : outbox[j] = AcceptOf(p)
      BY <2>1, <2>3 DEF Admitting
    <3>2. j # 1
      BY <1>0, <2>1, <2>3, <3>1, TakeKeeps
    <3>3. j - 1 \in DOMAIN outbox' /\ outbox'[j - 1] = outbox[j]
      BY <1>0, <2>1, <3>2, TakeKeeps
    <3>. QED BY <3>1, <3>3 DEF Admitting, AcceptOf
  <2>. QED BY <2>2, <2>3
<1>5. ASSUME NEW q \in Peers, Knock(q) \/ Leave(q) PROVE Admitting(p)'
  <2>1. room'[p] = "waiting" => room[p] = "waiting"
    BY <1>0, <1>5 DEF Knock, Leave
  <2>2. UNCHANGED <<online, outbox>>
    BY <1>5 DEF Knock, Leave
  <2>. QED BY <2>1, <2>2 DEF Admitting
<1>. QED BY <1>1, <1>2, <1>3, <1>4, <1>5, WireStep

\* An offer goes out only for the peer of a session, and what is before it
\* in the socket stays before it.
LEMMA OfferOrder ==
  ASSUME SenderTypeOK, OfferInv, [SenderNext]_senderVars
  PROVE  OfferAfterAccept'
<1>0. /\ outbox \in Seq(Sent)
      /\ room \in [Peers -> {"out", "waiting", "admitted", "gone"}]
      /\ \A i \in DOMAIN outbox : outbox[i].msg = "offer" =>
            outbox[i].peer \in Peers /\ outbox[i] = OfferOf(outbox[i].peer)
  BY DEF SenderTypeOK, Sent, OfferOf
<1>1. \A i \in DOMAIN outbox : outbox[i].msg = "offer" => room[outbox[i].peer] # "out"
  BY <1>0 DEF OfferInv, Known
<1>2. \A i \in DOMAIN outbox : outbox[i].msg = "offer" =>
          \/ room[outbox[i].peer] # "waiting"
          \/ \E j \in 1 .. i - 1 : outbox[j] = AcceptOf(outbox[i].peer)
  BY DEF OfferInv, OfferAfterAccept, AcceptOf
<1>. SUFFICES ASSUME NEW i \in DOMAIN outbox', outbox'[i].msg = "offer"
              PROVE  \/ room'[outbox'[i].peer] # "waiting"
                     \/ \E j \in 1 .. i - 1 : outbox'[j] = AcceptOf(outbox'[i].peer)
  BY Zenon DEF OfferAfterAccept, AcceptOf
<1>. DEFINE p == outbox'[i].peer
            Before == \E j \in 1 .. i - 1 : outbox'[j] = AcceptOf(p)
<1>3. CASE UNCHANGED <<online, outbox, room>>
  BY <1>2, <1>3
<1>4. ASSUME NEW m \in Sent, Send(m), m.msg = "offer" => m.peer \in Served,
             UNCHANGED <<online, room>>
      PROVE  room'[p] # "waiting" \/ Before
  <2>0. /\ \A j \in DOMAIN outbox : outbox'[j] = outbox[j]
        /\ i \in DOMAIN outbox \/ (online /\ i = Len(outbox) + 1 /\ outbox'[i] = m)
    BY <1>0, <1>4, SendKeeps
  <2>1. CASE i \in DOMAIN outbox
    <3>1. outbox'[i] = outbox[i] /\ 1 .. i - 1 \subseteq DOMAIN outbox
      BY <1>0, <2>0, <2>1
    <3>. QED BY <1>2, <1>4, <2>0, <2>1, <3>1
  <2>2. CASE online /\ i = Len(outbox) + 1 /\ outbox'[i] = m
    <3>1. Admitting(p)
      BY <1>4, <2>2 DEF OfferInv
    <3>2. CASE room[p] # "waiting"
      BY <1>4, <3>2
    <3>3. ASSUME NEW j \in DOMAIN outbox, outbox[j] = AcceptOf(p) PROVE Before
      <4>1. j \in 1 .. i - 1 /\ outbox'[j] = outbox[j]
        BY <1>0, <2>0, <2>2
      <4>. QED BY <3>3, <4>1
    <3>. QED BY <2>2, <3>1, <3>2, <3>3 DEF Admitting
  <2>. QED BY <2>0, <2>1, <2>2
<1>5. CASE outbox' \in {outbox, <<>>} /\ UNCHANGED room
  <2>1. outbox' = outbox
    BY <1>5
  <2>. QED BY <1>2, <1>5, <2>1
<1>6. CASE ServerTakes
  <2>1. /\ outbox # <<>> /\ outbox' = Tail(outbox)
        /\ \A q \in Peers : room'[q] = "waiting" =>
              room[q] = "waiting" /\ Head(outbox) # AcceptOf(q)
    BY <1>6, TakeStep
  <2>2. /\ \A j \in DOMAIN outbox' : j + 1 \in DOMAIN outbox /\ outbox'[j] = outbox[j + 1]
        /\ outbox[1] = Head(outbox)
        /\ \A j \in DOMAIN outbox : j = 1 \/ outbox'[j - 1] = outbox[j]
    BY <1>0, <2>1, TakeKeeps
  <2>3. i + 1 \in DOMAIN outbox /\ outbox'[i] = outbox[i + 1] /\ i \in Nat
    BY <1>0, <2>1, <2>2
  <2>4. p \in Peers /\ p = outbox[i + 1].peer /\ outbox[i + 1].msg = "offer"
    BY <1>0, <2>3
  <2>5. CASE room'[p] # "waiting"
    BY <2>5
  <2>6. CASE room'[p] = "waiting"
    <3>1. room[p] = "waiting" /\ Head(outbox) # AcceptOf(p)
      BY <2>1, <2>4, <2>6
    <3>2. PICK j \in 1 .. i : outbox[j] = AcceptOf(p)
      <4>1. (i + 1) - 1 = i
        BY <2>3
      <4>2. \E j \in 1 .. (i + 1) - 1 : outbox[j] = AcceptOf(p)
        BY <1>2, <2>3, <2>4, <3>1
      <4>. QED BY <4>1, <4>2
    <3>3. j # 1 /\ j \in DOMAIN outbox
      BY <1>0, <2>2, <2>3, <3>1, <3>2
    <3>4. j - 1 \in 1 .. i - 1 /\ outbox'[j - 1] = outbox[j]
      BY <2>2, <2>3, <3>2, <3>3
    <3>. QED BY <3>2, <3>4
  <2>. QED BY <2>5, <2>6
<1>7. ASSUME NEW q \in Peers, Knock(q) \/ Leave(q)
      PROVE  room'[p] # "waiting" \/ Before
  <2>1. UNCHANGED outbox
    BY <1>7 DEF Knock, Leave
  <2>2. room[p] # "out" /\ p \in Peers
    BY <1>0, <1>1, <2>1
  <2>3. room'[p] = "waiting" => room[p] = "waiting"
    BY <1>0, <1>7, <2>2 DEF Knock, Leave
  <2>. QED BY <1>2, <2>1, <2>3
<1>. QED BY <1>3, <1>4, <1>5, <1>6, <1>7, WireStep

\* In a thread's calls every session comes after the accept for its peer.
Ordered(calls) ==
    \A k \in DOMAIN calls, p \in Peers :
        calls[k] = Call("create", p) => \E j \in 1 .. k - 1 : calls[j] = Call("accept", p)

LEMMA DecisionOrdered ==
  ASSUME NEW q \in Peers
  PROVE  /\ Ordered(OnAccepted(q))
         /\ Ordered(OnAccepted(q) \o <<Call("pending", q)>>)
<1>. DEFINE first == OnAccepted(q)
            last == <<Call("pending", q)>>
<1>1. /\ first \in Seq(Calls) /\ Len(first) = 2 /\ DOMAIN first = 1 .. 2
      /\ first[1] = Call("accept", q) /\ first[2] = Call("create", q)
  BY CallsType DEF OnAccepted
<1>2. last \in Seq(Calls) /\ Len(last) = 1 /\ last[1] = Call("pending", q)
  BY CallsType
<1>3. \A p \in Peers :
        /\ Call("create", q) = Call("create", p) => p = q
        /\ Call("accept", q) # Call("create", p)
        /\ Call("pending", q) # Call("create", p)
  BY DEF Call
<1>. HIDE DEF first, last
<1>4. /\ first \o last \in Seq(Calls)
      /\ Len(first \o last) = Len(first) + Len(last)
      /\ \A k \in 1 .. Len(first) + Len(last) :
            (first \o last)[k] = IF k <= Len(first) THEN first[k] ELSE last[k - Len(first)]
  BY <1>1, <1>2, ConcatProperties
<1>5. DOMAIN (first \o last) = 1 .. 3
  BY <1>1, <1>2, <1>4, LenProperties
<1>6. /\ (first \o last)[1] = Call("accept", q)
      /\ (first \o last)[2] = Call("create", q)
      /\ (first \o last)[3] = Call("pending", q)
  BY <1>1, <1>2, <1>4
<1>7. Ordered(first)
  <2>. SUFFICES ASSUME NEW k \in 1 .. 2, NEW p \in Peers, first[k] = Call("create", p)
                PROVE  \E j \in 1 .. k - 1 : first[j] = Call("accept", p)
    BY <1>1 DEF Ordered
  <2>1. k = 2 /\ p = q
    BY <1>1, <1>3
  <2>. QED BY <1>1, <2>1
<1>8. Ordered(first \o last)
  <2>. SUFFICES ASSUME NEW k \in 1 .. 3, NEW p \in Peers, (first \o last)[k] = Call("create", p)
                PROVE  \E j \in 1 .. k - 1 : (first \o last)[j] = Call("accept", p)
    BY <1>5 DEF Ordered
  <2>1. k = 2 /\ p = q
    <3>1. k = 1 \/ k = 2 \/ k = 3
      OBVIOUS
    <3>. QED BY <1>3, <1>6, <3>1
  <2>2. 1 \in 1 .. k - 1
    BY <2>1
  <2>. QED BY <1>6, <2>1, <2>2
<1>. QED BY <1>7, <1>8 DEF first, last

LEMMA NoSessionOrdered ==
  ASSUME NEW calls, \A p \in Peers : ~Creates(calls, p)
  PROVE  Ordered(calls)
  BY DEF Creates, Ordered

\* What a step does to the calls of a thread.
LEMMA TodoStep ==
  ASSUME SenderTypeOK, [SenderNext]_senderVars
  PROVE  \/ UNCHANGED todo
         \/ \E t \in Threads : ~Idle(t) /\ Proceed(t) /\ (Calling(t, "accept") => CallSend(t))
         \/ \E t \in Threads : CallCreate(t)
         \/ \E t \in Threads : \E calls : Start(t, calls) /\ Ordered(calls)
<1>. DEFINE Proceeds(t) == ~Idle(t) /\ Proceed(t) /\ (Calling(t, "accept") => CallSend(t))
            Starts(t) == \E calls : Start(t, calls) /\ Ordered(calls)
<1>0. \A t \in Threads : \A calls :
          Start(t, calls) /\ (\A p \in Peers : ~Creates(calls, p)) => Starts(t)
  BY NoSessionOrdered
<1>1. CASE User
  <2>1. ASSUME NEW i \in DOMAIN rows, UserAccept(i) PROVE Starts("qt")
    <3>1. CASE Start("qt", OnAccepted(rows[i].peer))
      BY <3>1, PeersOfState, DecisionOrdered
    <3>2. CASE Start("qt", <<>>)
      BY <3>2, <1>0 DEF Creates, Threads
    <3>. QED BY <2>1, <3>1, <3>2 DEF UserAccept
  <2>2. ASSUME NEW i \in DOMAIN rows, UserReject(i) PROVE Starts("qt")
    <3>1. CASE Start("qt", OnRejected(rows[i].peer))
      <4>1. \A p \in Peers : ~Creates(OnRejected(rows[i].peer), p)
        BY DecisionDue
      <4>. QED BY <3>1, <4>1, <1>0 DEF Threads
    <3>2. CASE Start("qt", <<>>)
      BY <3>2, <1>0 DEF Creates, Threads
    <3>. QED BY <2>2, <3>1, <3>2 DEF UserReject
  <2>3. ASSUME NEW i \in DOMAIN rows, UserDisconnect(i) PROVE Starts("qt")
    <3>. DEFINE q == rows[i].peer
                calls == <<Call("disconnect", q), Call("reject", q), Call("gone", q)>>
    <3>1. \A p \in Peers : ~Creates(calls, p)
      BY DEF Call, Creates
    <3>2. Start("qt", calls)
      BY <2>3 DEF UserDisconnect
    <3>. HIDE DEF calls
    <3>. QED BY <3>1, <3>2, <1>0 DEF Threads
  <2>4. ASSUME UserRevoke \/ UserClose PROVE Starts("qt")
    <3>1. PICK calls \in {<<[call |-> "revoke"], [call |-> "free"], [call |-> "close"]>>,
                          <<[call |-> "free"], [call |-> "close"]>>} : Start("qt", calls)
      BY <2>4 DEF UserRevoke, UserClose
    <3>2. \A k \in DOMAIN calls : calls[k].call # "create"
      BY <3>1
    <3>3. \A p \in Peers : Call("create", p).call = "create"
      BY DEF Call
    <3>4. \A p \in Peers : ~Creates(calls, p)
      BY <3>2, <3>3 DEF Creates
    <3>. QED BY <3>1, <3>4, <1>0 DEF Threads
  <2>. HIDE DEF Starts
  <2>5. "qt" \in Threads
    BY DEF Threads
  <2>6. Starts("qt")
    BY <1>1, <2>1, <2>2, <2>3, <2>4 DEF User
  <2>. QED BY <2>5, <2>6 DEF Starts
<1>2. ASSUME NEW t \in Threads, Thread(t) PROVE Proceeds(t) \/ CallCreate(t)
  BY <1>2 DEF Thread, CallSend, CallCreateFails, CallNegotiate, CallPost, CallDisconnect, Calling
<1>3. CASE Qt
  <2>1. ASSUME CallRevoke \/ CallFree \/ CallClose PROVE Proceeds("qt")
    BY <2>1 DEF CallRevoke, CallFree, CallClose, Calling
  <2>2. QtEvent => UNCHANGED todo
    BY DEF QtEvent
  <2>3. "qt" \in Threads
    BY DEF Threads
  <2>. HIDE DEF Proceeds
  <2>4. UNCHANGED todo \/ Proceeds("qt") \/ CallCreate("qt")
    BY <1>2, <1>3, <2>1, <2>2, <2>3 DEF Qt
  <2>. QED BY <2>3, <2>4 DEF Proceeds
<1>4. CASE Ws
  <2>1. "ws" \in Threads
    BY DEF Threads
  <2>. DEFINE q == Head(inbox).peer
  <2>2. \A p \in Peers : ~Creates(<<Call("pending", q)>>, p) /\ ~Creates(<<Call("gone", q)>>, p)
    BY DecisionDue
  <2>3. ASSUME NEW f \in Fingerprints, WsPending(f) PROVE Starts("ws")
    <3>. DEFINE calls == OnAccepted(q) \o <<Call("pending", q)>>
    <3>1. Start("ws", calls) \/ Start("ws", <<Call("pending", q)>>)
      BY <2>3 DEF WsPending
    <3>2. Ordered(calls)
      BY <2>3, PeersOfState, DecisionOrdered DEF WsPending, Receive
    <3>. HIDE DEF calls
    <3>. QED BY <1>0, <2>1, <2>2, <3>1, <3>2
  <2>4. ASSUME WsPeerGone PROVE Starts("ws")
    <3>1. Start("ws", <<Call("gone", q)>>)
      BY <2>4 DEF WsPeerGone
    <3>. QED BY <1>0, <2>1, <2>2, <3>1
  <2>5. WsAnswer => UNCHANGED todo
    BY DEF WsAnswer
  <2>. HIDE DEF Starts, Proceeds
  <2>6. UNCHANGED todo \/ Starts("ws") \/ Proceeds("ws") \/ CallCreate("ws")
    <3>1. \/ \E f \in Fingerprints : WsPending(f)
          \/ WsAnswer \/ WsPeerGone \/ Thread("ws")
      BY <1>4 DEF Ws
    <3>. QED BY <1>2, <2>1, <2>3, <2>4, <2>5, <3>1
  <2>. QED BY <2>1, <2>6 DEF Starts, Proceeds
<1>5. ASSUME \/ \E i \in DOMAIN sessions : Rtc(i)
             \/ WsLost \/ ServerTakes \/ SenderTick
             \/ \E q \in Peers : Knock(q) \/ Leave(q)
             \/ UNCHANGED senderVars
      PROVE  UNCHANGED todo
  BY <1>5 DEF Rtc, RtcOffer, RtcProgress, RtcLost, RtcRecord, WsLost, ServerTakes,
              SenderTick, Knock, Leave, senderVars
<1>. QED BY <1>1, <1>3, <1>4, <1>5 DEF SenderNext

\* The accept has gone out, or is still to, when a thread gets to a session.
LEMMA InOrderStays ==
  ASSUME SenderTypeOK, MediaInv, OfferInv, [SenderNext]_senderVars
  PROVE  \A t \in Threads : InOrder(t)'
<1>0. \A t \in Threads : todo[t] \in Seq(Calls)
  BY DEF SenderTypeOK
<1>1. ASSUME NEW p \in Due, Admitting(p) PROVE Admitting(p)'
  <2>1. p \in Peers
    BY DEF Due, DueIn
  <2>2. room[p] # "out"
    BY <2>1 DEF MediaInv, Decided, Listed, OfferInv, Known
  <2>. QED BY <1>1, <2>1, <2>2, AdmittingStays
<1>2. \A t \in Threads, p \in Peers : \A k \in DOMAIN todo[t] :
          todo[t][k] = Call("create", p) => p \in Due
  BY DEF Due, DueIn, Creates
<1>3. ASSUME NEW t \in Threads, UNCHANGED todo[t] PROVE InOrder(t)'
  <2>. SUFFICES ASSUME NEW k \in DOMAIN todo[t], NEW p \in Peers, todo[t][k] = Call("create", p)
                PROVE  Admitting(p)' \/ \E j \in 1 .. k - 1 : todo[t][j] = Call("accept", p)
    BY <1>3 DEF InOrder
  <2>1. Admitting(p) \/ \E j \in 1 .. k - 1 : todo[t][j] = Call("accept", p)
    BY DEF OfferInv, InOrder
  <2>. QED BY <2>1, <1>1, <1>2
<1>4. ASSUME NEW t \in Threads, NEW calls, Start(t, calls), Ordered(calls), NEW u \in Threads
      PROVE  InOrder(u)'
  <2>1. CASE u # t
    <3>1. UNCHANGED todo[u]
      BY <1>4, <2>1 DEF Start, SenderTypeOK
    <3>. QED BY <3>1, <1>3
  <2>2. CASE u = t
    <3>1. todo'[u] = calls
      BY <1>4, <2>2 DEF Start, SenderTypeOK
    <3>. QED BY <3>1, <1>4 DEF InOrder, Ordered
  <2>. QED BY <2>1, <2>2
<1>5. ASSUME NEW t \in Threads, ~Idle(t), Proceed(t), Calling(t, "accept") => CallSend(t),
             NEW u \in Threads
      PROVE  InOrder(u)'
  <2>1. CASE u # t
    <3>1. UNCHANGED todo[u]
      BY <1>5, <2>1 DEF Proceed, SenderTypeOK
    <3>. QED BY <3>1, <1>3
  <2>2. CASE u = t
    <3>1. /\ todo'[t] = Tail(todo[t]) /\ todo[t] # <<>>
          /\ Next1(t) = todo[t][1]
      BY <1>0, <1>5 DEF Proceed, SenderTypeOK, Idle, Next1
    <3>2. /\ \A k \in DOMAIN todo'[t] : k \in Nat \ {0} /\ k + 1 \in DOMAIN todo[t]
                                        /\ todo'[t][k] = todo[t][k + 1]
          /\ \A j \in 1 .. Len(todo[t]) - 1 : todo'[t][j] = todo[t][j + 1]
          /\ DOMAIN todo[t] = 1 .. Len(todo[t]) /\ Len(todo[t]) \in Nat
      BY <1>0, <3>1, HeadTailProperties
    <3>. SUFFICES ASSUME NEW k \in DOMAIN todo'[t], NEW p \in Peers,
                         todo'[t][k] = Call("create", p)
                  PROVE  Admitting(p)' \/ \E j \in 1 .. k - 1 : todo'[t][j] = Call("accept", p)
      BY <2>2 DEF InOrder
    <3>3. k + 1 \in DOMAIN todo[t] /\ todo[t][k + 1] = Call("create", p) /\ k \in Nat \ {0}
      BY <3>2
    <3>4. \/ Admitting(p)
          \/ \E j \in 1 .. (k + 1) - 1 : todo[t][j] = Call("accept", p)
      BY <3>3 DEF OfferInv, InOrder
    <3>5. CASE Admitting(p)
      BY <1>1, <1>2, <3>3, <3>5
    <3>6. ASSUME NEW j \in 1 .. (k + 1) - 1, todo[t][j] = Call("accept", p), j # 1
          PROVE  \E i \in 1 .. k - 1 : todo'[t][i] = Call("accept", p)
      <4>1. j - 1 \in 1 .. k - 1 /\ j - 1 \in 1 .. Len(todo[t]) - 1
        BY <3>2, <3>3, <3>6
      <4>2. todo'[t][j - 1] = todo[t][(j - 1) + 1]
        BY <3>2, <4>1
      <4>3. (j - 1) + 1 = j
        BY <3>2, <3>3, <3>6
      <4>4. todo'[t][j - 1] = Call("accept", p)
        BY <3>6, <4>2, <4>3
      <4>. QED BY <4>1, <4>4
    <3>7. CASE todo[t][1] = Call("accept", p)
      <4>1. Next1(t) = Call("accept", p) /\ Next1(t).call = "accept" /\ Next1(t).peer = p
        BY <3>1, <3>7 DEF Call
      <4>2. Send(AcceptOf(p)) /\ UNCHANGED online
        BY <1>5, <4>1 DEF Calling, CallSend, AcceptOf
      <4>3. outbox \in Seq(Sent) /\ AcceptOf(p) \in Sent
        BY DEF SenderTypeOK, Sent, AcceptOf
      <4>4. CASE online
        <5>1. outbox' = Append(outbox, AcceptOf(p))
          BY <4>2, <4>4 DEF Send
        <5>2. /\ Len(outbox) + 1 \in DOMAIN outbox'
              /\ outbox'[Len(outbox) + 1] = AcceptOf(p)
          BY <4>3, <5>1
        <5>3. outbox'[Len(outbox) + 1] = AcceptOf(p)'
          BY <5>2 DEF AcceptOf
        <5>. QED BY <5>2, <5>3 DEF Admitting
      <4>5. CASE ~online
        BY <4>2, <4>5 DEF Admitting
      <4>. QED BY <4>4, <4>5
    <3>. QED BY <3>4, <3>5, <3>6, <3>7
  <2>. QED BY <2>1, <2>2
<1>6. ASSUME NEW t \in Threads, CallCreate(t), NEW u \in Threads PROVE InOrder(u)'
  <2>1. CASE u # t
    <3>1. UNCHANGED todo[u]
      BY <1>6, <2>1 DEF CallCreate, SenderTypeOK
    <3>. QED BY <3>1, <1>3
  <2>2. CASE u = t
    <3>1. /\ 1 \in DOMAIN todo[t] /\ todo[t][1] = Next1(t)
          /\ DOMAIN todo'[t] = DOMAIN todo[t] /\ DOMAIN todo[t] = 1 .. Len(todo[t])
          /\ todo'[t][1].call = "negotiate"
          /\ \A k \in DOMAIN todo[t] : k = 1 \/ todo'[t][k] = todo[t][k]
      BY <1>6, CreateKeeps
    <3>2. todo[t][1].call = "create" /\ Len(todo[t]) \in Nat
      BY <1>0, <1>6, <3>1 DEF CallCreate, Calling
    <3>. SUFFICES ASSUME NEW k \in DOMAIN todo[t], NEW p \in Peers,
                         todo'[t][k] = Call("create", p)
                  PROVE  Admitting(p)' \/ \E j \in 1 .. k - 1 : todo'[t][j] = Call("accept", p)
      BY <2>2, <3>1 DEF InOrder
    <3>3. k # 1
      BY <3>1 DEF Call
    <3>4. todo[t][k] = Call("create", p)
      BY <3>1, <3>3
    <3>5. Admitting(p) \/ \E j \in 1 .. k - 1 : todo[t][j] = Call("accept", p)
      BY <3>4 DEF OfferInv, InOrder
    <3>6. CASE Admitting(p)
      BY <1>1, <1>2, <3>4, <3>6
    <3>7. ASSUME NEW j \in 1 .. k - 1, todo[t][j] = Call("accept", p)
          PROVE  todo'[t][j] = Call("accept", p)
      <4>1. j # 1
        BY <3>2, <3>7 DEF Call
      <4>2. j \in DOMAIN todo[t]
        BY <3>1, <3>2
      <4>. QED BY <3>1, <3>7, <4>1, <4>2
    <3>. QED BY <3>5, <3>6, <3>7
  <2>. QED BY <2>1, <2>2
<1>7. CASE UNCHANGED todo
  BY <1>3, <1>7
<1>. QED BY <1>4, <1>5, <1>6, <1>7, TodoStep

\* Every session's peer stays admitted, the one a thread now creates a
\* session for included.
LEMMA ServedStays ==
  ASSUME SenderTypeOK, MediaInv, OfferInv, [SenderNext]_senderVars, NEW p \in Served'
  PROVE  Admitting(p)'
<1>1. p \in Served \cup Creating
  BY StepServed
<1>2. p \in Served \cup Due /\ p \in Peers
  <2>1. Served \subseteq Peers
    BY PeersOfState DEF Served
  <2>2. Creating \subseteq Due /\ Due \subseteq Peers
    BY CreatingIsDue DEF Due, DueIn
  <2>. QED BY <1>1, <2>1, <2>2
<1>3. room[p] # "out"
  BY <1>2 DEF MediaInv, Decided, Listed, OfferInv, Known
<1>4. Admitting(p)
  <2>1. CASE p \in Served
    BY <2>1 DEF OfferInv
  <2>2. CASE p \in Creating
    <3>1. PICK t \in Threads : ~Idle(t) /\ Next1(t) = Call("create", p)
      BY <2>2 DEF Creating
    <3>2. todo[t] \in Seq(Calls) /\ todo[t] # <<>>
      BY <3>1 DEF Idle, SenderTypeOK
    <3>3. 1 \in DOMAIN todo[t] /\ todo[t][1] = Call("create", p)
      BY <3>1, <3>2 DEF Next1
    <3>4. Admitting(p) \/ \E j \in 1 .. 1 - 1 : todo[t][j] = Call("accept", p)
      BY <1>2, <3>3 DEF OfferInv, InOrder
    <3>5. ~ \E j \in 1 .. 1 - 1 : TRUE
      OBVIOUS
    <3>. QED BY <3>4, <3>5
  <2>. QED BY <1>1, <2>1, <2>2
<1>. QED BY <1>2, <1>3, <1>4, AdmittingStays

\* Only the callback for a pending peer enters one in the list.
LEMMA ListedStep ==
  ASSUME SenderTypeOK, [SenderNext]_senderVars, NEW p \in Peers, Listed(p)'
  PROVE  Listed(p) \/ (inbox # <<>> /\ p = Head(inbox).peer)
<1>0. state \in [Peers -> PeerStates \cup {"absent"}]
  BY DEF SenderTypeOK, TypeOK
<1>1. ASSUME UNCHANGED admissionVars PROVE Listed(p)
  BY <1>1 DEF admissionVars, peerVars, Listed
<1>2. ASSUME NEW q, NEW s, NEW pin, SetPeerState(q, s, pin) PROVE Listed(p)
  BY <1>0, <1>2 DEF SetPeerState, Listed
<1>3. CASE User
  BY <1>1, <1>2, <1>3 DEF User, UserAccept, UserReject, UserDisconnect, UserRevoke, UserClose,
                          Accept, Reject, RevokeAll, Listed
<1>4. ASSUME NEW t \in Threads, Thread(t) PROVE Listed(p)
  BY <1>1, <1>2, <1>4 DEF Thread, CallSend, CallCreate, CallCreateFails, CallNegotiate,
                          CallPost, CallDisconnect,
                          DisconnectPeer
<1>5. CASE Qt
  BY <1>1, <1>4, <1>5 DEF Qt, QtEvent, CallRevoke, CallFree, CallClose, Threads
<1>6. CASE Ws
  <2>1. ASSUME NEW f \in Fingerprints, WsPending(f)
        PROVE  Listed(p) \/ (inbox # <<>> /\ p = Head(inbox).peer)
    <3>1. inbox # <<>> /\ AddPending(Head(inbox).peer, f)
      BY <2>1 DEF WsPending, Receive
    <3>2. UNCHANGED peerVars \/ Enlist(Head(inbox).peer, f)
      BY <3>1 DEF AddPending, AddWhileLockedOut, AddHitsLimit, AddRegistered, admissionVars
    <3>. QED BY <1>0, <3>1, <3>2 DEF Enlist, peerVars, Listed
  <2>2. CASE WsPeerGone
    BY <1>2, <2>2 DEF WsPeerGone, DisconnectPeer
  <2>3. CASE WsAnswer
    BY <1>1, <2>3 DEF WsAnswer
  <2>. QED BY <1>4, <1>6, <2>1, <2>2, <2>3 DEF Ws, Threads
<1>7. ASSUME NEW i \in DOMAIN sessions, Rtc(i) PROVE Listed(p)
  BY <1>1, <1>2, <1>7 DEF Rtc, RtcOffer, RtcProgress, RtcLost, RtcRecord, DisconnectPeer
<1>8. ASSUME WsLost \/ ServerTakes \/ (\E q \in Peers : Knock(q) \/ Leave(q)) \/ UNCHANGED senderVars
      PROVE  Listed(p)
  BY <1>1, <1>8 DEF WsLost, ServerTakes, Knock, Leave, senderVars
<1>9. CASE SenderTick
  BY <1>9 DEF SenderTick, Tick, peerVars, Listed
<1>. QED BY <1>3, <1>5, <1>6, <1>7, <1>8, <1>9 DEF SenderNext

\* What a step does to the messages the sender is still to handle.
LEMMA InboxStep ==
  ASSUME SenderTypeOK, [SenderNext]_senderVars
  PROVE  \/ inbox' \in {inbox, <<>>}
         \/ inbox # <<>> /\ inbox' = Tail(inbox)
         \/ \E p \in Peers, m \in {"pending", "answer", "peer_gone"} :
                ToSender(m, p) /\ room'[p] # "out"
<1>. DEFINE Taken == inbox # <<>> /\ inbox' = Tail(inbox)
            Arrived == \E p \in Peers, m \in {"pending", "answer", "peer_gone"} :
                           ToSender(m, p) /\ room'[p] # "out"
<1>0. /\ room \in [Peers -> {"out", "waiting", "admitted", "gone"}]
      /\ outbox # <<>> => Head(outbox) \in Sent
  BY PeersOfState DEF SenderTypeOK
<1>1. ASSUME NEW t \in Threads, Thread(t) PROVE UNCHANGED inbox
  BY <1>1 DEF Thread, CallSend, CallCreate, CallCreateFails, CallNegotiate, CallPost,
              CallDisconnect, wireVars
<1>2. User => UNCHANGED inbox
  BY DEF User, UserAccept, UserReject, UserDisconnect, UserRevoke, UserClose, wireVars
<1>3. Qt => inbox' \in {inbox, <<>>}
  BY <1>1 DEF Qt, QtEvent, CallRevoke, CallFree, CallClose, Threads, wireVars
<1>4. Ws => UNCHANGED inbox \/ Taken
  BY <1>1 DEF Ws, WsPending, WsAnswer, WsPeerGone, Receive, Threads
<1>5. \A i \in DOMAIN sessions : Rtc(i) => UNCHANGED inbox
  BY DEF Rtc, RtcOffer, RtcProgress, RtcLost, RtcRecord, wireVars
<1>6. WsLost => inbox' = <<>>
  BY DEF WsLost
<1>7. SenderTick \/ UNCHANGED senderVars => UNCHANGED inbox
  BY DEF SenderTick, senderVars, wireVars
<1>8. ASSUME ServerTakes PROVE UNCHANGED inbox \/ Arrived
  <2>. DEFINE m == Head(outbox)
  <2>1. \/ UNCHANGED inbox
        \/ m.msg = "offer" /\ room[m.peer] = "admitted" /\ ToSender("answer", m.peer)
           /\ UNCHANGED room
    BY <1>8 DEF ServerTakes
  <2>2. m.msg = "offer" => m.peer \in Peers
    BY <1>0, <1>8 DEF ServerTakes, Sent
  <2>. HIDE DEF m
  <2>. QED BY <2>1, <2>2
<1>9. ASSUME NEW p \in Peers, Knock(p) \/ Leave(p) PROVE Arrived
  <2>1. room'[p] # "out"
    BY <1>0, <1>9 DEF Knock, Leave
  <2>2. ToSender("pending", p) \/ ToSender("peer_gone", p)
    BY <1>9 DEF Knock, Leave
  <2>. QED BY <2>1, <2>2
<1>. HIDE DEF Taken, Arrived
<1>10. inbox' \in {inbox, <<>>} \/ Taken \/ Arrived
  BY <1>2, <1>3, <1>4, <1>5, <1>6, <1>7, <1>8, <1>9 DEF SenderNext
<1>. QED BY <1>10 DEF Taken, Arrived

\* Nobody goes back to being unknown to the server.
LEMMA RoomStep ==
  ASSUME SenderTypeOK, [SenderNext]_senderVars, NEW p \in Peers, room[p] # "out"
  PROVE  room'[p] # "out"
<1>1. room \in [Peers -> {"out", "waiting", "admitted", "gone"}]
  BY DEF SenderTypeOK
<1>2. ASSUME NEW q \in Peers, Knock(q) \/ Leave(q) PROVE room'[p] # "out"
  BY <1>1, <1>2 DEF Knock, Leave
<1>3. ServerTakes => room'[p] # "out"
  BY TakeStep
<1>. QED BY <1>2, <1>3, WireStep

\* What the sender comes to know, the server knew: whoever enters its list
\* had a message in the socket.
LEMMA KnownStays ==
  ASSUME SenderTypeOK, MediaInv, OfferInv, [SenderNext]_senderVars,
         NEW p \in Peers, Known(p)'
  PROVE  room'[p] # "out"
<1>0. inbox \in Seq(Received) /\ outbox \in Seq(Sent)
  BY DEF SenderTypeOK
<1>1. ASSUME Known(p) PROVE room'[p] # "out"
  BY <1>1, RoomStep DEF OfferInv
<1>2. CASE Listed(p)'
  <2>1. CASE Listed(p)
    BY <1>1, <2>1 DEF Known
  <2>2. CASE inbox # <<>> /\ p = Head(inbox).peer
    <3>1. 1 \in DOMAIN inbox /\ inbox[1].peer = p
      BY <1>0, <2>2
    <3>. QED BY <1>1, <3>1 DEF Known
  <2>. QED BY <1>2, <2>1, <2>2, ListedStep
<1>3. ASSUME NEW i \in DOMAIN inbox', inbox'[i].peer = p PROVE room'[p] # "out"
  <2>1. ASSUME NEW k \in DOMAIN inbox, inbox[k].peer = p PROVE room'[p] # "out"
    BY <1>1, <2>1 DEF Known
  <2>2. CASE inbox' \in {inbox, <<>>}
    BY <1>3, <2>1, <2>2
  <2>3. CASE inbox # <<>> /\ inbox' = Tail(inbox)
    <3>1. i + 1 \in DOMAIN inbox /\ inbox'[i] = inbox[i + 1]
      BY <1>0, <1>3, <2>3, HeadTailProperties
    <3>. QED BY <1>3, <2>1, <3>1
  <2>4. ASSUME NEW q \in Peers, NEW m \in {"pending", "answer", "peer_gone"},
               ToSender(m, q), room'[q] # "out"
        PROVE  room'[p] # "out"
    <3>. DEFINE r == [msg |-> m, peer |-> q]
    <3>1. r \in Received /\ r.peer = q
      BY DEF Received
    <3>2. inbox' = Append(inbox, r) \/ inbox' = inbox
      BY <2>4 DEF ToSender
    <3>. HIDE DEF r
    <3>3. (i \in DOMAIN inbox /\ inbox'[i] = inbox[i]) \/ inbox'[i] = r
      BY <1>0, <1>3, <3>1, <3>2
    <3>. QED BY <1>3, <2>1, <2>4, <3>1, <3>3
  <2>. QED BY <2>2, <2>3, <2>4, InboxStep
<1>4. ASSUME NEW i \in DOMAIN outbox', outbox'[i] = OfferOf(p) PROVE room'[p] # "out"
  <2>1. ASSUME NEW k \in DOMAIN outbox, outbox[k] = OfferOf(p) PROVE room'[p] # "out"
    BY <1>1, <2>1 DEF Known
  <2>2. CASE outbox' \in {outbox, <<>>}
    BY <1>4, <2>1, <2>2
  <2>3. ASSUME NEW m \in Sent, Send(m), m.msg = "offer" => m.peer \in Served
        PROVE  room'[p] # "out"
    <3>1. (i \in DOMAIN outbox /\ outbox'[i] = outbox[i]) \/ outbox'[i] = m
      BY <1>0, <1>4, <2>3, SendKeeps
    <3>2. CASE m = OfferOf(p)
      <4>1. p \in Served
        BY <2>3, <3>2 DEF OfferOf
      <4>. QED BY <1>1, <4>1 DEF MediaInv, Decided, Listed, Known
    <3>. QED BY <1>4, <2>1, <3>1, <3>2
  <2>4. CASE ServerTakes
    <3>1. i + 1 \in DOMAIN outbox /\ outbox'[i] = outbox[i + 1]
      BY <1>4, <2>4, TakeStep, TakeKeeps
    <3>. QED BY <1>4, <2>1, <3>1
  <2>5. (\E q \in Peers : Knock(q) \/ Leave(q)) => UNCHANGED outbox
    BY DEF Knock, Leave
  <2>. QED BY <2>2, <2>3, <2>4, <2>5, WireStep
<1>5. (\E i \in DOMAIN outbox : outbox[i] = OfferOf(p))' => \E i \in DOMAIN outbox' : outbox'[i] = OfferOf(p)
  BY DEF OfferOf
<1>. QED BY <1>2, <1>3, <1>4, <1>5 DEF Known

LEMMA OfferNext ==
  SenderTypeOK /\ MediaInv /\ OfferInv /\ [SenderNext]_senderVars => OfferInv'
<1>. SUFFICES ASSUME SenderTypeOK, MediaInv, OfferInv, [SenderNext]_senderVars
              PROVE  OfferInv'
  OBVIOUS
<1>1. OfferAfterAccept'
  BY OfferOrder
<1>2. \A p \in Served' : Admitting(p)'
  BY ServedStays
<1>3. \A t \in Threads : InOrder(t)'
  BY InOrderStays
<1>4. \A p \in Peers : Known(p)' => room'[p] # "out"
  BY KnownStays
<1>. QED BY <1>1, <1>2, <1>3, <1>4 DEF OfferInv

\* The server never drops the offer of a session: on the one socket the accept
\* for the receiver is before it, whatever threads create sessions for it and
\* whenever their peer connections report a description.
THEOREM AcceptGoesFirst == SenderSpec => []OfferAfterAccept
<1>1. SenderInit => TypeOK /\ ProvenanceInv
  BY TypeInit, ProvenanceInit DEF SenderInit
<1>2. SenderTypeOK /\ ProvenanceInv /\ [SenderNext]_senderVars => ProvenanceInv'
  BY StepOnList, ProvenanceNext DEF SenderTypeOK
<1>3. OfferInv => OfferAfterAccept
  BY DEF OfferInv
<1>. QED BY <1>1, <1>2, <1>3, SenderTypeInit, SenderTypeNext, MediaInit, MediaNext,
         OfferInit, OfferNext, PTL DEF SenderSpec

-----------------------------------------------------------------------------
(* Every accepted receiver is served.                                      *)

\* A connection is of no use to its peer any more, or never was.
Dead == {"released", "lost", "freed", "unmade"}

\* Peer p has a connection that was neither lost nor freed.
HasLink(p) == \E i \in DOMAIN sessions :
    sessions[i].peer = p /\ sessions[i].link \notin Dead

\* Or the last one that was to be created for it could not be.
Live(p) == HasLink(p) \/ LeftUnmade(p)

\* A thread is still to create a session of p, or to record the end of one.
Owes(calls, p) == \E k \in DOMAIN calls : calls[k] \in {Call("create", p), Call("disconnect", p)}
Owed(p) == \E t \in Threads : Owes(todo[t], p)

\* Only a dialog that goes away tears the sender down.
Tears(calls) == \E k \in DOMAIN calls : calls[k].call \in {"revoke", "free", "close"}
NoTeardown == phase = "running" => \A t \in Threads : ~Tears(todo[t])

\* Inductive: AcceptedIsServed needs the sender to be whole while the dialog
\* runs.
ServedInv ==
    /\ NoTeardown
    /\ phase = "running" => \A p \in Accepted : Live(p) \/ Owed(p)

LEMMA ServedInit == SenderInit => ServedInv
  BY DEF SenderInit, Init, ServedInv, NoTeardown, Tears, Accepted, Threads

\* The calls of a decision: none tears the sender down, and an acceptance owes
\* a session.
LEMMA DecisionOwes ==
  ASSUME NEW p \in Peers
  PROVE  /\ Owes(OnAccepted(p), p) /\ Owes(OnAccepted(p) \o <<Call("pending", p)>>, p)
         /\ ~Tears(OnAccepted(p)) /\ ~Tears(OnAccepted(p) \o <<Call("pending", p)>>)
         /\ ~Tears(OnRejected(p)) /\ ~Tears(<<>>)
         /\ ~Tears(<<Call("pending", p)>>) /\ ~Tears(<<Call("gone", p)>>)
<1>. DEFINE first == OnAccepted(p)
            last == <<Call("pending", p)>>
<1>1. /\ first \in Seq(Calls) /\ Len(first) = 2 /\ DOMAIN first = 1 .. 2
      /\ first[1] = Call("accept", p) /\ first[2] = Call("create", p)
  BY CallsType DEF OnAccepted
<1>2. last \in Seq(Calls) /\ Len(last) = 1 /\ last[1] = Call("pending", p)
  BY CallsType
<1>. HIDE DEF first, last
<1>3. /\ first \o last \in Seq(Calls)
      /\ Len(first \o last) = Len(first) + Len(last)
      /\ \A k \in 1 .. Len(first) + Len(last) :
            (first \o last)[k] = IF k <= Len(first) THEN first[k] ELSE last[k - Len(first)]
  BY <1>1, <1>2, ConcatProperties
<1>4. DOMAIN (first \o last) = 1 .. 3
  BY <1>1, <1>2, <1>3, LenProperties
<1>5. /\ (first \o last)[1] = Call("accept", p)
      /\ (first \o last)[2] = Call("create", p)
      /\ (first \o last)[3] = Call("pending", p)
  BY <1>1, <1>2, <1>3
<1>6. \A c : Call(c, p).call = c
  BY DEF Call
<1>7. Owes(first, p) /\ Owes(first \o last, p)
  BY <1>1, <1>4, <1>5 DEF Owes
<1>8. ~Tears(first)
  BY <1>1, <1>6 DEF Tears
<1>9. ~Tears(first \o last)
  <2>. SUFFICES ASSUME NEW k \in 1 .. 3
                PROVE  (first \o last)[k].call \notin {"revoke", "free", "close"}
    BY <1>4 DEF Tears
  <2>1. k = 1 \/ k = 2 \/ k = 3
    OBVIOUS
  <2>. QED BY <1>5, <1>6, <2>1
<1>10. /\ ~Tears(OnRejected(p)) /\ ~Tears(<<>>)
       /\ ~Tears(<<Call("pending", p)>>) /\ ~Tears(<<Call("gone", p)>>)
  BY <1>6 DEF Tears, OnRejected
<1>. QED BY <1>7, <1>8, <1>9, <1>10 DEF first, last

\* A thread that starts on its calls was done with the ones before.
LEMMA StartOwes ==
  ASSUME SenderTypeOK, NEW t \in Threads, NEW calls, Start(t, calls)
  PROVE  /\ \A p \in Peers : Owed(p) => Owed(p)'
         /\ \A p \in Peers : Owes(calls, p) => Owed(p)'
         /\ ~Tears(calls) /\ (\A u \in Threads : ~Tears(todo[u])) => \A u \in Threads : ~Tears(todo'[u])
<1>1. todo[t] = <<>> /\ todo'[t] = calls /\ \A u \in Threads \ {t} : todo'[u] = todo[u]
  BY DEF Start, Idle, SenderTypeOK
<1>2. \A p \in Peers : ~Owes(<<>>, p)
  BY DEF Owes
<1>3. ASSUME NEW p \in Peers, Owed(p) PROVE Owed(p)'
  <2>1. PICK u \in Threads : Owes(todo[u], p)
    BY <1>3 DEF Owed
  <2>2. todo'[u] = todo[u]
    BY <1>1, <1>2, <2>1
  <2>. QED BY <2>1, <2>2 DEF Owed, Owes
<1>4. ASSUME NEW p \in Peers, Owes(calls, p) PROVE Owed(p)'
  BY <1>1, <1>4 DEF Owed, Owes
<1>5. ASSUME ~Tears(calls), \A u \in Threads : ~Tears(todo[u]), NEW u \in Threads
      PROVE  ~Tears(todo'[u])
  <2>1. todo'[u] = calls \/ todo'[u] = todo[u]
    BY <1>1
  <2>. QED BY <1>5, <2>1
<1>. QED BY <1>3, <1>4, <1>5

\* A call that is neither create nor disconnect leaves what is owed.
LEMMA ProceedOwes ==
  ASSUME SenderTypeOK, NEW t \in Threads, ~Idle(t), Proceed(t)
  PROVE  /\ \A p \in Peers : Owed(p) =>
               Owed(p)' \/ Next1(t) = Call("create", p) \/ Next1(t) = Call("disconnect", p)
         /\ (\A u \in Threads : ~Tears(todo[u])) => \A u \in Threads : ~Tears(todo'[u])
<1>0. /\ \A u \in Threads \ {t} : todo'[u] = todo[u]
      /\ 1 \in DOMAIN todo[t] /\ todo[t][1] = Next1(t)
      /\ \A k \in DOMAIN todo[t] :
            k = 1 \/ (k - 1 \in DOMAIN todo'[t] /\ todo'[t][k - 1] = todo[t][k])
      /\ \A k \in DOMAIN todo'[t] : \E j \in DOMAIN todo[t] : todo'[t][k] = todo[t][j]
  BY ProceedKeeps
<1>1. ASSUME NEW p \in Peers, Owed(p), ~Owed(p)'
      PROVE  Next1(t) = Call("create", p) \/ Next1(t) = Call("disconnect", p)
  <2>0. PICK u \in Threads : Owes(todo[u], p)
    BY <1>1 DEF Owed
  <2>1. PICK k \in DOMAIN todo[u] : todo[u][k] \in {Call("create", p), Call("disconnect", p)}
    BY <2>0 DEF Owes
  <2>2. \A v \in Threads : \A j \in DOMAIN todo'[v] :
            todo'[v][j] \notin {Call("create", p), Call("disconnect", p)}
    BY <1>1 DEF Owed, Owes, Call
  <2>3. u = t /\ k = 1
    BY <1>0, <2>1, <2>2
  <2>. QED BY <1>0, <2>1, <2>3
<1>2. ASSUME \A u \in Threads : ~Tears(todo[u]), NEW u \in Threads
      PROVE  ~Tears(todo'[u])
  <2>1. CASE u = t
    BY <1>0, <1>2, <2>1 DEF Tears
  <2>2. CASE u # t
    BY <1>0, <1>2, <2>2
  <2>. QED BY <2>1, <2>2
<1>. QED BY <1>1, <1>2

\* A session that goes to another link is lost to its own peer at most, and one
\* that could not be created goes to none.
LEMMA RelinkLive ==
  ASSUME SenderTypeOK, NEW s, NEW l \in Links, Relink(s, l), NEW p, Live(p),
         \A i \in s : i \in DOMAIN sessions => sessions[i].link # "unmade",
         l \in Dead => \A i \in s : i \in DOMAIN sessions => sessions[i].peer # p
  PROVE  Live(p)'
<1>1. sessions \in Seq(Sessions)
  BY DEF SenderTypeOK
<1>2. /\ DOMAIN sessions' = DOMAIN sessions
      /\ \A i \in DOMAIN sessions : sessions'[i].peer = sessions[i].peer
  BY <1>1, RelinkKeepsPeers
<1>3. \A i \in DOMAIN sessions :
        sessions'[i] = IF i \in s THEN [sessions[i] EXCEPT !.link = l] ELSE sessions[i]
  BY DEF Relink
<1>4. CASE HasLink(p)
  <2>1. PICK i \in DOMAIN sessions : sessions[i].peer = p /\ sessions[i].link \notin Dead
    BY <1>4 DEF HasLink
  <2>2. sessions[i] \in Sessions
    BY <1>1, <2>1
  <2>3. i \in s => sessions'[i].link = l /\ l \notin Dead
    BY <1>3, <2>1, <2>2 DEF Sessions
  <2>4. i \notin s => sessions'[i].link = sessions[i].link
    BY <1>3, <2>1
  <2>5. sessions'[i].link \notin Dead
    BY <2>1, <2>3, <2>4
  <2>. QED BY <1>2, <2>1, <2>5 DEF Live, HasLink
<1>5. CASE LeftUnmade(p)
  <2>1. PICK i \in DOMAIN sessions :
          /\ sessions[i] = [peer |-> p, link |-> "unmade"]
          /\ \A j \in DOMAIN sessions : j > i => sessions[j].peer # p
    BY <1>5 DEF LeftUnmade
  <2>2. i \notin s
    BY <2>1
  <2>3. sessions'[i] = [peer |-> p, link |-> "unmade"]
    BY <1>3, <2>1, <2>2
  <2>4. \A j \in DOMAIN sessions' : j > i => sessions'[j].peer # p
    BY <1>2, <2>1
  <2>. QED BY <1>2, <2>3, <2>4 DEF Live, LeftUnmade
<1>. QED BY <1>4, <1>5 DEF Live

\* An attempt to create a session serves its peer, or leaves word that it could
\* not be; the others stay served.
LEMMA AttemptLive ==
  ASSUME SenderTypeOK, NEW q \in Peers, NEW l \in {"new", "unmade"},
         sessions' = Append(sessions, [peer |-> q, link |-> l])
  PROVE  Live(q)' /\ \A p \in Peers : Live(p) => Live(p)'
<1>. DEFINE n == Len(sessions) + 1
<1>1. sessions \in Seq(Sessions) /\ [peer |-> q, link |-> l] \in Sessions
  BY DEF SenderTypeOK, Sessions, Links
<1>2. /\ DOMAIN sessions' = 1 .. n /\ DOMAIN sessions = 1 .. Len(sessions)
      /\ \A i \in 1 .. Len(sessions) : sessions'[i] = sessions[i]
      /\ sessions'[n] = [peer |-> q, link |-> l]
      /\ n \in 1 .. n /\ 1 .. Len(sessions) \subseteq 1 .. n
      /\ \A j \in 1 .. n : j = n \/ j \in 1 .. Len(sessions)
      /\ \A j \in 1 .. n : ~(j > n)
  BY <1>1
<1>. HIDE DEF n
<1>3. Live(q)'
  <2>1. CASE l = "new"
    BY <1>2, <2>1 DEF Live, HasLink, Dead
  <2>2. CASE l = "unmade"
    <3>1. LeftUnmade(q)'
      BY <1>2, <2>2 DEF LeftUnmade
    <3>. QED BY <3>1 DEF Live
  <2>. QED BY <2>1, <2>2
<1>4. ASSUME NEW p \in Peers, Live(p), p # q PROVE Live(p)'
  <2>1. CASE HasLink(p)
    BY <1>2, <2>1 DEF Live, HasLink
  <2>2. CASE LeftUnmade(p)
    <3>1. PICK i \in DOMAIN sessions :
            /\ sessions[i] = [peer |-> p, link |-> "unmade"]
            /\ \A j \in DOMAIN sessions : j > i => sessions[j].peer # p
      BY <2>2 DEF LeftUnmade
    <3>2. i \in DOMAIN sessions' /\ sessions'[i] = [peer |-> p, link |-> "unmade"]
      BY <1>2, <3>1
    <3>3. \A j \in DOMAIN sessions' : j > i => sessions'[j].peer # p
      BY <1>2, <1>4, <3>1
    <3>. QED BY <3>2, <3>3 DEF Live, LeftUnmade
  <2>. QED BY <1>4, <2>1, <2>2 DEF Live
<1>. QED BY <1>3, <1>4

\* What a call on the list does to the accepted peers.
LEMMA SetStateAccepted ==
  ASSUME TypeOK, NEW q \in Peers, NEW s \in PeerStates, NEW pin, SetPeerState(q, s, pin)
  PROVE  /\ Accepted' \subseteq Accepted \cup {q}
         /\ s # "accepted" => q \notin Accepted'
         /\ q \in Accepted' => Listed(q)
<1>1. state \in [Peers -> PeerStates \cup {"absent"}]
  BY DEF TypeOK
<1>2. state' = IF Listed(q) THEN [state EXCEPT ![q] = s] ELSE state
  BY DEF SetPeerState
<1>3. ~Listed(q) => state[q] = "absent"
  BY DEF Listed
<1>. QED BY <1>1, <1>2, <1>3 DEF Accepted

\* The user's clicks keep every accepted peer served.
LEMMA ServedUser ==
  ASSUME SenderTypeOK, ServedInv, User
  PROVE  ServedInv'
<1>. USE DEF Threads
<1>0. TypeOK /\ {"accepted", "rejected"} \subseteq PeerStates /\ "freed" \in Links
  BY DEF SenderTypeOK, PeerStates, Links
<1>1. CASE UserRevoke \/ UserClose
  BY <1>1 DEF UserRevoke, UserClose, ServedInv, NoTeardown
<1>2. ASSUME NEW i \in DOMAIN rows, UserAccept(i) PROVE ServedInv'
  <2>1. PICK q \in Peers : q = rows[i].peer
    BY PeersOfState
  <2>2. PICK c : c = IF Listed(q) THEN OnAccepted(q) ELSE <<>>
    OBVIOUS
  <2>3. /\ phase = "running" /\ SetPeerState(q, "accepted", TRUE) /\ Start("qt", c)
        /\ UNCHANGED <<sessions, phase>>
    BY <1>2, <2>1, <2>2 DEF UserAccept, Accept, mediaVars
  <2>4. ~Tears(c) /\ (Listed(q) => Owes(c, q))
    BY <2>2, DecisionOwes
  <2>5. /\ \A p \in Peers : Owed(p) => Owed(p)'
        /\ \A p \in Peers : Owes(c, p) => Owed(p)'
        /\ \A u \in Threads : ~Tears(todo'[u])
    BY <2>3, <2>4, StartOwes DEF ServedInv, NoTeardown
  <2>6. Accepted' \subseteq Accepted \cup {q} /\ (q \in Accepted' => Listed(q))
    BY <1>0, <2>3, SetStateAccepted
  <2>7. \A p \in Peers : Live(p)' <=> Live(p)
    BY <2>3 DEF Live, HasLink, LeftUnmade
  <2>8. ASSUME NEW p \in Accepted' PROVE Live(p)' \/ Owed(p)'
    <3>1. p \in Peers
      BY DEF Accepted
    <3>. QED BY <2>3, <2>4, <2>5, <2>6, <2>7, <2>8, <3>1 DEF ServedInv
  <2>. QED BY <2>5, <2>8 DEF ServedInv, NoTeardown, Tears
<1>3. ASSUME NEW i \in DOMAIN rows, UserReject(i) PROVE ServedInv'
  <2>1. PICK q \in Peers : q = rows[i].peer
    BY PeersOfState
  <2>2. PICK c : c = IF Listed(q) THEN OnRejected(q) ELSE <<>>
    OBVIOUS
  <2>3. /\ phase = "running" /\ SetPeerState(q, "rejected", FALSE) /\ Start("qt", c)
        /\ UNCHANGED <<sessions, phase>>
    BY <1>3, <2>1, <2>2 DEF UserReject, Reject, mediaVars
  <2>4. ~Tears(c)
    BY <2>2, DecisionOwes
  <2>5. /\ \A p \in Peers : Owed(p) => Owed(p)'
        /\ \A u \in Threads : ~Tears(todo'[u])
    BY <2>3, <2>4, StartOwes DEF ServedInv, NoTeardown
  <2>6. Accepted' \subseteq Accepted
    BY <1>0, <2>3, SetStateAccepted
  <2>7. \A p \in Peers : Live(p)' <=> Live(p)
    BY <2>3 DEF Live, HasLink, LeftUnmade
  <2>8. ASSUME NEW p \in Accepted' PROVE Live(p)' \/ Owed(p)'
    <3>1. p \in Peers
      BY DEF Accepted
    <3>. QED BY <2>3, <2>5, <2>6, <2>7, <2>8, <3>1 DEF ServedInv
  <2>. QED BY <2>5, <2>8 DEF ServedInv, NoTeardown, Tears
<1>4. ASSUME NEW i \in DOMAIN rows, UserDisconnect(i) PROVE ServedInv'
  <2>1. PICK q \in Peers : q = rows[i].peer
    BY PeersOfState
  <2>2. PICK c : c = <<Call("disconnect", q), Call("reject", q), Call("gone", q)>>
    OBVIOUS
  <2>3. /\ phase = "running" /\ Start("qt", c) /\ UNCHANGED <<admissionVars, phase>>
        /\ Relink(FirstOf(SessionsOf(q)), "freed")
    BY <1>4, <2>1, <2>2 DEF UserDisconnect
  <2>4. ~Tears(c) /\ Owes(c, q)
    BY <2>2 DEF Tears, Owes, Call
  <2>5. /\ \A p \in Peers : Owed(p) => Owed(p)'
        /\ \A p \in Peers : Owes(c, p) => Owed(p)'
        /\ \A u \in Threads : ~Tears(todo'[u])
    BY <2>3, <2>4, StartOwes DEF ServedInv, NoTeardown
  <2>6. Accepted' = Accepted
    BY <2>3 DEF Accepted, admissionVars, peerVars
  <2>7. ASSUME NEW p \in Accepted' PROVE Live(p)' \/ Owed(p)'
    <3>1. p \in Peers /\ p \in Accepted
      BY <2>6 DEF Accepted
    <3>2. CASE p = q
      BY <2>4, <2>5, <3>1, <3>2
    <3>3. CASE p # q /\ Owed(p)
      BY <2>5, <3>1, <3>3
    <3>4. CASE p # q /\ Live(p)
      <4>1. \A j \in FirstOf(SessionsOf(q)) :
              sessions[j].peer # p /\ sessions[j].link # "unmade"
        BY <3>4 DEF FirstOf, SessionsOf
      <4>. QED BY <1>0, <2>3, <3>4, <4>1, RelinkLive
    <3>. QED BY <2>3, <3>1, <3>2, <3>3, <3>4 DEF ServedInv
  <2>. QED BY <2>5, <2>7 DEF ServedInv, NoTeardown, Tears
<1>. QED BY <1>1, <1>2, <1>3, <1>4 DEF User

\* The calls of the threads keep every accepted peer served.
LEMMA ServedThread ==
  ASSUME SenderTypeOK, ServedInv, NEW t \in Threads, Thread(t)
  PROVE  ServedInv'
<1>0. TypeOK /\ "disconnected" \in PeerStates /\ "offering" \in Links
  BY DEF SenderTypeOK, PeerStates, Links
<1>1. ASSUME UNCHANGED <<state, phase>>, ~Idle(t), Proceed(t),
             Next1(t).call \notin {"create", "disconnect"},
             \A p \in Peers : Live(p) => Live(p)'
      PROVE  ServedInv'
  <2>1. \A p \in Peers : Owed(p) => Owed(p)'
    <3>1. \A p : Call("create", p).call = "create" /\ Call("disconnect", p).call = "disconnect"
      BY DEF Call
    <3>2. \A p \in Peers : Next1(t) # Call("create", p) /\ Next1(t) # Call("disconnect", p)
      BY <1>1, <3>1
    <3>. QED BY <1>1, <3>2, ProceedOwes
  <2>2. Accepted' = Accepted /\ Accepted \subseteq Peers
    BY <1>1 DEF Accepted
  <2>3. (\A u \in Threads : ~Tears(todo[u])) => \A u \in Threads : ~Tears(todo'[u])
    BY <1>1, ProceedOwes
  <2>4. phase' = phase
    BY <1>1
  <2>5. NoTeardown'
    BY <2>3, <2>4 DEF ServedInv, NoTeardown, Tears
  <2>6. phase' = "running" => \A p \in Accepted' : Live(p)' \/ Owed(p)'
    BY <1>1, <2>1, <2>2, <2>4 DEF ServedInv
  <2>. QED BY <2>5, <2>6 DEF ServedInv
<1>2. CASE CallSend(t) \/ CallPost(t)
  <2>1. /\ UNCHANGED <<state, phase, sessions>> /\ ~Idle(t) /\ Proceed(t)
        /\ Next1(t).call \notin {"create", "disconnect"}
    BY <1>2 DEF CallSend, CallPost, Calling, admissionVars, peerVars, mediaVars
  <2>2. \A p \in Peers : Live(p) => Live(p)'
    BY <2>1 DEF Live, HasLink, LeftUnmade
  <2>. QED BY <1>1, <2>1, <2>2
<1>3. CASE CallNegotiate(t)
  <2>1. /\ UNCHANGED <<state, phase>> /\ ~Idle(t) /\ Proceed(t)
        /\ Next1(t).call \notin {"create", "disconnect"}
    BY <1>3 DEF CallNegotiate, Calling, admissionVars, peerVars
  <2>2. \A p \in Peers : Live(p) => Live(p)'
    BY <1>0, <1>3, RelinkLive DEF CallNegotiate, Dead
  <2>. QED BY <1>1, <2>1, <2>2
<1>4. CASE CallDisconnect(t)
  <2>1. Next1(t) \in Calls /\ Next1(t).call = "disconnect" /\ ~Idle(t)
    BY <1>4, PeersOfState DEF CallDisconnect, Calling
  <2>2. PICK q \in Peers : q = Next1(t).peer /\ Next1(t) = Call("disconnect", q)
    BY <2>1, CallKinds
  <2>3. /\ SetPeerState(q, "disconnected", FALSE) /\ Proceed(t)
        /\ UNCHANGED <<phase, sessions>>
    BY <1>4, <2>2 DEF CallDisconnect, DisconnectPeer, mediaVars
  <2>4. Accepted' \subseteq Accepted /\ q \notin Accepted'
    BY <1>0, <2>3, SetStateAccepted
  <2>5. ASSUME NEW p \in Peers, Owed(p), p # q PROVE Owed(p)'
    <3>1. Next1(t) # Call("create", p) /\ Next1(t) # Call("disconnect", p)
      BY <2>2, <2>5 DEF Call
    <3>. QED BY <2>1, <2>3, <2>5, <3>1, ProceedOwes
  <2>6. (\A u \in Threads : ~Tears(todo[u])) => \A u \in Threads : ~Tears(todo'[u])
    BY <2>1, <2>3, ProceedOwes
  <2>7. \A p \in Peers : Live(p)' <=> Live(p)
    BY <2>3 DEF Live, HasLink, LeftUnmade
  <2>8. NoTeardown'
    BY <2>3, <2>6 DEF ServedInv, NoTeardown, Tears
  <2>9. ASSUME phase' = "running", NEW p \in Accepted' PROVE Live(p)' \/ Owed(p)'
    <3>1. p \in Peers /\ p \in Accepted /\ p # q
      BY <2>4, <2>9 DEF Accepted
    <3>. QED BY <2>3, <2>5, <2>7, <2>9, <3>1 DEF ServedInv
  <2>. QED BY <2>8, <2>9 DEF ServedInv
<1>5. CASE CallCreate(t)
  <2>1. Next1(t) \in Calls /\ Next1(t).call = "create"
    BY <1>5, PeersOfState DEF CallCreate, Calling
  <2>2. PICK q \in Peers : q = Next1(t).peer /\ Next1(t) = Call("create", q)
    BY <2>1, CallKinds
  <2>4. /\ sessions' = Append(sessions, [peer |-> q, link |-> "new"])
        /\ UNCHANGED <<state, phase>>
    BY <1>5, <2>2 DEF CallCreate, admissionVars, peerVars
  <2>6. Live(q)' /\ \A p \in Peers : Live(p) => Live(p)'
    BY <2>4, AttemptLive
  <2>7. /\ \A u \in Threads \ {t} : todo'[u] = todo[u]
        /\ 1 \in DOMAIN todo[t] /\ todo[t][1] = Next1(t)
        /\ DOMAIN todo'[t] = DOMAIN todo[t]
        /\ todo'[t][1].call = "negotiate"
        /\ \A k \in DOMAIN todo[t] : k = 1 \/ todo'[t][k] = todo[t][k]
    BY <1>5, CreateKeeps
  <2>8. ASSUME NEW p \in Peers, Owed(p), p # q PROVE Owed(p)'
    <3>1. PICK u \in Threads : Owes(todo[u], p)
      BY <2>8 DEF Owed
    <3>2. PICK k \in DOMAIN todo[u] : todo[u][k] \in {Call("create", p), Call("disconnect", p)}
      BY <3>1 DEF Owes
    <3>3. ~(u = t /\ k = 1)
      BY <2>2, <2>7, <2>8, <3>2 DEF Call
    <3>4. k \in DOMAIN todo'[u] /\ todo'[u][k] = todo[u][k]
      BY <2>7, <3>2, <3>3
    <3>. QED BY <3>2, <3>4 DEF Owed, Owes, Call
  <2>9. ASSUME \A u \in Threads : ~Tears(todo[u]), NEW u \in Threads PROVE ~Tears(todo'[u])
    <3>1. CASE u = t
      BY <2>7, <2>9, <3>1 DEF Tears
    <3>2. CASE u # t
      BY <2>7, <2>9, <3>2
    <3>. QED BY <3>1, <3>2
  <2>10. NoTeardown'
    BY <2>4, <2>9 DEF ServedInv, NoTeardown, Tears
  <2>11. ASSUME phase' = "running", NEW p \in Accepted' PROVE Live(p)' \/ Owed(p)'
    <3>1. p \in Peers /\ p \in Accepted
      BY <2>4, <2>11 DEF Accepted
    <3>. QED BY <2>4, <2>6, <2>8, <2>11, <3>1 DEF ServedInv
  <2>. QED BY <2>10, <2>11 DEF ServedInv
<1>6. CASE CallCreateFails(t)
  <2>1. Next1(t) \in Calls /\ Next1(t).call = "create" /\ ~Idle(t)
    BY <1>6, PeersOfState DEF CallCreateFails, Calling
  <2>2. PICK q \in Peers : q = Next1(t).peer /\ Next1(t) = Call("create", q)
    BY <2>1, CallKinds
  <2>3. /\ sessions' = Append(sessions, [peer |-> q, link |-> "unmade"])
        /\ Proceed(t) /\ UNCHANGED <<state, phase>>
    BY <1>6, <2>2 DEF CallCreateFails, admissionVars, peerVars
  <2>4. Live(q)' /\ \A p \in Peers : Live(p) => Live(p)'
    BY <2>3, AttemptLive
  <2>5. ASSUME NEW p \in Peers, Owed(p), p # q PROVE Owed(p)'
    <3>1. Next1(t) # Call("create", p) /\ Next1(t) # Call("disconnect", p)
      BY <2>2, <2>5 DEF Call
    <3>. QED BY <2>1, <2>3, <2>5, <3>1, ProceedOwes
  <2>6. (\A u \in Threads : ~Tears(todo[u])) => \A u \in Threads : ~Tears(todo'[u])
    BY <2>1, <2>3, ProceedOwes
  <2>7. NoTeardown'
    BY <2>3, <2>6 DEF ServedInv, NoTeardown, Tears
  <2>8. ASSUME phase' = "running", NEW p \in Accepted' PROVE Live(p)' \/ Owed(p)'
    <3>1. p \in Peers /\ p \in Accepted
      BY <2>3, <2>8 DEF Accepted
    <3>. QED BY <2>3, <2>4, <2>5, <2>8, <3>1 DEF ServedInv
  <2>. QED BY <2>7, <2>8 DEF ServedInv
<1>. QED BY <1>2, <1>3, <1>4, <1>5, <1>6 DEF Thread

\* The events of the dialog keep every accepted peer served; the sender is
\* released only after the dialog has left.
LEMMA ServedQt ==
  ASSUME SenderTypeOK, ServedInv, Qt
  PROVE  ServedInv'
<1>. USE DEF Threads
<1>1. CASE Thread("qt")
  BY <1>1, ServedThread
<1>2. CASE QtEvent
  <2>1. UNCHANGED <<state, sessions, todo, phase>>
    BY <1>2 DEF QtEvent, admissionVars, peerVars, mediaVars
  <2>. QED BY <2>1 DEF ServedInv, NoTeardown, Accepted, Live, HasLink, LeftUnmade, Owed, Owes, Tears, Call
<1>3. CASE CallRevoke \/ CallFree \/ CallClose
  <2>1. todo["qt"] \in Seq(Calls) /\ todo["qt"] # <<>>
    BY <1>3 DEF CallRevoke, CallFree, CallClose, Calling, Idle, SenderTypeOK
  <2>2. 1 \in DOMAIN todo["qt"] /\ todo["qt"][1] = Next1("qt")
    BY <2>1 DEF Next1
  <2>3. Next1("qt").call \in {"revoke", "free", "close"}
    BY <1>3 DEF CallRevoke, CallFree, CallClose, Calling
  <2>4. phase # "running"
    BY <2>2, <2>3 DEF ServedInv, NoTeardown, Tears
  <2>5. phase' # "running"
    BY <1>3, <2>4 DEF CallRevoke, CallFree, CallClose
  <2>. QED BY <2>5 DEF ServedInv, NoTeardown
<1>. QED BY <1>1, <1>2, <1>3 DEF Qt

\* What comes over the socket keeps every accepted peer served: a peer that is
\* accepted on arrival gets its session.
LEMMA ServedWs ==
  ASSUME SenderTypeOK, ServedInv, Ws
  PROVE  ServedInv'
<1>. USE DEF Threads
<1>0. TypeOK /\ "disconnected" \in PeerStates /\ "answered" \in Links
  BY DEF SenderTypeOK, PeerStates, Links
<1>1. CASE Thread("ws")
  BY <1>1, ServedThread
<1>2. ASSUME NEW f \in Fingerprints, WsPending(f) PROVE ServedInv'
  <2>1. PICK q \in Peers : q = Head(inbox).peer
    BY <1>2, PeersOfState DEF WsPending, Receive
  <2>2. PICK c : c = IF ~Listed(q) /\ state'[q] = "accepted"
                     THEN OnAccepted(q) \o <<Call("pending", q)>> ELSE <<Call("pending", q)>>
    OBVIOUS
  <2>3. AddPending(q, f) /\ Start("ws", c) /\ UNCHANGED <<sessions, phase>>
    BY <1>2, <2>1, <2>2 DEF WsPending, mediaVars
  <2>4. ~Tears(c) /\ (~Listed(q) /\ state'[q] = "accepted" => Owes(c, q))
    BY <2>2, DecisionOwes
  <2>5. /\ \A p \in Peers : Owed(p) => Owed(p)'
        /\ \A p \in Peers : Owes(c, p) => Owed(p)'
        /\ (\A u \in Threads : ~Tears(todo[u])) => \A u \in Threads : ~Tears(todo'[u])
    BY <2>3, <2>4, StartOwes
  <2>6. UNCHANGED peerVars \/ (~Listed(q) /\ Enlist(q, f))
    BY <2>3 DEF AddPending, AddWhileLockedOut, AddHitsLimit, AddRegistered, admissionVars
  <2>7. ASSUME NEW p \in Accepted' PROVE p \in Accepted \/ (p = q /\ ~Listed(q))
    BY <1>0, <2>6, <2>7 DEF Enlist, peerVars, Accepted, TypeOK
  <2>8. \A p \in Peers : Live(p)' <=> Live(p)
    BY <2>3 DEF Live, HasLink, LeftUnmade
  <2>9. NoTeardown'
    BY <2>3, <2>5 DEF ServedInv, NoTeardown, Tears
  <2>10. ASSUME phase' = "running", NEW p \in Accepted' PROVE Live(p)' \/ Owed(p)'
    <3>1. p \in Peers /\ state'[p] = "accepted"
      BY DEF Accepted
    <3>. QED BY <2>3, <2>4, <2>5, <2>7, <2>8, <2>10, <3>1 DEF ServedInv
  <2>. QED BY <2>9, <2>10 DEF ServedInv
<1>3. CASE WsPeerGone
  <2>1. PICK q \in Peers : q = Head(inbox).peer
    BY <1>3, PeersOfState DEF WsPeerGone, Receive
  <2>2. PICK c : c = <<Call("gone", q)>>
    OBVIOUS
  <2>3. /\ SetPeerState(q, "disconnected", FALSE) /\ Start("ws", c)
        /\ UNCHANGED <<sessions, phase>>
    BY <1>3, <2>1, <2>2 DEF WsPeerGone, DisconnectPeer, mediaVars
  <2>4. ~Tears(c)
    BY <2>2, DecisionOwes
  <2>5. /\ \A p \in Peers : Owed(p) => Owed(p)'
        /\ (\A u \in Threads : ~Tears(todo[u])) => \A u \in Threads : ~Tears(todo'[u])
    BY <2>3, <2>4, StartOwes
  <2>6. Accepted' \subseteq Accepted
    BY <1>0, <2>3, SetStateAccepted
  <2>7. \A p \in Peers : Live(p)' <=> Live(p)
    BY <2>3 DEF Live, HasLink, LeftUnmade
  <2>8. NoTeardown'
    BY <2>3, <2>5 DEF ServedInv, NoTeardown, Tears
  <2>9. ASSUME phase' = "running", NEW p \in Accepted' PROVE Live(p)' \/ Owed(p)'
    <3>1. p \in Peers
      BY DEF Accepted
    <3>. QED BY <2>3, <2>5, <2>6, <2>7, <2>9, <3>1 DEF ServedInv
  <2>. QED BY <2>8, <2>9 DEF ServedInv
<1>4. CASE WsAnswer
  <2>1. UNCHANGED <<state, todo, phase>>
    BY <1>4 DEF WsAnswer, admissionVars, peerVars
  <2>2. \A p \in Peers : Live(p) => Live(p)'
    BY <1>0, <1>4, RelinkLive DEF WsAnswer, Dead
  <2>. QED BY <2>1, <2>2 DEF ServedInv, NoTeardown, Accepted, Owed, Owes, Tears, Call
<1>. QED BY <1>1, <1>2, <1>3, <1>4 DEF Ws

\* A peer connection that fails is recorded, or about to be.
LEMMA ServedRtc ==
  ASSUME SenderTypeOK, ServedInv, NEW i \in DOMAIN sessions, Rtc(i)
  PROVE  ServedInv'
<1>0. /\ TypeOK /\ "disconnected" \in PeerStates
      /\ {"offered", "connecting", "connected", "unrecorded", "lost"} \subseteq Links
      /\ UNCHANGED <<todo, phase>>
  BY DEF SenderTypeOK, PeerStates, Links, Rtc, RtcOffer, RtcProgress, RtcLost, RtcRecord
<1>1. ASSUME UNCHANGED state, \A p \in Peers : Live(p) => Live(p)' PROVE ServedInv'
  BY <1>0, <1>1 DEF ServedInv, NoTeardown, Accepted, Owed, Owes, Tears, Call
<1>2. CASE RtcOffer(i) \/ RtcProgress(i) \/ RtcLost(i)
  <2>1. UNCHANGED state
    BY <1>2 DEF RtcOffer, RtcProgress, RtcLost, admissionVars, peerVars
  <2>2. PICK l \in {"offered", "connecting", "connected", "unrecorded"} : Relink({i}, l)
    BY <1>2 DEF RtcOffer, RtcProgress, RtcLost
  <2>3. sessions[i].link # "unmade"
    BY <1>2 DEF RtcOffer, RtcProgress, RtcLost
  <2>4. l \in Links /\ l \notin Dead
    BY <1>0, <2>2 DEF Dead
  <2>5. \A p \in Peers : Live(p) => Live(p)'
    BY <2>2, <2>3, <2>4, RelinkLive
  <2>. QED BY <1>1, <2>1, <2>5
<1>3. CASE RtcRecord(i)
  <2>1. PICK q \in Peers : q = sessions[i].peer
    BY PeersOfState
  <2>2. /\ SetPeerState(q, "disconnected", FALSE) /\ Relink({i}, "lost")
        /\ sessions[i].link # "unmade"
    BY <1>3, <2>1 DEF RtcRecord, DisconnectPeer
  <2>3. Accepted' \subseteq Accepted /\ q \notin Accepted'
    BY <1>0, <2>2, SetStateAccepted
  <2>4. \A p \in Peers : Live(p) /\ p # q => Live(p)'
    BY <1>0, <2>1, <2>2, RelinkLive
  <2>5. \A p \in Peers : Owed(p)' <=> Owed(p)
    BY <1>0 DEF Owed, Owes, Call
  <2>6. NoTeardown'
    BY <1>0 DEF ServedInv, NoTeardown, Tears
  <2>7. ASSUME phase' = "running", NEW p \in Accepted' PROVE Live(p)' \/ Owed(p)'
    <3>1. p \in Peers /\ p # q
      BY <2>3, <2>7 DEF Accepted
    <3>. QED BY <1>0, <2>3, <2>4, <2>5, <2>7, <3>1 DEF ServedInv
  <2>. QED BY <2>6, <2>7 DEF ServedInv
<1>. QED BY <1>2, <1>3 DEF Rtc

LEMMA ServedNext == SenderTypeOK /\ ServedInv /\ [SenderNext]_senderVars => ServedInv'
<1>. SUFFICES ASSUME SenderTypeOK, ServedInv, [SenderNext]_senderVars PROVE ServedInv'
  OBVIOUS
<1>1. ASSUME \/ WsLost \/ ServerTakes \/ SenderTick
             \/ \E p \in Peers : Knock(p) \/ Leave(p)
             \/ UNCHANGED senderVars
      PROVE  ServedInv'
  <2>1. UNCHANGED <<state, sessions, todo, phase>>
    BY <1>1 DEF WsLost, ServerTakes, SenderTick, Tick, Knock, Leave, senderVars,
                admissionVars, peerVars, mediaVars
  <2>. QED BY <2>1 DEF ServedInv, NoTeardown, Accepted, Live, HasLink, LeftUnmade, Owed, Owes, Tears, Call
<1>. QED BY <1>1, ServedUser, ServedQt, ServedWs, ServedRtc DEF SenderNext

\* While the dialog runs, a receiver the list says is accepted has a connection,
\* or a thread has still to make it or to record that it ended, or the last
\* attempt to create one failed (create_session then returns without a word):
\* no crossing of clicks, of what comes over the socket and of connections that
\* fail leaves it accepted and unserved in another way.
THEOREM AcceptedAreServed == SenderSpec => []AcceptedIsServed
<1>1. SenderTypeOK /\ ServedInv => AcceptedIsServed
  BY DEF ServedInv, AcceptedIsServed, Live, HasLink, Dead, Owed, Owes, SessionsOf
<1>. QED BY <1>1, ServedInit, ServedNext, SenderTypeInit, SenderTypeNext, PTL DEF SenderSpec

-----------------------------------------------------------------------------
(* The dialog lists whom the server holds.                                 *)

\* Item x is in sequence s; at most once; and y only after it.
At(s, x) == \E i \in DOMAIN s : s[i] = x
Once(s, x) == \A i, j \in DOMAIN s : s[i] = x /\ s[j] = x => i = j
OnlyAfter(s, x, y) == \A i, j \in DOMAIN s : s[i] = x /\ s[j] = y => i < j

\* The news of peer p on its way from the server to the dialog: it arrives,
\* then it leaves.
Arrival(p) == [msg |-> "pending", peer |-> p]
Departure(p) == [msg |-> "peer_gone", peer |-> p]
ShowArrival(p) == [event |-> "pending", peer |-> p]
ShowDeparture(p) == [event |-> "gone", peer |-> p]
RejectOf(p) == [msg |-> "reject", peer |-> p]

\* Where the arrival of p can be: in the socket, with the thread that tells the
\* dialog, queued to the dialog, in its list.
Coming(p) == At(inbox, Arrival(p))
Telling(p) == At(todo["ws"], Call("pending", p))
Showing(p) == At(posted, ShowArrival(p))
Listing(p) == RowsOf(p) # {}
HasCome(p) == Coming(p) \/ Telling(p) \/ Showing(p) \/ Listing(p)

\* Where a departure of p can be.
Going(p) == At(inbox, Departure(p))
TellingGone(t, p) == At(todo[t], Call("gone", p))
ShowingGone(p) == At(posted, ShowDeparture(p))
IsGoing(p) == Going(p) \/ TellingGone("ws", p) \/ TellingGone("qt", p) \/ ShowingGone(p)

\* The server is still to hear that p is rejected.
Rejecting(p) == At(todo["qt"], Call("reject", p)) \/ At(outbox, RejectOf(p))

\* The server holds p and has no reason to let it go.
Present(p) == room[p] \in {"waiting", "admitted"} /\ ~Rejecting(p)

\* No place has the arrival twice, or after a departure.
InboxInOrder(p) == Once(inbox, Arrival(p)) /\ OnlyAfter(inbox, Arrival(p), Departure(p))
CallsInOrder(p) ==
    /\ Once(todo["ws"], Call("pending", p))
    /\ ~At(todo["qt"], Call("pending", p)) /\ ~At(todo["ws"], Call("reject", p))
PostedInOrder(p) ==
    Once(posted, ShowArrival(p)) /\ OnlyAfter(posted, ShowArrival(p), ShowDeparture(p))
RowsInOrder(p) == \A i, j \in RowsOf(p) : i = j

\* The arrival is in one place, and no departure is ahead of it.
InTurn(p) ==
    /\ Coming(p) => ~Telling(p)
    /\ Coming(p) \/ Telling(p) => ~Showing(p) /\ ~TellingGone("ws", p) /\ ~ShowingGone(p)
    /\ Coming(p) \/ Telling(p) \/ Showing(p) => ~Listing(p) /\ ~TellingGone("qt", p)

\* The peers that came and are not going are those the server holds; of one it
\* never saw there is no trace.
InStep(p) ==
    /\ Present(p) <=> HasCome(p) /\ ~IsGoing(p)
    /\ room[p] = "out" => ~HasCome(p) /\ ~IsGoing(p) /\ ~Rejecting(p)

Followed(p) ==
    /\ InboxInOrder(p) /\ CallsInOrder(p) /\ PostedInOrder(p) /\ RowsInOrder(p)
    /\ InTurn(p) /\ InStep(p)

\* Inductive: RowsMatchRoom speaks of the moments when nothing is under way;
\* what is under way must add up at every other one.
RowsInv ==
    phase = "running" /\ online =>
        /\ \A i \in DOMAIN outbox : outbox[i].msg # "revoke"
        /\ \A p \in Peers : Followed(p)

LEMMA RowsInit == SenderInit => RowsInv
  BY DEF SenderInit, RowsInv, Followed, InboxInOrder, CallsInOrder, PostedInOrder, RowsInOrder,
         InTurn, InStep, Present, Rejecting, HasCome, IsGoing, Coming, Telling, Showing, Listing,
         Going, TellingGone, ShowingGone, At, Once, OnlyAfter, RowsOf, Threads

\* An item at the end of a queue.
LEMMA QueueAppend ==
  ASSUME NEW S, NEW s \in Seq(S), NEW e \in S
  PROVE  /\ \A x : At(Append(s, e), x) <=> At(s, x) \/ e = x
         /\ \A x : Once(s, x) /\ (e = x => ~At(s, x)) => Once(Append(s, e), x)
         /\ \A x, y : OnlyAfter(s, x, y) /\ x # y /\ (e = x => ~At(s, y))
                          => OnlyAfter(Append(s, e), x, y)
<1>. DEFINE r == Append(s, e)
<1>1. /\ DOMAIN r = 1 .. Len(s) + 1 /\ DOMAIN s = 1 .. Len(s) /\ Len(s) \in Nat
      /\ \A i \in 1 .. Len(s) : r[i] = s[i]
      /\ r[Len(s) + 1] = e
  OBVIOUS
<1>. HIDE DEF r
<1>2. ASSUME NEW x PROVE At(r, x) <=> At(s, x) \/ e = x
  BY <1>1 DEF At
<1>3. ASSUME NEW x, Once(s, x), e = x => ~At(s, x) PROVE Once(r, x)
  BY <1>1, <1>3 DEF At, Once
<1>4. ASSUME NEW x, NEW y, OnlyAfter(s, x, y), x # y, e = x => ~At(s, y)
      PROVE  OnlyAfter(r, x, y)
  BY <1>1, <1>4 DEF At, OnlyAfter
<1>. QED BY <1>2, <1>3, <1>4 DEF r

\* The first item leaves a queue.
LEMMA QueueTail ==
  ASSUME NEW S, NEW s \in Seq(S), s # <<>>
  PROVE  /\ \A x : At(s, x) <=> At(Tail(s), x) \/ Head(s) = x
         /\ \A x : Once(s, x) => Once(Tail(s), x) /\ (Head(s) = x => ~At(Tail(s), x))
         /\ \A x, y : OnlyAfter(s, x, y) =>
                /\ OnlyAfter(Tail(s), x, y)
                /\ Head(s) = y => ~At(s, x)
<1>. DEFINE r == Tail(s)
<1>1. /\ DOMAIN s = 1 .. Len(s) /\ Len(s) \in Nat \ {0} /\ DOMAIN r = 1 .. Len(s) - 1
      /\ \A i \in 1 .. Len(s) - 1 : r[i] = s[i + 1]
      /\ Head(s) = s[1]
  BY HeadTailProperties
<1>2. /\ \A i \in DOMAIN s : i = 1 \/ (i - 1 \in DOMAIN r /\ r[i - 1] = s[i])
      /\ \A i \in DOMAIN r : i + 1 \in DOMAIN s /\ s[i + 1] = r[i] /\ i + 1 # 1 /\ i \in Int
      /\ 1 \in DOMAIN s /\ \A i \in DOMAIN s : ~(i < 1)
  BY <1>1
<1>. HIDE DEF r
<1>3. ASSUME NEW x PROVE At(s, x) <=> At(r, x) \/ Head(s) = x
  BY <1>1, <1>2 DEF At
<1>4. ASSUME NEW x, Once(s, x) PROVE Once(r, x) /\ (Head(s) = x => ~At(r, x))
  <2>1. ASSUME NEW i \in DOMAIN r, NEW j \in DOMAIN r, r[i] = x, r[j] = x PROVE i = j
    <3>1. i + 1 = j + 1
      BY <1>2, <1>4, <2>1 DEF Once
    <3>. QED BY <1>2, <3>1
  <2>2. ASSUME Head(s) = x, NEW i \in DOMAIN r, r[i] = x PROVE FALSE
    <3>1. i + 1 = 1
      BY <1>1, <1>2, <1>4, <2>2 DEF Once
    <3>. QED BY <1>2, <3>1
  <2>. QED BY <2>1, <2>2 DEF Once, At
<1>5. ASSUME NEW x, NEW y, OnlyAfter(s, x, y)
      PROVE  OnlyAfter(r, x, y) /\ (Head(s) = y => ~At(s, x))
  <2>1. ASSUME NEW i \in DOMAIN r, NEW j \in DOMAIN r, r[i] = x, r[j] = y PROVE i < j
    <3>1. i + 1 < j + 1
      BY <1>2, <1>5, <2>1 DEF OnlyAfter
    <3>. QED BY <1>2, <3>1
  <2>2. ASSUME Head(s) = y, NEW i \in DOMAIN s, s[i] = x PROVE FALSE
    BY <1>1, <1>2, <1>5, <2>2 DEF OnlyAfter
  <2>. QED BY <2>1, <2>2 DEF OnlyAfter, At
<1>. QED BY <1>3, <1>4, <1>5 DEF r

\* The places, in the next state.
LEMMA NextPlaces ==
  ASSUME NEW p
  PROVE  /\ Coming(p)' <=> At(inbox', Arrival(p))
         /\ Going(p)' <=> At(inbox', Departure(p))
         /\ Telling(p)' <=> At(todo'["ws"], Call("pending", p))
         /\ \A t \in Threads : TellingGone(t, p)' <=> At(todo'[t], Call("gone", p))
         /\ Showing(p)' <=> At(posted', ShowArrival(p))
         /\ ShowingGone(p)' <=> At(posted', ShowDeparture(p))
         /\ Rejecting(p)' <=> \/ At(todo'["qt"], Call("reject", p))
                              \/ At(outbox', RejectOf(p))
         /\ InboxInOrder(p)' <=> /\ Once(inbox', Arrival(p))
                                 /\ OnlyAfter(inbox', Arrival(p), Departure(p))
         /\ CallsInOrder(p)' <=> /\ Once(todo'["ws"], Call("pending", p))
                                 /\ ~At(todo'["qt"], Call("pending", p))
                                 /\ ~At(todo'["ws"], Call("reject", p))
         /\ PostedInOrder(p)' <=> /\ Once(posted', ShowArrival(p))
                                  /\ OnlyAfter(posted', ShowArrival(p), ShowDeparture(p))
<1>1. /\ Coming(p)' <=> At(inbox', Arrival(p))
      /\ Going(p)' <=> At(inbox', Departure(p))
  BY DEF Coming, Going, At, Arrival, Departure
<1>2. /\ Telling(p)' <=> At(todo'["ws"], Call("pending", p))
      /\ \A t \in Threads : TellingGone(t, p)' <=> At(todo'[t], Call("gone", p))
  BY DEF Telling, TellingGone, At, Call
<1>3. /\ Showing(p)' <=> At(posted', ShowArrival(p))
      /\ ShowingGone(p)' <=> At(posted', ShowDeparture(p))
  BY DEF Showing, ShowingGone, At, ShowArrival, ShowDeparture
<1>4. Rejecting(p)' <=> \/ At(todo'["qt"], Call("reject", p))
                        \/ At(outbox', RejectOf(p))
  BY DEF Rejecting, At, Call, RejectOf
<1>5. InboxInOrder(p)' <=> /\ Once(inbox', Arrival(p))
                           /\ OnlyAfter(inbox', Arrival(p), Departure(p))
  BY DEF InboxInOrder, Once, OnlyAfter, Arrival, Departure
<1>6. CallsInOrder(p)' <=> /\ Once(todo'["ws"], Call("pending", p))
                           /\ ~At(todo'["qt"], Call("pending", p))
                           /\ ~At(todo'["ws"], Call("reject", p))
  BY DEF CallsInOrder, Once, At, Call
<1>7. PostedInOrder(p)' <=> /\ Once(posted', ShowArrival(p))
                            /\ OnlyAfter(posted', ShowArrival(p), ShowDeparture(p))
  BY DEF PostedInOrder, Once, OnlyAfter, ShowArrival, ShowDeparture
<1>. QED BY <1>1, <1>2, <1>3, <1>4, <1>5, <1>6, <1>7

\* A step may leave a place as it is for p.
SameInbox(p) ==
    (Coming(p)' <=> Coming(p)) /\ (Going(p)' <=> Going(p)) /\ (InboxInOrder(p) => InboxInOrder(p)')
SameTold(p) ==
    /\ Telling(p)' <=> Telling(p)
    /\ TellingGone("ws", p)' <=> TellingGone("ws", p)
    /\ TellingGone("qt", p)' <=> TellingGone("qt", p)
    /\ CallsInOrder(p) => CallsInOrder(p)'
SameCalls(p) ==
    /\ SameTold(p)
    /\ At(todo'["qt"], Call("reject", p)) <=> At(todo["qt"], Call("reject", p))
SamePosted(p) ==
    /\ Showing(p)' <=> Showing(p)
    /\ ShowingGone(p)' <=> ShowingGone(p)
    /\ PostedInOrder(p) => PostedInOrder(p)'
SameRows(p) == (Listing(p)' <=> Listing(p)) /\ (RowsInOrder(p) => RowsInOrder(p)')

LEMMA Untouched ==
  ASSUME NEW p
  PROVE  /\ UNCHANGED inbox => SameInbox(p)
         /\ UNCHANGED todo => SameCalls(p)
         /\ UNCHANGED posted => SamePosted(p)
         /\ UNCHANGED rows => SameRows(p)
<1>1. UNCHANGED inbox => SameInbox(p)
  BY NextPlaces DEF SameInbox, Coming, Going, InboxInOrder
<1>2. UNCHANGED todo => SameCalls(p)
  BY DEF SameCalls, SameTold, Telling, TellingGone, CallsInOrder, At, Once, Call
<1>3. UNCHANGED posted => SamePosted(p)
  BY NextPlaces DEF SamePosted, Showing, ShowingGone, PostedInOrder
<1>4. UNCHANGED rows => SameRows(p)
  BY DEF SameRows, Listing, RowsInOrder, RowsOf
<1>. QED BY <1>1, <1>2, <1>3, <1>4

\* What comes over the socket.
LEMMA InboxGets ==
  ASSUME SenderTypeOK, NEW m \in {"pending", "answer", "peer_gone"}, NEW q \in Peers,
         inbox' = Append(inbox, [msg |-> m, peer |-> q]), NEW p
  PROVE  /\ Coming(p)' <=> Coming(p) \/ (m = "pending" /\ q = p)
         /\ Going(p)' <=> Going(p) \/ (m = "peer_gone" /\ q = p)
         /\ InboxInOrder(p) /\ (m = "pending" /\ q = p => ~Coming(p) /\ ~Going(p))
                => InboxInOrder(p)'
<1>. DEFINE e == [msg |-> m, peer |-> q]
<1>1. inbox \in Seq(Received) /\ e \in Received
  BY DEF SenderTypeOK, Received
<1>2. /\ e = Arrival(p) <=> m = "pending" /\ q = p
      /\ e = Departure(p) <=> m = "peer_gone" /\ q = p
      /\ Arrival(p) # Departure(p)
  BY DEF Arrival, Departure
<1>. HIDE DEF e
<1>3. /\ \A x : At(inbox', x) <=> At(inbox, x) \/ e = x
      /\ \A x : Once(inbox, x) /\ (e = x => ~At(inbox, x)) => Once(inbox', x)
      /\ \A x, y : OnlyAfter(inbox, x, y) /\ x # y /\ (e = x => ~At(inbox, y))
                       => OnlyAfter(inbox', x, y)
  BY <1>1, QueueAppend DEF e
<1>4. Coming(p)' <=> Coming(p) \/ (m = "pending" /\ q = p)
  BY <1>2, <1>3, NextPlaces DEF Coming
<1>5. Going(p)' <=> Going(p) \/ (m = "peer_gone" /\ q = p)
  BY <1>2, <1>3, NextPlaces DEF Going
<1>6. InboxInOrder(p) /\ (m = "pending" /\ q = p => ~Coming(p) /\ ~Going(p))
        => InboxInOrder(p)'
  BY <1>2, <1>3, NextPlaces DEF InboxInOrder, Coming, Going
<1>. QED BY <1>4, <1>5, <1>6

\* What the sender takes from the socket.
LEMMA InboxTaken ==
  ASSUME SenderTypeOK, inbox # <<>>, inbox' = Tail(inbox), NEW p
  PROVE  /\ Coming(p) <=> Coming(p)' \/ Head(inbox) = Arrival(p)
         /\ Going(p) <=> Going(p)' \/ Head(inbox) = Departure(p)
         /\ InboxInOrder(p) => /\ InboxInOrder(p)'
                               /\ Head(inbox) = Arrival(p) => ~Coming(p)'
                               /\ Head(inbox) = Departure(p) => ~Coming(p)
<1>1. inbox \in Seq(Received)
  BY DEF SenderTypeOK
<1>2. /\ \A x : At(inbox, x) <=> At(inbox', x) \/ Head(inbox) = x
      /\ \A x : Once(inbox, x) => Once(inbox', x) /\ (Head(inbox) = x => ~At(inbox', x))
      /\ \A x, y : OnlyAfter(inbox, x, y) =>
             OnlyAfter(inbox', x, y) /\ (Head(inbox) = y => ~At(inbox, x))
  BY <1>1, QueueTail
<1>. QED BY <1>2, NextPlaces DEF Coming, Going, InboxInOrder

\* What is queued to the dialog.
LEMMA PostedGets ==
  ASSUME SenderTypeOK, NEW m \in Shown \cup {"pending", "gone"}, NEW q \in Peers,
         posted' = Append(posted, [event |-> m, peer |-> q]), NEW p
  PROVE  /\ Showing(p)' <=> Showing(p) \/ (m = "pending" /\ q = p)
         /\ ShowingGone(p)' <=> ShowingGone(p) \/ (m = "gone" /\ q = p)
         /\ PostedInOrder(p) /\ (m = "pending" /\ q = p => ~Showing(p) /\ ~ShowingGone(p))
                => PostedInOrder(p)'
<1>. DEFINE e == [event |-> m, peer |-> q]
<1>1. posted \in Seq(Events) /\ e \in Events
  BY DEF SenderTypeOK, Events
<1>2. /\ e = ShowArrival(p) <=> m = "pending" /\ q = p
      /\ e = ShowDeparture(p) <=> m = "gone" /\ q = p
      /\ ShowArrival(p) # ShowDeparture(p)
  BY DEF ShowArrival, ShowDeparture
<1>. HIDE DEF e
<1>3. /\ \A x : At(posted', x) <=> At(posted, x) \/ e = x
      /\ \A x : Once(posted, x) /\ (e = x => ~At(posted, x)) => Once(posted', x)
      /\ \A x, y : OnlyAfter(posted, x, y) /\ x # y /\ (e = x => ~At(posted, y))
                       => OnlyAfter(posted', x, y)
  BY <1>1, QueueAppend DEF e
<1>4. Showing(p)' <=> Showing(p) \/ (m = "pending" /\ q = p)
  BY <1>2, <1>3, NextPlaces DEF Showing
<1>5. ShowingGone(p)' <=> ShowingGone(p) \/ (m = "gone" /\ q = p)
  BY <1>2, <1>3, NextPlaces DEF ShowingGone
<1>6. PostedInOrder(p) /\ (m = "pending" /\ q = p => ~Showing(p) /\ ~ShowingGone(p))
        => PostedInOrder(p)'
  BY <1>2, <1>3, NextPlaces DEF PostedInOrder, Showing, ShowingGone
<1>. QED BY <1>4, <1>5, <1>6

\* What the dialog takes.
LEMMA PostedTaken ==
  ASSUME SenderTypeOK, posted # <<>>, posted' = Tail(posted), NEW p
  PROVE  /\ Showing(p) <=> Showing(p)' \/ Head(posted) = ShowArrival(p)
         /\ ShowingGone(p) <=> ShowingGone(p)' \/ Head(posted) = ShowDeparture(p)
         /\ PostedInOrder(p) => /\ PostedInOrder(p)'
                                /\ Head(posted) = ShowArrival(p) => ~Showing(p)'
                                /\ Head(posted) = ShowDeparture(p) => ~Showing(p)
<1>1. posted \in Seq(Events)
  BY DEF SenderTypeOK
<1>2. /\ \A x : At(posted, x) <=> At(posted', x) \/ Head(posted) = x
      /\ \A x : Once(posted, x) => Once(posted', x) /\ (Head(posted) = x => ~At(posted', x))
      /\ \A x, y : OnlyAfter(posted, x, y) =>
             OnlyAfter(posted', x, y) /\ (Head(posted) = y => ~At(posted, x))
  BY <1>1, QueueTail
<1>. QED BY <1>2, NextPlaces DEF Showing, ShowingGone, PostedInOrder

\* The calls of a thread that starts, and of one that makes a call.
LEMMA CallsStarted ==
  ASSUME SenderTypeOK, NEW t \in Threads, NEW calls, Start(t, calls)
  PROVE  /\ todo'[t] = calls
         /\ \A x : ~At(todo[t], x)
         /\ \A u \in Threads \ {t} : todo'[u] = todo[u]
  BY DEF Start, Idle, At, SenderTypeOK

LEMMA CallsMade ==
  ASSUME SenderTypeOK, NEW t \in Threads, ~Idle(t), Proceed(t)
  PROVE  /\ \A x : At(todo[t], x) <=> At(todo'[t], x) \/ Next1(t) = x
         /\ \A x : Once(todo[t], x) =>
                Once(todo'[t], x) /\ (Next1(t) = x => ~At(todo'[t], x))
         /\ \A u \in Threads \ {t} : todo'[u] = todo[u]
<1>1. /\ todo[t] \in Seq(Calls) /\ todo[t] # <<>>
      /\ todo'[t] = Tail(todo[t]) /\ Next1(t) = Head(todo[t])
      /\ \A u \in Threads \ {t} : todo'[u] = todo[u]
  BY DEF Idle, Proceed, Next1, SenderTypeOK
<1>. QED BY <1>1, QueueTail

\* A call that is not about the dialog's list leaves what is to be told.
LEMMA OtherCallMade ==
  ASSUME SenderTypeOK, NEW t \in Threads, ~Idle(t), Proceed(t),
         Next1(t).call \notin {"pending", "gone", "reject"}, NEW p
  PROVE  SameCalls(p)
<1>1. /\ Next1(t) # Call("pending", p) /\ Next1(t) # Call("gone", p)
      /\ Next1(t) # Call("reject", p)
  BY DEF Call
<1>2. \A u \in Threads : \A x \in {Call("pending", p), Call("gone", p), Call("reject", p)} :
          (At(todo'[u], x) <=> At(todo[u], x)) /\ (Once(todo[u], x) => Once(todo'[u], x))
  <2>. SUFFICES ASSUME NEW u \in Threads,
                       NEW x \in {Call("pending", p), Call("gone", p), Call("reject", p)}
                PROVE  (At(todo'[u], x) <=> At(todo[u], x)) /\ (Once(todo[u], x) => Once(todo'[u], x))
    OBVIOUS
  <2>1. u # t => todo'[u] = todo[u]
    BY CallsMade
  <2>2. /\ At(todo[t], x) <=> At(todo'[t], x) \/ Next1(t) = x
        /\ Once(todo[t], x) => Once(todo'[t], x)
    BY CallsMade
  <2>. QED BY <1>1, <2>1, <2>2
<1>3. "qt" \in Threads /\ "ws" \in Threads
  BY DEF Threads
<1>. QED BY <1>2, <1>3, NextPlaces DEF SameCalls, SameTold, Telling, TellingGone, CallsInOrder

\* Creating a session leaves it too.
LEMMA OtherCallReplaced ==
  ASSUME SenderTypeOK, NEW t \in Threads, CallCreate(t), NEW p
  PROVE  SameCalls(p)
<1>1. /\ \A u \in Threads \ {t} : todo'[u] = todo[u]
      /\ 1 \in DOMAIN todo[t] /\ todo[t][1] = Next1(t)
      /\ DOMAIN todo'[t] = DOMAIN todo[t]
      /\ todo'[t][1].call = "negotiate"
      /\ \A k \in DOMAIN todo[t] : k = 1 \/ todo'[t][k] = todo[t][k]
  BY CreateKeeps
<1>2. Next1(t).call = "create"
  BY DEF CallCreate, Calling
<1>3. ASSUME NEW u \in Threads,
             NEW x \in {Call("pending", p), Call("gone", p), Call("reject", p)}
      PROVE  (At(todo'[u], x) <=> At(todo[u], x)) /\ (Once(todo[u], x) => Once(todo'[u], x))
  <2>1. CASE u # t
    BY <1>1, <2>1
  <2>2. CASE u = t
    <3>1. x.call \in {"pending", "gone", "reject"}
      BY DEF Call
    <3>2. todo[t][1] # x /\ todo'[t][1] # x
      BY <1>1, <1>2, <3>1
    <3>3. \A k \in DOMAIN todo[t] : todo'[t][k] = x <=> todo[t][k] = x
      BY <1>1, <3>2
    <3>. QED BY <1>1, <2>2, <3>3 DEF At, Once
  <2>. QED BY <2>1, <2>2
<1>4. "qt" \in Threads /\ "ws" \in Threads
  BY DEF Threads
<1>. QED BY <1>3, <1>4, NextPlaces DEF SameCalls, SameTold, Telling, TellingGone, CallsInOrder

\* The rows of the dialog: one more, one shown otherwise, one less.
LEMMA RowsGet ==
  ASSUME SenderTypeOK, NEW q \in Peers, rows' = Append(rows, [peer |-> q, shown |-> "waiting"]),
         NEW p
  PROVE  /\ Listing(p)' <=> Listing(p) \/ q = p
         /\ RowsInOrder(p) /\ (q = p => ~Listing(p)) => RowsInOrder(p)'
<1>. DEFINE e == [peer |-> q, shown |-> "waiting"]
<1>1. rows \in Seq(Rows) /\ e \in Rows /\ e.peer = q
  BY DEF SenderTypeOK, Rows, Shown
<1>. HIDE DEF e
<1>2. /\ DOMAIN rows' = 1 .. Len(rows) + 1 /\ DOMAIN rows = 1 .. Len(rows) /\ Len(rows) \in Nat
      /\ \A i \in 1 .. Len(rows) : rows'[i] = rows[i]
      /\ rows'[Len(rows) + 1] = e
  BY <1>1 DEF e
<1>. QED BY <1>1, <1>2 DEF Listing, RowsInOrder, RowsOf

LEMMA RowsShown ==
  ASSUME SenderTypeOK, NEW i \in DOMAIN rows, NEW e \in Shown,
         rows' = [rows EXCEPT ![i].shown = e], NEW p
  PROVE  SameRows(p)
<1>1. rows \in Seq(Rows) /\ rows[i] \in Rows
  BY DEF SenderTypeOK
<1>2. DOMAIN rows' = DOMAIN rows /\ \A j \in DOMAIN rows : rows'[j].peer = rows[j].peer
  BY <1>1 DEF Rows
<1>. QED BY <1>2 DEF SameRows, Listing, RowsInOrder, RowsOf

LEMMA RowsLose ==
  ASSUME SenderTypeOK, NEW i \in DOMAIN rows, rows' = RemoveAt(rows, i), NEW p
  PROVE  /\ rows[i].peer # p => SameRows(p)
         /\ rows[i].peer = p /\ RowsInOrder(p) => ~Listing(p)' /\ RowsInOrder(p)'
<1>. DEFINE a == SubSeq(rows, 1, i - 1)
            b == SubSeq(rows, i + 1, Len(rows))
<1>1. rows \in Seq(Rows) /\ i \in 1 .. Len(rows) /\ Len(rows) \in Nat
  BY DEF SenderTypeOK
<1>2. /\ a \in Seq(Rows) /\ Len(a) = i - 1
      /\ \A k \in 1 .. i - 1 : a[k] = rows[k]
  BY <1>1
<1>3. /\ b \in Seq(Rows) /\ Len(b) = Len(rows) - i
      /\ \A k \in 1 .. Len(rows) - i : b[k] = rows[k + i]
  <2>1. b \in Seq(Rows)
    BY <1>1
  <2>2. Len(b) = Len(rows) - i
    BY <1>1
  <2>3. \A k \in 1 .. Len(rows) - (i + 1) + 1 : b[k] = rows[(i + 1) + k - 1]
    <3>1. i + 1 \in Int /\ Len(rows) \in Int /\ \A k \in i + 1 .. Len(rows) : rows[k] \in Rows
      BY <1>1
    <3>. QED BY ONLY <3>1, SubSeqProperties
  <2>4. \A k \in 1 .. Len(rows) - i : (i + 1) + k - 1 = k + i
    BY <1>1
  <2>5. Len(rows) - (i + 1) + 1 = Len(rows) - i
    BY <1>1
  <2>. QED BY <2>1, <2>2, <2>3, <2>4, <2>5
<1>. HIDE DEF a, b
<1>4. /\ a \o b \in Seq(Rows)
      /\ Len(a \o b) = Len(a) + Len(b)
      /\ \A k \in 1 .. Len(a) + Len(b) :
            (a \o b)[k] = IF k <= Len(a) THEN a[k] ELSE b[k - Len(a)]
  BY <1>2, <1>3, ConcatProperties
<1>5. rows' = a \o b
  BY DEF RemoveAt, a, b
<1>6. /\ DOMAIN rows' = 1 .. Len(rows) - 1
      /\ \A k \in 1 .. Len(rows) - 1 : rows'[k] = IF k < i THEN rows[k] ELSE rows[k + 1]
  <2>1. Len(a) + Len(b) = Len(rows) - 1
    BY <1>1, <1>2, <1>3
  <2>2. DOMAIN rows' = 1 .. Len(rows) - 1
    BY <1>4, <1>5, <2>1
  <2>3. ASSUME NEW k \in 1 .. Len(rows) - 1
        PROVE  rows'[k] = IF k < i THEN rows[k] ELSE rows[k + 1]
    <3>1. CASE k < i
      <4>1. k <= Len(a) /\ k \in 1 .. i - 1
        BY <1>1, <1>2, <3>1
      <4>. QED BY <1>2, <1>4, <1>5, <2>1, <3>1, <4>1
    <3>2. CASE ~(k < i)
      <4>1. Len(a) = i - 1 /\ i \in Int /\ k \in Int /\ Len(rows) \in Int /\ k <= Len(rows) - 1
        BY <1>1, <1>2
      <4>2. /\ ~(k <= i - 1) /\ k - (i - 1) \in 1 .. Len(rows) - i
            /\ (k - (i - 1)) + i = k + 1
        BY <3>2, <4>1
      <4>3. ~(k <= Len(a)) /\ k - Len(a) \in 1 .. Len(rows) - i /\ (k - Len(a)) + i = k + 1
        BY <4>1, <4>2
      <4>. QED BY <1>3, <1>4, <1>5, <2>1, <3>2, <4>3
    <3>. QED BY <3>1, <3>2
  <2>. QED BY <2>2, <2>3
<1>7. /\ \A k \in DOMAIN rows' : \E j \in DOMAIN rows :
            rows'[k] = rows[j] /\ j # i /\ j = IF k < i THEN k ELSE k + 1
      /\ \A j \in DOMAIN rows : j # i => \E k \in DOMAIN rows' : rows'[k] = rows[j]
  <2>1. ASSUME NEW k \in DOMAIN rows'
        PROVE  \E j \in DOMAIN rows :
                  rows'[k] = rows[j] /\ j # i /\ j = IF k < i THEN k ELSE k + 1
    BY <1>1, <1>6
  <2>2. ASSUME NEW j \in DOMAIN rows, j # i PROVE \E k \in DOMAIN rows' : rows'[k] = rows[j]
    <3>1. CASE j < i
      <4>1. j \in 1 .. Len(rows) - 1
        BY <1>1, <3>1
      <4>. QED BY ONLY <1>6, <3>1, <4>1
    <3>2. CASE j > i
      <4>1. j - 1 \in 1 .. Len(rows) - 1 /\ ~(j - 1 < i) /\ (j - 1) + 1 = j
        BY <1>1, <3>2
      <4>. QED BY ONLY <1>6, <4>1
    <3>. QED BY <1>1, <2>2, <3>1, <3>2
  <2>. QED BY <2>1, <2>2
<1>8. ASSUME RowsInOrder(p) PROVE RowsInOrder(p)'
  <2>. SUFFICES ASSUME NEW k \in DOMAIN rows', NEW l \in DOMAIN rows',
                       rows'[k].peer = p, rows'[l].peer = p
                PROVE  k = l
    BY DEF RowsInOrder, RowsOf
  <2>1. PICK j \in DOMAIN rows : rows'[k] = rows[j] /\ j = IF k < i THEN k ELSE k + 1
    BY <1>7
  <2>2. PICK m \in DOMAIN rows : rows'[l] = rows[m] /\ m = IF l < i THEN l ELSE l + 1
    BY <1>7
  <2>3. j = m
    BY <1>8, <2>1, <2>2 DEF RowsInOrder, RowsOf
  <2>4. k \in Int /\ l \in Int /\ i \in Int
    BY <1>1, <1>6
  <2>. QED BY <2>1, <2>2, <2>3, <2>4
<1>9. rows[i].peer # p => (Listing(p)' <=> Listing(p))
  BY <1>7 DEF Listing, RowsOf
<1>10. rows[i].peer = p /\ RowsInOrder(p) => ~Listing(p)'
  BY <1>7 DEF Listing, RowsInOrder, RowsOf
<1>. QED BY <1>8, <1>9, <1>10 DEF SameRows

\* A step that leaves every place of p as it is, and the server's view of p,
\* keeps p followed.
LEMMA FollowedSame ==
  ASSUME NEW p \in Peers, Followed(p),
         SameInbox(p), SameTold(p), SamePosted(p), SameRows(p),
         Rejecting(p)' <=> Rejecting(p),
         room'[p] \in {"waiting", "admitted"} <=> room[p] \in {"waiting", "admitted"},
         room'[p] = "out" => room[p] = "out"
  PROVE  Followed(p)'
  BY DEF Followed, InTurn, InStep, HasCome, IsGoing, Present,
         SameInbox, SameTold, SamePosted, SameRows

LEMMA RejectingSame ==
  ASSUME NEW p, SameCalls(p), At(outbox', RejectOf(p)) <=> At(outbox, RejectOf(p))
  PROVE  Rejecting(p)' <=> Rejecting(p)
  BY NextPlaces DEF Rejecting, SameCalls

\* The receivers: one that knocks is held by the server and comes; one that
\* leaves goes.
LEMMA FollowedPeer ==
  ASSUME SenderTypeOK, online, NEW q \in Peers, Knock(q) \/ Leave(q),
         NEW p \in Peers, Followed(p)
  PROVE  Followed(p)'
<1>0. room \in [Peers -> {"out", "waiting", "admitted", "gone"}]
  BY DEF SenderTypeOK
<1>1. UNCHANGED <<todo, outbox, posted, rows>>
  BY DEF Knock, Leave, dialogVars
<1>2. SameCalls(p) /\ SameTold(p) /\ SamePosted(p) /\ SameRows(p)
  BY <1>1, Untouched DEF SameCalls
<1>3. Rejecting(p)' <=> Rejecting(p)
  BY <1>1, <1>2, RejectingSame
<1>4. CASE Knock(q)
  <2>1. /\ room[q] = "out" /\ room' = [room EXCEPT ![q] = "waiting"]
        /\ inbox' = Append(inbox, [msg |-> "pending", peer |-> q])
    BY <1>4 DEF Knock, ToSender
  <2>2. /\ Coming(p)' <=> Coming(p) \/ q = p
        /\ Going(p)' <=> Going(p)
        /\ InboxInOrder(p) /\ (q = p => ~Coming(p) /\ ~Going(p)) => InboxInOrder(p)'
    BY <2>1, InboxGets
  <2>3. q # p => SameInbox(p) /\ room'[p] = room[p]
    BY <1>0, <2>1, <2>2 DEF SameInbox
  <2>4. q = p => room'[p] = "waiting"
    BY <1>0, <2>1
  <2>5. CASE q # p
    BY <1>2, <1>3, <2>3, <2>5, FollowedSame
  <2>6. CASE q = p
    BY <1>2, <1>3, <2>1, <2>2, <2>4, <2>6
       DEF Followed, InTurn, InStep, HasCome, IsGoing, Present, SameTold, SamePosted, SameRows
  <2>. QED BY <2>5, <2>6
<1>5. CASE Leave(q)
  <2>1. /\ room[q] \in {"waiting", "admitted"} /\ room' = [room EXCEPT ![q] = "gone"]
        /\ inbox' = Append(inbox, [msg |-> "peer_gone", peer |-> q])
    BY <1>5 DEF Leave, ToSender
  <2>2. /\ Coming(p)' <=> Coming(p)
        /\ Going(p)' <=> Going(p) \/ q = p
        /\ InboxInOrder(p) => InboxInOrder(p)'
    BY <2>1, InboxGets
  <2>3. q # p => SameInbox(p) /\ room'[p] = room[p]
    BY <1>0, <2>1, <2>2 DEF SameInbox
  <2>4. q = p => room'[p] = "gone"
    BY <1>0, <2>1
  <2>5. CASE q # p
    BY <1>2, <1>3, <2>3, <2>5, FollowedSame
  <2>6. CASE q = p
    BY <1>2, <1>3, <2>1, <2>2, <2>4, <2>6
       DEF Followed, InTurn, InStep, HasCome, IsGoing, Present, SameTold, SamePosted, SameRows
  <2>. QED BY <2>5, <2>6
<1>. QED BY <1>4, <1>5

\* The server takes a message: a rejected peer is let go when the reject gets
\* there, and until then it is no longer present.
LEMMA FollowedServer ==
  ASSUME SenderTypeOK, online, ServerTakes, \A i \in DOMAIN outbox : outbox[i].msg # "revoke",
         NEW p \in Peers, Followed(p)
  PROVE  Followed(p)'
<1>. DEFINE m == Head(outbox)
<1>0. /\ room \in [Peers -> {"out", "waiting", "admitted", "gone"}]
      /\ outbox \in Seq(Sent) /\ outbox # <<>> /\ outbox' = Tail(outbox)
      /\ m \in Sent /\ m = outbox[1] /\ 1 \in DOMAIN outbox
  BY DEF SenderTypeOK, ServerTakes
<1>1. UNCHANGED <<todo, posted, rows>> /\ m.msg # "revoke"
  BY <1>0 DEF ServerTakes, dialogVars
<1>2. SameCalls(p) /\ SameTold(p) /\ SamePosted(p) /\ SameRows(p)
  BY <1>1, Untouched DEF SameCalls
<1>3. At(outbox, RejectOf(p)) <=> At(outbox', RejectOf(p)) \/ m = RejectOf(p)
  BY <1>0, QueueTail
<1>4. SameInbox(p)
  <2>1. UNCHANGED inbox \/ (m.msg = "offer" /\ ToSender("answer", m.peer))
    BY DEF ServerTakes
  <2>2. CASE UNCHANGED inbox
    BY <2>2, Untouched
  <2>3. CASE m.msg = "offer" /\ ToSender("answer", m.peer)
    <3>1. m.peer \in Peers
      BY <1>0, <2>3 DEF Sent
    <3>2. inbox' = Append(inbox, [msg |-> "answer", peer |-> m.peer])
      BY <2>3 DEF ToSender
    <3>. QED BY <3>1, <3>2, InboxGets DEF SameInbox
  <2>. QED BY <2>1, <2>2, <2>3
<1>5. CASE m = RejectOf(p)
  <2>1. Rejecting(p)
    BY <1>3, <1>5 DEF Rejecting
  <2>2. room'[p] = "gone"
    BY <1>0, <1>5 DEF ServerTakes, RejectOf
  <2>. QED BY <1>2, <1>4, <2>1, <2>2
       DEF Followed, InTurn, InStep, HasCome, IsGoing, Present,
           SameInbox, SameTold, SamePosted, SameRows
<1>6. CASE m # RejectOf(p)
  <2>1. Rejecting(p)' <=> Rejecting(p)
    BY <1>2, <1>3, <1>6, RejectingSame
  <2>2. /\ room'[p] \in {"waiting", "admitted"} <=> room[p] \in {"waiting", "admitted"}
        /\ room'[p] = "out" => room[p] = "out"
    <3>1. CASE m.msg = "accept"
      BY <1>0, <3>1 DEF ServerTakes, Sent
    <3>2. CASE m.msg = "reject"
      <4>1. m = RejectOf(m.peer) /\ m.peer \in Peers
        BY <1>0, <3>2 DEF Sent, RejectOf
      <4>2. m.peer # p
        BY <1>6, <4>1
      <4>. QED BY <1>0, <3>2, <4>1, <4>2 DEF ServerTakes
    <3>3. CASE m.msg = "offer"
      BY <3>3 DEF ServerTakes
    <3>. QED BY <1>1, <3>1, <3>2, <3>3 DEF ServerTakes
  <2>. QED BY <1>2, <1>4, <2>1, <2>2, FollowedSame
<1>. QED BY <1>5, <1>6

\* The threads' calls: the news that a thread tells the dialog is queued, and a
\* reject goes out on the socket.
LEMMA FollowedThread ==
  ASSUME SenderTypeOK, online, phase = "running", NEW t \in Threads, Thread(t),
         NEW p \in Peers, Followed(p)
  PROVE  Followed(p)'
<1>0. outbox \in Seq(Sent) /\ "qt" \in Threads /\ "ws" \in Threads /\ (t = "qt" \/ t = "ws")
  BY DEF SenderTypeOK, Threads
<1>1. UNCHANGED <<inbox, rows, room>>
  BY DEF Thread, CallSend, CallCreate, CallCreateFails, CallNegotiate, CallPost,
         CallDisconnect, wireVars, dialogVars
<1>2. SameInbox(p) /\ SameRows(p)
  BY <1>1, Untouched
<1>3. ASSUME SameCalls(p), UNCHANGED <<outbox, posted>> PROVE Followed(p)'
  <2>1. SamePosted(p) /\ SameTold(p)
    BY <1>3, Untouched DEF SameCalls
  <2>2. Rejecting(p)' <=> Rejecting(p)
    BY <1>3, RejectingSame
  <2>. QED BY <1>1, <1>2, <2>1, <2>2, FollowedSame
<1>4. CASE CallCreate(t)
  <2>1. UNCHANGED <<outbox, posted>>
    BY <1>4 DEF CallCreate, wireVars, dialogVars
  <2>. QED BY <1>3, <1>4, <2>1, OtherCallReplaced
<1>5. CASE CallCreateFails(t) \/ CallNegotiate(t) \/ CallDisconnect(t)
  <2>1. /\ UNCHANGED <<outbox, posted>> /\ ~Idle(t) /\ Proceed(t)
        /\ Next1(t).call \notin {"pending", "gone", "reject"}
    BY <1>5 DEF CallCreateFails, CallNegotiate, CallDisconnect, Calling, wireVars, dialogVars
  <2>. QED BY <1>3, <2>1, OtherCallMade
<1>6. CASE CallSend(t)
  <2>1. Next1(t) \in Calls /\ Next1(t).call \in {"accept", "reject"} /\ ~Idle(t) /\ Proceed(t)
    BY <1>6, PeersOfState DEF CallSend, Calling
  <2>2. PICK q \in Peers : q = Next1(t).peer /\ Next1(t) = Call(Next1(t).call, q)
    BY <2>1, CallKinds
  <2>3. PICK m : m = [msg |-> Next1(t).call, peer |-> q]
    OBVIOUS
  <2>4. /\ m \in Sent /\ outbox' = Append(outbox, m) /\ UNCHANGED posted
        /\ (m = RejectOf(p) <=> Next1(t) = Call("reject", p))
    BY <1>6, <2>1, <2>2, <2>3 DEF CallSend, Send, Sent, RejectOf, Call, dialogVars
  <2>5. At(outbox', RejectOf(p)) <=> At(outbox, RejectOf(p)) \/ m = RejectOf(p)
    BY <1>0, <2>4, QueueAppend
  <2>6. SamePosted(p)
    BY <2>4, Untouched
  <2>7. SameTold(p)
    <3>1. /\ Next1(t) # Call("pending", p) /\ Next1(t) # Call("gone", p)
      BY <2>1 DEF Call
    <3>2. \A u \in Threads : \A x \in {Call("pending", p), Call("gone", p), Call("reject", p)} :
              /\ At(todo'[u], x) => At(todo[u], x)
              /\ x # Call("reject", p) /\ At(todo[u], x) => At(todo'[u], x)
              /\ Once(todo[u], x) => Once(todo'[u], x)
      <4>. SUFFICES ASSUME NEW u \in Threads,
                           NEW x \in {Call("pending", p), Call("gone", p), Call("reject", p)}
                    PROVE  /\ At(todo'[u], x) => At(todo[u], x)
                           /\ x # Call("reject", p) /\ At(todo[u], x) => At(todo'[u], x)
                           /\ Once(todo[u], x) => Once(todo'[u], x)
        OBVIOUS
      <4>1. u # t => todo'[u] = todo[u]
        BY <2>1, CallsMade
      <4>2. /\ At(todo[t], x) <=> At(todo'[t], x) \/ Next1(t) = x
            /\ Once(todo[t], x) => Once(todo'[t], x)
        BY <2>1, CallsMade
      <4>. QED BY <3>1, <4>1, <4>2
    <3>3. Call("pending", p) # Call("reject", p) /\ Call("gone", p) # Call("reject", p)
      BY DEF Call
    <3>. QED BY <1>0, <3>2, <3>3, NextPlaces DEF SameTold, Telling, TellingGone, CallsInOrder
  <2>8. Rejecting(p)' <=> Rejecting(p)
    <3>1. /\ t = "qt" => (At(todo["qt"], Call("reject", p)) <=>
                          At(todo'["qt"], Call("reject", p)) \/ Next1(t) = Call("reject", p))
          /\ t = "ws" => todo'["qt"] = todo["qt"]
      BY <1>0, <2>1, CallsMade
    <3>2. t = "ws" => Next1(t) # Call("reject", p)
      <4>1. At(todo[t], Next1(t))
        BY <2>1, CallsMade
      <4>. QED BY <4>1 DEF Followed, CallsInOrder
    <3>. QED BY <1>0, <2>4, <2>5, <3>1, <3>2, NextPlaces DEF Rejecting
  <2>. QED BY <1>1, <1>2, <2>6, <2>7, <2>8, FollowedSame
<1>7. CASE CallPost(t)
  <2>1. Next1(t) \in Calls /\ Next1(t).call \in {"pending", "gone"} /\ ~Idle(t) /\ Proceed(t)
    BY <1>7, PeersOfState DEF CallPost, Calling
  <2>2. PICK q \in Peers : q = Next1(t).peer /\ Next1(t) = Call(Next1(t).call, q)
    BY <2>1, CallKinds
  <2>3. PICK c \in {"pending", "gone"} : c = Next1(t).call
    BY <2>1
  <2>4. posted' = Append(posted, [event |-> c, peer |-> q]) /\ UNCHANGED outbox
    BY <1>7, <2>2, <2>3 DEF CallPost, Post, wireVars
  <2>5. /\ Showing(p)' <=> Showing(p) \/ (c = "pending" /\ q = p)
        /\ ShowingGone(p)' <=> ShowingGone(p) \/ (c = "gone" /\ q = p)
        /\ PostedInOrder(p) /\ (c = "pending" /\ q = p => ~Showing(p) /\ ~ShowingGone(p))
                => PostedInOrder(p)'
    BY <2>3, <2>4, PostedGets
  <2>6. /\ Next1(t) = Call("pending", p) <=> c = "pending" /\ q = p
        /\ Next1(t) = Call("gone", p) <=> c = "gone" /\ q = p
        /\ Next1(t) # Call("reject", p)
    BY <2>2, <2>3 DEF Call
  <2>7. \A u \in Threads : \A x \in {Call("pending", p), Call("gone", p), Call("reject", p)} :
            /\ At(todo[u], x) <=> At(todo'[u], x) \/ (u = t /\ Next1(t) = x)
            /\ Once(todo[u], x) => /\ Once(todo'[u], x)
                                   /\ u = t /\ Next1(t) = x => ~At(todo'[u], x)
    <3>. SUFFICES ASSUME NEW u \in Threads,
                         NEW x \in {Call("pending", p), Call("gone", p), Call("reject", p)}
                  PROVE  /\ At(todo[u], x) <=> At(todo'[u], x) \/ (u = t /\ Next1(t) = x)
                         /\ Once(todo[u], x) => /\ Once(todo'[u], x)
                                                /\ u = t /\ Next1(t) = x => ~At(todo'[u], x)
      OBVIOUS
    <3>1. u # t => todo'[u] = todo[u]
      BY <2>1, CallsMade
    <3>2. /\ At(todo[t], x) <=> At(todo'[t], x) \/ Next1(t) = x
          /\ Once(todo[t], x) => Once(todo'[t], x) /\ (Next1(t) = x => ~At(todo'[t], x))
      BY <2>1, CallsMade
    <3>. QED BY <3>1, <3>2
  <2>8. /\ Telling(p) <=> Telling(p)' \/ (t = "ws" /\ c = "pending" /\ q = p)
        /\ TellingGone("ws", p) <=> TellingGone("ws", p)' \/ (t = "ws" /\ c = "gone" /\ q = p)
        /\ TellingGone("qt", p) <=> TellingGone("qt", p)' \/ (t = "qt" /\ c = "gone" /\ q = p)
    BY <1>0, <2>6, <2>7, NextPlaces DEF Telling, TellingGone
  <2>9. Rejecting(p)' <=> Rejecting(p)
    BY <1>0, <2>4, <2>6, <2>7, NextPlaces DEF Rejecting
  <2>10. CallsInOrder(p) => /\ CallsInOrder(p)'
                            /\ c = "pending" /\ q = p => t = "ws" /\ ~Telling(p)'
    BY <1>0, <2>6, <2>7, NextPlaces DEF CallsInOrder, Telling
  <2>. QED BY <1>0, <1>1, <1>2, <2>5, <2>8, <2>9, <2>10, <2>3
       DEF Followed, InTurn, InStep, HasCome, IsGoing, Present, SameInbox, SameRows
<1>. QED BY <1>4, <1>5, <1>6, <1>7 DEF Thread

\* A click tells the dialog and the server of a departure, or neither of them.
LEMMA FollowedUser ==
  ASSUME SenderTypeOK, User, phase' = "running", NEW p \in Peers, Followed(p)
  PROVE  Followed(p)'
<1>0. UNCHANGED <<wireVars, posted, rows>> /\ "qt" \in Threads /\ "ws" \in Threads
  BY DEF User, UserAccept, UserReject, UserDisconnect, UserRevoke, UserClose, dialogVars, Threads
<1>1. SameInbox(p) /\ SamePosted(p) /\ SameRows(p) /\ UNCHANGED <<room, outbox>>
  BY <1>0, Untouched DEF wireVars
<1>2. ASSUME NEW calls, Start("qt", calls),
             ~At(calls, Call("pending", p)), ~At(calls, Call("gone", p)), ~At(calls, Call("reject", p))
      PROVE  Followed(p)'
  <2>1. todo'["qt"] = calls /\ (\A x : ~At(todo["qt"], x)) /\ todo'["ws"] = todo["ws"]
    BY <1>0, <1>2, CallsStarted DEF Threads
  <2>2. SameCalls(p) /\ SameTold(p)
    BY <1>0, <1>2, <2>1, NextPlaces DEF SameCalls, SameTold, Telling, TellingGone, CallsInOrder
  <2>3. Rejecting(p)' <=> Rejecting(p)
    BY <1>1, <2>2, RejectingSame
  <2>. QED BY <1>1, <2>2, <2>3, FollowedSame
<1>3. ASSUME NEW calls, Start("qt", calls), Listing(p),
             ~At(calls, Call("pending", p)), At(calls, Call("gone", p)), At(calls, Call("reject", p))
      PROVE  Followed(p)'
  <2>1. todo'["qt"] = calls /\ (\A x : ~At(todo["qt"], x)) /\ todo'["ws"] = todo["ws"]
    BY <1>0, <1>3, CallsStarted DEF Threads
  <2>2. /\ Telling(p)' <=> Telling(p)
        /\ TellingGone("ws", p)' <=> TellingGone("ws", p)
        /\ TellingGone("qt", p)' /\ Rejecting(p)'
        /\ CallsInOrder(p) => CallsInOrder(p)'
    BY <1>0, <1>3, <2>1, NextPlaces DEF Telling, TellingGone, CallsInOrder
  <2>. QED BY <1>1, <1>3, <2>2
       DEF Followed, InTurn, InStep, HasCome, IsGoing, Present, SameInbox, SamePosted, SameRows
<1>4. \A q : /\ ~At(OnAccepted(q), Call("pending", p)) /\ ~At(OnAccepted(q), Call("gone", p))
             /\ ~At(OnAccepted(q), Call("reject", p))
             /\ ~At(OnRejected(q), Call("pending", p))
             /\ At(OnRejected(q), Call("gone", p)) <=> q = p
             /\ At(OnRejected(q), Call("reject", p)) <=> q = p
             /\ \A x : ~At(<<>>, x)
  BY DEF OnAccepted, OnRejected, At, Call
<1>5. ASSUME NEW i \in DOMAIN rows, UserAccept(i) PROVE Followed(p)'
  <2>1. Start("qt", OnAccepted(rows[i].peer)) \/ Start("qt", <<>>)
    BY <1>5 DEF UserAccept
  <2>. QED BY <1>2, <1>4, <2>1
<1>6. ASSUME NEW i \in DOMAIN rows, UserReject(i) PROVE Followed(p)'
  <2>1. Start("qt", OnRejected(rows[i].peer)) \/ Start("qt", <<>>)
    BY <1>6 DEF UserReject
  <2>2. rows[i].peer = p => Listing(p)
    BY DEF Listing, RowsOf
  <2>. QED BY <1>2, <1>3, <1>4, <2>1, <2>2
<1>7. ASSUME NEW i \in DOMAIN rows, UserDisconnect(i) PROVE Followed(p)'
  <2>1. PICK q : q = rows[i].peer
    OBVIOUS
  <2>2. PICK calls : calls = <<Call("disconnect", q), Call("reject", q), Call("gone", q)>>
    OBVIOUS
  <2>3. Start("qt", calls)
    BY <1>7, <2>1, <2>2 DEF UserDisconnect
  <2>4. /\ ~At(calls, Call("pending", p))
        /\ At(calls, Call("gone", p)) <=> q = p
        /\ At(calls, Call("reject", p)) <=> q = p
    BY <2>2 DEF At, Call
  <2>5. q = p => Listing(p)
    BY <2>1 DEF Listing, RowsOf
  <2>. QED BY <1>2, <1>3, <2>3, <2>4, <2>5
<1>8. ~UserRevoke /\ ~UserClose
  BY DEF UserRevoke, UserClose
<1>. QED BY <1>5, <1>6, <1>7, <1>8 DEF User

\* The dialog takes an event: a row for an arrival, and the row goes with a
\* departure.
LEMMA FollowedEvent ==
  ASSUME SenderTypeOK, QtEvent, NEW p \in Peers, Followed(p)
  PROVE  Followed(p)'
<1>0. /\ posted # <<>> /\ posted' = Tail(posted)
      /\ UNCHANGED <<inbox, outbox, room, todo>>
  BY DEF QtEvent, wireVars
<1>1. SameInbox(p) /\ SameCalls(p) /\ SameTold(p) /\ (Rejecting(p)' <=> Rejecting(p))
  BY <1>0, Untouched, RejectingSame DEF SameCalls
<1>2. PICK q \in Peers, e \in Shown \cup {"pending", "gone"} :
          Head(posted).peer = q /\ Head(posted).event = e /\ Head(posted) = [event |-> e, peer |-> q]
  BY <1>0, PeersOfState DEF Events
<1>3. /\ Head(posted) = ShowArrival(p) <=> e = "pending" /\ q = p
      /\ Head(posted) = ShowDeparture(p) <=> e = "gone" /\ q = p
  BY <1>2 DEF ShowArrival, ShowDeparture
<1>4. /\ Showing(p) <=> Showing(p)' \/ (e = "pending" /\ q = p)
      /\ ShowingGone(p) <=> ShowingGone(p)' \/ (e = "gone" /\ q = p)
      /\ PostedInOrder(p) => /\ PostedInOrder(p)'
                             /\ e = "pending" /\ q = p => ~Showing(p)'
                             /\ e = "gone" /\ q = p => ~Showing(p)
  BY <1>0, <1>3, PostedTaken
<1>5. CASE e = "pending"
  <2>1. rows' = Append(rows, [peer |-> q, shown |-> "waiting"])
    BY <1>2, <1>5 DEF QtEvent, Shown
  <2>2. /\ Listing(p)' <=> Listing(p) \/ q = p
        /\ RowsInOrder(p) /\ (q = p => ~Listing(p)) => RowsInOrder(p)'
    BY <2>1, RowsGet
  <2>. QED BY <1>0, <1>1, <1>4, <1>5, <2>2
       DEF Followed, InTurn, InStep, HasCome, IsGoing, Present, SameInbox, SameTold
<1>6. CASE e \in Shown
  <2>1. \/ UNCHANGED rows
        \/ \E i \in DOMAIN rows : rows' = [rows EXCEPT ![i].shown = e]
    BY <1>2, <1>6 DEF QtEvent, FirstOf, RowsOf, Shown
  <2>2. SameRows(p)
    BY <1>6, <2>1, RowsShown, Untouched
  <2>3. e # "pending" /\ e # "gone"
    BY <1>6 DEF Shown
  <2>4. SamePosted(p)
    BY <1>4, <2>3 DEF SamePosted
  <2>. QED BY <1>0, <1>1, <2>2, <2>4, FollowedSame
<1>7. CASE e = "gone"
  <2>1. \/ RowsOf(q) = {} /\ UNCHANGED rows
        \/ \E i \in RowsOf(q) : rows' = RemoveAt(rows, i)
    BY <1>2, <1>7 DEF QtEvent, FirstOf, Shown
  <2>2. CASE q # p
    <3>1. SamePosted(p)
      BY <1>4, <1>7, <2>2 DEF SamePosted
    <3>2. SameRows(p)
      <4>1. CASE UNCHANGED rows
        BY <4>1, Untouched
      <4>2. ASSUME NEW i \in RowsOf(q), rows' = RemoveAt(rows, i) PROVE SameRows(p)
        <5>1. i \in DOMAIN rows /\ rows[i].peer # p
          BY <2>2 DEF RowsOf
        <5>. QED BY <4>2, <5>1, RowsLose
      <4>. QED BY <2>1, <4>1, <4>2
    <3>. QED BY <1>0, <1>1, <3>1, <3>2, FollowedSame
  <2>3. CASE q = p
    <3>1. RowsInOrder(p) => ~Listing(p)' /\ RowsInOrder(p)'
      <4>1. CASE RowsOf(p) = {} /\ UNCHANGED rows
        BY <4>1, Untouched DEF SameRows, Listing
      <4>2. ASSUME NEW i \in RowsOf(p), rows' = RemoveAt(rows, i), RowsInOrder(p)
            PROVE  ~Listing(p)' /\ RowsInOrder(p)'
        <5>1. i \in DOMAIN rows /\ rows[i].peer = p
          BY DEF RowsOf
        <5>. QED BY <4>2, <5>1, RowsLose
      <4>. QED BY <2>1, <2>3, <4>1, <4>2
    <3>. QED BY <1>0, <1>1, <1>4, <1>7, <2>3, <3>1
         DEF Followed, InTurn, InStep, HasCome, IsGoing, Present, SameInbox, SameTold
  <2>. QED BY <2>2, <2>3
<1>. QED BY <1>5, <1>6, <1>7

\* The sender takes a message: its thread tells the dialog of an arrival or a
\* departure.
LEMMA FollowedMessage ==
  ASSUME SenderTypeOK, NEW p \in Peers, Followed(p),
         WsAnswer \/ WsPeerGone \/ \E f \in Fingerprints : WsPending(f)
  PROVE  Followed(p)'
<1>0. /\ inbox # <<>> /\ inbox' = Tail(inbox) /\ Head(inbox) \in Received
      /\ UNCHANGED <<room, outbox, posted, rows>>
      /\ "qt" \in Threads /\ "ws" \in Threads
  BY PeersOfState DEF WsAnswer, WsPeerGone, WsPending, Receive, dialogVars, Threads
<1>1. SamePosted(p) /\ SameRows(p)
  BY <1>0, Untouched
<1>2. PICK q \in Peers, m \in {"pending", "answer", "peer_gone"} :
          Head(inbox).peer = q /\ Head(inbox).msg = m /\ Head(inbox) = [msg |-> m, peer |-> q]
  BY <1>0 DEF Received
<1>3. /\ Coming(p) <=> Coming(p)' \/ (m = "pending" /\ q = p)
      /\ Going(p) <=> Going(p)' \/ (m = "peer_gone" /\ q = p)
      /\ InboxInOrder(p) => /\ InboxInOrder(p)'
                            /\ m = "pending" /\ q = p => ~Coming(p)'
                            /\ m = "peer_gone" /\ q = p => ~Coming(p)
  <2>1. /\ Head(inbox) = Arrival(p) <=> m = "pending" /\ q = p
        /\ Head(inbox) = Departure(p) <=> m = "peer_gone" /\ q = p
    BY <1>2 DEF Arrival, Departure
  <2>. QED BY <1>0, <2>1, InboxTaken
<1>4. CASE WsAnswer
  <2>1. UNCHANGED todo /\ m = "answer"
    BY <1>2, <1>4 DEF WsAnswer, Receive
  <2>2. SameCalls(p) /\ SameTold(p) /\ (Rejecting(p)' <=> Rejecting(p)) /\ SameInbox(p)
    BY <1>0, <1>3, <2>1, Untouched, RejectingSame DEF SameCalls, SameInbox
  <2>. QED BY <1>0, <1>1, <2>2, FollowedSame
<1>5. ASSUME NEW calls, Start("ws", calls),
             At(calls, Call("pending", p)) <=> m = "pending" /\ q = p,
             At(calls, Call("gone", p)) <=> m = "peer_gone" /\ q = p,
             ~At(calls, Call("reject", p)), Once(calls, Call("pending", p)),
             m # "answer"
      PROVE  Followed(p)'
  <2>1. todo'["ws"] = calls /\ (\A x : ~At(todo["ws"], x)) /\ todo'["qt"] = todo["qt"]
    BY <1>0, <1>5, CallsStarted DEF Threads
  <2>2. /\ ~Telling(p) /\ ~TellingGone("ws", p)
        /\ Telling(p)' <=> m = "pending" /\ q = p
        /\ TellingGone("ws", p)' <=> m = "peer_gone" /\ q = p
        /\ TellingGone("qt", p)' <=> TellingGone("qt", p)
        /\ Rejecting(p)' <=> Rejecting(p)
        /\ CallsInOrder(p) => CallsInOrder(p)'
    BY <1>0, <1>5, <2>1, NextPlaces DEF Telling, TellingGone, CallsInOrder, Rejecting
  <2>. QED BY <1>0, <1>1, <1>3, <2>2
       DEF Followed, InTurn, InStep, HasCome, IsGoing, Present, SamePosted, SameRows
<1>6. CASE WsPeerGone
  <2>1. Start("ws", <<Call("gone", q)>>) /\ m = "peer_gone"
    BY <1>2, <1>6 DEF WsPeerGone, Receive
  <2>2. PICK calls : calls = <<Call("gone", q)>>
    OBVIOUS
  <2>3. /\ ~At(calls, Call("pending", p)) /\ ~At(calls, Call("reject", p))
        /\ At(calls, Call("gone", p)) <=> q = p
        /\ Once(calls, Call("pending", p))
    BY <2>2 DEF At, Once, Call
  <2>. QED BY <1>5, <2>1, <2>2, <2>3
<1>7. ASSUME NEW f \in Fingerprints, WsPending(f) PROVE Followed(p)'
  <2>1. m = "pending"
    BY <1>2, <1>7 DEF WsPending, Receive
  <2>2. PICK first \in {OnAccepted(q), <<>>} : Start("ws", first \o <<Call("pending", q)>>)
    <3>1. <<>> \o <<Call("pending", q)>> = <<Call("pending", q)>>
      <4>1. <<Call("pending", q)>> \in Seq(Calls)
        BY CallsType
      <4>. QED BY <4>1, ConcatEmptySeq
    <3>. QED BY <1>2, <1>7, <3>1 DEF WsPending
  <2>3. PICK calls : calls = first \o <<Call("pending", q)>>
    OBVIOUS
  <2>4. first \in Seq(Calls) /\ Call("pending", q) \in Calls
    BY CallsType
  <2>5. calls = Append(first, Call("pending", q))
    BY <2>3, <2>4
  <2>6. /\ \A x : At(calls, x) <=> At(first, x) \/ Call("pending", q) = x
        /\ \A x : Once(first, x) /\ (Call("pending", q) = x => ~At(first, x)) => Once(calls, x)
    BY <2>4, <2>5, QueueAppend
  <2>7. ~At(first, Call("pending", p)) /\ ~At(first, Call("gone", p)) /\ ~At(first, Call("reject", p))
    BY DEF At, OnAccepted, Call
  <2>8. Once(first, Call("pending", p))
    BY <2>7 DEF At, Once
  <2>9. /\ Call("pending", q) = Call("pending", p) <=> q = p
        /\ Call("pending", q) # Call("gone", p) /\ Call("pending", q) # Call("reject", p)
    BY DEF Call
  <2>10. /\ At(calls, Call("pending", p)) <=> q = p
         /\ ~At(calls, Call("gone", p)) /\ ~At(calls, Call("reject", p))
         /\ Once(calls, Call("pending", p))
    BY <2>6, <2>7, <2>8, <2>9
  <2>. QED BY <1>5, <2>1, <2>2, <2>3, <2>10
<1>. QED BY <1>4, <1>6, <1>7

\* A peer connection tells the dialog and the server nothing of arrivals.
LEMMA FollowedRtc ==
  ASSUME SenderTypeOK, online, phase = "running", NEW i \in DOMAIN sessions, Rtc(i),
         NEW p \in Peers, Followed(p)
  PROVE  Followed(p)'
<1>0. UNCHANGED <<inbox, room, rows, todo>> /\ outbox \in Seq(Sent)
  BY DEF SenderTypeOK, Rtc, RtcOffer, RtcProgress, RtcLost, RtcRecord, wireVars, dialogVars
<1>1. SameInbox(p) /\ SameRows(p) /\ SameCalls(p) /\ SameTold(p)
  BY <1>0, Untouched DEF SameCalls
<1>2. PICK q \in Peers : q = sessions[i].peer
  BY PeersOfState
<1>3. SamePosted(p)
  <2>1. \/ UNCHANGED posted
        \/ \E e \in Shown : posted' = Append(posted, [event |-> e, peer |-> q])
    BY <1>2 DEF Rtc, RtcOffer, RtcProgress, RtcLost, RtcRecord, Post, Shown, dialogVars
  <2>2. \A e \in Shown : e # "pending" /\ e # "gone"
    BY DEF Shown
  <2>. QED BY <2>1, <2>2, PostedGets, Untouched DEF SamePosted
<1>4. At(outbox', RejectOf(p)) <=> At(outbox, RejectOf(p))
  <2>1. CASE UNCHANGED outbox
    BY <2>1
  <2>2. CASE RtcOffer(i)
    <3>1. PICK m : m = [msg |-> "offer", peer |-> q]
      OBVIOUS
    <3>2. m \in Sent /\ m # RejectOf(p) /\ outbox' = Append(outbox, m)
      BY <1>2, <2>2, <3>1 DEF RtcOffer, Send, Sent, RejectOf
    <3>. QED BY <1>0, <3>2, QueueAppend
  <2>. QED BY <2>1, <2>2 DEF Rtc, RtcProgress, RtcLost, RtcRecord, wireVars
<1>. QED BY <1>0, <1>1, <1>3, <1>4, RejectingSame, FollowedSame

\* While the dialog runs nothing takes back what the server was told of others.
LEMMA NoRevokeSent ==
  ASSUME SenderTypeOK, ServedInv, [SenderNext]_senderVars, phase = "running", phase' = "running",
         \A i \in DOMAIN outbox : outbox[i].msg # "revoke"
  PROVE  /\ \A i \in DOMAIN outbox' : outbox'[i].msg # "revoke"
         /\ ~CallRevoke /\ ~CallFree /\ ~CallClose
<1>0. outbox \in Seq(Sent) /\ "qt" \in Threads
  BY DEF SenderTypeOK, Threads
<1>1. ~CallRevoke /\ ~CallFree /\ ~CallClose
  <2>. SUFFICES ASSUME CallRevoke \/ CallFree \/ CallClose PROVE FALSE
    OBVIOUS
  <2>1. todo["qt"] \in Seq(Calls) /\ todo["qt"] # <<>>
    BY DEF CallRevoke, CallFree, CallClose, Calling, Idle, SenderTypeOK, Threads
  <2>2. 1 \in DOMAIN todo["qt"] /\ todo["qt"][1] = Next1("qt")
    BY <2>1 DEF Next1
  <2>3. Next1("qt").call \in {"revoke", "free", "close"}
    BY DEF CallRevoke, CallFree, CallClose, Calling
  <2>. QED BY <1>0, <2>2, <2>3 DEF ServedInv, NoTeardown, Tears
<1>2. UNCHANGED outbox \/ outbox' = <<>> => \A i \in DOMAIN outbox' : outbox'[i].msg # "revoke"
  OBVIOUS
<1>3. outbox # <<>> /\ outbox' = Tail(outbox) => \A i \in DOMAIN outbox' : outbox'[i].msg # "revoke"
  BY <1>0, TakeKeeps
<1>4. ASSUME NEW m \in Sent, outbox' = Append(outbox, m), m.msg # "revoke"
      PROVE  \A i \in DOMAIN outbox' : outbox'[i].msg # "revoke"
  BY <1>0, <1>4
<1>5. ASSUME NEW t \in Threads, CallSend(t)
      PROVE  \A i \in DOMAIN outbox' : outbox'[i].msg # "revoke"
  <2>1. Next1(t) \in Calls /\ Next1(t).call \in {"accept", "reject"}
    BY <1>5, PeersOfState DEF CallSend, Calling
  <2>2. PICK m : m = [msg |-> Next1(t).call, peer |-> Next1(t).peer]
    OBVIOUS
  <2>3. m \in Sent /\ m.msg # "revoke"
    BY <2>1, <2>2, CallKinds DEF Sent
  <2>4. outbox' = Append(outbox, m) \/ outbox' = outbox
    BY <1>5, <2>2 DEF CallSend, Send
  <2>. QED BY <1>2, <1>4, <2>3, <2>4
<1>6. ASSUME NEW i \in DOMAIN sessions, RtcOffer(i)
      PROVE  \A j \in DOMAIN outbox' : outbox'[j].msg # "revoke"
  <2>1. PICK m : m = [msg |-> "offer", peer |-> sessions[i].peer]
    OBVIOUS
  <2>2. m \in Sent /\ m.msg # "revoke"
    BY <2>1, PeersOfState DEF Sent
  <2>3. outbox' = Append(outbox, m) \/ outbox' = outbox
    BY <1>6, <2>1 DEF RtcOffer, Send
  <2>. QED BY <1>2, <1>4, <2>2, <2>3
<1>7. User \/ QtEvent \/ SenderTick \/ UNCHANGED senderVars => UNCHANGED outbox
  BY DEF User, UserAccept, UserReject, UserDisconnect, UserRevoke, UserClose, QtEvent,
         SenderTick, senderVars, wireVars
<1>8. \A t \in Threads : Thread(t) => CallSend(t) \/ UNCHANGED outbox
  BY DEF Thread, CallCreate, CallCreateFails, CallNegotiate, CallPost, CallDisconnect, wireVars
<1>9. Qt => QtEvent \/ Thread("qt")
  BY <1>1 DEF Qt
<1>10. Ws => Thread("ws") \/ UNCHANGED outbox
  BY DEF Ws, WsPending, WsAnswer, WsPeerGone
<1>11. \A i \in DOMAIN sessions : Rtc(i) => RtcOffer(i) \/ UNCHANGED outbox
  BY DEF Rtc, RtcProgress, RtcLost, RtcRecord, wireVars
<1>12. (\E p \in Peers : Knock(p) \/ Leave(p)) => UNCHANGED outbox
  BY DEF Knock, Leave
<1>13. WsLost => outbox' = <<>>
  BY DEF WsLost
<1>14. ServerTakes => outbox # <<>> /\ outbox' = Tail(outbox)
  BY DEF ServerTakes
<1>15. "ws" \in Threads
  BY DEF Threads
<1>. QED BY <1>0, <1>1, <1>2, <1>3, <1>5, <1>6, <1>7, <1>8, <1>9, <1>10, <1>11, <1>12,
            <1>13, <1>14, <1>15 DEF SenderNext

LEMMA RowsNext ==
  SenderTypeOK /\ ServedInv /\ RowsInv /\ [SenderNext]_senderVars => RowsInv'
<1>. SUFFICES ASSUME SenderTypeOK, ServedInv, RowsInv, [SenderNext]_senderVars,
                     phase' = "running", online'
              PROVE  /\ \A i \in DOMAIN outbox' : outbox'[i].msg # "revoke"
                     /\ \A p \in Peers : Followed(p)'
  BY DEF RowsInv
<1>1. phase = "running" /\ online
  <2>1. phase = "running"
    BY DEF SenderNext, User, UserAccept, UserReject, UserDisconnect, UserRevoke, UserClose,
           Qt, QtEvent, CallRevoke, CallFree, CallClose, Ws, WsPending, WsAnswer, WsPeerGone,
           Thread, CallSend, CallCreate, CallCreateFails, CallNegotiate, CallPost,
           CallDisconnect, WsLost,
           Rtc, RtcOffer, RtcProgress, RtcLost, RtcRecord, Knock, Leave, ServerTakes, SenderTick,
           senderVars
  <2>2. online
    <3>1. \A p \in Peers : Knock(p) \/ Leave(p) => UNCHANGED online
      BY DEF Knock, Leave
    <3>. QED BY <3>1, WireStep DEF ServerTakes
  <2>. QED BY <2>1, <2>2
<1>2. /\ \A i \in DOMAIN outbox : outbox[i].msg # "revoke"
      /\ \A p \in Peers : Followed(p)
  BY <1>1 DEF RowsInv
<1>3. /\ \A i \in DOMAIN outbox' : outbox'[i].msg # "revoke"
      /\ ~CallRevoke /\ ~CallFree /\ ~CallClose
  BY <1>1, <1>2, NoRevokeSent
<1>4. ASSUME NEW p \in Peers PROVE Followed(p)'
  <2>. Followed(p)
    BY <1>2
  <2>1. User => Followed(p)'
    BY FollowedUser
  <2>2. \A t \in Threads : Thread(t) => Followed(p)'
    BY <1>1, FollowedThread
  <2>3. Qt => Followed(p)'
    BY <1>3, <2>2, FollowedEvent DEF Qt, Threads
  <2>4. Ws => Followed(p)'
    BY <2>2, FollowedMessage DEF Ws, Threads
  <2>5. \A i \in DOMAIN sessions : Rtc(i) => Followed(p)'
    BY <1>1, FollowedRtc
  <2>6. (\E q \in Peers : Knock(q) \/ Leave(q)) => Followed(p)'
    BY <1>1, FollowedPeer
  <2>7. ServerTakes => Followed(p)'
    BY <1>1, <1>2, FollowedServer
  <2>8. SenderTick \/ UNCHANGED senderVars => Followed(p)'
    <3>. SUFFICES ASSUME SenderTick \/ UNCHANGED senderVars PROVE Followed(p)'
      OBVIOUS
    <3>1. UNCHANGED <<inbox, outbox, room, todo, posted, rows>>
      BY DEF SenderTick, senderVars, wireVars, dialogVars
    <3>2. /\ SameInbox(p) /\ SameCalls(p) /\ SameTold(p) /\ SamePosted(p) /\ SameRows(p)
          /\ Rejecting(p)' <=> Rejecting(p)
      BY <3>1, Untouched, RejectingSame DEF SameCalls
    <3>. QED BY <3>1, <3>2, FollowedSame
  <2>9. ~WsLost
    BY DEF WsLost
  <2>. QED BY <2>1, <2>3, <2>4, <2>5, <2>6, <2>7, <2>8, <2>9 DEF SenderNext
<1>. QED BY <1>3, <1>4

\* When nothing is under way, the invariant says that the rows are the peers
\* the server holds.
LEMMA RowsWhenQuiet == SenderTypeOK /\ RowsInv => RowsMatchRoom
<1>. SUFFICES ASSUME SenderTypeOK, RowsInv, phase = "running", online, Quiet, NEW p \in Peers
              PROVE  Cardinality(RowsOf(p)) = IF room[p] \in {"waiting", "admitted"} THEN 1 ELSE 0
  BY DEF RowsMatchRoom
<1>1. Followed(p)
  BY DEF RowsInv
<1>2. \A x : ~At(<<>>, x)
  BY DEF At
<1>3. /\ inbox = <<>> /\ outbox = <<>> /\ posted = <<>>
      /\ todo["qt"] = <<>> /\ todo["ws"] = <<>>
  BY DEF Quiet, Idle, Threads
<1>4. ~Coming(p) /\ ~Telling(p) /\ ~Showing(p) /\ ~IsGoing(p) /\ ~Rejecting(p)
  BY <1>2, <1>3 DEF Coming, Telling, Showing, IsGoing, Going, TellingGone, ShowingGone, Rejecting
<1>5. room[p] \in {"waiting", "admitted"} <=> RowsOf(p) # {}
  BY <1>1, <1>4 DEF Followed, InStep, Present, HasCome, Listing
<1>6. CASE RowsOf(p) = {}
  BY <1>5, <1>6, FS_EmptySet
<1>7. ASSUME NEW i \in RowsOf(p) PROVE Cardinality(RowsOf(p)) = 1
  <2>1. RowsOf(p) = {i}
    BY <1>1, <1>7 DEF Followed, RowsInOrder
  <2>. QED BY <2>1, FS_Singleton
<1>. QED BY <1>5, <1>6, <1>7

\* Once nothing is under way the dialog lists the receivers the server holds,
\* each once: whichever of the two threads told it of an arrival or a departure,
\* and whatever clicks, rejects and departures crossed on the way.
THEOREM RowsAreTheRoom == SenderSpec => []RowsMatchRoom
<1>. QED BY SenderTypeInit, SenderTypeNext, ServedInit, ServedNext, RowsInit, RowsNext,
            RowsWhenQuiet, PTL DEF SenderSpec

=============================================================================
