------------------------------ MODULE Admission ------------------------------
(***************************************************************************)
(* The sender's admission list (src/src/admission.c): the peers that came  *)
(* out of the waiting room with their states, the fingerprints pinned at   *)
(* accept time, and the rate-limit ledger.  Every public function runs     *)
(* under the list's lock, so each is one action; the on_changed callback,  *)
(* which fires after the unlock, belongs to the caller (module Sender).    *)
(*                                                                         *)
(* Time is os_gettime_ns(), a counter of the host's uptime: an unsigned    *)
(* 64-bit integer in the code, modelled modulo ClockSpan.                  *)
(***************************************************************************)
EXTENDS Integers, Sequences, FiniteSets

CONSTANTS
    Peers,          \* the peer ids the signaling server may hand out
    Fingerprints,   \* the fingerprints a peer may present
    NoPrint,        \* the empty string: no fingerprint in the request
    MaxReceivers,   \* cfg.max_receivers, after the defaults of _create
    Window,         \* cfg.rate_limit_window_seconds, likewise
    MaxAttempts,    \* cfg.rate_limit_max_attempts, likewise
    Lockout,        \* cfg.lockout_seconds, likewise
    Uptime,         \* the clock when the list is created
    MaxTime,        \* bound: the clock stops here
    ClockSpan       \* the range of the clock, 2^64 ns in the code

ASSUME AdmissionAssumption ==
    /\ IsFiniteSet(Peers)
    /\ NoPrint \in Fingerprints
    /\ MaxReceivers \in Nat \ {0}
    /\ Window \in Nat \ {0}
    /\ MaxAttempts \in Nat \ {0}
    /\ Lockout \in Nat \ {0}
    /\ Uptime \in Nat
    /\ MaxTime \in Nat
    /\ ClockSpan \in Nat
    /\ Uptime <= MaxTime
    /\ Window < ClockSpan
    /\ MaxTime + Lockout < ClockSpan

VARIABLES
    state,          \* tether_peer_t.state; "absent": not in the list
    fingerprint,    \* tether_peer_t.fingerprint
    pinned,         \* the peers whose pinned flag is set
    attempts,       \* the sliding window of attempt timestamps
    lockoutUntil,   \* lockout_until_ns
    now,            \* os_gettime_ns()
    ledger,         \* history: the time of every attempt ever registered
    userAccepted,   \* history: the peers the user accepted
    userPinned      \* history: the peers the user accepted with a pin

peerVars == <<state, fingerprint, pinned, userAccepted, userPinned>>
rateVars == <<attempts, lockoutUntil, ledger>>
admissionVars == <<peerVars, rateVars, now>>

PeerStates == {"pending", "accepted", "rejected", "revoked", "disconnected"}

TypeOK ==
    /\ state \in [Peers -> PeerStates \cup {"absent"}]
    /\ fingerprint \in [Peers -> Fingerprints]
    /\ pinned \in SUBSET Peers
    /\ attempts \in Seq(Nat)
    /\ lockoutUntil \in Nat
    /\ now \in Uptime .. MaxTime
    /\ ledger \in Seq(Nat)
    /\ userAccepted \in SUBSET Peers
    /\ userPinned \in SUBSET Peers

Init ==
    /\ state = [p \in Peers |-> "absent"]
    /\ fingerprint = [p \in Peers |-> NoPrint]
    /\ pinned = {}
    /\ attempts = <<>>
    /\ lockoutUntil = 0
    /\ now = Uptime
    /\ ledger = <<>>
    /\ userAccepted = {}
    /\ userPinned = {}

-----------------------------------------------------------------------------

Listed(p) == state[p] # "absent"

Accepted == {p \in Peers : state[p] = "accepted"}

LockedOut == lockoutUntil > now

\* now_ns() - window in unsigned arithmetic: it wraps while the host has
\* been up for less than a window.
Cutoff == IF now < Window THEN now - Window + ClockSpan ELSE now - Window

\* Mutant of PruneStopsAt: an attempt exactly one window old is pruned.
PruneStopsLate(k) ==
    /\ \A i \in 1 .. k - 1 : attempts[i] <= Cutoff
    /\ k <= Len(attempts) => attempts[k] > Cutoff

\* The index where prune_attempts_locked stops: everything before it is
\* dropped.
PruneStopsAt(k) ==
    /\ \A i \in 1 .. k - 1 : attempts[i] < Cutoff
    /\ k <= Len(attempts) => attempts[k] >= Cutoff

\* Mutant of PinMatch: any peer of the list counts, pinned or not.
AnyMatch(f) == \E q \in Peers : Listed(q) /\ fingerprint[q] = f

\* A pinned peer already in the list presented the same fingerprint.
PinMatch(f) == \E q \in pinned : fingerprint[q] = f

Enlist(p, f) ==
    /\ state' = [state EXCEPT ![p] = IF PinMatch(f) THEN "accepted" ELSE "pending"]
    /\ fingerprint' = [fingerprint EXCEPT ![p] = f]
    /\ pinned' = IF PinMatch(f) THEN pinned \cup {p} ELSE pinned
    /\ UNCHANGED <<userAccepted, userPinned>>

CapReached == Cardinality(Accepted) >= MaxReceivers

\* The lockout is not over: nothing is recorded.
AddWhileLockedOut == LockedOut /\ UNCHANGED admissionVars

\* The window is full: the lockout starts.
AddHitsLimit ==
    \E k \in 1 .. Len(attempts) + 1 :
        /\ ~LockedOut
        /\ PruneStopsAt(k)
        /\ attempts' = SubSeq(attempts, k, Len(attempts))
        /\ Len(attempts') >= MaxAttempts
        /\ lockoutUntil' = now + Lockout
        /\ UNCHANGED <<peerVars, ledger, now>>

\* The attempt is recorded; the peer enters the list unless it is already
\* there or the cap is reached.
AddRegistered(p, f) ==
    \E k \in 1 .. Len(attempts) + 1 :
        /\ ~LockedOut
        /\ PruneStopsAt(k)
        /\ Len(attempts) - k + 1 < MaxAttempts
        /\ attempts' = Append(SubSeq(attempts, k, Len(attempts)), now)
        /\ ledger' = Append(ledger, now)
        /\ UNCHANGED <<lockoutUntil, now>>
        /\ IF Listed(p) \/ CapReached THEN UNCHANGED peerVars ELSE Enlist(p, f)

AddPending(p, f) == AddWhileLockedOut \/ AddHitsLimit \/ AddRegistered(p, f)

\* Mutant of SetPeerState: every call pins.
SetPeerStatePinning(p, s, pin) ==
    /\ state' = IF Listed(p) THEN [state EXCEPT ![p] = s] ELSE state
    /\ pinned' = IF Listed(p) THEN pinned \cup {p} ELSE pinned
    /\ UNCHANGED <<fingerprint, rateVars, now>>

\* set_peer_state: any state may be replaced by any other; a pin is only
\* ever set.
SetPeerState(p, s, pin) ==
    /\ state' = IF Listed(p) THEN [state EXCEPT ![p] = s] ELSE state
    /\ pinned' = IF Listed(p) /\ pin THEN pinned \cup {p} ELSE pinned
    /\ UNCHANGED <<fingerprint, rateVars, now>>

Accept(p, pin) ==
    /\ SetPeerState(p, "accepted", pin)
    /\ userAccepted' = IF Listed(p) THEN userAccepted \cup {p} ELSE userAccepted
    /\ userPinned' = IF Listed(p) /\ pin THEN userPinned \cup {p} ELSE userPinned

Reject(p) ==
    SetPeerState(p, "rejected", FALSE) /\ UNCHANGED <<userAccepted, userPinned>>

DisconnectPeer(p) ==
    SetPeerState(p, "disconnected", FALSE) /\ UNCHANGED <<userAccepted, userPinned>>

\* Every listed peer, without a callback; the pins stay.
RevokeAll ==
    /\ state' = [p \in Peers |-> IF Listed(p) THEN "revoked" ELSE "absent"]
    /\ UNCHANGED <<fingerprint, pinned, userAccepted, userPinned, rateVars, now>>

Tick == now < MaxTime /\ now' = now + 1 /\ UNCHANGED <<peerVars, rateVars>>

Next ==
    \/ \E p \in Peers, f \in Fingerprints : AddPending(p, f)
    \/ \E p \in Peers, pin \in BOOLEAN : Accept(p, pin)
    \/ \E p \in Peers : Reject(p)
    \/ \E p \in Peers : DisconnectPeer(p)
    \/ RevokeAll
    \/ Tick

Spec == Init /\ [][Next]_admissionVars

-----------------------------------------------------------------------------

\* The pin of every peer goes back to a user: a pinned peer has the
\* fingerprint of a peer the user accepted with a pin, through however many
\* automatic acceptances (the auto-accept loop of tether_admission_add_pending
\* pins the peers it accepts).
PinProvenance ==
    \A p \in pinned : \E q \in userPinned : fingerprint[q] = fingerprint[p]

\* No peer that presents a fingerprint is accepted out of nothing: the user
\* accepted it, or accepted with a pin a peer that presented the same one.  It
\* says nothing of a peer without a fingerprint: the auto-accept loop of
\* tether_admission_add_pending compares strings and finds two empty ones
\* equal (see MediaNeedsAccept of module Sender, which does not hold).
AcceptProvenance ==
    \A p \in Accepted :
        fingerprint[p] # NoPrint =>
            p \in userAccepted \/ \E q \in userPinned : fingerprint[q] = fingerprint[p]

\* Every window of rate_limit_window_seconds holds at most
\* rate_limit_max_attempts registered attempts, wherever the window starts and
\* whatever lockouts, expiries and prunings lie in between.
RateWindow ==
    \A i \in 1 .. Len(ledger) - MaxAttempts :
        ledger[i] + Window < ledger[i + MaxAttempts]

\* An automatic acceptance never takes the accepted peers over the cap
\* (count_locked is compared before the pin is).
AutoAcceptRespectsCap ==
    [][\A p \in Peers : ~Listed(p) /\ p \in Accepted' =>
            Cardinality(Accepted') <= MaxReceivers]_admissionVars

\* The pins survive every operation, so that a pinned peer stays recognised
\* after it is rejected, disconnected or revoked; and the fingerprint a pin
\* stands for never changes under it.
PinsAreKept ==
    [][\A p \in pinned : p \in pinned' /\ fingerprint'[p] = fingerprint[p]]_admissionVars

=============================================================================
