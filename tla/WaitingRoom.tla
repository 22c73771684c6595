----------------------------- MODULE WaitingRoom -----------------------------
(***************************************************************************)
(* What the signaling service promises the two sides, whatever it keeps    *)
(* in memory or on disk: a receiver knocks, waits, and negotiation         *)
(* messages (SDP, ICE) of the sender reach it only while it is admitted;   *)
(* once it is out it never comes back under the same id.                   *)
(***************************************************************************)
CONSTANT Receivers      \* the receivers, one for each hello of one

VARIABLES
    status,             \* where each receiver stands
    served              \* the receivers that got a message of the sender

wrVars == <<status, served>>

Stages == {"outside", "waiting", "admitted", "out"}

WRTypeOK == status \in [Receivers -> Stages] /\ served \in SUBSET Receivers

WRInit ==
    /\ status = [r \in Receivers |-> "outside"]
    /\ served = {}

Knock(r) ==
    /\ status[r] = "outside"
    /\ status' = [status EXCEPT ![r] = "waiting"]
    /\ UNCHANGED served

Admit(r) ==
    /\ status[r] = "waiting"
    /\ status' = [status EXCEPT ![r] = "admitted"]
    /\ UNCHANGED served

Serve(r) ==
    /\ status[r] = "admitted"
    /\ served' = served \cup {r}
    /\ UNCHANGED status

\* Rejection, revocation, a refused token, a lost connection or a restart.
Dismiss ==
    /\ status' \in [Receivers -> Stages]
    /\ \A r \in Receivers : status'[r] \in {status[r], "out"}
    /\ UNCHANGED served

WRNext ==
    \/ \E r \in Receivers : Knock(r) \/ Admit(r) \/ Serve(r)
    \/ Dismiss

WRSpec == WRInit /\ [][WRNext]_wrVars

=============================================================================
