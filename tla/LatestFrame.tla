------------------------------ MODULE LatestFrame ------------------------------
(***************************************************************************)
(* What the video pipeline of a sender promises its receivers: a place for *)
(* one frame per capture.  A frame that is drawn replaces the one that is  *)
(* waiting, one that is fetched leaves the place empty, one frame at a     *)
(* time is on its way, and an encoder only ever gets a frame newer than    *)
(* all it got before.  Frames may be skipped, never repeated or reordered. *)
(***************************************************************************)
EXTENDS Naturals

CONSTANTS Captures, Peers

VARIABLES
    newest,         \* the number of frames drawn of each capture
    place,          \* the frame that waits, 0 when none does
    moving,         \* the frame on its way, and of which capture
    got             \* the last frame of each capture each peer was given

frameVars == <<newest, place, moving, got>>

Nothing == [frame |-> 0, of |-> 0]

FrameInit ==
    /\ newest = [i \in Captures |-> 0]
    /\ place = [i \in Captures |-> 0]
    /\ moving = Nothing
    /\ got = [p \in Peers |-> [i \in Captures |-> 0]]

Put(i) ==
    /\ newest' = [newest EXCEPT ![i] = @ + 1]
    /\ place' = [place EXCEPT ![i] = newest[i] + 1]
    /\ UNCHANGED <<moving, got>>

Fetch(i) ==
    /\ moving = Nothing
    /\ place[i] # 0
    /\ moving' = [frame |-> place[i], of |-> i]
    /\ place' = [place EXCEPT ![i] = 0]
    /\ UNCHANGED <<newest, got>>

\* The peers that are there get the frame, the others never do.
Hand(to) ==
    /\ moving # Nothing
    /\ \A p \in to : got[p][moving.of] < moving.frame
    /\ got' = [p \in Peers |-> IF p \in to THEN [got[p] EXCEPT ![moving.of] = moving.frame]
                               ELSE got[p]]
    /\ moving' = Nothing
    /\ UNCHANGED <<newest, place>>

FrameNext ==
    \/ \E i \in Captures : Put(i) \/ Fetch(i)
    \/ \E to \in SUBSET Peers : Hand(to)

FrameSpec == FrameInit /\ [][FrameNext]_frameVars
================================================================================
