----------------------------- MODULE AudioCapture ------------------------------
(***************************************************************************)
(* The audio of one session of the sender: the tracks of a                 *)
(* tether_audio_sender_t (src/src/audio.c), and the steps of               *)
(* src/src/sender.c that attach them and take them down.                   *)
(*                                                                         *)
(* OBS's audio thread runs the capture callback of a track, under the      *)
(* track's lock; a callback is several steps, as the connection it pushes  *)
(* into may go meanwhile.  The owner is the thread that creates the        *)
(* session and later the one that ends it.  Samples of a track are         *)
(* numbered as OBS delivers them; the channels of one sample stay together. *)
(***************************************************************************)
EXTENDS Integers, Sequences

CONSTANTS
    Tracks,         \* the audio sources the user selected
    Frame,          \* samples of one encoded packet: 20 ms
    Capacity,       \* t->buf_capacity: 200 ms
    MaxBlock,       \* the largest block OBS delivers
    MaxSamples      \* bound: samples captured of one track

\* OBS's blocks (1024 samples) fit in the ring: on a larger one the code would
\* compute a negative fill.
ASSUME CaptureAssumption ==
    /\ Frame \in Nat \ {0} /\ Capacity \in Nat /\ MaxBlock \in Nat /\ MaxSamples \in Nat
    /\ Frame <= Capacity /\ MaxBlock <= Capacity

VARIABLES
    track,          \* none; attached; refused: nothing was attached; freed
    hooked,         \* tracks whose callback is registered at OBS
    busy,           \* tracks whose callback is running
    ring,           \* t->buf up to t->buf_fill
    taken,          \* samples captured
    sent,           \* history: samples pushed into the connection
    link,           \* r->wrtc: up or freed
    stage,          \* attaching; listed; then disconnecting or releasing; ended
    late            \* history: a push found the connection freed

vars == <<track, hooked, busy, ring, taken, sent, link, stage, late>>

TypeOK ==
    /\ track \in [Tracks -> {"none", "attached", "refused", "freed"}]
    /\ hooked \in SUBSET Tracks
    /\ busy \in SUBSET Tracks
    /\ ring \in [Tracks -> Seq(Nat)]
    /\ taken \in [Tracks -> Nat]
    /\ sent \in [Tracks -> Seq(Nat)]
    /\ link \in {"up", "freed"}
    /\ stage \in {"attaching", "listed", "disconnecting", "disconnected",
                  "releasing", "released"}
    /\ late \in BOOLEAN

Init ==
    /\ track = [t \in Tracks |-> "none"]
    /\ hooked = {}
    /\ busy = {}
    /\ ring = [t \in Tracks |-> <<>>]
    /\ taken = [t \in Tracks |-> 0]
    /\ sent = [t \in Tracks |-> <<>>]
    /\ link = "up"
    /\ stage = "attaching"
    /\ late = FALSE

-----------------------------------------------------------------------------
(* The owner.                                                              *)

\* tether_audio_sender_attach: no source of that name, no track, no encoder, or
\* a callback.  The list of tracks is the owner's own until the session is
\* listed.
Attach(t) ==
    /\ stage = "attaching"
    /\ track[t] = "none"
    /\ \/ /\ track' = [track EXCEPT ![t] = "attached"]
          /\ hooked' = hooked \cup {t}
       \/ /\ track' = [track EXCEPT ![t] = "refused"]
          /\ UNCHANGED hooked
    /\ UNCHANGED <<busy, ring, taken, sent, link, stage, late>>

\* The end of create_session.
List ==
    /\ stage = "attaching"
    /\ \A t \in Tracks : track[t] # "none"
    /\ stage' = "listed"
    /\ UNCHANGED <<track, hooked, busy, ring, taken, sent, link, late>>

\* tether_sender_disconnect_peer frees the connection first.
Disconnect ==
    /\ stage = "listed"
    /\ stage' = "disconnecting"
    /\ link' = "freed"
    /\ UNCHANGED <<track, hooked, busy, ring, taken, sent, late>>

\* Mutant of ReleaseSession: the connection first, as in a disconnect.
ReleaseLinkFirst ==
    /\ stage = "listed"
    /\ stage' = "releasing"
    /\ link' = "freed"
    /\ UNCHANGED <<track, hooked, busy, ring, taken, sent, late>>

\* release_session begins with the audio.
ReleaseSession ==
    /\ stage = "listed"
    /\ stage' = "releasing"
    /\ UNCHANGED <<track, hooked, busy, ring, taken, sent, link, late>>

\* Mutant of FreeTrack: the track goes under a callback that is running.
FreeTrackAtOnce(t) ==
    /\ stage \in {"disconnecting", "releasing"}
    /\ track[t] = "attached"
    /\ hooked' = hooked \ {t}
    /\ track' = [track EXCEPT ![t] = "freed"]
    /\ UNCHANGED <<busy, ring, taken, sent, link, stage, late>>

\* tether_audio_sender_release, for one track: OBS waits for the callback under
\* way before it takes it off its list.
FreeTrack(t) ==
    /\ stage \in {"disconnecting", "releasing"}
    /\ track[t] = "attached"
    /\ t \notin busy
    /\ hooked' = hooked \ {t}
    /\ track' = [track EXCEPT ![t] = "freed"]
    /\ UNCHANGED <<busy, ring, taken, sent, link, stage, late>>

\* The audio sender is freed; release_session then frees the connection.
FreeAudio ==
    /\ stage \in {"disconnecting", "releasing"}
    /\ \A t \in Tracks : track[t] # "attached"
    /\ stage' = IF stage = "releasing" THEN "released" ELSE "disconnected"
    /\ link' = "freed"
    /\ UNCHANGED <<track, hooked, busy, ring, taken, sent, late>>

-----------------------------------------------------------------------------
(* OBS's audio thread.                                                     *)

\* The next n samples of a track, and a ring without its first n.
Block(t, n) == [i \in 1 .. n |-> taken[t] + i]
Beyond(q, n) == SubSeq(q, n + 1, Len(q))

\* The oldest samples make room for n more.
MakeRoom(q, n) ==
    IF Len(q) + n > Capacity THEN Beyond(q, Len(q) + n - Capacity) ELSE q

\* on_audio_capture up to its loop.  A muted block is not looked at.
Capture(t, n) ==
    /\ t \in hooked \ busy
    /\ taken[t] + n <= MaxSamples
    /\ busy' = busy \cup {t}
    /\ ring' = [ring EXCEPT ![t] = MakeRoom(@, n) \o Block(t, n)]
    /\ taken' = [taken EXCEPT ![t] = @ + n]
    /\ UNCHANGED <<track, hooked, sent, link, stage, late>>

\* Mutant of Encode: the samples stay in the ring.
EncodeKeep(t) ==
    /\ t \in busy
    /\ Len(ring[t]) >= Frame
    /\ sent' = [sent EXCEPT ![t] = @ \o SubSeq(ring[t], 1, Frame)]
    /\ ring' = [ring EXCEPT ![t] = Beyond(@, 1)]
    /\ late' = (late \/ link = "freed")
    /\ UNCHANGED <<track, hooked, busy, taken, link, stage>>

\* encode_and_send with a full frame: the encoder may fail, the samples are
\* consumed either way.  A push into a freed connection is undefined; here it
\* is only recorded.
Encode(t) ==
    /\ t \in busy
    /\ Len(ring[t]) >= Frame
    /\ \/ /\ sent' = [sent EXCEPT ![t] = @ \o SubSeq(ring[t], 1, Frame)]
          /\ late' = (late \/ link = "freed")
       \/ UNCHANGED <<sent, late>>
    /\ ring' = [ring EXCEPT ![t] = Beyond(@, Frame)]
    /\ UNCHANGED <<track, hooked, busy, taken, link, stage>>

\* Mutant of Return: one frame a callback.
ReturnEarly(t) ==
    /\ t \in busy
    /\ busy' = busy \ {t}
    /\ UNCHANGED <<track, hooked, ring, taken, sent, link, stage, late>>

\* Mutant of Return: the loop goes on while there is anything in the ring.
ReturnWhenEmpty(t) ==
    /\ t \in busy
    /\ ring[t] = <<>>
    /\ busy' = busy \ {t}
    /\ UNCHANGED <<track, hooked, ring, taken, sent, link, stage, late>>

\* The loop ends when a call has consumed nothing.
Return(t) ==
    /\ t \in busy
    /\ Len(ring[t]) < Frame
    /\ busy' = busy \ {t}
    /\ UNCHANGED <<track, hooked, ring, taken, sent, link, stage, late>>

-----------------------------------------------------------------------------

Owner == List \/ Disconnect \/ ReleaseSession \/ FreeAudio
         \/ \E t \in Tracks : Attach(t) \/ FreeTrack(t)

Callback(t) == Encode(t) \/ Return(t) \/ \E n \in 1 .. MaxBlock : Capture(t, n)

Next == Owner \/ \E t \in Tracks : Callback(t)

Spec == Init /\ [][Next]_vars

\* A callback that runs goes on, and so does a thread that ends a session.
FairSpec ==
    /\ Spec
    /\ WF_vars(FreeAudio)
    /\ \A t \in Tracks : WF_vars(Encode(t) \/ Return(t)) /\ SF_vars(FreeTrack(t))

-----------------------------------------------------------------------------

\* What a receiver is sent of a track are samples in the order OBS delivered
\* them, none of them twice, whatever was dropped or could not be encoded.
SamplesInOrder ==
    \A t \in Tracks :
        LET all == sent[t] \o ring[t] IN
            \A i, j \in DOMAIN all : i < j => all[i] < all[j]

\* Between two callbacks less than one frame waits, so the audio is never
\* further behind than 20 ms, and a block is only ever cut short when it does
\* not fit in what is left of the ring; during one the ring does not overflow.
LessThanAFrameWaits ==
    \A t \in Tracks :
        /\ Len(ring[t]) <= Capacity
        /\ t \notin busy => Len(ring[t]) < Frame

\* No callback is running or can start on a track that was freed.
QuietOnceFreed ==
    \A t \in Tracks : track[t] = "freed" => t \notin hooked \cup busy

\* The connection is "borrowed" (audio.h): who ends a session by releasing the
\* sender gives it back last, so that no callback pushes into a freed one.
\* After a disconnect, which frees it first, that can happen.
LateOnlyByDisconnect == late => stage \in {"disconnecting", "disconnected"}

\* A disconnect and a release wait for the callbacks, and get to their end.
EndingEnds == stage \in {"disconnecting", "releasing"}
                  ~> stage \in {"disconnected", "released"}

=============================================================================
