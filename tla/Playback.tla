------------------------------- MODULE Playback --------------------------------
(***************************************************************************)
(* From the packets of a receive session to the decoders of the OBS        *)
(* sources: the callbacks and subscriptions of src/src/receive-session.c,  *)
(* src/src/source.c, and the receiver of src/src/audio.c.                  *)
(*                                                                         *)
(* A session's packets come on one thread of libdatachannel.  It copies    *)
(* the subscriptions under the session's lock and calls them without it,   *)
(* while the sources, each on a thread of OBS, unsubscribe, change what    *)
(* they show, and go.  What a call does with freed memory is undefined:    *)
(* here the call ends.                                                     *)
(***************************************************************************)
EXTENDS Integers, Sequences, FiniteSets

CONSTANTS
    Sources,
    Sessions,       \* one per token
    VideoMids, AudioMids,   \* the tracks of a sender
    Any,            \* no track is pinned
    None,           \* no session
    MaxAttaches     \* bound: subscriptions a source makes

ASSUME PlaybackAssumption ==
    /\ IsFiniteSet(Sources)
    /\ Any \notin VideoMids \cup AudioMids /\ None \notin Sessions
    /\ VideoMids \cap AudioMids = {}
    /\ MaxAttaches \in Nat

VARIABLES
    life,           \* a session: none; live; dying: out of the registry
    refs,           \* s->refcount
    kept,           \* the reference of the dialog: no, yes, or it destroys
    subs,           \* s->subs
    valid,          \* subscriptions that are allocated
    packet,         \* the track of the packet under way
    calls,          \* the copy of the subscriptions still to be called
    at,             \* where the first of those calls is
    busy,           \* decoders whose lock a call holds
    doing,          \* what OBS called on a source: none, or the operation
    stage,          \* the next step of it
    want,           \* s->token
    sub,            \* s->sub: its session
    attaches,       \* subscriptions made: their number names the last
    pin,            \* s->video_mid, s->audio_mid
    overtaken       \* history: sessions whose packet under way passed the filter
                    \* before the pins were set

sessionVars == <<life, refs, kept, subs>>
callVars == <<packet, calls, at, overtaken>>
sourceVars == <<doing, stage, want, sub, attaches>>
vars == <<sessionVars, valid, callVars, busy, sourceVars, pin>>

Mids == VideoMids \cup AudioMids
Kinds == {"video", "audio"}
KindOf(m) == IF m \in VideoMids THEN "video" ELSE "audio"

Pins == {p \in [Kinds -> Mids \cup {Any}] :
            p["video"] \notin AudioMids /\ p["audio"] \notin VideoMids}

Subscriptions == [of : Sources, no : 1 .. MaxAttaches]

TypeOK ==
    /\ life \in [Sessions -> {"none", "live", "dying"}]
    /\ refs \in [Sessions -> Nat]
    /\ kept \in [Sessions -> {"no", "yes", "destroying"}]
    /\ subs \in [Sessions -> Seq(Subscriptions)]
    /\ valid \in SUBSET Subscriptions
    /\ packet \in [Sessions -> Mids \cup {None}]
    /\ calls \in [Sessions -> Seq(Subscriptions)]
    /\ at \in [Sessions -> {"idle", "call", "passed", "decoding"}]
    /\ busy \in SUBSET (Sources \X Kinds)
    /\ doing \in [Sources -> {"unborn", "create", "none", "update", "destroy", "gone"}]
    /\ stage \in [Sources -> {"rest", "unsubscribe", "release", "await", "attach",
                              "pins", "decoder", "audio"}]
    /\ want \in [Sources -> Sessions \cup {None}]
    /\ sub \in [Sources -> Sessions \cup {None}]
    /\ attaches \in [Sources -> 0 .. MaxAttaches]
    /\ pin \in [Sources -> Pins]
    /\ overtaken \in SUBSET Sessions

Unpinned == [k \in Kinds |-> Any]

Init ==
    /\ life = [x \in Sessions |-> "none"]
    /\ refs = [x \in Sessions |-> 0]
    /\ kept = [x \in Sessions |-> "no"]
    /\ subs = [x \in Sessions |-> <<>>]
    /\ valid = {}
    /\ packet = [x \in Sessions |-> None]
    /\ calls = [x \in Sessions |-> <<>>]
    /\ at = [x \in Sessions |-> "idle"]
    /\ busy = {}
    /\ doing = [s \in Sources |-> "unborn"]
    /\ stage = [s \in Sources |-> "rest"]
    /\ want = [s \in Sources |-> None]
    /\ sub = [s \in Sources |-> None]
    /\ attaches = [s \in Sources |-> 0]
    /\ pin = [s \in Sources |-> Unpinned]
    /\ overtaken = {}

-----------------------------------------------------------------------------
(* The thread of a session: wrtc_video_cb, wrtc_audio_cb.                  *)

\* Under s->lock: the statistics and the copy of the subscriptions.
Receive(x, m) ==
    /\ at[x] = "idle"
    /\ life[x] # "none"
    /\ packet' = [packet EXCEPT ![x] = m]
    /\ calls' = [calls EXCEPT ![x] = subs[x]]
    /\ at' = [at EXCEPT ![x] = IF subs[x] = <<>> THEN "idle" ELSE "call"]
    /\ UNCHANGED overtaken
    /\ UNCHANGED <<sessionVars, valid, busy, sourceVars, pin>>

Callee(x) == Head(calls[x])
Decoder(x) == <<Callee(x).of, KindOf(packet[x])>>

NextCall(x) ==
    /\ calls' = [calls EXCEPT ![x] = Tail(@)]
    /\ at' = [at EXCEPT ![x] = IF Tail(calls[x]) = <<>> THEN "idle" ELSE "call"]
    /\ overtaken' = overtaken \ {x}
    /\ UNCHANGED packet

Enter(x, place) ==
    at' = [at EXCEPT ![x] = place] /\ UNCHANGED <<packet, calls, overtaken>>

\* The subscription was freed after it was copied.
CallFreed(x) ==
    /\ at[x] = "call"
    /\ Callee(x) \notin valid
    /\ NextCall(x)
    /\ UNCHANGED <<sessionVars, valid, busy, sourceVars, pin>>

\* Mutant of Passes: a packet passes by either pin.
PassesEither(x) == \E k \in Kinds : pin[Callee(x).of][k] \in {Any, packet[x]}

Passes(x) == pin[Callee(x).of][KindOf(packet[x])] \in {Any, packet[x]}

\* The filter at the head of on_session_video and on_session_audio.  It reads
\* the pins without a lock: while update frees them it may go either way.
Filter(x) ==
    /\ at[x] = "call"
    /\ Callee(x) \in valid
    /\ \/ Passes(x) /\ Enter(x, "passed")
       \/ ~Passes(x) /\ NextCall(x)
       \/ stage[Callee(x).of] = "pins" /\ (Enter(x, "passed") \/ NextCall(x))
    /\ UNCHANGED <<sessionVars, valid, busy, sourceVars, pin>>

\* The decoder's lock, decoder_lock or that of the audio receiver, unless the
\* source, or the receiver, was freed meanwhile.
Lock(x) ==
    /\ at[x] = "passed"
    /\ IF doing[Callee(x).of] = "gone" THEN NextCall(x) /\ UNCHANGED busy
       ELSE /\ Decoder(x) \notin busy
            /\ busy' = busy \cup {Decoder(x)}
            /\ Enter(x, "decoding")
    /\ UNCHANGED <<sessionVars, valid, sourceVars, pin>>

\* Mutant of Decode: the return on an error skips the unlock.
DecodeReturning(x) ==
    /\ at[x] = "decoding"
    /\ busy' \in {busy, busy \ {Decoder(x)}}
    /\ NextCall(x)
    /\ UNCHANGED <<sessionVars, valid, sourceVars, pin>>

\* Decode, if a decoder could be made, and unlock.
Decode(x) ==
    /\ at[x] = "decoding"
    /\ busy' = busy \ {Decoder(x)}
    /\ NextCall(x)
    /\ UNCHANGED <<sessionVars, valid, sourceVars, pin>>

-----------------------------------------------------------------------------
(* References.                                                             *)

\* The dialog registers a token.
Keep(x) ==
    /\ kept[x] = "no" /\ life[x] # "dying"
    /\ kept' = [kept EXCEPT ![x] = "yes"]
    /\ life' = [life EXCEPT ![x] = "live"]
    /\ refs' = [refs EXCEPT ![x] = @ + 1]
    /\ UNCHANGED <<subs, valid, callVars, busy, sourceVars, pin>>

\* tether_receive_session_release: the last one takes the session out of the
\* registry.
Unref(x) ==
    /\ refs' = [refs EXCEPT ![x] = @ - 1]
    /\ life' = IF refs[x] <= 1 THEN [life EXCEPT ![x] = "dying"] ELSE life

Drop(x) ==
    /\ kept[x] = "yes"
    /\ Unref(x)
    /\ kept' = [kept EXCEPT ![x] = IF refs[x] <= 1 THEN "destroying" ELSE "no"]
    /\ UNCHANGED <<subs, valid, callVars, busy, sourceVars, pin>>

\* session_destroy waits for the callback under way.
Destroy(x) == at[x] = "idle" /\ life' = [life EXCEPT ![x] = "none"]

DropEnds(x) ==
    /\ kept[x] = "destroying"
    /\ Destroy(x)
    /\ kept' = [kept EXCEPT ![x] = "no"]
    /\ UNCHANGED <<refs, subs, valid, callVars, busy, sourceVars, pin>>

-----------------------------------------------------------------------------
(* The sources.                                                            *)

Goto(s, step) == stage' = [stage EXCEPT ![s] = step]

\* The operation is over.
Finish(s, result) == doing' = [doing EXCEPT ![s] = result] /\ Goto(s, "rest")

\* create.
Create(s, x, p) ==
    /\ doing[s] = "unborn"
    /\ doing' = [doing EXCEPT ![s] = "create"]
    /\ Goto(s, "attach")
    /\ want' = [want EXCEPT ![s] = x]
    /\ pin' = [pin EXCEPT ![s] = p]
    /\ UNCHANGED <<sessionVars, valid, callVars, busy, sub, attaches>>

\* update: another token is attached first.
Update(s, x) ==
    /\ doing[s] = "none"
    /\ doing' = [doing EXCEPT ![s] = "update"]
    /\ Goto(s, IF x = want[s] /\ x # None THEN "pins"
               ELSE IF sub[s] # None THEN "unsubscribe" ELSE "attach")
    /\ want' = [want EXCEPT ![s] = x]
    /\ UNCHANGED <<sessionVars, valid, callVars, busy, sub, attaches, pin>>

\* destroy.
Remove(s) ==
    /\ doing[s] = "none"
    /\ doing' = [doing EXCEPT ![s] = "destroy"]
    /\ Goto(s, IF sub[s] # None THEN "unsubscribe" ELSE "decoder")
    /\ UNCHANGED <<sessionVars, valid, callVars, busy, want, sub, attaches, pin>>

Subscription(s) == [of |-> s, no |-> attaches[s]]

\* Mutant of Unsubscribe: the subscription stays in the list.
UnsubscribeKeeping(s) ==
    /\ stage[s] = "unsubscribe"
    /\ valid' = valid \ {Subscription(s)}
    /\ Goto(s, "release")
    /\ UNCHANGED <<sessionVars, callVars, busy, doing, want, sub, attaches, pin>>

Without(list, i) == SubSeq(list, 1, i - 1) \o SubSeq(list, i + 1, Len(list))

\* The loop that looks for the subscription b in the list of x.
Erase(x, b) ==
    IF \E i \in DOMAIN subs[x] : subs[x][i] = b
    THEN \E i \in DOMAIN subs[x] :
             subs[x][i] = b /\ subs' = [subs EXCEPT ![x] = Without(@, i)]
    ELSE UNCHANGED subs

\* tether_receive_session_unsubscribe: out of the list, and freed.
Unsubscribe(s) ==
    /\ stage[s] = "unsubscribe"
    /\ Erase(sub[s], Subscription(s))
    /\ valid' = valid \ {Subscription(s)}
    /\ Goto(s, "release")
    /\ UNCHANGED <<life, refs, kept, callVars, busy, doing, want, sub, attaches, pin>>

Unsubscribed(s) == Goto(s, IF doing[s] = "destroy" THEN "decoder" ELSE "attach")

Release(s) ==
    /\ stage[s] = "release"
    /\ Unref(sub[s])
    /\ IF refs[sub[s]] <= 1 THEN Goto(s, "await") /\ UNCHANGED sub
       ELSE Unsubscribed(s) /\ sub' = [sub EXCEPT ![s] = None]
    /\ UNCHANGED <<kept, subs, valid, callVars, busy, doing, want, attaches, pin>>

Await(s) ==
    /\ stage[s] = "await"
    /\ Destroy(sub[s])
    /\ Unsubscribed(s)
    /\ sub' = [sub EXCEPT ![s] = None]
    /\ UNCHANGED <<refs, kept, subs, valid, callVars, busy, doing, want, attaches, pin>>

Attached(s) ==
    IF doing[s] = "create" THEN Finish(s, "none") ELSE Goto(s, "pins") /\ UNCHANGED doing

\* The end of attach_session without a token, or without a session.
AttachNone(s) ==
    /\ stage[s] = "attach"
    /\ Attached(s)
    /\ UNCHANGED <<sessionVars, valid, callVars, busy, want, sub, attaches, pin>>

\* Mutant of Attach: the subscription holds no reference.
AttachUncounted(s) ==
    /\ stage[s] = "attach"
    /\ want[s] # None /\ life[want[s]] # "dying" /\ attaches[s] < MaxAttaches
    /\ attaches' = [attaches EXCEPT ![s] = @ + 1]
    /\ life' = [life EXCEPT ![want[s]] = "live"]
    /\ subs' = [subs EXCEPT ![want[s]] = Append(@, Subscription(s)')]
    /\ valid' = valid \cup {Subscription(s)'}
    /\ sub' = [sub EXCEPT ![s] = want[s]]
    /\ Attached(s)
    /\ UNCHANGED <<refs, kept, callVars, busy, want, pin>>

\* The rest of attach_session: the session of the token, made if there is none,
\* and the subscription, which keeps the reference.  Bound: a token is not
\* opened again while its session is dying.
Attach(s) ==
    /\ stage[s] = "attach"
    /\ want[s] # None /\ life[want[s]] # "dying" /\ attaches[s] < MaxAttaches
    /\ attaches' = [attaches EXCEPT ![s] = @ + 1]
    /\ life' = [life EXCEPT ![want[s]] = "live"]
    /\ refs' = [refs EXCEPT ![want[s]] = @ + 1]
    /\ subs' = [subs EXCEPT ![want[s]] = Append(@, Subscription(s)')]
    /\ valid' = valid \cup {Subscription(s)'}
    /\ sub' = [sub EXCEPT ![s] = want[s]]
    /\ Attached(s)
    /\ UNCHANGED <<kept, callVars, busy, want, pin>>

\* The end of update.
SetPins(s, p) ==
    /\ stage[s] = "pins"
    /\ pin' = [pin EXCEPT ![s] = p]
    /\ overtaken' = overtaken \cup
          {x \in Sessions : at[x] \in {"passed", "decoding"} /\ Callee(x).of = s}
    /\ Finish(s, "none")
    /\ UNCHANGED <<sessionVars, valid, packet, calls, at, busy, want, sub, attaches>>

\* release_video_decoder, under decoder_lock.
FreeVideo(s) ==
    /\ stage[s] = "decoder"
    /\ <<s, "video">> \notin busy
    /\ Goto(s, "audio")
    /\ UNCHANGED <<sessionVars, valid, callVars, busy, doing, want, sub, attaches, pin>>

\* tether_audio_receiver_release takes no lock; then the source itself goes.
FreeAudio(s) ==
    /\ stage[s] = "audio"
    /\ Finish(s, "gone")
    /\ UNCHANGED <<sessionVars, valid, callVars, busy, want, sub, attaches, pin>>

-----------------------------------------------------------------------------
CallStep(x) == CallFreed(x) \/ Filter(x) \/ Lock(x) \/ Decode(x)

Session(x) ==
    \/ \E m \in Mids : Receive(x, m)
    \/ CallStep(x)
    \/ Keep(x) \/ Drop(x) \/ DropEnds(x)

SourceStep(s) ==
    \/ Unsubscribe(s) \/ Release(s) \/ Await(s)
    \/ Attach(s) \/ AttachNone(s)
    \/ \E p \in Pins : SetPins(s, p)
    \/ FreeVideo(s) \/ FreeAudio(s)

Source(s) ==
    \/ \E x \in Sessions \cup {None}, p \in Pins : Create(s, x, p)
    \/ \E x \in Sessions \cup {None} : Update(s, x)
    \/ Remove(s)
    \/ SourceStep(s)

Next == (\E x \in Sessions : Session(x)) \/ (\E s \in Sources : Source(s))

Spec == Init /\ [][Next]_vars

\* A thread goes on with what it began; no packet has to come.
FairSpec ==
    /\ Spec
    /\ \A x \in Sessions : WF_vars(CallStep(x)) /\ WF_vars(DropEnds(x))
    /\ \A s \in Sources : WF_vars(SourceStep(s))

-----------------------------------------------------------------------------
(* Properties.                                                             *)

\* The copy outlives the lock, but not by more than one packet: a subscription
\* that was freed is called only for a packet that came before.
\* (wrtc_video_cb and wrtc_audio_cb against unsubscribe.)
LateByOnePacket ==
    [][\A x \in Sessions : at[x] = "idle" =>
         \A i \in DOMAIN calls'[x] : calls'[x][i] \in valid]_vars

\* Whoever holds a reference holds a live session: a source from its attach to
\* its release, the dialog from the registration of the token to its removal,
\* and the session itself is live as long as it lists a subscription.  Only the
\* one that gave the last reference back sees the session die.  (A call that
\* was copied before may come after all of that, see LateByOnePacket.)
HeldSessionsLive ==
    /\ \A s \in Sources : sub[s] # None =>
            life[sub[s]] = IF stage[s] = "await" THEN "dying" ELSE "live"
    /\ \A x \in Sessions : kept[x] = "yes" \/ subs[x] # <<>> => life[x] = "live"

\* A source decodes the tracks it pinned, but for a packet that passed the
\* filter before the pins were set.  (on_session_video, on_session_audio and
\* update, which share the pins without a lock.)
PinnedTracksOnly ==
    \A x \in Sessions :
        at[x] \in {"passed", "decoding"} =>
            \/ pin[Callee(x).of][KindOf(packet[x])] \in {Any, packet[x]}
            \/ stage[Callee(x).of] = "pins"
            \/ x \in overtaken

\* A source that OBS destroys is gone in the end, whatever its sessions are
\* doing: nobody holds the decoder's lock, and no session waits for its own
\* callback.
DestroyReturns == \A s \in Sources : doing[s] = "destroy" ~> doing[s] = "gone"
================================================================================
