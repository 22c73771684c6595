----------------------------- MODULE FramePipeline -----------------------------
(***************************************************************************)
(* The video pipeline of a sender (src/src/sender.c): the render thread of *)
(* OBS stores the latest frame of each capture, the encoder worker takes   *)
(* the frames that are ready and encodes them for every session, and the   *)
(* owner of the sender starts and stops both.                              *)
(*                                                                         *)
(* Frames are numbered, only the latest of a capture is kept.  A lock that *)
(* a thread holds from one step to a later one is a variable; the others   *)
(* hold it inside one action, which waits until it is free.                *)
(***************************************************************************)
EXTENDS Integers

CONSTANTS
    N,              \* captures
    Peers,
    MaxFrames       \* bound: frames stored per capture

ASSUME PipelineAssumption == N \in Nat \ {0} /\ MaxFrames \in Nat

VARIABLES
    phase,          \* how far create and release have come
    hooked,         \* graphics_render_cb is registered
    drawing,        \* the capture the render thread is at, 0 outside the callback
    frame,          \* latest_frame of each capture
    ready,          \* frame_ready of each capture
    running,        \* worker_running
    pc,             \* where the worker is
    at,             \* the capture the worker is at
    local,          \* the frame the worker has copied
    frameLock,      \* the worker holds frame_lock
    sessionLock,    \* the worker holds s->lock
    sessions,       \* peers with a session
    coded,          \* the last frame each session's encoders were given
    pts             \* their frame_pts

captureVars == <<frame, ready>>
workerVars == <<pc, at, local, frameLock, sessionLock>>
sessionVars == <<sessions, coded, pts>>
vars == <<phase, hooked, drawing, captureVars, running, workerVars, sessionVars>>

Captures == 1 .. N
Frames == 0 .. MaxFrames

TypeOK ==
    /\ phase \in {"creating", "started", "open", "unhooked", "stopping", "joined", "released"}
    /\ hooked \in BOOLEAN
    /\ drawing \in 0 .. N
    /\ frame \in [Captures -> Frames]
    /\ ready \in [Captures -> BOOLEAN]
    /\ running \in BOOLEAN
    /\ pc \in {"none", "top", "waiting", "take", "encode", "push", "relock", "done"}
    /\ at \in 1 .. N + 1
    /\ local \in Frames
    /\ frameLock \in BOOLEAN /\ sessionLock \in BOOLEAN
    /\ sessions \in SUBSET Peers
    /\ coded \in [Peers -> [Captures -> Frames]]
    /\ pts \in [Peers -> [Captures -> Frames]]

Init ==
    /\ phase = "creating"
    /\ hooked = FALSE
    /\ drawing = 0
    /\ frame = [i \in Captures |-> 0]
    /\ ready = [i \in Captures |-> FALSE]
    /\ running = FALSE
    /\ pc = "none"
    /\ at = 1
    /\ local = 0
    /\ frameLock = FALSE /\ sessionLock = FALSE
    /\ sessions = {}
    /\ coded = [p \in Peers |-> [i \in Captures |-> 0]]
    /\ pts = [p \in Peers |-> [i \in Captures |-> 0]]

-----------------------------------------------------------------------------
(* The thread that creates and releases the sender.                        *)

StartWorker ==
    /\ phase = "creating"
    /\ phase' = "started"
    /\ running' = TRUE
    /\ pc' = "top"
    /\ UNCHANGED <<hooked, drawing, captureVars, at, local, frameLock, sessionLock, sessionVars>>

Hook ==
    /\ phase = "started"
    /\ phase' = "open"
    /\ hooked' = TRUE
    /\ UNCHANGED <<drawing, captureVars, running, workerVars, sessionVars>>

\* Mutant of Unhook: the callback is left in place.
UnhookLate ==
    /\ phase = "open"
    /\ drawing = 0
    /\ phase' = "unhooked"
    /\ UNCHANGED <<hooked, drawing, captureVars, running, workerVars, sessionVars>>

\* obs_remove_main_render_callback waits for the callback to return.
Unhook ==
    /\ phase = "open"
    /\ drawing = 0
    /\ phase' = "unhooked"
    /\ hooked' = FALSE
    /\ UNCHANGED <<drawing, captureVars, running, workerVars, sessionVars>>

Woken == IF pc = "waiting" THEN "top" ELSE pc

\* Mutant of Stop: the worker is not woken.
StopQuietly ==
    /\ phase = "unhooked"
    /\ ~frameLock
    /\ phase' = "stopping"
    /\ running' = FALSE
    /\ UNCHANGED <<hooked, drawing, captureVars, workerVars, sessionVars>>

\* worker_running is cleared and the condition broadcast, under frame_lock.
Stop ==
    /\ phase = "unhooked"
    /\ ~frameLock
    /\ phase' = "stopping"
    /\ running' = FALSE
    /\ pc' = Woken
    /\ UNCHANGED <<hooked, drawing, captureVars, at, local, frameLock, sessionLock, sessionVars>>

Join ==
    /\ phase = "stopping"
    /\ pc = "done"
    /\ phase' = "joined"
    /\ UNCHANGED <<hooked, drawing, captureVars, running, workerVars, sessionVars>>

\* The sessions, then the captures.
Free ==
    /\ phase = "joined"
    /\ ~sessionLock
    /\ phase' = "released"
    /\ sessions' = {}
    /\ UNCHANGED <<hooked, drawing, captureVars, running, workerVars, coded, pts>>

\* create_session, on a signaling or the Qt thread.
CreateSession(p) ==
    /\ phase # "released"
    /\ p \notin sessions
    /\ ~sessionLock
    /\ sessions' = sessions \cup {p}
    /\ UNCHANGED <<phase, hooked, drawing, captureVars, running, workerVars, coded, pts>>

-----------------------------------------------------------------------------
(* The render thread.                                                      *)

Draw ==
    /\ hooked
    /\ drawing = 0
    /\ drawing' = 1
    /\ UNCHANGED <<phase, hooked, captureVars, running, workerVars, sessionVars>>

NextDrawn == IF drawing = N THEN 0 ELSE drawing + 1

\* The source is gone, has no size, or its frame cannot be mapped.
SkipCapture ==
    /\ drawing # 0
    /\ drawing' = NextDrawn
    /\ UNCHANGED <<phase, hooked, captureVars, running, workerVars, sessionVars>>

\* Mutant of StoreFrame: the condition is not signalled.
StoreFrameQuietly ==
    /\ drawing # 0
    /\ ~frameLock
    /\ frame[drawing] < MaxFrames
    /\ frame' = [frame EXCEPT ![drawing] = @ + 1]
    /\ ready' = [ready EXCEPT ![drawing] = TRUE]
    /\ drawing' = NextDrawn
    /\ UNCHANGED <<phase, hooked, running, workerVars, sessionVars>>

StoreFrame ==
    /\ drawing # 0
    /\ ~frameLock
    /\ frame[drawing] < MaxFrames
    /\ frame' = [frame EXCEPT ![drawing] = @ + 1]
    /\ ready' = [ready EXCEPT ![drawing] = TRUE]
    /\ pc' = Woken
    /\ drawing' = NextDrawn
    /\ UNCHANGED <<phase, hooked, running, at, local, frameLock, sessionLock, sessionVars>>

-----------------------------------------------------------------------------
(* The encoder worker.                                                     *)

\* The scan holds frame_lock; waiting on the condition and leaving release it.
Scan ==
    /\ pc = "top"
    /\ ~frameLock
    /\ pc' = IF ~running THEN "done"
             ELSE IF \E i \in Captures : ready[i] THEN "take" ELSE "waiting"
    /\ frameLock' = (pc' = "take")
    /\ at' = 1
    /\ UNCHANGED <<phase, hooked, drawing, captureVars, running, local, sessionLock, sessionVars>>

\* A condition variable may wake without a signal.
WakeAnyway ==
    /\ pc = "waiting"
    /\ pc' = "top"
    /\ UNCHANGED <<phase, hooked, drawing, captureVars, running, at, local, frameLock, sessionLock, sessionVars>>

PassCapture ==
    /\ pc = "take" /\ at <= N
    /\ ~ready[at]
    /\ at' = at + 1
    /\ UNCHANGED <<phase, hooked, drawing, captureVars, running, pc, local, frameLock, sessionLock, sessionVars>>

PassEnd ==
    /\ pc = "take" /\ at > N
    /\ pc' = "top"
    /\ frameLock' = FALSE
    /\ UNCHANGED <<phase, hooked, drawing, captureVars, running, at, local, sessionLock, sessionVars>>

\* Mutant of TakeFrame: the flag stays set.
TakeFrameAgain ==
    /\ pc = "take" /\ at <= N
    /\ ready[at]
    /\ local' = frame[at]
    /\ pc' = "encode"
    /\ frameLock' = FALSE
    /\ UNCHANGED <<phase, hooked, drawing, captureVars, running, at, sessionLock, sessionVars>>

\* The frame is copied and its flag cleared before frame_lock is released.
TakeFrame ==
    /\ pc = "take" /\ at <= N
    /\ ready[at]
    /\ local' = frame[at]
    /\ ready' = [ready EXCEPT ![at] = FALSE]
    /\ pc' = "encode"
    /\ frameLock' = FALSE
    /\ UNCHANGED <<phase, hooked, drawing, frame, running, at, sessionLock, sessionVars>>

LockSessions ==
    /\ pc = "encode"
    /\ ~sessionLock
    /\ pc' = "push"
    /\ sessionLock' = TRUE
    /\ UNCHANGED <<phase, hooked, drawing, captureVars, running, at, local, frameLock, sessionVars>>

\* ensure_source_encoder makes an encoder anew when the size of the capture
\* changed, which starts frame_pts over and may fail.
NextPts(p, fresh, failed) ==
    IF p \in failed THEN 0 ELSE IF p \in fresh THEN 1 ELSE pts[p][at] + 1

\* encode_capture_to_sessions.
EncodeCapture ==
    /\ pc = "push"
    /\ \E fresh \in SUBSET sessions : \E failed \in SUBSET fresh :
        /\ coded' = [p \in Peers |-> IF p \in sessions \ failed
                                     THEN [coded[p] EXCEPT ![at] = local] ELSE coded[p]]
        /\ pts' = [p \in Peers |-> IF p \in sessions
                                   THEN [pts[p] EXCEPT ![at] = NextPts(p, fresh, failed)] ELSE pts[p]]
    /\ pc' = "relock"
    /\ sessionLock' = FALSE
    /\ UNCHANGED <<phase, hooked, drawing, captureVars, running, at, local, frameLock, sessions>>

Relock ==
    /\ pc = "relock"
    /\ ~frameLock
    /\ frameLock' = TRUE
    /\ at' = at + 1
    /\ pc' = "take"
    /\ UNCHANGED <<phase, hooked, drawing, captureVars, running, local, sessionLock, sessionVars>>

-----------------------------------------------------------------------------

Render == Draw \/ SkipCapture \/ StoreFrame
Worker == Scan \/ PassCapture \/ PassEnd \/ TakeFrame \/ LockSessions \/ EncodeCapture \/ Relock
Owner == StartWorker \/ Hook \/ Unhook \/ Stop \/ Join \/ Free

Next ==
    \/ Owner \/ Render \/ Worker \/ WakeAnyway
    \/ \E p \in Peers : CreateSession(p)

Spec == Init /\ [][Next]_vars

\* The worker and a callback go on; a release that was called goes on, and the
\* render thread lets go of its callbacks between frames.  Nothing makes the
\* owner call release, OBS render, or a waiting worker wake by itself.
FairSpec ==
    /\ Spec
    /\ WF_vars(Worker)
    /\ WF_vars(SkipCapture)
    /\ WF_vars(Stop) /\ WF_vars(Join) /\ WF_vars(Free)

-----------------------------------------------------------------------------

\* "The worker wakes whenever ANY capture flips frame_ready true": it never
\* waits while a frame is ready, nor after release told it to stop.
NoLostWakeup == pc = "waiting" => running /\ \A i \in Captures : ~ready[i]

\* "Never block the OBS graphics/render thread": the worker does not hold the
\* lock of the render thread while it encodes.
EncodesUnlocked == pc \in {"encode", "push"} => ~frameLock

\* No encoder is given one frame twice: frame_pts counts the frames it got,
\* and those are distinct.
NoFrameTwice == \A p \in Peers, i \in Captures : pts[p][i] <= coded[p][i]

\* release frees sessions and captures after both threads have left them.
NothingOutlivesRelease ==
    phase \in {"joined", "released"} => pc = "done" /\ ~hooked /\ drawing = 0 /\ ~sessionLock

Latest == INSTANCE LatestFrame WITH
              newest <- frame,
              place <- [i \in Captures |-> IF ready[i] THEN frame[i] ELSE 0],
              moving <- IF pc \in {"encode", "push"} THEN [frame |-> local, of |-> at]
                        ELSE [frame |-> 0, of |-> 0],
              got <- coded

\* The pipeline holds one frame per capture: a frame the render thread stores
\* replaces the one that is ready, the worker empties the place when it copies
\* the frame, and every frame an encoder is given is newer than the ones before.
IsLatestFrame == Latest!FrameSpec

\* A frame that is ready is taken, unless the sender is released first.
FrameIsTaken == \A i \in Captures : ready[i] ~> ~ready[i] \/ ~running

\* tether_sender_release, past the render callback, returns.
ReleaseReturns == phase = "unhooked" ~> phase = "released"

=============================================================================
