-------------------------- MODULE FramePipelineProofs --------------------------
(***************************************************************************)
(* Theorems about the video pipeline, for any number of captures, sessions *)
(* and frames.  Inv is inductive: what each lock and each phase says of    *)
(* the worker, and how far the encoders are behind the captures.           *)
(***************************************************************************)
EXTENDS FramePipeline, TLAPS

\* A lock is held exactly where the worker needs it, and the capture the
\* worker copied a frame of is one of the sender's.
LockInv ==
    /\ frameLock <=> pc = "take"
    /\ sessionLock <=> pc = "push"
    /\ pc \in {"encode", "push", "relock"} => at \in Captures

\* How far create and release have come says who may still run.
PhaseInv ==
    /\ pc = "none" <=> phase = "creating"
    /\ running <=> phase \in {"started", "open", "unhooked"}
    /\ hooked <=> phase = "open"
    /\ drawing # 0 => hooked
    /\ pc = "done" => ~running
    /\ phase \in {"joined", "released"} => pc = "done"

\* The encoders never run ahead of a capture, they are behind one whose frame
\* is ready, and the frame the worker copied is newer than what they have.
FrameInv ==
    /\ \A p \in Peers, i \in Captures :
        /\ pts[p][i] <= coded[p][i]
        /\ coded[p][i] <= frame[i]
        /\ ready[i] => coded[p][i] < frame[i]
    /\ pc \in {"encode", "push"} =>
        /\ local <= frame[at]
        /\ ready[at] => local < frame[at]
        /\ \A p \in Peers : coded[p][at] < local

Inv == TypeOK /\ LockInv /\ PhaseInv /\ NoLostWakeup /\ FrameInv

LEMMA InitInv == Init => Inv
<1> SUFFICES ASSUME Init PROVE Inv
  OBVIOUS
<1> USE DEF Init, Captures, Frames
<1>1. N \in Nat \ {0} /\ MaxFrames \in Nat
  BY PipelineAssumption
<1>2. TypeOK
  <2>1. drawing \in 0 .. N /\ at \in 1 .. N + 1 /\ 0 \in Frames
    BY <1>1
  <2>2. ready \in [Captures -> BOOLEAN] /\ hooked \in BOOLEAN /\ running \in BOOLEAN
        /\ frameLock \in BOOLEAN /\ sessionLock \in BOOLEAN
    OBVIOUS
  <2>3. frame \in [Captures -> Frames] /\ local \in Frames /\ sessions \in SUBSET Peers
    BY <2>1
  <2>4. coded \in [Peers -> [Captures -> Frames]] /\ pts \in [Peers -> [Captures -> Frames]]
    BY <2>1
  <2>5. QED
    BY <2>1, <2>2, <2>3, <2>4 DEF TypeOK
<1>3. LockInv /\ PhaseInv /\ NoLostWakeup
  BY DEF LockInv, PhaseInv, NoLostWakeup
<1>4. FrameInv
  BY DEF FrameInv
<1>5. QED
  BY <1>2, <1>3, <1>4 DEF Inv

\* The frames of a capture that was given another frame by the render thread
\* are still ahead of the encoders.
LEMMA StoreKeepsInv == Inv /\ StoreFrame => Inv'
<1> SUFFICES ASSUME Inv, StoreFrame PROVE Inv'
  OBVIOUS
<1> USE DEF Captures, Frames
<1>1. drawing \in 1 .. N /\ N \in Nat /\ MaxFrames \in Nat
  BY PipelineAssumption DEF Inv, TypeOK, StoreFrame
<1>2. TypeOK'
  <2>1. frame' \in [Captures -> Frames] /\ drawing' \in 0 .. N
    BY <1>1 DEF Inv, TypeOK, StoreFrame, NextDrawn
  <2>2. ready' \in [Captures -> BOOLEAN]
    BY <1>1 DEF Inv, TypeOK, StoreFrame
  <2>3. pc' \in {"none", "top", "waiting", "take", "encode", "push", "relock", "done"}
    BY DEF Inv, TypeOK, StoreFrame, Woken
  <2>4. QED
    BY <2>1, <2>2, <2>3 DEF Inv, TypeOK, StoreFrame, sessionVars
<1>3. LockInv'
  BY DEF Inv, LockInv, StoreFrame, Woken
<1>4. PhaseInv'
  BY DEF Inv, PhaseInv, StoreFrame, Woken
<1>5. NoLostWakeup'
  BY DEF Inv, NoLostWakeup, StoreFrame, Woken
<1>6. FrameInv'
  <2>1. \A i \in Captures : /\ frame[i] \in Nat
                            /\ frame'[i] = IF i = drawing THEN frame[i] + 1 ELSE frame[i]
                            /\ ready'[i] => (i = drawing \/ ready[i])
    BY <1>1 DEF Inv, TypeOK, StoreFrame
  <2>2. ASSUME NEW p \in Peers, NEW i \in Captures
        PROVE  /\ pts'[p][i] <= coded'[p][i]
               /\ coded'[p][i] <= frame'[i]
               /\ ready'[i] => coded'[p][i] < frame'[i]
    <3>1. pts' = pts /\ coded' = coded
      BY DEF StoreFrame, sessionVars
    <3>2. coded[p] \in [Captures -> Frames]
      BY DEF Inv, TypeOK
    <3>3. coded[p][i] \in Nat
      BY <1>1, <3>2
    <3>4. QED
      BY <2>1, <3>1, <3>3 DEF Inv, FrameInv
  <2>3. pc' \in {"encode", "push"} => pc \in {"encode", "push"}
    BY DEF StoreFrame, Woken
  <2>4. ASSUME pc' \in {"encode", "push"}
        PROVE  /\ local' <= frame'[at']
               /\ ready'[at'] => local' < frame'[at']
               /\ \A p \in Peers : coded'[p][at'] < local'
    <3>1. at \in Captures /\ at' = at /\ local' = local /\ coded' = coded /\ local \in Nat
      BY <2>3, <2>4 DEF Inv, LockInv, TypeOK, StoreFrame, sessionVars
    <3>2. /\ local <= frame[at]
          /\ ready[at] => local < frame[at]
          /\ \A p \in Peers : coded[p][at] < local
      BY <2>3, <2>4 DEF Inv, FrameInv
    <3>3. QED
      BY <2>1, <3>1, <3>2
  <2>5. QED
    BY <2>2, <2>4 DEF FrameInv
<1>7. QED
  BY <1>2, <1>3, <1>4, <1>5, <1>6 DEF Inv

\* The worker takes a frame the encoders do not have yet.
LEMMA TakeKeepsInv == Inv /\ TakeFrame => Inv'
<1> SUFFICES ASSUME Inv, TakeFrame PROVE Inv'
  OBVIOUS
<1> USE DEF Captures, Frames
<1>1. at \in 1 .. N /\ N \in Nat /\ frame[at] \in Frames /\ ready \in [Captures -> BOOLEAN]
  BY PipelineAssumption DEF Inv, TypeOK, TakeFrame
<1>2. TypeOK'
  BY <1>1 DEF Inv, TypeOK, TakeFrame, sessionVars
<1>3. LockInv'
  BY <1>1 DEF Inv, LockInv, TakeFrame
<1>4. PhaseInv'
  BY DEF Inv, PhaseInv, TakeFrame
<1>5. NoLostWakeup'
  BY DEF NoLostWakeup, TakeFrame
<1>6. FrameInv'
  <2>1. ~ready'[at] /\ \A i \in Captures : ready'[i] => ready[i]
    BY <1>1 DEF TakeFrame
  <2>2. /\ pts' = pts /\ coded' = coded /\ frame' = frame /\ at' = at /\ local' = frame[at]
        /\ ready[at]
    BY DEF TakeFrame, sessionVars
  <2>3. \A p \in Peers : coded[p][at] < frame[at]
    BY <1>1, <2>2 DEF Inv, FrameInv
  <2>4. frame[at] <= frame[at]
    BY <1>1 DEF Frames
  <2>5. QED
    BY <2>1, <2>2, <2>3, <2>4 DEF Inv, FrameInv
<1>7. QED
  BY <1>2, <1>3, <1>4, <1>5, <1>6 DEF Inv

\* Each session's encoder gets a frame newer than the last, or none.
LEMMA EncodeKeepsInv == Inv /\ EncodeCapture => Inv'
<1> SUFFICES ASSUME Inv, EncodeCapture PROVE Inv'
  OBVIOUS
<1> USE DEF Captures, Frames
<1>1. PICK fresh \in SUBSET sessions : \E failed \in SUBSET fresh :
        /\ coded' = [p \in Peers |-> IF p \in sessions \ failed
                                     THEN [coded[p] EXCEPT ![at] = local] ELSE coded[p]]
        /\ pts' = [p \in Peers |-> IF p \in sessions
                                   THEN [pts[p] EXCEPT ![at] = NextPts(p, fresh, failed)] ELSE pts[p]]
  BY DEF EncodeCapture
<1>2. PICK failed \in SUBSET fresh :
        /\ coded' = [p \in Peers |-> IF p \in sessions \ failed
                                     THEN [coded[p] EXCEPT ![at] = local] ELSE coded[p]]
        /\ pts' = [p \in Peers |-> IF p \in sessions
                                   THEN [pts[p] EXCEPT ![at] = NextPts(p, fresh, failed)] ELSE pts[p]]
  BY <1>1
<1>3. at \in 1 .. N /\ N \in Nat /\ MaxFrames \in Nat /\ local \in Frames
  BY PipelineAssumption DEF Inv, TypeOK, LockInv, EncodeCapture
<1>4. ASSUME NEW p \in Peers
      PROVE  /\ NextPts(p, fresh, failed) \in Frames
             /\ NextPts(p, fresh, failed) <= (IF p \in failed THEN coded[p][at] ELSE local)
  <2>1. pts[p][at] \in Nat /\ coded[p][at] \in Nat /\ local \in Nat /\ local <= MaxFrames
    BY <1>3 DEF Inv, TypeOK
  <2>2. pts[p][at] <= coded[p][at] /\ coded[p][at] < local
    BY <1>3 DEF Inv, FrameInv, EncodeCapture
  <2>3. QED
    BY <2>1, <2>2, <1>3 DEF NextPts
<1>5. ASSUME NEW p \in Peers, NEW i \in Captures
      PROVE  /\ pts[p][i] \in Frames /\ coded[p][i] \in Frames
             /\ coded'[p][i] = IF i = at /\ p \in sessions \ failed THEN local ELSE coded[p][i]
             /\ pts'[p][i] = IF i = at /\ p \in sessions THEN NextPts(p, fresh, failed) ELSE pts[p][i]
  BY <1>2, <1>3 DEF Inv, TypeOK
<1>6. TypeOK'
  <2>1. coded' \in [Peers -> [Captures -> Frames]]
    BY <1>2, <1>3 DEF Inv, TypeOK
  <2>2. pts' \in [Peers -> [Captures -> Frames]]
    BY <1>2, <1>3, <1>4 DEF Inv, TypeOK
  <2>3. QED
    BY <2>1, <2>2 DEF Inv, TypeOK, EncodeCapture, captureVars
<1>7. LockInv'
  BY <1>3 DEF Inv, LockInv, EncodeCapture
<1>8. PhaseInv'
  BY DEF Inv, PhaseInv, EncodeCapture
<1>9. NoLostWakeup'
  BY DEF NoLostWakeup, EncodeCapture
<1>10. FrameInv'
  <2>1. ASSUME NEW p \in Peers, NEW i \in Captures
        PROVE  /\ pts'[p][i] <= coded'[p][i]
               /\ coded'[p][i] <= frame'[i]
               /\ ready'[i] => coded'[p][i] < frame'[i]
    <3>1. frame' = frame /\ ready' = ready
      BY DEF EncodeCapture, captureVars
    <3>2. CASE i # at
      BY <1>5, <3>1, <3>2 DEF Inv, FrameInv
    <3>3. CASE i = at
      <4>1. local <= frame[i] /\ (ready[i] => local < frame[i])
        BY <3>3 DEF Inv, FrameInv, EncodeCapture
      <4>2. coded[p][i] <= frame[i] /\ (ready[i] => coded[p][i] < frame[i]) /\ pts[p][i] <= coded[p][i]
        BY DEF Inv, FrameInv
      <4>3. QED
        BY <1>4, <1>5, <3>1, <3>3, <4>1, <4>2
    <3>4. QED
      BY <3>2, <3>3
  <2>2. pc' \notin {"encode", "push"}
    BY DEF EncodeCapture
  <2>3. QED
    BY <2>1, <2>2 DEF FrameInv
<1>11. QED
  BY <1>6, <1>7, <1>8, <1>9, <1>10 DEF Inv

\* The frames and the encoders are what they were, and the worker has copied
\* no frame it had not copied before.
LEMMA QuietStep ==
  ASSUME Inv, UNCHANGED <<captureVars, coded, pts>>,
         pc' \in {"encode", "push"} => pc \in {"encode", "push"} /\ UNCHANGED <<at, local>>
  PROVE  FrameInv'
  BY DEF Inv, FrameInv, captureVars

LEMMA NextInv == Inv /\ [Next]_vars => Inv'
<1> SUFFICES ASSUME Inv, [Next]_vars PROVE Inv'
  OBVIOUS
<1> USE DEF Captures, Frames, Inv, workerVars, sessionVars
<1>0. N \in Nat \ {0}
  BY PipelineAssumption
<1>1. CASE StartWorker
  BY <1>1, QuietStep DEF StartWorker, TypeOK, LockInv, PhaseInv, NoLostWakeup, captureVars
<1>2. CASE Hook
  BY <1>2, QuietStep DEF Hook, TypeOK, LockInv, PhaseInv, NoLostWakeup, captureVars
<1>3. CASE Unhook
  BY <1>3, QuietStep DEF Unhook, TypeOK, LockInv, PhaseInv, NoLostWakeup, captureVars
<1>4. CASE Stop
  BY <1>4, QuietStep DEF Stop, Woken, TypeOK, LockInv, PhaseInv, NoLostWakeup, captureVars
<1>5. CASE Join
  BY <1>5, QuietStep DEF Join, TypeOK, LockInv, PhaseInv, NoLostWakeup, captureVars
<1>6. CASE Free
  BY <1>6, QuietStep DEF Free, TypeOK, LockInv, PhaseInv, NoLostWakeup, captureVars
<1>7. CASE Draw
  <2>1. 1 \in 0 .. N
    BY <1>0, <1>7 DEF Draw, TypeOK
  <2>2. TypeOK'
    BY <2>1, <1>7 DEF Draw, TypeOK, captureVars
  <2>3. QED
    BY <2>2, <1>7, QuietStep DEF Draw, LockInv, PhaseInv, NoLostWakeup, captureVars
<1>8. CASE SkipCapture
  <2>1. NextDrawn \in 0 .. N
    BY <1>0, <1>8 DEF SkipCapture, NextDrawn, TypeOK
  <2>2. TypeOK'
    BY <2>1, <1>8 DEF SkipCapture, TypeOK, captureVars
  <2>3. QED
    BY <2>2, <1>8, QuietStep DEF SkipCapture, LockInv, PhaseInv, NoLostWakeup, captureVars
<1>9. CASE StoreFrame
  BY <1>9, StoreKeepsInv
<1>10. CASE Scan
  <2>1. TypeOK'
    BY <1>0, <1>10 DEF Scan, TypeOK, captureVars
  <2>2. QED
    BY <2>1, <1>10, QuietStep DEF Scan, LockInv, PhaseInv, NoLostWakeup, captureVars
<1>11. CASE PassCapture
  <2>1. at + 1 \in 1 .. N + 1
    BY <1>0, <1>11 DEF PassCapture, TypeOK
  <2>2. TypeOK'
    BY <2>1, <1>11 DEF PassCapture, TypeOK, captureVars
  <2>3. QED
    BY <2>2, <1>11, QuietStep DEF PassCapture, LockInv, PhaseInv, NoLostWakeup, captureVars
<1>12. CASE PassEnd
  <2>1. TypeOK'
    BY <1>12 DEF PassEnd, TypeOK, captureVars
  <2>2. QED
    BY <2>1, <1>12, QuietStep DEF PassEnd, LockInv, PhaseInv, NoLostWakeup, captureVars
<1>13. CASE TakeFrame
  BY <1>13, TakeKeepsInv
<1>14. CASE LockSessions
  <2>1. TypeOK'
    BY <1>14 DEF LockSessions, TypeOK, captureVars
  <2>2. QED
    BY <2>1, <1>14, QuietStep DEF LockSessions, LockInv, PhaseInv, NoLostWakeup, captureVars
<1>15. CASE EncodeCapture
  BY <1>15, EncodeKeepsInv
<1>16. CASE Relock
  <2>0. at \in 1 .. N
    BY <1>16 DEF Relock, LockInv, PhaseInv, NoLostWakeup, TypeOK, Captures
  <2>a. at + 1 \in 1 .. N + 1
    BY ONLY <1>0, <2>0
  <2>1. TypeOK'
    BY <1>16, <2>a DEF Relock, TypeOK, captureVars
  <2>2. QED
    BY <2>1, <1>16, QuietStep DEF Relock, LockInv, PhaseInv, NoLostWakeup, captureVars
<1>17. CASE WakeAnyway
  <2>1. TypeOK'
    BY <1>17 DEF WakeAnyway, TypeOK, captureVars
  <2>2. QED
    BY <2>1, <1>17, QuietStep DEF WakeAnyway, LockInv, PhaseInv, NoLostWakeup, captureVars
<1>18. ASSUME NEW p \in Peers, CreateSession(p) PROVE Inv'
  BY <1>18, QuietStep DEF CreateSession, TypeOK, LockInv, PhaseInv, NoLostWakeup, captureVars
<1>19. CASE UNCHANGED vars
  BY <1>19, QuietStep DEF vars, TypeOK, LockInv, PhaseInv, NoLostWakeup, captureVars
<1>20. QED
  BY <1>1, <1>2, <1>3, <1>4, <1>5, <1>6, <1>7, <1>8, <1>9, <1>10, <1>11, <1>12, <1>13,
     <1>14, <1>15, <1>16, <1>17, <1>18, <1>19
  DEF Next, Owner, Render, Worker

LEMMA Inductive == Spec => []Inv
  BY InitInv, NextInv, PTL DEF Spec

\* Every variable of the pipeline has its type; the worker never looks past
\* the captures of encoder_worker_main's loop.
THEOREM PipelineTypeCorrect == Spec => []TypeOK
  BY Inductive, PTL DEF Inv

\* The worker of encoder_worker_main never waits while a frame is ready or
\* release has told it to stop.
THEOREM NoWakeupIsLost == Spec => []NoLostWakeup
  BY Inductive, PTL DEF Inv

\* encode_capture_to_sessions runs without the lock capture_one needs.
THEOREM RenderIsNotHeldUp == Spec => []EncodesUnlocked
<1>1. Inv => EncodesUnlocked
  BY DEF Inv, LockInv, EncodesUnlocked
<1>2. QED
  BY <1>1, Inductive, PTL

\* No encoder is given a frame of capture_one twice.
THEOREM FramesAreEncodedOnce == Spec => []NoFrameTwice
<1>1. Inv => NoFrameTwice
  BY DEF Inv, FrameInv, NoFrameTwice
<1>2. QED
  BY <1>1, Inductive, PTL

\* When tether_sender_release frees the sessions and the captures, the worker
\* has ended and the render callback neither runs nor will.
THEOREM ReleaseIsSafe == Spec => []NothingOutlivesRelease
<1>1. Inv => NothingOutlivesRelease
  BY DEF Inv, LockInv, PhaseInv, NothingOutlivesRelease
<1>2. QED
  BY <1>1, Inductive, PTL

-----------------------------------------------------------------------------
(* The pipeline implements module LatestFrame.                             *)

\* A frame that is ready was drawn.
ReadyIsDrawn == \A i \in Captures : ready[i] => frame[i] # 0

\* The frame on its way is the copy of the worker.
Moving == IF pc \in {"encode", "push"} THEN [frame |-> local, of |-> at]
          ELSE [frame |-> 0, of |-> 0]

Waiting == [i \in Captures |-> IF ready[i] THEN frame[i] ELSE 0]

\* Three steps move frames, every other one leaves them where they are.
LEMMA FrameSteps ==
    ASSUME Inv, [Next]_vars
    PROVE  \/ StoreFrame \/ TakeFrame \/ EncodeCapture
           \/ UNCHANGED <<captureVars, coded, Moving>>
<1> USE DEF workerVars, sessionVars, captureVars, Moving
<1>1. CASE Owner
  <2>1. pc' = pc \/ (pc \notin {"encode", "push"} /\ pc' \notin {"encode", "push"})
    <3>1. CASE StartWorker
      BY <3>1 DEF Inv, PhaseInv, StartWorker
    <3>2. CASE Stop
      BY <3>2 DEF Stop, Woken
    <3>3. CASE Hook \/ Unhook \/ Join \/ Free
      BY <3>3 DEF Hook, Unhook, Join, Free
    <3> QED
      BY <1>1, <3>1, <3>2, <3>3 DEF Owner
  <2>2. UNCHANGED <<captureVars, coded, at, local>>
    BY <1>1 DEF Owner, StartWorker, Hook, Unhook, Stop, Join, Free
  <2> QED
    BY <2>1, <2>2
<1>2. CASE Draw \/ SkipCapture \/ WakeAnyway \/ \E p \in Peers : CreateSession(p)
  BY <1>2 DEF Draw, SkipCapture, WakeAnyway, CreateSession
<1>3. CASE Scan
  BY <1>3 DEF Scan
<1>4. CASE PassCapture \/ PassEnd \/ LockSessions \/ Relock
  BY <1>4 DEF PassCapture, PassEnd, LockSessions, Relock
<1>5. CASE UNCHANGED vars
  BY <1>5 DEF vars
<1> QED
  BY <1>1, <1>2, <1>3, <1>4, <1>5 DEF Next, Render, Worker

LEMMA ReadyStaysDrawn == Inv /\ ReadyIsDrawn /\ [Next]_vars => ReadyIsDrawn'
<1> SUFFICES ASSUME Inv, ReadyIsDrawn, [Next]_vars PROVE ReadyIsDrawn'
  OBVIOUS
<1>1. CASE StoreFrame
  <2>1. /\ frame \in [Captures -> Frames] /\ ready \in [Captures -> BOOLEAN]
        /\ drawing # 0 /\ drawing \in 0 .. N /\ N \in Nat /\ MaxFrames \in Nat
    BY <1>1, PipelineAssumption DEF Inv, TypeOK, StoreFrame
  <2>2. /\ drawing \in Captures /\ frame[drawing] + 1 # 0
        /\ frame' = [frame EXCEPT ![drawing] = frame[drawing] + 1]
        /\ ready' = [ready EXCEPT ![drawing] = TRUE]
    BY <1>1, <2>1 DEF StoreFrame, Captures, Frames
  <2> QED
    BY <2>1, <2>2 DEF ReadyIsDrawn
<1>2. CASE TakeFrame
  <2>1. ready' = [ready EXCEPT ![at] = FALSE] /\ frame' = frame
    BY <1>2 DEF TakeFrame
  <2> QED
    BY <2>1 DEF ReadyIsDrawn, Inv, TypeOK
<1>3. CASE EncodeCapture
  BY <1>3 DEF EncodeCapture, ReadyIsDrawn, captureVars
<1>4. CASE UNCHANGED <<captureVars, coded, Moving>>
  BY <1>4 DEF ReadyIsDrawn, captureVars
<1> QED
  BY <1>1, <1>2, <1>3, <1>4, FrameSteps

LEMMA ReadyDrawn == Spec => []ReadyIsDrawn
<1>1. Init => ReadyIsDrawn
  BY DEF Init, ReadyIsDrawn
<1>2. QED
  BY <1>1, ReadyStaysDrawn, Inductive, PTL DEF Spec

\* capture_one replaces the frame that waits.
LEMMA StoreIsPut == Inv /\ StoreFrame => \E i \in Captures : Latest!Put(i)
<1> SUFFICES ASSUME Inv, StoreFrame PROVE \E i \in Captures : Latest!Put(i)
  OBVIOUS
<1>1. /\ frame \in [Captures -> Frames] /\ ready \in [Captures -> BOOLEAN]
      /\ drawing # 0 /\ drawing \in 0 .. N /\ N \in Nat
  BY PipelineAssumption DEF Inv, TypeOK, StoreFrame
<1>2. /\ drawing \in Captures
      /\ frame' = [frame EXCEPT ![drawing] = frame[drawing] + 1]
      /\ ready' = [ready EXCEPT ![drawing] = TRUE]
      /\ UNCHANGED <<at, local, coded>>
  BY <1>1 DEF StoreFrame, Captures, sessionVars
<1>3. Waiting' = [Waiting EXCEPT ![drawing] = frame[drawing] + 1]
  <2>1. \A i \in Captures :
            (IF ready'[i] THEN frame'[i] ELSE 0)
              = IF i = drawing THEN frame[drawing] + 1 ELSE IF ready[i] THEN frame[i] ELSE 0
    BY <1>1, <1>2
  <2> QED
    BY <1>2, <2>1 DEF Waiting
<1>4. UNCHANGED Moving
  BY <1>2 DEF StoreFrame, Woken, Moving
<1>5. PICK i \in Captures : i = drawing
  BY <1>2
<1> HIDE DEF Waiting, Moving
<1>6. /\ frame' = [frame EXCEPT ![i] = frame[i] + 1]
      /\ Waiting' = [Waiting EXCEPT ![i] = frame[i] + 1]
      /\ UNCHANGED <<Moving, coded>>
  BY <1>2, <1>3, <1>4, <1>5
<1>7. Latest!Put(i)
  BY <1>6 DEF Latest!Put, Waiting, Moving
<1> QED
  BY <1>7

\* encoder_worker_main empties the place it copies from.
LEMMA TakeIsFetch == Inv /\ ReadyIsDrawn /\ TakeFrame => \E i \in Captures : Latest!Fetch(i)
<1> SUFFICES ASSUME Inv, ReadyIsDrawn, TakeFrame PROVE \E i \in Captures : Latest!Fetch(i)
  OBVIOUS
<1>1. /\ frame \in [Captures -> Frames] /\ ready \in [Captures -> BOOLEAN]
      /\ at \in Captures /\ ready[at]
  BY PipelineAssumption DEF Inv, TypeOK, TakeFrame, Captures
<1>2. /\ frame' = frame /\ ready' = [ready EXCEPT ![at] = FALSE]
      /\ at' = at /\ local' = frame[at] /\ UNCHANGED coded
      /\ pc = "take" /\ pc' = "encode"
  BY DEF TakeFrame, sessionVars
<1>3. Waiting' = [Waiting EXCEPT ![at] = 0]
  <2>1. \A i \in Captures :
            (IF ready'[i] THEN frame'[i] ELSE 0)
              = IF i = at THEN 0 ELSE IF ready[i] THEN frame[i] ELSE 0
    BY <1>1, <1>2
  <2> QED
    BY <1>1, <2>1 DEF Waiting
<1>4. Waiting[at] = frame[at] /\ frame[at] # 0
  BY <1>1 DEF Waiting, ReadyIsDrawn
<1>5. Moving = Latest!Nothing /\ Moving' = [frame |-> Waiting[at], of |-> at]
  BY <1>2, <1>4 DEF Moving, Latest!Nothing
<1>6. PICK i \in Captures : i = at
  BY <1>1
<1> HIDE DEF Waiting, Moving
<1>7. /\ Moving = Latest!Nothing /\ Waiting[i] # 0
      /\ Moving' = [frame |-> Waiting[i], of |-> i]
      /\ Waiting' = [Waiting EXCEPT ![i] = 0]
      /\ UNCHANGED <<frame, coded>>
  BY <1>2, <1>3, <1>4, <1>5, <1>6
<1>8. Latest!Fetch(i)
  BY <1>7 DEF Latest!Fetch, Latest!Nothing, Waiting, Moving
<1> QED
  BY <1>8

\* encode_capture_to_sessions gives the frame to the sessions whose encoder is
\* there; each of them only had older ones.
LEMMA EncodeIsHand == Inv /\ EncodeCapture => \E to \in SUBSET Peers : Latest!Hand(to)
<1> SUFFICES ASSUME Inv, EncodeCapture PROVE \E to \in SUBSET Peers : Latest!Hand(to)
  OBVIOUS
<1>1. PICK failed \in SUBSET sessions :
        coded' = [p \in Peers |-> IF p \in sessions \ failed
                                  THEN [coded[p] EXCEPT ![at] = local] ELSE coded[p]]
  BY DEF EncodeCapture
<1>2. sessions \ failed \in SUBSET Peers
  BY DEF Inv, TypeOK
<1>3. Moving = [frame |-> local, of |-> at] /\ Moving' = Latest!Nothing
  BY DEF EncodeCapture, Moving, Latest!Nothing
<1>4. Moving # Latest!Nothing
  <2>1. at # 0
    BY PipelineAssumption DEF Inv, LockInv, EncodeCapture, Captures
  <2>2. Moving.of = at /\ Latest!Nothing.of = 0
    BY <1>3 DEF Latest!Nothing
  <2> QED
    BY <2>1, <2>2
<1>5. \A p \in sessions \ failed : coded[p][Moving.of] < Moving.frame
  BY <1>2, <1>3 DEF Inv, FrameInv, EncodeCapture
<1>6. UNCHANGED <<frame, Waiting>>
  BY DEF EncodeCapture, captureVars, Waiting
<1>7. coded' = [p \in Peers |-> IF p \in sessions \ failed
                                THEN [coded[p] EXCEPT ![Moving.of] = Moving.frame] ELSE coded[p]]
  BY <1>1, <1>3
<1> HIDE DEF Moving, Waiting
<1>8. /\ Moving # Latest!Nothing
      /\ \A p \in sessions \ failed : coded[p][Moving.of] < Moving.frame
      /\ coded' = [p \in Peers |-> IF p \in sessions \ failed
                                   THEN [coded[p] EXCEPT ![Moving.of] = Moving.frame] ELSE coded[p]]
      /\ Moving' = Latest!Nothing
      /\ UNCHANGED <<frame, Waiting>>
  BY <1>3, <1>4, <1>5, <1>6, <1>7
<1>9. Latest!Hand(sessions \ failed)
  BY <1>8 DEF Latest!Hand, Latest!Nothing, Moving, Waiting
<1> QED
  BY <1>2, <1>9

\* capture_one, the worker and its encoders implement one place per capture:
\* a frame may be skipped, none is repeated and none comes after a newer one.
THEOREM PipelineIsLatestFrame == Spec => IsLatestFrame
<1>1. Init => Latest!FrameInit
  BY DEF Init, Latest!FrameInit, Latest!Nothing
<1>2. Inv /\ ReadyIsDrawn /\ [Next]_vars => [Latest!FrameNext]_(Latest!frameVars)
  <2> SUFFICES ASSUME Inv, ReadyIsDrawn, [Next]_vars
               PROVE  [Latest!FrameNext]_(Latest!frameVars)
    OBVIOUS
  <2>1. CASE StoreFrame
    BY <2>1, StoreIsPut, Zenon DEF Latest!FrameNext
  <2>2. CASE TakeFrame
    BY <2>2, TakeIsFetch, Zenon DEF Latest!FrameNext
  <2>3. CASE EncodeCapture
    BY <2>3, EncodeIsHand, Zenon DEF Latest!FrameNext
  <2>4. CASE UNCHANGED <<captureVars, coded, Moving>>
    <3>1. UNCHANGED Waiting /\ UNCHANGED <<frame, coded, Moving>>
      BY <2>4 DEF Waiting, captureVars
    <3> QED
      BY <3>1 DEF Latest!frameVars, Waiting, Moving
  <2> QED
    BY <2>1, <2>2, <2>3, <2>4, FrameSteps
<1> QED
  BY <1>1, <1>2, Inductive, ReadyDrawn, PTL DEF Spec, IsLatestFrame, Latest!FrameSpec

-----------------------------------------------------------------------------
(* What ReleaseReturns rests on.                                           *)

\* The most steps the worker still has before it ends, once it was told to.
Rest == 2 + 5 * (N + 1 - at)

Left ==
    CASE pc = "take" -> Rest
      [] pc = "encode" -> Rest - 1
      [] pc = "push" -> Rest - 2
      [] pc = "relock" -> Rest - 3
      [] pc = "top" -> 1
      [] OTHER -> 0

\* The worker does not wait for anything: not for the condition, nor for a
\* lock that is held.
Unhindered ==
    \/ pc \in {"top", "relock"} /\ ~frameLock
    \/ pc = "encode" /\ ~sessionLock
    \/ pc \in {"take", "push"}

\* While release waits in pthread_join, the worker has ended or can go on.
JoinWaitsForWork ==
    phase = "stopping" =>
        /\ Left \in Nat
        /\ pc # "done" => Left > 0 /\ Unhindered

\* And each of its steps brings the end nearer, whatever the others do.
JoinNears ==
    phase = "stopping" => Left' <= Left /\ (Worker => Left' < Left)

LEMMA StoppingWorker ==
    ASSUME Inv, phase = "stopping"
    PROVE  /\ pc \in {"top", "take", "encode", "push", "relock", "done"}
           /\ ~running /\ drawing = 0 /\ ~hooked
           /\ frameLock <=> pc = "take"
           /\ sessionLock <=> pc = "push"
           /\ N \in Nat /\ at \in 1 .. N + 1
           /\ pc \in {"encode", "push", "relock"} => at \in 1 .. N
  BY PipelineAssumption DEF Inv, TypeOK, LockInv, PhaseInv, NoLostWakeup, Captures

\* The worker's steps, in numbers.
LEMMA LeftIs ==
    ASSUME NEW n \in Nat, NEW k \in 1 .. n + 1
    PROVE  /\ 2 + 5 * (n + 1 - k) \in Nat /\ 2 + 5 * (n + 1 - k) >= 2
           /\ k \in 1 .. n => 2 + 5 * (n + 1 - k) >= 7
           /\ 2 + 5 * (n + 1 - (k + 1)) = 2 + 5 * (n + 1 - k) - 5
  OBVIOUS

LEMMA WorkIsThere == Inv => JoinWaitsForWork
<1> SUFFICES ASSUME Inv, phase = "stopping"
             PROVE  Left \in Nat /\ (pc # "done" => Left > 0 /\ Unhindered)
  BY DEF JoinWaitsForWork
<1>1. /\ Rest \in Nat /\ Rest >= 2
      /\ pc \in {"encode", "push", "relock"} => Rest >= 7
  BY StoppingWorker, LeftIs DEF Rest
<1>2. Unhindered \/ pc = "done"
  BY StoppingWorker DEF Unhindered
<1>3. Left \in Nat /\ (pc # "done" => Left > 0)
  BY <1>1, StoppingWorker DEF Left
<1> QED
  BY <1>2, <1>3

LEMMA WorkGoesOn == Inv /\ [Next]_vars => JoinNears
<1> SUFFICES ASSUME Inv, [Next]_vars, phase = "stopping"
             PROVE  Left' <= Left /\ (Worker => Left' < Left)
  BY DEF JoinNears
<1>1. /\ Rest \in Nat /\ Rest >= 2
      /\ pc \in {"encode", "push", "relock"} => Rest >= 7
  BY StoppingWorker, LeftIs DEF Rest
<1>2. Left \in Nat
  BY WorkIsThere DEF JoinWaitsForWork
<1>3. CASE Worker
  <2>1. CASE Scan
    <3>1. pc = "top" /\ pc' = "done"
      BY <2>1, StoppingWorker DEF Scan
    <3> QED
      BY <3>1 DEF Left
  <2>2. CASE PassCapture
    <3>1. pc = "take" /\ pc' = "take" /\ at' = at + 1
      BY <2>2 DEF PassCapture
    <3>2. Rest' = Rest - 5
      BY <3>1, StoppingWorker, LeftIs DEF Rest
    <3> QED
      BY <1>1, <3>1, <3>2 DEF Left
  <2>3. CASE PassEnd
    <3>1. pc = "take" /\ pc' = "top"
      BY <2>3 DEF PassEnd
    <3> QED
      BY <1>1, <3>1 DEF Left
  <2>4. CASE TakeFrame \/ LockSessions \/ EncodeCapture
    <3>1. Rest' = Rest
      BY <2>4 DEF TakeFrame, LockSessions, EncodeCapture, Rest
    <3>2. \/ pc = "take" /\ pc' = "encode"
          \/ pc = "encode" /\ pc' = "push"
          \/ pc = "push" /\ pc' = "relock"
      BY <2>4 DEF TakeFrame, LockSessions, EncodeCapture
    <3> QED
      BY <1>1, <3>1, <3>2 DEF Left
  <2>5. CASE Relock
    <3>1. pc = "relock" /\ pc' = "take" /\ at' = at + 1
      BY <2>5 DEF Relock
    <3>2. Rest' = Rest - 5
      BY <3>1, StoppingWorker, LeftIs DEF Rest
    <3> QED
      BY <1>1, <3>1, <3>2 DEF Left
  <2>6. Left' < Left
    BY <1>3, <2>1, <2>2, <2>3, <2>4, <2>5 DEF Worker
  <2>7. Left' \in Int
    <3>1. at' \in Int /\ N \in Int
      BY NextInv, PipelineAssumption DEF Inv, TypeOK
    <3>2. Rest' \in Int
      BY ONLY <3>1 DEF Rest
    <3> QED
      BY ONLY <3>2 DEF Left
  <2> QED
    BY <1>2, <2>6, <2>7
<1>4. CASE ~Worker
  <2>1. pc' = pc /\ at' = at
    <3>1. CASE Owner
      BY <3>1 DEF Owner, StartWorker, Hook, Unhook, Stop, Join, Free, workerVars
    <3>2. CASE Render \/ WakeAnyway
      BY <3>2, StoppingWorker DEF Render, Draw, SkipCapture, StoreFrame, WakeAnyway, workerVars
    <3>3. CASE UNCHANGED vars \/ \E p \in Peers : CreateSession(p)
      BY <3>3 DEF vars, CreateSession, workerVars
    <3> QED
      BY <1>4, <3>1, <3>2, <3>3 DEF Next
  <2>2. Left' = Left
    BY <2>1 DEF Left, Rest
  <2> QED
    BY <1>2, <1>4, <2>2
<1> QED
  BY <1>3, <1>4

\* tether_sender_release is not stuck in pthread_join: the worker can always go
\* on, and ends after at most Left of its steps.  With the fairness of FairSpec
\* this is why ReleaseReturns.
THEOREM JoinMakesProgress == Spec => []JoinWaitsForWork /\ [][JoinNears]_vars
  BY Inductive, WorkIsThere, WorkGoesOn, PTL DEF Spec

=============================================================================
