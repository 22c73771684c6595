---------------------------- MODULE ReceiverProofs -----------------------------
(***************************************************************************)
(* Sessions, subscriptions and pins for any finite set of sources.         *)
(*                                                                         *)
(* A session counts the sources that hold it and the dialog (Counted), is  *)
(* live while it is counted, and has one thread at most that destroys it   *)
(* (Dying).  Its list has one entry of each source that is subscribed to   *)
(* it, and that entry is allocated (Listed).  From there a session outlives *)
(* its calls, and a copy of its list was valid when it was made.  The pins  *)
(* need that a call under way is of a source that was made (Born).          *)
(*                                                                         *)
(* One session's state, for any number of acceptances and losses: once the *)
(* offer is applied, the messages that would make the WebSocket's thread   *)
(* set the state again are gone (OffersInv, HelloInv), which leaves it to  *)
(* the connection's thread (StateInv).                                     *)
(***************************************************************************)
EXTENDS Playback, ReceiveSession, FiniteSetTheorems, SequenceTheorems, TLAPS

CallsInv ==
    /\ packet \in [Sessions -> Mids \cup {None}]
    /\ calls \in [Sessions -> Seq(Subscriptions)]
    /\ at \in [Sessions -> {"idle", "call", "passed", "decoding"}]
    /\ overtaken \in SUBSET Sessions
    /\ \A x \in Sessions : at[x] = "idle" <=> calls[x] = <<>>
    /\ \A x \in Sessions : life[x] = "none" => at[x] = "idle"

OtherTypes ==
    /\ life \in [Sessions -> {"none", "live", "dying"}]
    /\ refs \in [Sessions -> Nat]
    /\ kept \in [Sessions -> {"no", "yes", "destroying"}]
    /\ subs \in [Sessions -> Seq(Subscriptions)]
    /\ valid \in SUBSET Subscriptions
    /\ busy \in SUBSET (Sources \X Kinds)
    /\ doing \in [Sources -> {"unborn", "create", "none", "update", "destroy", "gone"}]
    /\ stage \in [Sources -> {"rest", "unsubscribe", "release", "await", "attach",
                              "pins", "decoder", "audio"}]
    /\ want \in [Sources -> Sessions \cup {None}]
    /\ sub \in [Sources -> Sessions \cup {None}]
    /\ attaches \in [Sources -> 0 .. MaxAttaches]
    /\ pin \in [Sources -> Pins]

\* The sources whose references a session counts.
Holders(x) == {s \in Sources : sub[s] = x /\ stage[s] # "await"}

Kept(x) == IF kept[x] = "yes" THEN 1 ELSE 0

Counted ==
    \A x \in Sessions :
        /\ refs[x] = Cardinality(Holders(x)) + Kept(x)
        /\ refs[x] > 0 => life[x] = "live"

Dying ==
    /\ \A x \in Sessions : kept[x] = "destroying" => life[x] = "dying"
    /\ \A s \in Sources : stage[s] = "await" =>
            life[sub[s]] = "dying" /\ kept[sub[s]] # "destroying"
    /\ \A s, u \in Sources :
            stage[s] = "await" /\ stage[u] = "await" /\ sub[s] = sub[u] => s = u

Stages ==
    \A s \in Sources :
        /\ stage[s] \in {"unsubscribe", "release", "await"} => sub[s] # None
        /\ stage[s] = "attach" => sub[s] = None
        /\ doing[s] = "unborn" => sub[s] = None
        /\ doing[s] \in {"unborn", "none", "gone"} => stage[s] = "rest"

Listed ==
    \A x \in Sessions :
        /\ \A i \in DOMAIN subs[x] :
              /\ subs[x][i] \in valid
              /\ sub[subs[x][i].of] = x
              /\ stage[subs[x][i].of] \notin {"release", "await"}
              /\ subs[x][i].no = attaches[subs[x][i].of]
        /\ \A i, j \in DOMAIN subs[x] : subs[x][i].of = subs[x][j].of => i = j

Inv ==
    CallsInv /\ OtherTypes /\ Counted /\ Dying /\ Stages /\ Listed

-----------------------------------------------------------------------------
(* Sets and lists.                                                         *)

\* The number of a session's holders.
LEMMA HoldersCount ==
    ASSUME NEW x
    PROVE  IsFiniteSet(Holders(x)) /\ Cardinality(Holders(x)) \in Nat
<1>1. Holders(x) \subseteq Sources
  BY DEF Holders
<1> QED
  BY <1>1, FS_Subset, FS_CardinalityType, PlaybackAssumption DEF PlaybackAssumption

\* What a session lists.
LEMMA Entries ==
    ASSUME OtherTypes, NEW x \in Sessions, NEW i \in DOMAIN subs[x]
    PROVE  subs[x][i] \in Subscriptions /\ subs[x][i].of \in Sources
<1>1. subs[x] \in Seq(Subscriptions)
  BY DEF OtherTypes
<1>2. subs[x][i] \in Subscriptions
  BY <1>1
<1> QED
  BY <1>2 DEF Subscriptions

\* A list without its i-th entry.
LEMMA WithoutIs ==
    ASSUME NEW S, NEW list \in Seq(S), NEW i \in DOMAIN list
    PROVE  /\ Without(list, i) \in Seq(S)
           /\ Len(Without(list, i)) = Len(list) - 1
           /\ \A k \in 1 .. Len(list) - 1 :
                 Without(list, i)[k] = list[IF k < i THEN k ELSE k + 1]
<1> DEFINE a == SubSeq(list, 1, i - 1)
           b == SubSeq(list, i + 1, Len(list))
<1>1. i \in 1 .. Len(list) /\ Len(list) \in Nat
  OBVIOUS
<1>2. a \in Seq(S) /\ Len(a) = i - 1 /\ \A k \in 1 .. i - 1 : a[k] = list[k]
  BY <1>1
<1>3. b \in Seq(S) /\ Len(b) = Len(list) - i
      /\ \A k \in 1 .. Len(list) - i : b[k] = list[i + k]
  <2>1. i + 1 \in Int /\ Len(list) \in Int
    BY <1>1
  <2>2. \A k \in (i + 1) .. Len(list) : list[k] \in S
    BY <1>1
  <2>b. b \in Seq(S)
    BY ONLY <2>1, <2>2, SubSeqProperties
  <2>l. Len(b) = IF i + 1 <= Len(list) THEN Len(list) - (i + 1) + 1 ELSE 0
    BY ONLY <2>1, <2>2, SubSeqProperties
  <2>3. \A k \in 1 .. Len(list) - (i + 1) + 1 : b[k] = list[(i + 1) + k - 1]
    BY ONLY <2>1, <2>2, SubSeqProperties
  <2> HIDE DEF a, b
  <2>4. Len(list) - (i + 1) + 1 = Len(list) - i
    BY ONLY <1>1
  <2>5. (IF i + 1 <= Len(list) THEN Len(list) - (i + 1) + 1 ELSE 0) = Len(list) - i
    BY ONLY <1>1
  <2>6. \A k \in 1 .. Len(list) - i : (i + 1) + k - 1 = i + k
    BY ONLY <1>1
  <2>7. Len(b) = Len(list) - i
    BY ONLY <2>l, <2>5
  <2>8. \A k \in 1 .. Len(list) - i : b[k] = list[i + k]
    BY ONLY <2>3, <2>4, <2>6
  <2> QED
    BY ONLY <2>b, <2>7, <2>8
<1>4. Without(list, i) = a \o b
  BY DEF Without
<1> HIDE DEF a, b
<1>5. a \o b \in Seq(S) /\ Len(a \o b) = Len(a) + Len(b)
  <2>1. a \in Seq(S) /\ b \in Seq(S)
    BY <1>2, <1>3
  <2> QED
    BY ONLY <2>1
<1>6. (i - 1) + (Len(list) - i) = Len(list) - 1
  BY <1>1
<1>7. ASSUME NEW k \in 1 .. Len(list) - 1
      PROVE  Without(list, i)[k] = list[IF k < i THEN k ELSE k + 1]
  <2>0. (a \o b)[k] = IF k <= Len(a) THEN a[k] ELSE b[k - Len(a)]
    <3>1. a \in Seq(S) /\ b \in Seq(S) /\ k \in 1 .. Len(a) + Len(b)
      BY <1>1, <1>2, <1>3
    <3> HIDE DEF Without
    <3> QED
      BY ONLY <3>1
  <2>1. CASE k < i
    <3>1. k \in 1 .. i - 1
      BY <2>1, <1>1
    <3>2. Without(list, i)[k] = a[k]
      BY <2>0, <3>1, <1>1, <1>2, <1>4
    <3> QED
      BY <2>1, <3>1, <3>2, <1>2
  <2>2. CASE k >= i
    <3>1. Without(list, i)[k] = b[k - (i - 1)]
      <4>1. ~(k <= i - 1)
        BY <2>2, <1>1
      <4>2. Len(a) = i - 1
        BY <1>2
      <4> QED
        BY ONLY <2>0, <4>1, <4>2, <1>4
    <3>2. k - (i - 1) \in 1 .. Len(list) - i
      BY <2>2, <1>1
    <3>3. i + (k - (i - 1)) = k + 1
      BY <1>1
    <3>4. b[k - (i - 1)] = list[k + 1]
      BY <3>2, <3>3, <1>3
    <3>5. ~(k < i)
      BY <2>2, <1>1
    <3> QED
      BY ONLY <3>1, <3>4, <3>5
  <2> QED
    BY <2>1, <2>2, <1>1
<1> QED
  BY <1>2, <1>3, <1>4, <1>5, <1>6, <1>7

-----------------------------------------------------------------------------
(* The calls of a session's thread.                                        *)

\* The next call, or the end of the packet.
LEMMA NextCallKeeps ==
    ASSUME CallsInv, NEW x \in Sessions, at[x] # "idle", NextCall(x), UNCHANGED life
    PROVE  CallsInv'
<1>1. calls[x] \in Seq(Subscriptions) /\ calls[x] # <<>>
  BY DEF CallsInv
<1>2. Tail(calls[x]) \in Seq(Subscriptions)
  BY <1>1
<1> QED
  BY <1>1, <1>2 DEF CallsInv, NextCall

\* A session's thread disturbs nothing but its own calls and the lock it holds.
LEMMA CallsKeepInv ==
    ASSUME Inv, NEW x \in Sessions,
           (\E m \in Mids : Receive(x, m)) \/ CallStep(x)
    PROVE  Inv'
<1> USE DEF sessionVars, callVars, sourceVars
<1>1. UNCHANGED <<sessionVars, valid, sourceVars, pin>>
  BY DEF Receive, CallStep, CallFreed, Filter, Lock, Decode
<1>2. CallsInv'
  <2>1. CASE \E m \in Mids : Receive(x, m)
    BY <2>1 DEF Receive, Inv, CallsInv, OtherTypes
  <2>2. CASE CallFreed(x)
    BY <2>2, NextCallKeeps DEF CallFreed, Inv
  <2>3. CASE Filter(x)
    <3>1. CASE NextCall(x)
      BY <2>3, <3>1, NextCallKeeps DEF Filter, Inv
    <3>2. CASE Enter(x, "passed")
      BY <2>3, <3>2 DEF Filter, Inv, CallsInv, Enter
    <3> QED
      BY <2>3, <3>1, <3>2 DEF Filter
  <2>4. CASE Lock(x)
    <3>1. CASE NextCall(x)
      BY <2>4, <3>1, NextCallKeeps DEF Lock, Inv
    <3>2. CASE Enter(x, "decoding")
      BY <2>4, <3>2 DEF Lock, Inv, CallsInv, Enter
    <3> QED
      BY <2>4, <3>1, <3>2 DEF Lock
  <2>5. CASE Decode(x)
    BY <2>5, NextCallKeeps DEF Decode, Inv
  <2> QED
    BY <2>1, <2>2, <2>3, <2>4, <2>5 DEF CallStep
<1>3. busy' \in SUBSET (Sources \X Kinds)
  <2>1. CASE Lock(x)
    <3>1. calls[x] \in Seq(Subscriptions) /\ calls[x] # <<>>
      BY <2>1 DEF Lock, Inv, CallsInv
    <3>2. Callee(x) \in Subscriptions
      BY <3>1 DEF Callee
    <3>3. Decoder(x) \in Sources \X Kinds
      BY <3>2 DEF Decoder, Subscriptions, KindOf, Kinds
    <3> QED
      BY <2>1, <3>3 DEF Lock, Inv, OtherTypes
  <2>2. CASE ~Lock(x)
    BY <2>2 DEF Inv, OtherTypes, Receive, CallStep, CallFreed, Filter, Decode
  <2> QED
    BY <2>1, <2>2
<1>4. OtherTypes'
  BY <1>1, <1>3 DEF Inv, OtherTypes
<1>5. UNCHANGED <<refs, life, kept, stage, sub, subs, valid, attaches, doing>>
  BY <1>1
<1>6. Counted'
  BY <1>5 DEF Inv, Counted, Holders, Kept
<1>7. Dying' /\ Stages'
  BY <1>5 DEF Inv, Dying, Stages
<1>8. Listed'
  BY <1>5 DEF Inv, Listed
<1> QED
  BY <1>2, <1>4, <1>6, <1>7, <1>8 DEF Inv

-----------------------------------------------------------------------------
(* The dialog's references.                                                *)

\* The dialog disturbs no source.
LEMMA DialogKeepsInv ==
    ASSUME Inv, NEW x \in Sessions, Keep(x) \/ Drop(x) \/ DropEnds(x)
    PROVE  Inv'
<1> USE DEF sessionVars, callVars, sourceVars
<1>1. UNCHANGED <<subs, valid, callVars, busy, sourceVars, pin>>
  BY DEF Keep, Drop, DropEnds
<1>2. \A y : Holders(y)' = Holders(y)
  BY <1>1 DEF Holders
<1>3. Cardinality(Holders(x)) \in Nat /\ refs[x] = Cardinality(Holders(x)) + Kept(x)
      /\ refs[x] \in Nat
  BY HoldersCount DEF Inv, Counted, OtherTypes
<1>4. CASE Keep(x)
  <2>1. OtherTypes' /\ CallsInv' /\ Stages' /\ Listed'
    BY <1>1, <1>3, <1>4 DEF Keep, Inv, OtherTypes, CallsInv, Stages, Listed
  <2>2. Dying'
    BY <1>1, <1>4 DEF Keep, Inv, OtherTypes, Dying
  <2>3. Counted'
    BY <1>1, <1>2, <1>3, <1>4 DEF Keep, Inv, OtherTypes, Counted, Kept
  <2> QED
    BY <2>1, <2>2, <2>3 DEF Inv
<1>5. CASE Drop(x)
  <2>1. refs[x] > 0 /\ life[x] = "live"
    BY <1>3, <1>5 DEF Drop, Kept, Inv, Counted
  <2>2. OtherTypes' /\ CallsInv'
    BY <1>1, <1>3, <1>5, <2>1 DEF Drop, Unref, Inv, OtherTypes, CallsInv
  <2>s. Stages'
    BY <1>1, <1>5 DEF Drop, Unref, Inv, Stages
  <2>l. Listed'
    BY <1>1, <1>5 DEF Drop, Unref, Inv, OtherTypes, Listed
  <2>3. Dying'
    BY <1>1, <1>5, <2>1 DEF Drop, Unref, Inv, OtherTypes, Dying
  <2>4. Counted'
    BY <1>1, <1>2, <1>3, <1>5, <2>1 DEF Drop, Unref, Inv, OtherTypes, Counted, Kept
  <2> QED
    BY <2>2, <2>s, <2>l, <2>3, <2>4 DEF Inv
<1>6. CASE DropEnds(x)
  <2>1. life[x] = "dying" /\ ~(refs[x] > 0)
    BY <1>6 DEF DropEnds, Inv, Dying, Counted
  <2>2. OtherTypes' /\ CallsInv'
    BY <1>1, <1>6 DEF DropEnds, Destroy, Inv, OtherTypes, CallsInv
  <2>s. Stages'
    BY <1>1, <1>6 DEF DropEnds, Destroy, Inv, Stages
  <2>l. Listed'
    BY <1>1, <1>6 DEF DropEnds, Destroy, Inv, OtherTypes, Listed
  <2>3. Dying'
    BY <1>1, <1>6 DEF DropEnds, Destroy, Inv, OtherTypes, Dying
  <2>4. Counted'
    BY <1>1, <1>2, <1>3, <1>6, <2>1 DEF DropEnds, Destroy, Inv, OtherTypes, Counted, Kept
  <2> QED
    BY <2>2, <2>s, <2>l, <2>3, <2>4 DEF Inv
<1> QED
  BY <1>4, <1>5, <1>6

-----------------------------------------------------------------------------
(* The sources.                                                            *)

\* A step of a source, which has no session to release, to the stage t of the
\* operation d.
Goes(s, t, d) ==
    /\ t \in {"rest", "unsubscribe", "attach", "pins", "decoder", "audio"}
    /\ d \in {"create", "none", "update", "destroy", "gone"}
    /\ stage[s] \notin {"unsubscribe", "release", "await"}
    /\ t = "unsubscribe" => sub[s] # None
    /\ t = "attach" => sub[s] = None
    /\ d \in {"none", "gone"} => t = "rest"
    /\ stage' = [stage EXCEPT ![s] = t]
    /\ doing' = [doing EXCEPT ![s] = d]

\* The steps of a source that leave its session alone.
LEMMA QuietStepsKeepInv ==
    ASSUME Inv, NEW s \in Sources,
           \/ \E x \in Sessions \cup {None}, p \in Pins : Create(s, x, p)
           \/ \E x \in Sessions \cup {None} : Update(s, x)
           \/ Remove(s) \/ AttachNone(s)
           \/ \E p \in Pins : SetPins(s, p)
           \/ FreeVideo(s) \/ FreeAudio(s)
    PROVE  Inv'
<1> USE DEF sessionVars, callVars, sourceVars, Goto, Finish, Attached
<1>1. UNCHANGED <<sessionVars, valid, packet, calls, at, busy, sub, attaches>>
  BY DEF Create, Update, Remove, AttachNone, SetPins, FreeVideo, FreeAudio
<1>2. \E t, d : Goes(s, t, d)
  <2>1. stage[s] # "rest" => doing[s] \in {"create", "update", "destroy"}
    BY DEF Inv, Stages, OtherTypes
  <2>2. CASE \E x \in Sessions \cup {None}, p \in Pins : Create(s, x, p)
    <3>1. Goes(s, "attach", "create")
      BY <2>2 DEF Goes, Create, Inv, Stages
    <3> QED
      BY <3>1
  <2>3. CASE \E x \in Sessions \cup {None} : Update(s, x)
    <3>1. Goes(s, "pins", "update") \/ Goes(s, "unsubscribe", "update") \/ Goes(s, "attach", "update")
      BY <2>3 DEF Goes, Update, Inv, Stages
    <3> QED
      BY <3>1
  <2>4. CASE Remove(s)
    <3>1. Goes(s, "unsubscribe", "destroy") \/ Goes(s, "decoder", "destroy")
      BY <2>4 DEF Goes, Remove, Inv, Stages
    <3> QED
      BY <3>1
  <2>5. CASE AttachNone(s)
    <3>1. doing' = [doing EXCEPT ![s] = doing[s]] \/ doing' = [doing EXCEPT ![s] = "none"]
      BY <2>5 DEF AttachNone, Inv, OtherTypes
    <3>2. Goes(s, "rest", "none") \/ Goes(s, "pins", doing[s])
      BY <2>1, <2>5, <3>1 DEF Goes, AttachNone
    <3> QED
      BY <3>2
  <2>6. CASE \E p \in Pins : SetPins(s, p)
    <3>1. Goes(s, "rest", "none")
      BY <2>6 DEF Goes, SetPins
    <3> QED
      BY <3>1
  <2>7. CASE FreeVideo(s)
    <3>1. doing' = [doing EXCEPT ![s] = doing[s]]
      BY <2>7 DEF FreeVideo, Inv, OtherTypes
    <3>2. Goes(s, "audio", doing[s])
      BY <2>1, <2>7, <3>1 DEF Goes, FreeVideo
    <3> QED
      BY <3>2
  <2>8. CASE FreeAudio(s)
    <3>1. Goes(s, "rest", "gone")
      BY <2>8 DEF Goes, FreeAudio
    <3> QED
      BY <3>1
  <2> QED
    BY <2>2, <2>3, <2>4, <2>5, <2>6, <2>7, <2>8
<1>t. PICK t, d : Goes(s, t, d)
  BY <1>2
<1>3. \A y : Holders(y)' = Holders(y)
  BY <1>1, <1>t DEF Goes, Holders, Inv, OtherTypes
<1>w. \/ UNCHANGED want
      \/ \E x \in Sessions \cup {None} : want' = [want EXCEPT ![s] = x]
  BY DEF Create, Update, Remove, AttachNone, SetPins, FreeVideo, FreeAudio
<1>4. want' \in [Sources -> Sessions \cup {None}]
  <2>1. want \in [Sources -> Sessions \cup {None}]
    BY DEF Inv, OtherTypes
  <2> QED
    BY ONLY <1>w, <2>1
<1>q. UNCHANGED pin \/ \E p \in Pins : pin' = [pin EXCEPT ![s] = p]
  <2> HIDE DEF Pins
  <2> QED
    BY DEF Create, Update, Remove, AttachNone, SetPins, FreeVideo, FreeAudio
<1>p. pin' \in [Sources -> Pins]
  <2>1. pin \in [Sources -> Pins]
    BY DEF Inv, OtherTypes
  <2> HIDE DEF Pins
  <2> QED
    BY ONLY <1>q, <2>1
<1>5. overtaken' \in SUBSET Sessions
  BY DEF Create, Update, Remove, AttachNone, SetPins, FreeVideo, FreeAudio,
         Inv, CallsInv
<1>6. OtherTypes'
  BY <1>1, <1>t, <1>4, <1>p DEF Goes, Inv, OtherTypes
<1>7. CallsInv'
  BY <1>1, <1>5 DEF Inv, CallsInv
<1>8. Counted'
  BY <1>1, <1>3 DEF Inv, Counted, Kept
<1>9. Dying' /\ Stages'
  <2>1. \A u \in Sources : /\ stage'[u] = IF u = s THEN t ELSE stage[u]
                           /\ doing'[u] = IF u = s THEN d ELSE doing[u]
    BY <1>t DEF Goes, Inv, OtherTypes
  <2>2. Stages'
    BY <1>1, <1>t, <2>1 DEF Goes, Inv, Stages
  <2>3. Dying'
    BY <1>1, <1>t, <2>1 DEF Goes, Inv, Dying
  <2> QED
    BY <2>2, <2>3
<1>10. Listed'
  <2>1. ASSUME NEW x \in Sessions, NEW i \in DOMAIN subs[x]
        PROVE  stage'[subs[x][i].of] \notin {"release", "await"}
    <3>1. subs[x][i].of \in Sources
      BY Entries DEF Inv
    <3> QED
      BY <3>1, <1>t DEF Goes, Inv, OtherTypes, Listed
  <2> QED
    BY <1>1, <2>1 DEF Inv, Listed
<1> QED
  BY <1>6, <1>7, <1>8, <1>9, <1>10 DEF Inv

\* A source leaves the list of its session.
LEMMA UnsubscribeKeepsInv ==
    ASSUME Inv, NEW s \in Sources, Unsubscribe(s)
    PROVE  Inv'
<1> USE DEF callVars, sourceVars, Goto
<1> DEFINE x == sub[s]
           b == Subscription(s)
<1>1. x \in Sessions /\ subs[x] \in Seq(Subscriptions)
  BY DEF Unsubscribe, Inv, OtherTypes, Stages
<1>2. /\ subs' \in [Sessions -> Seq(Subscriptions)]
      /\ \A y \in Sessions :
            /\ \A j \in DOMAIN subs'[y] :
                  \E m \in DOMAIN subs[y] :
                     subs'[y][j] = subs[y][m] /\ subs[y][m].of # s
            /\ \A j, l \in DOMAIN subs'[y] : subs'[y][j].of = subs'[y][l].of => j = l
  <2>1. \A y \in Sessions : \A m \in DOMAIN subs[y] :
           subs[y][m].of = s => y = x /\ subs[y][m] = b
    <3> SUFFICES ASSUME NEW y \in Sessions, NEW m \in DOMAIN subs[y], subs[y][m].of = s
                 PROVE  y = x /\ subs[y][m] = b
      OBVIOUS
    <3>1. subs[y][m] \in Subscriptions
      BY Entries DEF Inv
    <3>2. subs[y][m].no = attaches[s] /\ sub[s] = y
      BY DEF Inv, Listed
    <3>3. subs[y][m] = [of |-> subs[y][m].of, no |-> subs[y][m].no]
      BY ONLY <3>1 DEF Subscriptions
    <3>4. subs[y][m] = [of |-> s, no |-> attaches[s]]
      BY <3>2, <3>3
    <3> QED
      BY <3>2, <3>4 DEF Subscription
  <2>2. CASE \E i \in DOMAIN subs[x] : subs[x][i] = b
    <3>1. PICK i \in DOMAIN subs[x] :
             subs[x][i] = b /\ subs' = [subs EXCEPT ![x] = Without(@, i)]
      BY <2>2 DEF Unsubscribe, Erase
    <3> DEFINE new == Without(subs[x], i)
    <3>2. /\ new \in Seq(Subscriptions)
          /\ DOMAIN new = 1 .. Len(subs[x]) - 1
          /\ \A k \in 1 .. Len(subs[x]) - 1 :
                new[k] = subs[x][IF k < i THEN k ELSE k + 1]
      <4> DEFINE list == subs[x]
      <4>1. list \in Seq(Subscriptions)
        BY <1>1
      <4> HIDE DEF list
      <4>2. i \in DOMAIN list
        BY DEF list
      <4>3. /\ Without(list, i) \in Seq(Subscriptions)
            /\ Len(Without(list, i)) = Len(list) - 1
            /\ \A k \in 1 .. Len(list) - 1 :
                  Without(list, i)[k] = list[IF k < i THEN k ELSE k + 1]
        BY ONLY <4>1, <4>2, WithoutIs
      <4>4. DOMAIN Without(list, i) = 1 .. Len(Without(list, i))
        BY ONLY <4>3
      <4> QED
        BY <4>3, <4>4 DEF list
    <3> HIDE DEF new
    <3>3. i \in 1 .. Len(subs[x]) /\ Len(subs[x]) \in Nat /\ DOMAIN subs[x] = 1 .. Len(subs[x])
      BY <1>1
    <3>4. subs' = [subs EXCEPT ![x] = new]
      BY <3>1 DEF new
    <3>5. subs' \in [Sessions -> Seq(Subscriptions)]
      BY <3>2, <3>4 DEF Inv, OtherTypes
    <3>6. \A k \in DOMAIN new :
             /\ (IF k < i THEN k ELSE k + 1) \in DOMAIN subs[x]
             /\ (IF k < i THEN k ELSE k + 1) # i
      BY <3>2, <3>3
    <3>7. subs[x][i].of = s
      BY <3>1 DEF Subscription
    <3>8. \A m, l \in DOMAIN subs[x] : subs[x][m].of = subs[x][l].of => m = l
      BY <1>1 DEF Inv, Listed
    <3>9. /\ \A j \in DOMAIN new : \E m \in DOMAIN subs[x] :
                 new[j] = subs[x][m] /\ subs[x][m].of # s
          /\ \A j, l \in DOMAIN new : new[j].of = new[l].of => j = l
      <4> DEFINE Old(k) == IF k < i THEN k ELSE k + 1
      <4>1. \A k \in DOMAIN new : new[k] = subs[x][Old(k)] /\ Old(k) \in DOMAIN subs[x]
                                  /\ Old(k) # i
        BY <3>2, <3>6
      <4>2. \A k, l \in DOMAIN new : Old(k) = Old(l) => k = l
        BY <3>2, <3>3
      <4> HIDE DEF Old
      <4>3. \A k \in DOMAIN new : subs[x][Old(k)].of # s
        BY <4>1, <3>7, <3>8
      <4> QED
        BY <4>1, <4>2, <4>3, <3>8
    <3>10. \A y \in Sessions : subs'[y] = IF y = x THEN new ELSE subs[y]
      BY <3>4 DEF Inv, OtherTypes
    <3>11. ASSUME NEW y \in Sessions
           PROVE  /\ \A j \in DOMAIN subs'[y] :
                        \E m \in DOMAIN subs[y] :
                           subs'[y][j] = subs[y][m] /\ subs[y][m].of # s
                  /\ \A j, l \in DOMAIN subs'[y] :
                        subs'[y][j].of = subs'[y][l].of => j = l
      <4>1. CASE y = x
        BY <3>9, <3>10, <4>1
      <4>2. CASE y # x
        <5>1. subs'[y] = subs[y]
          BY <3>10, <4>2
        <5>2. \A m \in DOMAIN subs[y] : subs[y][m].of # s
          BY <2>1, <4>2
        <5>3. \A j, l \in DOMAIN subs[y] : subs[y][j].of = subs[y][l].of => j = l
          BY DEF Inv, Listed
        <5> QED
          BY <5>1, <5>2, <5>3
      <4> QED
        BY <4>1, <4>2
    <3> QED
      BY <3>5, <3>11
  <2>3. CASE ~\E i \in DOMAIN subs[x] : subs[x][i] = b
    <3>1. UNCHANGED subs
      BY <2>3 DEF Unsubscribe, Erase
    <3>2. \A y \in Sessions : \A m \in DOMAIN subs[y] : subs[y][m].of # s
      BY <2>1, <2>3
    <3> QED
      BY <3>1, <3>2 DEF Inv, Listed, OtherTypes
  <2> QED
    BY <2>2, <2>3
<1>3. /\ UNCHANGED <<life, refs, kept, callVars, busy, doing, want, sub, attaches, pin>>
      /\ stage' = [stage EXCEPT ![s] = "release"] /\ stage[s] = "unsubscribe"
      /\ valid' = valid \ {b}
  BY DEF Unsubscribe
<1>4. OtherTypes' /\ CallsInv' /\ Stages' /\ Dying'
  BY <1>2, <1>3 DEF Inv, OtherTypes, CallsInv, Stages, Dying
<1>5. Counted'
  <2>1. \A y : Holders(y)' = Holders(y)
    BY <1>3 DEF Holders, Inv, OtherTypes
  <2> QED
    BY <1>3, <2>1 DEF Inv, Counted, Kept
<1>6. Listed'
  <2>1. ASSUME NEW y \in Sessions, NEW j \in DOMAIN subs'[y]
        PROVE  /\ subs'[y][j] \in valid'
               /\ sub'[subs'[y][j].of] = y
               /\ stage'[subs'[y][j].of] \notin {"release", "await"}
               /\ subs'[y][j].no = attaches'[subs'[y][j].of]
    <3>1. PICK m \in DOMAIN subs[y] : subs'[y][j] = subs[y][m] /\ subs[y][m].of # s
      BY <1>2
    <3>2. subs[y][m] # b
      BY <3>1 DEF Subscription
    <3>3. subs[y][m].of \in Sources
      BY Entries DEF Inv
    <3> QED
      BY <1>3, <3>1, <3>2, <3>3 DEF Inv, Listed, OtherTypes
  <2> QED
    BY <1>2, <2>1 DEF Listed
<1> QED
  BY <1>4, <1>5, <1>6 DEF Inv

\* One holder less.
LEMMA HolderLeaves ==
    ASSUME Inv, NEW s \in Sources, s \in Holders(sub[s]), sub[s] \in Sessions,
           \A y \in Sessions : Holders(y)' = Holders(y) \ {s}
    PROVE  \A y \in Sessions :
              Cardinality(Holders(y)') =
                  IF y = sub[s] THEN Cardinality(Holders(y)) - 1
                                ELSE Cardinality(Holders(y))
<1> SUFFICES ASSUME NEW y \in Sessions
             PROVE  Cardinality(Holders(y)') =
                       IF y = sub[s] THEN Cardinality(Holders(y)) - 1
                                     ELSE Cardinality(Holders(y))
  OBVIOUS
<1>1. IsFiniteSet(Holders(y)) /\ Cardinality(Holders(y)) \in Nat
  BY HoldersCount
<1>2. CASE y = sub[s]
  BY <1>1, <1>2, FS_RemoveElement
<1>3. CASE y # sub[s]
  <2>1. Holders(y) \ {s} = Holders(y)
    BY <1>3 DEF Holders
  <2> QED
    BY <2>1, <1>3
<1> QED
  BY <1>2, <1>3

\* A source lets its session go.
LEMMA ReleaseKeepsInv ==
    ASSUME Inv, NEW s \in Sources, Release(s)
    PROVE  Inv'
<1> USE DEF callVars, sourceVars, Goto, Unsubscribed, Unref
<1> DEFINE x == sub[s]
<1>1. stage[s] = "release" /\ x \in Sessions /\ s \in Holders(x)
  BY DEF Release, Inv, OtherTypes, Stages, Holders
<1>2. /\ UNCHANGED <<kept, subs, valid, callVars, busy, doing, want, attaches, pin>>
      /\ refs' = [refs EXCEPT ![x] = @ - 1]
      /\ life' = IF refs[x] <= 1 THEN [life EXCEPT ![x] = "dying"] ELSE life
  BY DEF Release
<1>3. \A u \in Sources : u # s => stage'[u] = stage[u] /\ sub'[u] = sub[u]
  BY DEF Release, Inv, OtherTypes
<1>4. \/ refs[x] <= 1 /\ stage'[s] = "await" /\ sub'[s] = x
      \/ ~(refs[x] <= 1) /\ stage'[s] \in {"attach", "decoder"} /\ sub'[s] = None
  BY DEF Release, Inv, OtherTypes
<1>5. \A y \in Sessions : Holders(y)' = Holders(y) \ {s}
  BY <1>1, <1>3, <1>4, PlaybackAssumption DEF Holders, PlaybackAssumption
<1>6. \A y \in Sessions :
         /\ Cardinality(Holders(y)) \in Nat
         /\ Cardinality(Holders(y)') = IF y = x THEN Cardinality(Holders(y)) - 1
                                               ELSE Cardinality(Holders(y))
  BY <1>1, <1>5, HolderLeaves, HoldersCount
<1>7. Cardinality(Holders(x)) >= 1
  BY <1>1, HoldersCount, FS_EmptySet
<1>8. refs[x] \in Nat /\ refs[x] >= 1 /\ life[x] = "live"
  <2>1. refs[x] = Cardinality(Holders(x)) + Kept(x) /\ Kept(x) \in {0, 1}
    BY <1>1 DEF Inv, Counted, Kept
  <2>2. refs[x] \in Nat /\ refs[x] >= 1
    BY <1>1, <1>6, <1>7, <2>1
  <2> QED
    BY <1>1, <2>2 DEF Inv, Counted
<1>9. OtherTypes'
  <2>1. stage' \in [Sources -> {"rest", "unsubscribe", "release", "await", "attach",
                                "pins", "decoder", "audio"}]
        /\ sub' \in [Sources -> Sessions \cup {None}]
    BY DEF Release, Inv, OtherTypes
  <2>2. refs' \in [Sessions -> Nat] /\ life' \in [Sessions -> {"none", "live", "dying"}]
    BY <1>1, <1>2, <1>8 DEF Inv, OtherTypes
  <2> QED
    BY <1>2, <2>1, <2>2 DEF Inv, OtherTypes
<1>10. CallsInv'
  BY <1>1, <1>2, <1>8 DEF Inv, OtherTypes, CallsInv
<1>11. Counted'
  <2>1. \A y \in Sessions : refs'[y] = IF y = x THEN refs[y] - 1 ELSE refs[y]
    BY <1>1, <1>2 DEF Inv, OtherTypes
  <2>2. \A y \in Sessions :
           life'[y] = IF y = x /\ refs[x] <= 1 THEN "dying" ELSE life[y]
    BY <1>1, <1>2 DEF Inv, OtherTypes
  <2>3. \A y \in Sessions : Kept(y)' = Kept(y) /\ Kept(y) \in {0, 1}
    BY <1>2 DEF Kept
  <2>4. \A y \in Sessions : refs'[y] = Cardinality(Holders(y)') + Kept(y)'
    BY <1>6, <2>1, <2>3 DEF Inv, Counted
  <2>5. \A y \in Sessions : refs'[y] > 0 => life'[y] = "live"
    BY <1>8, <2>1, <2>2 DEF Inv, Counted
  <2> QED
    BY <2>4, <2>5 DEF Counted
<1>12. Dying' /\ Stages'
  <2>1. Stages'
    BY <1>1, <1>2, <1>3, <1>4, PlaybackAssumption
       DEF Inv, Stages, PlaybackAssumption
  <2>2. \A y \in Sessions :
           life'[y] = IF y = x /\ refs[x] <= 1 THEN "dying" ELSE life[y]
    BY <1>1, <1>2 DEF Inv, OtherTypes
  <2>3. \A u \in Sources : stage[u] = "await" => sub[u] # x /\ sub[u] \in Sessions
    BY <1>8 DEF Inv, Dying, Stages, OtherTypes
  <2>4. kept[x] # "destroying"
    BY <1>1, <1>8 DEF Inv, Dying
  <2> QED
    BY <1>1, <1>2, <1>3, <1>4, <2>1, <2>2, <2>3, <2>4 DEF Inv, Dying
<1>13. Listed'
  <2>1. ASSUME NEW y \in Sessions, NEW i \in DOMAIN subs[y]
        PROVE  subs[y][i].of \in Sources /\ subs[y][i].of # s
    BY <1>1, Entries DEF Inv, Listed
  <2> QED
    BY <1>2, <1>3, <2>1 DEF Inv, Listed
<1> QED
  BY <1>9, <1>10, <1>11, <1>12, <1>13 DEF Inv

\* A source that took the last reference has destroyed the session.
LEMMA AwaitKeepsInv ==
    ASSUME Inv, NEW s \in Sources, Await(s)
    PROVE  Inv'
<1> USE DEF callVars, sourceVars, Goto, Unsubscribed, Destroy
<1> DEFINE x == sub[s]
<1>1. stage[s] = "await" /\ x \in Sessions /\ life[x] = "dying" /\ at[x] = "idle"
      /\ kept[x] # "destroying"
  BY DEF Await, Inv, OtherTypes, Stages, Dying
<1>2. /\ UNCHANGED <<refs, kept, subs, valid, callVars, busy, doing, want, attaches, pin>>
      /\ life' = [life EXCEPT ![x] = "none"]
  BY DEF Await
<1>3. \A u \in Sources : u # s => stage'[u] = stage[u] /\ sub'[u] = sub[u]
  BY DEF Await, Inv, OtherTypes
<1>4. stage'[s] \in {"attach", "decoder"} /\ sub'[s] = None
  BY DEF Await, Inv, OtherTypes
<1>5. \A y \in Sessions : Holders(y)' = Holders(y)
  BY <1>1, <1>3, <1>4, PlaybackAssumption DEF Holders, PlaybackAssumption
<1>6. OtherTypes'
  <2>1. stage' \in [Sources -> {"rest", "unsubscribe", "release", "await", "attach",
                                "pins", "decoder", "audio"}]
        /\ sub' \in [Sources -> Sessions \cup {None}]
    BY DEF Await, Inv, OtherTypes
  <2> QED
    BY <1>1, <1>2, <2>1 DEF Inv, OtherTypes
<1>7. CallsInv'
  BY <1>1, <1>2 DEF Inv, OtherTypes, CallsInv
<1>8. \A y \in Sessions : life'[y] = IF y = x THEN "none" ELSE life[y]
  BY <1>1, <1>2 DEF Inv, OtherTypes
<1>9. Counted'
  BY <1>1, <1>2, <1>5, <1>8 DEF Inv, Counted, Kept
<1>10. Stages'
  BY <1>1, <1>2, <1>3, <1>4, PlaybackAssumption DEF Inv, Stages, PlaybackAssumption
<1>11. Dying'
  <2>1. \A u \in Sources : stage'[u] = "await" =>
           u # s /\ stage[u] = "await" /\ sub'[u] = sub[u] /\ sub[u] \in Sessions
                 /\ sub[u] # x
    BY <1>1, <1>3, <1>4 DEF Inv, Dying, Stages, OtherTypes
  <2>2. \A u \in Sources : stage'[u] = "await" =>
           life'[sub'[u]] = "dying" /\ kept'[sub'[u]] # "destroying"
    BY <1>2, <1>8, <2>1 DEF Inv, Dying
  <2>3. \A u, v \in Sources :
           stage'[u] = "await" /\ stage'[v] = "await" /\ sub'[u] = sub'[v] => u = v
    BY <2>1 DEF Inv, Dying
  <2>4. \A y \in Sessions : kept'[y] = "destroying" => life'[y] = "dying"
    BY <1>1, <1>2, <1>8 DEF Inv, Dying
  <2> QED
    BY <2>2, <2>3, <2>4 DEF Dying
<1>12. Listed'
  <2>1. ASSUME NEW y \in Sessions, NEW i \in DOMAIN subs[y]
        PROVE  subs[y][i].of \in Sources /\ subs[y][i].of # s
    BY <1>1, Entries DEF Inv, Listed
  <2> QED
    BY <1>2, <1>3, <2>1 DEF Inv, Listed
<1> QED
  BY <1>6, <1>7, <1>9, <1>10, <1>11, <1>12 DEF Inv

\* A source subscribes.
LEMMA AttachKeepsInv ==
    ASSUME Inv, NEW s \in Sources, Attach(s)
    PROVE  Inv'
<1> USE DEF callVars, sourceVars, Goto, Finish, Attached
<1> DEFINE x == want[s]
           b == [of |-> s, no |-> attaches[s] + 1]
<1>1. stage[s] = "attach" /\ x \in Sessions /\ life[x] # "dying" /\ sub[s] = None
      /\ attaches[s] < MaxAttaches /\ attaches[s] \in 0 .. MaxAttaches
  BY DEF Attach, Inv, OtherTypes, Stages
<1>2. /\ UNCHANGED <<kept, callVars, busy, want, pin>>
      /\ attaches' = [attaches EXCEPT ![s] = attaches[s] + 1]
      /\ life' = [life EXCEPT ![x] = "live"]
      /\ refs' = [refs EXCEPT ![x] = refs[x] + 1]
      /\ sub' = [sub EXCEPT ![s] = x]
  BY DEF Attach
<1>3. attaches'[s] = attaches[s] + 1 /\ Subscription(s)' = b /\ b \in Subscriptions
  BY <1>1, <1>2, PlaybackAssumption
     DEF Subscription, Subscriptions, PlaybackAssumption, Inv, OtherTypes
<1>4. subs' = [subs EXCEPT ![x] = Append(subs[x], b)] /\ valid' = valid \cup {b}
  BY <1>3 DEF Attach
<1>5. \A u \in Sources : u # s => /\ stage'[u] = stage[u] /\ sub'[u] = sub[u]
                                 /\ doing'[u] = doing[u] /\ attaches'[u] = attaches[u]
  BY DEF Attach, Inv, OtherTypes
<1>6. /\ sub'[s] = x
      /\ stage'[s] \in {"rest", "pins"}
      /\ doing'[s] \in {"none", "update", "destroy"} \cup {doing[s]}
      /\ doing[s] \notin {"unborn", "none", "gone"}
      /\ doing'[s] \in {"none", "gone"} => stage'[s] = "rest"
  BY <1>1 DEF Attach, Inv, OtherTypes, Stages
<1>7. \A y \in Sessions :
         Holders(y)' = IF y = x THEN Holders(y) \cup {s} ELSE Holders(y)
  BY <1>1, <1>5, <1>6, PlaybackAssumption DEF Holders, PlaybackAssumption
<1>8. \A y \in Sessions :
         /\ Cardinality(Holders(y)) \in Nat
         /\ Cardinality(Holders(y)') = IF y = x THEN Cardinality(Holders(y)) + 1
                                               ELSE Cardinality(Holders(y))
  <2>1. s \notin Holders(x)
    BY <1>1, PlaybackAssumption DEF Holders, PlaybackAssumption
  <2>2. Cardinality(Holders(x) \cup {s}) = Cardinality(Holders(x)) + 1
    BY <2>1, HoldersCount, FS_AddElement
  <2> QED
    BY <1>7, <2>2, HoldersCount
<1>9. OtherTypes'
  <2>1. /\ stage' \in [Sources -> {"rest", "unsubscribe", "release", "await", "attach",
                                    "pins", "decoder", "audio"}]
        /\ doing' \in [Sources -> {"unborn", "create", "none", "update", "destroy",
                                    "gone"}]
    BY DEF Attach, Inv, OtherTypes
  <2>2. subs' \in [Sessions -> Seq(Subscriptions)] /\ valid' \in SUBSET Subscriptions
    BY <1>1, <1>3, <1>4 DEF Inv, OtherTypes
  <2>3. attaches' \in [Sources -> 0 .. MaxAttaches]
    BY <1>1, <1>2, PlaybackAssumption DEF Inv, OtherTypes, PlaybackAssumption
  <2>4. refs' \in [Sessions -> Nat] /\ life' \in [Sessions -> {"none", "live", "dying"}]
        /\ sub' \in [Sources -> Sessions \cup {None}]
    BY <1>1, <1>2 DEF Inv, OtherTypes
  <2> QED
    BY <1>2, <2>1, <2>2, <2>3, <2>4 DEF Inv, OtherTypes
<1>10. CallsInv'
  BY <1>1, <1>2 DEF Inv, OtherTypes, CallsInv
<1>11. \A y \in Sessions : /\ life'[y] = IF y = x THEN "live" ELSE life[y]
                           /\ refs'[y] = IF y = x THEN refs[y] + 1 ELSE refs[y]
  BY <1>1, <1>2 DEF Inv, OtherTypes
<1>12. Counted'
  <2>1. \A y \in Sessions : Kept(y)' = Kept(y) /\ Kept(y) \in {0, 1}
    BY <1>2 DEF Kept
  <2>2. \A y \in Sessions : refs'[y] = Cardinality(Holders(y)') + Kept(y)'
    BY <1>8, <1>11, <2>1 DEF Inv, Counted
  <2>3. \A y \in Sessions : refs'[y] > 0 => life'[y] = "live"
    BY <1>11 DEF Inv, Counted
  <2> QED
    BY <2>2, <2>3 DEF Counted
<1>13. Stages'
  BY <1>1, <1>5, <1>6 DEF Inv, Stages
<1>14. Dying'
  <2>1. \A u \in Sources : stage'[u] = "await" =>
           u # s /\ stage[u] = "await" /\ sub'[u] = sub[u] /\ sub[u] \in Sessions
                 /\ sub[u] # x
    BY <1>1, <1>5, <1>6 DEF Inv, Dying, Stages, OtherTypes
  <2>2. kept[x] # "destroying"
    BY <1>1 DEF Inv, Dying
  <2>3. \A u \in Sources : stage'[u] = "await" =>
           life'[sub'[u]] = "dying" /\ kept'[sub'[u]] # "destroying"
    BY <1>2, <1>11, <2>1 DEF Inv, Dying
  <2>4. \A u, v \in Sources :
           stage'[u] = "await" /\ stage'[v] = "await" /\ sub'[u] = sub'[v] => u = v
    BY <2>1 DEF Inv, Dying
  <2>5. \A y \in Sessions : kept'[y] = "destroying" => life'[y] = "dying"
    BY <1>2, <1>11, <2>2 DEF Inv, Dying
  <2> QED
    BY <2>3, <2>4, <2>5 DEF Dying
<1>15. Listed'
  <2>1. ASSUME NEW y \in Sessions, NEW i \in DOMAIN subs[y]
        PROVE  subs[y][i].of \in Sources /\ subs[y][i].of # s
    BY <1>1, PlaybackAssumption, Entries DEF Inv, Listed, PlaybackAssumption
  <2>2. ASSUME NEW y \in Sessions, NEW i \in DOMAIN subs[y]
        PROVE  /\ subs[y][i] \in valid'
               /\ sub'[subs[y][i].of] = y
               /\ stage'[subs[y][i].of] \notin {"release", "await"}
               /\ subs[y][i].no = attaches'[subs[y][i].of]
    BY <1>4, <1>5, <2>1 DEF Inv, Listed
  <2>3. b \in valid' /\ sub'[b.of] = x /\ stage'[b.of] \notin {"release", "await"}
        /\ b.no = attaches'[b.of] /\ b.of = s
    BY <1>3, <1>4, <1>6
  <2>4. subs'[x] = Append(subs[x], b) /\ \A y \in Sessions : y # x => subs'[y] = subs[y]
    BY <1>1, <1>4 DEF Inv, OtherTypes
  <2>5. subs[x] \in Seq(Subscriptions)
    BY <1>1 DEF Inv, OtherTypes
  <2> DEFINE new == Append(subs[x], b)
             n == Len(subs[x])
  <2>6. /\ n \in Nat /\ DOMAIN subs[x] = 1 .. n /\ DOMAIN new = 1 .. n + 1
        /\ new[n + 1] = b /\ \A i \in 1 .. n : new[i] = subs[x][i]
    BY <1>3, <2>5
  <2> HIDE DEF new, n, b
  <2>7. \A i \in DOMAIN new : (i \in DOMAIN subs[x] /\ new[i] = subs[x][i])
                            \/ (i = n + 1 /\ new[i] = b)
    BY <2>6
  <2>8. ASSUME NEW y \in Sessions
        PROVE  /\ \A i \in DOMAIN subs'[y] :
                     /\ subs'[y][i] \in valid'
                     /\ sub'[subs'[y][i].of] = y
                     /\ stage'[subs'[y][i].of] \notin {"release", "await"}
                     /\ subs'[y][i].no = attaches'[subs'[y][i].of]
               /\ \A i, j \in DOMAIN subs'[y] : subs'[y][i].of = subs'[y][j].of => i = j
    <3>0. \A i, j \in DOMAIN subs[y] : subs[y][i].of = subs[y][j].of => i = j
      BY DEF Inv, Listed
    <3>1. CASE y = x
      <4>1. subs'[y] = new
        BY <3>1, <2>4 DEF new
      <4>2. \A i \in DOMAIN new :
               /\ new[i] \in valid'
               /\ sub'[new[i].of] = x
               /\ stage'[new[i].of] \notin {"release", "await"}
               /\ new[i].no = attaches'[new[i].of]
        BY <1>1, <2>2, <2>3, <2>7
      <4>3. \A i, j \in DOMAIN new : new[i].of = new[j].of => i = j
        BY <1>1, <2>1, <2>3, <2>7, <3>0, <3>1
      <4> QED
        BY <3>1, <4>1, <4>2, <4>3
    <3>2. CASE y # x
      BY <2>2, <2>4, <3>0, <3>2
    <3> QED
      BY <3>1, <3>2
  <2> QED
    BY <2>8 DEF Listed
<1> QED
  BY <1>9, <1>10, <1>12, <1>13, <1>14, <1>15 DEF Inv

-----------------------------------------------------------------------------
\* Before the first source there is nothing to count or to list.
THEOREM InitInv == Init => Inv
<1> SUFFICES ASSUME Init PROVE Inv
  OBVIOUS
<1> USE DEF Init
<1>1. CallsInv
  BY DEF CallsInv
<1>2. OtherTypes
  <2>1. Unpinned \in Pins
    BY PlaybackAssumption DEF Unpinned, Pins, Kinds, Mids, PlaybackAssumption
  <2> HIDE DEF Pins
  <2> QED
    BY <2>1, PlaybackAssumption DEF OtherTypes, PlaybackAssumption
<1>3. Counted
  <2>1. \A x \in Sessions : Holders(x) = {}
    BY PlaybackAssumption DEF Holders, PlaybackAssumption
  <2>2. Cardinality({}) = 0
    BY FS_EmptySet
  <2>3. \A x \in Sessions : refs[x] = 0 /\ kept[x] = "no"
    OBVIOUS
  <2>4. \A x \in Sessions : Kept(x) = 0
    BY <2>3 DEF Kept
  <2> QED
    BY ONLY <2>1, <2>2, <2>3, <2>4 DEF Counted
<1>4. Dying /\ Stages /\ Listed
  BY DEF Dying, Stages, Listed
<1> QED
  BY <1>1, <1>2, <1>3, <1>4 DEF Inv

\* Every step keeps the invariant.
LEMMA InvKept ==
    Inv /\ [Next]_vars => Inv'
<1> SUFFICES ASSUME Inv, [Next]_vars
             PROVE  Inv'
  OBVIOUS
<1>1. CASE UNCHANGED vars
  <2>1. /\ UNCHANGED <<life, refs, kept, subs, valid, busy, doing, stage, want, sub,
                       attaches, pin>>
        /\ UNCHANGED <<packet, calls, at, overtaken>>
    BY <1>1 DEF vars, sessionVars, callVars, sourceVars
  <2>2. CallsInv'
    BY <2>1 DEF Inv, CallsInv
  <2>3. OtherTypes'
    BY <2>1 DEF Inv, OtherTypes
  <2>4. \A x \in Sessions : Holders(x)' = Holders(x) /\ Kept(x)' = Kept(x)
    BY <2>1 DEF Holders, Kept
  <2>5. Counted'
    BY <2>1, <2>4 DEF Inv, Counted
  <2>6. Dying' /\ Stages' /\ Listed'
    BY <2>1 DEF Inv, Dying, Stages, Listed
  <2> QED
    BY <2>2, <2>3, <2>5, <2>6 DEF Inv
<1>2. CASE \E x \in Sessions : Session(x)
  BY <1>2, CallsKeepInv, DialogKeepsInv DEF Session
<1>3. CASE \E s \in Sources : Source(s)
  BY <1>3, QuietStepsKeepInv, UnsubscribeKeepsInv, ReleaseKeepsInv, AwaitKeepsInv,
     AttachKeepsInv DEF Source, SourceStep
<1> QED
  BY <1>1, <1>2, <1>3 DEF Next

\* The invariant holds in every reachable state: types, the count of each
\* session, its one destroyer, and what its list holds.
THEOREM Invariance == Spec => []Inv
  BY InitInv, InvKept, PTL DEF Spec

\* A session that somebody is subscribed to is live.
LEMMA SubscribedIsLive ==
    ASSUME Inv, NEW x \in Sessions, subs[x] # <<>>
    PROVE  life[x] = "live"
<1>1. subs[x] \in Seq(Subscriptions)
  BY DEF Inv, OtherTypes
<1>2. 1 \in DOMAIN subs[x]
  BY <1>1
<1>3. subs[x][1].of \in Holders(x)
  BY <1>2, Entries DEF Holders, Inv, Listed
<1>4. Cardinality(Holders(x)) \in Nat /\ Cardinality(Holders(x)) # 0
  BY <1>3, HoldersCount, FS_EmptySet
<1>5. refs[x] > 0
  BY <1>4 DEF Inv, Counted, Kept
<1> QED
  BY <1>5 DEF Inv, Counted

\* Who holds a reference holds a live session, but for the one that is giving
\* the last of them back.  (tether_receive_session_get and _subscribe count
\* before they return, _release takes the session out with the last reference.)
THEOREM HoldersKeepSessions == Spec => []HeldSessionsLive
<1>1. ASSUME Inv, NEW s \in Sources, sub[s] # None
      PROVE  life[sub[s]] = IF stage[s] = "await" THEN "dying" ELSE "live"
  <2>1. sub[s] \in Sessions
    BY <1>1 DEF Inv, OtherTypes
  <2>2. CASE stage[s] = "await"
    BY <1>1, <2>2 DEF Inv, Dying
  <2>3. CASE stage[s] # "await"
    <3>1. s \in Holders(sub[s])
      BY <2>3 DEF Holders
    <3>2. /\ Cardinality(Holders(sub[s])) \in Nat /\ IsFiniteSet(Holders(sub[s]))
          /\ Cardinality(Holders(sub[s])) # 0
      BY <3>1, HoldersCount, FS_EmptySet
    <3>3. refs[sub[s]] = Cardinality(Holders(sub[s])) + Kept(sub[s])
      BY <1>1, <2>1 DEF Inv, Counted
    <3>4. Kept(sub[s]) \in {0, 1}
      BY DEF Kept
    <3>5. refs[sub[s]] > 0
      BY ONLY <3>2, <3>3, <3>4
    <3>6. life[sub[s]] = "live"
      BY <1>1, <2>1, <3>5 DEF Inv, Counted
    <3> QED
      BY <2>3, <3>6
  <2> QED
    BY <2>2, <2>3
<1>2. ASSUME Inv, NEW x \in Sessions, kept[x] = "yes" PROVE life[x] = "live"
  <2>1. Cardinality(Holders(x)) \in Nat
    BY HoldersCount
  <2>2. refs[x] = Cardinality(Holders(x)) + 1
    BY <1>2 DEF Inv, Counted, Kept
  <2>3. refs[x] > 0
    BY ONLY <2>1, <2>2
  <2> QED
    BY <1>2, <2>3 DEF Inv, Counted
<1>3. Inv => HeldSessionsLive
  BY <1>1, <1>2, SubscribedIsLive DEF HeldSessionsLive
<1> QED
  BY <1>3, Invariance, PTL

\* A freed subscription is called for one packet at most.  (unsubscribe takes it
\* out of the list that wrtc_video_cb and wrtc_audio_cb copy.)
THEOREM FreedForOnePacket == Spec => LateByOnePacket
<1>1. Inv /\ [Next]_vars =>
         [\A x \in Sessions : at[x] = "idle" =>
             \A i \in DOMAIN calls'[x] : calls'[x][i] \in valid]_vars
  <2> SUFFICES ASSUME Inv, Next, NEW x \in Sessions, at[x] = "idle",
                      NEW i \in DOMAIN calls'[x]
               PROVE  calls'[x][i] \in valid
    OBVIOUS
  <2>1. calls[x] = <<>>
    BY DEF Inv, CallsInv
  <2>2. calls'[x] # calls[x]
    BY <2>1
  <2>3. \A s \in Sources : ~Source(s)
    BY <2>2 DEF Source, SourceStep, Create, Update, Remove, Unsubscribe, Release, Await,
                Attach, AttachNone, SetPins, FreeVideo, FreeAudio, callVars
  <2>4. PICK y \in Sessions : Session(y)
    BY <2>3 DEF Next
  <2>5. CASE \E m \in Mids : Receive(y, m)
    <3>1. calls' = [calls EXCEPT ![y] = subs[y]]
      BY <2>5 DEF Receive
    <3>2. y = x /\ calls'[x] = subs[x]
      BY <2>2, <3>1 DEF Inv, CallsInv
    <3> QED
      BY <3>2 DEF Inv, Listed
  <2>6. CASE CallStep(y)
    <3>1. at[y] # "idle" /\ (UNCHANGED calls \/ calls' = [calls EXCEPT ![y] = Tail(@)])
      BY <2>6 DEF CallStep, CallFreed, Filter, Lock, Decode, NextCall, Enter
    <3>2. x # y
      BY <3>1
    <3> QED
      BY <2>2, <3>1, <3>2 DEF Inv, CallsInv
  <2>7. CASE Keep(y) \/ Drop(y) \/ DropEnds(y)
    BY <2>2, <2>7 DEF Keep, Drop, DropEnds, callVars
  <2> QED
    BY <2>4, <2>5, <2>6, <2>7 DEF Session
<1> QED
  BY <1>1, Invariance, PTL DEF Spec, LateByOnePacket
-----------------------------------------------------------------------------
(* The pins.                                                               *)

\* A source is called only after it was made.
Born ==
    \A x \in Sessions : \A i \in DOMAIN calls[x] : doing[calls[x][i].of] # "unborn"

\* Where a call that passed the filter stands to the pins.
Fits(x) ==
    \/ Passes(x)
    \/ stage[Callee(x).of] = "pins"
    \/ x \in overtaken

\* A call under way is of a source that was made.
LEMMA CalleeIs ==
    ASSUME Inv, Born, NEW x \in Sessions, at[x] # "idle"
    PROVE  /\ calls[x] \in Seq(Subscriptions) /\ calls[x] # <<>>
           /\ Callee(x) = calls[x][1] /\ 1 \in DOMAIN calls[x]
           /\ Callee(x).of \in Sources
           /\ doing[Callee(x).of] # "unborn"
<1>1. calls[x] \in Seq(Subscriptions) /\ calls[x] # <<>>
  BY DEF Inv, CallsInv
<1>2. Callee(x) = calls[x][1] /\ 1 \in DOMAIN calls[x] /\ Callee(x) \in Subscriptions
  BY <1>1 DEF Callee
<1> QED
  BY <1>1, <1>2 DEF Subscriptions, Born

\* A source that was made stays made, and one that is subscribed was made.
LEMMA BornStays ==
    ASSUME Inv, Born, Next
    PROVE  Born'
<1> USE DEF sessionVars, callVars, sourceVars, Goto, Finish, Attached
<1>1. \A s \in Sources : doing[s] # "unborn" => doing'[s] # "unborn"
  <2>1. ASSUME NEW s \in Sources, Source(s)
        PROVE  \A u \in Sources : doing[u] # "unborn" => doing'[u] # "unborn"
    <3>1. \/ UNCHANGED doing
          \/ \E d \in {"create", "update", "destroy", "none", "gone"} :
                doing' = [doing EXCEPT ![s] = d]
      BY <2>1 DEF Source, SourceStep, Create, Update, Remove, Unsubscribe, Release, Await,
                  Attach, AttachNone, SetPins, FreeVideo, FreeAudio, Unsubscribed
    <3> QED
      BY <3>1 DEF Inv, OtherTypes
  <2>2. ASSUME NEW x \in Sessions, Session(x)
        PROVE  UNCHANGED doing
    BY <2>2 DEF Session, CallStep, Receive, CallFreed, Filter, Lock, Decode, Keep, Drop,
                DropEnds
  <2> QED
    BY <2>1, <2>2 DEF Next
<1>2. ASSUME NEW x \in Sessions, NEW i \in DOMAIN calls'[x]
      PROVE  /\ calls'[x][i].of \in Sources
             /\ doing[calls'[x][i].of] # "unborn"
  <2>0. calls[x] \in Seq(Subscriptions) /\ subs[x] \in Seq(Subscriptions)
    BY DEF Inv, CallsInv, OtherTypes
  <2>1. CASE calls'[x] = calls[x]
    <3>1. calls[x][i] \in Subscriptions
      BY <1>2, <2>0, <2>1
    <3> QED
      BY <1>2, <2>1, <3>1 DEF Born, Subscriptions
  <2>2. CASE calls'[x] = subs[x]
    <3>1. subs[x][i].of \in Sources /\ sub[subs[x][i].of] = x
      BY <1>2, <2>2, Entries DEF Inv, Listed
    <3>2. x # None
      BY PlaybackAssumption DEF PlaybackAssumption
    <3> QED
      BY <2>2, <3>1, <3>2 DEF Inv, Stages
  <2>3. CASE calls'[x] = Tail(calls[x]) /\ calls[x] # <<>>
    <3>1. i + 1 \in DOMAIN calls[x] /\ calls'[x][i] = calls[x][i + 1]
      BY <1>2, <2>0, <2>3
    <3>2. calls[x][i + 1] \in Subscriptions
      BY <2>0, <3>1
    <3> QED
      BY <3>1, <3>2 DEF Born, Subscriptions
  <2>4. ASSUME NEW s \in Sources, Source(s)
        PROVE  UNCHANGED calls
    BY <2>4 DEF Source, SourceStep, Create, Update, Remove, Unsubscribe, Release, Await,
                Attach, AttachNone, SetPins, FreeVideo, FreeAudio
  <2>5. ASSUME NEW y \in Sessions, Session(y)
        PROVE  \/ UNCHANGED calls
               \/ calls' = [calls EXCEPT ![y] = subs[y]]
               \/ at[y] # "idle" /\ calls' = [calls EXCEPT ![y] = Tail(@)]
    BY <2>5 DEF Session, CallStep, Receive, CallFreed, Filter, Lock, Decode, Keep, Drop,
                DropEnds, NextCall, Enter
  <2>6. calls'[x] = calls[x] \/ calls'[x] = subs[x]
        \/ (calls'[x] = Tail(calls[x]) /\ calls[x] # <<>>)
    BY <2>4, <2>5 DEF Next, Inv, CallsInv
  <2> QED
    BY <2>1, <2>2, <2>3, <2>6
<1> QED
  BY <1>1, <1>2 DEF Born

\* A session's own steps.
LEMMA SessionsFit ==
    ASSUME Inv, Born, NEW y \in Sessions, Session(y),
           NEW x \in Sessions, at[x] \in {"passed", "decoding"} => Fits(x),
           at'[x] \in {"passed", "decoding"}
    PROVE  Fits(x)'
<1> USE DEF sessionVars, callVars, sourceVars, NextCall, Enter
<1>1. UNCHANGED <<pin, stage>>
  BY DEF Session, CallStep, Receive, CallFreed, Filter, Lock, Decode, Keep, Drop, DropEnds
<1>2. \/ UNCHANGED <<packet, calls, at, overtaken>>
      \/ /\ at' = [at EXCEPT ![y] = "passed"] /\ UNCHANGED <<packet, calls, overtaken>>
         /\ at[y] = "call" /\ Fits(y)
      \/ /\ at' = [at EXCEPT ![y] = "decoding"] /\ UNCHANGED <<packet, calls, overtaken>>
         /\ at[y] = "passed"
      \/ /\ at' = [at EXCEPT ![y] = IF calls'[y] = <<>> THEN "idle" ELSE "call"]
         /\ \A z \in Sessions : z # y => calls'[z] = calls[z] /\ packet'[z] = packet[z]
         /\ overtaken' \in {overtaken, overtaken \ {y}}
  <2>1. CASE \E m \in Mids : Receive(y, m)
    BY <2>1 DEF Receive, Inv, CallsInv, OtherTypes
  <2>2. CASE NextCall(y)
    BY <2>2 DEF Inv, CallsInv
  <2>3. CASE Filter(y)
    BY <2>2, <2>3 DEF Filter, Fits
  <2>4. CASE Lock(y)
    BY <2>2, <2>4 DEF Lock
  <2>5. CASE CallFreed(y) \/ Decode(y)
    BY <2>2, <2>5 DEF CallFreed, Decode
  <2>6. CASE Keep(y) \/ Drop(y) \/ DropEnds(y)
    BY <2>6 DEF Keep, Drop, DropEnds
  <2> QED
    BY <2>1, <2>3, <2>4, <2>5, <2>6 DEF Session, CallStep
<1>3. at \in [Sessions -> {"idle", "call", "passed", "decoding"}]
  BY DEF Inv, CallsInv
<1>4. at[x] \in {"passed", "decoding"} \/ (x = y /\ Fits(x))
  BY <1>2, <1>3
<1>5. Fits(x) /\ calls'[x] = calls[x] /\ packet'[x] = packet[x]
      /\ (x \in overtaken => x \in overtaken')
  BY <1>2, <1>3, <1>4
<1> QED
  BY <1>1, <1>5 DEF Fits, Passes, Callee

\* The sources' steps: a pin changes before the source is called, or at the end
\* of an update.
LEMMA SourcesFit ==
    ASSUME Inv, Born, NEW s \in Sources, Source(s),
           NEW x \in Sessions, at[x] \in {"passed", "decoding"} => Fits(x),
           at'[x] \in {"passed", "decoding"}
    PROVE  Fits(x)'
<1> USE DEF sessionVars, callVars, sourceVars, Goto, Finish, Attached, Unsubscribed
<1> DEFINE u == Callee(x).of
<1>1. UNCHANGED <<packet, calls, at>> /\ overtaken \subseteq overtaken'
  BY DEF Source, SourceStep, Create, Update, Remove, Unsubscribe, Release, Await,
         Attach, AttachNone, SetPins, FreeVideo, FreeAudio
<1>2. at[x] \in {"passed", "decoding"} /\ Fits(x) /\ Callee(x)' = Callee(x)
  BY <1>1 DEF Callee
<1>3. u \in Sources /\ doing[u] # "unborn"
  BY <1>2, CalleeIs
<1>4. CASE \E p \in Pins : SetPins(s, p)
  <2>1. u = s => x \in overtaken'
    BY <1>2, <1>4 DEF SetPins
  <2>2. u # s => pin'[u] = pin[u] /\ stage'[u] = stage[u]
    BY <1>3, <1>4 DEF SetPins, Inv, OtherTypes
  <2> QED
    BY <1>1, <1>2, <2>1, <2>2 DEF Fits, Passes
<1>5. CASE ~(\E p \in Pins : SetPins(s, p))
  <2>1. stage[s] = "pins" => UNCHANGED <<pin, stage>>
    BY <1>5 DEF Source, SourceStep, Create, Update, Remove, Unsubscribe, Release, Await,
                Attach, AttachNone, FreeVideo, FreeAudio, Inv, Stages
  <2>2. /\ stage[u] = "pins" => stage'[u] = "pins"
        /\ pin'[u] = pin[u]
    <3>1. UNCHANGED pin \/ \E p \in Pins : doing[s] = "unborn" /\ pin' = [pin EXCEPT ![s] = p]
      BY <1>5 DEF Source, SourceStep, Create, Update, Remove, Unsubscribe, Release, Await,
                  Attach, AttachNone, FreeVideo, FreeAudio
    <3>2. \E t : stage' = [stage EXCEPT ![s] = t]
      BY <1>5 DEF Source, SourceStep, Create, Update, Remove, Unsubscribe, Release, Await,
                  Attach, AttachNone, FreeVideo, FreeAudio
    <3> QED
      BY <1>3, <2>1, <3>1, <3>2 DEF Inv, OtherTypes
  <2> QED
    BY <1>1, <1>2, <2>2 DEF Fits, Passes
<1> QED
  BY <1>4, <1>5

\* A source decodes what it pinned, but for one packet that came before the
\* pins.  (The filter of on_session_video and on_session_audio, and update.)
THEOREM PinsAreFollowed == Spec => []PinnedTracksOnly
<1> DEFINE PinInv == Born /\ \A x \in Sessions : at[x] \in {"passed", "decoding"} => Fits(x)
<1>1. Init => PinInv
  BY DEF Init, Born
<1>2. Inv /\ PinInv /\ [Next]_vars => PinInv'
  <2> SUFFICES ASSUME Inv, PinInv, [Next]_vars
               PROVE  PinInv'
    OBVIOUS
  <2>1. CASE UNCHANGED vars
    BY <2>1 DEF vars, sessionVars, callVars, sourceVars, Born, Fits, Passes, Callee
  <2>2. CASE Next
    <3>1. Born'
      BY <2>2, BornStays
    <3>2. ASSUME NEW x \in Sessions, at'[x] \in {"passed", "decoding"}
          PROVE  Fits(x)'
      BY <2>2, <3>2, SessionsFit, SourcesFit DEF Next
    <3> QED
      BY <3>1, <3>2
  <2> QED
    BY <2>1, <2>2
<1>3. PinInv => PinnedTracksOnly
  BY DEF PinnedTracksOnly, Fits, Passes
<1> QED
  BY <1>1, <1>2, <1>3, Invariance, PTL DEF Spec

-----------------------------------------------------------------------------
(* What DestroyReturns rests on.                                           *)

\* Whoever holds the lock of a decoder is decoding, and so waits for nobody.
LocksHeld ==
    \A d \in busy : \E x \in Sessions : at[x] = "decoding" /\ Decoder(x) = d

\* A source that frees its decoders is subscribed nowhere.
Detached ==
    \A s \in Sources :
        /\ stage[s] \in {"decoder", "audio"} => sub[s] = None /\ doing[s] = "destroy"
        /\ doing[s] = "destroy" =>
              stage[s] \in {"unsubscribe", "release", "await", "decoder", "audio"}

\* What a source that OBS destroys may have to wait for is a session nobody
\* subscribes to any more, or the lock of its video decoder.
DestroyIsNotStuck ==
    /\ LocksHeld
    /\ \A s \in Sources : doing[s] = "destroy" =>
          \/ stage[s] \in {"unsubscribe", "release", "audio"}
          \/ stage[s] = "await" /\ life[sub[s]] = "dying" /\ subs[sub[s]] = <<>>
          \/ stage[s] = "decoder" /\ \A x \in Sessions : \A i \in DOMAIN subs[x] :
                                         subs[x][i].of # s

\* The steps of a source to its end, and of a session's thread to the end of the
\* packet under way.
StepsToGo(s) ==
    CASE stage[s] = "unsubscribe" -> 5
      [] stage[s] = "release" -> 4
      [] stage[s] = "await" -> 3
      [] stage[s] = "decoder" -> 2
      [] stage[s] = "audio" -> 1
      [] OTHER -> 0

CallsToGo(x) ==
    CASE at[x] = "passed" -> 3 * Len(calls[x]) - 1
      [] at[x] = "decoding" -> 3 * Len(calls[x]) - 2
      [] OTHER -> 3 * Len(calls[x])

\* A call of x is under way or to come for s.
CallsOf(x, s) == \E i \in DOMAIN calls[x] : calls[x][i].of = s

\* The end of a destroy comes nearer with each step of its own; that of a packet
\* with each of its calls; a session that left the registry takes up no packet
\* with calls, and none takes up a call of a source that has unsubscribed.
DestroyNears ==
    /\ \A s \in Sources : doing[s] = "destroy" =>
          /\ doing'[s] \in {"destroy", "gone"}
          /\ StepsToGo(s)' <= StepsToGo(s)
          /\ SourceStep(s) => StepsToGo(s)' < StepsToGo(s)
    /\ \A x \in Sessions :
          /\ life[x] = "dying" => CallsToGo(x)' <= CallsToGo(x)
          /\ CallStep(x) => CallsToGo(x)' < CallsToGo(x)
          /\ \A s \in Sources :
                doing[s] = "destroy" /\ stage[s] # "unsubscribe" /\ CallsOf(x, s)' => CallsOf(x, s)

\* What a step may do to the calls of a session.
LEMMA CallSteps ==
    ASSUME Inv, Next, NEW x \in Sessions
    PROVE  \/ calls'[x] = calls[x] /\ at'[x] = at[x] /\ packet'[x] = packet[x]
           \/ \E m \in Mids : Receive(x, m)
           \/ CallStep(x)
<1> USE DEF sessionVars, callVars, sourceVars
<1>1. ASSUME NEW s \in Sources, Source(s)
      PROVE  UNCHANGED <<calls, at, packet>>
  BY <1>1 DEF Source, SourceStep, Create, Update, Remove, Unsubscribe, Release, Await,
              Attach, AttachNone, SetPins, FreeVideo, FreeAudio
<1>2. ASSUME NEW y \in Sessions, Session(y), y # x
      PROVE  calls'[x] = calls[x] /\ at'[x] = at[x] /\ packet'[x] = packet[x]
  <2>1. CASE \E m \in Mids : Receive(y, m)
    BY <1>2, <2>1 DEF Receive, Inv, CallsInv
  <2>2. CASE CallStep(y)
    <3>1. NextCall(y) \/ \E place \in {"passed", "decoding"} : Enter(y, place)
      BY <2>2 DEF CallStep, CallFreed, Filter, Lock, Decode
    <3> QED
      BY <1>2, <3>1 DEF NextCall, Enter, Inv, CallsInv
  <2>3. CASE Keep(y) \/ Drop(y) \/ DropEnds(y)
    BY <2>3 DEF Keep, Drop, DropEnds
  <2> QED
    BY <1>2, <2>1, <2>2, <2>3 DEF Session
<1>3. ASSUME Keep(x) \/ Drop(x) \/ DropEnds(x)
      PROVE  UNCHANGED <<calls, at, packet>>
  BY <1>3 DEF Keep, Drop, DropEnds
<1> QED
  BY <1>1, <1>2, <1>3 DEF Next, Session

\* What a call does to them.
LEMMA CallEffect ==
    ASSUME Inv, NEW x \in Sessions, CallStep(x)
    PROVE  \/ /\ NextCall(x) /\ (Decode(x) \/ (at[x] # "decoding" /\ UNCHANGED busy))
           \/ /\ at[x] = "call" /\ Enter(x, "passed") /\ UNCHANGED busy
           \/ /\ at[x] = "passed" /\ Enter(x, "decoding") /\ busy' = busy \cup {Decoder(x)}
  BY DEF CallStep, CallFreed, Filter, Lock, Decode

\* The locks.  (on_session_video and decode under decoder_lock, and unlock on
\* every way out.)
LEMMA LocksStay ==
    ASSUME Inv, LocksHeld, Next
    PROVE  LocksHeld'
<1> USE DEF sessionVars, callVars, sourceVars
<1> SUFFICES ASSUME NEW d \in busy'
             PROVE  \E x \in Sessions : at'[x] = "decoding" /\ Decoder(x)' = d
  BY DEF LocksHeld
<1>0. at \in [Sessions -> {"idle", "call", "passed", "decoding"}]
  BY DEF Inv, CallsInv
<1>1. CASE d \in busy
  <2>1. PICK x \in Sessions : at[x] = "decoding" /\ Decoder(x) = d
    BY <1>1 DEF LocksHeld
  <2>2. CASE calls'[x] = calls[x] /\ at'[x] = at[x] /\ packet'[x] = packet[x]
    BY <2>1, <2>2 DEF Decoder, Callee
  <2>3. CASE \E m \in Mids : Receive(x, m)
    BY <2>1, <2>3 DEF Receive
  <2>4. CASE CallStep(x)
    <3>1. Decode(x)
      BY <2>1, <2>4 DEF CallStep, CallFreed, Filter, Lock
    <3> QED
      BY <2>1, <3>1 DEF Decode
  <2> QED
    BY <2>2, <2>3, <2>4, CallSteps
<1>2. CASE d \notin busy
  <2>1. PICK x \in Sessions : CallStep(x)
    BY <1>2 DEF Next, Session, Source, SourceStep, Create, Update, Remove, Unsubscribe,
                Release, Await, Attach, AttachNone, SetPins, FreeVideo, FreeAudio, Receive,
                Keep, Drop, DropEnds
  <2>2. Enter(x, "decoding") /\ busy' = busy \cup {Decoder(x)}
    BY <1>2, <2>1, CallEffect DEF Decode
  <2>3. at'[x] = "decoding" /\ Decoder(x)' = Decoder(x)
    BY <1>0, <2>2 DEF Enter, Decoder, Callee
  <2> QED
    BY <1>2, <2>2, <2>3
<1> QED
  BY <1>1, <1>2

\* What a step may do to the operation of a source.
LEMMA OperationSteps ==
    ASSUME Inv, Next, NEW s \in Sources
    PROVE  \/ stage'[s] = stage[s] /\ doing'[s] = doing[s] /\ sub'[s] = sub[s]
           \/ Source(s)
<1> USE DEF sessionVars, callVars, sourceVars
<1>1. ASSUME NEW x \in Sessions, Session(x)
      PROVE  UNCHANGED <<stage, doing, sub>>
  BY <1>1 DEF Session, CallStep, Receive, CallFreed, Filter, Lock, Decode, Keep, Drop, DropEnds
<1>2. ASSUME NEW u \in Sources, Source(u), u # s
      PROVE  stage'[s] = stage[s] /\ doing'[s] = doing[s] /\ sub'[s] = sub[s]
  <2>1. /\ \E t : stage' = [stage EXCEPT ![u] = t]
        /\ UNCHANGED doing \/ \E d : doing' = [doing EXCEPT ![u] = d]
        /\ UNCHANGED sub \/ \E x : sub' = [sub EXCEPT ![u] = x]
    BY <1>2 DEF Source, SourceStep, Create, Update, Remove, Unsubscribe, Release, Await,
                Attach, AttachNone, SetPins, FreeVideo, FreeAudio, Unsubscribed, Attached,
                Goto, Finish
  <2> QED
    BY <1>2, <2>1 DEF Inv, OtherTypes
<1> QED
  BY <1>1, <1>2 DEF Next

\* The steps of a source that is being destroyed.
LEMMA DestroySteps ==
    ASSUME Inv, Detached, NEW s \in Sources, doing[s] = "destroy", Source(s)
    PROVE  \/ /\ stage[s] = "unsubscribe" /\ stage'[s] = "release"
              /\ doing'[s] = "destroy" /\ sub'[s] = sub[s]
           \/ /\ stage[s] = "release" /\ stage'[s] = "await"
              /\ doing'[s] = "destroy" /\ sub'[s] = sub[s]
           \/ /\ stage[s] \in {"release", "await"} /\ stage'[s] = "decoder"
              /\ doing'[s] = "destroy" /\ sub'[s] = None
           \/ /\ stage[s] = "decoder" /\ stage'[s] = "audio"
              /\ doing'[s] = "destroy" /\ sub'[s] = sub[s]
           \/ /\ stage[s] = "audio" /\ stage'[s] = "rest"
              /\ doing'[s] = "gone" /\ sub'[s] = sub[s]
<1> USE DEF sessionVars, callVars, sourceVars, Goto
<1>0. /\ stage[s] \in {"unsubscribe", "release", "await", "decoder", "audio"}
      /\ \A t : (stage' = [stage EXCEPT ![s] = t]) => stage'[s] = t
      /\ \A d : (doing' = [doing EXCEPT ![s] = d]) => doing'[s] = d
      /\ \A x : (sub' = [sub EXCEPT ![s] = x]) => sub'[s] = x
  BY DEF Detached, Inv, OtherTypes
<1>1. CASE Unsubscribe(s)
  BY <1>0, <1>1 DEF Unsubscribe
<1>2. CASE Release(s)
  BY <1>0, <1>2 DEF Release, Unsubscribed
<1>3. CASE Await(s)
  BY <1>0, <1>3 DEF Await, Unsubscribed
<1>4. CASE FreeVideo(s)
  BY <1>0, <1>4 DEF FreeVideo
<1>5. CASE FreeAudio(s)
  BY <1>0, <1>5 DEF FreeAudio, Finish
<1> QED
  BY <1>0, <1>1, <1>2, <1>3, <1>4, <1>5
     DEF Source, SourceStep, Create, Update, Remove, Attach, AttachNone, SetPins

\* A source that is not being destroyed gets to its decoders only through destroy.
LEMMA OtherSteps ==
    ASSUME Inv, Detached, NEW s \in Sources, doing[s] # "destroy", Source(s)
    PROVE  \/ stage'[s] \notin {"decoder", "audio"} /\ doing'[s] # "destroy"
           \/ /\ doing'[s] = "destroy"
              /\ stage'[s] = "unsubscribe" \/ (stage'[s] = "decoder" /\ sub'[s] = None)
<1> USE DEF sessionVars, callVars, sourceVars, Goto
<1>0. /\ stage[s] \notin {"decoder", "audio"}
      /\ stage \in [Sources -> {"rest", "unsubscribe", "release", "await", "attach",
                                "pins", "decoder", "audio"}]
      /\ doing \in [Sources -> {"unborn", "create", "none", "update", "destroy", "gone"}]
  BY DEF Detached, Inv, OtherTypes
<1>1. CASE \E x \in Sessions \cup {None}, p \in Pins : Create(s, x, p)
  BY <1>0, <1>1 DEF Create
<1>2. CASE \E x \in Sessions \cup {None} : Update(s, x)
  BY <1>0, <1>2 DEF Update
<1>3. CASE Remove(s)
  BY <1>0, <1>3 DEF Remove
<1>4. CASE Unsubscribe(s)
  BY <1>0, <1>4 DEF Unsubscribe
<1>5. CASE Release(s) \/ Await(s)
  BY <1>0, <1>5 DEF Release, Await, Unsubscribed
<1>6. CASE Attach(s) \/ AttachNone(s)
  BY <1>0, <1>6 DEF Attach, AttachNone, Attached, Finish
<1>7. CASE \E p \in Pins : SetPins(s, p)
  BY <1>0, <1>7 DEF SetPins, Finish
<1> QED
  BY <1>0, <1>1, <1>2, <1>3, <1>4, <1>5, <1>6, <1>7
     DEF Source, SourceStep, FreeVideo, FreeAudio

LEMMA DetachedStays ==
    ASSUME Inv, Detached, Next
    PROVE  Detached'
<1> SUFFICES ASSUME NEW s \in Sources
             PROVE  /\ stage'[s] \in {"decoder", "audio"} =>
                          sub'[s] = None /\ doing'[s] = "destroy"
                    /\ doing'[s] = "destroy" =>
                          stage'[s] \in {"unsubscribe", "release", "await", "decoder", "audio"}
  BY DEF Detached
<1>1. CASE stage'[s] = stage[s] /\ doing'[s] = doing[s] /\ sub'[s] = sub[s]
  BY <1>1 DEF Detached
<1>2. CASE Source(s) /\ doing[s] = "destroy"
  BY <1>2, DestroySteps DEF Detached
<1>3. CASE Source(s) /\ doing[s] # "destroy"
  BY <1>3, OtherSteps
<1> QED
  BY <1>1, <1>2, <1>3, OperationSteps

\* The calls of a packet.
LEMMA CallsNear ==
    ASSUME Inv, Next, NEW x \in Sessions
    PROVE  /\ life[x] = "dying" => CallsToGo(x)' <= CallsToGo(x)
           /\ CallStep(x) => CallsToGo(x)' < CallsToGo(x)
<1>0. /\ at \in [Sessions -> {"idle", "call", "passed", "decoding"}]
      /\ calls \in [Sessions -> Seq(Subscriptions)]
      /\ at[x] = "idle" <=> calls[x] = <<>>
  BY DEF Inv, CallsInv
<1>1. Len(calls[x]) \in Nat
  BY <1>0
<1>2. CallsToGo(x) \in Int
  BY <1>1 DEF CallsToGo
<1>3. ASSUME CallStep(x)
      PROVE  CallsToGo(x)' < CallsToGo(x)
  <2>1. CASE NextCall(x)
    <3>1. at[x] \in {"call", "passed", "decoding"}
      BY <1>3 DEF CallStep, CallFreed, Filter, Lock, Decode
    <3>2. calls'[x] = Tail(calls[x]) /\ at'[x] \in {"idle", "call"}
      BY <1>0, <2>1 DEF NextCall
    <3>3. Len(calls'[x]) = Len(calls[x]) - 1
      <4>1. calls[x] \in Seq(Subscriptions) /\ calls[x] # <<>>
        BY <1>0, <3>1
      <4> QED
        BY <3>2, <4>1
    <3> QED
      BY <1>1, <3>1, <3>2, <3>3 DEF CallsToGo
  <2>2. CASE at[x] = "call" /\ Enter(x, "passed")
    <3>1. calls'[x] = calls[x] /\ at'[x] = "passed"
      BY <1>0, <2>2 DEF Enter
    <3> QED
      BY <1>1, <2>2, <3>1 DEF CallsToGo
  <2>3. CASE at[x] = "passed" /\ Enter(x, "decoding")
    <3>1. calls'[x] = calls[x] /\ at'[x] = "decoding"
      BY <1>0, <2>3 DEF Enter
    <3> QED
      BY <1>1, <2>3, <3>1 DEF CallsToGo
  <2> QED
    BY <1>3, <2>1, <2>2, <2>3, CallEffect DEF Decode
<1>4. ASSUME life[x] = "dying", NEW m, Receive(x, m)
      PROVE  CallsToGo(x)' = CallsToGo(x)
  <2>1. subs[x] = <<>>
    BY <1>4, SubscribedIsLive
  <2>2. calls'[x] = <<>> /\ calls[x] = <<>> /\ at'[x] = "idle" /\ at[x] = "idle"
    BY <1>0, <1>4, <2>1 DEF Receive
  <2> QED
    BY <2>2 DEF CallsToGo
<1>5. ASSUME calls'[x] = calls[x], at'[x] = at[x]
      PROVE  CallsToGo(x)' = CallsToGo(x)
  BY <1>5 DEF CallsToGo
<1>6. ASSUME life[x] = "dying"
      PROVE  CallsToGo(x)' <= CallsToGo(x)
  <2>1. CallsToGo(x)' < CallsToGo(x) \/ CallsToGo(x)' = CallsToGo(x)
    BY <1>3, <1>4, <1>5, <1>6, CallSteps
  <2>2. CallsToGo(x)' \in Int
    <3>1. calls' \in [Sessions -> Seq(Subscriptions)]
      BY InvKept DEF Inv, CallsInv
    <3>2. Len(calls'[x]) \in Nat
      BY <3>1
    <3> QED
      BY <3>2 DEF CallsToGo
  <2> QED
    BY <1>2, <2>1, <2>2
<1> QED
  BY <1>3, <1>6

\* Once a source has unsubscribed, only calls that were copied before are left.
LEMMA NoNewCalls ==
    ASSUME Inv, Detached, Next, NEW x \in Sessions, NEW s \in Sources,
           doing[s] = "destroy", stage[s] # "unsubscribe", CallsOf(x, s)'
    PROVE  CallsOf(x, s)
<1>1. PICK i \in DOMAIN calls'[x] : calls'[x][i].of = s
  BY DEF CallsOf
<1>2. calls[x] \in Seq(Subscriptions) /\ (at[x] = "idle" <=> calls[x] = <<>>)
  BY DEF Inv, CallsInv
<1>3. CASE calls'[x] = calls[x]
  BY <1>1, <1>3 DEF CallsOf
<1>4. CASE \E m \in Mids : Receive(x, m)
  <2>1. calls'[x] = subs[x]
    BY <1>4 DEF Receive, Inv, CallsInv
  <2>2. sub[s] = x /\ stage[s] \notin {"release", "await"}
    BY <1>1, <2>1 DEF Inv, Listed
  <2>3. x # None
    BY PlaybackAssumption DEF PlaybackAssumption
  <2> QED
    BY <2>2, <2>3 DEF Detached
<1>5. CASE NextCall(x) /\ calls[x] # <<>>
  <2>1. calls'[x] = Tail(calls[x])
    BY <1>5 DEF NextCall, Inv, CallsInv
  <2>2. i + 1 \in DOMAIN calls[x] /\ calls'[x][i] = calls[x][i + 1]
    BY <1>1, <1>2, <1>5, <2>1
  <2> QED
    BY <1>1, <2>2 DEF CallsOf
<1>6. ASSUME CallStep(x)
      PROVE  calls'[x] = calls[x] \/ (NextCall(x) /\ calls[x] # <<>>)
  <2>1. at[x] # "idle"
    BY <1>6 DEF CallStep, CallFreed, Filter, Lock, Decode
  <2> QED
    BY <1>2, <1>6, <2>1, CallEffect DEF Enter, Decode
<1> QED
  BY <1>3, <1>4, <1>5, <1>6, CallSteps

\* OBS's destroy of a source is not stuck: what it waits for is a thread that is
\* decoding, or a session whose packet comes to its end, and neither waits for
\* the source.  With the fairness of FairSpec this is why DestroyReturns.
THEOREM DestroyMakesProgress == Spec => []DestroyIsNotStuck /\ [][DestroyNears]_vars
<1>1. Init => LocksHeld /\ Detached
  BY DEF Init, LocksHeld, Detached
<1>2. Inv /\ LocksHeld /\ Detached /\ [Next]_vars => (LocksHeld /\ Detached)'
  <2> SUFFICES ASSUME Inv, LocksHeld, Detached, [Next]_vars
               PROVE  (LocksHeld /\ Detached)'
    OBVIOUS
  <2>1. CASE UNCHANGED vars
    BY <2>1 DEF vars, sessionVars, callVars, sourceVars, LocksHeld, Detached, Decoder, Callee
  <2>2. CASE Next
    BY <2>2, LocksStay, DetachedStays
  <2> QED
    BY <2>1, <2>2
<1>3. Inv /\ LocksHeld /\ Detached => DestroyIsNotStuck
  <2> SUFFICES ASSUME Inv, LocksHeld, Detached, NEW s \in Sources, doing[s] = "destroy"
               PROVE  \/ stage[s] \in {"unsubscribe", "release", "audio"}
                      \/ stage[s] = "await" /\ life[sub[s]] = "dying" /\ subs[sub[s]] = <<>>
                      \/ stage[s] = "decoder" /\ \A x \in Sessions : \A i \in DOMAIN subs[x] :
                                                     subs[x][i].of # s
    BY DEF DestroyIsNotStuck
  <2>1. CASE stage[s] = "await"
    <3>1. life[sub[s]] = "dying" /\ sub[s] \in Sessions
      BY <2>1 DEF Inv, Dying, Stages, OtherTypes
    <3>2. subs[sub[s]] = <<>>
      BY <3>1, SubscribedIsLive
    <3> QED
      BY <2>1, <3>1, <3>2
  <2>2. CASE stage[s] = "decoder"
    <3>1. sub[s] = None
      BY <2>2 DEF Detached
    <3>2. \A x \in Sessions : x # None
      BY PlaybackAssumption DEF PlaybackAssumption
    <3>3. \A x \in Sessions : \A i \in DOMAIN subs[x] : subs[x][i].of # s
      BY <3>1, <3>2 DEF Inv, Listed
    <3> QED
      BY <2>2, <3>3
  <2> QED
    BY <2>1, <2>2 DEF Detached
<1>4. Inv /\ Detached /\ [Next]_vars => [DestroyNears]_vars
  <2> SUFFICES ASSUME Inv, Detached, Next
               PROVE  DestroyNears
    OBVIOUS
  <2>1. ASSUME NEW s \in Sources, doing[s] = "destroy"
        PROVE  /\ doing'[s] \in {"destroy", "gone"}
               /\ StepsToGo(s)' <= StepsToGo(s)
               /\ SourceStep(s) => StepsToGo(s)' < StepsToGo(s)
    <3>1. CASE Source(s)
      BY <2>1, <3>1, DestroySteps DEF StepsToGo
    <3>2. CASE ~Source(s)
      <4>1. stage'[s] = stage[s] /\ doing'[s] = doing[s]
        BY <3>2, OperationSteps
      <4>2. StepsToGo(s) \in Nat
        BY DEF StepsToGo
      <4>3. StepsToGo(s)' = StepsToGo(s)
        BY <4>1 DEF StepsToGo
      <4> QED
        BY <2>1, <3>2, <4>1, <4>2, <4>3 DEF Source
    <3> QED
      BY <3>1, <3>2
  <2> QED
    BY <2>1, CallsNear, NoNewCalls DEF DestroyNears
<1> QED
  BY <1>1, <1>2, <1>3, <1>4, Invariance, PTL DEF Spec

-----------------------------------------------------------------------------
(* One receive session: its threads, its state and its connection.         *)

At(s, x) == \E i \in DOMAIN s : s[i] = x

\* x does not stand before y in s, nor y twice.
OnlyAfter(s, x, y) == \A i, j \in DOMAIN s : s[i] = x /\ s[j] = y => i < j
Once(s, x) == \A i, j \in DOMAIN s : s[i] = x /\ s[j] = x => i = j

\* The state that wrtc_state_cb gives to a connection.
StateOf(l) == IF l \in {"connected", "failed", "closed"} THEN l ELSE "negotiating"

\* What the threads may have to do.
CreatorCalls ==
    {<<Do("connect"), Do("assign"), Set("awaiting_accept")>>,
     <<Do("assign"), Set("awaiting_accept")>>,
     <<Set("awaiting_accept")>>, <<Store("awaiting_accept")>>, <<>>}

ApplyCalls ==
    {<<Set("negotiating"), Do("apply")>>, <<Store("negotiating"), Do("apply")>>,
     <<Do("apply")>>}

FailCalls == {<<Set("failed")>>, <<Store("failed")>>}

WsCalls == {<<>>, <<Set("accepted")>>, <<Store("accepted")>>} \cup FailCalls \cup ApplyCalls

RtcCalls == {<<>>, <<Set(StateOf(link))>>, <<Store(StateOf(link))>>}

ThreadsInv ==
    /\ todo["creator"] \in CreatorCalls
    /\ todo["ws"] \in WsCalls
    /\ todo["rtc"] \in RtcCalls

Applying == todo["ws"] \in ApplyCalls
Failing == todo["ws"] \in FailCalls

LinkInv ==
    /\ applied = 0 <=> link \in {"new", "unapplied"}
    /\ applied = 0 => Idle("rtc")
    /\ losses = 0 => link \notin {"failed", "closed"}

\* The hello goes first; a refusal leaves nobody to accept.
HelloInv ==
    /\ Calling("creator", "connect") => socket = "none"
    /\ socket \in {"none", "connecting"} => outbox = <<>> /\ room = "out"
    /\ \A i \in DOMAIN outbox : outbox[i] = "hello" => i = 1 /\ room = "out"
    /\ room \in {"out", "waiting", "refused"} => accepts = 0
    /\ Failing \/ (\E m \in Refusals : At(inbox, m)) => room = "refused"

\* The offer of a single acceptance is due, on its way, being applied, or
\* applied, and the acceptance is before it.
OffersInv ==
    /\ accepts = 0 =>
         /\ offersDue = 0 /\ applied = 0
         /\ ~At(inbox, "accepted") /\ ~At(inbox, "offer") /\ ~Applying
    /\ accepts = 1 =>
         /\ offersDue <= 1 /\ Once(inbox, "offer") /\ OnlyAfter(inbox, "accepted", "offer")
         /\ offersDue = 1 => ~At(inbox, "offer")
         /\ offersDue = 1 \/ At(inbox, "offer") \/ At(inbox, "accepted") =>
              ~Applying /\ applied = 0
         /\ Applying => applied = 0

\* The creator stored over no other thread's state, and the connection was
\* never lost or the receiver accepted once at most.
Calm == ~overwritten /\ (losses = 0 \/ accepts <= 1)

StateInv ==
    Calm =>
      /\ applied = 0 => state \notin {"connected", "closed"}
      /\ todo["ws"] = <<Do("apply")>> => state = "negotiating"
      /\ applied > 0 =>
           /\ Idle("ws")
           /\ state \in {"negotiating", "connected", "failed", "closed"}
           /\ losses = 0 => state \in {"negotiating", "connected"}
           /\ Idle("rtc") => state = StateOf(link)

SessionInv ==
    /\ SessionTypeOK /\ ThreadsInv /\ LinkInv /\ HelloInv /\ OffersInv /\ StateInv

LEMMA Singles ==
    ASSUME NEW c
    PROVE  <<c>> # <<>> /\ Head(<<c>>) = c /\ Tail(<<c>>) = <<>> /\ <<c>> \o <<>> = <<c>>
  OBVIOUS

LEMMA Pairs ==
    ASSUME NEW c, NEW d
    PROVE  /\ <<c, d>> # <<>> /\ Head(<<c, d>>) = c /\ Tail(<<c, d>>) = <<d>>
           /\ <<c>> \o <<d>> = <<c, d>> /\ <<>> \o <<d>> = <<d>>
<1>1. <<c, d>> # <<>> /\ Head(<<c, d>>) = c
  OBVIOUS
<1>2. Tail(<<c, d>>) = <<d>>
  OBVIOUS
<1>3. <<c>> \o <<d>> = <<c, d>>
  <2>1. <<c>> \in Seq({c, d}) /\ d \in {c, d}
    OBVIOUS
  <2>2. <<c>> \o <<d>> \in Seq({c, d}) /\ Len(<<c>> \o <<d>>) = 2
    BY <2>1, ConcatProperties
  <2>3. \A i \in 1 .. 2 : (<<c>> \o <<d>>)[i] = IF i <= 1 THEN <<c>>[i] ELSE <<d>>[i - 1]
    BY <2>1, ConcatProperties
  <2>4. (<<c>> \o <<d>>)[1] = c /\ (<<c>> \o <<d>>)[2] = d
    BY <2>3
  <2>5. <<c, d>> \in Seq({c, d}) /\ Len(<<c, d>>) = 2 /\ <<c, d>>[1] = c /\ <<c, d>>[2] = d
    OBVIOUS
  <2>6. ASSUME NEW s \in Seq({c, d}), NEW t \in Seq({c, d}), Len(s) = 2, Len(t) = 2,
               s[1] = t[1], s[2] = t[2]
        PROVE  s = t
    <3>1. \A i \in 1 .. Len(s) : s[i] = t[i]
      <4>1. \A i \in 1 .. 2 : i = 1 \/ i = 2
        OBVIOUS
      <4> QED
        BY <2>6, <4>1
    <3> QED
      BY <2>6, <3>1, SeqEqual
  <2> QED
    BY ONLY <2>2, <2>4, <2>5, <2>6
<1>4. <<>> \o <<d>> = <<d>>
  OBVIOUS
<1> QED
  BY <1>1, <1>2, <1>3, <1>4

LEMMA Triples ==
    ASSUME NEW c, NEW d, NEW e
    PROVE  <<c, d, e>> # <<>> /\ Head(<<c, d, e>>) = c /\ Tail(<<c, d, e>>) = <<d, e>>
  OBVIOUS

\* A call is one thing only.
LEMMA CallsDiffer ==
    /\ \A st : Set(st).call = "set" /\ Set(st).to = st
    /\ \A st : Store(st).call = "store" /\ Store(st).to = st
    /\ \A c : Do(c).call = c
BY DEF Set, Store, Do

\* What waits in a list that gets a message or loses its first.
LEMMA Appended ==
    ASSUME NEW S, NEW s \in Seq(S), NEW m \in S
    PROVE  /\ \A x : At(Append(s, m), x) <=> At(s, x) \/ x = m
           /\ \A x : Once(s, x) /\ (x = m => ~At(s, x)) => Once(Append(s, m), x)
           /\ \A x, y : OnlyAfter(s, x, y) /\ (x = m => ~At(s, y)) /\ x # y =>
                            OnlyAfter(Append(s, m), x, y)
<1>1. /\ Append(s, m) \in Seq(S) /\ DOMAIN Append(s, m) = 1 .. Len(s) + 1
      /\ DOMAIN s = 1 .. Len(s) /\ Len(s) \in Nat
      /\ Append(s, m)[Len(s) + 1] = m
      /\ \A i \in 1 .. Len(s) : Append(s, m)[i] = s[i]
  OBVIOUS
<1>2. ASSUME NEW x
      PROVE  At(Append(s, m), x) <=> At(s, x) \/ x = m
  <2>1. ASSUME At(Append(s, m), x) PROVE At(s, x) \/ x = m
    BY <1>1, <2>1 DEF At
  <2>2. ASSUME At(s, x) PROVE At(Append(s, m), x)
    BY <1>1, <2>2 DEF At
  <2>3. ASSUME x = m PROVE At(Append(s, m), x)
    BY <1>1, <2>3 DEF At
  <2> QED
    BY <2>1, <2>2, <2>3
<1>3. ASSUME NEW x, Once(s, x), x = m => ~At(s, x)
      PROVE  Once(Append(s, m), x)
  BY <1>1, <1>3 DEF Once, At
<1>4. ASSUME NEW x, NEW y, OnlyAfter(s, x, y), x = m => ~At(s, y), x # y
      PROVE  OnlyAfter(Append(s, m), x, y)
  BY <1>1, <1>4 DEF OnlyAfter, At
<1> QED
  BY <1>2, <1>3, <1>4

LEMMA Taken ==
    ASSUME NEW S, NEW s \in Seq(S), s # <<>>
    PROVE  /\ Tail(s) \in Seq(S) /\ Head(s) \in S
           /\ \A x : At(Tail(s), x) => At(s, x)
           /\ At(s, Head(s))
           /\ \A x : Once(s, x) => Once(Tail(s), x)
           /\ \A x : Once(s, x) /\ x = Head(s) => ~At(Tail(s), x)
           /\ \A x, y : OnlyAfter(s, x, y) => OnlyAfter(Tail(s), x, y)
           /\ \A x, y : OnlyAfter(s, x, y) /\ y = Head(s) => ~At(s, x)
<1>1. /\ Tail(s) \in Seq(S) /\ DOMAIN Tail(s) = 1 .. Len(s) - 1
      /\ DOMAIN s = 1 .. Len(s) /\ Len(s) \in Nat /\ Len(s) >= 1
      /\ Head(s) = s[1] /\ Head(s) \in S
      /\ \A i \in 1 .. Len(s) - 1 : Tail(s)[i] = s[i + 1]
  OBVIOUS
<1>2. ASSUME NEW x, At(Tail(s), x)
      PROVE  At(s, x) /\ (Once(s, x) => x # Head(s))
  <2>1. PICK i \in 1 .. Len(s) - 1 : s[i + 1] = x
    BY <1>1, <1>2 DEF At
  <2> QED
    BY <1>1, <2>1 DEF At, Once
<1>3. At(s, Head(s))
  BY <1>1 DEF At
<1>4. ASSUME NEW x, Once(s, x)
      PROVE  Once(Tail(s), x)
  <2> SUFFICES ASSUME NEW i \in 1 .. Len(s) - 1, NEW j \in 1 .. Len(s) - 1,
                      s[i + 1] = x, s[j + 1] = x
               PROVE  i = j
    BY <1>1 DEF Once
  <2>1. i + 1 \in DOMAIN s /\ j + 1 \in DOMAIN s
    BY <1>1
  <2>2. i + 1 = j + 1
    BY <1>4, <2>1 DEF Once
  <2> QED
    BY <2>2
<1>5. ASSUME NEW x, NEW y, OnlyAfter(s, x, y)
      PROVE  OnlyAfter(Tail(s), x, y) /\ (y = Head(s) => ~At(s, x))
  <2>1. ASSUME NEW i \in 1 .. Len(s) - 1, NEW j \in 1 .. Len(s) - 1,
               s[i + 1] = x, s[j + 1] = y
        PROVE  i < j
    <3>1. i + 1 \in DOMAIN s /\ j + 1 \in DOMAIN s
      BY <1>1
    <3>2. i + 1 < j + 1
      BY <1>5, <2>1, <3>1 DEF OnlyAfter
    <3> QED
      BY <3>2
  <2>2. OnlyAfter(Tail(s), x, y)
    BY <1>1, <2>1 DEF OnlyAfter
  <2>3. y = Head(s) => ~At(s, x)
    BY <1>1, <1>5 DEF OnlyAfter, At
  <2> QED
    BY <2>2, <2>3
<1> QED
  BY <1>1, <1>2, <1>3, <1>4, <1>5

LEMMA NothingWaits ==
    /\ \A x : ~At(<<>>, x) /\ Once(<<>>, x)
    /\ \A x, y : OnlyAfter(<<>>, x, y)
BY DEF At, Once, OnlyAfter

\* The creator's next call.
LEMMA CreatorHeads ==
    ASSUME NEW s \in CreatorCalls, s # <<>>
    PROVE  /\ Head(s).call = "set" => s = <<Set("awaiting_accept")>>
           /\ Head(s).call = "store" => s = <<Store("awaiting_accept")>>
           /\ Head(s).call = "connect" =>
                Tail(s) = <<Do("assign"), Set("awaiting_accept")>>
           /\ Head(s).call = "assign" => Tail(s) = <<Set("awaiting_accept")>>
<1>1. CASE s = <<Do("connect"), Do("assign"), Set("awaiting_accept")>>
  <2>1. Head(s) = Do("connect") /\ Tail(s) = <<Do("assign"), Set("awaiting_accept")>>
    BY <1>1, Triples
  <2>2. Head(s).call = "connect"
    BY <2>1, CallsDiffer
  <2> QED
    BY <2>1, <2>2
<1>2. CASE s = <<Do("assign"), Set("awaiting_accept")>>
  <2>1. Head(s) = Do("assign") /\ Tail(s) = <<Set("awaiting_accept")>>
    BY <1>2, Pairs
  <2>2. Head(s).call = "assign"
    BY <2>1, CallsDiffer
  <2> QED
    BY <2>1, <2>2
<1>3. CASE s = <<Set("awaiting_accept")>>
  BY <1>3, Singles, CallsDiffer
<1>4. CASE s = <<Store("awaiting_accept")>>
  BY <1>4, Singles, CallsDiffer
<1> QED
  BY <1>1, <1>2, <1>3, <1>4 DEF CreatorCalls

\* What a thread has to do after set_state compared.
LEMMA SetMakes ==
    ASSUME SessionTypeOK, ThreadsInv, NEW t \in Threads, CallSet(t)
    PROVE  \/ /\ t = "creator" /\ todo[t] = <<Set("awaiting_accept")>>
              /\ \E c \in {<<>>, <<Store("awaiting_accept")>>} :
                   todo' = [todo EXCEPT ![t] = c]
           \/ /\ t = "ws"
              /\ \E st \in {"accepted", "failed"} :
                   /\ todo[t] = <<Set(st)>>
                   /\ todo' = [todo EXCEPT ![t] = IF state = st THEN <<>> ELSE <<Store(st)>>]
           \/ /\ t = "ws" /\ todo[t] = <<Set("negotiating"), Do("apply")>>
              /\ todo' = [todo EXCEPT ![t] =
                            IF state = "negotiating" THEN <<Do("apply")>>
                            ELSE <<Store("negotiating"), Do("apply")>>]
           \/ /\ t = "rtc" /\ todo[t] = <<Set(StateOf(link))>>
              /\ todo' = [todo EXCEPT ![t] = IF state = StateOf(link) THEN <<>>
                                             ELSE <<Store(StateOf(link))>>]
<1> DEFINE new == Head(todo[t]).to
<1>1. /\ todo[t] # <<>> /\ Head(todo[t]).call = "set"
      /\ todo' = [todo EXCEPT ![t] = (IF state = new THEN <<>> ELSE <<Store(new)>>)
                                         \o Tail(todo[t])]
  BY DEF CallSet, Calling, Idle, SessionTypeOK
<1>2. ASSUME NEW st, todo[t] = <<Set(st)>>
      PROVE  todo' = [todo EXCEPT ![t] = IF state = st THEN <<>> ELSE <<Store(st)>>]
  <2>1. new = st /\ Tail(todo[t]) = <<>>
    BY <1>2, Singles, CallsDiffer
  <2>2. <<>> \o <<>> = <<>> /\ <<Store(st)>> \o <<>> = <<Store(st)>>
    BY Singles
  <2> QED
    BY <1>1, <2>1, <2>2
<1>3. ASSUME NEW st, todo[t] = <<Set(st), Do("apply")>>
      PROVE  todo' = [todo EXCEPT ![t] = IF state = st THEN <<Do("apply")>>
                                         ELSE <<Store(st), Do("apply")>>]
  <2>1. new = st /\ Tail(todo[t]) = <<Do("apply")>>
    BY <1>3, Pairs, CallsDiffer
  <2>2. /\ <<>> \o <<Do("apply")>> = <<Do("apply")>>
        /\ <<Store(st)>> \o <<Do("apply")>> = <<Store(st), Do("apply")>>
    BY Pairs
  <2> QED
    BY <1>1, <2>1, <2>2
<1>4. CASE t = "creator"
  <2>1. todo[t] = <<Set("awaiting_accept")>>
    <3>1. todo[t] \in CreatorCalls
      BY <1>4 DEF ThreadsInv
    <3> QED
      BY <1>1, <3>1, CreatorHeads
  <2>2. \E c \in {<<>>, <<Store("awaiting_accept")>>} : todo' = [todo EXCEPT ![t] = c]
    BY <1>2, <2>1
  <2> QED
    BY <1>4, <2>1, <2>2
<1>5. CASE t = "ws"
  <2>1. todo[t] \in {<<Set("accepted")>>, <<Set("failed")>>,
                     <<Set("negotiating"), Do("apply")>>}
    <3>1. todo[t] \in WsCalls
      BY <1>5 DEF ThreadsInv
    <3> QED
      BY <1>1, <3>1, Singles, Pairs, CallsDiffer DEF WsCalls, ApplyCalls, FailCalls
  <2> QED
    BY <1>2, <1>3, <1>5, <2>1
<1>6. CASE t = "rtc"
  <2>1. todo[t] = <<Set(StateOf(link))>>
    <3>1. todo[t] \in RtcCalls
      BY <1>6 DEF ThreadsInv
    <3> QED
      BY <1>1, <3>1, Singles, CallsDiffer DEF RtcCalls
  <2> QED
    BY <1>2, <1>6, <2>1
<1> QED
  BY <1>4, <1>5, <1>6 DEF Threads

\* What it stores, and what it has to do then.
LEMMA StoreMakes ==
    ASSUME SessionTypeOK, ThreadsInv, NEW t \in Threads, CallStore(t)
    PROVE  \/ /\ t = "creator" /\ todo[t] = <<Store("awaiting_accept")>>
              /\ state' = "awaiting_accept" /\ todo' = [todo EXCEPT ![t] = <<>>]
           \/ /\ t = "ws"
              /\ \E st \in {"accepted", "failed"} :
                   /\ todo[t] = <<Store(st)>>
                   /\ state' = st /\ todo' = [todo EXCEPT ![t] = <<>>]
           \/ /\ t = "ws" /\ todo[t] = <<Store("negotiating"), Do("apply")>>
              /\ state' = "negotiating" /\ todo' = [todo EXCEPT ![t] = <<Do("apply")>>]
           \/ /\ t = "rtc" /\ todo[t] = <<Store(StateOf(link))>>
              /\ state' = StateOf(link) /\ todo' = [todo EXCEPT ![t] = <<>>]
<1>1. /\ todo[t] # <<>> /\ Head(todo[t]).call = "store"
      /\ state' = Head(todo[t]).to
      /\ todo' = [todo EXCEPT ![t] = Tail(todo[t])]
  BY DEF CallStore, Calling, Idle, SessionTypeOK, Proceed
<1>2. ASSUME NEW st, todo[t] = <<Store(st)>>
      PROVE  state' = st /\ todo' = [todo EXCEPT ![t] = <<>>]
  BY <1>1, <1>2, Singles, CallsDiffer
<1>3. ASSUME NEW st, todo[t] = <<Store(st), Do("apply")>>
      PROVE  state' = st /\ todo' = [todo EXCEPT ![t] = <<Do("apply")>>]
  BY <1>1, <1>3, Pairs, CallsDiffer
<1>4. CASE t = "creator"
  <2>1. todo[t] = <<Store("awaiting_accept")>>
    <3>1. todo[t] \in CreatorCalls
      BY <1>4 DEF ThreadsInv
    <3> QED
      BY <1>1, <3>1, CreatorHeads
  <2> QED
    BY <1>2, <1>4, <2>1
<1>5. CASE t = "ws"
  <2>1. todo[t] \in {<<Store("accepted")>>, <<Store("failed")>>,
                     <<Store("negotiating"), Do("apply")>>}
    <3>1. todo[t] \in WsCalls
      BY <1>5 DEF ThreadsInv
    <3> QED
      BY <1>1, <3>1, Singles, Pairs, CallsDiffer DEF WsCalls, ApplyCalls, FailCalls
  <2> QED
    BY <1>2, <1>3, <1>5, <2>1
<1>6. CASE t = "rtc"
  <2>1. todo[t] = <<Store(StateOf(link))>>
    <3>1. todo[t] \in RtcCalls
      BY <1>6 DEF ThreadsInv
    <3> QED
      BY <1>1, <3>1, Singles, CallsDiffer DEF RtcCalls
  <2> QED
    BY <1>2, <1>6, <2>1
<1> QED
  BY <1>4, <1>5, <1>6 DEF Threads

\* The offer is the last thing the WebSocket's thread applies.
LEMMA ApplyMakes ==
    ASSUME SessionTypeOK, ThreadsInv, Apply
    PROVE  /\ todo["ws"] = <<Do("apply")>>
           /\ todo' = [todo EXCEPT !["ws"] = <<>>]
<1>1. Calling("ws", "apply") /\ Proceed("ws")
  BY DEF Apply, CallApply, CallApplyUnanswered, CallApplyFails
<1>2. todo["ws"] # <<>> /\ Head(todo["ws"]).call = "apply" /\ todo["ws"] \in WsCalls
  BY <1>1 DEF Calling, Idle, ThreadsInv
<1>3. todo["ws"] = <<Do("apply")>>
  BY <1>2, Singles, Pairs, CallsDiffer DEF WsCalls, ApplyCalls, FailCalls
<1> QED
  BY <1>1, <1>3, Singles DEF Proceed

\* It describes the connection, or fails.
LEMMA ApplyDescribes ==
    ASSUME Apply
    PROVE  /\ Calling("ws", "apply")
           /\ UNCHANGED <<state, netVars, farVars, losses, overwritten>>
           /\ \/ /\ applied' = applied + 1
                 /\ \/ link \in {"new", "unapplied"} /\ link' \in {"offered", "unanswered"}
                    \/ link \notin {"new", "unapplied"} /\ UNCHANGED link
              \/ /\ UNCHANGED applied
                 /\ link' = link \/ (link = "new" /\ link' = "unapplied")
<1>1. CASE CallApply \/ CallApplyUnanswered
  BY <1>1 DEF CallApply, CallApplyUnanswered, Described
<1>2. CASE CallApplyFails
  BY <1>2 DEF CallApplyFails
<1> QED
  BY <1>1, <1>2 DEF Apply

\* The threads have to do what they may.
LEMMA ThreadsKept ==
    ASSUME SessionTypeOK, ThreadsInv, LinkInv, SessionNext
    PROVE  ThreadsInv'
<1> USE DEF netVars, farVars, linkVars
<1>0. todo \in [Threads -> Seq(Calls)] /\ "creator" \in Threads /\ "ws" \in Threads /\ "rtc" \in Threads
  BY DEF SessionTypeOK, Threads
<1>1. ASSUME NEW t \in Threads, CallSet(t)
      PROVE  ThreadsInv'
  <2>1. UNCHANGED link
    BY <1>1 DEF CallSet
  <2>2. RtcCalls' = RtcCalls
    BY <2>1 DEF RtcCalls
  <2>3. CASE t = "creator"
    <3>1. /\ todo'["creator"] \in {<<>>, <<Store("awaiting_accept")>>}
          /\ todo'["ws"] = todo["ws"] /\ todo'["rtc"] = todo["rtc"]
      BY <1>0, <1>1, <2>3, SetMakes
    <3> QED
      BY <2>2, <3>1 DEF ThreadsInv, CreatorCalls
  <2>4. CASE t = "ws"
    <3>1. /\ todo'["ws"] \in WsCalls
          /\ todo'["creator"] = todo["creator"] /\ todo'["rtc"] = todo["rtc"]
      BY <1>0, <1>1, <2>4, SetMakes DEF WsCalls, ApplyCalls, FailCalls
    <3> QED
      BY <2>2, <3>1 DEF ThreadsInv
  <2>5. CASE t = "rtc"
    <3>1. /\ todo'["rtc"] \in {<<>>, <<Store(StateOf(link))>>}
          /\ todo'["ws"] = todo["ws"] /\ todo'["creator"] = todo["creator"]
      BY <1>0, <1>1, <2>5, SetMakes
    <3> QED
      BY <2>2, <3>1 DEF ThreadsInv, RtcCalls
  <2> QED
    BY <2>3, <2>4, <2>5 DEF Threads
<1>2. ASSUME NEW t \in Threads, CallStore(t)
      PROVE  ThreadsInv'
  <2>1. UNCHANGED link
    BY <1>2 DEF CallStore
  <2>2. RtcCalls' = RtcCalls
    BY <2>1 DEF RtcCalls
  <2>3. /\ (t = "ws" /\ todo'[t] = <<Do("apply")>>) \/ todo'[t] = <<>>
        /\ \A u \in Threads \ {t} : todo'[u] = todo[u]
    BY <1>0, <1>2, StoreMakes
  <2>4. todo'["creator"] \in CreatorCalls
    BY <1>0, <2>3 DEF ThreadsInv, CreatorCalls
  <2>5. todo'["ws"] \in WsCalls
    BY <1>0, <2>3 DEF ThreadsInv, WsCalls, ApplyCalls
  <2>6. todo'["rtc"] \in RtcCalls
    BY <1>0, <2>3 DEF ThreadsInv, RtcCalls
  <2> QED
    BY <2>2, <2>4, <2>5, <2>6 DEF ThreadsInv
<1>3. CASE CallConnect \/ CallAssign
  <2>1. /\ UNCHANGED link
        /\ todo' = [todo EXCEPT !["creator"] = Tail(@)]
        /\ todo["creator"] # <<>> /\ Head(todo["creator"]).call \in {"connect", "assign"}
    BY <1>3 DEF CallConnect, CallAssign, Calling, Idle, Proceed
  <2>2. Tail(todo["creator"]) \in CreatorCalls
    BY <2>1, CreatorHeads DEF ThreadsInv, CreatorCalls
  <2> QED
    BY <1>0, <2>1, <2>2 DEF ThreadsInv, RtcCalls
<1>4. CASE Apply
  <2>1. StateOf(link') = StateOf(link)
    BY <1>4, ApplyDescribes DEF StateOf
  <2>2. todo'["ws"] = <<>> /\ todo'["creator"] = todo["creator"] /\ todo'["rtc"] = todo["rtc"]
    BY <1>0, <1>4, ApplyMakes
  <2> QED
    BY <2>1, <2>2 DEF ThreadsInv, RtcCalls, WsCalls
<1>5. CASE WsAccepted \/ WsRefused \/ WsOffer
  <2>1. /\ UNCHANGED link
        /\ \E c \in {<<>>, <<Set("accepted")>>, <<Set("failed")>>, OnOffer} :
             todo' = [todo EXCEPT !["ws"] = c]
    BY <1>5 DEF WsAccepted, WsRefused, WsOffer, Start
  <2>2. {<<>>, <<Set("accepted")>>, <<Set("failed")>>, OnOffer} \subseteq WsCalls
    BY DEF OnOffer, WsCalls, FailCalls, ApplyCalls
  <2> QED
    BY <1>0, <2>1, <2>2 DEF ThreadsInv, RtcCalls
<1>6. CASE RtcAnswer
  <2>1. StateOf(link') = StateOf(link) /\ UNCHANGED todo
    BY <1>6 DEF RtcAnswer, StateOf
  <2> QED
    BY <2>1 DEF ThreadsInv, RtcCalls
<1>7. CASE RtcConnecting \/ RtcConnected \/ RtcFailed \/ RtcClosed
  <2>1. todo' = [todo EXCEPT !["rtc"] = <<Set(StateOf(link'))>>]
    BY <1>7 DEF RtcConnecting, RtcConnected, RtcFailed, RtcClosed, RtcMoves, Start, StateOf
  <2> QED
    BY <1>0, <2>1 DEF ThreadsInv, RtcCalls
<1>8. CASE WsRejected \/ WsOpen \/ WsLost \/ ServerTakes \/ SenderAccepts \/ SenderOffers
           \/ SenderRejects
  <2>1. UNCHANGED <<todo, link>>
    BY <1>8 DEF WsRejected, WsOpen, WsLost, ServerTakes, SenderAccepts, SenderOffers,
                SenderRejects
  <2> QED
    BY <2>1 DEF ThreadsInv, RtcCalls
<1> QED
  BY <1>0, <1>1, <1>2, <1>3, <1>4, <1>5, <1>6, <1>7, <1>8
     DEF SessionNext, Creator, Ws, Rtc, Thread

\* The states and the connection keep their types.
LEMMA SessionTypesKept ==
    ASSUME SessionTypeOK, ThreadsInv, ThreadsInv', SessionNext
    PROVE  SessionTypeOK'
<1> USE DEF netVars, farVars, linkVars
<1>0. /\ "creator" \in Threads /\ "ws" \in Threads /\ "rtc" \in Threads
      /\ \A l \in Links : StateOf(l) \in States
      /\ \A st \in States : Set(st) \in Calls /\ Store(st) \in Calls
      /\ {Do("connect"), Do("assign"), Do("apply")} \subseteq Calls
      /\ {"awaiting_accept", "accepted", "negotiating", "failed"} \subseteq States
  BY DEF Threads, Links, StateOf, States, Set, Store, Do, Calls
<1>1. todo' \in [Threads -> Seq(Calls)]
  <2>1. \E t \in Threads : \E c : todo' = [todo EXCEPT ![t] = c]
    <3>1. \E t \in Threads : \/ \E c : todo' = [todo EXCEPT ![t] = c]
                             \/ UNCHANGED todo
      BY <1>0 DEF SessionNext, Creator, Ws, Rtc, Thread, CallSet, CallStore, CallConnect,
                  CallAssign, Apply, CallApply, CallApplyUnanswered, CallApplyFails, Proceed,
                  Start, WsOpen, WsLost, WsAccepted, WsRefused,
                  WsOffer, WsRejected, RtcAnswer, RtcConnecting, RtcConnected, RtcFailed,
                  RtcClosed, RtcMoves, ServerTakes, SenderAccepts, SenderOffers, SenderRejects
    <3>2. \A t \in Threads : todo = [todo EXCEPT ![t] = todo[t]]
      BY DEF SessionTypeOK
    <3> QED
      BY <3>1, <3>2
  <2>2. link' \in Links
    BY DEF Links, SessionTypeOK, SessionNext, Creator, Ws, Rtc, Thread, CallSet, CallStore,
           CallConnect, CallAssign, Apply, CallApply, CallApplyUnanswered, CallApplyFails,
           Described, WsOpen, WsLost, WsAccepted, WsRefused, WsOffer,
           WsRejected, RtcAnswer, RtcConnecting, RtcConnected, RtcFailed, RtcClosed, RtcMoves,
           ServerTakes, SenderAccepts, SenderOffers, SenderRejects
  <2>0. \A c, d, e \in Calls : {<<>>, <<c>>, <<c, d>>, <<c, d, e>>} \subseteq Seq(Calls)
    OBVIOUS
  <2>3. todo'["creator"] \in Seq(Calls)
    <3>1. CreatorCalls \subseteq Seq(Calls)
      BY <1>0, <2>0 DEF CreatorCalls
    <3> QED
      BY <3>1 DEF ThreadsInv
  <2>4. todo'["ws"] \in Seq(Calls)
    <3>1. WsCalls \subseteq Seq(Calls)
      BY <1>0, <2>0 DEF WsCalls, FailCalls, ApplyCalls
    <3> QED
      BY <3>1 DEF ThreadsInv
  <2>5. todo'["rtc"] \in Seq(Calls)
    <3>1. Set(StateOf(link')) \in Calls /\ Store(StateOf(link')) \in Calls
      BY <1>0, <2>2
    <3> QED
      BY <2>0, <3>1 DEF ThreadsInv, RtcCalls
  <2>6. DOMAIN todo' = Threads /\ todo' = [t \in Threads |-> todo'[t]]
    BY <2>1 DEF SessionTypeOK
  <2> QED
    BY <2>3, <2>4, <2>5, <2>6 DEF Threads
<1>2. state' \in States
  <2>1. CASE \E t \in Threads : CallStore(t)
    BY <1>0, <2>1, StoreMakes DEF SessionTypeOK
  <2>2. CASE ~\E t \in Threads : CallStore(t)
    BY <1>0, <2>2 DEF SessionTypeOK, SessionNext, Creator, Ws, Rtc, Thread, CallSet,
           CallConnect, CallAssign, Apply, CallApply, CallApplyUnanswered, CallApplyFails,
           Described, WsOpen, WsLost, WsAccepted, WsRefused, WsOffer,
           WsRejected, RtcAnswer, RtcConnecting, RtcConnected, RtcFailed, RtcClosed, RtcMoves,
           ServerTakes, SenderAccepts, SenderOffers, SenderRejects
  <2> QED
    BY <2>1, <2>2
<1>3. socket' \in {"none", "connecting", "open", "closed"} /\ assigned' \in BOOLEAN
  <2>1. socket' \in {"none", "connecting", "open", "closed"}
    BY DEF SessionTypeOK, SessionNext, Creator, Ws, Rtc, Thread, CallSet, CallStore,
         CallConnect, CallAssign, Apply, CallApply, CallApplyUnanswered, CallApplyFails,
         Described, WsOpen, WsLost, WsAccepted, WsRefused, WsOffer,
         WsRejected, RtcAnswer, RtcConnecting, RtcConnected, RtcFailed, RtcClosed, RtcMoves,
         ServerTakes, SenderAccepts, SenderOffers, SenderRejects
  <2>2. assigned' \in BOOLEAN
    BY DEF SessionTypeOK, SessionNext, Creator, Ws, Rtc, Thread, CallSet, CallStore,
         CallConnect, CallAssign, Apply, CallApply, CallApplyUnanswered, CallApplyFails,
         Described, WsOpen, WsLost, WsAccepted, WsRefused, WsOffer,
         WsRejected, RtcAnswer, RtcConnecting, RtcConnected, RtcFailed, RtcClosed, RtcMoves,
         ServerTakes, SenderAccepts, SenderOffers, SenderRejects
  <2> QED
    BY <2>1, <2>2
<1>4. room' \in {"out", "waiting", "admitted", "refused", "gone"}
  BY DEF SessionTypeOK, SessionNext, Creator, Ws, Rtc, Thread, CallSet, CallStore,
         CallConnect, CallAssign, Apply, CallApply, CallApplyUnanswered, CallApplyFails,
         Described, WsOpen, WsLost, WsAccepted, WsRefused, WsOffer,
         WsRejected, RtcAnswer, RtcConnecting, RtcConnected, RtcFailed, RtcClosed, RtcMoves,
         ServerTakes, SenderAccepts, SenderOffers, SenderRejects
<1>5. link' \in Links
  BY DEF Links, SessionTypeOK, SessionNext, Creator, Ws, Rtc, Thread, CallSet, CallStore,
         CallConnect, CallAssign, Apply, CallApply, CallApplyUnanswered, CallApplyFails,
         Described, WsOpen, WsLost, WsAccepted, WsRefused, WsOffer,
         WsRejected, RtcAnswer, RtcConnecting, RtcConnected, RtcFailed, RtcClosed, RtcMoves,
         ServerTakes, SenderAccepts, SenderOffers, SenderRejects
<1>6. accepts' \in 0 .. MaxAccepts /\ offersDue' \in Nat /\ applied' \in Nat /\ losses' \in 0 .. MaxLosses
  <2>1. accepts' = accepts \/ (accepts < MaxAccepts /\ accepts' = accepts + 1)
    BY DEF SessionNext, Creator, Ws, Rtc, Thread, CallSet, CallStore,
         CallConnect, CallAssign, Apply, CallApply, CallApplyUnanswered, CallApplyFails,
         Described, WsOpen, WsLost, WsAccepted, WsRefused, WsOffer,
         WsRejected, RtcAnswer, RtcConnecting, RtcConnected, RtcFailed, RtcClosed, RtcMoves,
         ServerTakes, SenderAccepts, SenderOffers, SenderRejects
  <2>2. offersDue' = offersDue \/ offersDue' = offersDue + 1 \/ (offersDue > 0 /\ offersDue' = offersDue - 1)
    BY DEF SessionNext, Creator, Ws, Rtc, Thread, CallSet, CallStore,
         CallConnect, CallAssign, Apply, CallApply, CallApplyUnanswered, CallApplyFails,
         Described, WsOpen, WsLost, WsAccepted, WsRefused, WsOffer,
         WsRejected, RtcAnswer, RtcConnecting, RtcConnected, RtcFailed, RtcClosed, RtcMoves,
         ServerTakes, SenderAccepts, SenderOffers, SenderRejects
  <2>3. applied' = applied \/ applied' = applied + 1
    BY DEF SessionNext, Creator, Ws, Rtc, Thread, CallSet, CallStore,
         CallConnect, CallAssign, Apply, CallApply, CallApplyUnanswered, CallApplyFails,
         Described, WsOpen, WsLost, WsAccepted, WsRefused, WsOffer,
         WsRejected, RtcAnswer, RtcConnecting, RtcConnected, RtcFailed, RtcClosed, RtcMoves,
         ServerTakes, SenderAccepts, SenderOffers, SenderRejects
  <2>4. losses' = losses \/ (losses < MaxLosses /\ losses' = losses + 1)
    BY DEF SessionNext, Creator, Ws, Rtc, Thread, CallSet, CallStore,
         CallConnect, CallAssign, Apply, CallApply, CallApplyUnanswered, CallApplyFails,
         Described, WsOpen, WsLost, WsAccepted, WsRefused, WsOffer,
         WsRejected, RtcAnswer, RtcConnecting, RtcConnected, RtcFailed, RtcClosed, RtcMoves,
         ServerTakes, SenderAccepts, SenderOffers, SenderRejects
  <2> QED
    BY <2>1, <2>2, <2>3, <2>4, SessionAssumption DEF SessionAssumption, SessionTypeOK
<1>8. inbox' \in Seq({"accepted", "offer", "rejected"} \cup Refusals)
  <2>1. \/ inbox' = inbox \/ inbox' = <<>> \/ (inbox # <<>> /\ inbox' = Tail(inbox))
        \/ \E m \in {"accepted", "offer", "rejected"} \cup Refusals : inbox' = Append(inbox, m)
    BY DEF SessionNext, Creator, Ws, Rtc, Thread, CallSet, CallStore,
         CallConnect, CallAssign, Apply, CallApply, CallApplyUnanswered, CallApplyFails,
         Described, WsOpen, WsLost, WsAccepted, WsRefused, WsOffer,
         WsRejected, RtcAnswer, RtcConnecting, RtcConnected, RtcFailed, RtcClosed, RtcMoves,
         ServerTakes, SenderAccepts, SenderOffers, SenderRejects, FromServer, ToReceiver
  <2>2. inbox \in Seq({"accepted", "offer", "rejected"} \cup Refusals)
    BY DEF SessionTypeOK
  <2>3. \A m \in {"accepted", "offer", "rejected"} \cup Refusals : Append(inbox, m) \in Seq({"accepted", "offer", "rejected"} \cup Refusals)
    BY <2>2
  <2>4. inbox # <<>> => Tail(inbox) \in Seq({"accepted", "offer", "rejected"} \cup Refusals)
    BY <2>2
  <2>5. <<>> \in Seq({"accepted", "offer", "rejected"} \cup Refusals)
    OBVIOUS
  <2> QED
    BY <2>1, <2>2, <2>3, <2>4, <2>5, Zenon
<1>9. outbox' \in Seq({"hello", "answer"})
  <2>1. \/ outbox' = outbox \/ outbox' = <<>> \/ (outbox # <<>> /\ outbox' = Tail(outbox))
        \/ \E m \in {"hello", "answer"} : outbox' = Append(outbox, m)
    BY DEF SessionNext, Creator, Ws, Rtc, Thread, CallSet, CallStore,
         CallConnect, CallAssign, Apply, CallApply, CallApplyUnanswered, CallApplyFails,
         Described, WsOpen, WsLost, WsAccepted, WsRefused, WsOffer,
         WsRejected, RtcAnswer, RtcConnecting, RtcConnected, RtcFailed, RtcClosed, RtcMoves,
         ServerTakes, SenderAccepts, SenderOffers, SenderRejects, Send
  <2>2. outbox \in Seq({"hello", "answer"})
    BY DEF SessionTypeOK
  <2>3. \A m \in {"hello", "answer"} : Append(outbox, m) \in Seq({"hello", "answer"})
    BY <2>2
  <2>4. outbox # <<>> => Tail(outbox) \in Seq({"hello", "answer"})
    BY <2>2
  <2>5. <<>> \in Seq({"hello", "answer"})
    OBVIOUS
  <2> QED
    BY <2>1, <2>2, <2>3, <2>4, <2>5, Zenon
<1>7. overwritten' \in BOOLEAN
  BY DEF SessionTypeOK, SessionNext, Creator, Ws, Rtc, Thread, CallSet, CallStore,
         CallConnect, CallAssign, Apply, CallApply, CallApplyUnanswered, CallApplyFails,
         Described, WsOpen, WsLost, WsAccepted, WsRefused, WsOffer,
         WsRejected, RtcAnswer, RtcConnecting, RtcConnected, RtcFailed, RtcClosed, RtcMoves,
         ServerTakes, SenderAccepts, SenderOffers, SenderRejects
<1> QED
  BY <1>1, <1>2, <1>3, <1>4, <1>5, <1>6, <1>7, <1>8, <1>9 DEF SessionTypeOK

\* What is to be done before an offer is applied is nothing else.
LEMMA CallsApart ==
    /\ <<>> \notin FailCalls \cup ApplyCalls
    /\ <<Set("accepted")>> \notin FailCalls \cup ApplyCalls
    /\ <<Store("accepted")>> \notin FailCalls \cup ApplyCalls
    /\ FailCalls \cap ApplyCalls = {}
    /\ OnOffer \in ApplyCalls /\ OnOffer # <<Do("apply")>>
    /\ <<Store("negotiating"), Do("apply")>> # <<Do("apply")>>
    /\ <<Set("failed")>> \in FailCalls
<1>1. ASSUME NEW c \in FailCalls
      PROVE  /\ c # <<>> /\ Head(c).call \in {"set", "store"} /\ Head(c).to = "failed"
             /\ Tail(c) = <<>>
  BY Singles, CallsDiffer DEF FailCalls
<1>2. ASSUME NEW c \in ApplyCalls
      PROVE  /\ c # <<>>
             /\ \/ c = <<Do("apply")>> /\ Head(c).call = "apply"
                \/ Head(c).call \in {"set", "store"} /\ Head(c).to = "negotiating"
  BY Singles, Pairs, CallsDiffer DEF ApplyCalls
<1>3. \A st : /\ Head(<<Set(st)>>).call = "set" /\ Head(<<Store(st)>>).call = "store"
              /\ Head(<<Set(st)>>).to = st /\ Head(<<Store(st)>>).to = st
  BY Singles, CallsDiffer
<1>4. /\ <<Set("accepted")>> \notin FailCalls \cup ApplyCalls
      /\ <<Store("accepted")>> \notin FailCalls \cup ApplyCalls
  BY <1>1, <1>2, <1>3
<1>5. FailCalls \cap ApplyCalls = {}
  <2> SUFFICES ASSUME NEW c \in FailCalls, c \in ApplyCalls PROVE FALSE
    OBVIOUS
  <2> QED
    BY <1>1, <1>2
<1>6. OnOffer \in ApplyCalls /\ <<Set("failed")>> \in FailCalls
  BY DEF OnOffer, ApplyCalls, FailCalls
<1>7. /\ OnOffer # <<Do("apply")>>
      /\ <<Store("negotiating"), Do("apply")>> # <<Do("apply")>>
  BY Singles, Pairs, CallsDiffer DEF OnOffer
<1> QED
  BY <1>1, <1>2, <1>4, <1>5, <1>6, <1>7

\* The steps there are.
LEMMA SessionSteps ==
    ASSUME SessionNext
    PROVE  \/ \E t \in Threads : CallSet(t) \/ CallStore(t)
           \/ CallConnect \/ CallAssign \/ Apply
           \/ WsAccepted \/ WsRefused \/ WsOffer \/ WsRejected \/ WsOpen \/ WsLost
           \/ RtcAnswer \/ RtcConnecting \/ RtcConnected \/ RtcFailed \/ RtcClosed
           \/ ServerTakes \/ SenderAccepts \/ SenderOffers \/ SenderRejects
BY DEF SessionNext, Creator, Ws, Rtc, Thread, Threads

\* How the WebSocket's thread comes to a failure and to an offer.
LEMMA WsComesTo ==
    ASSUME SessionTypeOK, ThreadsInv, SessionNext
    PROVE  /\ Failing' => Failing \/ WsRefused
           /\ Applying' => Applying \/ WsOffer
<1> USE DEF netVars, farVars, linkVars, Failing, Applying
<1>0. todo \in [Threads -> Seq(Calls)] /\ "ws" \in Threads
  BY DEF SessionTypeOK, Threads
<1>1. ASSUME NEW t \in Threads, CallSet(t)
      PROVE  (Failing' => Failing) /\ (Applying' => Applying)
  BY <1>0, <1>1, SetMakes, CallsApart DEF FailCalls, ApplyCalls
<1>2. ASSUME NEW t \in Threads, CallStore(t)
      PROVE  (Failing' => Failing) /\ (Applying' => Applying)
  BY <1>0, <1>2, StoreMakes, CallsApart DEF FailCalls, ApplyCalls
<1>3. CASE CallConnect \/ CallAssign
  BY <1>0, <1>3 DEF CallConnect, CallAssign, Proceed
<1>4. CASE Apply
  BY <1>0, <1>4, ApplyMakes, CallsApart
<1>5. CASE WsAccepted
  <2>1. todo'["ws"] = <<>> \/ todo'["ws"] = <<Set("accepted")>>
    BY <1>0, <1>5 DEF WsAccepted, Start
  <2> QED
    BY <2>1, CallsApart
<1>6. CASE WsRefused
  <2>1. todo'["ws"] = <<Set("failed")>>
    BY <1>0, <1>6 DEF WsRefused, Start
  <2> QED
    BY <1>6, <2>1, CallsApart
<1>7. CASE WsOffer
  <2>1. todo'["ws"] = <<>> \/ todo'["ws"] = OnOffer
    BY <1>0, <1>7 DEF WsOffer, Start
  <2> QED
    BY <1>7, <2>1, CallsApart
<1>8. CASE RtcConnecting \/ RtcConnected \/ RtcFailed \/ RtcClosed
  BY <1>0, <1>8 DEF RtcConnecting, RtcConnected, RtcFailed, RtcClosed, RtcMoves, Start
<1>9. CASE WsRejected \/ WsOpen \/ WsLost \/ RtcAnswer \/ ServerTakes \/ SenderAccepts
           \/ SenderOffers \/ SenderRejects
  BY <1>9 DEF WsRejected, WsOpen, WsLost, RtcAnswer, ServerTakes, SenderAccepts, SenderOffers,
              SenderRejects
<1> QED
  BY <1>1, <1>2, <1>3, <1>4, <1>5, <1>6, <1>7, <1>8, <1>9, SessionSteps

\* A connection is new until an offer is applied.
LEMMA LinkKept ==
    ASSUME SessionTypeOK, ThreadsInv, LinkInv, SessionNext
    PROVE  LinkInv'
<1> USE DEF netVars, farVars, linkVars
<1>0. todo \in [Threads -> Seq(Calls)] /\ "rtc" \in Threads /\ applied \in Nat /\ losses \in Nat
  BY SessionAssumption DEF SessionAssumption, SessionTypeOK, Threads
<1>1. CASE Apply
  <2>1. UNCHANGED <<todo["rtc"], losses>>
    BY <1>0, <1>1, ApplyMakes, ApplyDescribes
  <2> QED
    BY <1>0, <1>1, <2>1, ApplyDescribes DEF LinkInv, Idle
<1>2. CASE RtcConnecting \/ RtcConnected \/ RtcFailed \/ RtcClosed
  BY <1>0, <1>2 DEF RtcConnecting, RtcConnected, RtcFailed, RtcClosed, RtcMoves, LinkInv
<1>3. CASE RtcAnswer
  BY <1>3 DEF RtcAnswer, LinkInv, Idle
<1>4. ASSUME NEW t \in Threads, CallSet(t) \/ CallStore(t)
      PROVE  LinkInv'
  <2>1. ~Idle(t) /\ UNCHANGED linkVars /\ \E c : todo' = [todo EXCEPT ![t] = c]
    BY <1>4 DEF CallSet, CallStore, Calling, Proceed
  <2> QED
    BY <1>0, <2>1 DEF LinkInv, Idle
<1>5. CASE CallConnect \/ CallAssign \/ WsAccepted \/ WsRefused \/ WsOffer
  <2>1. UNCHANGED linkVars /\ \E t \in {"creator", "ws"} : \E c : todo' = [todo EXCEPT ![t] = c]
    BY <1>5 DEF CallConnect, CallAssign, WsAccepted, WsRefused, WsOffer, Proceed, Start
  <2> QED
    BY <1>0, <2>1 DEF LinkInv, Idle
<1>6. CASE WsRejected \/ WsOpen \/ WsLost \/ ServerTakes \/ SenderAccepts \/ SenderOffers
           \/ SenderRejects
  BY <1>6 DEF WsRejected, WsOpen, WsLost, ServerTakes, SenderAccepts, SenderOffers,
              SenderRejects, LinkInv, Idle
<1> QED
  BY <1>1, <1>2, <1>3, <1>4, <1>5, <1>6, SessionSteps

\* The inbox and the outbox under each step.
LEMMA BoxesUnder ==
    ASSUME SessionTypeOK, SessionNext
    PROVE  /\ \/ UNCHANGED inbox
              \/ WsLost /\ inbox' = <<>>
              \/ /\ WsAccepted \/ WsRefused \/ WsOffer \/ WsRejected
                 /\ inbox # <<>> /\ inbox' = Tail(inbox)
              \/ SenderAccepts /\ inbox' = Append(inbox, "accepted")
              \/ SenderOffers /\ inbox' = Append(inbox, "offer")
              \/ SenderRejects /\ inbox' = Append(inbox, "rejected")
              \/ /\ ServerTakes /\ Head(outbox) = "hello" /\ room' = "refused"
                 /\ \E m \in Refusals : inbox' = Append(inbox, m)
           /\ \/ UNCHANGED outbox
              \/ WsLost /\ outbox' = <<>>
              \/ ServerTakes /\ outbox # <<>> /\ outbox' = Tail(outbox)
              \/ WsOpen /\ outbox' = Append(outbox, "hello")
              \/ RtcAnswer /\ outbox' = Append(outbox, "answer")
<1> USE DEF netVars, farVars, linkVars
<1>1. ASSUME NEW t \in Threads, CallSet(t) \/ CallStore(t)
      PROVE  UNCHANGED <<inbox, outbox>>
  BY <1>1 DEF CallSet, CallStore
<1>2. CASE CallConnect \/ CallAssign \/ Apply
  BY <1>2, ApplyDescribes DEF CallConnect, CallAssign
<1>3. CASE WsAccepted \/ WsRefused \/ WsOffer \/ WsRejected
  BY <1>3 DEF WsAccepted, WsRefused, WsOffer, WsRejected, FromServer
<1>4. CASE WsOpen \/ WsLost
  BY <1>4 DEF WsOpen, WsLost
<1>5. CASE RtcAnswer
  BY <1>5 DEF RtcAnswer, Send
<1>6. CASE RtcConnecting \/ RtcConnected \/ RtcFailed \/ RtcClosed
  BY <1>6 DEF RtcConnecting, RtcConnected, RtcFailed, RtcClosed, RtcMoves
<1>7. CASE SenderAccepts \/ SenderOffers \/ SenderRejects
  BY <1>7 DEF SenderAccepts, SenderOffers, SenderRejects, ToReceiver
<1>8. CASE ServerTakes
  BY <1>8 DEF ServerTakes, ToReceiver
<1> QED
  BY <1>1, <1>2, <1>3, <1>4, <1>5, <1>6, <1>7, <1>8, SessionSteps

\* A message that waits was sent or waited before.
LEMMA WaitedBefore ==
    ASSUME SessionTypeOK, SessionNext, NEW x, At(inbox, x)'
    PROVE  \/ At(inbox, x)
           \/ x = "accepted" /\ SenderAccepts
           \/ x = "offer" /\ SenderOffers
           \/ x = "rejected" /\ SenderRejects
           \/ x \in Refusals /\ ServerTakes /\ Head(outbox) = "hello" /\ room' = "refused"
<1>0. inbox \in Seq({"accepted", "offer", "rejected"} \cup Refusals)
  BY DEF SessionTypeOK
<1>1. \A m \in {"accepted", "offer", "rejected"} \cup Refusals :
          At(Append(inbox, m), x) => At(inbox, x) \/ x = m
  BY <1>0, Appended
<1>2. inbox # <<>> => (At(Tail(inbox), x) => At(inbox, x))
  BY <1>0, Taken
<1>3. ~At(<<>>, x)
  BY NothingWaits
<1> QED
  BY <1>1, <1>2, <1>3, BoxesUnder

\* The hello is sent once, on a socket that opens, and answered once.
LEMMA HelloKept ==
    ASSUME SessionTypeOK, ThreadsInv, LinkInv, HelloInv, OffersInv, SessionNext
    PROVE  HelloInv'
<1> USE DEF netVars, farVars, linkVars
<1>0. todo \in [Threads -> Seq(Calls)] /\ "creator" \in Threads
  BY DEF SessionTypeOK, Threads
<1>1. Calling("creator", "connect")' => socket' = "none"
  <2>1. ASSUME Calling("creator", "connect")'
        PROVE  UNCHANGED todo["creator"]
    <3>1. ASSUME NEW t \in Threads, CallSet(t) \/ CallStore(t)
          PROVE  UNCHANGED todo["creator"]
      <4>1. t # "creator"
        BY <1>0, <2>1, <3>1, SetMakes, StoreMakes, Singles, CallsDiffer DEF Calling, Idle
      <4> QED
        BY <1>0, <3>1, <4>1 DEF CallSet, CallStore, Proceed
    <3>2. CASE CallConnect \/ CallAssign
      <4>1. /\ todo'["creator"] = Tail(todo["creator"]) /\ todo["creator"] \in CreatorCalls
            /\ todo["creator"] # <<>> /\ Head(todo["creator"]).call \in {"connect", "assign"}
        BY <1>0, <3>2 DEF CallConnect, CallAssign, Calling, Idle, Proceed, ThreadsInv
      <4>2. \/ todo'["creator"] = <<Do("assign"), Set("awaiting_accept")>>
            \/ todo'["creator"] = <<Set("awaiting_accept")>>
        BY <4>1, CreatorHeads
      <4>3. /\ Head(<<Do("assign"), Set("awaiting_accept")>>).call = "assign"
            /\ Head(<<Set("awaiting_accept")>>).call = "set"
        BY Singles, Pairs, CallsDiffer
      <4>4. Head(todo'["creator"]).call \in {"assign", "set"}
        BY <4>2, <4>3
      <4> QED
        BY <2>1, <4>4 DEF Calling
    <3>3. CASE Apply \/ WsAccepted \/ WsRefused \/ WsOffer
      BY <1>0, <3>3, ApplyMakes DEF WsAccepted, WsRefused, WsOffer, Start
    <3>4. CASE RtcConnecting \/ RtcConnected \/ RtcFailed \/ RtcClosed
      BY <1>0, <3>4 DEF RtcConnecting, RtcConnected, RtcFailed, RtcClosed, RtcMoves, Start
    <3>5. CASE WsRejected \/ WsOpen \/ WsLost \/ RtcAnswer \/ ServerTakes \/ SenderAccepts
               \/ SenderOffers \/ SenderRejects
      BY <3>5 DEF WsRejected, WsOpen, WsLost, RtcAnswer, ServerTakes, SenderAccepts,
                  SenderOffers, SenderRejects
    <3> QED
      BY <3>1, <3>2, <3>3, <3>4, <3>5, SessionSteps
  <2>2. ASSUME Calling("creator", "connect")'
        PROVE  socket' = "none"
    <3>1. Calling("creator", "connect") /\ ~CallConnect /\ socket = "none"
      <4>1. Calling("creator", "connect")
        BY <2>1, <2>2 DEF Calling, Idle
      <4>2. ~CallConnect
        <5>1. SUFFICES ASSUME CallConnect PROVE FALSE
          OBVIOUS
        <5>a. todo["creator"] \in CreatorCalls
          BY DEF ThreadsInv
        <5>b. todo["creator"] # <<>> /\ Head(todo["creator"]).call = "connect"
          BY <5>1 DEF CallConnect, Calling, Idle
        <5>c. Proceed("creator")
          BY <5>1 DEF CallConnect
        <5>d. todo'["creator"] = Tail(todo["creator"])
          BY <1>0, <5>c DEF Proceed
        <5>e. UNCHANGED todo["creator"]
          BY <2>1, <2>2
        <5>2. todo["creator"] \in CreatorCalls /\ todo["creator"] # <<>>
              /\ todo'["creator"] = Tail(todo["creator"]) /\ todo'["creator"] = todo["creator"]
              /\ Head(todo["creator"]).call = "connect"
          BY ONLY <5>a, <5>b, <5>d, <5>e
        <5>f. todo["creator"] = <<Do("assign"), Set("awaiting_accept")>>
          BY <5>2, CreatorHeads
        <5>g. Head(<<Do("assign"), Set("awaiting_accept")>>).call = "assign"
          BY Pairs, CallsDiffer
        <5>3. Head(todo["creator"]).call = "assign"
          BY ONLY <5>f, <5>g
        <5> QED
          BY <5>2, <5>3
      <4> QED
        BY <4>1, <4>2 DEF HelloInv
    <3> QED
      BY <3>1, SessionSteps, ApplyDescribes
         DEF CallSet, CallStore, CallAssign, WsAccepted, WsRefused, WsOffer,
             WsRejected, WsOpen, WsLost, RtcAnswer, RtcConnecting, RtcConnected, RtcFailed,
             RtcClosed, RtcMoves, ServerTakes, SenderAccepts, SenderOffers, SenderRejects
  <2> QED
    BY <2>2
<1>2. socket' \in {"none", "connecting"} => outbox' = <<>> /\ room' = "out"
  <2> SUFFICES ASSUME socket' \in {"none", "connecting"}
               PROVE  outbox' = <<>> /\ room' = "out"
    OBVIOUS
  <2>1. socket \in {"none", "connecting"}
    BY SessionSteps, ApplyDescribes
       DEF HelloInv, CallSet, CallStore, CallConnect, CallAssign, WsAccepted,
           WsRefused, WsOffer, WsRejected, WsOpen, WsLost, RtcAnswer, RtcConnecting,
           RtcConnected, RtcFailed, RtcClosed, RtcMoves, ServerTakes, SenderAccepts,
           SenderOffers, SenderRejects
  <2>2. outbox = <<>> /\ room = "out"
    BY <2>1 DEF HelloInv
  <2>3. ~WsOpen
    BY DEF WsOpen
  <2>4. outbox' = <<>>
    <3>1. RtcAnswer => UNCHANGED outbox
      BY <2>1 DEF RtcAnswer, Send
    <3> QED
      BY <2>2, <2>3, <3>1, BoxesUnder
  <2>5. room' = room
    BY <2>2, SessionSteps, ApplyDescribes
       DEF CallSet, CallStore, CallConnect, CallAssign, WsAccepted,
           WsRefused, WsOffer, WsRejected, WsOpen, WsLost, RtcAnswer, RtcConnecting,
           RtcConnected, RtcFailed, RtcClosed, RtcMoves, ServerTakes, SenderAccepts,
           SenderOffers, SenderRejects
  <2> QED
    BY <2>2, <2>4, <2>5
<1>3. outbox \in Seq({"hello", "answer"})
  BY DEF SessionTypeOK
<1>4. \/ UNCHANGED room
      \/ ServerTakes /\ outbox # <<>> /\ outbox[1] = "hello" /\ outbox' = Tail(outbox)
         /\ room' \in {"waiting", "refused"} /\ UNCHANGED accepts
      \/ SenderAccepts /\ room \in {"waiting", "admitted"} /\ room' = "admitted"
         /\ UNCHANGED outbox
      \/ SenderRejects /\ room \in {"waiting", "admitted"} /\ room' = "gone"
         /\ UNCHANGED <<outbox, accepts>>
  <2>1. CASE ServerTakes
    <3>1. /\ outbox # <<>> /\ outbox' = Tail(outbox) /\ UNCHANGED accepts
          /\ UNCHANGED room \/ (Head(outbox) = "hello" /\ room' \in {"waiting", "refused"})
      BY <2>1 DEF ServerTakes
    <3>2. Head(outbox) = outbox[1]
      BY <1>3, <3>1
    <3> QED
      BY <2>1, <3>1, <3>2
  <2>2. CASE ~ServerTakes
    BY <2>2, SessionSteps, ApplyDescribes
       DEF CallSet, CallStore, CallConnect, CallAssign, WsAccepted,
           WsRefused, WsOffer, WsRejected, WsOpen, WsLost, RtcAnswer, RtcConnecting,
           RtcConnected, RtcFailed, RtcClosed, RtcMoves, SenderAccepts, SenderOffers,
           SenderRejects
  <2> QED
    BY <2>1, <2>2
<1>5. ASSUME NEW i \in DOMAIN outbox', outbox'[i] = "hello"
      PROVE  i = 1 /\ room' = "out"
  <2>1. \A j \in DOMAIN outbox : outbox[j] = "hello" => j = 1 /\ room = "out"
    BY DEF HelloInv
  <2>2. CASE UNCHANGED outbox
    <3>1. i \in DOMAIN outbox /\ outbox[i] = "hello"
      BY <1>5, <2>2
    <3>2. i = 1 /\ room = "out"
      BY <2>1, <3>1
    <3>3. outbox # Tail(outbox)
      BY <1>3, <3>1
    <3> QED
      BY <1>4, <2>2, <3>2, <3>3
  <2>3. CASE WsLost /\ outbox' = <<>>
    BY <1>5, <2>3
  <2>4. CASE ServerTakes /\ outbox # <<>> /\ outbox' = Tail(outbox)
    <3>1. i \in 1 .. Len(outbox) - 1 /\ outbox[i + 1] = "hello"
      BY <1>3, <1>5, <2>4
    <3>2. i + 1 = 1
      BY <1>3, <2>1, <3>1
    <3> QED
      BY <3>1, <3>2
  <2>5. CASE WsOpen /\ outbox' = Append(outbox, "hello")
    <3>1. outbox = <<>> /\ room = "out" /\ UNCHANGED room
      BY <2>5 DEF WsOpen, HelloInv
    <3> QED
      BY <1>5, <2>5, <3>1
  <2>6. CASE RtcAnswer /\ outbox' = Append(outbox, "answer")
    <3>1. i \in DOMAIN outbox /\ outbox[i] = "hello" /\ UNCHANGED room
      BY <1>3, <1>5, <2>6 DEF RtcAnswer
    <3> QED
      BY <2>1, <3>1
  <2> QED
    BY <2>2, <2>3, <2>4, <2>5, <2>6, BoxesUnder
<1>6. outbox # <<>> /\ outbox[1] = "hello" => room = "out"
  BY <1>3 DEF HelloInv
<1>7. room' \in {"out", "waiting", "refused"} => accepts' = 0
  <2>1. SenderAccepts \/ UNCHANGED accepts
    BY SessionSteps, ApplyDescribes
       DEF CallSet, CallStore, CallConnect, CallAssign, WsAccepted,
           WsRefused, WsOffer, WsRejected, WsOpen, WsLost, RtcAnswer, RtcConnecting,
           RtcConnected, RtcFailed, RtcClosed, RtcMoves, ServerTakes, SenderOffers,
           SenderRejects
  <2>2. SenderAccepts => room' = "admitted"
    BY DEF SenderAccepts
  <2> QED
    BY <1>4, <1>6, <2>1, <2>2 DEF HelloInv
<1>8. ASSUME Failing' \/ (\E m \in Refusals : At(inbox, m)')
      PROVE  room' = "refused"
  <2>1. \/ Failing \/ (\E m \in Refusals : At(inbox, m))
        \/ ServerTakes /\ room' = "refused"
    <3>1. CASE Failing'
      <4>1. WsRefused => \E m \in Refusals : At(inbox, m)
        <5>1. inbox \in Seq({"accepted", "offer", "rejected"} \cup Refusals)
          BY DEF SessionTypeOK
        <5>2. WsRefused => inbox # <<>> /\ Head(inbox) \in Refusals
          BY DEF WsRefused, FromServer
        <5> QED
          BY <5>1, <5>2, Taken
      <4> QED
        BY <3>1, <4>1, WsComesTo
    <3>2. ASSUME NEW m \in Refusals, At(inbox, m)'
          PROVE  At(inbox, m) \/ (ServerTakes /\ room' = "refused")
      <4>1. m # "accepted" /\ m # "offer" /\ m # "rejected"
        BY DEF Refusals
      <4> QED
        BY <3>2, <4>1, WaitedBefore
    <3> QED
      BY <1>8, <3>1, <3>2
  <2>2. ~(ServerTakes /\ room' = "refused") => room = "refused"
    BY <2>1 DEF HelloInv
  <2> QED
    BY <1>4, <1>6, <2>2
<1> QED
  BY <1>1, <1>2, <1>5, <1>7, <1>8 DEF HelloInv

\* Every offer belongs to an acceptance and comes after it.
LEMMA OffersKept ==
    ASSUME SessionTypeOK, ThreadsInv, OffersInv, SessionNext
    PROVE  OffersInv'
<1> USE DEF netVars, farVars, linkVars
<1>0. /\ accepts \in Nat /\ offersDue \in Nat /\ applied \in Nat
      /\ inbox \in Seq({"accepted", "offer", "rejected"} \cup Refusals)
      /\ todo \in [Threads -> Seq(Calls)] /\ "ws" \in Threads
      /\ \A m \in Refusals : m # "accepted" /\ m # "offer"
  BY DEF SessionTypeOK, Threads, Refusals
<1>1. /\ UNCHANGED accepts \/ SenderAccepts
      /\ UNCHANGED offersDue \/ SenderAccepts \/ SenderOffers
      /\ UNCHANGED applied \/ Apply
  BY SessionSteps, ApplyDescribes
     DEF CallSet, CallStore, CallConnect, CallAssign, WsAccepted,
         WsRefused, WsOffer, WsRejected, WsOpen, WsLost, RtcAnswer, RtcConnecting,
         RtcConnected, RtcFailed, RtcClosed, RtcMoves, ServerTakes, SenderAccepts,
         SenderOffers, SenderRejects
<1>2. /\ SenderAccepts => /\ accepts' = accepts + 1 /\ offersDue' = offersDue + 1
                          /\ UNCHANGED applied
      /\ SenderOffers => /\ offersDue > 0 /\ offersDue' = offersDue - 1
                         /\ UNCHANGED <<accepts, applied>>
      /\ Apply => /\ UNCHANGED <<accepts, offersDue, inbox>>
                  /\ applied' = applied \/ applied' = applied + 1
  BY ApplyDescribes DEF SenderAccepts, SenderOffers
<1>3. Apply => Applying /\ ~Applying'
  <2> SUFFICES ASSUME Apply
               PROVE  Applying /\ ~Applying'
    OBVIOUS
  <2>1. todo["ws"] = <<Do("apply")>> /\ todo'["ws"] = <<>>
    BY <1>0, ApplyMakes
  <2>2. todo["ws"] \in ApplyCalls
    BY <2>1 DEF ApplyCalls
  <2> QED
    BY <2>1, <2>2, CallsApart DEF Applying
<1>4. Applying' => Applying \/ WsOffer
  BY WsComesTo
<1>5. WsOffer => inbox # <<>> /\ Head(inbox) = "offer" /\ inbox' = Tail(inbox) /\ At(inbox, "offer")
  BY <1>0, Taken DEF WsOffer, FromServer
<1>6. WsOffer => ~SenderAccepts /\ ~SenderOffers /\ ~Apply
  <2> SUFFICES ASSUME WsOffer
               PROVE  ~SenderAccepts /\ ~SenderOffers /\ ~Apply
    OBVIOUS
  <2>1. inbox # <<>> /\ inbox' = Tail(inbox)
    BY DEF WsOffer, FromServer
  <2>2. Len(inbox') # Len(inbox)
    BY <1>0, <2>1
  <2>3. UNCHANGED <<accepts, offersDue>>
    BY DEF WsOffer
  <2>4. ~SenderAccepts /\ ~SenderOffers
    BY <1>0, <1>2, <2>3
  <2>5. ~Apply
    BY <1>2, <2>2
  <2> QED
    BY <2>4, <2>5
<1>7. \A m \in {"accepted", "offer", "rejected"} \cup Refusals :
        /\ \A x : At(Append(inbox, m), x) <=> At(inbox, x) \/ x = m
        /\ \A x : Once(inbox, x) /\ (x = m => ~At(inbox, x)) => Once(Append(inbox, m), x)
        /\ \A x, y : OnlyAfter(inbox, x, y) /\ (x = m => ~At(inbox, y)) /\ x # y =>
                         OnlyAfter(Append(inbox, m), x, y)
  BY <1>0, Appended
<1>8. ASSUME accepts' = 0
      PROVE  /\ offersDue' = 0 /\ applied' = 0
             /\ ~At(inbox, "accepted")' /\ ~At(inbox, "offer")' /\ ~Applying'
  <2>1. accepts = 0 /\ ~SenderAccepts
    BY <1>0, <1>1, <1>2, <1>8
  <2>2. /\ offersDue = 0 /\ applied = 0
        /\ ~At(inbox, "accepted") /\ ~At(inbox, "offer") /\ ~Applying
    BY <2>1 DEF OffersInv
  <2>3. ~SenderOffers /\ ~Apply /\ ~WsOffer
    BY <1>2, <1>3, <1>5, <2>2
  <2>4. offersDue' = 0 /\ applied' = 0 /\ ~Applying'
    BY <1>1, <1>4, <2>1, <2>2, <2>3
  <2>5. ~At(inbox, "accepted")' /\ ~At(inbox, "offer")'
    BY <1>0, <2>1, <2>2, <2>3, WaitedBefore
  <2> QED
    BY <2>4, <2>5
<1>9. ASSUME accepts' = 1
      PROVE  /\ offersDue' <= 1
             /\ Once(inbox, "offer")' /\ OnlyAfter(inbox, "accepted", "offer")'
             /\ offersDue' = 1 => ~At(inbox, "offer")'
             /\ offersDue' = 1 \/ At(inbox, "offer")' \/ At(inbox, "accepted")' =>
                  ~Applying' /\ applied' = 0
             /\ Applying' => applied' = 0
  <2>1. CASE SenderAccepts
    <3>1. accepts = 0 /\ offersDue' = offersDue + 1 /\ UNCHANGED applied
      BY <1>0, <1>2, <1>9, <2>1
    <3>2. /\ offersDue = 0 /\ applied = 0
          /\ ~At(inbox, "accepted") /\ ~At(inbox, "offer") /\ ~Applying
      BY <3>1 DEF OffersInv
    <3>3. ~Applying'
      BY <1>4, <1>5, <3>2
    <3>4. inbox' = inbox \/ inbox' = Append(inbox, "accepted")
      BY <2>1 DEF SenderAccepts, ToReceiver
    <3>5. ~At(inbox', "offer")
      <4>1. ~At(Append(inbox, "accepted"), "offer")
        BY <1>7, <3>2
      <4> QED
        BY <3>2, <3>4, <4>1
    <3>6. Once(inbox', "offer") /\ OnlyAfter(inbox', "accepted", "offer")
      BY <3>5 DEF Once, OnlyAfter, At
    <3> QED
      BY <3>1, <3>2, <3>3, <3>5, <3>6
  <2>2. CASE ~SenderAccepts
    <3>1. accepts = 1
      BY <1>1, <1>9, <2>2
    <3>2. /\ offersDue <= 1
          /\ Once(inbox, "offer") /\ OnlyAfter(inbox, "accepted", "offer")
          /\ offersDue = 1 => ~At(inbox, "offer")
          /\ offersDue = 1 \/ At(inbox, "offer") \/ At(inbox, "accepted") =>
               ~Applying /\ applied = 0
          /\ Applying => applied = 0
      BY <3>1 DEF OffersInv
    <3>3. CASE SenderOffers
      <4>1. /\ offersDue = 1 /\ offersDue' = 0 /\ UNCHANGED applied
            /\ ~At(inbox, "offer") /\ ~Applying /\ applied = 0
        BY <1>0, <1>2, <3>2, <3>3
      <4>2. ~Applying'
        BY <1>4, <1>6, <3>3, <4>1
      <4>3. inbox' = inbox \/ inbox' = Append(inbox, "offer")
        BY <3>3 DEF SenderOffers, ToReceiver
      <4>4. Once(inbox', "offer")
        BY <1>7, <3>2, <4>1, <4>3
      <4>5. OnlyAfter(inbox', "accepted", "offer")
        <5>1. OnlyAfter(Append(inbox, "offer"), "accepted", "offer")
          BY <1>7, <3>2
        <5> QED
          BY <3>2, <4>3, <5>1
      <4> QED
        BY <4>1, <4>2, <4>4, <4>5
    <3>4. CASE WsOffer
      <4>1. /\ At(inbox, "offer") /\ applied = 0 /\ offersDue # 1
            /\ UNCHANGED <<offersDue, applied>>
        BY <1>1, <1>5, <1>6, <3>2, <3>4
      <4>2. /\ inbox # <<>> /\ inbox' = Tail(inbox) /\ Head(inbox) = "offer"
        BY <1>5, <3>4
      <4>3. /\ ~At(inbox', "offer") /\ ~At(inbox', "accepted")
            /\ Once(inbox', "offer") /\ OnlyAfter(inbox', "accepted", "offer")
        BY <1>0, <3>2, <4>2, Taken
      <4> QED
        BY <1>0, <3>2, <4>1, <4>3
    <3>5. CASE ~SenderOffers /\ ~WsOffer
      <4>1. /\ UNCHANGED offersDue
            /\ At(inbox, "offer")' => At(inbox, "offer")
            /\ At(inbox, "accepted")' => At(inbox, "accepted")
            /\ Applying' => Applying
        BY <1>0, <1>1, <1>4, <2>2, <3>5, WaitedBefore
      <4>2. Once(inbox', "offer") /\ OnlyAfter(inbox', "accepted", "offer")
        <5>1. \/ inbox' = inbox
              \/ inbox' = <<>>
              \/ inbox # <<>> /\ inbox' = Tail(inbox)
              \/ \E m \in {"rejected"} \cup Refusals : inbox' = Append(inbox, m)
          BY <2>2, <3>5, BoxesUnder
        <5>2. CASE inbox' = <<>>
          BY <5>2, NothingWaits
        <5>3. CASE inbox # <<>> /\ inbox' = Tail(inbox)
          BY <1>0, <3>2, <5>3, Taken
        <5>4. ASSUME NEW m \in {"rejected"} \cup Refusals, inbox' = Append(inbox, m)
              PROVE  Once(inbox', "offer") /\ OnlyAfter(inbox', "accepted", "offer")
          <6>1. m # "accepted" /\ m # "offer"
            BY <1>0
          <6> QED
            BY <1>7, <3>2, <5>4, <6>1
        <5> QED
          BY <3>2, <5>1, <5>2, <5>3, <5>4
      <4>3. CASE Apply
        BY <1>0, <1>2, <1>3, <3>2, <4>1, <4>2, <4>3
      <4>4. CASE ~Apply
        BY <1>1, <3>2, <4>1, <4>2, <4>4
      <4> QED
        BY <4>3, <4>4
    <3> QED
      BY <3>3, <3>4, <3>5
  <2> QED
    BY <2>1, <2>2
<1> QED
  BY <1>8, <1>9 DEF OffersInv

\* While it is calm, every step leaves the state to the connection.
LEMMA StateKept ==
    ASSUME SessionTypeOK, ThreadsInv, LinkInv, HelloInv, OffersInv, StateInv, SessionNext
    PROVE  StateInv'
<1> USE DEF netVars, farVars, linkVars
<1>0. /\ accepts \in Nat /\ applied \in Nat /\ losses \in Nat /\ state \in States
      /\ inbox \in Seq({"accepted", "offer", "rejected"} \cup Refusals)
      /\ todo \in [Threads -> Seq(Calls)]
      /\ "ws" \in Threads /\ "rtc" \in Threads /\ "creator" \in Threads
  BY SessionAssumption DEF SessionAssumption, SessionTypeOK, Threads
<1>1. SUFFICES ASSUME Calm'
               PROVE  /\ applied' = 0 => state' \notin {"connected", "closed"}
                      /\ todo'["ws"] = <<Do("apply")>> => state' = "negotiating"
                      /\ applied' > 0 =>
                           /\ todo'["ws"] = <<>>
                           /\ state' \in {"negotiating", "connected", "failed", "closed"}
                           /\ losses' = 0 => state' \in {"negotiating", "connected"}
                           /\ todo'["rtc"] = <<>> => state' = StateOf(link')
  BY DEF StateInv, Idle
<1>2. /\ accepts' >= accepts /\ losses' >= losses /\ accepts' \in Nat /\ losses' \in Nat
      /\ overwritten => overwritten'
  <2>1. accepts' = accepts \/ accepts' = accepts + 1
    BY SessionSteps, ApplyDescribes
       DEF CallSet, CallStore, CallConnect, CallAssign, WsAccepted,
           WsRefused, WsOffer, WsRejected, WsOpen, WsLost, RtcAnswer, RtcConnecting,
           RtcConnected, RtcFailed, RtcClosed, RtcMoves, ServerTakes, SenderAccepts,
           SenderOffers, SenderRejects
  <2>2. losses' = losses \/ losses' = losses + 1
    BY SessionSteps, ApplyDescribes
       DEF CallSet, CallStore, CallConnect, CallAssign, WsAccepted,
           WsRefused, WsOffer, WsRejected, WsOpen, WsLost, RtcAnswer, RtcConnecting,
           RtcConnected, RtcFailed, RtcClosed, RtcMoves, ServerTakes, SenderAccepts,
           SenderOffers, SenderRejects
  <2>3. overwritten => overwritten'
    BY SessionSteps, ApplyDescribes
       DEF CallSet, CallStore, CallConnect, CallAssign, WsAccepted,
           WsRefused, WsOffer, WsRejected, WsOpen, WsLost, RtcAnswer, RtcConnecting,
           RtcConnected, RtcFailed, RtcClosed, RtcMoves, ServerTakes, SenderAccepts,
           SenderOffers, SenderRejects
  <2> QED
    BY <1>0, <2>1, <2>2, <2>3
<1>3. Calm
  BY <1>0, <1>1, <1>2 DEF Calm
<1>4. /\ applied = 0 => state \notin {"connected", "closed"} /\ todo["rtc"] = <<>>
      /\ todo["ws"] = <<Do("apply")>> => state = "negotiating" /\ applied = 0
      /\ applied > 0 =>
           /\ todo["ws"] = <<>>
           /\ state \in {"negotiating", "connected", "failed", "closed"}
           /\ losses = 0 => state \in {"negotiating", "connected"}
           /\ todo["rtc"] = <<>> => state = StateOf(link)
  <2>1. <<Do("apply")>> # <<>>
    BY Singles
  <2>2. applied = 0 => state \notin {"connected", "closed"} /\ todo["rtc"] = <<>>
    BY <1>3 DEF StateInv, LinkInv, Idle
  <2>3. /\ todo["ws"] = <<Do("apply")>> => state = "negotiating"
        /\ applied > 0 =>
             /\ todo["ws"] = <<>>
             /\ state \in {"negotiating", "connected", "failed", "closed"}
             /\ losses = 0 => state \in {"negotiating", "connected"}
             /\ todo["rtc"] = <<>> => state = StateOf(link)
    BY <1>3 DEF StateInv, Idle
  <2>4. applied = 0 \/ applied > 0
    BY <1>0
  <2> QED
    BY <2>1, <2>2, <2>3, <2>4
<1>5. CASE CallStore("creator")
  <2>1. state = "connecting" /\ state' = "awaiting_accept" /\ UNCHANGED <<applied, link, losses>>
        /\ UNCHANGED todo["ws"]
    BY <1>0, <1>1, <1>5, StoreMakes DEF CallStore, Calm
  <2> QED
    BY <1>0, <1>4, <2>1
<1>6. CASE CallStore("ws")
  <2>1. UNCHANGED <<applied, link, losses>> /\ todo["ws"] # <<>>
    BY <1>6 DEF CallStore, Calling, Idle
  <2>2. state' \in {"accepted", "failed", "negotiating"}
        /\ (todo'["ws"] = <<Do("apply")>> => state' = "negotiating")
    <3>1. <<Do("apply")>> # <<>>
      BY Singles
    <3> QED
      BY <1>0, <1>6, <3>1, StoreMakes
  <2> QED
    BY <1>0, <1>4, <2>1, <2>2
<1>7. CASE CallStore("rtc")
  <2>1. /\ UNCHANGED <<applied, link, losses>> /\ todo["rtc"] # <<>>
        /\ UNCHANGED todo["ws"]
    BY <1>0, <1>7 DEF CallStore, Calling, Idle, Proceed
  <2>2. state' = StateOf(link)
    BY <1>0, <1>7, StoreMakes
  <2>3. applied > 0
    BY <1>0, <1>4, <2>1
  <2>4. losses = 0 => StateOf(link) \in {"negotiating", "connected"}
    BY DEF LinkInv, StateOf
  <2>5. StateOf(link) \in {"negotiating", "connected", "failed", "closed"}
    BY DEF StateOf
  <2>6. todo["ws"] # <<Do("apply")>>
    BY <1>0, <1>4, <2>3
  <2> QED
    BY <1>0, <1>4, <2>1, <2>2, <2>3, <2>4, <2>5, <2>6
<1>8. ASSUME NEW t \in Threads, CallSet(t)
      PROVE  /\ applied' = 0 => state' \notin {"connected", "closed"}
             /\ todo'["ws"] = <<Do("apply")>> => state' = "negotiating"
             /\ applied' > 0 =>
                  /\ todo'["ws"] = <<>>
                  /\ state' \in {"negotiating", "connected", "failed", "closed"}
                  /\ losses' = 0 => state' \in {"negotiating", "connected"}
                  /\ todo'["rtc"] = <<>> => state' = StateOf(link')
  <2>1. UNCHANGED <<state, applied, link, losses>> /\ todo[t] # <<>>
    BY <1>8 DEF CallSet, Calling, Idle
  <2>2. CASE t = "creator"
    <3>1. UNCHANGED todo["ws"] /\ UNCHANGED todo["rtc"]
      BY <1>0, <1>8, <2>2, SetMakes
    <3> QED
      BY <1>0, <1>4, <2>1, <3>1
  <2>3. CASE t = "ws"
    <3>1. \/ todo'["ws"] = <<>>
          \/ \E st \in {"accepted", "failed"} : todo'["ws"] = <<Store(st)>>
          \/ todo'["ws"] = <<Do("apply")>> /\ state = "negotiating"
          \/ todo'["ws"] = <<Store("negotiating"), Do("apply")>>
      BY <1>0, <1>8, <2>3, SetMakes
    <3>2. todo'["ws"] = <<Do("apply")>> => state = "negotiating"
      <4>1. <<Do("apply")>> # <<>> /\ \A st : <<Do("apply")>> # <<Store(st)>>
        BY Singles, CallsDiffer
      <4> QED
        BY <3>1, <4>1, CallsApart
    <3> QED
      BY <1>0, <1>4, <2>1, <2>3, <3>2
  <2>4. CASE t = "rtc"
    <3>1. /\ UNCHANGED todo["ws"]
          /\ todo'["rtc"] = IF state = StateOf(link) THEN <<>> ELSE <<Store(StateOf(link))>>
      BY <1>0, <1>8, <2>4, SetMakes
    <3>2. todo'["rtc"] = <<>> => state = StateOf(link)
      BY <3>1, Singles
    <3> QED
      BY <1>0, <1>4, <2>1, <2>4, <3>1, <3>2
  <2> QED
    BY <2>2, <2>3, <2>4 DEF Threads
<1>9. CASE Apply
  <2>1. /\ todo["ws"] = <<Do("apply")>> /\ todo'["ws"] = <<>>
        /\ applied' = applied \/ applied' = applied + 1
        /\ UNCHANGED <<state, losses>>
    BY <1>0, <1>9, ApplyMakes, ApplyDescribes
  <2>2. applied = 0 /\ state = "negotiating"
    BY <1>4, <2>1
  <2>3. link' \in {"new", "unapplied", "offered", "unanswered"}
    BY <1>9, <2>2, ApplyDescribes DEF LinkInv
  <2>4. StateOf(link') = "negotiating" /\ <<Do("apply")>> # <<>>
    BY <2>3, Singles DEF StateOf
  <2> QED
    BY <1>0, <2>1, <2>2, <2>4
<1>10. CASE WsAccepted \/ WsRefused \/ WsOffer
  <2>1. /\ UNCHANGED <<state, applied, link, losses>>
        /\ todo["ws"] = <<>> /\ inbox # <<>>
        /\ \E c : todo' = [todo EXCEPT !["ws"] = c]
    BY <1>10 DEF WsAccepted, WsRefused, WsOffer, FromServer, Start, Idle
  <2>2. todo'["ws"] # <<Do("apply")>>
    <3>1. todo'["ws"] \in {<<>>, <<Set("accepted")>>, <<Set("failed")>>, OnOffer}
      BY <1>0, <1>10 DEF WsAccepted, WsRefused, WsOffer, Start
    <3>2. <<Do("apply")>> # <<>> /\ \A st : <<Do("apply")>> # <<Set(st)>>
      BY Singles, CallsDiffer
    <3> QED
      BY <3>1, <3>2, CallsApart
  <2>3. ASSUME applied > 0
        PROVE  todo'["ws"] = <<>>
    <3>1. state \in {"negotiating", "connected", "failed", "closed"}
          /\ (losses = 0 => state \in {"negotiating", "connected"})
      BY <1>4, <2>3
    <3>2. accepts # 0
      BY <1>0, <2>3 DEF OffersInv
    <3>3. CASE WsAccepted
      <4>1. At(inbox, "accepted")
        BY <1>0, <2>1, <3>3, Taken DEF WsAccepted, FromServer
      <4>2. accepts # 1
        BY <1>0, <2>3, <4>1 DEF OffersInv
      <4>3. losses = 0
        BY <1>0, <1>3, <3>2, <4>2 DEF Calm
      <4> QED
        BY <1>0, <3>1, <3>3, <4>3 DEF WsAccepted, Start
    <3>4. CASE WsRefused
      <4>1. \E m \in Refusals : At(inbox, m)
        BY <1>0, <2>1, <3>4, Taken DEF WsRefused, FromServer
      <4> QED
        BY <3>2, <4>1 DEF HelloInv
    <3>5. CASE WsOffer
      BY <1>0, <3>1, <3>5 DEF WsOffer, Start, Ignoring
    <3> QED
      BY <1>10, <3>3, <3>4, <3>5
  <2>4. UNCHANGED todo["rtc"]
    BY <1>0, <2>1
  <2> QED
    BY <1>0, <1>4, <2>1, <2>2, <2>3, <2>4
<1>11. CASE RtcAnswer
  <2>1. /\ UNCHANGED <<state, todo, applied, losses>> /\ StateOf(link') = StateOf(link)
    BY <1>11 DEF RtcAnswer, StateOf
  <2> QED
    BY <1>0, <1>4, <2>1
<1>12. CASE RtcConnecting \/ RtcConnected \/ RtcFailed \/ RtcClosed
  <2>1. /\ UNCHANGED <<state, applied>> /\ UNCHANGED todo["ws"]
        /\ \E st : todo'["rtc"] = <<Set(st)>>
    BY <1>0, <1>12 DEF RtcConnecting, RtcConnected, RtcFailed, RtcClosed, RtcMoves, Start
  <2>2. todo'["rtc"] # <<>>
    BY <2>1, Singles
  <2>3. losses' = 0 => losses = 0
    BY <1>0, <1>2
  <2> QED
    BY <1>0, <1>4, <2>1, <2>2, <2>3
<1>13. CASE CallConnect \/ CallAssign
  <2>1. /\ UNCHANGED <<state, applied, link, losses>>
        /\ UNCHANGED todo["ws"] /\ UNCHANGED todo["rtc"]
    BY <1>0, <1>13 DEF CallConnect, CallAssign, Proceed
  <2> QED
    BY <1>0, <1>4, <2>1
<1>14. CASE WsRejected \/ WsOpen \/ WsLost \/ ServerTakes \/ SenderAccepts \/ SenderOffers
            \/ SenderRejects
  <2>1. UNCHANGED <<state, todo, applied, link, losses>>
    BY <1>14 DEF WsRejected, WsOpen, WsLost, ServerTakes, SenderAccepts, SenderOffers,
                 SenderRejects
  <2> QED
    BY <1>0, <1>4, <2>1
<1> QED
  BY <1>5, <1>6, <1>7, <1>8, <1>9, <1>10, <1>11, <1>12, <1>13, <1>14, SessionSteps DEF Threads

\* The invariant of a receive session.
THEOREM SessionInvariance == SessionSpec => []SessionInv
<1>1. SessionInit => SessionInv
  <2> SUFFICES ASSUME SessionInit PROVE SessionInv
    OBVIOUS
  <2>1. ThreadsInv
    BY DEF SessionInit, ThreadsInv, Threads, CreatorCalls, WsCalls, RtcCalls
  <2>2. SessionTypeOK
    <3>1. todo \in [Threads -> Seq(Calls)]
      <4>1. {Do("connect"), Do("assign"), Set("awaiting_accept")} \subseteq Calls
        BY DEF Do, Set, Calls, States
      <4>2. \A c, d, e \in Calls : <<c, d, e>> \in Seq(Calls) /\ <<>> \in Seq(Calls)
        OBVIOUS
      <4>3. <<Do("connect"), Do("assign"), Set("awaiting_accept")>> \in Seq(Calls)
        BY <4>1, <4>2
      <4> QED
        BY <4>3 DEF SessionInit
    <3>2. inbox \in Seq({"accepted", "offer", "rejected"} \cup Refusals)
          /\ outbox \in Seq({"hello", "answer"})
      BY DEF SessionInit
    <3>3. 0 \in 0 .. MaxAccepts /\ 0 \in 0 .. MaxLosses
      BY SessionAssumption DEF SessionAssumption
    <3>4. /\ state \in States /\ socket \in {"none", "connecting", "open", "closed"}
          /\ room \in {"out", "waiting", "admitted", "refused", "gone"}
          /\ link \in Links
      BY DEF SessionInit, States, Links
    <3>5. /\ accepts = 0 /\ offersDue = 0 /\ applied = 0 /\ losses = 0
          /\ assigned = FALSE /\ overwritten = FALSE
      BY DEF SessionInit
    <3> QED
      BY <3>1, <3>2, <3>3, <3>4, <3>5 DEF SessionTypeOK
  <2>3. todo["ws"] = <<>> /\ todo["rtc"] = <<>> /\ inbox = <<>> /\ outbox = <<>>
    BY DEF SessionInit, Threads
  <2>4. ~Applying /\ ~Failing
    BY <2>3, CallsApart DEF Applying, Failing
  <2>5. LinkInv
    BY <2>3 DEF SessionInit, LinkInv, Idle
  <2>6. HelloInv
    BY <2>3, <2>4, NothingWaits DEF SessionInit, HelloInv
  <2>7. OffersInv
    BY <2>3, <2>4, NothingWaits DEF SessionInit, OffersInv
  <2>8. StateInv
    <3>1. <<Do("apply")>> # <<>>
      BY Singles
    <3>2. applied = 0 /\ state = "connecting"
      BY DEF SessionInit
    <3>3. ~(applied > 0) /\ state \notin {"connected", "closed"}
      BY ONLY <3>2
    <3>4. todo["ws"] # <<Do("apply")>>
      BY ONLY <2>3, <3>1
    <3> QED
      BY ONLY <3>3, <3>4 DEF StateInv
  <2> QED
    BY <2>1, <2>2, <2>5, <2>6, <2>7, <2>8 DEF SessionInv
<1>2. SessionInv /\ [SessionNext]_receiveVars => SessionInv'
  <2> SUFFICES ASSUME SessionInv, [SessionNext]_receiveVars PROVE SessionInv'
    OBVIOUS
  <2>1. CASE SessionNext
    BY <2>1, ThreadsKept, SessionTypesKept, LinkKept, HelloKept, OffersKept, StateKept
       DEF SessionInv
  <2>2. CASE UNCHANGED receiveVars
    <3> USE <2>2 DEF SessionInv, receiveVars, netVars, farVars, linkVars
    <3>1. SessionTypeOK'
      BY DEF SessionTypeOK
    <3>2. ThreadsInv' /\ LinkInv'
      BY DEF ThreadsInv, RtcCalls, LinkInv, Idle
    <3>3. HelloInv'
      BY DEF HelloInv, Calling, Idle, Failing
    <3>4. OffersInv'
      BY DEF OffersInv, Applying
    <3>5. StateInv'
      BY DEF StateInv, Calm, Idle
    <3> QED
      BY <3>1, <3>2, <3>3, <3>4, <3>5
  <2> QED
    BY <2>1, <2>2
<1> QED
  BY <1>1, <1>2, PTL DEF SessionSpec

\* When nothing is under way the state of a receiver is that of its connection.
\* (set_state of signaling_event and wrtc_state_cb, which hold no lock.)
THEOREM StatesCatchUp == SessionSpec => []StateCatchesUp
<1>1. SessionInv => StateCatchesUp
  <2> SUFFICES ASSUME SessionInv, Quiet, accepts <= 1, ~overwritten
               PROVE  /\ link = "connected" <=> state = "connected"
                      /\ link \in {"answered", "connecting"} => state = "negotiating"
                      /\ link = "failed" => state = "failed"
                      /\ link = "closed" <=> state = "closed"
    BY DEF StateCatchesUp
  <2>1. Calm /\ Idle("rtc") /\ applied \in Nat
    BY DEF Calm, Quiet, Threads, SessionInv, SessionTypeOK
  <2>2. CASE applied = 0
    BY <2>1, <2>2 DEF SessionInv, LinkInv, StateInv
  <2>3. CASE applied > 0
    <3>1. state = StateOf(link)
      BY <2>1, <2>3 DEF SessionInv, StateInv
    <3>2. link \in Links /\ link \notin {"new", "unapplied"}
      BY <2>3 DEF SessionInv, SessionTypeOK, LinkInv
    <3> QED
      BY <3>1, <3>2 DEF StateOf, Links
  <2> QED
    BY <2>1, <2>2, <2>3
<1> QED
  BY <1>1, SessionInvariance, PTL

\* A connection that was never lost is never offered again.  (The guard of
\* SDP_OFFER in signaling_event, which set_state comes before.)
THEOREM LiveLinksKeepTheirOffer == SessionSpec => LiveLinkKeepsItsOffer
<1>1. SessionInv /\ [SessionNext]_receiveVars =>
         [applied' > applied /\ applied > 0 => losses > 0 \/ overwritten]_receiveVars
  <2> SUFFICES ASSUME SessionInv, SessionNext, applied' > applied, applied > 0,
                      ~(losses > 0), ~overwritten
               PROVE  FALSE
    OBVIOUS
  <2>1. losses = 0 /\ Calm
    BY SessionAssumption DEF SessionAssumption, SessionInv, SessionTypeOK, Calm
  <2>2. Idle("ws")
    BY <2>1 DEF SessionInv, StateInv
  <2>3. applied' # applied
    BY DEF SessionInv, SessionTypeOK
  <2>4. Apply
    BY <2>3, SessionSteps
       DEF linkVars, CallSet, CallStore, CallConnect, CallAssign, WsAccepted, WsRefused,
           WsOffer, WsRejected, WsOpen, WsLost, RtcAnswer, RtcConnecting, RtcConnected,
           RtcFailed, RtcClosed, RtcMoves, ServerTakes, SenderAccepts, SenderOffers,
           SenderRejects
  <2> QED
    BY <2>2, <2>4, ApplyDescribes DEF Calling
<1> QED
  BY <1>1, SessionInvariance, PTL DEF SessionSpec, LiveLinkKeepsItsOffer

================================================================================
