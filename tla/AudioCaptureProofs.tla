-------------------------- MODULE AudioCaptureProofs ---------------------------
(***************************************************************************)
(* What holds of the audio tracks for every frame, ring and block size     *)
(* that CaptureAssumption allows.                                          *)
(***************************************************************************)
EXTENDS AudioCapture, TLAPS

\* The ring holds the samples up to the last one captured, without a gap.
Contiguous ==
    \A t \in Tracks :
        /\ Len(ring[t]) <= taken[t]
        /\ \A i \in DOMAIN ring[t] : ring[t][i] = taken[t] - Len(ring[t]) + i

\* What was sent is older than the ring.
SentBefore ==
    \A t \in Tracks :
        /\ \A i \in DOMAIN sent[t] : sent[t][i] <= taken[t] - Len(ring[t])
        /\ \A i, j \in DOMAIN sent[t] : i < j => sent[t][i] < sent[t][j]

\* Only attached tracks have a callback, and the connection is there until an
\* ending took it.
HooksInv ==
    /\ hooked \subseteq {t \in Tracks : track[t] = "attached"}
    /\ busy \subseteq hooked
    /\ stage \in {"disconnected", "released"} => \A t \in Tracks : track[t] # "attached"
    /\ stage \in {"attaching", "listed", "releasing"} => link = "up"

SamplesInv == Contiguous /\ SentBefore

-----------------------------------------------------------------------------

\* Lengths of what a block does to a ring.
LEMMA BeyondLength ==
    ASSUME NEW q \in Seq(Nat), NEW n \in Nat, n <= Len(q)
    PROVE  /\ Beyond(q, n) \in Seq(Nat)
           /\ Len(Beyond(q, n)) = Len(q) - n
           /\ \A i \in 1 .. Len(q) - n : Beyond(q, n)[i] = q[n + i]
  BY DEF Beyond

\* The elements of one sequence after another.
LEMMA Joined ==
    ASSUME NEW a \in Seq(Nat), NEW b \in Seq(Nat)
    PROVE  /\ Len(a \o b) = Len(a) + Len(b)
           /\ DOMAIN (a \o b) = 1 .. Len(a) + Len(b)
           /\ DOMAIN a = 1 .. Len(a)
           /\ \A i \in 1 .. Len(a) + Len(b) :
                  (a \o b)[i] = IF i <= Len(a) THEN a[i] ELSE b[i - Len(a)]
  OBVIOUS

\* The samples of a list are numbers.
LEMMA Numbers ==
    ASSUME NEW a \in Seq(Nat)
    PROVE  Len(a) \in Nat /\ DOMAIN a = 1 .. Len(a) /\ \A i \in 1 .. Len(a) : a[i] \in Nat
  OBVIOUS

\* A ring with room made for n samples holds its newest ones.
LEMMA MakeRoomLength ==
    ASSUME NEW q \in Seq(Nat), NEW n \in 1 .. MaxBlock, Len(q) <= Capacity
    PROVE  /\ MakeRoom(q, n) \in Seq(Nat)
           /\ Len(MakeRoom(q, n)) + n <= Capacity
           /\ Len(MakeRoom(q, n)) <= Len(q)
           /\ \A i \in DOMAIN MakeRoom(q, n) :
                  MakeRoom(q, n)[i] = q[Len(q) - Len(MakeRoom(q, n)) + i]
<1>1. CASE Len(q) + n > Capacity
  <2> DEFINE d == Len(q) + n - Capacity
  <2>1. d \in Nat /\ d <= Len(q)
    BY <1>1, CaptureAssumption
  <2>2. MakeRoom(q, n) = Beyond(q, d)
    BY <1>1 DEF MakeRoom
  <2>3. /\ Beyond(q, d) \in Seq(Nat)
        /\ Len(Beyond(q, d)) = Len(q) - d
        /\ \A i \in 1 .. Len(q) - d : Beyond(q, d)[i] = q[d + i]
    BY <2>1, BeyondLength
  <2>4. Len(q) - d + n <= Capacity
    BY CaptureAssumption
  <2> HIDE DEF d
  <2>5. /\ MakeRoom(q, n) \in Seq(Nat)
        /\ Len(MakeRoom(q, n)) = Len(q) - d
        /\ DOMAIN MakeRoom(q, n) = 1 .. Len(q) - d
    BY <2>2, <2>3
  <2>6. \A i \in 1 .. Len(q) - d : MakeRoom(q, n)[i] = q[Len(q) - (Len(q) - d) + i]
    BY <2>1, <2>2, <2>3
  <2>7. n \in Nat /\ Len(q) \in Nat /\ Capacity \in Nat
    BY CaptureAssumption
  <2> DEFINE r == MakeRoom(q, n)
  <2>8. Len(r) = Len(q) - d /\ DOMAIN r = 1 .. Len(q) - d
    BY <2>5
  <2>9. Len(r) + n <= Capacity /\ Len(r) <= Len(q)
    BY <2>1, <2>4, <2>7, <2>8
  <2>10. \A i \in DOMAIN r : r[i] = q[Len(q) - Len(r) + i]
    BY <2>6, <2>8
  <2> QED
    BY <2>5, <2>9, <2>10
<1>2. CASE ~(Len(q) + n > Capacity)
  BY <1>2, CaptureAssumption DEF MakeRoom
<1> QED
  BY <1>1, <1>2

\* The next samples of a track follow on those before.
LEMMA BlockType ==
    ASSUME TypeOK, NEW t \in Tracks, NEW n \in 1 .. MaxBlock
    PROVE  /\ Block(t, n) \in Seq(Nat)
           /\ Len(Block(t, n)) = n
           /\ \A i \in 1 .. n : Block(t, n)[i] = taken[t] + i
<1>1. n \in Nat
  BY CaptureAssumption
<1>2. taken[t] \in Nat
  BY DEF TypeOK
<1> QED
  BY <1>1, <1>2 DEF Block

-----------------------------------------------------------------------------

\* Types: every step of the owner and of the callbacks keeps them.
LEMMA InitType == Init => TypeOK /\ LessThanAFrameWaits
<1> SUFFICES ASSUME Init PROVE TypeOK /\ LessThanAFrameWaits
  OBVIOUS
<1>1. <<>> \in Seq(Nat) /\ Len(<<>>) = 0 /\ 0 < Frame /\ 0 <= Capacity
  BY CaptureAssumption
<1>2. TypeOK
  BY <1>1 DEF Init, TypeOK
<1>3. LessThanAFrameWaits
  BY <1>1 DEF Init, LessThanAFrameWaits
<1> QED
  BY <1>2, <1>3

\* The bound on the ring is part of the types' induction, as the length of what
\* is dropped depends on it.
LEMMA NextType == TypeOK /\ LessThanAFrameWaits /\ [Next]_vars => TypeOK' /\ LessThanAFrameWaits'
<1> SUFFICES ASSUME TypeOK, LessThanAFrameWaits, [Next]_vars
             PROVE  TypeOK' /\ LessThanAFrameWaits'
  OBVIOUS
<1> USE CaptureAssumption
<1>1. CASE Owner
  BY <1>1 DEF Owner, List, Disconnect, ReleaseSession, FreeAudio, Attach, FreeTrack,
              TypeOK, LessThanAFrameWaits
<1>2. ASSUME NEW t \in Tracks, NEW n \in 1 .. MaxBlock, Capture(t, n)
      PROVE  TypeOK' /\ LessThanAFrameWaits'
  <2> DEFINE new == MakeRoom(ring[t], n) \o Block(t, n)
  <2>1. ring[t] \in Seq(Nat) /\ Len(ring[t]) <= Capacity
    BY DEF TypeOK, LessThanAFrameWaits
  <2>2. new \in Seq(Nat) /\ Len(new) <= Capacity
    <3>1. /\ MakeRoom(ring[t], n) \in Seq(Nat)
          /\ Len(MakeRoom(ring[t], n)) + n <= Capacity
      BY <2>1, MakeRoomLength
    <3>2. Block(t, n) \in Seq(Nat) /\ Len(Block(t, n)) = n
      BY BlockType
    <3>3. /\ MakeRoom(ring[t], n) \o Block(t, n) \in Seq(Nat)
          /\ Len(MakeRoom(ring[t], n) \o Block(t, n))
                = Len(MakeRoom(ring[t], n)) + Len(Block(t, n))
      <4>1. MakeRoom(ring[t], n) \in Seq(Nat) /\ Block(t, n) \in Seq(Nat)
        BY <3>1, <3>2
      <4> QED
        BY ONLY <4>1
    <3>4. Len(MakeRoom(ring[t], n) \o Block(t, n)) = Len(MakeRoom(ring[t], n)) + n
      BY ONLY <3>2, <3>3
    <3> QED
      BY ONLY <3>1, <3>3, <3>4
  <2>3. n \in Nat
    OBVIOUS
  <2>4. TypeOK'
    BY <1>2, <2>2, <2>3 DEF Capture, TypeOK
  <2>5. LessThanAFrameWaits'
    BY <1>2, <2>2 DEF Capture, TypeOK, LessThanAFrameWaits
  <2> QED
    BY <2>4, <2>5
<1>3. ASSUME NEW t \in Tracks, Encode(t)
      PROVE  TypeOK' /\ LessThanAFrameWaits'
  <2>1. ring[t] \in Seq(Nat) /\ Len(ring[t]) >= Frame /\ t \in busy
    BY <1>3 DEF Encode, TypeOK
  <2>2. Beyond(ring[t], Frame) \in Seq(Nat) /\ Len(Beyond(ring[t], Frame)) = Len(ring[t]) - Frame
    BY <2>1, BeyondLength
  <2>3. SubSeq(ring[t], 1, Frame) \in Seq(Nat)
    BY <2>1
  <2>4. sent' \in [Tracks -> Seq(Nat)]
    <3>1. sent \in [Tracks -> Seq(Nat)]
      BY DEF TypeOK
    <3>2. sent[t] \o SubSeq(ring[t], 1, Frame) \in Seq(Nat)
      BY <3>1, <2>3
    <3>3. \/ sent' = [sent EXCEPT ![t] = sent[t] \o SubSeq(ring[t], 1, Frame)]
          \/ sent' = sent
      BY <1>3 DEF Encode
    <3> QED
      BY <3>1, <3>2, <3>3
  <2>5. late' \in BOOLEAN
    BY <1>3, Zenon DEF Encode, TypeOK
  <2>7. ring' \in [Tracks -> Seq(Nat)]
    BY <1>3, <2>2 DEF Encode, TypeOK
  <2>8. TypeOK'
    BY <1>3, <2>4, <2>5, <2>7 DEF Encode, TypeOK
  <2>6. LessThanAFrameWaits'
    <3>1. /\ busy' = busy /\ t \in busy
          /\ \A u \in Tracks \ {t} : ring'[u] = ring[u]
          /\ ring'[t] = Beyond(ring[t], Frame)
      BY <1>3 DEF Encode, TypeOK
    <3>2. Len(ring[t]) \in Nat /\ Frame \in Nat /\ Capacity \in Nat
      BY <2>1, CaptureAssumption
    <3>3. Len(ring[t]) <= Capacity
      BY DEF LessThanAFrameWaits
    <3>4. Len(Beyond(ring[t], Frame)) <= Capacity
      BY ONLY <2>2, <3>2, <3>3
    <3> QED
      BY <3>1, <3>4 DEF LessThanAFrameWaits
  <2> QED
    BY <2>6, <2>8
<1>4. ASSUME NEW t \in Tracks, Return(t)
      PROVE  TypeOK' /\ LessThanAFrameWaits'
  BY <1>4 DEF Return, TypeOK, LessThanAFrameWaits
<1>5. CASE UNCHANGED vars
  BY <1>5 DEF vars, TypeOK, LessThanAFrameWaits
<1> QED
  BY <1>1, <1>2, <1>3, <1>4, <1>5 DEF Next, Callback

\* All variables stay in their types.
THEOREM TypeCorrect == Spec => []TypeOK
<1>1. Init => TypeOK /\ LessThanAFrameWaits
  BY InitType
<1>2. TypeOK /\ LessThanAFrameWaits /\ [Next]_vars => TypeOK' /\ LessThanAFrameWaits'
  BY NextType
<1> QED
  BY <1>1, <1>2, PTL DEF Spec

\* Between two callbacks less than a frame waits in the ring of a track, which
\* never overflows: on_audio_capture encodes until no full frame is left.
THEOREM LittleWaits == Spec => []LessThanAFrameWaits
<1>1. Init => TypeOK /\ LessThanAFrameWaits
  BY InitType
<1>2. TypeOK /\ LessThanAFrameWaits /\ [Next]_vars => TypeOK' /\ LessThanAFrameWaits'
  BY NextType
<1> QED
  BY <1>1, <1>2, PTL DEF Spec

-----------------------------------------------------------------------------

\* The samples that leave the ring are older than those that stay, and the ring
\* stays without a gap, whether it drops samples, grows or is encoded.
LEMMA NextSamples ==
    TypeOK /\ LessThanAFrameWaits /\ SamplesInv /\ [Next]_vars => SamplesInv'
<1> SUFFICES ASSUME TypeOK, LessThanAFrameWaits, SamplesInv, [Next]_vars
             PROVE  SamplesInv'
  OBVIOUS
<1>1. CASE UNCHANGED <<ring, taken, sent>>
  BY <1>1 DEF SamplesInv, Contiguous, SentBefore
<1>2. ASSUME NEW t \in Tracks, NEW n \in 1 .. MaxBlock, Capture(t, n)
      PROVE  SamplesInv'
  <2> DEFINE q == ring[t]
             r == MakeRoom(q, n)
             new == r \o Block(t, n)
  <2>1. /\ q \in Seq(Nat) /\ Len(q) <= Capacity /\ Len(q) \in Nat
        /\ taken[t] \in Nat /\ n \in Nat /\ sent[t] \in Seq(Nat)
    BY DEF TypeOK, LessThanAFrameWaits
  <2>2. /\ r \in Seq(Nat)
        /\ Len(r) <= Len(q)
        /\ \A i \in DOMAIN r : r[i] = q[Len(q) - Len(r) + i]
    BY <2>1, MakeRoomLength
  <2>3. /\ Block(t, n) \in Seq(Nat) /\ Len(Block(t, n)) = n
        /\ \A i \in 1 .. n : Block(t, n)[i] = taken[t] + i
    BY BlockType
  <2>4. Len(q) <= taken[t] /\ \A i \in 1 .. Len(q) : q[i] = taken[t] - Len(q) + i
    BY <2>1 DEF SamplesInv, Contiguous
  <2> HIDE DEF q, r
  <2>5. Len(r) \in Nat /\ \A i \in 1 .. Len(r) : r[i] = taken[t] - Len(r) + i
    <3>1. Len(r) \in Nat /\ DOMAIN r = 1 .. Len(r)
      BY <2>2
    <3>2. ASSUME NEW i \in 1 .. Len(r)
          PROVE  r[i] = taken[t] - Len(r) + i
      <4>0. Len(q) \in Nat /\ Len(r) \in Nat /\ Len(r) <= Len(q)
        BY <2>1, <2>2, <3>1
      <4>1. Len(q) - Len(r) + i \in 1 .. Len(q)
        BY ONLY <4>0, i \in 1 .. Len(r)
      <4>2. q[Len(q) - Len(r) + i] = taken[t] - Len(q) + (Len(q) - Len(r) + i)
        BY <4>1, <2>4
      <4>3. r[i] = q[Len(q) - Len(r) + i]
        BY <2>2, <3>1
      <4>4. taken[t] - Len(q) + (Len(q) - Len(r) + i) = taken[t] - Len(r) + i
        BY <2>1, <3>1
      <4> QED
        BY <4>2, <4>3, <4>4
    <3> QED
      BY <3>1, <3>2
  <2>6. /\ Len(new) = Len(r) + n
        /\ DOMAIN new = 1 .. Len(r) + n
        /\ \A i \in 1 .. Len(r) + n :
               new[i] = IF i <= Len(r) THEN r[i] ELSE Block(t, n)[i - Len(r)]
    <3>1. n \in Nat /\ Len(r) \in Nat /\ Len(Block(t, n)) = n
      BY <2>1, <2>2, <2>3
    <3>2. /\ Len(new) = Len(r) + Len(Block(t, n))
          /\ DOMAIN new = 1 .. Len(r) + Len(Block(t, n))
          /\ \A i \in 1 .. Len(r) + Len(Block(t, n)) :
                 new[i] = IF i <= Len(r) THEN r[i] ELSE Block(t, n)[i - Len(r)]
      BY <2>2, <2>3, Joined
    <3> HIDE DEF new
    <3> QED
      BY <3>1, <3>2
  <2>7. \A i \in 1 .. Len(r) + n : new[i] = (taken[t] + n) - (Len(r) + n) + i
    <3> SUFFICES ASSUME NEW i \in 1 .. Len(r) + n
                 PROVE  new[i] = (taken[t] + n) - (Len(r) + n) + i
      OBVIOUS
    <3>1. CASE i <= Len(r)
      BY <3>1, <2>1, <2>5, <2>6
    <3>2. CASE ~(i <= Len(r))
      <4>1. i - Len(r) \in 1 .. n
        BY <3>2, <2>1, <2>5
      <4>2. new[i] = taken[t] + (i - Len(r))
        BY <3>2, <4>1, <2>3, <2>6
      <4> QED
        BY <4>1, <4>2, <2>1, <2>5
    <3> QED
      BY <3>1, <3>2
  <2>8. /\ ring' = [ring EXCEPT ![t] = new]
        /\ taken' = [taken EXCEPT ![t] = taken[t] + n]
        /\ UNCHANGED sent
    BY <1>2 DEF Capture, q, r
  <2> HIDE DEF new
  <2>9. ring'[t] = new /\ taken'[t] = taken[t] + n
    BY <2>8 DEF TypeOK
  <2>10. \A u \in Tracks \ {t} : ring'[u] = ring[u] /\ taken'[u] = taken[u]
    BY <2>8 DEF TypeOK
  <2>11. Len(new) <= taken'[t] /\ taken'[t] - Len(new) >= taken[t] - Len(q)
    BY <2>1, <2>2, <2>4, <2>5, <2>6, <2>9
  <2>12. Contiguous'
    <3>1. /\ Len(ring'[t]) <= taken'[t]
          /\ \A i \in DOMAIN ring'[t] : ring'[t][i] = taken'[t] - Len(ring'[t]) + i
      <4>1. DOMAIN new = 1 .. Len(new) /\ Len(new) = Len(r) + n
        BY <2>6
      <4>2. \A i \in 1 .. Len(new) : new[i] = (taken[t] + n) - Len(new) + i
        BY <2>7, <4>1
      <4> QED
        <5>1. taken'[t] = taken[t] + n
          BY <2>9
        <5>2. \A i \in DOMAIN new : new[i] = taken'[t] - Len(new) + i
          BY <4>1, <4>2, <5>1
        <5>3. Len(new) <= taken'[t]
          BY <2>11
        <5> QED
          BY <2>9, <5>2, <5>3
    <3> QED
      BY <3>1, <2>10 DEF SamplesInv, Contiguous
  <2>13. SentBefore'
    <3>1. \A i \in DOMAIN sent[t] : sent[t][i] <= taken[t] - Len(q)
      BY DEF SamplesInv, SentBefore, q
    <3>2. \A i \in DOMAIN sent[t] : sent[t][i] \in Nat
      BY <2>1
    <3>3. Len(new) \in Nat
      BY <2>1, <2>5, <2>6
    <3>4. \A i \in DOMAIN sent[t] : sent[t][i] <= taken'[t] - Len(new)
      BY <3>1, <3>2, <3>3, <2>1, <2>9, <2>11
    <3> QED
      BY <3>4, <2>8, <2>9, <2>10 DEF SamplesInv, SentBefore
  <2> QED
    BY <2>12, <2>13 DEF SamplesInv
<1>3. ASSUME NEW t \in Tracks, Encode(t)
      PROVE  SamplesInv'
  <2> DEFINE q == ring[t]
             rest == Beyond(q, Frame)
             first == SubSeq(q, 1, Frame)
  <2>1. /\ q \in Seq(Nat) /\ Len(q) \in Nat /\ Frame \in Nat \ {0} /\ Frame <= Len(q)
        /\ taken[t] \in Nat /\ sent[t] \in Seq(Nat)
    BY <1>3, CaptureAssumption DEF Encode, TypeOK
  <2>2. /\ rest \in Seq(Nat) /\ Len(rest) = Len(q) - Frame
        /\ \A i \in 1 .. Len(q) - Frame : rest[i] = q[Frame + i]
    BY <2>1, BeyondLength
  <2>3. /\ first \in Seq(Nat) /\ Len(first) = Frame
        /\ \A i \in 1 .. Frame : first[i] = q[i]
    BY <2>1
  <2>4. Len(q) <= taken[t] /\ \A i \in 1 .. Len(q) : q[i] = taken[t] - Len(q) + i
    BY <2>1 DEF SamplesInv, Contiguous
  <2>5. /\ \A i \in DOMAIN sent[t] : sent[t][i] <= taken[t] - Len(q)
        /\ \A i, j \in DOMAIN sent[t] : i < j => sent[t][i] < sent[t][j]
    BY DEF SamplesInv, SentBefore
  <2>6. /\ ring' = [ring EXCEPT ![t] = rest]
        /\ UNCHANGED taken
        /\ sent' = [sent EXCEPT ![t] = sent[t] \o first] \/ sent' = sent
    BY <1>3 DEF Encode
  <2> HIDE DEF q, rest, first
  <2>7. /\ ring'[t] = rest
        /\ \A u \in Tracks \ {t} : ring'[u] = ring[u] /\ sent'[u] = sent[u]
        /\ sent'[t] = sent[t] \o first \/ sent'[t] = sent[t]
    BY <2>6 DEF TypeOK
  <2>8. Contiguous'
    <3>1. ASSUME NEW i \in 1 .. Len(rest)
          PROVE  rest[i] = taken[t] - Len(rest) + i
      <4>1. Frame + i \in 1 .. Len(q) /\ i \in 1 .. Len(q) - Frame
        BY <2>1, <2>2
      <4>2. rest[i] = taken[t] - Len(q) + (Frame + i)
        BY <4>1, <2>2, <2>4
      <4>3. Len(rest) = Len(q) - Frame
        BY <2>2
      <4>4. /\ taken[t] \in Nat /\ Len(q) \in Nat /\ Frame \in Nat
            /\ i \in Nat
        BY <2>1, <4>1
      <4> QED
        BY <4>2, <4>3, <4>4
    <3>2. Len(rest) <= taken[t] /\ DOMAIN rest = 1 .. Len(rest)
      BY <2>1, <2>2, <2>4
    <3> QED
      BY <3>1, <3>2, <2>6, <2>7 DEF SamplesInv, Contiguous
  <2>9. SentBefore'
    <3> DEFINE all == sent[t] \o first
    <3>1. /\ DOMAIN all = 1 .. Len(sent[t]) + Frame
          /\ Len(sent[t]) \in Nat
          /\ DOMAIN sent[t] = 1 .. Len(sent[t])
          /\ \A i \in 1 .. Len(sent[t]) + Frame :
                 all[i] = IF i <= Len(sent[t]) THEN sent[t][i] ELSE first[i - Len(sent[t])]
      <4>1. Len(first) = Frame /\ Len(sent[t]) \in Nat /\ Frame \in Nat
        BY <2>1, <2>3
      <4>2. /\ DOMAIN all = 1 .. Len(sent[t]) + Len(first)
            /\ DOMAIN sent[t] = 1 .. Len(sent[t])
            /\ \A i \in 1 .. Len(sent[t]) + Len(first) :
                   all[i] = IF i <= Len(sent[t]) THEN sent[t][i]
                            ELSE first[i - Len(sent[t])]
        BY <2>1, <2>3, Joined
      <4> HIDE DEF all
      <4> QED
        BY <4>1, <4>2
    <3>2. \A i \in 1 .. Len(sent[t]) : sent[t][i] \in Nat
      <4>1. sent[t] \in Seq(Nat)
        BY <2>1
      <4> QED
        BY <4>1, Numbers
    <3>3. ASSUME NEW i \in 1 .. Len(sent[t]) + Frame, ~(i <= Len(sent[t]))
          PROVE  all[i] = taken[t] - Len(q) + (i - Len(sent[t]))
      <4>1. i - Len(sent[t]) \in 1 .. Frame /\ i - Len(sent[t]) \in 1 .. Len(q)
        BY <3>1, <3>3, <2>1
      <4> QED
        BY <4>1, <3>1, <3>3, <2>3, <2>4
    <3> HIDE DEF all
    <3>4. \A i \in DOMAIN all : all[i] <= taken[t] - Len(rest)
      <4> SUFFICES ASSUME NEW i \in 1 .. Len(sent[t]) + Frame
                   PROVE  all[i] <= taken[t] - Len(rest)
        BY <3>1
      <4>1. CASE i <= Len(sent[t])
        <5>1. i \in 1 .. Len(sent[t]) /\ all[i] = sent[t][i]
          BY <4>1, <3>1
        <5>2. sent[t][i] <= taken[t] - Len(q) /\ sent[t][i] \in Nat
          BY <5>1, <3>1, <3>2, <2>5
        <5>n. taken[t] \in Nat /\ Len(q) \in Nat /\ Frame \in Nat
          BY <3>1, <2>1
        <5>r. Len(rest) = Len(q) - Frame
          BY <2>2
        <5>3. taken[t] - Len(q) <= taken[t] - Len(rest) /\ taken[t] - Len(rest) \in Int
              /\ taken[t] - Len(q) \in Int
          BY ONLY <5>n, <5>r
        <5> QED
          BY ONLY <5>1, <5>2, <5>3
      <4>2. CASE ~(i <= Len(sent[t]))
        <5>1. all[i] = taken[t] - Len(q) + (i - Len(sent[t]))
          BY <4>2, <3>3
        <5>n. taken[t] \in Nat /\ Len(q) \in Nat /\ Frame \in Nat /\ Len(sent[t]) \in Nat
          BY <3>1, <2>1
        <5>2. i - Len(sent[t]) <= Frame
          BY ONLY <5>n, i \in 1 .. Len(sent[t]) + Frame
        <5>3. taken[t] - Len(q) + (i - Len(sent[t])) <= taken[t] - Len(q) + Frame
          BY ONLY <5>2, <5>n, i \in Int
        <5>r. Len(rest) = Len(q) - Frame
          BY <2>2
        <5>4. taken[t] - Len(rest) = taken[t] - Len(q) + Frame
          BY ONLY <5>n, <5>r
        <5>5. taken[t] - Len(q) + Frame \in Int
              /\ taken[t] - Len(q) + (i - Len(sent[t])) \in Int
          BY ONLY <5>n, i \in Int
        <5> QED
          BY ONLY <5>1, <5>3, <5>4, <5>5
      <4> QED
        BY <4>1, <4>2
    <3>5. \A i, j \in DOMAIN all : i < j => all[i] < all[j]
      <4> SUFFICES ASSUME NEW i \in 1 .. Len(sent[t]) + Frame,
                          NEW j \in 1 .. Len(sent[t]) + Frame, i < j
                   PROVE  all[i] < all[j]
        BY <3>1
      <4>1. CASE j <= Len(sent[t])
        BY <4>1, <3>1, <2>5
      <4>2. CASE i <= Len(sent[t]) /\ ~(j <= Len(sent[t]))
        <5>1. i \in 1 .. Len(sent[t]) /\ all[i] = sent[t][i]
          BY <4>2, <3>1
        <5>2. sent[t][i] <= taken[t] - Len(q) /\ sent[t][i] \in Nat
          BY <5>1, <3>1, <3>2, <2>5
        <5>3. all[j] = taken[t] - Len(q) + (j - Len(sent[t]))
          BY <4>2, <3>3
        <5>4. j - Len(sent[t]) >= 1
          BY <4>2, <3>1
        <5>n. taken[t] \in Nat /\ Len(q) \in Nat /\ Len(sent[t]) \in Nat /\ j \in Int
          BY <3>1, <2>1
        <5>5. taken[t] - Len(q) < taken[t] - Len(q) + (j - Len(sent[t]))
          BY ONLY <5>4, <5>n
        <5>6. taken[t] - Len(q) \in Int /\ taken[t] - Len(q) + (j - Len(sent[t])) \in Int
          BY ONLY <5>n
        <5> QED
          BY <5>1, <5>2, <5>3, <5>5, <5>6
      <4>3. CASE ~(i <= Len(sent[t]))
        <5>n. taken[t] \in Nat /\ Len(q) \in Nat /\ Len(sent[t]) \in Nat
              /\ i \in Int /\ j \in Int
          BY <3>1, <2>1
        <5>1. ~(j <= Len(sent[t]))
          BY ONLY <4>3, <5>n, i < j
        <5>2. /\ all[i] = taken[t] - Len(q) + (i - Len(sent[t]))
              /\ all[j] = taken[t] - Len(q) + (j - Len(sent[t]))
          BY <4>3, <5>1, <3>3
        <5> QED
          BY ONLY <5>2, <5>n, i < j
      <4> QED
        BY ONLY <4>1, <4>2, <4>3
    <3>6. \A i \in DOMAIN sent[t] : sent[t][i] <= taken[t] - Len(rest)
      <4>1. taken[t] - Len(q) \in Int /\ taken[t] - Len(rest) \in Int
            /\ taken[t] - Len(q) <= taken[t] - Len(rest)
        BY <2>1, <2>2
      <4>2. ASSUME NEW i \in DOMAIN sent[t]
            PROVE  sent[t][i] <= taken[t] - Len(rest)
        <5>1. sent[t][i] \in Nat
          BY <3>1, <3>2
        <5>2. sent[t][i] <= taken[t] - Len(q)
          BY <2>5
        <5> QED
          BY <4>1, <5>1, <5>2
      <4> QED
        BY <4>2
    <3>7. /\ \A i \in DOMAIN sent'[t] : sent'[t][i] <= taken[t] - Len(rest)
          /\ \A i, j \in DOMAIN sent'[t] : i < j => sent'[t][i] < sent'[t][j]
      <4>1. CASE sent'[t] = all
        BY <4>1, <3>4, <3>5
      <4>2. CASE sent'[t] = sent[t]
        BY <4>2, <3>6, <2>5
      <4> QED
        BY <4>1, <4>2, <2>7 DEF all
    <3> QED
      BY <3>7, <2>6, <2>7 DEF SamplesInv, SentBefore
  <2> QED
    BY <2>8, <2>9 DEF SamplesInv
<1>4. CASE Owner
  BY <1>1, <1>4 DEF Owner, List, Disconnect, ReleaseSession, FreeAudio, Attach, FreeTrack
<1>5. ASSUME NEW t \in Tracks, Return(t)
      PROVE  SamplesInv'
  BY <1>1, <1>5 DEF Return
<1>6. CASE UNCHANGED vars
  BY <1>1, <1>6 DEF vars
<1> QED
  BY <1>2, <1>3, <1>4, <1>5, <1>6 DEF Next, Callback

\* What was sent and what waits, one after the other, is in order.
LEMMA InOrder == TypeOK /\ SamplesInv => SamplesInOrder
<1> SUFFICES ASSUME TypeOK, SamplesInv, NEW t \in Tracks,
                    NEW i \in DOMAIN (sent[t] \o ring[t]),
                    NEW j \in DOMAIN (sent[t] \o ring[t]), i < j
             PROVE  (sent[t] \o ring[t])[i] < (sent[t] \o ring[t])[j]
  BY DEF SamplesInOrder
<1> DEFINE s == sent[t]
           q == ring[t]
           all == s \o q
<1>1. s \in Seq(Nat) /\ q \in Seq(Nat) /\ taken[t] \in Nat
  BY DEF TypeOK
<1>2. /\ \A k \in 1 .. Len(s) : s[k] <= taken[t] - Len(q)
      /\ \A k, l \in 1 .. Len(s) : k < l => s[k] < s[l]
      /\ \A k \in 1 .. Len(q) : q[k] = taken[t] - Len(q) + k
  <2>1. DOMAIN s = 1 .. Len(s) /\ DOMAIN q = 1 .. Len(q)
    BY <1>1
  <2> QED
    BY <2>1 DEF SamplesInv, Contiguous, SentBefore
<1> HIDE DEF s, q
<1>3. /\ Len(s) \in Nat /\ Len(q) \in Nat
      /\ DOMAIN all = 1 .. Len(s) + Len(q)
      /\ \A k \in 1 .. Len(s) + Len(q) :
             all[k] = IF k <= Len(s) THEN s[k] ELSE q[k - Len(s)]
      /\ \A k \in 1 .. Len(s) : s[k] \in Nat
  BY <1>1, Joined, Numbers
<1>4. i \in 1 .. Len(s) + Len(q) /\ j \in 1 .. Len(s) + Len(q)
  BY <1>3 DEF s, q
<1> HIDE DEF all
<1>5. CASE j <= Len(s)
  <2>1. i \in 1 .. Len(s) /\ j \in 1 .. Len(s) /\ all[i] = s[i] /\ all[j] = s[j]
    BY <1>3, <1>4, <1>5
  <2> QED
    BY <1>2, <2>1 DEF all, s, q
<1>6. CASE ~(j <= Len(s))
  <2>1. j - Len(s) \in 1 .. Len(q)
    BY <1>3, <1>4, <1>6
  <2>2. all[j] = taken[t] - Len(q) + (j - Len(s))
    BY <1>2, <1>3, <1>4, <1>6, <2>1
  <2>3. CASE i <= Len(s)
    <3>1. i \in 1 .. Len(s) /\ all[i] = s[i]
      BY <1>3, <1>4, <2>3
    <3>2. all[i] <= taken[t] - Len(q) /\ all[i] \in Nat
      BY <1>2, <1>3, <3>1
    <3>3. taken[t] \in Nat /\ Len(q) \in Nat /\ j - Len(s) \in Int /\ j - Len(s) >= 1
      BY <1>1, <1>3, <2>1
    <3>4. all[i] < all[j]
      BY ONLY <2>2, <3>2, <3>3
    <3> QED
      BY <3>4 DEF all, s, q
  <2>4. CASE ~(i <= Len(s))
    <3>1. i - Len(s) \in 1 .. Len(q)
      BY <1>3, <1>4, <2>4
    <3>2. all[i] = taken[t] - Len(q) + (i - Len(s))
      BY <1>2, <1>3, <1>4, <2>4, <3>1
    <3>3. all[i] < all[j]
      BY <1>1, <1>3, <1>4, <2>2, <3>2
    <3> QED
      BY <3>3 DEF all, s, q
  <2> QED
    BY <2>3, <2>4
<1> QED
  BY <1>5, <1>6

\* A receiver hears the samples of a track in order and none twice, whatever the
\* ring dropped and the encoder refused.
THEOREM HeardInOrder == Spec => []SamplesInOrder
<1>1. Init => TypeOK /\ LessThanAFrameWaits /\ SamplesInv
  <2>1. Init => SamplesInv
    BY DEF Init, SamplesInv, Contiguous, SentBefore
  <2> QED
    BY <2>1, InitType
<1>2. TypeOK /\ LessThanAFrameWaits /\ SamplesInv /\ [Next]_vars
        => (TypeOK /\ LessThanAFrameWaits /\ SamplesInv)'
  BY NextType, NextSamples
<1>3. TypeOK /\ SamplesInv => SamplesInOrder
  BY InOrder
<1> QED
  BY <1>1, <1>2, <1>3, PTL DEF Spec

-----------------------------------------------------------------------------

\* Callbacks are registered for attached tracks only and run only where they are
\* registered; the connection is there unless a disconnect or the end took it.
LEMMA HooksInductive ==
    /\ Init => HooksInv
    /\ TypeOK /\ HooksInv /\ [Next]_vars => HooksInv'
<1>1. Init => HooksInv
  BY DEF Init, HooksInv
<1>2. ASSUME TypeOK, HooksInv, [Next]_vars PROVE HooksInv'
  <2>1. CASE Owner
    BY <1>2, <2>1 DEF Owner, List, Disconnect, ReleaseSession, FreeAudio, Attach, FreeTrack,
                      HooksInv, TypeOK
  <2>2. ASSUME NEW t \in Tracks, Callback(t) PROVE HooksInv'
    BY <1>2, <2>2 DEF Callback, Capture, Encode, Return, HooksInv, TypeOK
  <2>3. CASE UNCHANGED vars
    BY <1>2, <2>3 DEF vars, HooksInv
  <2> QED
    BY <1>2, <2>1, <2>2, <2>3 DEF Next
<1> QED
  BY <1>1, <1>2

\* A freed track is out of reach of OBS: no callback is running on it and none
\* can start.
THEOREM FreedIsQuiet == Spec => []QuietOnceFreed
<1>1. Init => TypeOK /\ LessThanAFrameWaits /\ HooksInv
  BY InitType, HooksInductive
<1>2. TypeOK /\ LessThanAFrameWaits /\ HooksInv /\ [Next]_vars
        => (TypeOK /\ LessThanAFrameWaits /\ HooksInv)'
  BY NextType, HooksInductive
<1>3. HooksInv => QuietOnceFreed
  BY DEF HooksInv, QuietOnceFreed
<1> QED
  BY <1>1, <1>2, <1>3, PTL DEF Spec

\* Only a disconnect frees the connection under a callback; releasing the sender
\* does not.
THEOREM ReleaseGivesBackLast == Spec => []LateOnlyByDisconnect
<1> DEFINE Inv == TypeOK /\ LessThanAFrameWaits /\ HooksInv /\ LateOnlyByDisconnect
<1>1. Init => Inv
  BY InitType, HooksInductive DEF Init, LateOnlyByDisconnect
<1>2. ASSUME Inv, [Next]_vars PROVE Inv'
  <2>1. TypeOK' /\ LessThanAFrameWaits' /\ HooksInv'
    BY <1>2, NextType, HooksInductive
  <2>2. ASSUME Owner PROVE LateOnlyByDisconnect'
    <3>1. late' = late
      BY <2>2 DEF Owner, List, Disconnect, ReleaseSession, FreeAudio, Attach, FreeTrack
    <3>2. stage \in {"disconnecting", "disconnected"}
              => stage' \in {"disconnecting", "disconnected"}
      BY <2>2 DEF Owner, List, Disconnect, ReleaseSession, FreeAudio, Attach, FreeTrack
    <3> QED
      BY <1>2, <3>1, <3>2 DEF LateOnlyByDisconnect
  <2>3. ASSUME NEW t \in Tracks, Encode(t) PROVE LateOnlyByDisconnect'
    <3>1. stage' = stage /\ t \in busy
      BY <2>3 DEF Encode
    <3>4. late' => late \/ link = "freed"
      BY <2>3, Zenon DEF Encode
    <3>2. track[t] = "attached"
      BY <1>2, <3>1 DEF HooksInv
    <3>3. link = "freed" => stage \in {"disconnecting", "disconnected"}
      BY <1>2, <3>2 DEF HooksInv, TypeOK
    <3> QED
      BY <1>2, <3>1, <3>3, <3>4 DEF LateOnlyByDisconnect
  <2>4. ASSUME NEW t \in Tracks, Return(t) \/ \E n \in 1 .. MaxBlock : Capture(t, n)
        PROVE LateOnlyByDisconnect'
    BY <1>2, <2>4 DEF Return, Capture, LateOnlyByDisconnect
  <2>5. ASSUME UNCHANGED vars PROVE LateOnlyByDisconnect'
    BY <1>2, <2>5 DEF vars, LateOnlyByDisconnect
  <2>6. LateOnlyByDisconnect'
    BY <1>2, <2>2, <2>3, <2>4, <2>5 DEF Next, Callback
  <2> QED
    BY <2>1, <2>6
<1>3. Inv => LateOnlyByDisconnect
  OBVIOUS
<1> QED
  BY <1>1, <1>2, <1>3, PTL DEF Spec

=============================================================================
