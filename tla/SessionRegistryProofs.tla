------------------------- MODULE SessionRegistryProofs -------------------------
(***************************************************************************)
(* Theorems about the registry of receive sessions and its holders, for    *)
(* every number of tokens, sources and sessions.                           *)
(*                                                                         *)
(* The count of a session is compared with its owners step by step: an     *)
(* owner is an entry of the dialog, the control socket or a source, or a   *)
(* release that some actor is still to make, so that every step that moves *)
(* a reference has to say from which of these to which.                    *)
(***************************************************************************)
EXTENDS SessionRegistry, FiniteSetTheorems, SequenceTheorems, TLAPS

-----------------------------------------------------------------------------
(* The inductive invariant.                                                *)

\* A session that waits to be destroyed does so once: the call comes first in
\* the todo of one actor, and until it is made the address is not used again.
DestroysOnce ==
    /\ \A a \in Actors : \A k \in DOMAIN todo[a] :
          todo[a][k].call = "destroy" => k = 1 /\ life[todo[a][k].of] = "dying"
    /\ \A a, b \in Actors :
          Calling(a, "destroy") /\ Calling(b, "destroy") /\ Of(a) = Of(b) => a = b

\* The sessions of the registry have tokens of their own.
LiveTokens ==
    \A o \in Live : tok[o] \in Tokens /\ \A x \in Live : tok[x] = tok[o] => x = o

\* RefsCounted, and that no session stays that nobody owns.
Counted ==
    \A o \in Objects :
        IF life[o] = "live" THEN refs[o] = Owners(o) /\ refs[o] > 0 ELSE Owners(o) = 0

\* The Qt thread takes a session only for a token of which the dialog has none,
\* and drops one only where it has one.
QtFits(q, d) ==
    \A k \in DOMAIN q :
        /\ q[k].call = "refresh" => k = Len(q)
        /\ q[k].call = "take" => d[q[k].of] = None
        /\ q[k].call = "drop" => d[q[k].of] # None
        /\ \A j \in DOMAIN q :
              j # k /\ q[k].call \in {"take", "drop"} /\ q[j].call \in {"take", "drop"} =>
                  q[j].of # q[k].of

QtInv == QtFits(todo["qt"], dialog)

Getting(s) == IF want[s] = None THEN <<>> ELSE <<Call("get", want[s])>>

\* The stages of attach_session.
Leaving(s, o) ==
    /\ sub[s] = None /\ s \notin failed
    /\ \/ todo[s] = <<Call("unsubscribe", o), Call("release", o)>> \o Getting(s)
       \/ todo[s] = <<Call("release", o)>> \o Getting(s)
       \/ todo[s] = <<Call("destroy", o)>> \o Getting(s)

Asking(s) ==
    sub[s] = None /\ s \notin failed /\ todo[s] = Getting(s)

Refused(s) == sub[s] = None /\ s \in failed /\ todo[s] = <<>>

Joining(s, o) ==
    /\ sub[s] = None /\ s \notin failed /\ want[s] \in Tokens /\ tok[o] = want[s]
    /\ \/ todo[s] = <<Call("know", want[s]), Call("push", o), Call("bump", o), Call("release", o)>>
       \/ todo[s] = <<Call("push", o), Call("bump", o), Call("release", o)>>
       \/ todo[s] = <<Call("bump", o), Call("release", o)>>

Joined(s, o) ==
    /\ sub[s] = o /\ s \notin failed /\ tok[o] = want[s]
    /\ \/ todo[s] = <<Call("release", o)>>
       \/ todo[s] = <<>>

Stage(s) ==
    \/ Asking(s) \/ Refused(s)
    \/ \E o \in Objects : Leaving(s, o) \/ Joining(s, o) \/ Joined(s, o)

\* Whom a source is in the list of.
Subscribed(s, o) ==
    \/ sub[s] = o
    \/ todo[s] # <<>> /\ Head(todo[s]) \in {Call("unsubscribe", o), Call("bump", o)}

SourceFits(s) == Stage(s) /\ \A o \in Objects : s \in subs[o] <=> Subscribed(s, o)

SourceInv == \A s \in Sources : SourceFits(s)

RegistryInv ==
    TypeOK /\ DestroysOnce /\ LiveTokens /\ Counted /\ QtInv /\ SourceInv

-----------------------------------------------------------------------------
(* Counting.                                                               *)

Places(q, c) == {k \in DOMAIN q : q[k] = c}
Count(q, c) == Cardinality(Places(q, c))

LEMMA PlacesFinite ==
    ASSUME NEW S, NEW q \in Seq(S), NEW c
    PROVE  IsFiniteSet(Places(q, c)) /\ Count(q, c) \in Nat
<1>1. Places(q, c) \subseteq 1 .. Len(q) /\ Len(q) \in Int
  BY DEF Places
<1>2. IsFiniteSet(1 .. Len(q))
  BY <1>1, FS_Interval
<1> QED
  BY <1>1, <1>2, FS_Subset, FS_CardinalityType DEF Count

LEMMA CountNone ==
    ASSUME NEW q, NEW c, \A k \in DOMAIN q : q[k] # c
    PROVE  Count(q, c) = 0
<1>1. Places(q, c) = {}
  BY DEF Places
<1> QED
  BY <1>1, FS_EmptySet DEF Count

LEMMA CountOnce ==
    ASSUME NEW q, NEW c, NEW k \in DOMAIN q, q[k] = c,
           \A i \in DOMAIN q : q[i] = c => i = k
    PROVE  Count(q, c) = 1
<1>1. Places(q, c) = {k}
  BY DEF Places
<1> QED
  BY <1>1, FS_Singleton DEF Count

\* A sequence has the occurrences of its parts.
LEMMA CountJoined ==
    ASSUME NEW S, NEW p \in Seq(S), NEW q \in Seq(S), NEW c
    PROVE  Count(p \o q, c) = Count(p, c) + Count(q, c)
<1> DEFINE m == Len(p)
           X == Places(p, c)
           Y == Places(q, c)
           Z == {m + k : k \in Y}
           f == [k \in Y |-> m + k]
<1>1. m \in Nat /\ Len(q) \in Nat /\ DOMAIN p = 1 .. m /\ DOMAIN q = 1 .. Len(q)
  OBVIOUS
<1>2. /\ DOMAIN (p \o q) = 1 .. m + Len(q)
      /\ \A k \in 1 .. m : (p \o q)[k] = p[k]
      /\ \A k \in 1 .. Len(q) : (p \o q)[m + k] = q[k]
  BY <1>1
<1>3. X \subseteq 1 .. m /\ Y \subseteq 1 .. Len(q)
  BY <1>1 DEF Places
<1>4. IsFiniteSet(X) /\ IsFiniteSet(Y) /\ Cardinality(X) \in Nat /\ Cardinality(Y) \in Nat
  BY PlacesFinite DEF Count
<1>5. Places(p \o q, c) = X \cup Z
  <2>1. ASSUME NEW k \in 1 .. m + Len(q), (p \o q)[k] = c
        PROVE  k \in X \cup Z
    <3>1. CASE k \in 1 .. m
      BY <1>1, <1>2, <2>1, <3>1 DEF Places
    <3>2. CASE k \notin 1 .. m
      <4>1. k - m \in 1 .. Len(q) /\ k = m + (k - m)
        BY <1>1, <2>1, <3>2
      <4>2. q[k - m] = c
        BY <1>2, <2>1, <4>1
      <4> QED
        BY <1>1, <4>1, <4>2 DEF Places
    <3> QED
      BY <3>1, <3>2
  <2>2. X \subseteq Places(p \o q, c)
    BY <1>1, <1>2 DEF Places
  <2>3. Z \subseteq Places(p \o q, c)
    <3>1. ASSUME NEW k \in Y
          PROVE  m + k \in Places(p \o q, c)
      <4>1. k \in 1 .. Len(q) /\ q[k] = c
        BY <1>1 DEF Places
      <4>2. m + k \in 1 .. m + Len(q) /\ (p \o q)[m + k] = c
        BY <1>1, <1>2, <4>1
      <4> QED
        BY <1>2, <4>2 DEF Places
    <3> QED
      BY <3>1
  <2> QED
    BY <1>2, <2>1, <2>2, <2>3 DEF Places
<1>6. IsFiniteSet(Z) /\ Cardinality(Z) = Cardinality(Y)
  <2>1. f \in Bijection(Y, Z)
    <3>1. f \in [Y -> Z]
      OBVIOUS
    <3>2. \A i, j \in Y : f[i] = f[j] => i = j
      BY <1>1, <1>3
    <3>3. \A z \in Z : \E k \in Y : f[k] = z
      OBVIOUS
    <3> QED
      BY <3>1, <3>2, <3>3 DEF Bijection, Injection, Surjection, IsInjective
  <2>2. ExistsBijection(Y, Z)
    BY <2>1 DEF ExistsBijection
  <2> QED
    BY <1>4, <2>2, FS_Bijection
<1>7. X \cap Z = {}
  BY <1>1, <1>3
<1>8. Cardinality(X \cap Z) = 0
  BY <1>7, FS_EmptySet
<1>9. Cardinality(X \cup Z) = Cardinality(X) + Cardinality(Z) - Cardinality(X \cap Z)
  BY <1>4, <1>6, FS_Union
<1> QED
  BY <1>4, <1>5, <1>6, <1>8, <1>9 DEF Count

\* The first call of a thread and those after it.
LEMMA CountTail ==
    ASSUME NEW S, NEW q \in Seq(S), q # <<>>, NEW c
    PROVE  Count(q, c) = (IF Head(q) = c THEN 1 ELSE 0) + Count(Tail(q), c)
<1>1. Head(q) \in S /\ Tail(q) \in Seq(S) /\ <<Head(q)>> \in Seq(S)
  OBVIOUS
<1>2. q = <<Head(q)>> \o Tail(q)
  OBVIOUS
<1>3. Count(<<Head(q)>>, c) = IF Head(q) = c THEN 1 ELSE 0
  <2>1. DOMAIN <<Head(q)>> = {1} /\ <<Head(q)>>[1] = Head(q)
    OBVIOUS
  <2>2. CASE Head(q) = c
    BY <2>1, <2>2, CountOnce
  <2>3. CASE Head(q) # c
    BY <2>1, <2>3, CountNone
  <2> QED
    BY <2>2, <2>3
<1>4. Count(<<Head(q)>> \o Tail(q), c) = Count(<<Head(q)>>, c) + Count(Tail(q), c)
  BY <1>1, CountJoined
<1> QED
  BY <1>2, <1>3, <1>4

\* The occurrences in the sequences of a family.
AllPlaces(td, A, c) == UNION {{b} \X Places(td[b], c) : b \in A}

\* Of a family of sequences, the occurrences in one and those in the others.
LEMMA CountOfFamily ==
    ASSUME NEW A, IsFiniteSet(A), NEW S, NEW td, \A b \in A : td[b] \in Seq(S),
           NEW c, NEW a \in A
    PROVE  /\ Cardinality(AllPlaces(td, A \ {a}, c)) \in Nat
           /\ Cardinality(AllPlaces(td, A, c))
                = Cardinality(AllPlaces(td, A \ {a}, c)) + Count(td[a], c)
<1> DEFINE F(b) == {b} \X Places(td[b], c)
           Others == {F(b) : b \in A \ {a}}
           Rest == UNION Others
<1>1. \A b \in A : IsFiniteSet(Places(td[b], c)) /\ Count(td[b], c) \in Nat
  BY PlacesFinite
<1>2. ASSUME NEW b \in A
      PROVE  IsFiniteSet(F(b)) /\ Cardinality(F(b)) = Count(td[b], c)
  <2>1. IsFiniteSet({b}) /\ Cardinality({b}) = 1
    BY FS_Singleton
  <2>2. /\ IsFiniteSet({b} \X Places(td[b], c))
        /\ Cardinality({b} \X Places(td[b], c)) = Cardinality({b}) * Cardinality(Places(td[b], c))
    BY <1>1, <2>1, FS_Product
  <2> QED
    BY <1>1, <2>1, <2>2 DEF Count
<1>3. IsFiniteSet(Others)
  <2>1. IsFiniteSet(A \ {a})
    BY FS_RemoveElement
  <2> DEFINE G == [b \in A \ {a} |-> F(b)]
  <2>2. G \in Surjection(A \ {a}, Others)
    BY DEF Surjection
  <2> QED
    BY <2>1, <2>2, FS_Surjection
<1>4. IsFiniteSet(Rest)
  BY <1>2, <1>3, FS_UNION
<1>5. UNION {F(b) : b \in A} = F(a) \cup Rest
  OBVIOUS
<1>6. F(a) \cap Rest = {}
  OBVIOUS
<1>7. Cardinality(F(a) \cap Rest) = 0 /\ Cardinality(Rest) \in Nat
  BY <1>4, <1>6, FS_EmptySet, FS_CardinalityType
<1>8. Cardinality(F(a) \cup Rest) = Cardinality(F(a)) + Cardinality(Rest) - Cardinality(F(a) \cap Rest)
  BY <1>2, <1>4, FS_Union
<1>9. Cardinality(F(a) \cup Rest) = Cardinality(Rest) + Count(td[a], c)
  <2> HIDE DEF F, Rest
  <2> QED
    BY <1>1, <1>2, <1>7, <1>8
<1> QED
  BY <1>5, <1>7, <1>9 DEF AllPlaces

\* What a function takes to one value.
Fibre(f, A, o) == {b \in A : f[b] = o}

LEMMA FibreChange ==
    ASSUME NEW A, IsFiniteSet(A), NEW f, NEW a \in A, NEW g,
           \A b \in A \ {a} : g[b] = f[b], NEW o
    PROVE  /\ Cardinality(Fibre(f, A, o)) \in Nat /\ Cardinality(Fibre(g, A, o)) \in Nat
           /\ f[a] = o => Cardinality(Fibre(f, A, o)) > 0
           /\ Cardinality(Fibre(g, A, o)) = Cardinality(Fibre(f, A, o))
                - (IF f[a] = o THEN 1 ELSE 0) + (IF g[a] = o THEN 1 ELSE 0)
<1> DEFINE F == Fibre(f, A, o)
           G == Fibre(g, A, o)
           E == Fibre(f, A \ {a}, o)
<1>1. IsFiniteSet(E) /\ Cardinality(E) \in Nat
  <2>1. E \subseteq A
    BY DEF Fibre
  <2> QED
    BY <2>1, FS_Subset, FS_CardinalityType
<1>2. Cardinality(E \cup {a}) = Cardinality(E) + 1
  <2>1. a \notin E
    BY DEF Fibre
  <2> QED
    BY <1>1, <2>1, FS_AddElement
<1>3. F = IF f[a] = o THEN E \cup {a} ELSE E
  BY DEF Fibre
<1>4. G = IF g[a] = o THEN E \cup {a} ELSE E
  BY DEF Fibre
<1>5. Cardinality(F) = Cardinality(E) + IF f[a] = o THEN 1 ELSE 0
  <2> HIDE DEF E, F
  <2> QED
    BY <1>1, <1>2, <1>3
<1>6. Cardinality(G) = Cardinality(E) + IF g[a] = o THEN 1 ELSE 0
  <2> HIDE DEF E, G
  <2> QED
    BY <1>1, <1>2, <1>4
<1> QED
  <2> HIDE DEF E
  <2> QED
    BY <1>1, <1>5, <1>6

-----------------------------------------------------------------------------
(* Calls.                                                                  *)

LEMMA CallIsTyped ==
    ASSUME NEW c \in Calls
    PROVE  /\ c = Call(c.call, c.of)
           /\ c.call \in {"release", "destroy", "unsubscribe", "push", "bump"} => c.of \in Objects
           /\ c.call \in {"get", "know", "take", "drop", "peek", "hold", "forget"} => c.of \in Tokens
BY DEF Calls, Call

LEMMA TypedCalls ==
    /\ \A o \in Objects :
          /\ Call("release", o) \in Calls /\ Call("destroy", o) \in Calls
          /\ Call("unsubscribe", o) \in Calls /\ Call("push", o) \in Calls
          /\ Call("bump", o) \in Calls
    /\ \A t \in Tokens :
          /\ Call("get", t) \in Calls /\ Call("know", t) \in Calls /\ Call("take", t) \in Calls
          /\ Call("drop", t) \in Calls /\ Call("peek", t) \in Calls /\ Call("hold", t) \in Calls
          /\ Call("forget", t) \in Calls
    /\ Call("refresh", None) \in Calls
BY DEF Calls, Call

LEMMA TailPlaces ==
    ASSUME NEW S, NEW q \in Seq(S), q # <<>>
    PROVE  /\ \A k \in DOMAIN Tail(q) : k \in Nat /\ k + 1 \in DOMAIN q /\ Tail(q)[k] = q[k + 1]
           /\ \A k \in DOMAIN q : k # 1 => k - 1 \in DOMAIN Tail(q) /\ q[k] = Tail(q)[k - 1]
<1>1. Len(q) \in Nat /\ Len(q) > 0 /\ DOMAIN q = 1 .. Len(q)
  OBVIOUS
<1>2. Len(Tail(q)) = Len(q) - 1 /\ DOMAIN Tail(q) = 1 .. Len(q) - 1
  BY <1>1
<1>3. \A k \in 1 .. Len(q) - 1 : Tail(q)[k] = q[k + 1]
  BY <1>1
<1> QED
  BY <1>1, <1>2, <1>3

\* The call an actor is at.
LEMMA CallNow ==
    ASSUME TypeOK, NEW a \in Actors, NEW c, Calling(a, c)
    PROVE  /\ todo[a] \in Seq(Calls) /\ todo[a] # <<>> /\ Tail(todo[a]) \in Seq(Calls)
           /\ Head(todo[a]) \in Calls /\ Head(todo[a]) = Call(c, Of(a)) /\ Head(todo[a]) = todo[a][1]
           /\ 1 \in DOMAIN todo[a] /\ todo[a][1].call = c /\ todo[a][1].of = Of(a)
           /\ c \in {"release", "destroy", "unsubscribe", "push", "bump"} => Of(a) \in Objects
           /\ c \in {"get", "know", "take", "drop", "peek", "hold", "forget"} => Of(a) \in Tokens
<1>1. todo[a] \in Seq(Calls) /\ todo[a] # <<>> /\ Head(todo[a]).call = c
  BY DEF TypeOK, Calling, Idle
<1>2. Tail(todo[a]) \in Seq(Calls) /\ Head(todo[a]) \in Calls /\ Head(todo[a]) = todo[a][1]
  BY <1>1
<1>3. 1 \in DOMAIN todo[a]
  BY <1>1
<1>4. Head(todo[a]) = Call(c, Of(a)) /\ todo[a][1].call = c /\ todo[a][1].of = Of(a)
  BY <1>1, <1>2, CallIsTyped DEF Of
<1> QED
  BY <1>1, <1>2, <1>3, <1>4, CallIsTyped DEF Of

\* One call for each element of a set.
LEMMA CallsOfSet ==
    ASSUME NEW S, IsFiniteSet(S), NEW q \in SetToSeqs(S), NEW c,
           \A x \in S : Call(c, x) \in Calls
    PROVE  /\ CallEach(c, q) \in Seq(Calls)
           /\ DOMAIN CallEach(c, q) = DOMAIN q
           /\ \A k \in DOMAIN q : CallEach(c, q)[k] = Call(c, q[k]) /\ q[k] \in S
           /\ \A i, j \in DOMAIN q : q[i] = q[j] => i = j
           /\ \A x \in S : \E k \in DOMAIN q : q[k] = x
<1> DEFINE n == Cardinality(S)
<1>1. n \in Nat
  BY FS_CardinalityType
<1>2. q \in [1 .. n -> S] /\ \A i, j \in 1 .. n : i # j => q[i] # q[j]
  BY DEF SetToSeqs
<1>3. q \in Surjection(1 .. n, S)
  <2>1. q \in Injection(1 .. n, S)
    BY <1>2 DEF Injection, IsInjective
  <2>2. Cardinality(1 .. n) = Cardinality(S)
    BY <1>1, FS_Interval
  <2> QED
    BY <2>1, <2>2, FS_Injection
<1>4. \A x \in S : \E k \in 1 .. n : q[k] = x
  BY <1>3 DEF Surjection
<1>5. CallEach(c, q) \in Seq(Calls)
  <2>1. CallEach(c, q) \in [1 .. n -> Calls]
    BY <1>2 DEF CallEach
  <2> QED
    BY <1>1, <2>1
<1> QED
  BY <1>2, <1>4, <1>5 DEF CallEach

-----------------------------------------------------------------------------
(* Owners.                                                                 *)

DialogCount(o) == Cardinality(Fibre(dialog, Tokens, o))
SubCount(o) == Cardinality(Fibre(sub, Sources, o))
ReleaseCount(o) == Cardinality(AllPlaces(todo, Actors, Call("release", o)))
ReleasesOf(q, o) == Count(q, Call("release", o))

LEMMA OwnersParts ==
    ASSUME NEW o
    PROVE  /\ Owners(o) = held[o] + DialogCount(o) + SubCount(o) + ReleaseCount(o)
           /\ Owners(o)' = held'[o] + DialogCount(o)' + SubCount(o)' + ReleaseCount(o)'
BY DEF Owners, DialogCount, SubCount, ReleaseCount, Fibre, AllPlaces, Releases, Places

LEMMA ActorsFinite ==
    IsFiniteSet(Actors)
<1>1. IsFiniteSet(Sources) /\ IsFiniteSet({"qt"}) /\ IsFiniteSet({"control"})
  BY RegistryAssumption, FS_Singleton
<1>2. IsFiniteSet((Sources \cup {"qt"}) \cup {"control"})
  BY <1>1, FS_Union
<1>3. Actors = (Sources \cup {"qt"}) \cup {"control"}
  BY DEF Actors
<1> QED
  BY <1>2, <1>3

\* The occurrences in the sequences of all actors, one of them set apart.
LEMMA CountOfActors ==
    ASSUME NEW td \in [Actors -> Seq(Calls)], NEW a \in Actors, NEW c
    PROVE  /\ Cardinality(AllPlaces(td, Actors \ {a}, c)) \in Nat
           /\ Cardinality(AllPlaces(td, Actors, c))
                = Cardinality(AllPlaces(td, Actors \ {a}, c)) + Count(td[a], c)
<1>1. \A b \in Actors : td[b] \in Seq(Calls)
  OBVIOUS
<1> QED
  BY ONLY ActorsFinite, a \in Actors, <1>1, CountOfFamily

\* The occurrences in the sequences of all actors, when one of them changes.
LEMMA FamilyChange ==
    ASSUME NEW td \in [Actors -> Seq(Calls)], NEW tq \in [Actors -> Seq(Calls)],
           NEW a \in Actors, \A b \in Actors \ {a} : tq[b] = td[b], NEW c
    PROVE  /\ Cardinality(AllPlaces(td, Actors, c)) \in Nat
           /\ Cardinality(AllPlaces(tq, Actors, c)) \in Nat
           /\ Count(td[a], c) \in Nat
           /\ Count(tq[a], c) \in Nat
           /\ Count(td[a], c) <= Cardinality(AllPlaces(td, Actors, c))
           /\ Cardinality(AllPlaces(tq, Actors, c))
                = Cardinality(AllPlaces(td, Actors, c)) - Count(td[a], c) + Count(tq[a], c)
<1> DEFINE R == AllPlaces(td, Actors \ {a}, c)
           P == AllPlaces(tq, Actors \ {a}, c)
           N == Cardinality(AllPlaces(td, Actors, c))
           M == Cardinality(AllPlaces(tq, Actors, c))
<1>1. Cardinality(R) \in Nat /\ N = Cardinality(R) + Count(td[a], c)
  BY CountOfActors
<1>2. Cardinality(P) \in Nat /\ M = Cardinality(P) + Count(tq[a], c)
  BY CountOfActors
<1>3. P = R
  BY DEF AllPlaces
<1>4. Count(td[a], c) \in Nat /\ Count(tq[a], c) \in Nat
  BY PlacesFinite
<1>5. /\ N \in Nat /\ M \in Nat /\ Count(td[a], c) \in Nat /\ Count(tq[a], c) \in Nat
      /\ Count(td[a], c) <= N
      /\ M = N - Count(td[a], c) + Count(tq[a], c)
  <2> HIDE DEF N, M, R, P
  <2> QED
    BY <1>1, <1>2, <1>3, <1>4
<1> QED
  BY <1>5

\* What a step of one actor does to the releases still to be made.
LEMMA ReleasesStep ==
    ASSUME TypeOK, NEW a \in Actors, NEW q \in Seq(Calls), todo' = [todo EXCEPT ![a] = q], NEW o
    PROVE  /\ ReleaseCount(o) \in Nat /\ ReleaseCount(o)' \in Nat
           /\ ReleasesOf(todo[a], o) \in Nat /\ ReleasesOf(q, o) \in Nat
           /\ ReleasesOf(todo[a], o) <= ReleaseCount(o)
           /\ ReleaseCount(o)' = ReleaseCount(o) - ReleasesOf(todo[a], o) + ReleasesOf(q, o)
<1>1. todo \in [Actors -> Seq(Calls)]
  BY DEF TypeOK
<1>2. todo' \in [Actors -> Seq(Calls)] /\ todo'[a] = q /\ \A b \in Actors \ {a} : todo'[b] = todo[b]
  BY <1>1
<1>3. /\ Cardinality(AllPlaces(todo, Actors, Call("release", o))) \in Nat
      /\ Cardinality(AllPlaces(todo', Actors, Call("release", o))) \in Nat
      /\ Count(todo[a], Call("release", o)) \in Nat
      /\ Count(todo'[a], Call("release", o)) \in Nat
      /\ Count(todo[a], Call("release", o)) <= Cardinality(AllPlaces(todo, Actors, Call("release", o)))
      /\ Cardinality(AllPlaces(todo', Actors, Call("release", o)))
           = Cardinality(AllPlaces(todo, Actors, Call("release", o)))
               - Count(todo[a], Call("release", o)) + Count(todo'[a], Call("release", o))
  <2>1. \A b \in Actors \ {a} : todo'[b] = todo[b]
    BY <1>2
  <2>2. todo' \in [Actors -> Seq(Calls)]
    BY <1>2
  <2> QED
    BY ONLY <1>1, <2>1, <2>2, a \in Actors, FamilyChange, ZenonT(60)
<1>4. ReleaseCount(o)' = Cardinality(AllPlaces(todo', Actors, Call("release", o)))
  BY DEF ReleaseCount, AllPlaces, Call
<1>5. ReleaseCount(o) = Cardinality(AllPlaces(todo, Actors, Call("release", o)))
  BY DEF ReleaseCount
<1>6. /\ Count(todo[a], Call("release", o)) = ReleasesOf(todo[a], o)
      /\ Count(todo'[a], Call("release", o)) = ReleasesOf(q, o)
  BY <1>2 DEF ReleasesOf
<1> QED
  BY ONLY <1>3, <1>4, <1>5, <1>6

LEMMA DialogStep ==
    ASSUME TypeOK, NEW t \in Tokens, NEW x, dialog' = [dialog EXCEPT ![t] = x], NEW o
    PROVE  /\ DialogCount(o) \in Nat /\ DialogCount(o)' \in Nat
           /\ dialog[t] = o => DialogCount(o) > 0
           /\ DialogCount(o)' = DialogCount(o) - (IF dialog[t] = o THEN 1 ELSE 0)
                                               + (IF x = o THEN 1 ELSE 0)
<1>1. /\ IsFiniteSet(Tokens) /\ dialog'[t] = x
      /\ \A b \in Tokens \ {t} : dialog'[b] = dialog[b]
  BY RegistryAssumption DEF TypeOK
<1>2. DialogCount(o)' = Cardinality(Fibre(dialog', Tokens, o))
  BY DEF DialogCount, Fibre
<1>3. DialogCount(o) = Cardinality(Fibre(dialog, Tokens, o))
  BY DEF DialogCount
<1>4. /\ Cardinality(Fibre(dialog, Tokens, o)) \in Nat /\ Cardinality(Fibre(dialog', Tokens, o)) \in Nat
      /\ dialog[t] = o => Cardinality(Fibre(dialog, Tokens, o)) > 0
      /\ Cardinality(Fibre(dialog', Tokens, o)) = Cardinality(Fibre(dialog, Tokens, o))
           - (IF dialog[t] = o THEN 1 ELSE 0) + (IF dialog'[t] = o THEN 1 ELSE 0)
  BY ONLY t \in Tokens, <1>1, FibreChange, SMTT(60)
<1> QED
  BY ONLY <1>1, <1>2, <1>3, <1>4

LEMMA SubStep ==
    ASSUME TypeOK, NEW s \in Sources, NEW x, sub' = [sub EXCEPT ![s] = x], NEW o
    PROVE  /\ SubCount(o) \in Nat /\ SubCount(o)' \in Nat
           /\ sub[s] = o => SubCount(o) > 0
           /\ SubCount(o)' = SubCount(o) - (IF sub[s] = o THEN 1 ELSE 0)
                                         + (IF x = o THEN 1 ELSE 0)
<1>1. /\ IsFiniteSet(Sources) /\ sub'[s] = x
      /\ \A b \in Sources \ {s} : sub'[b] = sub[b]
  BY RegistryAssumption DEF TypeOK
<1>2. SubCount(o)' = Cardinality(Fibre(sub', Sources, o))
  BY DEF SubCount, Fibre
<1>3. SubCount(o) = Cardinality(Fibre(sub, Sources, o))
  BY DEF SubCount
<1>4. /\ Cardinality(Fibre(sub, Sources, o)) \in Nat /\ Cardinality(Fibre(sub', Sources, o)) \in Nat
      /\ sub[s] = o => Cardinality(Fibre(sub, Sources, o)) > 0
      /\ Cardinality(Fibre(sub', Sources, o)) = Cardinality(Fibre(sub, Sources, o))
           - (IF sub[s] = o THEN 1 ELSE 0) + (IF sub'[s] = o THEN 1 ELSE 0)
  BY ONLY s \in Sources, <1>1, FibreChange, SMTT(60)
<1> QED
  BY ONLY <1>1, <1>2, <1>3, <1>4

LEMMA CountsAreTyped ==
    ASSUME TypeOK, NEW o
    PROVE  DialogCount(o) \in Nat /\ SubCount(o) \in Nat /\ ReleaseCount(o) \in Nat
<1>1. DialogCount(o) \in Nat
  BY RegistryAssumption, FS_Subset, FS_CardinalityType DEF DialogCount, Fibre
<1>2. SubCount(o) \in Nat
  BY RegistryAssumption, FS_Subset, FS_CardinalityType DEF SubCount, Fibre
<1>3. ReleaseCount(o) \in Nat
  <2>1. todo \in [Actors -> Seq(Calls)] /\ "qt" \in Actors
    BY DEF TypeOK, Actors
  <2>2. \A b \in Actors : todo[b] \in Seq(Calls)
    BY <2>1
  <2> QED
    BY <2>1, <2>2, ActorsFinite, FamilyChange DEF ReleaseCount
<1> QED
  BY <1>1, <1>2, <1>3

\* Who has a reference to a session has it to a live one.
LEMMA OwnedIsLive ==
    ASSUME TypeOK, Counted, NEW o \in Objects,
           \/ held[o] > 0
           \/ \E t \in Tokens : dialog[t] = o
           \/ \E s \in Sources : sub[s] = o
           \/ \E a \in Actors : \E k \in DOMAIN todo[a] : todo[a][k] = Call("release", o)
    PROVE  life[o] = "live" /\ refs[o] = Owners(o) /\ refs[o] > 0 /\ o \in Live
<1>1. held[o] \in Nat /\ DialogCount(o) \in Nat /\ SubCount(o) \in Nat /\ ReleaseCount(o) \in Nat
  BY CountsAreTyped DEF TypeOK
<1>2. DialogCount(o) > 0 \/ \A t \in Tokens : dialog[t] # o
  BY <1>1, RegistryAssumption, FS_Subset, FS_EmptySet DEF DialogCount, Fibre
<1>3. SubCount(o) > 0 \/ \A s \in Sources : sub[s] # o
  BY <1>1, RegistryAssumption, FS_Subset, FS_EmptySet DEF SubCount, Fibre
<1>4. ASSUME NEW a \in Actors, NEW k \in DOMAIN todo[a], todo[a][k] = Call("release", o)
      PROVE  ReleaseCount(o) > 0
  <2>1. todo \in [Actors -> Seq(Calls)] /\ todo[a] \in Seq(Calls)
    BY DEF TypeOK
  <2>2. Count(todo[a], Call("release", o)) \in Nat /\ IsFiniteSet(Places(todo[a], Call("release", o)))
    BY <2>1, PlacesFinite
  <2>3. Places(todo[a], Call("release", o)) # {}
    BY <1>4 DEF Places
  <2>4. Count(todo[a], Call("release", o)) # 0
    BY <2>2, <2>3, FS_EmptySet DEF Count
  <2>5. Count(todo[a], Call("release", o)) <= ReleaseCount(o)
    BY <2>1, ActorsFinite, FamilyChange DEF ReleaseCount
  <2> QED
    BY <1>1, <2>2, <2>4, <2>5
<1>5. Owners(o) > 0
  BY <1>1, <1>2, <1>3, <1>4, OwnersParts
<1>6. life[o] = "live"
  BY <1>1, <1>5 DEF Counted
<1> QED
  BY <1>5, <1>6 DEF Counted, Live

\* The same, for whoever has the reference.
LEMMA OwnedAreLive ==
    TypeOK /\ Counted =>
        /\ \A o \in Objects : held[o] > 0 => o \in Live /\ refs[o] > 0
        /\ \A t \in Tokens : dialog[t] # None => dialog[t] \in Live /\ refs[dialog[t]] > 0
        /\ \A s \in Sources : sub[s] # None => sub[s] \in Live /\ refs[sub[s]] > 0
        /\ \A a \in Actors : \A k \in DOMAIN todo[a] :
              todo[a][k].call = "release" =>
                  todo[a][k].of \in Live /\ refs[todo[a][k].of] > 0
<1> SUFFICES ASSUME TypeOK, Counted
             PROVE  /\ \A o \in Objects : held[o] > 0 => o \in Live /\ refs[o] > 0
                    /\ \A t \in Tokens :
                          dialog[t] # None => dialog[t] \in Live /\ refs[dialog[t]] > 0
                    /\ \A s \in Sources : sub[s] # None => sub[s] \in Live /\ refs[sub[s]] > 0
                    /\ \A a \in Actors : \A k \in DOMAIN todo[a] :
                          todo[a][k].call = "release" =>
                              todo[a][k].of \in Live /\ refs[todo[a][k].of] > 0
  OBVIOUS
<1>1. ASSUME NEW o \in Objects, held[o] > 0
      PROVE  o \in Live /\ refs[o] > 0
  BY <1>1, OwnedIsLive
<1>2. ASSUME NEW t \in Tokens, dialog[t] # None
      PROVE  dialog[t] \in Live /\ refs[dialog[t]] > 0
  <2>1. dialog[t] \in Objects /\ \E x \in Tokens : dialog[x] = dialog[t]
    BY <1>2 DEF TypeOK
  <2> QED
    BY <2>1, OwnedIsLive
<1>3. ASSUME NEW s \in Sources, sub[s] # None
      PROVE  sub[s] \in Live /\ refs[sub[s]] > 0
  <2>1. sub[s] \in Objects /\ \E x \in Sources : sub[x] = sub[s]
    BY <1>3 DEF TypeOK
  <2> QED
    BY <2>1, OwnedIsLive
<1>4. ASSUME NEW a \in Actors, NEW k \in DOMAIN todo[a], todo[a][k].call = "release"
      PROVE  todo[a][k].of \in Live /\ refs[todo[a][k].of] > 0
  <2>1. todo[a] \in Seq(Calls)
    BY DEF TypeOK
  <2>2. todo[a][k] \in Calls
    BY <2>1
  <2>3. todo[a][k].of \in Objects /\ todo[a][k] = Call("release", todo[a][k].of)
    BY <1>4, <2>2, CallIsTyped
  <2>4. \E b \in Actors : \E j \in DOMAIN todo[b] : todo[b][j] = Call("release", todo[a][k].of)
    BY <2>3
  <2> QED
    BY <2>3, <2>4, OwnedIsLive
<1> QED
  BY <1>1, <1>2, <1>3, <1>4

-----------------------------------------------------------------------------
(* Types.                                                                  *)

LEMMA LiveIsFinite ==
    IsFiniteSet(Live)
BY RegistryAssumption, FS_Subset DEF Live

LEMMA GetIsTyped ==
    ASSUME TypeOK, NEW t \in Tokens, NEW o, Get(t, o)
    PROVE  /\ life' \in [Objects -> {"free", "live", "dying"}]
           /\ tok' \in [Objects -> Tokens \cup {None}]
           /\ refs' \in [Objects -> Nat] /\ subs' = subs /\ o \in Objects \cup {None}
<1>1. CASE o \in LiveOf(t) /\ refs' = [refs EXCEPT ![o] = @ + 1] /\ UNCHANGED <<life, tok>>
  <2>1. o \in Objects /\ refs[o] + 1 \in Nat
    BY <1>1 DEF TypeOK, LiveOf, Live
  <2> QED
    BY <1>1, <2>1 DEF TypeOK, Get
<1>2. CASE o = None /\ UNCHANGED <<life, tok, refs>>
  BY <1>2 DEF TypeOK, Get
<1>3. CASE /\ Fresh(o) /\ life' = [life EXCEPT ![o] = "live"] /\ tok' = [tok EXCEPT ![o] = t]
           /\ refs' = [refs EXCEPT ![o] = 1]
  BY <1>3 DEF TypeOK, Get, Fresh
<1> QED
  BY <1>1, <1>2, <1>3 DEF Get

\* refs[o] is above zero: RegistryInv says so of every session that is owned.
LEMMA ReleaseIsTyped ==
    ASSUME TypeOK, NEW a \in Actors, NEW o \in Objects, NEW q \in Seq(Calls),
           refs[o] > 0, Release(a, o, q)
    PROVE  /\ life' \in [Objects -> {"free", "live", "dying"}]
           /\ refs' \in [Objects -> Nat] /\ tok' = tok /\ subs' = subs
           /\ todo' \in [Actors -> Seq(Calls)]
<1>1. <<Call("destroy", o)>> \o q \in Seq(Calls)
  BY TypedCalls
<1>2. todo' = [todo EXCEPT ![a] = <<Call("destroy", o)>> \o q] \/ todo' = [todo EXCEPT ![a] = q]
  BY DEF Release
<1>3. todo' \in [Actors -> Seq(Calls)]
  BY <1>1, <1>2 DEF TypeOK
<1>4. refs' = [refs EXCEPT ![o] = refs[o] - 1]
  BY DEF Release
<1>5. refs[o] - 1 \in Nat
  BY DEF TypeOK
<1> QED
  BY <1>3, <1>4, <1>5 DEF TypeOK, Release

-----------------------------------------------------------------------------
(* What a step does to the owners of a session.                            *)

LEMMA OwnersStep ==
    ASSUME TypeOK, NEW a \in Actors, NEW q \in Seq(Calls), todo' = [todo EXCEPT ![a] = q],
           NEW o \in Objects, held'[o] \in Nat, DialogCount(o)' \in Nat, SubCount(o)' \in Nat
    PROVE  /\ Owners(o) \in Nat
           /\ Owners(o)' = Owners(o) + (held'[o] - held[o])
                + (DialogCount(o)' - DialogCount(o)) + (SubCount(o)' - SubCount(o))
                + (ReleasesOf(q, o) - ReleasesOf(todo[a], o))
<1>1. held[o] \in Nat /\ DialogCount(o) \in Nat /\ SubCount(o) \in Nat
  BY CountsAreTyped DEF TypeOK
<1>2. /\ ReleaseCount(o) \in Nat
      /\ ReleasesOf(todo[a], o) \in Nat /\ ReleasesOf(q, o) \in Nat
      /\ ReleaseCount(o)' = ReleaseCount(o) - ReleasesOf(todo[a], o) + ReleasesOf(q, o)
  BY ReleasesStep
<1>3. /\ Owners(o) = held[o] + DialogCount(o) + SubCount(o) + ReleaseCount(o)
      /\ Owners(o)' = held'[o] + DialogCount(o)' + SubCount(o)' + ReleaseCount(o)'
  BY OwnersParts
<1>4. held'[o] \in Nat /\ DialogCount(o)' \in Nat /\ SubCount(o)' \in Nat
  OBVIOUS
<1> DEFINE h == held[o]  d == DialogCount(o)  u == SubCount(o)  r == ReleaseCount(o)
           hh == held'[o]  dd == DialogCount(o)'  uu == SubCount(o)'
           was == ReleasesOf(todo[a], o)  is == ReleasesOf(q, o)
<1>5. /\ h \in Nat /\ d \in Nat /\ u \in Nat /\ r \in Nat
      /\ hh \in Nat /\ dd \in Nat /\ uu \in Nat /\ was \in Nat /\ is \in Nat
  BY <1>1, <1>2, <1>4
<1>6. Owners(o) = h + d + u + r /\ Owners(o)' = hh + dd + uu + (r - was + is)
  BY <1>2, <1>3
<1> HIDE DEF h, d, u, r, hh, dd, uu, was, is
<1>7. h + d + u + r \in Nat
  BY ONLY <1>5
<1>8. hh + dd + uu + (r - was + is)
        = (h + d + u + r) + (hh - h) + (dd - d) + (uu - u) + (is - was)
  BY ONLY <1>5
<1> QED
  BY <1>6, <1>7, <1>8 DEF h, d, u, r, hh, dd, uu, was, is

LEMMA OwnersIfOnlyTodo ==
    ASSUME TypeOK, NEW a \in Actors, NEW q \in Seq(Calls), todo' = [todo EXCEPT ![a] = q],
           NEW o \in Objects, UNCHANGED <<held, dialog, sub>>
    PROVE  /\ Owners(o) \in Nat /\ ReleasesOf(q, o) \in Nat /\ ReleasesOf(todo[a], o) \in Nat
           /\ Owners(o)' = Owners(o) + ReleasesOf(q, o) - ReleasesOf(todo[a], o)
<1>1. /\ held[o] \in Nat /\ held'[o] = held[o]
      /\ DialogCount(o) \in Nat /\ DialogCount(o)' = DialogCount(o)
      /\ SubCount(o) \in Nat /\ SubCount(o)' = SubCount(o)
  BY CountsAreTyped DEF TypeOK, DialogCount, SubCount, Fibre
<1>2. held'[o] \in Nat /\ DialogCount(o)' \in Nat /\ SubCount(o)' \in Nat
  BY <1>1
<1>3. /\ Owners(o) \in Nat
      /\ Owners(o)' = Owners(o) + (held'[o] - held[o])
           + (DialogCount(o)' - DialogCount(o)) + (SubCount(o)' - SubCount(o))
           + (ReleasesOf(q, o) - ReleasesOf(todo[a], o))
  BY <1>2, OwnersStep
<1>4. ReleasesOf(q, o) \in Nat /\ ReleasesOf(todo[a], o) \in Nat
  BY ReleasesStep
<1> QED
  BY ONLY <1>1, <1>3, <1>4

\* A sequence whose other calls are no releases.
LEMMA OneRelease ==
    ASSUME NEW q, NEW k \in DOMAIN q, NEW y, q[k] = Call("release", y),
           \A i \in DOMAIN q : q[i].call = "release" => i = k, NEW x
    PROVE  ReleasesOf(q, x) = IF x = y THEN 1 ELSE 0
<1>1. \A i \in DOMAIN q : q[i] = Call("release", x) => i = k
  BY DEF Call
<1>2. CASE x = y
  <2>1. q[k] = Call("release", x)
    BY <1>2
  <2> QED
    BY <1>1, <1>2, <2>1, CountOnce DEF ReleasesOf
<1>3. CASE x # y
  <2>1. q[k] # Call("release", x)
    BY <1>3 DEF Call
  <2>2. \A i \in DOMAIN q : q[i] # Call("release", x)
    BY <1>1, <2>1
  <2> QED
    BY <1>3, <2>2, CountNone DEF ReleasesOf
<1> QED
  BY <1>2, <1>3

\* The releases in the sequences of calls that the actions make.
LEMMA ListedReleases ==
    ASSUME NEW x \in Objects
    PROVE  /\ ReleasesOf(<<>>, x) = 0
           /\ \A y, c : c # "release" => ReleasesOf(<<Call(c, y)>>, x) = 0
           /\ \A y : ReleasesOf(<<Call("release", y)>>, x) = IF x = y THEN 1 ELSE 0
           /\ \A y : ReleasesOf(<<Call("unsubscribe", y), Call("release", y)>>, x)
                       = IF x = y THEN 1 ELSE 0
           /\ \A t, y : ReleasesOf(<<Call("know", t), Call("push", y), Call("bump", y),
                                     Call("release", y)>>, x) = IF x = y THEN 1 ELSE 0
<1>1. ReleasesOf(<<>>, x) = 0
  BY CountNone DEF ReleasesOf
<1>2. ASSUME NEW y, NEW c, c # "release"
      PROVE  ReleasesOf(<<Call(c, y)>>, x) = 0
  <2>1. \A k \in DOMAIN <<Call(c, y)>> : <<Call(c, y)>>[k] # Call("release", x)
    BY <1>2 DEF Call
  <2> QED
    BY <2>1, CountNone DEF ReleasesOf
<1>3. ASSUME NEW y
      PROVE  ReleasesOf(<<Call("release", y)>>, x) = IF x = y THEN 1 ELSE 0
  <2> DEFINE q == <<Call("release", y)>>
  <2>1. DOMAIN q = {1} /\ q[1] = Call("release", y)
    OBVIOUS
  <2> HIDE DEF q
  <2>2. ReleasesOf(q, x) = IF x = y THEN 1 ELSE 0
    BY <2>1, OneRelease
  <2> QED
    BY <2>2 DEF q
<1>4. ASSUME NEW y
      PROVE  ReleasesOf(<<Call("unsubscribe", y), Call("release", y)>>, x)
               = IF x = y THEN 1 ELSE 0
  <2> DEFINE q == <<Call("unsubscribe", y), Call("release", y)>>
  <2>1. DOMAIN q = {1, 2} /\ q[1].call = "unsubscribe" /\ q[2] = Call("release", y)
    BY DEF Call
  <2> HIDE DEF q
  <2>2. ReleasesOf(q, x) = IF x = y THEN 1 ELSE 0
    BY <2>1, OneRelease
  <2> QED
    BY <2>2 DEF q
<1>5. ASSUME NEW t, NEW y
      PROVE  ReleasesOf(<<Call("know", t), Call("push", y), Call("bump", y),
                          Call("release", y)>>, x) = IF x = y THEN 1 ELSE 0
  <2> DEFINE q == <<Call("know", t), Call("push", y), Call("bump", y), Call("release", y)>>
  <2>1. /\ DOMAIN q = {1, 2, 3, 4} /\ q[1].call = "know" /\ q[2].call = "push"
        /\ q[3].call = "bump" /\ q[4] = Call("release", y)
    BY DEF Call
  <2> HIDE DEF q
  <2>2. ReleasesOf(q, x) = IF x = y THEN 1 ELSE 0
    BY <2>1, OneRelease
  <2> QED
    BY <2>2 DEF q
<1> QED
  BY <1>1, <1>2, <1>3, <1>4, <1>5

-----------------------------------------------------------------------------
(* The count of a session and its owners.                                  *)

LEMMA GetCounts ==
    ASSUME TypeOK, Counted, NEW t \in Tokens, NEW o, Get(t, o),
           \A x \in Objects : Owners(x) \in Nat /\ Owners(x)' = Owners(x) + IF x = o THEN 1 ELSE 0
    PROVE  Counted'
<1> SUFFICES ASSUME NEW x \in Objects
             PROVE  IF life'[x] = "live" THEN refs'[x] = Owners(x)' /\ refs'[x] > 0 ELSE Owners(x)' = 0
  BY DEF Counted
<1>1. /\ Owners(x) \in Nat /\ Owners(x)' = Owners(x) + IF x = o THEN 1 ELSE 0
      /\ refs[x] \in Nat
      /\ IF life[x] = "live" THEN refs[x] = Owners(x) /\ refs[x] > 0 ELSE Owners(x) = 0
  BY DEF Counted, TypeOK
<1>2. CASE o \in LiveOf(t) /\ refs' = [refs EXCEPT ![o] = @ + 1] /\ UNCHANGED <<life, tok>>
  <2>1. life[o] = "live" /\ life' = life
    BY <1>2 DEF LiveOf, Live
  <2>2. refs'[x] = IF x = o THEN refs[x] + 1 ELSE refs[x]
    BY <1>2 DEF TypeOK
  <2> QED
    BY <1>1, <2>1, <2>2
<1>3. CASE o = None /\ UNCHANGED <<life, tok, refs>>
  <2>1. x # o
    BY <1>3, RegistryAssumption
  <2> QED
    BY <1>1, <1>3, <2>1
<1>4. CASE /\ Fresh(o) /\ life' = [life EXCEPT ![o] = "live"] /\ tok' = [tok EXCEPT ![o] = t]
           /\ refs' = [refs EXCEPT ![o] = 1]
  <2>1. life[o] = "free" /\ life'[x] = IF x = o THEN "live" ELSE life[x]
    BY <1>4 DEF Fresh, TypeOK
  <2>2. refs'[x] = IF x = o THEN 1 ELSE refs[x]
    BY <1>4 DEF TypeOK
  <2> QED
    BY <1>1, <2>1, <2>2
<1> QED
  BY <1>2, <1>3, <1>4 DEF Get

LEMMA ReleaseCounts ==
    ASSUME TypeOK, Counted, NEW a \in Actors, NEW o \in Objects, NEW q, Release(a, o, q),
           life[o] = "live",
           \A x \in Objects : Owners(x) \in Nat /\ Owners(x)' = Owners(x) - IF x = o THEN 1 ELSE 0
    PROVE  Counted'
<1> SUFFICES ASSUME NEW x \in Objects
             PROVE  IF life'[x] = "live" THEN refs'[x] = Owners(x)' /\ refs'[x] > 0 ELSE Owners(x)' = 0
  BY DEF Counted
<1>1. /\ Owners(x) \in Nat /\ Owners(x)' = Owners(x) - IF x = o THEN 1 ELSE 0
      /\ refs[x] \in Nat
      /\ IF life[x] = "live" THEN refs[x] = Owners(x) /\ refs[x] > 0 ELSE Owners(x) = 0
  BY DEF Counted, TypeOK
<1>2. refs'[x] = IF x = o THEN refs[x] - 1 ELSE refs[x]
  BY DEF Release, TypeOK
<1>3. life'[x] = IF x = o /\ refs[o] <= 1 THEN "dying" ELSE life[x]
  BY DEF Release, TypeOK
<1> QED
  BY <1>1, <1>2, <1>3

\* A step that leaves the registry and the owners as they are.
LEMMA SameCounts ==
    ASSUME Counted, UNCHANGED refs,
           \A x \in Objects : life[x] = "live" <=> life'[x] = "live",
           \A x \in Objects : Owners(x)' = Owners(x)
    PROVE  Counted'
BY DEF Counted

\* What the actions put in an actor's todo is a sequence of calls.
LEMMA ThenIsTyped ==
    ASSUME TypeOK, NEW a \in Actors, NEW c, Calling(a, c), NEW calls \in Seq(Calls),
           Then(a, calls) \/ (calls = <<>> /\ Proceed(a))
    PROVE  /\ todo' = [todo EXCEPT ![a] = calls \o Tail(todo[a])]
           /\ calls \o Tail(todo[a]) \in Seq(Calls)
           /\ todo' \in [Actors -> Seq(Calls)]
<1>1. todo[a] \in Seq(Calls) /\ Tail(todo[a]) \in Seq(Calls)
  BY CallNow
<1>2. calls \o Tail(todo[a]) \in Seq(Calls)
  BY <1>1
<1>3. calls = <<>> => calls \o Tail(todo[a]) = Tail(todo[a])
  BY <1>1
<1>4. todo' = [todo EXCEPT ![a] = calls \o Tail(todo[a])]
  BY <1>1, <1>3 DEF Then, Proceed, TypeOK
<1> QED
  BY <1>2, <1>4 DEF TypeOK

LEMMA StartIsTyped ==
    ASSUME TypeOK, NEW a \in Actors, NEW calls \in Seq(Calls), Start(a, calls)
    PROVE  /\ todo[a] = <<>> /\ todo' = [todo EXCEPT ![a] = calls]
           /\ todo' \in [Actors -> Seq(Calls)]
BY DEF TypeOK, Start, Idle

LEMMA ActorsAre ==
    "qt" \in Actors /\ "control" \in Actors /\ Sources \subseteq Actors
BY DEF Actors

\* What the owned sessions are, as the actions need it.
LEMMA OwnedNow ==
    ASSUME RegistryInv
    PROVE  /\ \A a \in Actors : Calling(a, "release") => Of(a) \in Live /\ refs[Of(a)] > 0
           /\ Calling("qt", "drop") => dialog[Of("qt")] \in Live /\ refs[dialog[Of("qt")]] > 0
           /\ \A o \in Objects : held[o] > 0 => o \in Live /\ refs[o] > 0
           /\ Calling("qt", "take") => dialog[Of("qt")] = None
<1> USE DEF RegistryInv
<1>1. ASSUME NEW a \in Actors, Calling(a, "release")
      PROVE  Of(a) \in Live /\ refs[Of(a)] > 0
  <2>1. 1 \in DOMAIN todo[a] /\ todo[a][1].call = "release" /\ todo[a][1].of = Of(a)
    BY <1>1, CallNow
  <2> QED
    BY <2>1, OwnedAreLive
<1>2. ASSUME NEW c \in {"take", "drop"}, Calling("qt", c)
      PROVE  /\ Of("qt") \in Tokens
             /\ c = "take" => dialog[Of("qt")] = None
             /\ c = "drop" => dialog[Of("qt")] # None
  <2>1. /\ Of("qt") \in Tokens /\ 1 \in DOMAIN todo["qt"] /\ todo["qt"][1].call = c
        /\ todo["qt"][1].of = Of("qt")
    BY <1>2, CallNow, ActorsAre
  <2> QED
    BY <2>1 DEF QtInv, QtFits
<1>3. ASSUME Calling("qt", "drop")
      PROVE  dialog[Of("qt")] \in Live /\ refs[dialog[Of("qt")]] > 0
  BY <1>2, <1>3, OwnedAreLive
<1> QED
  BY <1>1, <1>2, <1>3, OwnedAreLive

-----------------------------------------------------------------------------
(* Every step keeps the types.                                             *)

LEMMA TypeInit ==
    Init => TypeOK
<1> SUFFICES ASSUME Init
             PROVE  TypeOK
  OBVIOUS
<1>1. <<>> \in Seq(Calls)
  OBVIOUS
<1>2. todo \in [Actors -> Seq(Calls)]
  BY <1>1 DEF Init
<1> QED
  BY <1>2 DEF Init, TypeOK

\* The two calls that every actor makes.
LEMMA TypeRelease ==
    ASSUME RegistryInv, NEW a \in Actors, CallRelease(a) \/ CallDestroy(a)
    PROVE  TypeOK'
<1> USE DEF RegistryInv
<1>1. CASE CallRelease(a)
  <2>1. /\ Calling(a, "release") /\ Release(a, Of(a), Tail(todo[a]))
        /\ Of(a) \in Objects /\ refs[Of(a)] > 0 /\ Tail(todo[a]) \in Seq(Calls)
    BY <1>1, CallNow, OwnedNow DEF CallRelease
  <2>2. /\ life' \in [Objects -> {"free", "live", "dying"}]
        /\ refs' \in [Objects -> Nat] /\ tok' = tok /\ subs' = subs
        /\ todo' \in [Actors -> Seq(Calls)]
    BY <2>1, ReleaseIsTyped
  <2> QED
    BY <1>1, <2>2 DEF CallRelease, TypeOK, holderVars
<1>2. CASE CallDestroy(a)
  <2>1. Calling(a, "destroy") /\ Proceed(a) /\ <<>> \in Seq(Calls)
    BY <1>2 DEF CallDestroy
  <2>2. todo' \in [Actors -> Seq(Calls)]
    BY <2>1, ThenIsTyped
  <2>3. subs' \in [Objects -> SUBSET Sources] /\ tok' \in [Objects -> Tokens \cup {None}]
    BY <1>2 DEF CallDestroy, TypeOK
  <2> QED
    BY <1>2, <2>2, <2>3 DEF CallDestroy, TypeOK, holderVars
<1> QED
  BY <1>1, <1>2

LEMMA TypeSource ==
    ASSUME RegistryInv, NEW s \in Sources, Source(s)
    PROVE  TypeOK'
<1> USE DEF RegistryInv
<1>1. s \in Actors /\ <<>> \in Seq(Calls)
  BY ActorsAre
<1>2. ASSUME Proceed(s), NEW c, Calling(s, c)
      PROVE  todo' \in [Actors -> Seq(Calls)]
  BY <1>1, <1>2, ThenIsTyped
<1>3. CASE CallUnsubscribe(s)
  <2>1. todo' \in [Actors -> Seq(Calls)]
    BY <1>2, <1>3 DEF CallUnsubscribe
  <2> QED
    BY <1>3, <2>1 DEF CallUnsubscribe, TypeOK, holderVars
<1>4. CASE CallGet(s)
  <2>1. PICK o \in Objects \cup {None} :
            /\ Get(Of(s), o)
            /\ Then(s, IF o = None THEN <<>>
                       ELSE <<Call("know", Of(s)), Call("push", o), Call("bump", o),
                              Call("release", o)>>)
            /\ failed' = IF o = None THEN failed \cup {s} ELSE failed
    BY <1>4 DEF CallGet
  <2>2. Calling(s, "get") /\ Of(s) \in Tokens
    BY <1>1, <1>4, CallNow DEF CallGet
  <2>3. (IF o = None THEN <<>> ELSE <<Call("know", Of(s)), Call("push", o), Call("bump", o),
                                      Call("release", o)>>) \in Seq(Calls)
    BY <2>2, TypedCalls
  <2>4. todo' \in [Actors -> Seq(Calls)]
    BY <1>1, <2>1, <2>2, <2>3, ThenIsTyped
  <2>5. failed' \subseteq Sources
    BY <2>1 DEF TypeOK
  <2>6. /\ life' \in [Objects -> {"free", "live", "dying"}]
        /\ tok' \in [Objects -> Tokens \cup {None}]
        /\ refs' \in [Objects -> Nat] /\ subs' = subs
    BY <2>1, <2>2, GetIsTyped
  <2> QED
    BY <1>4, <2>4, <2>5, <2>6 DEF CallGet, TypeOK
<1>5. CASE CallKnow(s)
  <2>1. todo' \in [Actors -> Seq(Calls)] /\ Of(s) \in Tokens
    BY <1>1, <1>2, <1>5, CallNow DEF CallKnow
  <2> QED
    BY <1>5, <2>1 DEF CallKnow, TypeOK, sessionVars, holderVars
<1>6. CASE CallPush(s)
  <2>1. todo' \in [Actors -> Seq(Calls)]
    BY <1>2, <1>6 DEF CallPush
  <2>2. subs' \in [Objects -> SUBSET Sources]
    BY <1>6 DEF CallPush, TypeOK
  <2> QED
    BY <1>6, <2>1, <2>2 DEF CallPush, TypeOK, holderVars
<1>7. CASE CallBump(s)
  <2>1. todo' \in [Actors -> Seq(Calls)] /\ Of(s) \in Objects
    BY <1>1, <1>2, <1>7, CallNow DEF CallBump
  <2>2. refs[Of(s)] + 1 \in Nat /\ refs' = [refs EXCEPT ![Of(s)] = refs[Of(s)] + 1]
    BY <1>7, <2>1 DEF CallBump, TypeOK
  <2>3. refs' \in [Objects -> Nat]
    BY <2>2 DEF TypeOK
  <2> QED
    BY <1>7, <2>1, <2>3 DEF CallBump, TypeOK
<1> QED
  BY <1>1, <1>3, <1>4, <1>5, <1>6, <1>7, TypeRelease DEF Source

LEMMA TypeQt ==
    ASSUME RegistryInv, Qt
    PROVE  TypeOK'
<1> USE DEF RegistryInv
<1>1. "qt" \in Actors /\ <<>> \in Seq(Calls)
  BY ActorsAre
<1>2. CASE CallRefresh
  <2>1. PICK new \in SetToSeqs({t \in known : dialog[t] = None}),
             old \in SetToSeqs({t \in Tokens \ known : dialog[t] # None}) :
            Then("qt", CallEach("take", new) \o CallEach("drop", old))
    BY <1>2 DEF CallRefresh
  <2>2. /\ IsFiniteSet({t \in known : dialog[t] = None})
        /\ IsFiniteSet({t \in Tokens \ known : dialog[t] # None})
    BY RegistryAssumption, FS_Subset DEF TypeOK
  <2>3. CallEach("take", new) \in Seq(Calls)
    <3>1. \A t \in {x \in known : dialog[x] = None} : Call("take", t) \in Calls
      BY TypedCalls DEF TypeOK
    <3> QED
      BY <2>2, <3>1, CallsOfSet
  <2>4. CallEach("drop", old) \in Seq(Calls)
    <3>1. \A t \in {x \in Tokens \ known : dialog[x] # None} : Call("drop", t) \in Calls
      BY TypedCalls DEF TypeOK
    <3> QED
      BY <2>2, <3>1, CallsOfSet
  <2>5. CallEach("take", new) \o CallEach("drop", old) \in Seq(Calls)
    BY <2>3, <2>4
  <2>6. todo' \in [Actors -> Seq(Calls)]
    BY <1>1, <1>2, <2>1, <2>5, ThenIsTyped DEF CallRefresh
  <2> QED
    BY <1>2, <2>6 DEF CallRefresh, TypeOK, sessionVars, holderVars
<1>3. CASE CallTake
  <2>1. PICK o \in Objects \cup {None} :
            Get(Of("qt"), o) /\ dialog' = [dialog EXCEPT ![Of("qt")] = o]
    BY <1>3 DEF CallTake
  <2>2. Calling("qt", "take") /\ Of("qt") \in Tokens /\ Proceed("qt")
    BY <1>1, <1>3, CallNow DEF CallTake
  <2>3. todo' \in [Actors -> Seq(Calls)]
    BY <1>1, <2>2, ThenIsTyped
  <2>4. /\ life' \in [Objects -> {"free", "live", "dying"}]
        /\ tok' \in [Objects -> Tokens \cup {None}]
        /\ refs' \in [Objects -> Nat] /\ subs' = subs
    BY <2>1, <2>2, GetIsTyped
  <2>5. dialog' \in [Tokens -> Objects \cup {None}]
    BY <2>1 DEF TypeOK
  <2> QED
    BY <1>3, <2>3, <2>4, <2>5 DEF CallTake, TypeOK
<1>4. CASE CallDrop
  <2>1. /\ Calling("qt", "drop") /\ Tail(todo["qt"]) \in Seq(Calls)
        /\ Release("qt", dialog[Of("qt")], Tail(todo["qt"]))
        /\ dialog[Of("qt")] \in Objects /\ refs[dialog[Of("qt")]] > 0
    BY <1>1, <1>4, CallNow, OwnedNow DEF CallDrop, Live
  <2>2. /\ life' \in [Objects -> {"free", "live", "dying"}]
        /\ refs' \in [Objects -> Nat] /\ tok' = tok /\ subs' = subs
        /\ todo' \in [Actors -> Seq(Calls)]
    BY <1>1, <2>1, ReleaseIsTyped
  <2>3. dialog' \in [Tokens -> Objects \cup {None}]
    BY <1>4 DEF CallDrop, TypeOK
  <2> QED
    BY <1>4, <2>2, <2>3 DEF CallDrop, TypeOK
<1>5. CASE CallPeek
  <2>1. PICK o \in Objects \cup {None} :
            Get(Of("qt"), o) /\ Then("qt", IF o = None THEN <<>> ELSE <<Call("release", o)>>)
    BY <1>5 DEF CallPeek
  <2>2. Calling("qt", "peek") /\ Of("qt") \in Tokens
    BY <1>1, <1>5, CallNow DEF CallPeek
  <2>3. (IF o = None THEN <<>> ELSE <<Call("release", o)>>) \in Seq(Calls)
    BY TypedCalls
  <2>4. todo' \in [Actors -> Seq(Calls)]
    BY <1>1, <2>1, <2>2, <2>3, ThenIsTyped
  <2>5. /\ life' \in [Objects -> {"free", "live", "dying"}]
        /\ tok' \in [Objects -> Tokens \cup {None}]
        /\ refs' \in [Objects -> Nat] /\ subs' = subs
    BY <2>1, <2>2, GetIsTyped
  <2> QED
    BY <1>5, <2>4, <2>5 DEF CallPeek, TypeOK, holderVars
<1> QED
  BY <1>1, <1>2, <1>3, <1>4, <1>5, TypeRelease DEF Qt

LEMMA TypeControl ==
    ASSUME RegistryInv, Control
    PROVE  TypeOK'
<1> USE DEF RegistryInv
<1>1. "control" \in Actors /\ <<>> \in Seq(Calls)
  BY ActorsAre
<1>2. CASE CallHold
  <2>1. PICK o \in Objects \cup {None} :
            /\ Get(Of("control"), o)
            /\ held' = IF o = None THEN held ELSE [held EXCEPT ![o] = @ + 1]
    BY <1>2 DEF CallHold
  <2>2. Calling("control", "hold") /\ Of("control") \in Tokens /\ Proceed("control")
    BY <1>1, <1>2, CallNow DEF CallHold
  <2>3. todo' \in [Actors -> Seq(Calls)]
    BY <1>1, <2>2, ThenIsTyped
  <2>4. /\ life' \in [Objects -> {"free", "live", "dying"}]
        /\ tok' \in [Objects -> Tokens \cup {None}]
        /\ refs' \in [Objects -> Nat] /\ subs' = subs
    BY <2>1, <2>2, GetIsTyped
  <2>5. held' \in [Objects -> Nat]
    <3>1. o # None => held[o] + 1 \in Nat
      BY DEF TypeOK
    <3> QED
      BY <2>1, <3>1 DEF TypeOK
  <2> QED
    BY <1>2, <2>3, <2>4, <2>5 DEF CallHold, TypeOK
<1>3. CASE CallForget
  <2> DEFINE mine == {o \in Objects : held[o] > 0 /\ tok[o] = Of("control")}
  <2>1. Calling("control", "forget") /\ todo["control"] \in Seq(Calls)
    BY <1>1, <1>3, CallNow DEF CallForget
  <2>2. ASSUME NEW o \in mine, Release("control", o, todo["control"]),
               held' = [held EXCEPT ![o] = @ - 1]
        PROVE  TypeOK'
    <3>1. o \in Objects /\ held[o] > 0 /\ refs[o] > 0
      BY OwnedNow
    <3>2. /\ life' \in [Objects -> {"free", "live", "dying"}]
          /\ refs' \in [Objects -> Nat] /\ tok' = tok /\ subs' = subs
          /\ todo' \in [Actors -> Seq(Calls)]
      BY <1>1, <2>1, <2>2, <3>1, ReleaseIsTyped
    <3>3. held[o] - 1 \in Nat /\ held' = [held EXCEPT ![o] = held[o] - 1]
      BY <2>2, <3>1 DEF TypeOK
    <3>4. held' \in [Objects -> Nat]
      BY <3>3 DEF TypeOK
    <3> QED
      BY <1>3, <3>2, <3>4 DEF CallForget, TypeOK
  <2>3. ASSUME Proceed("control"), UNCHANGED <<sessionVars, held>>
        PROVE  TypeOK'
    <3>1. todo' \in [Actors -> Seq(Calls)]
      BY <1>1, <2>1, <2>3, ThenIsTyped
    <3> QED
      BY <1>3, <2>3, <3>1 DEF CallForget, TypeOK, sessionVars
  <2> QED
    BY <1>3, <2>2, <2>3 DEF CallForget
<1> QED
  BY <1>1, <1>2, <1>3, TypeRelease DEF Control

\* The operations of the Qt thread and of the control socket that only choose
\* calls, and no reference among them.
Chooses(a) ==
    /\ \E calls \in Seq(Calls) :
          /\ Start(a, calls)
          /\ \A k \in DOMAIN calls : calls[k].call \notin {"release", "destroy"}
    /\ UNCHANGED <<sessionVars, dialog, held, want, sub, failed>>
    /\ known' \subseteq Tokens /\ open' \in BOOLEAN

QtChooses ==
    \/ OpenDialog \/ CloseDialog \/ Timer
    \/ \E t \in Tokens : Register(t) \/ Forget(t)
    \/ \E s \in Sources : Peek(s)

ControlChooses == \E t \in Tokens : CtlRegister(t) \/ CtlForget(t)

LEMMA Choosing ==
    ASSUME TypeOK, QtChooses \/ ControlChooses
    PROVE  (QtChooses /\ Chooses("qt")) \/ (ControlChooses /\ Chooses("control"))
<1>1. CASE OpenDialog \/ Timer
  <2>1. <<Call("refresh", None)>> \in Seq(Calls)
    BY TypedCalls
  <2>2. \A k \in DOMAIN <<Call("refresh", None)>> :
            <<Call("refresh", None)>>[k].call \notin {"release", "destroy"}
    BY DEF Call
  <2>3. Start("qt", <<Call("refresh", None)>>)
    BY <1>1 DEF OpenDialog, Timer
  <2>4. \E calls \in Seq(Calls) :
          /\ Start("qt", calls)
          /\ \A k \in DOMAIN calls : calls[k].call \notin {"release", "destroy"}
    BY <2>1, <2>2, <2>3
  <2> QED
    BY <1>1, <2>4 DEF Chooses, QtChooses, OpenDialog, Timer, sessionVars, holderVars, TypeOK
<1>2. CASE CloseDialog
  <2>1. PICK q \in SetToSeqs({t \in Tokens : dialog[t] # None}) : Start("qt", CallEach("drop", q))
    BY <1>2 DEF CloseDialog
  <2>2. IsFiniteSet({t \in Tokens : dialog[t] # None})
    BY RegistryAssumption, FS_Subset
  <2>3. \A t \in {x \in Tokens : dialog[x] # None} : Call("drop", t) \in Calls
    BY TypedCalls
  <2>4. /\ CallEach("drop", q) \in Seq(Calls) /\ DOMAIN CallEach("drop", q) = DOMAIN q
        /\ \A k \in DOMAIN q : CallEach("drop", q)[k] = Call("drop", q[k])
    BY <2>2, <2>3, CallsOfSet
  <2>5. \A k \in DOMAIN CallEach("drop", q) :
            CallEach("drop", q)[k].call \notin {"release", "destroy"}
    <3>1. \A x : Call("drop", x).call \notin {"release", "destroy"}
      BY DEF Call
    <3> QED
      BY <2>4, <3>1
  <2>6. \E calls \in Seq(Calls) :
          /\ Start("qt", calls)
          /\ \A k \in DOMAIN calls : calls[k].call \notin {"release", "destroy"}
    BY <2>1, <2>4, <2>5
  <2> QED
    BY <1>2, <2>6 DEF Chooses, QtChooses, CloseDialog, sessionVars, TypeOK
<1>3. ASSUME NEW t \in Tokens, NEW c \in {"take", "drop"}, NEW first \in {<<>>, <<Call(c, t)>>},
             Start("qt", first \o <<Call("refresh", None)>>)
      PROVE  \E calls \in Seq(Calls) :
                /\ Start("qt", calls)
                /\ \A k \in DOMAIN calls : calls[k].call \notin {"release", "destroy"}
  <2>1. Call(c, t) \in Calls /\ Call("refresh", None) \in Calls
    BY TypedCalls
  <2>2. /\ <<>> \in Seq(Calls) /\ <<Call(c, t)>> \in Seq(Calls)
        /\ <<Call("refresh", None)>> \in Seq(Calls)
    BY <2>1
  <2>3. first \o <<Call("refresh", None)>> \in Seq(Calls)
    <3>1. first \in Seq(Calls)
      BY <2>2, Zenon
    <3> QED
      BY <2>2, <3>1
  <2>4. \A k \in DOMAIN (first \o <<Call("refresh", None)>>) :
            (first \o <<Call("refresh", None)>>)[k] \in {Call(c, t), Call("refresh", None)}
    <3>1. CASE first = <<>>
      BY <3>1
    <3>2. CASE first = <<Call(c, t)>>
      BY <3>2
    <3> QED
      BY <3>1, <3>2
  <2>5. Call(c, t).call = c /\ Call("refresh", None).call = "refresh"
    BY DEF Call
  <2>6. \A k \in DOMAIN (first \o <<Call("refresh", None)>>) :
            (first \o <<Call("refresh", None)>>)[k].call \notin {"release", "destroy"}
    BY ONLY <2>4, <2>5, c \in {"take", "drop"}
  <2> QED
    BY <1>3, <2>3, <2>6
<1>4. ASSUME NEW t \in Tokens, Register(t)
      PROVE  QtChooses /\ Chooses("qt")
  <2>1. known' \subseteq Tokens
    BY <1>4 DEF Register, TypeOK
  <2> QED
    BY <1>3, <1>4, <2>1 DEF Chooses, QtChooses, Register, sessionVars, holderVars, TypeOK
<1>5. ASSUME NEW t \in Tokens, Forget(t)
      PROVE  QtChooses /\ Chooses("qt")
  <2>1. known' \subseteq Tokens
    BY <1>5 DEF Forget, TypeOK
  <2> QED
    BY <1>3, <1>5, <2>1 DEF Chooses, QtChooses, Forget, sessionVars, holderVars, TypeOK
<1>6. ASSUME NEW a, NEW t \in Tokens, NEW c \in {"peek", "hold", "forget"},
             Start(a, <<Call(c, t)>>)
      PROVE  \E calls \in Seq(Calls) :
                /\ Start(a, calls)
                /\ \A k \in DOMAIN calls : calls[k].call \notin {"release", "destroy"}
  <2>1. <<Call(c, t)>> \in Seq(Calls)
    BY TypedCalls
  <2>2. \A k \in DOMAIN <<Call(c, t)>> : <<Call(c, t)>>[k].call \notin {"release", "destroy"}
    BY DEF Call
  <2> QED
    BY <1>6, <2>1, <2>2
<1>7. ASSUME NEW s \in Sources, Peek(s)
      PROVE  QtChooses /\ Chooses("qt")
  <2>1. want[s] \in Tokens
    BY <1>7 DEF Peek, TypeOK
  <2> QED
    BY <1>6, <1>7, <2>1 DEF Chooses, QtChooses, Peek, sessionVars, holderVars, TypeOK
<1>8. ASSUME NEW t \in Tokens, CtlRegister(t) \/ CtlForget(t)
      PROVE  ControlChooses /\ Chooses("control")
  <2>1. known' \subseteq Tokens
    BY <1>8 DEF CtlRegister, CtlForget, TypeOK
  <2> QED
    BY <1>6, <1>8, <2>1
       DEF Chooses, ControlChooses, CtlRegister, CtlForget, sessionVars, holderVars, TypeOK
<1> QED
  BY <1>1, <1>2, <1>4, <1>5, <1>7, <1>8 DEF QtChooses, ControlChooses

\* What attach_session goes through for a source.
Detach(s) ==
    IF sub[s] = None THEN <<>> ELSE <<Call("unsubscribe", sub[s]), Call("release", sub[s])>>
Demand(t) == IF t = None THEN <<>> ELSE <<Call("get", t)>>

LEMMA Attaching ==
    ASSUME TypeOK, NEW s \in Sources, NEW t \in Tokens \cup {None}, Attach(s, t)
    PROVE  /\ Detach(s) \in Seq(Calls) /\ Demand(t) \in Seq(Calls)
           /\ Detach(s) \o Demand(t) \in Seq(Calls)
           /\ Start(s, Detach(s) \o Demand(t))
           /\ want' = [want EXCEPT ![s] = t] /\ sub' = [sub EXCEPT ![s] = None]
           /\ failed' = failed \ {s}
           /\ UNCHANGED <<life, tok, refs, subs, known, open, dialog, held>>
<1>1. sub[s] # None => sub[s] \in Objects
  BY DEF TypeOK
<1>2. Detach(s) \in Seq(Calls)
  BY <1>1, TypedCalls DEF Detach
<1>3. Demand(t) \in Seq(Calls)
  BY TypedCalls DEF Demand
<1>4. Start(s, Detach(s) \o Demand(t))
  BY DEF Attach, Detach, Demand
<1>5. Detach(s) \o Demand(t) \in Seq(Calls)
  BY <1>2, <1>3
<1> QED
  BY <1>2, <1>3, <1>4, <1>5 DEF Attach, sessionVars

LEMMA Enumerating ==
    ASSUME TypeOK, CtlStatus
    PROVE  \E q \in SetToSeqs(Live) :
              /\ Start("control", CallEach("release", q)) /\ CallEach("release", q) \in Seq(Calls)
              /\ refs' \in [Objects -> Nat]
              /\ \A o \in Objects : refs'[o] = IF o \in Live THEN refs[o] + 1 ELSE refs[o]
              /\ UNCHANGED <<life, tok, subs, known, open, dialog, held, want, sub, failed>>
<1>1. PICK q \in SetToSeqs(Live) : Start("control", CallEach("release", q))
  BY DEF CtlStatus
<1>2. \A o \in Live : Call("release", o) \in Calls
  BY TypedCalls DEF Live
<1>3. CallEach("release", q) \in Seq(Calls)
  BY <1>2, LiveIsFinite, CallsOfSet
<1>4. refs' \in [Objects -> Nat]
  <2>1. \A o \in Objects : (IF o \in Live THEN refs[o] + 1 ELSE refs[o]) \in Nat
    BY DEF TypeOK
  <2> QED
    BY <2>1 DEF CtlStatus
<1> QED
  BY <1>1, <1>3, <1>4 DEF CtlStatus, holderVars

LEMMA NextSteps ==
    ASSUME TypeOK, [Next]_vars
    PROVE  \/ \E s \in Sources : Source(s)
           \/ Qt \/ Control
           \/ QtChooses /\ Chooses("qt")
           \/ ControlChooses /\ Chooses("control")
           \/ \E s \in Sources, t \in Tokens \cup {None} : Attach(s, t)
           \/ CtlStatus
           \/ UNCHANGED vars
<1>1. CASE UNCHANGED vars
  BY <1>1
<1>2. CASE QtChooses \/ ControlChooses
  BY <1>2, Choosing
<1> QED
  BY <1>1, <1>2 DEF Next, QtChooses, ControlChooses

LEMMA TypeNext ==
    ASSUME RegistryInv, [Next]_vars
    PROVE  TypeOK'
<1> USE DEF RegistryInv
<1>1. CASE \E s \in Sources : Source(s)
  BY <1>1, TypeSource
<1>2. CASE Qt \/ Control
  BY <1>2, TypeQt, TypeControl
<1>3. ASSUME NEW a \in {"qt", "control"}, Chooses(a)
      PROVE  TypeOK'
  <2>1. PICK calls \in Seq(Calls) : Start(a, calls)
    BY <1>3 DEF Chooses
  <2>2. todo' \in [Actors -> Seq(Calls)]
    BY <2>1, ActorsAre, StartIsTyped
  <2> QED
    BY <1>3, <2>2 DEF Chooses, TypeOK, sessionVars
<1>4. ASSUME NEW s \in Sources, NEW t \in Tokens \cup {None}, Attach(s, t)
      PROVE  TypeOK'
  <2>1. /\ Detach(s) \o Demand(t) \in Seq(Calls) /\ Start(s, Detach(s) \o Demand(t))
        /\ want' = [want EXCEPT ![s] = t] /\ sub' = [sub EXCEPT ![s] = None]
        /\ failed' = failed \ {s}
        /\ UNCHANGED <<life, tok, refs, subs, known, open, dialog, held>>
    BY <1>4, Attaching
  <2>2. todo' \in [Actors -> Seq(Calls)]
    BY <2>1, ActorsAre, StartIsTyped
  <2> QED
    BY <2>1, <2>2 DEF TypeOK
<1>5. CASE CtlStatus
  <2>1. PICK q \in SetToSeqs(Live) :
              /\ Start("control", CallEach("release", q)) /\ CallEach("release", q) \in Seq(Calls)
              /\ refs' \in [Objects -> Nat]
              /\ UNCHANGED <<life, tok, subs, known, open, dialog, held, want, sub, failed>>
    BY <1>5, Enumerating
  <2>2. todo' \in [Actors -> Seq(Calls)]
    BY <2>1, ActorsAre, StartIsTyped
  <2> QED
    BY <2>1, <2>2 DEF TypeOK
<1>6. CASE UNCHANGED vars
  BY <1>6 DEF vars, sessionVars, holderVars, TypeOK
<1> QED
  BY <1>1, <1>2, <1>3, <1>4, <1>5, <1>6, NextSteps

-----------------------------------------------------------------------------
(* Every step keeps the counts.                                            *)

LEMMA HeadReleases ==
    ASSUME TypeOK, NEW a \in Actors, NEW c, Calling(a, c), NEW o \in Objects
    PROVE  /\ ReleasesOf(Tail(todo[a]), o) \in Nat
           /\ ReleasesOf(todo[a], o)
                = (IF c = "release" /\ Of(a) = o THEN 1 ELSE 0) + ReleasesOf(Tail(todo[a]), o)
<1>1. /\ todo[a] \in Seq(Calls) /\ todo[a] # <<>> /\ Tail(todo[a]) \in Seq(Calls)
      /\ Head(todo[a]) = Call(c, Of(a))
  BY CallNow
<1>2. Count(todo[a], Call("release", o))
        = (IF Head(todo[a]) = Call("release", o) THEN 1 ELSE 0)
            + Count(Tail(todo[a]), Call("release", o))
  BY <1>1, CountTail
<1>3. Head(todo[a]) = Call("release", o) <=> c = "release" /\ Of(a) = o
  BY <1>1 DEF Call
<1>4. Count(Tail(todo[a]), Call("release", o)) \in Nat
  BY <1>1, PlacesFinite
<1> QED
  BY <1>2, <1>3, <1>4 DEF ReleasesOf

LEMMA JoinedReleases ==
    ASSUME NEW p \in Seq(Calls), NEW q \in Seq(Calls), NEW o
    PROVE  /\ ReleasesOf(p \o q, o) = ReleasesOf(p, o) + ReleasesOf(q, o)
           /\ ReleasesOf(p, o) \in Nat /\ ReleasesOf(q, o) \in Nat
BY CountJoined, PlacesFinite DEF ReleasesOf

LEMMA OwnersThen ==
    ASSUME TypeOK, NEW a \in Actors, NEW c, Calling(a, c), c # "release",
           NEW calls \in Seq(Calls), Then(a, calls) \/ (calls = <<>> /\ Proceed(a)),
           UNCHANGED <<held, dialog, sub>>, NEW o \in Objects
    PROVE  /\ Owners(o) \in Nat /\ ReleasesOf(calls, o) \in Nat
           /\ Owners(o)' = Owners(o) + ReleasesOf(calls, o)
<1> DEFINE q == calls \o Tail(todo[a])
<1>1. todo' = [todo EXCEPT ![a] = q] /\ q \in Seq(Calls) /\ Tail(todo[a]) \in Seq(Calls)
  BY ThenIsTyped, CallNow
<1>2. ReleasesOf(q, o) = ReleasesOf(calls, o) + ReleasesOf(Tail(todo[a]), o)
      /\ ReleasesOf(calls, o) \in Nat
  BY <1>1, JoinedReleases
<1>3. ReleasesOf(todo[a], o) = ReleasesOf(Tail(todo[a]), o) /\ ReleasesOf(Tail(todo[a]), o) \in Nat
  BY HeadReleases
<1>4. /\ Owners(o) \in Nat
      /\ Owners(o)' = Owners(o) + ReleasesOf(q, o) - ReleasesOf(todo[a], o)
  <2> HIDE DEF q
  <2> QED
    BY <1>1, OwnersIfOnlyTodo
<1> QED
  <2> HIDE DEF q
  <2> QED
    BY ONLY <1>2, <1>3, <1>4

LEMMA OwnersProceed ==
    ASSUME TypeOK, NEW a \in Actors, NEW c, Calling(a, c), c # "release", Proceed(a),
           UNCHANGED <<held, dialog, sub>>, NEW o \in Objects
    PROVE  Owners(o) \in Nat /\ Owners(o)' = Owners(o)
<1>1. <<>> \in Seq(Calls) /\ ReleasesOf(<<>>, o) = 0
  BY ListedReleases
<1>2. /\ Owners(o) \in Nat /\ ReleasesOf(<<>>, o) \in Nat
      /\ Owners(o)' = Owners(o) + ReleasesOf(<<>>, o)
  BY <1>1, OwnersThen
<1> QED
  BY <1>1, <1>2

LEMMA OwnersStart ==
    ASSUME TypeOK, NEW a \in Actors, NEW calls \in Seq(Calls), Start(a, calls),
           UNCHANGED <<held, dialog, sub>>, NEW o \in Objects
    PROVE  /\ Owners(o) \in Nat /\ ReleasesOf(calls, o) \in Nat
           /\ Owners(o)' = Owners(o) + ReleasesOf(calls, o)
<1>1. todo[a] = <<>> /\ todo' = [todo EXCEPT ![a] = calls]
  BY StartIsTyped
<1>2. ReleasesOf(todo[a], o) = 0
  BY <1>1, ListedReleases
<1>3. /\ Owners(o) \in Nat /\ ReleasesOf(calls, o) \in Nat
      /\ Owners(o)' = Owners(o) + ReleasesOf(calls, o) - ReleasesOf(todo[a], o)
  BY <1>1, OwnersIfOnlyTodo
<1> QED
  BY ONLY <1>2, <1>3

\* The calls after tether_receive_session_release: no further release.
LEMMA ReleaseLeaves ==
    ASSUME TypeOK, NEW a \in Actors, NEW o \in Objects, NEW rest \in Seq(Calls),
           Release(a, o, rest)
    PROVE  \E q \in Seq(Calls) :
              /\ todo' = [todo EXCEPT ![a] = q]
              /\ \A x \in Objects : ReleasesOf(q, x) = ReleasesOf(rest, x)
<1>1. CASE todo' = [todo EXCEPT ![a] = rest]
  BY <1>1
<1>2. CASE todo' = [todo EXCEPT ![a] = <<Call("destroy", o)>> \o rest]
  <2>1. <<Call("destroy", o)>> \in Seq(Calls)
    BY TypedCalls
  <2>2. <<Call("destroy", o)>> \o rest \in Seq(Calls)
    BY <2>1
  <2>3. ASSUME NEW x \in Objects
        PROVE  ReleasesOf(<<Call("destroy", o)>> \o rest, x) = ReleasesOf(rest, x)
    <3>1. ReleasesOf(<<Call("destroy", o)>>, x) = 0
      BY ListedReleases
    <3>2. /\ ReleasesOf(<<Call("destroy", o)>> \o rest, x)
               = ReleasesOf(<<Call("destroy", o)>>, x) + ReleasesOf(rest, x)
          /\ ReleasesOf(rest, x) \in Nat
      BY <2>1, JoinedReleases
    <3> QED
      BY <3>1, <3>2
  <2> QED
    BY <1>2, <2>2, <2>3
<1> QED
  BY <1>1, <1>2 DEF Release

-----------------------------------------------------------------------------
(* The stages of attach_session, by the call the source is at.             *)

LEMMA GettingIsTyped ==
    ASSUME TypeOK, NEW s \in Sources
    PROVE  /\ Getting(s) \in Seq(Calls)
           /\ want[s] = None => Getting(s) = <<>>
           /\ want[s] # None => /\ want[s] \in Tokens /\ Getting(s) = <<Call("get", want[s])>>
                                /\ Getting(s) # <<>> /\ Tail(Getting(s)) = <<>>
                                /\ Head(Getting(s)) = Call("get", want[s])
<1>1. want[s] \in Tokens \cup {None}
  BY DEF TypeOK
<1>2. want[s] \in Tokens => Call("get", want[s]) \in Calls
  BY TypedCalls
<1> QED
  BY <1>1, <1>2 DEF Getting

\* The todo of a source that leaves a session.
LEMMA LeavingHeads ==
    ASSUME NEW o \in Objects, NEW q \in Seq(Calls)
    PROVE  /\ <<Call("unsubscribe", o), Call("release", o)>> \o q # <<>>
           /\ Head(<<Call("unsubscribe", o), Call("release", o)>> \o q) = Call("unsubscribe", o)
           /\ Tail(<<Call("unsubscribe", o), Call("release", o)>> \o q) = <<Call("release", o)>> \o q
           /\ <<Call("release", o)>> \o q # <<>> /\ <<Call("destroy", o)>> \o q # <<>>
           /\ Head(<<Call("release", o)>> \o q) = Call("release", o)
           /\ Tail(<<Call("release", o)>> \o q) = q
           /\ Head(<<Call("destroy", o)>> \o q) = Call("destroy", o)
           /\ Tail(<<Call("destroy", o)>> \o q) = q
<1>1. /\ Call("unsubscribe", o) \in Calls /\ Call("release", o) \in Calls
      /\ Call("destroy", o) \in Calls
  BY TypedCalls
<1> DEFINE u == Call("unsubscribe", o)
           r == Call("release", o)
           d == Call("destroy", o)
<1> HIDE DEF u, r, d
<1>2. u \in Calls /\ r \in Calls /\ d \in Calls
  BY <1>1 DEF u, r, d
<1>3. <<u, r>> \o q # <<>> /\ Head(<<u, r>> \o q) = u
  BY <1>2
<1>4. Tail(<<u, r>> \o q) = <<r>> \o q
  <2> DEFINE p == <<u, r>>
             z == p \o q
             y == <<r>> \o q
             n == Len(q)
  <2>1. n \in Nat /\ p \in Seq(Calls) /\ Len(p) = 2 /\ p[1] = u /\ p[2] = r
    BY <1>2
  <2>2. z \in Seq(Calls) /\ Len(z) = 2 + n /\ \A i \in 1 .. n + 2 :
            z[i] = IF i = 1 THEN u ELSE IF i = 2 THEN r ELSE q[i - 2]
    <3>1. /\ z \in Seq(Calls) /\ Len(z) = Len(p) + n
          /\ \A i \in 1 .. Len(p) + n : z[i] = IF i <= Len(p) THEN p[i] ELSE q[i - Len(p)]
      BY <2>1, ConcatProperties
    <3> HIDE DEF p, z
    <3> QED
      BY <2>1, <3>1
  <2>3. y \in Seq(Calls) /\ Len(y) = 1 + n /\ \A i \in 1 .. n + 1 :
            y[i] = IF i = 1 THEN r ELSE q[i - 1]
    BY <1>2
  <2> HIDE DEF z, y, n
  <2>4. Tail(z) \in Seq(Calls) /\ Len(Tail(z)) = n + 1 /\ \A i \in 1 .. n + 1 : Tail(z)[i] = z[i + 1]
    BY <2>1, <2>2
  <2>5. \A i \in 1 .. n + 1 : Tail(z)[i] = y[i]
    BY <2>1, <2>2, <2>3, <2>4
  <2>6. Tail(z) = y
    BY <2>1, <2>3, <2>4, <2>5, SeqEqual
  <2> QED
    BY <2>6 DEF z, y
<1>5. <<r>> \o q # <<>> /\ Head(<<r>> \o q) = r /\ Tail(<<r>> \o q) = q
  BY <1>2
<1>6. <<d>> \o q # <<>> /\ Head(<<d>> \o q) = d /\ Tail(<<d>> \o q) = q
  BY <1>2
<1> QED
  BY <1>3, <1>4, <1>5, <1>6 DEF u, r, d

LEMMA StageNow ==
    ASSUME RegistryInv, NEW s \in Sources, NEW c, Calling(s, c)
    PROVE  /\ s \notin failed
           /\ c \in {"unsubscribe", "release", "destroy", "get", "know", "push", "bump"}
           /\ c = "unsubscribe" =>
                 sub[s] = None /\ Tail(todo[s]) = <<Call("release", Of(s))>> \o Getting(s)
           /\ c = "release" => \/ sub[s] = None /\ Tail(todo[s]) = Getting(s)
                               \/ sub[s] = Of(s) /\ tok[Of(s)] = want[s] /\ Tail(todo[s]) = <<>>
           /\ c = "destroy" => sub[s] = None /\ Tail(todo[s]) = Getting(s)
           /\ c = "get" => sub[s] = None /\ Of(s) = want[s] /\ Tail(todo[s]) = <<>>
           /\ c \in {"know", "push", "bump"} => sub[s] = None /\ want[s] \in Tokens
           /\ c = "know" => \E o \in Objects :
                 /\ Of(s) = want[s] /\ tok[o] = want[s]
                 /\ Tail(todo[s]) = <<Call("push", o), Call("bump", o), Call("release", o)>>
           /\ c = "push" => /\ Of(s) \in Objects /\ tok[Of(s)] = want[s]
                            /\ Tail(todo[s]) = <<Call("bump", Of(s)), Call("release", Of(s))>>
           /\ c = "bump" => /\ Of(s) \in Objects /\ tok[Of(s)] = want[s]
                            /\ Tail(todo[s]) = <<Call("release", Of(s))>>
<1>1. TypeOK /\ Stage(s) /\ Getting(s) \in Seq(Calls)
  BY GettingIsTyped DEF RegistryInv, SourceInv, SourceFits
<1>2. todo[s] # <<>> /\ c = Head(todo[s]).call /\ Of(s) = Head(todo[s]).of
  BY DEF Calling, Idle, Of
<1>3. \A k, x : Call(k, x).call = k /\ Call(k, x).of = x
  BY DEF Call
<1>4. CASE Asking(s)
  <2>1. sub[s] = None /\ s \notin failed /\ todo[s] = Getting(s)
    BY <1>4 DEF Asking
  <2>2. want[s] # None
    BY <1>1, <1>2, <2>1, GettingIsTyped
  <2>3. Head(todo[s]) = Call("get", want[s]) /\ Tail(todo[s]) = <<>>
    BY <1>1, <2>1, <2>2, GettingIsTyped
  <2> QED
    BY <1>2, <1>3, <2>1, <2>3
<1>5. CASE Refused(s)
  BY <1>2, <1>5 DEF Refused
<1>6. ASSUME NEW o \in Objects, Leaving(s, o)
      PROVE  /\ sub[s] = None /\ s \notin failed
             /\ \/ /\ Head(todo[s]) = Call("unsubscribe", o)
                   /\ Tail(todo[s]) = <<Call("release", o)>> \o Getting(s)
                \/ Head(todo[s]) = Call("release", o) /\ Tail(todo[s]) = Getting(s)
                \/ Head(todo[s]) = Call("destroy", o) /\ Tail(todo[s]) = Getting(s)
  <2> HIDE DEF Call
  <2> DEFINE rest == Getting(s)
  <2>0. rest \in Seq(Calls)
    BY <1>1
  <2>1. /\ sub[s] = None /\ s \notin failed
        /\ \/ todo[s] = <<Call("unsubscribe", o), Call("release", o)>> \o rest
           \/ todo[s] = <<Call("release", o)>> \o rest
           \/ todo[s] = <<Call("destroy", o)>> \o rest
    BY <1>6 DEF Leaving
  <2> HIDE DEF rest
  <2>2. /\ Head(<<Call("unsubscribe", o), Call("release", o)>> \o rest) = Call("unsubscribe", o)
        /\ Tail(<<Call("unsubscribe", o), Call("release", o)>> \o rest)
             = <<Call("release", o)>> \o rest
        /\ Head(<<Call("release", o)>> \o rest) = Call("release", o)
        /\ Tail(<<Call("release", o)>> \o rest) = rest
        /\ Head(<<Call("destroy", o)>> \o rest) = Call("destroy", o)
        /\ Tail(<<Call("destroy", o)>> \o rest) = rest
    BY <2>0, LeavingHeads, Zenon
  <2>3. \/ /\ Head(todo[s]) = Call("unsubscribe", o)
           /\ Tail(todo[s]) = <<Call("release", o)>> \o rest
        \/ Head(todo[s]) = Call("release", o) /\ Tail(todo[s]) = rest
        \/ Head(todo[s]) = Call("destroy", o) /\ Tail(todo[s]) = rest
    BY ONLY <2>1, <2>2, Zenon
  <2> QED
    BY <2>1, <2>3 DEF rest
<1>7. ASSUME NEW o \in Objects, Leaving(s, o)
      PROVE  /\ s \notin failed /\ sub[s] = None /\ Of(s) = o
             /\ \/ c = "unsubscribe" /\ Tail(todo[s]) = <<Call("release", Of(s))>> \o Getting(s)
                \/ c = "release" /\ Tail(todo[s]) = Getting(s)
                \/ c = "destroy" /\ Tail(todo[s]) = Getting(s)
  <2>1. CASE /\ Head(todo[s]) = Call("unsubscribe", o)
             /\ Tail(todo[s]) = <<Call("release", o)>> \o Getting(s)
    <3>1. c = "unsubscribe" /\ Of(s) = o
      BY <1>2, <1>3, <2>1
    <3> QED
      BY <1>6, <1>7, <2>1, <3>1
  <2>2. CASE Head(todo[s]) = Call("release", o) /\ Tail(todo[s]) = Getting(s)
    BY <1>2, <1>3, <1>6, <1>7, <2>2
  <2>3. CASE Head(todo[s]) = Call("destroy", o) /\ Tail(todo[s]) = Getting(s)
    BY <1>2, <1>3, <1>6, <1>7, <2>3
  <2> QED
    BY <1>6, <1>7, <2>1, <2>2, <2>3
<1>8. ASSUME NEW o \in Objects, Joining(s, o)
      PROVE  /\ s \notin failed /\ sub[s] = None /\ want[s] \in Tokens /\ tok[o] = want[s]
             /\ \/ /\ c = "know" /\ Of(s) = want[s]
                   /\ Tail(todo[s]) = <<Call("push", o), Call("bump", o), Call("release", o)>>
                \/ /\ c = "push" /\ Of(s) = o
                   /\ Tail(todo[s]) = <<Call("bump", o), Call("release", o)>>
                \/ c = "bump" /\ Of(s) = o /\ Tail(todo[s]) = <<Call("release", o)>>
  <2>1. CASE todo[s] = <<Call("know", want[s]), Call("push", o), Call("bump", o), Call("release", o)>>
    <3>1. /\ Head(todo[s]) = Call("know", want[s])
          /\ Tail(todo[s]) = <<Call("push", o), Call("bump", o), Call("release", o)>>
      BY <2>1
    <3> QED
      BY <1>2, <1>3, <1>8, <3>1 DEF Joining
  <2>2. CASE todo[s] = <<Call("push", o), Call("bump", o), Call("release", o)>>
    <3>1. /\ Head(todo[s]) = Call("push", o)
          /\ Tail(todo[s]) = <<Call("bump", o), Call("release", o)>>
      BY <2>2
    <3> QED
      BY <1>2, <1>3, <1>8, <3>1 DEF Joining
  <2>3. CASE todo[s] = <<Call("bump", o), Call("release", o)>>
    <3>1. Head(todo[s]) = Call("bump", o) /\ Tail(todo[s]) = <<Call("release", o)>>
      BY <2>3
    <3> QED
      BY <1>2, <1>3, <1>8, <3>1 DEF Joining
  <2> QED
    BY <1>8, <2>1, <2>2, <2>3 DEF Joining
<1>9. ASSUME NEW o \in Objects, Joined(s, o)
      PROVE  /\ s \notin failed /\ sub[s] = o /\ tok[o] = want[s]
             /\ c = "release" /\ Of(s) = o /\ Tail(todo[s]) = <<>>
  <2>1. todo[s] = <<Call("release", o)>>
    BY <1>2, <1>9 DEF Joined
  <2>2. Head(todo[s]) = Call("release", o) /\ Tail(todo[s]) = <<>>
    BY <2>1
  <2> QED
    BY <1>2, <1>3, <1>9, <2>2 DEF Joined
<1>10. CASE \E o \in Objects : Leaving(s, o)
  BY <1>7, <1>10
<1>11. CASE \E o \in Objects : Joining(s, o)
  BY <1>8, <1>11
<1>12. CASE \E o \in Objects : Joined(s, o)
  BY <1>9, <1>12
<1> QED
  BY <1>1, <1>4, <1>5, <1>10, <1>11, <1>12 DEF Stage

-----------------------------------------------------------------------------
(* RefsCounted is kept, by each action.                                    *)

LEMMA CountedRelease ==
    ASSUME RegistryInv, NEW a \in Actors, CallRelease(a) \/ CallDestroy(a)
    PROVE  Counted'
<1> USE DEF RegistryInv
<1>1. CASE CallRelease(a)
  <2>1. /\ Calling(a, "release") /\ Release(a, Of(a), Tail(todo[a])) /\ Of(a) \in Objects
        /\ Tail(todo[a]) \in Seq(Calls) /\ UNCHANGED <<held, dialog, sub>>
    BY <1>1, CallNow DEF CallRelease, holderVars
  <2>2. life[Of(a)] = "live"
    BY <2>1, OwnedNow DEF Live
  <2>3. PICK q \in Seq(Calls) :
              /\ todo' = [todo EXCEPT ![a] = q]
              /\ \A x \in Objects : ReleasesOf(q, x) = ReleasesOf(Tail(todo[a]), x)
    BY <2>1, ReleaseLeaves
  <2>4. ASSUME NEW x \in Objects
        PROVE  Owners(x) \in Nat /\ Owners(x)' = Owners(x) - IF x = Of(a) THEN 1 ELSE 0
    <3>1. /\ Owners(x) \in Nat
          /\ Owners(x)' = Owners(x) + ReleasesOf(q, x) - ReleasesOf(todo[a], x)
      BY <2>1, <2>3, OwnersIfOnlyTodo
    <3>2. /\ ReleasesOf(Tail(todo[a]), x) \in Nat
          /\ ReleasesOf(todo[a], x) = (IF Of(a) = x THEN 1 ELSE 0) + ReleasesOf(Tail(todo[a]), x)
      BY <2>1, HeadReleases
    <3> QED
      BY <2>3, <3>1, <3>2
  <2> QED
    BY <2>1, <2>2, <2>4, ReleaseCounts
<1>2. CASE CallDestroy(a)
  <2>1. Calling(a, "destroy") /\ Proceed(a) /\ UNCHANGED <<held, dialog, sub>> /\ refs' = refs
    BY <1>2 DEF CallDestroy, holderVars
  <2>2. \A x \in Objects : Owners(x)' = Owners(x)
    BY <2>1, OwnersProceed
  <2>3. Of(a) \in Objects /\ life[Of(a)] = "dying"
    BY <2>1, CallNow DEF DestroysOnce
  <2>4. \A x \in Objects : life[x] = "live" <=> life'[x] = "live"
    BY <1>2, <2>3 DEF CallDestroy, TypeOK
  <2> QED
    BY <2>1, <2>2, <2>4, SameCounts
<1> QED
  BY <1>1, <1>2

LEMMA CountedSource ==
    ASSUME RegistryInv, NEW s \in Sources, Source(s)
    PROVE  Counted'
<1> USE DEF RegistryInv
<1>1. s \in Actors
  BY ActorsAre
<1>2. ASSUME NEW c \in {"unsubscribe", "know", "push"}, Calling(s, c), Proceed(s),
             UNCHANGED <<held, dialog, sub, life, refs>>
      PROVE  Counted'
  <2>1. \A x \in Objects : Owners(x)' = Owners(x)
    BY <1>1, <1>2, OwnersProceed
  <2> QED
    BY <1>2, <2>1, SameCounts
<1>3. CASE CallUnsubscribe(s) \/ CallKnow(s) \/ CallPush(s)
  BY <1>2, <1>3 DEF CallUnsubscribe, CallKnow, CallPush, sessionVars, holderVars
<1>4. CASE CallGet(s)
  <2>1. PICK o \in Objects \cup {None} :
            /\ Get(Of(s), o)
            /\ Then(s, IF o = None THEN <<>>
                       ELSE <<Call("know", Of(s)), Call("push", o), Call("bump", o),
                              Call("release", o)>>)
    BY <1>4 DEF CallGet
  <2> DEFINE calls == IF o = None THEN <<>>
                      ELSE <<Call("know", Of(s)), Call("push", o), Call("bump", o),
                             Call("release", o)>>
  <2>2. Calling(s, "get") /\ Of(s) \in Tokens /\ UNCHANGED <<held, dialog, sub>>
    BY <1>1, <1>4, CallNow DEF CallGet
  <2>3. calls \in Seq(Calls)
    BY <2>2, TypedCalls
  <2>4. ASSUME NEW x \in Objects
        PROVE  Owners(x) \in Nat /\ Owners(x)' = Owners(x) + IF x = o THEN 1 ELSE 0
    <3>1. Owners(x) \in Nat /\ Owners(x)' = Owners(x) + ReleasesOf(calls, x)
      <4> HIDE DEF calls
      <4>1. Then(s, calls)
        BY <2>1 DEF calls
      <4> QED
        BY <1>1, <2>2, <2>3, <4>1, OwnersThen
    <3>2. ReleasesOf(calls, x) = IF x = o THEN 1 ELSE 0
      BY ListedReleases, RegistryAssumption
    <3> QED
      BY <3>1, <3>2
  <2> QED
    BY <2>1, <2>2, <2>4, GetCounts
<1>5. CASE CallBump(s)
  <2>1. /\ Calling(s, "bump") /\ Proceed(s) /\ Of(s) \in Objects /\ sub[s] = None
        /\ refs' = [refs EXCEPT ![Of(s)] = @ + 1] /\ sub' = [sub EXCEPT ![s] = Of(s)]
        /\ life' = life /\ UNCHANGED <<held, dialog>>
    BY <1>5, StageNow DEF CallBump
  <2>2. Of(s) \in Live
    <3>1. Tail(todo[s]) = <<Call("release", Of(s))>> /\ todo[s] \in Seq(Calls) /\ todo[s] # <<>>
      BY <1>1, <2>1, StageNow, CallNow
    <3>2. 2 \in DOMAIN todo[s] /\ todo[s][2] = Call("release", Of(s))
      <4>1. \A z : 1 \in DOMAIN <<z>> /\ <<z>>[1] = z
        OBVIOUS
      <4>2. 1 \in DOMAIN Tail(todo[s]) /\ Tail(todo[s])[1] = Call("release", Of(s))
        BY ONLY <3>1, <4>1
      <4>3. 1 + 1 \in DOMAIN todo[s] /\ Tail(todo[s])[1] = todo[s][1 + 1]
        BY ONLY <3>1, <4>2, TailPlaces
      <4> QED
        BY <4>2, <4>3
    <3>3. \E b \in Actors : \E k \in DOMAIN todo[b] : todo[b][k] = Call("release", Of(s))
      BY <1>1, <3>2
    <3> QED
      BY <2>1, <3>3, OwnedIsLive
  <2>3. ASSUME NEW x \in Objects
        PROVE  Owners(x) \in Nat /\ Owners(x)' = Owners(x) + IF x = Of(s) THEN 1 ELSE 0
    <3>1. todo' = [todo EXCEPT ![s] = Tail(todo[s])] /\ Tail(todo[s]) \in Seq(Calls)
      BY <1>1, <2>1, CallNow DEF Proceed
    <3>2. /\ SubCount(x) \in Nat /\ SubCount(x)' \in Nat
          /\ SubCount(x)' = SubCount(x) + IF x = Of(s) THEN 1 ELSE 0
      <4>1. /\ SubCount(x) \in Nat /\ SubCount(x)' \in Nat
            /\ SubCount(x)' = SubCount(x) - (IF sub[s] = x THEN 1 ELSE 0)
                                          + (IF Of(s) = x THEN 1 ELSE 0)
        BY <2>1, SubStep
      <4>2. sub[s] # x
        BY <2>1, RegistryAssumption
      <4> QED
        BY <4>1, <4>2
    <3>3. /\ held'[x] \in Nat /\ held'[x] = held[x]
          /\ DialogCount(x)' \in Nat /\ DialogCount(x)' = DialogCount(x)
      BY <2>1, CountsAreTyped DEF TypeOK, DialogCount, Fibre
    <3>4. /\ ReleasesOf(todo[s], x) = ReleasesOf(Tail(todo[s]), x)
          /\ ReleasesOf(Tail(todo[s]), x) \in Nat
      BY <1>1, <2>1, HeadReleases
    <3>5. /\ Owners(x) \in Nat
          /\ Owners(x)' = Owners(x) + (held'[x] - held[x])
               + (DialogCount(x)' - DialogCount(x)) + (SubCount(x)' - SubCount(x))
               + (ReleasesOf(Tail(todo[s]), x) - ReleasesOf(todo[s], x))
      BY <1>1, <3>1, <3>2, <3>3, OwnersStep
    <3> QED
      BY ONLY <3>2, <3>3, <3>4, <3>5
  <2>4. ASSUME NEW x \in Objects
        PROVE  IF life'[x] = "live" THEN refs'[x] = Owners(x)' /\ refs'[x] > 0 ELSE Owners(x)' = 0
    <3>1. /\ IF life[x] = "live" THEN refs[x] = Owners(x) /\ refs[x] > 0 ELSE Owners(x) = 0
          /\ refs'[x] = (IF x = Of(s) THEN refs[x] + 1 ELSE refs[x])
          /\ life'[x] = life[x] /\ life[Of(s)] = "live"
      BY <2>1, <2>2 DEF Counted, TypeOK, Live
    <3> QED
      BY <2>3, <3>1
  <2> QED
    BY <2>4 DEF Counted
<1> QED
  BY <1>1, <1>3, <1>4, <1>5, CountedRelease DEF Source

\* The dialog's entries change, and the releases that an actor has to make do not.
LEMMA OwnersIfDialog ==
    ASSUME TypeOK, NEW a \in Actors, NEW q \in Seq(Calls), todo' = [todo EXCEPT ![a] = q],
           held' = held, sub' = sub, NEW x \in Objects,
           DialogCount(x)' \in Nat, ReleasesOf(q, x) = ReleasesOf(todo[a], x)
    PROVE  /\ Owners(x) \in Nat /\ DialogCount(x) \in Nat
           /\ Owners(x)' = Owners(x) + (DialogCount(x)' - DialogCount(x))
<1>1. DialogCount(x) \in Nat /\ DialogCount(x)' \in Nat
  BY CountsAreTyped
<1>2. /\ held'[x] \in Nat /\ held'[x] = held[x]
      /\ SubCount(x)' \in Nat /\ SubCount(x)' = SubCount(x)
  BY CountsAreTyped DEF TypeOK, SubCount, Fibre
<1>3. ReleasesOf(todo[a], x) \in Nat
  BY ReleasesStep
<1>4. /\ Owners(x) \in Nat
      /\ Owners(x)' = Owners(x) + (held'[x] - held[x])
           + (DialogCount(x)' - DialogCount(x)) + (SubCount(x)' - SubCount(x))
           + (ReleasesOf(q, x) - ReleasesOf(todo[a], x))
  BY <1>1, <1>2, OwnersStep
<1>5. ReleasesOf(q, x) = ReleasesOf(todo[a], x)
  OBVIOUS
<1> QED
  BY <1>1, <1>2, <1>3, <1>4, <1>5, SMTT(60)

\* The references of the control socket change, and one actor's calls.
LEMMA OwnersIfHeld ==
    ASSUME TypeOK, NEW a \in Actors, NEW q \in Seq(Calls), todo' = [todo EXCEPT ![a] = q],
           NEW x \in Objects, held'[x] \in Nat,
           UNCHANGED <<dialog, sub>>, ReleasesOf(q, x) = ReleasesOf(todo[a], x)
    PROVE  Owners(x) \in Nat /\ held[x] \in Nat /\ Owners(x)' = Owners(x) + (held'[x] - held[x])
<1>1. /\ DialogCount(x) \in Nat /\ DialogCount(x)' = DialogCount(x) /\ held[x] \in Nat
      /\ SubCount(x) \in Nat /\ SubCount(x)' = SubCount(x)
      /\ DialogCount(x)' \in Nat /\ SubCount(x)' \in Nat /\ held'[x] \in Nat
  BY CountsAreTyped DEF TypeOK, DialogCount, SubCount, Fibre
<1>2. ReleasesOf(todo[a], x) \in Nat
  BY ReleasesStep
<1>3. /\ Owners(x) \in Nat
      /\ Owners(x)' = Owners(x) + (held'[x] - held[x])
           + (DialogCount(x)' - DialogCount(x)) + (SubCount(x)' - SubCount(x))
           + (ReleasesOf(q, x) - ReleasesOf(todo[a], x))
  BY <1>1, OwnersStep
<1>4. ReleasesOf(q, x) = ReleasesOf(todo[a], x)
  OBVIOUS
<1> QED
  BY ONLY <1>1, <1>2, <1>3, <1>4

\* Calls that are no releases.
LEMMA NoReleases ==
    ASSUME NEW q, \A k \in DOMAIN q : q[k].call # "release", NEW x
    PROVE  ReleasesOf(q, x) = 0
<1>1. \A k \in DOMAIN q : q[k] # Call("release", x)
  BY DEF Call
<1> QED
  BY <1>1, CountNone DEF ReleasesOf

LEMMA CountedQt ==
    ASSUME RegistryInv, Qt
    PROVE  Counted'
<1> USE DEF RegistryInv
<1>1. "qt" \in Actors
  BY ActorsAre
<1>2. CASE CallRefresh
  <2>1. PICK new \in SetToSeqs({t \in known : dialog[t] = None}),
             old \in SetToSeqs({t \in Tokens \ known : dialog[t] # None}) :
            Then("qt", CallEach("take", new) \o CallEach("drop", old))
    BY <1>2 DEF CallRefresh
  <2>2. /\ IsFiniteSet({t \in known : dialog[t] = None})
        /\ IsFiniteSet({t \in Tokens \ known : dialog[t] # None})
    BY RegistryAssumption, FS_Subset DEF TypeOK
  <2>3. ASSUME NEW S, IsFiniteSet(S), NEW p \in SetToSeqs(S), S \subseteq Tokens,
               NEW c \in {"take", "drop"}, NEW x
        PROVE  CallEach(c, p) \in Seq(Calls) /\ ReleasesOf(CallEach(c, p), x) = 0
    <3>1. \A t \in S : Call(c, t) \in Calls
      BY <2>3, TypedCalls
    <3>2. /\ CallEach(c, p) \in Seq(Calls) /\ DOMAIN CallEach(c, p) = DOMAIN p
          /\ \A k \in DOMAIN p : CallEach(c, p)[k] = Call(c, p[k])
      BY <2>3, <3>1, CallsOfSet
    <3>3. \A t : Call(c, t).call # "release"
      BY DEF Call
    <3>4. \A k \in DOMAIN CallEach(c, p) : CallEach(c, p)[k].call # "release"
      BY <3>2, <3>3
    <3> QED
      BY <3>2, <3>4, NoReleases
  <2> DEFINE p == CallEach("take", new)
             r == CallEach("drop", old)
  <2>4. p \in Seq(Calls) /\ \A x : ReleasesOf(p, x) = 0
    <3>1. {t \in known : dialog[t] = None} \subseteq Tokens
      BY DEF TypeOK
    <3> QED
      BY <2>2, <2>3, <3>1
  <2>5. r \in Seq(Calls) /\ \A x : ReleasesOf(r, x) = 0
    BY <2>2, <2>3
  <2> HIDE DEF p, r
  <2>6. p \o r \in Seq(Calls) /\ \A x : ReleasesOf(p \o r, x) = 0
    BY <2>4, <2>5, JoinedReleases
  <2>7. /\ Calling("qt", "refresh") /\ UNCHANGED <<held, dialog, sub, life, refs>>
        /\ Then("qt", p \o r)
    BY <1>2, <2>1 DEF CallRefresh, sessionVars, holderVars, p, r
  <2>8. ASSUME NEW x \in Objects
        PROVE  Owners(x)' = Owners(x)
    <3>1. Owners(x) \in Nat /\ Owners(x)' = Owners(x) + ReleasesOf(p \o r, x)
      BY <1>1, <2>6, <2>7, OwnersThen
    <3> QED
      BY <2>6, <3>1
  <2> QED
    BY <2>7, <2>8, SameCounts
<1>3. CASE CallTake
  <2>1. PICK o \in Objects \cup {None} :
            Get(Of("qt"), o) /\ dialog' = [dialog EXCEPT ![Of("qt")] = o]
    BY <1>3 DEF CallTake
  <2>2. /\ Calling("qt", "take") /\ Of("qt") \in Tokens /\ UNCHANGED <<held, sub>>
        /\ Tail(todo["qt"]) \in Seq(Calls) /\ todo' = [todo EXCEPT !["qt"] = Tail(todo["qt"])]
        /\ dialog[Of("qt")] = None
    BY <1>1, <1>3, CallNow, OwnedNow DEF CallTake, Proceed
  <2>3. ASSUME NEW x \in Objects
        PROVE  Owners(x) \in Nat /\ Owners(x)' = Owners(x) + IF x = o THEN 1 ELSE 0
    <3>1. ReleasesOf(Tail(todo["qt"]), x) = ReleasesOf(todo["qt"], x)
      BY <1>1, <2>2, HeadReleases
    <3>2. /\ DialogCount(x) \in Nat /\ DialogCount(x)' \in Nat
          /\ DialogCount(x)' = DialogCount(x) - (IF dialog[Of("qt")] = x THEN 1 ELSE 0)
                                              + (IF o = x THEN 1 ELSE 0)
      BY <2>1, <2>2, DialogStep
    <3>4. Owners(x) \in Nat /\ Owners(x)' = Owners(x) + (DialogCount(x)' - DialogCount(x))
      BY <1>1, <2>2, <3>1, <3>2, OwnersIfDialog
    <3>3. dialog[Of("qt")] # x
      BY <2>2, RegistryAssumption
    <3> QED
      BY ONLY <3>2, <3>3, <3>4
  <2> QED
    BY <2>1, <2>2, <2>3, GetCounts
<1>4. CASE CallDrop
  <2> DEFINE o == dialog[Of("qt")]
  <2>1. /\ Calling("qt", "drop") /\ Tail(todo["qt"]) \in Seq(Calls) /\ Of("qt") \in Tokens
        /\ Release("qt", o, Tail(todo["qt"])) /\ life[o] = "live" /\ o \in Objects
        /\ dialog' = [dialog EXCEPT ![Of("qt")] = None] /\ UNCHANGED <<held, sub>>
    BY <1>1, <1>4, CallNow, OwnedNow DEF CallDrop, Live
  <2> HIDE DEF o
  <2>2. PICK q \in Seq(Calls) :
            /\ todo' = [todo EXCEPT !["qt"] = q]
            /\ \A x \in Objects : ReleasesOf(q, x) = ReleasesOf(Tail(todo["qt"]), x)
    BY <1>1, <2>1, ReleaseLeaves
  <2>3. ASSUME NEW x \in Objects
        PROVE  Owners(x) \in Nat /\ Owners(x)' = Owners(x) - IF x = o THEN 1 ELSE 0
    <3>1. ReleasesOf(q, x) = ReleasesOf(todo["qt"], x)
      BY <1>1, <2>1, <2>2, HeadReleases
    <3>2. /\ DialogCount(x) \in Nat /\ DialogCount(x)' \in Nat
          /\ DialogCount(x)' = DialogCount(x) - (IF dialog[Of("qt")] = x THEN 1 ELSE 0)
                                              + (IF None = x THEN 1 ELSE 0)
      <4>1. Of("qt") \in Tokens /\ dialog' = [dialog EXCEPT ![Of("qt")] = None]
        BY <2>1
      <4> QED
        BY ONLY TypeOK, <4>1, DialogStep, ZenonT(60)
    <3>4. Owners(x) \in Nat /\ Owners(x)' = Owners(x) + (DialogCount(x)' - DialogCount(x))
      BY <1>1, <2>1, <2>2, <3>1, <3>2, OwnersIfDialog
    <3>3. None # x
      BY RegistryAssumption
    <3> QED
      BY <3>2, <3>3, <3>4 DEF o
  <2> QED
    BY <1>1, <2>1, <2>3, ReleaseCounts
<1>5. CASE CallPeek
  <2>1. PICK o \in Objects \cup {None} :
            Get(Of("qt"), o) /\ Then("qt", IF o = None THEN <<>> ELSE <<Call("release", o)>>)
    BY <1>5 DEF CallPeek
  <2> DEFINE calls == IF o = None THEN <<>> ELSE <<Call("release", o)>>
  <2>2. Calling("qt", "peek") /\ Of("qt") \in Tokens /\ UNCHANGED <<held, dialog, sub>>
    BY <1>1, <1>5, CallNow DEF CallPeek, holderVars
  <2>3. calls \in Seq(Calls) /\ Then("qt", calls)
    BY <2>1, TypedCalls
  <2>4. ASSUME NEW x \in Objects
        PROVE  ReleasesOf(calls, x) = IF x = o THEN 1 ELSE 0
    BY ListedReleases, RegistryAssumption
  <2> HIDE DEF calls
  <2>5. ASSUME NEW x \in Objects
        PROVE  Owners(x) \in Nat /\ Owners(x)' = Owners(x) + IF x = o THEN 1 ELSE 0
    <3>1. Owners(x) \in Nat /\ Owners(x)' = Owners(x) + ReleasesOf(calls, x)
      BY <1>1, <2>2, <2>3, OwnersThen
    <3> QED
      BY <2>4, <3>1
  <2> QED
    BY <2>1, <2>2, <2>5, GetCounts
<1> QED
  BY <1>1, <1>2, <1>3, <1>4, <1>5, CountedRelease DEF Qt

LEMMA CountedControl ==
    ASSUME RegistryInv, Control
    PROVE  Counted'
<1> USE DEF RegistryInv
<1>1. "control" \in Actors
  BY ActorsAre
<1>2. CASE CallHold
  <2>1. PICK o \in Objects \cup {None} :
            /\ Get(Of("control"), o)
            /\ held' = IF o = None THEN held ELSE [held EXCEPT ![o] = @ + 1]
    BY <1>2 DEF CallHold
  <2>2. /\ Calling("control", "hold") /\ Of("control") \in Tokens /\ UNCHANGED <<dialog, sub>>
        /\ Tail(todo["control"]) \in Seq(Calls)
        /\ todo' = [todo EXCEPT !["control"] = Tail(todo["control"])]
    BY <1>1, <1>2, CallNow DEF CallHold, Proceed
  <2>3. ASSUME NEW x \in Objects
        PROVE  Owners(x) \in Nat /\ Owners(x)' = Owners(x) + IF x = o THEN 1 ELSE 0
    <3>1. ReleasesOf(Tail(todo["control"]), x) = ReleasesOf(todo["control"], x)
      BY <1>1, <2>2, HeadReleases
    <3>2. x # None /\ held[x] \in Nat
      BY RegistryAssumption DEF TypeOK
    <3>3. held'[x] = held[x] + IF x = o THEN 1 ELSE 0
      BY <2>1, <3>2 DEF TypeOK
    <3>4. held'[x] \in Nat
      BY <3>2, <3>3
    <3>5. Owners(x) \in Nat /\ Owners(x)' = Owners(x) + (held'[x] - held[x])
      BY <1>1, <2>2, <3>1, <3>4, OwnersIfHeld
    <3> QED
      BY ONLY <3>2, <3>3, <3>5
  <2> QED
    BY <2>1, <2>2, <2>3, GetCounts
<1>3. CASE CallForget
  <2> DEFINE mine == {o \in Objects : held[o] > 0 /\ tok[o] = Of("control")}
  <2>1. /\ Calling("control", "forget") /\ todo["control"] \in Seq(Calls)
        /\ UNCHANGED <<dialog, sub>>
    BY <1>1, <1>3, CallNow DEF CallForget
  <2>2. ASSUME NEW o \in mine, Release("control", o, todo["control"]),
               held' = [held EXCEPT ![o] = @ - 1]
        PROVE  Counted'
    <3>1. o \in Objects /\ held[o] > 0 /\ life[o] = "live"
      BY OwnedNow DEF Live
    <3>2. PICK q \in Seq(Calls) :
              /\ todo' = [todo EXCEPT !["control"] = q]
              /\ \A x \in Objects : ReleasesOf(q, x) = ReleasesOf(todo["control"], x)
      BY <1>1, <2>1, <2>2, <3>1, ReleaseLeaves
    <3>3. ASSUME NEW x \in Objects
          PROVE  Owners(x) \in Nat /\ Owners(x)' = Owners(x) - IF x = o THEN 1 ELSE 0
      <4>1. held[x] \in Nat /\ held'[x] = held[x] - IF x = o THEN 1 ELSE 0
        BY <2>2, <3>1 DEF TypeOK
      <4>2. held'[x] \in Nat
        BY <3>1, <4>1
      <4>3. Owners(x) \in Nat /\ Owners(x)' = Owners(x) + (held'[x] - held[x])
        BY <1>1, <2>1, <3>2, <4>2, OwnersIfHeld
      <4> QED
        BY ONLY <4>1, <4>3
    <3> QED
      BY <1>1, <2>2, <3>1, <3>3, ReleaseCounts
  <2>3. ASSUME Proceed("control"), UNCHANGED <<sessionVars, held>>
        PROVE  Counted'
    <3>1. UNCHANGED <<held, dialog, sub>> /\ life' = life /\ refs' = refs
      BY <2>1, <2>3 DEF sessionVars
    <3>2. \A x \in Objects : Owners(x)' = Owners(x)
      BY <1>1, <2>1, <2>3, <3>1, OwnersProceed
    <3> QED
      BY <3>1, <3>2, SameCounts
  <2> QED
    BY <1>3, <2>2, <2>3 DEF CallForget
<1> QED
  BY <1>1, <1>2, <1>3, CountedRelease DEF Control

LEMMA CountedAttach ==
    ASSUME RegistryInv, NEW s \in Sources, NEW t \in Tokens \cup {None}, Attach(s, t)
    PROVE  Counted'
<1> USE DEF RegistryInv
<1> DEFINE q == Detach(s) \o Demand(t)
<1>1. /\ Detach(s) \in Seq(Calls) /\ Demand(t) \in Seq(Calls) /\ q \in Seq(Calls)
      /\ Start(s, q) /\ sub' = [sub EXCEPT ![s] = None]
      /\ held' = held /\ dialog' = dialog /\ life' = life /\ refs' = refs
  BY Attaching
<1>2. todo[s] = <<>> /\ todo' = [todo EXCEPT ![s] = q] /\ s \in Actors
  BY <1>1, StartIsTyped, ActorsAre
<1>3. ASSUME NEW x \in Objects
      PROVE  Owners(x)' = Owners(x)
  <2>1. ReleasesOf(todo[s], x) = 0
    BY <1>2, ListedReleases
  <2>2. ReleasesOf(q, x) = IF sub[s] = x THEN 1 ELSE 0
    <3>1. ReleasesOf(Detach(s), x) = IF sub[s] = x THEN 1 ELSE 0
      BY ListedReleases, RegistryAssumption DEF Detach
    <3>2. ReleasesOf(Demand(t), x) = 0
      BY ListedReleases DEF Demand
    <3>3. ReleasesOf(q, x) = ReleasesOf(Detach(s), x) + ReleasesOf(Demand(t), x)
      BY <1>1, JoinedReleases
    <3> QED
      BY <3>1, <3>2, <3>3
  <2> HIDE DEF q
  <2>3. /\ SubCount(x) \in Nat /\ SubCount(x)' \in Nat
        /\ SubCount(x)' = SubCount(x) - (IF sub[s] = x THEN 1 ELSE 0) + (IF None = x THEN 1 ELSE 0)
    BY ONLY TypeOK, s \in Sources, <1>1, SubStep, ZenonT(60)
  <2>4. None # x
    BY RegistryAssumption
  <2>5. /\ held'[x] \in Nat /\ held'[x] = held[x]
        /\ DialogCount(x) \in Nat /\ DialogCount(x)' \in Nat /\ DialogCount(x)' = DialogCount(x)
    BY <1>1, CountsAreTyped DEF TypeOK, DialogCount, Fibre
  <2>6. /\ Owners(x) \in Nat
        /\ Owners(x)' = Owners(x) + (held'[x] - held[x])
             + (DialogCount(x)' - DialogCount(x)) + (SubCount(x)' - SubCount(x))
             + (ReleasesOf(q, x) - ReleasesOf(todo[s], x))
    BY <1>1, <1>2, <2>3, <2>5, OwnersStep
  <2> QED
    BY <2>1, <2>2, <2>3, <2>4, <2>5, <2>6, SMTT(60)
<1> QED
  BY <1>1, <1>3, SameCounts

LEMMA CountedStatus ==
    ASSUME RegistryInv, CtlStatus
    PROVE  Counted'
<1> USE DEF RegistryInv
<1>1. PICK q \in SetToSeqs(Live) :
          /\ Start("control", CallEach("release", q)) /\ CallEach("release", q) \in Seq(Calls)
          /\ \A o \in Objects : refs'[o] = IF o \in Live THEN refs[o] + 1 ELSE refs[o]
          /\ UNCHANGED <<life, held, dialog, sub>>
  BY Enumerating
<1> DEFINE p == CallEach("release", q)
<1>2. \A o \in Live : Call("release", o) \in Calls
  BY TypedCalls DEF Live
<1>3. /\ DOMAIN p = DOMAIN q
      /\ \A k \in DOMAIN q : p[k] = Call("release", q[k]) /\ q[k] \in Live
      /\ \A i, j \in DOMAIN q : q[i] = q[j] => i = j
      /\ \A x \in Live : \E k \in DOMAIN q : q[k] = x
  BY <1>2, LiveIsFinite, CallsOfSet
<1> HIDE DEF p
<1>4. \A x, y : Call("release", x) = Call("release", y) => x = y
  BY DEF Call
<1>5. ASSUME NEW x \in Objects
      PROVE  ReleasesOf(p, x) = IF x \in Live THEN 1 ELSE 0
  <2>1. CASE x \in Live
    <3>1. PICK k \in DOMAIN q : q[k] = x
      BY <1>3, <2>1
    <3>2. k \in DOMAIN p /\ p[k] = Call("release", x)
      BY <1>3, <3>1
    <3>3. \A i \in DOMAIN p : p[i] = Call("release", x) => i = k
      BY <1>3, <1>4, <3>1
    <3> QED
      BY <2>1, <3>2, <3>3, CountOnce DEF ReleasesOf
  <2>2. CASE x \notin Live
    <3>1. \A i \in DOMAIN p : p[i] # Call("release", x)
      BY <1>3, <1>4, <2>2
    <3> QED
      BY <2>2, <3>1, CountNone DEF ReleasesOf
  <2> QED
    BY <2>1, <2>2
<1>6. ASSUME NEW x \in Objects
      PROVE  Owners(x) \in Nat /\ Owners(x)' = Owners(x) + ReleasesOf(p, x)
  <2>1. Start("control", p) /\ p \in Seq(Calls) /\ UNCHANGED <<held, dialog, sub>>
    BY <1>1 DEF p
  <2> QED
    BY <2>1, OwnersStart, ActorsAre
<1>7. ASSUME NEW x \in Objects
      PROVE  IF life'[x] = "live" THEN refs'[x] = Owners(x)' /\ refs'[x] > 0 ELSE Owners(x)' = 0
  <2>1. /\ IF life[x] = "live" THEN refs[x] = Owners(x) /\ refs[x] > 0 ELSE Owners(x) = 0
        /\ life'[x] = life[x] /\ (x \in Live <=> life[x] = "live")
        /\ refs'[x] = IF x \in Live THEN refs[x] + 1 ELSE refs[x]
    BY <1>1 DEF Counted, Live
  <2> QED
    BY <1>5, <1>6, <2>1
<1> QED
  BY <1>7 DEF Counted

LEMMA CountedNext ==
    ASSUME RegistryInv, [Next]_vars
    PROVE  Counted'
<1>1. TypeOK /\ Counted
  BY DEF RegistryInv
<1>2. CASE \E s \in Sources : Source(s)
  BY <1>2, CountedSource
<1>3. CASE Qt \/ Control
  BY <1>3, CountedQt, CountedControl
<1>4. ASSUME NEW a \in {"qt", "control"}, Chooses(a)
      PROVE  Counted'
  <2>1. PICK calls \in Seq(Calls) :
            Start(a, calls) /\ \A k \in DOMAIN calls : calls[k].call \notin {"release", "destroy"}
    BY <1>4 DEF Chooses
  <2>2. UNCHANGED <<held, dialog, sub, life, refs>>
    BY <1>4 DEF Chooses, sessionVars
  <2>3. ASSUME NEW x \in Objects
        PROVE  Owners(x)' = Owners(x)
    <3>1. ReleasesOf(calls, x) = 0
      BY <2>1, NoReleases
    <3>2. Owners(x) \in Nat /\ Owners(x)' = Owners(x) + ReleasesOf(calls, x)
      BY <1>1, <2>1, <2>2, OwnersStart, ActorsAre
    <3> QED
      BY <3>1, <3>2
  <2> QED
    BY <1>1, <2>2, <2>3, SameCounts
<1>5. CASE UNCHANGED vars
  BY <1>1, <1>5
     DEF vars, sessionVars, holderVars, Counted, Owners, Releases
<1> QED
  BY <1>1, <1>2, <1>3, <1>4, <1>5, NextSteps, CountedAttach, CountedStatus

-----------------------------------------------------------------------------
(* What steps do to the sessions: an actor takes one, releases one,        *)
(* destroys one, or does something else.                                   *)

NoDestroy(q) == \A k \in DOMAIN q : q[k].call # "destroy"

LEMMA JoinedPlaces ==
    ASSUME NEW S, NEW p \in Seq(S), NEW q \in Seq(S), NEW k \in DOMAIN (p \o q)
    PROVE  \/ k \in DOMAIN p /\ (p \o q)[k] = p[k]
           \/ k - Len(p) \in DOMAIN q /\ (p \o q)[k] = q[k - Len(p)]
<1>1. /\ Len(p) \in Nat /\ Len(q) \in Nat /\ DOMAIN p = 1 .. Len(p) /\ DOMAIN q = 1 .. Len(q)
      /\ p \o q \in Seq(S) /\ Len(p \o q) = Len(p) + Len(q)
      /\ \A i \in 1 .. Len(p) + Len(q) : (p \o q)[i] = IF i <= Len(p) THEN p[i] ELSE q[i - Len(p)]
  BY ConcatProperties
<1>2. k \in 1 .. Len(p) + Len(q)
  BY <1>1
<1> QED
  BY <1>1, <1>2

LEMMA NoDestroyJoined ==
    ASSUME NEW p \in Seq(Calls), NEW q \in Seq(Calls), NoDestroy(p), NoDestroy(q)
    PROVE  NoDestroy(p \o q)
BY JoinedPlaces DEF NoDestroy

LEMMA NoDestroyAfter ==
    ASSUME TypeOK, DestroysOnce, NEW a \in Actors, NEW c, Calling(a, c)
    PROVE  NoDestroy(Tail(todo[a]))
<1>1. todo[a] \in Seq(Calls) /\ todo[a] # <<>>
  BY CallNow
<1>2. ASSUME NEW k \in DOMAIN Tail(todo[a])
      PROVE  Tail(todo[a])[k].call # "destroy"
  <2>1. k \in Nat /\ k + 1 \in DOMAIN todo[a] /\ Tail(todo[a])[k] = todo[a][k + 1]
        /\ k \in 1 .. Len(Tail(todo[a]))
    BY <1>1, TailPlaces
  <2>2. k + 1 # 1
    BY <2>1
  <2> QED
    BY <2>1, <2>2 DEF DestroysOnce
<1> QED
  BY <1>2 DEF NoDestroy

Takes ==
    \E a \in Actors, q \in Seq(Calls) :
        /\ todo' = [todo EXCEPT ![a] = q] /\ NoDestroy(q)
        /\ UNCHANGED <<life, tok>> \/ \E t \in Tokens, o \in Objects \cup {None} : Get(t, o)

Releasing ==
    \E a \in Actors, o \in Live, rest \in Seq(Calls) :
        Release(a, o, rest) /\ NoDestroy(rest)

LEMMA ThenTakes ==
    ASSUME TypeOK, DestroysOnce, NEW a \in Actors, NEW c, Calling(a, c),
           NEW calls \in Seq(Calls), NoDestroy(calls),
           Then(a, calls) \/ (calls = <<>> /\ Proceed(a)),
           UNCHANGED <<life, tok>> \/ \E t \in Tokens, o \in Objects \cup {None} : Get(t, o)
    PROVE  Takes
<1> DEFINE q == calls \o Tail(todo[a])
<1>1. todo' = [todo EXCEPT ![a] = q] /\ q \in Seq(Calls) /\ Tail(todo[a]) \in Seq(Calls)
  BY ThenIsTyped, CallNow
<1>2. NoDestroy(q)
  BY <1>1, NoDestroyAfter, NoDestroyJoined
<1> HIDE DEF q
<1> QED
  BY <1>1, <1>2 DEF Takes

LEMMA ProceedTakes ==
    ASSUME TypeOK, DestroysOnce, NEW a \in Actors, NEW c, Calling(a, c), Proceed(a),
           UNCHANGED <<life, tok>> \/ \E t \in Tokens, o \in Objects \cup {None} : Get(t, o)
    PROVE  Takes
<1>1. <<>> \in Seq(Calls) /\ NoDestroy(<<>>)
  BY DEF NoDestroy
<1> QED
  BY <1>1, ThenTakes

LEMMA StartTakes ==
    ASSUME TypeOK, NEW a \in Actors, NEW calls \in Seq(Calls), NoDestroy(calls),
           Start(a, calls), UNCHANGED <<life, tok>>
    PROVE  Takes
<1>1. todo' = [todo EXCEPT ![a] = calls]
  BY StartIsTyped
<1> QED
  BY <1>1 DEF Takes

LEMMA EachIsNoDestroy ==
    ASSUME NEW q, NEW c, c # "destroy"
    PROVE  NoDestroy(CallEach(c, q))
<1>1. DOMAIN CallEach(c, q) = DOMAIN q /\ \A k \in DOMAIN q : CallEach(c, q)[k].call = c
  BY DEF CallEach, Call
<1> QED
  BY <1>1 DEF NoDestroy

LEMMA ListsWithoutDestroy ==
    /\ NoDestroy(<<>>)
    /\ \A c, x : c # "destroy" => NoDestroy(<<Call(c, x)>>)
    /\ \A x : NoDestroy(<<Call("unsubscribe", x), Call("release", x)>>)
    /\ \A t, x : NoDestroy(<<Call("know", t), Call("push", x), Call("bump", x), Call("release", x)>>)
<1>1. NoDestroy(<<>>)
  BY DEF NoDestroy
<1>2. \A c, x : c # "destroy" => NoDestroy(<<Call(c, x)>>)
  BY DEF NoDestroy, Call
<1>3. \A x : NoDestroy(<<Call("unsubscribe", x), Call("release", x)>>)
  BY DEF NoDestroy, Call
<1>4. \A t, x : NoDestroy(<<Call("know", t), Call("push", x), Call("bump", x), Call("release", x)>>)
  BY DEF NoDestroy, Call
<1> QED
  BY <1>1, <1>2, <1>3, <1>4

\* The Qt thread drops a session, the control socket forgets one.
LEMMA DropReleases ==
    ASSUME RegistryInv, CallDrop
    PROVE  Releasing
<1>1. TypeOK /\ DestroysOnce /\ "qt" \in Actors
  BY ActorsAre DEF RegistryInv
<1>2. /\ Calling("qt", "drop") /\ Release("qt", dialog[Of("qt")], Tail(todo["qt"]))
      /\ dialog[Of("qt")] \in Live /\ Tail(todo["qt"]) \in Seq(Calls)
  BY <1>1, CallNow, OwnedNow DEF CallDrop
<1>3. NoDestroy(Tail(todo["qt"]))
  BY <1>1, <1>2, NoDestroyAfter
<1> QED
  BY <1>1, <1>2, <1>3 DEF Releasing

LEMMA ForgetReleases ==
    ASSUME RegistryInv, CallForget
    PROVE  Releasing \/ (Proceed("control") /\ UNCHANGED <<life, tok, refs>>)
<1>1. TypeOK /\ DestroysOnce /\ "control" \in Actors
  BY ActorsAre DEF RegistryInv
<1>2. /\ todo["control"] \in Seq(Calls) /\ todo["control"][1].call = "forget"
  BY <1>1, CallNow DEF CallForget
<1>3. NoDestroy(todo["control"])
  BY <1>1, <1>2 DEF NoDestroy, DestroysOnce
<1>4. ASSUME NEW o \in Objects, held[o] > 0, Release("control", o, todo["control"])
      PROVE  Releasing
  <2>1. o \in Live
    BY <1>4, OwnedNow
  <2> QED
    BY <1>1, <1>2, <1>3, <1>4, <2>1 DEF Releasing
<1> QED
  BY <1>4 DEF CallForget, sessionVars

LEMMA StepKinds ==
    ASSUME RegistryInv, [Next]_vars
    PROVE  \/ Takes \/ Releasing
           \/ \E a \in Actors : CallDestroy(a)
           \/ UNCHANGED vars
<1> USE DEF RegistryInv
<1>1. ASSUME NEW a \in Actors, CallRelease(a)
      PROVE  Releasing
  <2>1. /\ Calling(a, "release") /\ Release(a, Of(a), Tail(todo[a])) /\ Of(a) \in Live
        /\ Tail(todo[a]) \in Seq(Calls)
    BY <1>1, CallNow, OwnedNow DEF CallRelease
  <2>2. NoDestroy(Tail(todo[a]))
    BY <2>1, NoDestroyAfter
  <2> QED
    BY <2>1, <2>2 DEF Releasing
<1>2. ASSUME NEW s \in Sources, Source(s)
      PROVE  Takes \/ Releasing \/ \E a \in Actors : CallDestroy(a)
  <2>1. s \in Actors
    BY ActorsAre
  <2>2. CASE CallUnsubscribe(s) \/ CallKnow(s) \/ CallPush(s) \/ CallBump(s)
    <3>1. PICK c : Calling(s, c) /\ Proceed(s) /\ UNCHANGED <<life, tok>>
      BY <2>2 DEF CallUnsubscribe, CallKnow, CallPush, CallBump, sessionVars
    <3> QED
      BY <2>1, <3>1, ProceedTakes
  <2>3. CASE CallGet(s)
    <3>1. PICK o \in Objects \cup {None} :
            /\ Get(Of(s), o)
            /\ Then(s, IF o = None THEN <<>>
                       ELSE <<Call("know", Of(s)), Call("push", o), Call("bump", o),
                              Call("release", o)>>)
      BY <2>3 DEF CallGet
    <3> DEFINE calls == IF o = None THEN <<>>
                        ELSE <<Call("know", Of(s)), Call("push", o), Call("bump", o),
                               Call("release", o)>>
    <3>2. Calling(s, "get") /\ Of(s) \in Tokens
      BY <2>1, <2>3, CallNow DEF CallGet
    <3>3. calls \in Seq(Calls)
      BY <3>2, TypedCalls
    <3>4. NoDestroy(calls)
      BY ListsWithoutDestroy
    <3>5. Then(s, calls)
      BY <3>1
    <3> HIDE DEF calls
    <3> QED
      BY <2>1, <3>1, <3>2, <3>3, <3>4, <3>5, ThenTakes
  <2> QED
    BY <1>1, <1>2, <2>1, <2>2, <2>3 DEF Source
<1>3. ASSUME Qt
      PROVE  Takes \/ Releasing \/ \E a \in Actors : CallDestroy(a)
  <2>1. "qt" \in Actors
    BY ActorsAre
  <2>2. CASE CallRefresh
    <3>1. PICK new \in SetToSeqs({t \in known : dialog[t] = None}),
               old \in SetToSeqs({t \in Tokens \ known : dialog[t] # None}) :
              Then("qt", CallEach("take", new) \o CallEach("drop", old))
      BY <2>2 DEF CallRefresh
    <3> DEFINE p == CallEach("take", new)
               r == CallEach("drop", old)
    <3>2. /\ IsFiniteSet({t \in known : dialog[t] = None})
          /\ IsFiniteSet({t \in Tokens \ known : dialog[t] # None})
      BY RegistryAssumption, FS_Subset DEF TypeOK
    <3>3. \A t \in Tokens : Call("take", t) \in Calls /\ Call("drop", t) \in Calls
      BY TypedCalls
    <3>4. p \in Seq(Calls)
      <4>1. \A t \in {x \in known : dialog[x] = None} : Call("take", t) \in Calls
        BY <3>3 DEF TypeOK
      <4> QED
        BY <3>2, <4>1, CallsOfSet
    <3>5. r \in Seq(Calls)
      <4>1. \A t \in {x \in Tokens \ known : dialog[x] # None} : Call("drop", t) \in Calls
        BY <3>3
      <4> QED
        BY <3>2, <4>1, CallsOfSet
    <3>6. NoDestroy(p) /\ NoDestroy(r)
      BY EachIsNoDestroy
    <3>7. Then("qt", p \o r)
      BY <3>1
    <3> HIDE DEF p, r
    <3>8. p \o r \in Seq(Calls) /\ NoDestroy(p \o r)
      BY <3>4, <3>5, <3>6, NoDestroyJoined
    <3>9. Calling("qt", "refresh") /\ UNCHANGED <<life, tok>>
      BY <2>2 DEF CallRefresh, sessionVars
    <3> QED
      BY <2>1, <3>7, <3>8, <3>9, ThenTakes
  <2>3. CASE CallTake
    <3>1. PICK o \in Objects \cup {None} : Get(Of("qt"), o)
      BY <2>3 DEF CallTake
    <3>2. Calling("qt", "take") /\ Of("qt") \in Tokens /\ Proceed("qt")
      BY <2>1, <2>3, CallNow DEF CallTake
    <3> QED
      BY <2>1, <3>1, <3>2, ProceedTakes
  <2>4. CASE CallDrop
    BY <2>4, DropReleases
  <2>5. CASE CallPeek
    <3>1. PICK o \in Objects \cup {None} :
            Get(Of("qt"), o) /\ Then("qt", IF o = None THEN <<>> ELSE <<Call("release", o)>>)
      BY <2>5 DEF CallPeek
    <3> DEFINE calls == IF o = None THEN <<>> ELSE <<Call("release", o)>>
    <3>2. Calling("qt", "peek") /\ Of("qt") \in Tokens
      BY <2>1, <2>5, CallNow DEF CallPeek
    <3>3. calls \in Seq(Calls) /\ Then("qt", calls) /\ NoDestroy(calls)
      BY <3>1, TypedCalls, ListsWithoutDestroy
    <3> HIDE DEF calls
    <3> QED
      BY <2>1, <3>1, <3>2, <3>3, ThenTakes
  <2> QED
    BY <1>1, <1>3, <2>1, <2>2, <2>3, <2>4, <2>5 DEF Qt
<1>4. ASSUME Control
      PROVE  Takes \/ Releasing \/ \E a \in Actors : CallDestroy(a)
  <2>1. "control" \in Actors
    BY ActorsAre
  <2>2. CASE CallHold
    <3>1. PICK o \in Objects \cup {None} : Get(Of("control"), o)
      BY <2>2 DEF CallHold
    <3>2. Calling("control", "hold") /\ Of("control") \in Tokens /\ Proceed("control")
      BY <2>1, <2>2, CallNow DEF CallHold
    <3> QED
      BY <2>1, <3>1, <3>2, ProceedTakes
  <2>3. CASE CallForget
    <3>1. CASE Proceed("control") /\ UNCHANGED <<life, tok>>
      <4>1. Calling("control", "forget")
        BY <2>3 DEF CallForget
      <4> QED
        BY <2>1, <3>1, <4>1, ProceedTakes
    <3> QED
      BY <2>3, <3>1, ForgetReleases
  <2> QED
    BY <1>1, <1>4, <2>1, <2>2, <2>3 DEF Control
<1>5. ASSUME NEW a \in {"qt", "control"}, Chooses(a)
      PROVE  Takes
  <2>1. PICK calls \in Seq(Calls) :
            Start(a, calls) /\ \A k \in DOMAIN calls : calls[k].call \notin {"release", "destroy"}
    BY <1>5 DEF Chooses
  <2>2. UNCHANGED <<life, tok>> /\ NoDestroy(calls)
    BY <1>5, <2>1 DEF Chooses, sessionVars, NoDestroy
  <2> QED
    BY <2>1, <2>2, ActorsAre, StartTakes
<1>6. ASSUME NEW s \in Sources, NEW t \in Tokens \cup {None}, Attach(s, t)
      PROVE  Takes
  <2>1. /\ Detach(s) \in Seq(Calls) /\ Demand(t) \in Seq(Calls)
        /\ Detach(s) \o Demand(t) \in Seq(Calls) /\ Start(s, Detach(s) \o Demand(t))
        /\ UNCHANGED <<life, tok>>
    BY <1>6, Attaching
  <2>2. NoDestroy(Detach(s)) /\ NoDestroy(Demand(t))
    BY ListsWithoutDestroy DEF Detach, Demand
  <2> QED
    BY <2>1, <2>2, NoDestroyJoined, ActorsAre, StartTakes
<1>7. ASSUME CtlStatus
      PROVE  Takes
  <2>1. PICK q \in SetToSeqs(Live) :
            /\ Start("control", CallEach("release", q)) /\ CallEach("release", q) \in Seq(Calls)
            /\ UNCHANGED <<life, tok>>
    BY <1>7, Enumerating
  <2> QED
    BY <2>1, EachIsNoDestroy, ActorsAre, StartTakes
<1> QED
  BY <1>2, <1>3, <1>4, <1>5, <1>6, <1>7, NextSteps

\* What getting a session does to the registry.
LEMMA GetEffect ==
    ASSUME TypeOK, NEW t \in Tokens, NEW o \in Objects \cup {None}, Get(t, o)
    PROVE  \/ UNCHANGED <<life, tok>>
           \/ /\ o \in Objects /\ life[o] = "free" /\ LiveOf(t) = {}
              /\ life' = [life EXCEPT ![o] = "live"] /\ tok' = [tok EXCEPT ![o] = t]
BY DEF Get, Fresh

LEMMA LiveTokensNext ==
    ASSUME RegistryInv, [Next]_vars
    PROVE  LiveTokens' /\ \A o \in Live : tok'[o] = tok[o]
<1> USE DEF RegistryInv
<1>1. ASSUME Live' \subseteq Live, \A o \in Live : tok'[o] = tok[o]
      PROVE  LiveTokens' /\ \A o \in Live : tok'[o] = tok[o]
  BY <1>1 DEF LiveTokens
<1>2. CASE UNCHANGED <<life, tok>>
  BY <1>1, <1>2 DEF Live
<1>3. ASSUME NEW t \in Tokens, NEW o \in Objects, life[o] = "free", LiveOf(t) = {},
             life' = [life EXCEPT ![o] = "live"], tok' = [tok EXCEPT ![o] = t]
      PROVE  LiveTokens' /\ \A x \in Live : tok'[x] = tok[x]
  <2>1. Live' = Live \cup {o} /\ o \notin Live
    BY <1>3 DEF Live, TypeOK
  <2>2. tok'[o] = t /\ \A x \in Live : tok'[x] = tok[x]
    BY <1>3, <2>1 DEF Live, TypeOK
  <2>3. \A x \in Live : tok[x] # t
    BY <1>3 DEF LiveOf
  <2> QED
    BY <2>1, <2>2, <2>3 DEF LiveTokens
<1>4. CASE Takes
  BY <1>2, <1>3, <1>4, GetEffect DEF Takes
<1>5. CASE Releasing
  <2>1. PICK a \in Actors, o \in Live, rest \in Seq(Calls) : Release(a, o, rest)
    BY <1>5 DEF Releasing
  <2>2. Live' \subseteq Live /\ tok' = tok
    BY <2>1 DEF Release, Live, TypeOK
  <2> QED
    BY <1>1, <2>2
<1>6. ASSUME NEW a \in Actors, CallDestroy(a)
      PROVE  LiveTokens' /\ \A x \in Live : tok'[x] = tok[x]
  <2>1. Of(a) \in Objects /\ life[Of(a)] = "dying"
    BY <1>6, CallNow DEF CallDestroy, DestroysOnce
  <2>2. /\ life' = [life EXCEPT ![Of(a)] = "free"] /\ tok' = [tok EXCEPT ![Of(a)] = None]
    BY <1>6 DEF CallDestroy
  <2>3. Live' \subseteq Live /\ \A x \in Live : tok'[x] = tok[x]
    BY <2>1, <2>2 DEF Live, TypeOK
  <2> QED
    BY <1>1, <2>3
<1>7. CASE UNCHANGED vars
  BY <1>2, <1>7 DEF vars, sessionVars
<1> QED
  BY <1>4, <1>5, <1>6, <1>7, StepKinds

\* A step of an actor that is left with no session to destroy.
LEMMA DestroysKept ==
    ASSUME TypeOK, DestroysOnce, NEW a \in Actors, NEW q \in Seq(Calls),
           todo' = [todo EXCEPT ![a] = q], NoDestroy(q),
           \A b \in Actors \ {a} : Calling(b, "destroy") => life'[Of(b)] = "dying"
    PROVE  DestroysOnce'
<1>1. todo'[a] = q /\ \A b \in Actors \ {a} : todo'[b] = todo[b]
  BY DEF TypeOK
<1>2. ~Calling(a, "destroy")'
  <2>1. q # <<>> => Head(q) = q[1] /\ 1 \in DOMAIN q
    OBVIOUS
  <2> QED
    BY <1>1, <2>1 DEF Calling, Idle, NoDestroy
<1>3. \A b \in Actors \ {a} : /\ Calling(b, "destroy")' <=> Calling(b, "destroy")
                              /\ Of(b)' = Of(b)
  BY <1>1 DEF Calling, Idle, Of
<1>4. ASSUME NEW b \in Actors, NEW k \in DOMAIN todo'[b], todo'[b][k].call = "destroy"
      PROVE  k = 1 /\ life'[todo'[b][k].of] = "dying"
  <2>1. b # a
    BY <1>1, <1>4 DEF NoDestroy
  <2>2. todo'[b] = todo[b] /\ todo[b] \in Seq(Calls)
    BY <1>1, <2>1 DEF TypeOK
  <2>3. k = 1
    BY <1>4, <2>2 DEF DestroysOnce
  <2>4. todo[b] # <<>> /\ Head(todo[b]) = todo[b][1]
    BY <1>4, <2>2
  <2>5. Calling(b, "destroy") /\ Of(b) = todo[b][1].of
    BY <1>4, <2>2, <2>3, <2>4 DEF Calling, Idle, Of
  <2> QED
    BY <2>1, <2>2, <2>3, <2>5
<1>5. ASSUME NEW b \in Actors, NEW c \in Actors,
             Calling(b, "destroy")', Calling(c, "destroy")', Of(b)' = Of(c)'
      PROVE  b = c
  <2>1. b # a /\ c # a
    BY <1>2, <1>5
  <2>2. Calling(b, "destroy") /\ Calling(c, "destroy") /\ Of(b) = Of(c)
    BY <1>3, <1>5, <2>1
  <2> QED
    BY <2>2 DEF DestroysOnce
<1> QED
  BY <1>4, <1>5 DEF DestroysOnce

LEMMA DestroysOnceNext ==
    ASSUME RegistryInv, [Next]_vars
    PROVE  DestroysOnce'
<1> USE DEF RegistryInv
<1>1. ASSUME NEW b \in Actors, Calling(b, "destroy")
      PROVE  life[Of(b)] = "dying" /\ Of(b) \in Objects
  BY <1>1, CallNow DEF DestroysOnce
<1>2. CASE Takes
  <2>1. PICK a \in Actors, q \in Seq(Calls) :
            /\ todo' = [todo EXCEPT ![a] = q] /\ NoDestroy(q)
            /\ UNCHANGED <<life, tok>> \/ \E t \in Tokens, o \in Objects \cup {None} : Get(t, o)
    BY <1>2 DEF Takes
  <2>2. \A o \in Objects : life[o] = "dying" => life'[o] = "dying"
    <3>1. CASE UNCHANGED life
      BY <3>1
    <3>2. CASE \E o \in Objects : life[o] = "free" /\ life' = [life EXCEPT ![o] = "live"]
      BY <3>2 DEF TypeOK
    <3> QED
      BY <2>1, <3>1, <3>2, GetEffect
  <2>3. \A b \in Actors \ {a} : Calling(b, "destroy") => life'[Of(b)] = "dying"
    BY <1>1, <2>2
  <2> QED
    BY <2>1, <2>3, DestroysKept
<1>3. CASE Releasing
  <2>1. PICK a \in Actors, o \in Live, rest \in Seq(Calls) : Release(a, o, rest) /\ NoDestroy(rest)
    BY <1>3 DEF Releasing
  <2>2. o \in Objects /\ life[o] = "live"
    BY DEF Live
  <2>3. CASE UNCHANGED life /\ todo' = [todo EXCEPT ![a] = rest]
    <3>1. \A b \in Actors \ {a} : Calling(b, "destroy") => life'[Of(b)] = "dying"
      BY <1>1, <2>3
    <3> QED
      BY <2>1, <2>3, <3>1, DestroysKept
  <2>4. CASE /\ life' = [life EXCEPT ![o] = "dying"]
             /\ todo' = [todo EXCEPT ![a] = <<Call("destroy", o)>> \o rest]
    <3> DEFINE q == <<Call("destroy", o)>> \o rest
    <3>1. /\ q \in Seq(Calls) /\ q # <<>> /\ q[1] = Call("destroy", o) /\ Head(q) = q[1]
          /\ \A k \in DOMAIN q : k # 1 => q[k].call # "destroy"
      <4>1. <<Call("destroy", o)>> \in Seq(Calls) /\ Len(<<Call("destroy", o)>>) = 1
        BY <2>2, TypedCalls
      <4>2. q \in Seq(Calls) /\ q # <<>> /\ q[1] = Call("destroy", o) /\ Head(q) = q[1]
        BY <4>1
      <4>3. ASSUME NEW k \in DOMAIN q, k # 1
            PROVE  q[k].call # "destroy"
        <5>1. \/ k \in DOMAIN <<Call("destroy", o)>>
              \/ k - 1 \in DOMAIN rest /\ q[k] = rest[k - 1]
          BY <4>1, JoinedPlaces
        <5>2. DOMAIN <<Call("destroy", o)>> = {1}
          OBVIOUS
        <5> QED
          BY <2>1, <4>3, <5>1, <5>2 DEF NoDestroy
      <4> QED
        BY <4>2, <4>3
    <3> HIDE DEF q
    <3>2. todo'[a] = q /\ \A b \in Actors \ {a} : todo'[b] = todo[b]
      BY <2>4 DEF q, TypeOK
    <3>3. life'[o] = "dying" /\ \A x \in Objects : x # o => life'[x] = life[x]
      BY <2>2, <2>4 DEF TypeOK
    <3>4. Of(a)' = o
      BY <3>1, <3>2 DEF Of, Call
    <3>5. \A b \in Actors \ {a} : /\ Calling(b, "destroy")' <=> Calling(b, "destroy")
                                  /\ Of(b)' = Of(b)
      BY <3>2 DEF Calling, Idle, Of
    <3>6. \A b \in Actors \ {a} : Calling(b, "destroy") => Of(b) # o /\ life'[Of(b)] = "dying"
      BY <1>1, <2>2, <3>3
    <3>7. ASSUME NEW b \in Actors, NEW k \in DOMAIN todo'[b], todo'[b][k].call = "destroy"
          PROVE  k = 1 /\ life'[todo'[b][k].of] = "dying"
      <4>1. CASE b = a
        <5>1. k = 1
          BY <3>1, <3>2, <3>7, <4>1
        <5>2. q[1].of = o
          BY <3>1 DEF Call
        <5> QED
          BY <3>2, <3>3, <4>1, <5>1, <5>2
      <4>2. CASE b # a
        <5>1. todo'[b] = todo[b] /\ todo[b] \in Seq(Calls)
          BY <3>2, <4>2 DEF TypeOK
        <5>2. k = 1
          BY <3>7, <5>1 DEF DestroysOnce
        <5>3. todo[b] # <<>> /\ Head(todo[b]) = todo[b][1]
          BY <3>7, <5>1
        <5>4. Calling(b, "destroy") /\ Of(b) = todo[b][1].of
          BY <3>7, <5>1, <5>2, <5>3 DEF Calling, Idle, Of
        <5> QED
          BY <3>6, <4>2, <5>1, <5>2, <5>4
      <4> QED
        BY <4>1, <4>2
    <3>8. ASSUME NEW b \in Actors, NEW c \in Actors,
                 Calling(b, "destroy")', Calling(c, "destroy")', Of(b)' = Of(c)'
          PROVE  b = c
      <4>1. CASE b # a /\ c # a
        BY <3>5, <3>8, <4>1 DEF DestroysOnce
      <4>2. CASE b = a /\ c # a
        BY <3>4, <3>5, <3>6, <3>8, <4>2
      <4>3. CASE b # a /\ c = a
        BY <3>4, <3>5, <3>6, <3>8, <4>3
      <4> QED
        BY <4>1, <4>2, <4>3
    <3> QED
      BY <3>7, <3>8 DEF DestroysOnce
  <2> QED
    BY <2>1, <2>3, <2>4 DEF Release
<1>4. ASSUME NEW a \in Actors, CallDestroy(a)
      PROVE  DestroysOnce'
  <2>1. /\ Calling(a, "destroy") /\ Tail(todo[a]) \in Seq(Calls)
        /\ todo' = [todo EXCEPT ![a] = Tail(todo[a])] /\ life' = [life EXCEPT ![Of(a)] = "free"]
    BY <1>4, CallNow DEF CallDestroy, Proceed
  <2>2. NoDestroy(Tail(todo[a]))
    BY <2>1, NoDestroyAfter
  <2>3. \A b \in Actors \ {a} : Calling(b, "destroy") => life'[Of(b)] = "dying"
    <3>1. \A b \in Actors \ {a} : Calling(b, "destroy") => Of(b) # Of(a)
      BY <2>1 DEF DestroysOnce
    <3> QED
      BY <1>1, <2>1, <3>1 DEF TypeOK
  <2> QED
    BY <2>1, <2>2, <2>3, DestroysKept
<1>5. CASE UNCHANGED vars
  BY <1>5 DEF vars, sessionVars, DestroysOnce, Calling, Idle, Of
<1> QED
  BY <1>2, <1>3, <1>4, <1>5, StepKinds

-----------------------------------------------------------------------------
(* The Qt thread takes and drops sessions one by one.                      *)

LEMMA QtTail ==
    ASSUME NEW q \in Seq(Calls), q # <<>>, NEW d, NEW e, QtFits(q, d),
           \A t \in Tokens :
              e[t] = d[t] \/ (Head(q).call \in {"take", "drop"} /\ t = Head(q).of)
    PROVE  QtFits(Tail(q), e)
<1>1. /\ Head(q) = q[1] /\ 1 \in DOMAIN q /\ Len(Tail(q)) = Len(q) - 1 /\ Len(q) \in Nat
      /\ Tail(q) \in Seq(Calls)
  OBVIOUS
<1>2. \A k \in DOMAIN Tail(q) : k \in Nat /\ k # 0 /\ k + 1 \in DOMAIN q /\ Tail(q)[k] = q[k + 1]
  <2>1. \A k \in DOMAIN Tail(q) : k \in Nat /\ k + 1 \in DOMAIN q /\ Tail(q)[k] = q[k + 1]
    BY TailPlaces
  <2>2. \A k \in DOMAIN Tail(q) : k # 0
    BY <1>1
  <2> QED
    BY <2>1, <2>2
<1>3. ASSUME NEW k \in DOMAIN Tail(q), Tail(q)[k].call \in {"take", "drop"}
      PROVE  e[Tail(q)[k].of] = d[Tail(q)[k].of]
  <2>1. Tail(q)[k] \in Calls
    BY <1>1
  <2>2. Tail(q)[k].of \in Tokens
    BY <1>3, <2>1, CallIsTyped
  <2>3. 1 # k + 1 /\ k + 1 \in DOMAIN q /\ Tail(q)[k] = q[k + 1]
    BY <1>2
  <2>4. Head(q).call \in {"take", "drop"} => q[1].of # Tail(q)[k].of
    BY <1>1, <1>3, <2>3 DEF QtFits
  <2> QED
    BY <1>1, <2>2, <2>4
<1>4. ASSUME NEW k \in DOMAIN Tail(q)
      PROVE  /\ Tail(q)[k].call = "refresh" => k = Len(Tail(q))
             /\ Tail(q)[k].call = "take" => e[Tail(q)[k].of] = None
             /\ Tail(q)[k].call = "drop" => e[Tail(q)[k].of] # None
             /\ \A j \in DOMAIN Tail(q) :
                   j # k /\ Tail(q)[k].call \in {"take", "drop"}
                         /\ Tail(q)[j].call \in {"take", "drop"} => Tail(q)[j].of # Tail(q)[k].of
  <2>1. k \in Nat /\ k + 1 \in DOMAIN q /\ Tail(q)[k] = q[k + 1]
    BY <1>2
  <2>2. /\ q[k + 1].call = "refresh" => k + 1 = Len(q)
        /\ q[k + 1].call = "take" => d[q[k + 1].of] = None
        /\ q[k + 1].call = "drop" => d[q[k + 1].of] # None
    BY <2>1 DEF QtFits
  <2>3. ASSUME NEW j \in DOMAIN Tail(q), j # k, Tail(q)[k].call \in {"take", "drop"},
               Tail(q)[j].call \in {"take", "drop"}
        PROVE  Tail(q)[j].of # Tail(q)[k].of
    <3>1. j \in Nat /\ j + 1 \in DOMAIN q /\ Tail(q)[j] = q[j + 1] /\ j + 1 # k + 1
      BY <1>2, <2>1, <2>3
    <3> QED
      BY <2>1, <2>3, <3>1 DEF QtFits
  <2>4. Tail(q)[k].call = "refresh" => k = Len(Tail(q))
    <3>1. k + 1 = Len(q) => k = Len(Tail(q))
      BY ONLY <1>1, <2>1
    <3> QED
      BY ONLY <2>1, <2>2, <3>1
  <2>5. Tail(q)[k].call \in {"take", "drop"} => e[Tail(q)[k].of] = d[q[k + 1].of]
    BY <1>3, <2>1
  <2> QED
    BY ONLY <2>1, <2>2, <2>3, <2>4, <2>5
<1> QED
  BY <1>4 DEF QtFits

LEMMA QtJoined ==
    ASSUME NEW p \in Seq(Calls), NEW q \in Seq(Calls), NEW d, QtFits(p, d), QtFits(q, d),
           \A i \in DOMAIN p : p[i].call # "refresh",
           \A i \in DOMAIN p, j \in DOMAIN q :
              p[i].call \in {"take", "drop"} /\ q[j].call \in {"take", "drop"} => p[i].of # q[j].of
    PROVE  QtFits(p \o q, d)
<1> DEFINE z == p \o q
<1>1. /\ Len(p) \in Nat /\ Len(q) \in Nat /\ Len(z) = Len(p) + Len(q)
      /\ DOMAIN z = 1 .. Len(z)
  <2>1. z \in Seq(Calls) /\ Len(z) = Len(p) + Len(q)
    BY ConcatProperties
  <2> HIDE DEF z
  <2> QED
    BY <2>1
<1>2. \A k \in DOMAIN z : \/ k \in DOMAIN p /\ z[k] = p[k]
                          \/ k - Len(p) \in DOMAIN q /\ z[k] = q[k - Len(p)]
  BY JoinedPlaces
<1> HIDE DEF z
<1>3. ASSUME NEW k \in DOMAIN z
      PROVE  /\ z[k].call = "refresh" => k = Len(z)
             /\ z[k].call = "take" => d[z[k].of] = None
             /\ z[k].call = "drop" => d[z[k].of] # None
  <2>1. CASE k \in DOMAIN p /\ z[k] = p[k]
    BY <2>1 DEF QtFits
  <2>2. CASE k - Len(p) \in DOMAIN q /\ z[k] = q[k - Len(p)]
    <3>1. /\ q[k - Len(p)].call = "refresh" => k - Len(p) = Len(q)
          /\ q[k - Len(p)].call = "take" => d[q[k - Len(p)].of] = None
          /\ q[k - Len(p)].call = "drop" => d[q[k - Len(p)].of] # None
      BY <2>2 DEF QtFits
    <3>2. k \in Int
      BY <1>1
    <3> QED
      BY <1>1, <2>2, <3>1, <3>2
  <2> QED
    BY <1>2, <2>1, <2>2
<1>4. ASSUME NEW k \in DOMAIN z, NEW j \in DOMAIN z, j # k,
             z[k].call \in {"take", "drop"}, z[j].call \in {"take", "drop"}
      PROVE  z[j].of # z[k].of
  <2>1. CASE k \in DOMAIN p /\ z[k] = p[k] /\ j \in DOMAIN p /\ z[j] = p[j]
    BY <1>4, <2>1 DEF QtFits
  <2>2. CASE /\ k - Len(p) \in DOMAIN q /\ z[k] = q[k - Len(p)]
             /\ j - Len(p) \in DOMAIN q /\ z[j] = q[j - Len(p)]
    <3>1. j - Len(p) # k - Len(p)
      BY <1>1, <1>4
    <3> QED
      BY <1>4, <2>2, <3>1 DEF QtFits
  <2>3. CASE k \in DOMAIN p /\ z[k] = p[k] /\ j - Len(p) \in DOMAIN q /\ z[j] = q[j - Len(p)]
    BY <1>4, <2>3
  <2>4. CASE j \in DOMAIN p /\ z[j] = p[j] /\ k - Len(p) \in DOMAIN q /\ z[k] = q[k - Len(p)]
    BY <1>4, <2>4
  <2> QED
    BY <1>2, <2>1, <2>2, <2>3, <2>4
<1>5. QtFits(z, d)
  BY <1>3, <1>4 DEF QtFits
<1> QED
  BY <1>5 DEF z

\* One call, and one for each token of a set.
LEMMA QtOne ==
    ASSUME NEW c \in Calls, NEW d, c.call = "take" => d[c.of] = None,
           c.call = "drop" => d[c.of] # None
    PROVE  <<c>> \in Seq(Calls) /\ QtFits(<<c>>, d) /\ DOMAIN <<c>> = {1} /\ <<c>>[1] = c
<1>1. <<c>> \in Seq(Calls) /\ DOMAIN <<c>> = {1} /\ <<c>>[1] = c /\ Len(<<c>>) = 1
  OBVIOUS
<1> QED
  BY <1>1 DEF QtFits

LEMMA QtEach ==
    ASSUME NEW S, S \subseteq Tokens, NEW q \in SetToSeqs(S), NEW c \in {"take", "drop"}, NEW d,
           \A t \in S : (c = "take" => d[t] = None) /\ (c = "drop" => d[t] # None)
    PROVE  /\ CallEach(c, q) \in Seq(Calls) /\ QtFits(CallEach(c, q), d)
           /\ \A k \in DOMAIN CallEach(c, q) :
                 CallEach(c, q)[k].call = c /\ CallEach(c, q)[k].of \in S
<1>1. IsFiniteSet(S) /\ \A t \in S : Call(c, t) \in Calls
  BY RegistryAssumption, FS_Subset, TypedCalls
<1>2. /\ CallEach(c, q) \in Seq(Calls) /\ DOMAIN CallEach(c, q) = DOMAIN q
      /\ \A k \in DOMAIN q : CallEach(c, q)[k] = Call(c, q[k]) /\ q[k] \in S
      /\ \A i, j \in DOMAIN q : q[i] = q[j] => i = j
  BY <1>1, CallsOfSet
<1>3. \A x : Call(c, x).call = c /\ Call(c, x).of = x
  BY DEF Call
<1> DEFINE p == CallEach(c, q)
<1>4. \A k \in DOMAIN p : p[k].call = c /\ p[k].of \in S /\ p[k].of = q[k]
  BY <1>2, <1>3
<1>5. \A j, k \in DOMAIN p : j # k => p[j].of # p[k].of
  BY <1>2, <1>4
<1>6. p \in Seq(Calls)
  BY <1>2
<1> HIDE DEF p
<1>7. QtFits(p, d)
  BY <1>4, <1>5 DEF QtFits
<1> QED
  BY <1>4, <1>6, <1>7 DEF p

\* A step of another actor leaves the todo of the Qt thread alone.
LEMMA QtOthers ==
    ASSUME TypeOK, QtInv, NEW a \in Actors, a # "qt", NEW q,
           todo' = [todo EXCEPT ![a] = q], UNCHANGED dialog
    PROVE  QtInv'
<1>1. todo'["qt"] = todo["qt"]
  BY ActorsAre DEF TypeOK
<1> QED
  BY <1>1 DEF QtInv

LEMMA QtRelease ==
    ASSUME TypeOK, NEW o \in Objects, NEW q \in Seq(Calls), Release("qt", o, q),
           QtFits(q, dialog')
    PROVE  QtInv'
<1>1. CASE todo' = [todo EXCEPT !["qt"] = q]
  BY <1>1, ActorsAre DEF QtInv, TypeOK
<1>2. CASE todo' = [todo EXCEPT !["qt"] = <<Call("destroy", o)>> \o q]
  <2> DEFINE c == Call("destroy", o)
  <2>1. c \in Calls /\ c.call = "destroy"
    BY TypedCalls DEF Call
  <2> HIDE DEF c
  <2>2. <<c>> \in Seq(Calls) /\ QtFits(<<c>>, dialog') /\ DOMAIN <<c>> = {1} /\ <<c>>[1] = c
    BY <2>1, QtOne
  <2>3. QtFits(<<c>> \o q, dialog')
    BY <2>1, <2>2, QtJoined
  <2> QED
    BY <1>2, <2>3, ActorsAre DEF QtInv, TypeOK, c
<1> QED
  BY <1>1, <1>2 DEF Release

LEMMA QtActs ==
    ASSUME RegistryInv, Qt
    PROVE  QtInv'
<1>1. TypeOK /\ QtInv /\ QtFits(todo["qt"], dialog) /\ "qt" \in Actors /\ TypeOK'
  BY TypeQt, ActorsAre DEF RegistryInv, QtInv
<1>2. ASSUME NEW q, todo' = [todo EXCEPT !["qt"] = q]
      PROVE  todo'["qt"] = q
  BY <1>1, <1>2 DEF TypeOK
<1>3. ASSUME NEW c, Calling("qt", c)
      PROVE  /\ todo["qt"] \in Seq(Calls) /\ todo["qt"] # <<>> /\ Tail(todo["qt"]) \in Seq(Calls)
             /\ Head(todo["qt"]).call = c /\ Head(todo["qt"]).of = Of("qt")
             /\ QtFits(Tail(todo["qt"]), dialog)
             /\ c \in {"take", "drop"} => Of("qt") \in Tokens
             /\ c \in {"take", "drop"} =>
                   \A o : QtFits(Tail(todo["qt"]), [dialog EXCEPT ![Of("qt")] = o])
  <2>1. /\ todo["qt"] \in Seq(Calls) /\ todo["qt"] # <<>> /\ Tail(todo["qt"]) \in Seq(Calls)
        /\ Head(todo["qt"]).call = c /\ Head(todo["qt"]).of = Of("qt")
        /\ c \in {"take", "drop"} => Of("qt") \in Tokens
    BY <1>1, <1>3, CallNow DEF Calling, Of
  <2>2. QtFits(Tail(todo["qt"]), dialog)
    BY <1>1, <2>1, QtTail
  <2>3. ASSUME c \in {"take", "drop"}, NEW o
        PROVE  QtFits(Tail(todo["qt"]), [dialog EXCEPT ![Of("qt")] = o])
    <3> DEFINE e == [dialog EXCEPT ![Of("qt")] = o]
    <3>1. \A t \in Tokens : e[t] = dialog[t] \/ t = Of("qt")
      BY <1>1 DEF TypeOK
    <3> HIDE DEF e
    <3>2. \A t \in Tokens :
            e[t] = dialog[t] \/ (Head(todo["qt"]).call \in {"take", "drop"} /\ t = Head(todo["qt"]).of)
      BY <2>1, <2>3, <3>1
    <3>3. QtFits(Tail(todo["qt"]), e)
      BY <1>1, <2>1, <3>2, QtTail
    <3> QED
      BY <3>3 DEF e
  <2> QED
    BY <2>1, <2>2, <2>3
<1>4. CASE CallRefresh
  <2>1. PICK new \in SetToSeqs({t \in known : dialog[t] = None}),
             old \in SetToSeqs({t \in Tokens \ known : dialog[t] # None}) :
            Then("qt", CallEach("take", new) \o CallEach("drop", old))
    BY <1>4 DEF CallRefresh
  <2> DEFINE p == CallEach("take", new)
             r == CallEach("drop", old)
  <2>2. /\ p \in Seq(Calls) /\ QtFits(p, dialog)
        /\ \A k \in DOMAIN p : p[k].call = "take" /\ dialog[p[k].of] = None
    <3> DEFINE S == {t \in known : dialog[t] = None}
    <3>1. S \subseteq Tokens /\ \A t \in S : dialog[t] = None
      BY <1>1 DEF TypeOK
    <3>2. new \in SetToSeqs(S)
      OBVIOUS
    <3> HIDE DEF S
    <3>3. /\ CallEach("take", new) \in Seq(Calls) /\ QtFits(CallEach("take", new), dialog)
          /\ \A k \in DOMAIN CallEach("take", new) :
                CallEach("take", new)[k].call = "take" /\ CallEach("take", new)[k].of \in S
      BY <3>1, <3>2, QtEach
    <3> QED
      BY <3>1, <3>3
  <2>3. /\ r \in Seq(Calls) /\ QtFits(r, dialog)
        /\ \A k \in DOMAIN r : r[k].call = "drop" /\ dialog[r[k].of] # None
    <3> DEFINE S == {t \in Tokens \ known : dialog[t] # None}
    <3>1. S \subseteq Tokens /\ \A t \in S : dialog[t] # None
      OBVIOUS
    <3>2. old \in SetToSeqs(S)
      OBVIOUS
    <3> HIDE DEF S
    <3>3. /\ CallEach("drop", old) \in Seq(Calls) /\ QtFits(CallEach("drop", old), dialog)
          /\ \A k \in DOMAIN CallEach("drop", old) :
                CallEach("drop", old)[k].call = "drop" /\ CallEach("drop", old)[k].of \in S
      BY <3>1, <3>2, QtEach
    <3> QED
      BY <3>1, <3>3
  <2>4. Then("qt", p \o r)
    BY <2>1
  <2> HIDE DEF p, r
  <2>5. QtFits(p \o r, dialog)
    BY <2>2, <2>3, QtJoined
  <2>6. Tail(todo["qt"]) = <<>>
    <3>1. Calling("qt", "refresh")
      BY <1>4 DEF CallRefresh
    <3>2. 1 \in DOMAIN todo["qt"] /\ todo["qt"][1].call = "refresh"
      BY <1>1, <3>1, CallNow
    <3>3. Len(todo["qt"]) = 1
      BY <1>1, <3>2 DEF QtFits
    <3>4. todo["qt"] \in Seq(Calls)
      BY <1>3, <3>1
    <3>5. Tail(todo["qt"]) \in Seq(Calls)
      BY <1>3, <3>1
    <3>6. Len(Tail(todo["qt"])) = 0
      BY ONLY <3>3, <3>4
    <3> QED
      BY ONLY <3>5, <3>6, EmptySeq
  <2>7. p \o r \in Seq(Calls)
    BY <2>2, <2>3
  <2>8. (p \o r) \o Tail(todo["qt"]) = p \o r
    BY ONLY <2>6, <2>7, ConcatEmptySeq
  <2>9. todo'["qt"] = p \o r
    BY <1>1, <1>2, <2>4, <2>8 DEF Then, TypeOK
  <2> QED
    BY <1>4, <2>5, <2>9 DEF QtInv, CallRefresh, holderVars
<1>5. CASE CallTake
  <2>1. PICK o : dialog' = [dialog EXCEPT ![Of("qt")] = o]
    BY <1>5 DEF CallTake
  <2>2. Calling("qt", "take") /\ todo'["qt"] = Tail(todo["qt"])
    BY <1>1, <1>2, <1>5 DEF CallTake, Proceed
  <2> QED
    BY <1>3, <2>1, <2>2 DEF QtInv
<1>6. CASE CallDrop
  <2>1. /\ Calling("qt", "drop") /\ Release("qt", dialog[Of("qt")], Tail(todo["qt"]))
        /\ dialog' = [dialog EXCEPT ![Of("qt")] = None]
    BY <1>6 DEF CallDrop
  <2>2. dialog[Of("qt")] \in Objects
    BY <2>1, OwnedNow DEF Live
  <2>3. QtFits(Tail(todo["qt"]), dialog') /\ Tail(todo["qt"]) \in Seq(Calls)
    BY <1>3, <2>1
  <2> QED
    BY <1>1, <2>1, <2>2, <2>3, QtRelease
<1>7. CASE CallPeek
  <2>1. PICK o \in Objects \cup {None} :
            Then("qt", IF o = None THEN <<>> ELSE <<Call("release", o)>>)
    BY <1>7 DEF CallPeek
  <2>2. Calling("qt", "peek") /\ UNCHANGED dialog
    BY <1>7 DEF CallPeek, holderVars
  <2>3. CASE o = None
    <3>1. todo'["qt"] = <<>> \o Tail(todo["qt"])
      BY <1>1, <1>2, <2>1, <2>3 DEF Then, TypeOK
    <3>2. todo'["qt"] = Tail(todo["qt"])
      BY <1>3, <2>2, <3>1
    <3> QED
      BY <1>3, <2>2, <3>2 DEF QtInv
  <2>4. CASE o # None
    <3> DEFINE c == Call("release", o)
    <3>1. c \in Calls /\ c.call = "release"
      BY <2>4, TypedCalls DEF Call
    <3>2. todo'["qt"] = <<c>> \o Tail(todo["qt"])
      BY <1>1, <1>2, <2>1, <2>4 DEF Then, TypeOK
    <3> HIDE DEF c
    <3>3. <<c>> \in Seq(Calls) /\ QtFits(<<c>>, dialog) /\ DOMAIN <<c>> = {1} /\ <<c>>[1] = c
      BY <3>1, QtOne
    <3>4. QtFits(Tail(todo["qt"]), dialog) /\ Tail(todo["qt"]) \in Seq(Calls)
      BY <1>3, <2>2
    <3>5. QtFits(<<c>> \o Tail(todo["qt"]), dialog)
      BY <3>1, <3>3, <3>4, QtJoined
    <3> QED
      BY <2>2, <3>2, <3>5 DEF QtInv
  <2> QED
    BY <2>3, <2>4
<1>8. CASE CallRelease("qt")
  <2>1. /\ Calling("qt", "release") /\ Release("qt", Of("qt"), Tail(todo["qt"]))
        /\ dialog' = dialog
    BY <1>8 DEF CallRelease, holderVars
  <2>2. Of("qt") \in Objects
    BY <1>1, <2>1, CallNow
  <2>3. QtFits(Tail(todo["qt"]), dialog') /\ Tail(todo["qt"]) \in Seq(Calls)
    BY <1>3, <2>1
  <2> QED
    BY <1>1, <2>1, <2>2, <2>3, QtRelease
<1>9. CASE CallDestroy("qt")
  <2>1. Calling("qt", "destroy") /\ todo'["qt"] = Tail(todo["qt"]) /\ dialog' = dialog
    BY <1>1, <1>2, <1>9 DEF CallDestroy, Proceed, holderVars
  <2> QED
    BY <1>3, <2>1 DEF QtInv
<1> QED
  BY <1>4, <1>5, <1>6, <1>7, <1>8, <1>9 DEF Qt

LEMMA QtStarts ==
    ASSUME RegistryInv, QtChooses
    PROVE  QtInv'
<1>1. TypeOK /\ "qt" \in Actors
  BY ActorsAre DEF RegistryInv
<1>2. ASSUME NEW q, Start("qt", q), QtFits(q, dialog), UNCHANGED dialog
      PROVE  QtInv'
  BY <1>1, <1>2 DEF Start, TypeOK, QtInv
<1>3. \A x, c : Call(c, x).call = c /\ Call(c, x).of = x
  BY DEF Call
<1>4. ASSUME NEW t \in Tokens, NEW c \in {"take", "drop"}, c = "take" => dialog[t] = None,
             c = "drop" => dialog[t] # None
      PROVE  QtFits(<<Call(c, t)>> \o <<Call("refresh", None)>>, dialog)
  <2> DEFINE u == Call(c, t)
             v == Call("refresh", None)
  <2>1. u \in Calls /\ v \in Calls /\ u.call = c /\ u.of = t /\ v.call = "refresh"
    BY <1>3, TypedCalls
  <2> HIDE DEF u, v
  <2>2. <<u>> \in Seq(Calls) /\ QtFits(<<u>>, dialog) /\ DOMAIN <<u>> = {1} /\ <<u>>[1] = u
    BY <1>4, <2>1, QtOne
  <2>3. <<v>> \in Seq(Calls) /\ QtFits(<<v>>, dialog) /\ DOMAIN <<v>> = {1} /\ <<v>>[1] = v
    BY <2>1, QtOne
  <2>4. QtFits(<<u>> \o <<v>>, dialog)
    BY <2>1, <2>2, <2>3, QtJoined
  <2> QED
    BY <2>4 DEF u, v
<1>5. QtFits(<<Call("refresh", None)>>, dialog)
  BY <1>3, TypedCalls, QtOne
<1>6. <<>> \o <<Call("refresh", None)>> = <<Call("refresh", None)>>
  OBVIOUS
<1>7. CASE OpenDialog \/ Timer
  BY <1>2, <1>5, <1>7 DEF OpenDialog, Timer, holderVars
<1>8. CASE CloseDialog
  <2> DEFINE S == {t \in Tokens : dialog[t] # None}
  <2>1. PICK q \in SetToSeqs(S) : Start("qt", CallEach("drop", q))
    BY <1>8 DEF CloseDialog
  <2>2. S \subseteq Tokens /\ \A t \in S : dialog[t] # None
    OBVIOUS
  <2> HIDE DEF S
  <2>3. QtFits(CallEach("drop", q), dialog)
    BY <2>2, QtEach
  <2> QED
    BY <1>2, <1>8, <2>1, <2>3 DEF CloseDialog
<1>9. ASSUME NEW t \in Tokens, Register(t)
      PROVE  QtInv'
  <2>1. Start("qt", (IF dialog[t] = None THEN <<Call("take", t)>> ELSE <<>>)
                    \o <<Call("refresh", None)>>) /\ UNCHANGED dialog
    BY <1>9 DEF Register, holderVars
  <2> QED
    BY <1>2, <1>4, <1>5, <1>6, <2>1
<1>10. ASSUME NEW t \in Tokens, Forget(t)
       PROVE  QtInv'
  <2>1. Start("qt", (IF dialog[t] # None THEN <<Call("drop", t)>> ELSE <<>>)
                    \o <<Call("refresh", None)>>) /\ UNCHANGED dialog
    BY <1>10 DEF Forget, holderVars
  <2> QED
    BY <1>2, <1>4, <1>5, <1>6, <2>1
<1>11. ASSUME NEW s \in Sources, Peek(s)
       PROVE  QtInv'
  <2>1. Start("qt", <<Call("peek", want[s])>>) /\ UNCHANGED dialog /\ want[s] \in Tokens
    BY <1>1, <1>11 DEF Peek, holderVars, TypeOK
  <2>2. QtFits(<<Call("peek", want[s])>>, dialog)
    BY <1>3, <2>1, TypedCalls, QtOne
  <2> QED
    BY <1>2, <2>1, <2>2
<1> QED
  BY <1>7, <1>8, <1>9, <1>10, <1>11 DEF QtChooses

-----------------------------------------------------------------------------
(* Whose turn a step is, and what it leaves to the others.                 *)

Moves(a) == \E q : todo' = [todo EXCEPT ![a] = q]

LEMMA Moving ==
    ASSUME NEW a,
           \/ Proceed(a)
           \/ \E calls : Then(a, calls) \/ Start(a, calls)
           \/ \E o, rest : Release(a, o, rest)
    PROVE  Moves(a)
<1>1. CASE Proceed(a)
  BY <1>1 DEF Moves, Proceed
<1>2. CASE \E calls : Then(a, calls) \/ Start(a, calls)
  BY <1>2 DEF Moves, Then, Start
<1>3. CASE \E o, rest : Release(a, o, rest)
  BY <1>3 DEF Moves, Release
<1> QED
  BY <1>1, <1>2, <1>3

LEMMA SourceTurn ==
    ASSUME TypeOK, NEW s \in Sources,
           Source(s) \/ \E t \in Tokens \cup {None} : Attach(s, t)
    PROVE  /\ Moves(s) /\ UNCHANGED <<dialog, open, held>>
           /\ \A r \in Sources \ {s} :
                 want'[r] = want[r] /\ sub'[r] = sub[r] /\ (r \in failed' <=> r \in failed)
           /\ CallDestroy(s) \/ \A r \in Sources \ {s}, o \in Objects : r \in subs'[o] <=> r \in subs[o]
<1>1. CASE CallUnsubscribe(s) \/ CallPush(s)
  <2>1. Proceed(s) /\ UNCHANGED <<dialog, open, held, want, sub, failed>>
    BY <1>1 DEF CallUnsubscribe, CallPush, holderVars
  <2>2. \A r \in Sources \ {s}, o \in Objects : r \in subs'[o] <=> r \in subs[o]
    <3>1. subs \in [Objects -> SUBSET Sources]
      BY DEF TypeOK
    <3>2. \/ subs' = [subs EXCEPT ![Of(s)] = subs[Of(s)] \ {s}]
          \/ subs' = [subs EXCEPT ![Of(s)] = subs[Of(s)] \cup {s}]
      BY <1>1 DEF CallUnsubscribe, CallPush
    <3> QED
      BY ONLY <3>1, <3>2
  <2> QED
    BY <2>1, <2>2, Moving
<1>2. CASE CallKnow(s) \/ CallRelease(s) \/ CallDestroy(s)
  <2>1. Proceed(s) \/ \E o, rest : Release(s, o, rest)
    BY <1>2 DEF CallKnow, CallRelease, CallDestroy
  <2>2. UNCHANGED <<dialog, open, held, want, sub, failed>>
    BY <1>2 DEF CallKnow, CallRelease, CallDestroy, holderVars
  <2>3. CallDestroy(s) \/ subs' = subs
    BY <1>2 DEF CallKnow, CallRelease, Release, sessionVars
  <2> QED
    BY <2>1, <2>2, <2>3, Moving
<1>3. CASE CallGet(s)
  <2>1. PICK o : Get(Of(s), o) /\ failed' = (IF o = None THEN failed \cup {s} ELSE failed)
                 /\ \E calls : Then(s, calls)
    BY <1>3 DEF CallGet
  <2>2. subs' = subs /\ \A r \in Sources \ {s} : r \in failed' <=> r \in failed
    BY <2>1 DEF Get
  <2> QED
    BY <1>3, <2>1, <2>2, Moving DEF CallGet
<1>4. CASE CallBump(s)
  BY <1>4, Moving DEF CallBump, TypeOK
<1>5. CASE \E t \in Tokens \cup {None} : Attach(s, t)
  <2>1. PICK t \in Tokens \cup {None} :
            /\ \E calls : Start(s, calls)
            /\ want' = [want EXCEPT ![s] = t] /\ sub' = [sub EXCEPT ![s] = None]
            /\ failed' = failed \ {s}
            /\ UNCHANGED <<subs, dialog, open, held>>
    BY <1>5 DEF Attach, sessionVars
  <2> QED
    BY <2>1, Moving DEF TypeOK
<1> QED
  BY <1>1, <1>2, <1>3, <1>4, <1>5 DEF Source

LEMMA ControlTurn ==
    ASSUME TypeOK, Control \/ Chooses("control") \/ CtlStatus
    PROVE  /\ Moves("control") /\ UNCHANGED <<dialog, want, sub, failed>>
           /\ CallDestroy("control") \/ UNCHANGED subs
<1>1. CASE CallHold
  <2>1. (\E o : Get(Of("control"), o)) /\ Proceed("control") /\ UNCHANGED <<dialog, want, sub, failed>>
    BY <1>1 DEF CallHold
  <2> QED
    BY <2>1, Moving DEF Get
<1>2. CASE CallForget
  <2>1. /\ Proceed("control") \/ \E o, rest : Release("control", o, rest)
        /\ UNCHANGED <<dialog, want, sub, failed>>
    BY <1>2 DEF CallForget
  <2>2. UNCHANGED subs
    BY <1>2 DEF CallForget, Release, sessionVars
  <2> QED
    BY <2>1, <2>2, Moving
<1>3. CASE CallRelease("control") \/ CallDestroy("control")
  <2>1. /\ Proceed("control") \/ \E o, rest : Release("control", o, rest)
        /\ UNCHANGED <<dialog, want, sub, failed>>
    BY <1>3 DEF CallRelease, CallDestroy, holderVars
  <2>2. CallDestroy("control") \/ UNCHANGED subs
    BY <1>3 DEF CallRelease, Release
  <2> QED
    BY <2>1, <2>2, Moving
<1>4. CASE Chooses("control")
  BY <1>4, Moving DEF Chooses, sessionVars
<1>5. CASE CtlStatus
  BY <1>5, Moving DEF CtlStatus, holderVars
<1> QED
  BY <1>1, <1>2, <1>3, <1>4, <1>5 DEF Control

LEMMA QtTurn ==
    ASSUME TypeOK, Qt \/ Chooses("qt")
    PROVE  /\ Moves("qt") /\ UNCHANGED <<want, sub, failed>>
           /\ CallDestroy("qt") \/ UNCHANGED subs
<1>1. CASE CallRefresh \/ CallTake \/ CallDrop \/ CallPeek
  <2>1. \/ Proceed("qt") \/ \E calls : Then("qt", calls)
        \/ \E o, rest : Release("qt", o, rest)
    BY <1>1 DEF CallRefresh, CallTake, CallDrop, CallPeek
  <2>2. UNCHANGED <<want, sub, failed>>
    BY <1>1 DEF CallRefresh, CallTake, CallDrop, CallPeek, holderVars
  <2>3. UNCHANGED subs
    BY <1>1 DEF CallRefresh, CallTake, CallDrop, CallPeek, Get, Release, sessionVars
  <2> QED
    BY <2>1, <2>2, <2>3, Moving
<1>2. CASE CallRelease("qt") \/ CallDestroy("qt")
  <2>1. /\ Proceed("qt") \/ \E o, rest : Release("qt", o, rest)
        /\ UNCHANGED <<want, sub, failed>>
    BY <1>2 DEF CallRelease, CallDestroy, holderVars
  <2>2. CallDestroy("qt") \/ UNCHANGED subs
    BY <1>2 DEF CallRelease, Release
  <2> QED
    BY <2>1, <2>2, Moving
<1>3. CASE Chooses("qt")
  BY <1>3, Moving DEF Chooses, sessionVars
<1> QED
  BY <1>1, <1>2, <1>3 DEF Qt

LEMMA QtInvNext ==
    ASSUME RegistryInv, [Next]_vars
    PROVE  QtInv'
<1>1. TypeOK /\ QtInv
  BY DEF RegistryInv
<1>2. ASSUME NEW a \in Actors, a # "qt", Moves(a), UNCHANGED dialog
      PROVE  QtInv'
  BY <1>1, <1>2, QtOthers DEF Moves
<1>3. CASE \E s \in Sources : Source(s) \/ \E t \in Tokens \cup {None} : Attach(s, t)
  <2>1. PICK s \in Sources : Source(s) \/ \E t \in Tokens \cup {None} : Attach(s, t)
    BY <1>3
  <2>2. s # "qt" /\ s \in Actors
    BY RegistryAssumption, ActorsAre
  <2> QED
    BY <1>1, <1>2, <2>1, <2>2, SourceTurn
<1>4. CASE Control \/ Chooses("control") \/ CtlStatus
  BY <1>1, <1>2, <1>4, ControlTurn, ActorsAre
<1>5. CASE UNCHANGED vars
  BY <1>1, <1>5 DEF vars, holderVars, QtInv
<1> QED
  BY <1>1, <1>3, <1>4, <1>5, NextSteps, QtActs, QtStarts

-----------------------------------------------------------------------------
(* Every source goes on through the stages of attach_session.              *)

LEMMA CallsDiffer ==
    \A c, x, d, y : Call(c, x) = Call(d, y) <=> c = d /\ x = y
BY DEF Call

LEMMA SubscribedNow ==
    ASSUME TypeOK, NEW s \in Sources, NEW c, Calling(s, c), NEW o \in Objects
    PROVE  Subscribed(s, o) <=> sub[s] = o \/ (c \in {"unsubscribe", "bump"} /\ Of(s) = o)
<1>1. todo[s] # <<>> /\ Head(todo[s]) = Call(c, Of(s))
  BY CallNow, ActorsAre
<1> QED
  BY <1>1, CallsDiffer DEF Subscribed

LEMMA QuietNext ==
    ASSUME NEW s,
           \/ todo'[s] = <<>>
           \/ \E c, y : c \notin {"unsubscribe", "bump"} /\ Head(todo'[s]) = Call(c, y)
    PROVE  \A x : Subscribed(s, x)' <=> sub'[s] = x
BY CallsDiffer DEF Subscribed

LEMMA ListedNext ==
    ASSUME NEW s, NEW c \in {"unsubscribe", "bump"}, NEW y,
           todo'[s] # <<>>, Head(todo'[s]) = Call(c, y)
    PROVE  \A x : Subscribed(s, x)' <=> sub'[s] = x \/ y = x
BY CallsDiffer DEF Subscribed

\* A subscription is to a live session after the step, too.
LEMMA SubsAreLive ==
    TypeOK /\ Counted => \A r \in Sources : sub[r] # None => sub[r] \in Live
BY OwnedAreLive

LEMMA SubsAreLiveNext ==
    ASSUME TypeOK', Counted', NEW s \in Sources, sub'[s] # None
    PROVE  sub'[s] \in Live'
<1>1. (TypeOK /\ Counted => \A r \in Sources : sub[r] # None => sub[r] \in Live)'
  BY SubsAreLive, PTL
<1> QED
  BY <1>1

LEMMA SecondPlace ==
    ASSUME TypeOK, NEW a \in Actors, NEW c, Calling(a, c), NEW d, NEW q \in Seq(Calls),
           NEW x \in Calls, Tail(todo[a]) = <<x>> \o q
    PROVE  2 \in DOMAIN todo[a] /\ todo[a][2] = x
<1>1. todo[a] \in Seq(Calls) /\ todo[a] # <<>>
  BY CallNow
<1>2. 1 \in DOMAIN Tail(todo[a]) /\ Tail(todo[a])[1] = x
  OBVIOUS
<1> QED
  BY <1>1, <1>2, TailPlaces

\* Who is in the list of a session, or takes itself off it, has a reference to it.
LEMMA SubscribedIsLive ==
    ASSUME RegistryInv, NEW s \in Sources, NEW o \in Objects, Subscribed(s, o)
    PROVE  o \in Live
<1>1. TypeOK /\ Counted /\ s \in Actors
  BY ActorsAre DEF RegistryInv
<1>2. CASE sub[s] = o
  <2>1. o # None
    BY RegistryAssumption
  <2> QED
    BY <1>1, <1>2, <2>1, OwnedAreLive
<1>3. ASSUME NEW c \in {"unsubscribe", "bump"}, todo[s] # <<>>, Head(todo[s]) = Call(c, o)
      PROVE  o \in Live
  <2>1. Calling(s, c) /\ Of(s) = o
    BY <1>3 DEF Calling, Idle, Of, Call
  <2>2. Call("release", o) \in Calls /\ Getting(s) \in Seq(Calls) /\ <<>> \in Seq(Calls)
    BY <1>1, TypedCalls, GettingIsTyped
  <2>3. \/ Tail(todo[s]) = <<Call("release", o)>> \o Getting(s)
        \/ Tail(todo[s]) = <<Call("release", o)>> \o <<>>
    <3>1. \/ Tail(todo[s]) = <<Call("release", o)>> \o Getting(s)
          \/ Tail(todo[s]) = <<Call("release", o)>>
      BY <2>1, StageNow
    <3>2. <<Call("release", o)>> \o <<>> = <<Call("release", o)>>
      OBVIOUS
    <3> QED
      BY <3>1, <3>2
  <2>4. 2 \in DOMAIN todo[s] /\ todo[s][2] = Call("release", o)
    BY <1>1, <2>1, <2>2, <2>3, SecondPlace
  <2>5. todo[s][2].call = "release" /\ todo[s][2].of = o
    BY <2>4 DEF Call
  <2> QED
    BY <1>1, <2>4, <2>5, OwnedAreLive
<1> QED
  BY <1>2, <1>3 DEF Subscribed

\* The joining session is one the source is still to release.
LEMMA JoiningIsLive ==
    ASSUME RegistryInv, NEW s \in Sources, NEW o \in Objects, Joining(s, o) \/ Joined(s, o)
    PROVE  o \in Live
<1>1. TypeOK /\ Counted /\ s \in Actors
  BY ActorsAre DEF RegistryInv
<1>2. CASE Joined(s, o)
  <2>1. sub[s] = o /\ o # None
    BY <1>2, RegistryAssumption DEF Joined
  <2> QED
    BY <1>1, <2>1, OwnedAreLive
<1>3. CASE Joining(s, o)
  <2>1. \E k \in DOMAIN todo[s] : todo[s][k] = Call("release", o)
    <3>1. CASE todo[s] = <<Call("know", want[s]), Call("push", o), Call("bump", o), Call("release", o)>>
      <4>1. 4 \in DOMAIN todo[s] /\ todo[s][4] = Call("release", o)
        BY <3>1
      <4> QED
        BY <4>1
    <3>2. CASE todo[s] = <<Call("push", o), Call("bump", o), Call("release", o)>>
      <4>1. 3 \in DOMAIN todo[s] /\ todo[s][3] = Call("release", o)
        BY <3>2
      <4> QED
        BY <4>1
    <3>3. CASE todo[s] = <<Call("bump", o), Call("release", o)>>
      <4>1. 2 \in DOMAIN todo[s] /\ todo[s][2] = Call("release", o)
        BY <3>3
      <4> QED
        BY <4>1
    <3> QED
      BY <1>3, <3>1, <3>2, <3>3 DEF Joining
  <2>2. \A x : Call("release", x).call = "release" /\ Call("release", x).of = x
    BY DEF Call
  <2> QED
    BY <1>1, <2>1, <2>2, OwnedAreLive
<1> QED
  BY <1>2, <1>3

\* A step of someone else.
LEMMA SourceWaits ==
    ASSUME RegistryInv, NEW s \in Sources, todo'[s] = todo[s], sub'[s] = sub[s],
           want'[s] = want[s], s \in failed' <=> s \in failed,
           \A o \in Objects : s \in subs'[o] <=> s \in subs[o],
           \A o \in Live : tok'[o] = tok[o]
    PROVE  SourceFits(s)'
<1>1. Stage(s) /\ \A o \in Objects : s \in subs[o] <=> Subscribed(s, o)
  BY DEF RegistryInv, SourceInv, SourceFits
<1>2. \A o \in Objects : s \in subs'[o] <=> Subscribed(s, o)'
  BY <1>1 DEF Subscribed
<1>3. Getting(s)' = Getting(s)
  BY DEF Getting
<1>4. Stage(s)'
  <2>1. CASE Asking(s)
    BY <1>3, <2>1 DEF Asking, Stage
  <2>2. CASE Refused(s)
    BY <2>2 DEF Refused, Stage
  <2>3. ASSUME NEW o \in Objects, Leaving(s, o)
        PROVE  Leaving(s, o)'
    BY <1>3, <2>3 DEF Leaving
  <2>4. ASSUME NEW o \in Objects, Joining(s, o)
        PROVE  Joining(s, o)'
    <3>1. tok'[o] = tok[o]
      BY <2>4, JoiningIsLive
    <3> QED
      BY <2>4, <3>1 DEF Joining
  <2>5. ASSUME NEW o \in Objects, Joined(s, o)
        PROVE  Joined(s, o)'
    <3>1. tok'[o] = tok[o]
      BY <2>5, JoiningIsLive
    <3> QED
      BY <2>5, <3>1 DEF Joined
  <2> QED
    BY <1>1, <2>1, <2>2, <2>3, <2>4, <2>5 DEF Stage
<1> QED
  BY <1>2, <1>4 DEF SourceFits

\* A session is destroyed when nobody is in its list.
LEMMA DestroyedIsEmpty ==
    ASSUME RegistryInv, NEW a \in Actors, CallDestroy(a), NEW s \in Sources, NEW o \in Objects
    PROVE  s \in subs'[o] <=> s \in subs[o]
<1>1. TypeOK /\ Calling(a, "destroy") /\ subs' = [subs EXCEPT ![Of(a)] = {}]
  BY DEF CallDestroy, RegistryInv
<1>2. life[Of(a)] = "dying" /\ Of(a) \in Objects
  BY <1>1, CallNow DEF DestroysOnce, RegistryInv
<1>3. s \notin subs[Of(a)]
  BY <1>2, SubscribedIsLive DEF Live, RegistryInv, SourceInv, SourceFits
<1> QED
  BY <1>1, <1>2, <1>3 DEF TypeOK

\* attach_session goes on with its next call.
LEMMA SourceActs ==
    ASSUME RegistryInv, NEW s \in Sources, Source(s), TypeOK', Counted'
    PROVE  SourceFits(s)'
<1>1. /\ TypeOK /\ s \in Actors /\ SourceFits(s) /\ todo \in [Actors -> Seq(Calls)]
      /\ want[s] \in Tokens \cup {None} /\ None \notin Objects
  BY ActorsAre, RegistryAssumption DEF RegistryInv, SourceInv, TypeOK
<1>2. \A x \in Objects : s \in subs[x] <=> Subscribed(s, x)
  BY <1>1 DEF SourceFits
<1>3. \A q : todo' = [todo EXCEPT ![s] = q] => todo'[s] = q
  BY <1>1
<1>4. Getting(s) \in Seq(Calls)
  BY <1>1, GettingIsTyped
<1>5. ASSUME NEW c, Calling(s, c), sub[s] = None, c \notin {"unsubscribe", "bump"}
      PROVE  \A x \in Objects : s \notin subs[x]
  BY <1>1, <1>2, <1>5, SubscribedNow
<1>6. ASSUME sub'[s] = None, \A x \in Objects : s \notin subs'[x],
             \/ todo'[s] = <<>>
             \/ \E c, y : c \notin {"unsubscribe", "bump"} /\ Head(todo'[s]) = Call(c, y)
      PROVE  \A x \in Objects : s \in subs'[x] <=> Subscribed(s, x)'
  BY <1>1, <1>6, QuietNext
<1>7. CASE CallUnsubscribe(s)
  <2>1. PICK o : o = Of(s)
    OBVIOUS
  <2>2. /\ Calling(s, "unsubscribe") /\ o \in Objects
        /\ subs' = [subs EXCEPT ![o] = subs[o] \ {s}]
        /\ UNCHANGED <<tok, want, sub, failed>> /\ todo' = [todo EXCEPT ![s] = Tail(todo[s])]
    BY <1>1, <1>7, <2>1, CallNow DEF CallUnsubscribe, holderVars, Proceed
  <2>3. s \notin failed /\ sub[s] = None /\ Tail(todo[s]) = <<Call("release", o)>> \o Getting(s)
    BY <2>1, <2>2, StageNow
  <2>4. Getting(s)' = Getting(s) /\ todo'[s] = <<Call("release", o)>> \o Getting(s)
    BY <1>3, <2>2, <2>3 DEF Getting
  <2>5. Leaving(s, o)'
    BY <2>2, <2>3, <2>4 DEF Leaving
  <2>6. \A x \in Objects : s \notin subs'[x]
    <3>1. \A x \in Objects : Subscribed(s, x) <=> x = o
      BY <1>1, <2>1, <2>2, <2>3, SubscribedNow
    <3>2. \A x \in Objects : s \in subs'[x] <=> s \in subs[x] /\ x # o
      BY <1>1, <2>2 DEF TypeOK
    <3> QED
      BY <1>2, <3>1, <3>2
  <2>7. Head(todo'[s]) = Call("release", o)
    BY <1>4, <2>2, <2>4, LeavingHeads
  <2>8. \A x \in Objects : s \in subs'[x] <=> Subscribed(s, x)'
    BY <1>6, <2>2, <2>3, <2>6, <2>7
  <2> QED
    BY <2>2, <2>5, <2>8 DEF SourceFits, Stage
<1>8. CASE CallGet(s)
  <2>1. PICK o \in Objects \cup {None} :
            /\ Get(Of(s), o)
            /\ Then(s, IF o = None THEN <<>>
                       ELSE <<Call("know", Of(s)), Call("push", o), Call("bump", o),
                              Call("release", o)>>)
            /\ failed' = IF o = None THEN failed \cup {s} ELSE failed
    BY <1>8 DEF CallGet
  <2>2. Calling(s, "get") /\ Of(s) \in Tokens /\ UNCHANGED <<subs, want, sub>>
    BY <1>1, <1>8, CallNow DEF CallGet, Get
  <2>3. s \notin failed /\ sub[s] = None /\ Of(s) = want[s] /\ Tail(todo[s]) = <<>>
    BY <2>2, StageNow
  <2>4. \A x \in Objects : s \notin subs'[x]
    BY <1>5, <2>2, <2>3
  <2>5. \A q \in Seq(Calls) : Then(s, q) => todo'[s] = q
    <3>1. ASSUME NEW q \in Seq(Calls), Then(s, q)
          PROVE  todo'[s] = q
      <4>1. todo' = [todo EXCEPT ![s] = q \o Tail(todo[s])]
        BY <1>1, <3>1 DEF Then
      <4>2. q \o Tail(todo[s]) = q
        BY ONLY <2>3, q \in Seq(Calls), ConcatEmptySeq
      <4> QED
        BY <1>3, <4>1, <4>2
    <3> QED
      BY <3>1
  <2>6. CASE o = None
    <3>1. todo'[s] = <<>>
      <4>1. Then(s, <<>>)
        BY <2>1, <2>6
      <4>2. <<>> \in Seq(Calls)
        OBVIOUS
      <4> QED
        BY <2>5, <4>1, <4>2
    <3>2. Refused(s)'
      BY <2>1, <2>2, <2>3, <2>6, <3>1 DEF Refused
    <3>3. \A x \in Objects : s \in subs'[x] <=> Subscribed(s, x)'
      BY <1>6, <2>2, <2>3, <2>4, <3>1
    <3> QED
      BY <3>2, <3>3 DEF SourceFits, Stage
  <2>7. CASE o # None
    <3> DEFINE calls == <<Call("know", want[s]), Call("push", o), Call("bump", o), Call("release", o)>>
    <3>1. o \in Objects /\ calls \in Seq(Calls) /\ Head(calls) = Call("know", want[s])
      BY <2>2, <2>3, <2>7, TypedCalls
    <3>2. todo'[s] = calls
      <4>1. Then(s, calls)
        BY <2>1, <2>3, <2>7
      <4> QED
        BY <2>5, <3>1, <4>1
    <3>3. tok'[o] = want[s]
      BY <1>1, <2>1, <2>3, <3>1 DEF Get, LiveOf, TypeOK
    <3>4. Joining(s, o)'
      BY <2>1, <2>2, <2>3, <2>7, <3>2, <3>3 DEF Joining
    <3>5. Head(todo'[s]) = Call("know", want[s])
      BY <3>1, <3>2
    <3>6. \A x \in Objects : s \in subs'[x] <=> Subscribed(s, x)'
      BY <1>6, <2>2, <2>3, <2>4, <3>5
    <3> QED
      BY <3>1, <3>4, <3>6 DEF SourceFits, Stage
  <2> QED
    BY <2>6, <2>7
<1>9. CASE CallKnow(s)
  <2>1. /\ Calling(s, "know") /\ UNCHANGED <<tok, subs, want, sub, failed>>
        /\ todo' = [todo EXCEPT ![s] = Tail(todo[s])]
    BY <1>9 DEF CallKnow, sessionVars, holderVars, Proceed
  <2>2. /\ s \notin failed /\ sub[s] = None /\ want[s] \in Tokens
        /\ \E o \in Objects :
              /\ tok[o] = want[s]
              /\ Tail(todo[s]) = <<Call("push", o), Call("bump", o), Call("release", o)>>
    BY <2>1, StageNow
  <2>3. PICK o \in Objects :
              /\ tok[o] = want[s]
              /\ Tail(todo[s]) = <<Call("push", o), Call("bump", o), Call("release", o)>>
    BY <2>2
  <2>4. todo'[s] = <<Call("push", o), Call("bump", o), Call("release", o)>>
    BY <1>3, <2>1, <2>3
  <2>5. Joining(s, o)'
    BY <2>1, <2>2, <2>3, <2>4 DEF Joining
  <2>6. Head(todo'[s]) = Call("push", o) /\ \A x \in Objects : s \notin subs'[x]
    <3>1. Head(todo'[s]) = Call("push", o)
      BY <2>4
    <3> QED
      BY <1>5, <2>1, <2>2, <3>1
  <2>7. \A x \in Objects : s \in subs'[x] <=> Subscribed(s, x)'
    BY <1>6, <2>1, <2>2, <2>6
  <2> QED
    BY <2>5, <2>7 DEF SourceFits, Stage
<1>10. CASE CallPush(s)
  <2>1. PICK o : o = Of(s)
    OBVIOUS
  <2>2. /\ Calling(s, "push") /\ UNCHANGED <<tok, want, sub, failed>>
        /\ subs' = [subs EXCEPT ![o] = subs[o] \cup {s}]
        /\ todo' = [todo EXCEPT ![s] = Tail(todo[s])]
    BY <1>10, <2>1 DEF CallPush, holderVars, Proceed
  <2>3. /\ s \notin failed /\ sub[s] = None /\ want[s] \in Tokens /\ o \in Objects
        /\ tok[o] = want[s] /\ Tail(todo[s]) = <<Call("bump", o), Call("release", o)>>
    BY <2>1, <2>2, StageNow
  <2>4. todo'[s] = <<Call("bump", o), Call("release", o)>>
    BY <1>3, <2>2, <2>3
  <2>5. Joining(s, o)'
    BY <2>2, <2>3, <2>4 DEF Joining
  <2>6. todo'[s] # <<>> /\ Head(todo'[s]) = Call("bump", o)
    BY <2>4
  <2>7. \A x \in Objects : s \in subs'[x] <=> Subscribed(s, x)'
    <3>1. \A x \in Objects : s \notin subs[x]
      BY <1>5, <2>2, <2>3
    <3>2. \A x \in Objects : Subscribed(s, x)' <=> o = x
      BY <1>1, <2>2, <2>3, <2>6, ListedNext
    <3>3. \A x \in Objects : s \in subs'[x] <=> s \in subs[x] \/ o = x
      BY <1>1, <2>2 DEF TypeOK
    <3> QED
      BY <3>1, <3>2, <3>3
  <2> QED
    BY <2>3, <2>5, <2>7 DEF SourceFits, Stage
<1>11. CASE CallBump(s)
  <2>1. PICK o : o = Of(s)
    OBVIOUS
  <2>2. /\ Calling(s, "bump") /\ UNCHANGED <<tok, subs, want, failed>>
        /\ sub' = [sub EXCEPT ![s] = o] /\ todo' = [todo EXCEPT ![s] = Tail(todo[s])]
    BY <1>11, <2>1 DEF CallBump, Proceed
  <2>3. /\ s \notin failed /\ sub[s] = None /\ o \in Objects
        /\ tok[o] = want[s] /\ Tail(todo[s]) = <<Call("release", o)>>
    BY <2>1, <2>2, StageNow
  <2>4. todo'[s] = <<Call("release", o)>> /\ sub'[s] = o
    BY <1>1, <1>3, <2>2, <2>3 DEF TypeOK
  <2>5. Joined(s, o)'
    BY <2>2, <2>3, <2>4 DEF Joined
  <2>6. Head(todo'[s]) = Call("release", o)
    BY <2>4
  <2>7. \A x \in Objects : s \in subs'[x] <=> Subscribed(s, x)'
    <3>1. \A x \in Objects : Subscribed(s, x) <=> o = x
      BY <1>1, <2>1, <2>2, <2>3, SubscribedNow
    <3>2. \A x \in Objects : Subscribed(s, x)' <=> o = x
      BY <2>4, <2>6, QuietNext
    <3> QED
      BY <1>2, <2>2, <3>1, <3>2
  <2> QED
    BY <2>3, <2>5, <2>7 DEF SourceFits, Stage
<1>12. CASE CallRelease(s)
  <2>1. PICK o : o = Of(s)
    OBVIOUS
  <2>2. /\ Calling(s, "release") /\ o \in Objects /\ Release(s, o, Tail(todo[s]))
        /\ UNCHANGED <<tok, subs, want, sub, failed>>
    BY <1>1, <1>12, <2>1, CallNow DEF CallRelease, Release, holderVars
  <2>3. /\ s \notin failed
        /\ \/ sub[s] = None /\ Tail(todo[s]) = Getting(s)
           \/ sub[s] = o /\ tok[o] = want[s] /\ Tail(todo[s]) = <<>>
    BY <2>1, <2>2, StageNow
  <2>4. \/ todo' = [todo EXCEPT ![s] = Tail(todo[s])]
        \/ /\ life' = [life EXCEPT ![o] = "dying"]
           /\ todo' = [todo EXCEPT ![s] = <<Call("destroy", o)>> \o Tail(todo[s])]
    BY <2>2 DEF Release
  <2>5. Getting(s)' = Getting(s)
    BY <2>2 DEF Getting
  <2>6. sub[s] = None => \A x \in Objects : s \notin subs'[x]
    BY <1>5, <2>2
  <2>7. CASE sub[s] = None /\ todo'[s] = Getting(s)
    <3>1. Asking(s)'
      BY <2>2, <2>3, <2>5, <2>7 DEF Asking
    <3>2. todo'[s] = <<>> \/ Head(todo'[s]) = Call("get", want[s])
      BY <1>1, <2>7, GettingIsTyped
    <3>3. \A x \in Objects : s \in subs'[x] <=> Subscribed(s, x)'
      BY <1>6, <2>2, <2>6, <2>7, <3>2
    <3> QED
      BY <3>1, <3>3 DEF SourceFits, Stage
  <2>8. CASE sub[s] = None /\ todo'[s] = <<Call("destroy", o)>> \o Getting(s)
    <3>1. Leaving(s, o)'
      BY <2>2, <2>3, <2>5, <2>8 DEF Leaving
    <3>2. Head(todo'[s]) = Call("destroy", o)
      BY <1>4, <2>2, <2>8, LeavingHeads
    <3>3. \A x \in Objects : s \in subs'[x] <=> Subscribed(s, x)'
      BY <1>6, <2>2, <2>6, <2>8, <3>2
    <3> QED
      BY <2>2, <3>1, <3>3 DEF SourceFits, Stage
  <2>9. CASE sub[s] = o /\ tok[o] = want[s] /\ todo'[s] = <<>>
    <3>1. Joined(s, o)'
      BY <2>2, <2>3, <2>9 DEF Joined
    <3>2. \A x \in Objects : Subscribed(s, x) <=> sub[s] = x
      BY <1>1, <2>2, SubscribedNow
    <3>3. \A x \in Objects : Subscribed(s, x)' <=> sub'[s] = x
      BY <2>9, QuietNext
    <3>4. \A x \in Objects : s \in subs'[x] <=> Subscribed(s, x)'
      BY <1>2, <2>2, <3>2, <3>3
    <3> QED
      BY <2>2, <3>1, <3>4 DEF SourceFits, Stage
  <2>10. CASE sub[s] = o /\ life' = [life EXCEPT ![o] = "dying"]
    <3>1. sub'[s] = o /\ o # None
      BY <1>1, <2>2, <2>10
    <3>2. o \in Live'
      BY <3>1, SubsAreLiveNext
    <3>3. life'[o] = "dying"
      BY <1>1, <2>2, <2>10 DEF TypeOK
    <3> QED
      BY <3>2, <3>3 DEF Live
  <2> QED
    BY <1>3, <2>3, <2>4, <2>7, <2>8, <2>9, <2>10
<1>13. CASE CallDestroy(s)
  <2>1. /\ Calling(s, "destroy") /\ UNCHANGED <<want, sub, failed>>
        /\ todo' = [todo EXCEPT ![s] = Tail(todo[s])]
    BY <1>13 DEF CallDestroy, Proceed, holderVars
  <2>2. s \notin failed /\ sub[s] = None /\ Tail(todo[s]) = Getting(s)
    BY <2>1, StageNow
  <2>3. Getting(s)' = Getting(s) /\ todo'[s] = Getting(s)
    BY <1>3, <2>1, <2>2 DEF Getting
  <2>4. Asking(s)'
    BY <2>1, <2>2, <2>3 DEF Asking
  <2>5. todo'[s] = <<>> \/ Head(todo'[s]) = Call("get", want[s])
    BY <1>1, <2>3, GettingIsTyped
  <2>6. \A x \in Objects : s \notin subs'[x]
    BY <1>1, <1>5, <1>13, <2>1, <2>2, DestroyedIsEmpty
  <2>7. \A x \in Objects : s \in subs'[x] <=> Subscribed(s, x)'
    BY <1>6, <2>1, <2>2, <2>5, <2>6
  <2> QED
    BY <2>4, <2>7 DEF SourceFits, Stage
<1> QED
  BY <1>7, <1>8, <1>9, <1>10, <1>11, <1>12, <1>13 DEF Source

\* attach_session begins.
LEMMA SourceStarts ==
    ASSUME RegistryInv, NEW s \in Sources, NEW t \in Tokens \cup {None}, Attach(s, t)
    PROVE  SourceFits(s)'
<1>1. /\ TypeOK /\ s \in Actors /\ Stage(s) /\ None \notin Objects
      /\ \A x \in Objects : s \in subs[x] <=> Subscribed(s, x)
  BY ActorsAre, RegistryAssumption DEF RegistryInv, SourceInv, SourceFits
<1>2. /\ Detach(s) \in Seq(Calls) /\ Demand(t) \in Seq(Calls)
      /\ Start(s, Detach(s) \o Demand(t))
      /\ want' = [want EXCEPT ![s] = t] /\ sub' = [sub EXCEPT ![s] = None]
      /\ failed' = failed \ {s} /\ UNCHANGED subs
  BY <1>1, Attaching
<1>3. todo[s] = <<>> /\ todo'[s] = Detach(s) \o Demand(t)
  BY <1>1, <1>2 DEF Start, Idle, TypeOK
<1>4. want'[s] = t /\ sub'[s] = None /\ s \notin failed'
  BY <1>1, <1>2 DEF TypeOK
<1>5. Getting(s)' = Demand(t)
  BY <1>4 DEF Getting, Demand
<1>6. \A x \in Objects : s \in subs'[x] <=> sub[s] = x
  BY <1>1, <1>2, <1>3 DEF Subscribed
<1>7. CASE sub[s] = None
  <2>1. todo'[s] = Demand(t)
    <3>1. Detach(s) = <<>>
      BY <1>7 DEF Detach
    <3> QED
      BY ONLY <1>2, <1>3, <3>1, ConcatEmptySeq
  <2>2. Asking(s)'
    BY <1>4, <1>5, <2>1 DEF Asking
  <2>3. todo'[s] = <<>> \/ Head(todo'[s]) = Call("get", t)
    BY <2>1 DEF Demand
  <2>4. \A x : Subscribed(s, x)' <=> sub'[s] = x
    BY <2>3, QuietNext
  <2> QED
    BY <1>1, <1>4, <1>6, <1>7, <2>2, <2>4 DEF SourceFits, Stage
<1>8. CASE sub[s] # None
  <2>1. PICK o \in Objects : sub[s] = o
    BY <1>1, <1>8 DEF TypeOK
  <2>2. todo'[s] = <<Call("unsubscribe", o), Call("release", o)>> \o Demand(t)
    BY <1>3, <1>8, <2>1 DEF Detach
  <2>3. Leaving(s, o)'
    BY <1>4, <1>5, <2>2 DEF Leaving
  <2>4. todo'[s] # <<>> /\ Head(todo'[s]) = Call("unsubscribe", o)
    BY <1>2, <2>2, LeavingHeads
  <2>5. \A x \in Objects : Subscribed(s, x)' <=> x = o
    BY <1>1, <1>4, <2>4, ListedNext
  <2> QED
    BY <1>6, <2>1, <2>3, <2>5 DEF SourceFits, Stage
<1> QED
  BY <1>7, <1>8

LEMMA SourceInvNext ==
    ASSUME RegistryInv, [Next]_vars
    PROVE  SourceInv'
<1>1. TypeOK /\ TypeOK' /\ Counted' /\ \A o \in Live : tok'[o] = tok[o]
  BY TypeNext, CountedNext, LiveTokensNext DEF RegistryInv
<1>2. ASSUME NEW a \in Actors, Moves(a), NEW s \in Sources \ {a}
      PROVE  todo'[s] = todo[s]
  BY <1>1, <1>2, ActorsAre DEF Moves, TypeOK
<1>3. ASSUME NEW r \in Sources, Source(r) \/ \E t \in Tokens \cup {None} : Attach(r, t),
             NEW s \in Sources
      PROVE  SourceFits(s)'
  <2>1. CASE s = r
    BY <1>1, <1>3, <2>1, SourceActs, SourceStarts
  <2>2. CASE s # r
    <3>1. /\ Moves(r) /\ want'[s] = want[s] /\ sub'[s] = sub[s] /\ (s \in failed' <=> s \in failed)
          /\ CallDestroy(r) \/ \A o \in Objects : s \in subs'[o] <=> s \in subs[o]
      BY <1>1, <1>3, <2>2, SourceTurn
    <3>2. \A o \in Objects : s \in subs'[o] <=> s \in subs[o]
      BY <3>1, DestroyedIsEmpty, ActorsAre
    <3>3. todo'[s] = todo[s]
      BY <1>2, <2>2, <3>1, ActorsAre
    <3> QED
      BY <1>1, <3>1, <3>2, <3>3, SourceWaits
  <2> QED
    BY <2>1, <2>2
<1>4. ASSUME NEW a \in {"qt", "control"}, Moves(a), UNCHANGED <<want, sub, failed>>,
             CallDestroy(a) \/ UNCHANGED subs, NEW s \in Sources
      PROVE  SourceFits(s)'
  <2>1. a \in Actors /\ s # a
    BY ActorsAre, RegistryAssumption
  <2>2. \A o \in Objects : s \in subs'[o] <=> s \in subs[o]
    BY <1>4, <2>1, DestroyedIsEmpty
  <2>3. todo'[s] = todo[s]
    BY <1>2, <1>4, <2>1
  <2> QED
    BY <1>1, <1>4, <2>2, <2>3, SourceWaits
<1>5. ASSUME UNCHANGED vars, NEW s \in Sources
      PROVE  SourceFits(s)'
  BY <1>1, <1>5, SourceWaits DEF vars, sessionVars, holderVars
<1> QED
  BY <1>1, <1>3, <1>4, <1>5, NextSteps, ControlTurn, QtTurn DEF SourceInv

-----------------------------------------------------------------------------
(* The theorems.                                                           *)

LEMMA RegistryInit ==
    Init => RegistryInv
<1> SUFFICES ASSUME Init
             PROVE  RegistryInv
  OBVIOUS
<1>1. TypeOK
  BY TypeInit
<1>2. \A a \in Actors : todo[a] = <<>> /\ Idle(a) /\ \A c : ~Calling(a, c)
  BY DEF Init, Idle, Calling
<1>3. DestroysOnce
  BY <1>2 DEF DestroysOnce
<1>4. LiveTokens
  BY DEF Init, LiveTokens, Live
<1>5. Counted
  <2>1. ASSUME NEW o \in Objects
        PROVE  life[o] = "free" /\ Owners(o) = 0
    <3>1. o # None
      BY RegistryAssumption
    <3>2. Fibre(dialog, Tokens, o) = {} /\ Fibre(sub, Sources, o) = {}
      BY <3>1 DEF Init, Fibre
    <3>3. AllPlaces(todo, Actors, Call("release", o)) = {}
      BY <1>2 DEF AllPlaces, Places
    <3>4. DialogCount(o) = 0 /\ SubCount(o) = 0 /\ ReleaseCount(o) = 0
      BY <3>2, <3>3, FS_EmptySet DEF DialogCount, SubCount, ReleaseCount
    <3>5. held[o] = 0 /\ life[o] = "free"
      BY DEF Init
    <3> QED
      BY <3>4, <3>5, OwnersParts
  <2> QED
    BY <2>1 DEF Counted
<1>6. QtInv
  BY <1>2, ActorsAre DEF QtInv, QtFits
<1>7. ASSUME NEW s \in Sources
      PROVE  SourceFits(s)
  <2>1. todo[s] = <<>> /\ want[s] = None /\ sub[s] = None /\ s \notin failed
    BY <1>2, ActorsAre DEF Init
  <2>2. Asking(s)
    BY <2>1 DEF Asking, Getting
  <2>3. ASSUME NEW o \in Objects
        PROVE  s \in subs[o] <=> Subscribed(s, o)
    BY <2>1, RegistryAssumption DEF Init, Subscribed
  <2> QED
    BY <2>2, <2>3 DEF SourceFits, Stage
<1> QED
  BY <1>1, <1>3, <1>4, <1>5, <1>6, <1>7 DEF RegistryInv, SourceInv

LEMMA RegistryNext ==
    RegistryInv /\ [Next]_vars => RegistryInv'
<1> SUFFICES ASSUME RegistryInv, [Next]_vars
             PROVE  RegistryInv'
  OBVIOUS
<1> QED
  BY TypeNext, DestroysOnceNext, LiveTokensNext, CountedNext, QtInvNext, SourceInvNext
     DEF RegistryInv

LEMMA RegistryInvariant ==
    Spec => []RegistryInv
BY RegistryInit, RegistryNext, PTL DEF Spec

\* The registry, its holders and their calls are what receive-session.c and its
\* callers declare them to be.
THEOREM RegistryTypes ==
    Spec => []TypeOK
<1>1. RegistryInv => TypeOK
  BY DEF RegistryInv
<1> QED
  BY <1>1, RegistryInvariant, PTL

\* However gets, subscriptions, releases and enumerations of the threads
\* interleave, refcount is the number of those who hold a reference, and a
\* session out of g_sessions is held by nobody.
THEOREM CountsAreOwners ==
    Spec => []RefsCounted
<1>1. RegistryInv => RefsCounted
  BY DEF RegistryInv, Counted, RefsCounted, Live
<1> QED
  BY <1>1, RegistryInvariant, PTL

\* tether_receive_session_release leaves no session in g_sessions that nobody
\* holds: what is there has an owner who will release it.
LiveIsOwned == \A o \in Live : Owners(o) > 0

\* The last release takes the session out: none stays in g_sessions for ever
\* because a reference got lost on the way.
THEOREM NoneIsForgotten ==
    Spec => []LiveIsOwned
<1>1. RegistryInv => LiveIsOwned
  BY DEF RegistryInv, Counted, LiveIsOwned, Live
<1> QED
  BY <1>1, RegistryInvariant, PTL

\* tether_receive_session_get makes no second session for a token, however the
\* gets of the threads and the last releases interleave.
THEOREM TokensHaveOneSession ==
    Spec => []OnePerToken
<1>1. ASSUME RegistryInv, NEW t \in Tokens
      PROVE  Cardinality(LiveOf(t)) <= 1
  <2>1. \A o, x \in LiveOf(t) : x = o
    BY <1>1 DEF LiveOf, RegistryInv, LiveTokens
  <2>2. CASE LiveOf(t) = {}
    BY <2>2, FS_EmptySet
  <2>3. ASSUME NEW o \in LiveOf(t)
        PROVE  Cardinality(LiveOf(t)) <= 1
    <3>1. LiveOf(t) = {o}
      BY <2>1
    <3>2. Cardinality({o}) = 1
      BY FS_Singleton
    <3> QED
      BY ONLY <3>1, <3>2
  <2> QED
    BY <2>2, <2>3
<1>2. RegistryInv => OnePerToken
  BY <1>1 DEF OnePerToken
<1> QED
  BY <1>2, RegistryInvariant, PTL

\* attach_session of source.c leaves a source with the session of its token, or
\* with none where the registry had none to give, and in the list of no other.
THEOREM SourcesGetTheirTokens ==
    Spec => []SourceGetsItsToken
<1>1. ASSUME RegistryInv, NEW s \in Sources, Idle(s)
      PROVE  /\ want[s] # None /\ s \notin failed => sub[s] \in LiveOf(want[s])
             /\ \A o \in Objects : s \in subs[o] <=> sub[s] = o
  <2>1. TypeOK /\ SourceFits(s) /\ todo[s] = <<>>
    BY <1>1 DEF RegistryInv, SourceInv, Idle
  <2>2. \A o \in Objects : s \in subs[o] <=> sub[s] = o
    BY <2>1 DEF SourceFits, Subscribed
  <2>3. CASE Asking(s)
    <3>1. want[s] = None
      BY <2>1, <2>3, GettingIsTyped DEF Asking
    <3> QED
      BY <2>2, <3>1
  <2>4. CASE Refused(s)
    BY <2>2, <2>4 DEF Refused
  <2>5. ASSUME NEW o \in Objects, Leaving(s, o)
        PROVE  FALSE
    <3>1. Getting(s) \in Seq(Calls)
      BY <2>1, GettingIsTyped
    <3> QED
      BY <2>1, <2>5, <3>1, LeavingHeads DEF Leaving
  <2>6. ASSUME NEW o \in Objects, Joining(s, o)
        PROVE  FALSE
    BY <2>1, <2>6 DEF Joining
  <2>7. ASSUME NEW o \in Objects, Joined(s, o)
        PROVE  sub[s] \in LiveOf(want[s])
    BY <1>1, <2>7, JoiningIsLive DEF Joined, LiveOf
  <2> QED
    BY <2>1, <2>2, <2>3, <2>4, <2>5, <2>6, <2>7 DEF SourceFits, Stage
<1>2. RegistryInv => SourceGetsItsToken
  BY <1>1 DEF SourceGetsItsToken
<1> QED
  BY <1>2, RegistryInvariant, PTL

\* No thread touches a session that another one has destroyed: what it is about
\* to release, to subscribe to or to leave, what the dialog shows and what a
\* source is subscribed to is in g_sessions.
UsedIsLive ==
    /\ \A a \in Actors : Calling(a, "release") => Of(a) \in Live
    /\ \A s \in Sources : \A c \in {"unsubscribe", "push", "bump"} :
          Calling(s, c) => Of(s) \in Live
    /\ \A t \in Tokens : dialog[t] # None => dialog[t] \in Live
    /\ \A s \in Sources : sub[s] # None => sub[s] \in Live

\* The reference count of receive-session.c protects every use of a session: by
\* a source, by the dialog, and by whoever releases it.
THEOREM NothingDestroyedIsUsed ==
    Spec => []UsedIsLive
<1>1. ASSUME RegistryInv, NEW s \in Sources, NEW c \in {"unsubscribe", "bump"}, Calling(s, c)
      PROVE  Of(s) \in Live
  <2>1. TypeOK /\ Of(s) \in Objects
    BY <1>1, CallNow, ActorsAre DEF RegistryInv
  <2>2. Subscribed(s, Of(s))
    BY <1>1, <2>1, SubscribedNow
  <2> QED
    BY <1>1, <2>1, <2>2, SubscribedIsLive
<1>2. ASSUME RegistryInv, NEW s \in Sources, Calling(s, "push")
      PROVE  Of(s) \in Live
  <2>1. /\ s \notin failed /\ sub[s] = None /\ want[s] \in Tokens /\ Of(s) \in Objects
        /\ tok[Of(s)] = want[s] /\ Tail(todo[s]) = <<Call("bump", Of(s)), Call("release", Of(s))>>
    BY <1>2, StageNow
  <2>2. /\ TypeOK /\ Counted /\ s \in Actors
        /\ Call("release", Of(s)) \in Calls /\ Call("bump", Of(s)) \in Calls
    BY <1>2, <2>1, ActorsAre, TypedCalls DEF RegistryInv
  <2>3. todo[s] \in Seq(Calls) /\ todo[s] # <<>>
    BY <1>2, <2>2, CallNow
  <2>4. 2 \in DOMAIN Tail(todo[s]) /\ Tail(todo[s])[2] = Call("release", Of(s))
    <3>1. \A x, y : 2 \in DOMAIN <<x, y>> /\ <<x, y>>[2] = y
      OBVIOUS
    <3> QED
      BY ONLY <2>1, <3>1
  <2>5. 3 \in DOMAIN todo[s] /\ todo[s][3] = Call("release", Of(s))
    BY <2>3, <2>4, TailPlaces
  <2>6. todo[s][3].call = "release" /\ todo[s][3].of = Of(s)
    BY <2>5 DEF Call
  <2> QED
    BY <2>2, <2>5, <2>6, OwnedAreLive
<1>3. ASSUME RegistryInv
      PROVE  UsedIsLive
  <2>1. \A a \in Actors : Calling(a, "release") => Of(a) \in Live
    BY <1>3, OwnedNow
  <2>2. /\ \A t \in Tokens : dialog[t] # None => dialog[t] \in Live
        /\ \A s \in Sources : sub[s] # None => sub[s] \in Live
    BY <1>3, OwnedAreLive DEF RegistryInv
  <2> QED
    BY <1>1, <1>2, <1>3, <2>1, <2>2 DEF UsedIsLive
<1>4. RegistryInv => UsedIsLive
  BY <1>3
<1> QED
  BY <1>4, RegistryInvariant, PTL

-----------------------------------------------------------------------------
(* The registry is a table of shared sessions.                             *)

\* What a step does to the counts of the sessions.
Sharing(o) == o \in Live /\ refs' = [refs EXCEPT ![o] = @ + 1] /\ UNCHANGED <<life, tok>>

SharingAll ==
    /\ refs' = [o \in Objects |-> IF o \in Live THEN refs[o] + 1 ELSE refs[o]]
    /\ UNCHANGED <<life, tok>>

LEMMA CountSteps ==
    ASSUME RegistryInv, [Next]_vars
    PROVE  \/ UNCHANGED <<life, tok, refs>>
           \/ \E t \in Tokens, o \in Objects \cup {None} : Get(t, o)
           \/ \E o \in Objects : Sharing(o)
           \/ SharingAll
           \/ Releasing
           \/ \E a \in Actors : CallDestroy(a)
<1> DEFINE Goal == \/ UNCHANGED <<life, tok, refs>>
                   \/ \E t \in Tokens, o \in Objects \cup {None} : Get(t, o)
                   \/ \E o \in Objects : Sharing(o)
                   \/ SharingAll
                   \/ Releasing
                   \/ \E a \in Actors : CallDestroy(a)
<1>1. TypeOK
  BY DEF RegistryInv
<1>2. CASE UNCHANGED <<life, tok, refs>>
  BY <1>2
<1>3. ASSUME Releasing \/ \E a \in Actors : CallDestroy(a)
      PROVE  Goal
  BY <1>3
<1>4. ASSUME NEW t \in Tokens, NEW o \in Objects \cup {None}, Get(t, o)
      PROVE  Goal
  BY <1>4
<1>5. ASSUME NEW a \in Actors, CallRelease(a)
      PROVE  Releasing
  <2>1. /\ Calling(a, "release") /\ Release(a, Of(a), Tail(todo[a])) /\ Of(a) \in Live
        /\ Tail(todo[a]) \in Seq(Calls)
    BY <1>1, <1>5, CallNow, OwnedNow DEF CallRelease
  <2>2. NoDestroy(Tail(todo[a]))
    BY <1>1, <2>1, NoDestroyAfter DEF RegistryInv
  <2> QED
    BY <2>1, <2>2 DEF Releasing
<1>6. ASSUME NEW s \in Sources, Source(s)
      PROVE  Goal
  <2>1. s \in Actors
    BY ActorsAre
  <2>2. CASE CallUnsubscribe(s) \/ CallKnow(s) \/ CallPush(s)
    BY <1>2, <2>2 DEF CallUnsubscribe, CallKnow, CallPush, sessionVars
  <2>3. CASE CallBump(s)
    <3>1. Calling(s, "bump") /\ Of(s) \in Objects
      BY <1>1, <2>1, <2>3, CallNow DEF CallBump
    <3>2. Of(s) \in Live
      BY <1>1, <3>1, SubscribedNow, SubscribedIsLive
    <3>3. refs' = [refs EXCEPT ![Of(s)] = @ + 1] /\ UNCHANGED <<life, tok>>
      BY <2>3 DEF CallBump
    <3> QED
      BY <3>1, <3>2, <3>3 DEF Sharing
  <2>4. CASE CallGet(s)
    <3>1. Of(s) \in Tokens
      BY <1>1, <2>1, <2>4, CallNow DEF CallGet
    <3>2. PICK o \in Objects \cup {None} : Get(Of(s), o)
      BY <2>4 DEF CallGet
    <3> QED
      BY <1>4, <3>1, <3>2
  <2> QED
    BY <1>3, <1>5, <1>6, <2>1, <2>2, <2>3, <2>4 DEF Source
<1>7. ASSUME Qt
      PROVE  Goal
  <2>1. "qt" \in Actors
    BY ActorsAre
  <2>2. CASE CallRefresh
    BY <1>2, <2>2 DEF CallRefresh, sessionVars
  <2>3. CASE CallTake \/ CallPeek
    <3>1. Of("qt") \in Tokens
      BY <1>1, <2>1, <2>3, CallNow DEF CallTake, CallPeek
    <3>2. PICK o \in Objects \cup {None} : Get(Of("qt"), o)
      BY <2>3 DEF CallTake, CallPeek
    <3> QED
      BY <1>4, <3>1, <3>2
  <2>4. CASE CallDrop
    BY <1>1, <2>1, <2>4, DropReleases
  <2> QED
    BY <1>3, <1>5, <1>7, <2>1, <2>2, <2>3, <2>4 DEF Qt
<1>8. ASSUME Control
      PROVE  Goal
  <2>1. "control" \in Actors
    BY ActorsAre
  <2>2. CASE CallHold
    <3>1. Of("control") \in Tokens
      BY <1>1, <2>1, <2>2, CallNow DEF CallHold
    <3>2. PICK o \in Objects \cup {None} : Get(Of("control"), o)
      BY <2>2 DEF CallHold
    <3> QED
      BY <1>4, <3>1, <3>2
  <2>3. CASE CallForget
    BY <1>2, <2>1, <2>3, ForgetReleases
  <2> QED
    BY <1>3, <1>5, <1>8, <2>1, <2>2, <2>3 DEF Control
<1>9. ASSUME NEW a \in {"qt", "control"}, Chooses(a)
      PROVE  Goal
  BY <1>2, <1>9 DEF Chooses, sessionVars
<1>10. ASSUME NEW s \in Sources, NEW t \in Tokens \cup {None}, Attach(s, t)
       PROVE  Goal
  BY <1>2, <1>10 DEF Attach, sessionVars
<1>11. CASE CtlStatus
  BY <1>11 DEF CtlStatus, SharingAll
<1>12. CASE UNCHANGED vars
  BY <1>12 DEF vars, sessionVars
<1> QED
  BY <1>1, <1>6, <1>7, <1>8, <1>9, <1>10, <1>11, <1>12, NextSteps

\* Owners, as the count of the sessions in the registry.
UsersOf(o) == IF life[o] = "live" THEN refs[o] ELSE 0
Users == [o \in Objects |-> UsersOf(o)]

LEMMA UsersAre ==
    ASSUME RegistryInv
    PROVE  [o \in Objects |-> Owners(o)] = Users
BY DEF RegistryInv, Counted, UsersOf, Users

LEMMA GetIsMakeOrShare ==
    ASSUME TypeOK, NEW t \in Tokens, NEW o \in Objects \cup {None}, Get(t, o)
    PROVE  \/ UNCHANGED <<life, tok, refs>>
           \/ o \in Objects /\ Sharing(o)
           \/ /\ o \in Objects /\ life[o] = "free" /\ \A x \in Live : tok[x] # t
              /\ life' = [life EXCEPT ![o] = "live"] /\ tok' = [tok EXCEPT ![o] = t]
              /\ refs' = [refs EXCEPT ![o] = 1]
BY DEF Get, Fresh, Sharing, LiveOf, Live

\* The kinds of steps, in the terms of the table.
LEMMA TableSteps ==
    ASSUME RegistryInv, [Next]_vars
    PROVE  \/ Users' = Users /\ UNCHANGED <<life, tok>>
           \/ \E o \in Live : Users' = [Users EXCEPT ![o] = @ + 1] /\ UNCHANGED <<life, tok>>
           \/ /\ Users' = [o \in Objects |-> IF o \in Live THEN Users[o] + 1 ELSE Users[o]]
              /\ UNCHANGED <<life, tok>>
           \/ \E o \in Live :
                 /\ Users[o] > 0 /\ Users' = [Users EXCEPT ![o] = @ - 1]
                 /\ life' = IF Users[o] = 1 THEN [life EXCEPT ![o] = "dying"] ELSE life
                 /\ UNCHANGED tok
           \/ \E o \in Objects :
                 /\ life[o] = "dying" /\ Users[o] = 0 /\ Users' = Users
                 /\ life' = [life EXCEPT ![o] = "free"] /\ tok' = [tok EXCEPT ![o] = None]
           \/ \E o \in Objects, t \in Tokens :
                 /\ life[o] = "free" /\ \A x \in Live : tok[x] # t
                 /\ life' = [life EXCEPT ![o] = "live"] /\ tok' = [tok EXCEPT ![o] = t]
                 /\ Users' = [Users EXCEPT ![o] = 1]
<1>1. /\ life \in [Objects -> {"free", "live", "dying"}] /\ refs \in [Objects -> Nat]
      /\ tok \in [Objects -> Tokens \cup {None}] /\ TypeOK
  BY DEF RegistryInv, TypeOK
<1>2. \A o \in Objects : /\ Users[o] = IF life[o] = "live" THEN refs[o] ELSE 0
                        /\ Users'[o] = IF life'[o] = "live" THEN refs'[o] ELSE 0
  BY DEF Users, UsersOf
<1>0. /\ Users = [o \in Objects |-> Users[o]]
      /\ Users' = [o \in Objects |-> Users'[o]]
  BY DEF Users
<1>3. /\ \A o \in Live : o \in Objects /\ life[o] = "live"
      /\ \A o \in Objects : life[o] = "live" => o \in Live
  BY DEF Live
<1>4. CASE UNCHANGED <<life, tok, refs>>
  <2>1. Users' = Users
    BY <1>4 DEF Users, UsersOf
  <2> QED
    BY <1>4, <2>1
<1>5. ASSUME NEW o \in Objects, Sharing(o)
      PROVE  o \in Live /\ Users' = [Users EXCEPT ![o] = @ + 1] /\ UNCHANGED <<life, tok>>
  <2>1. o \in Live /\ refs' = [refs EXCEPT ![o] = @ + 1] /\ UNCHANGED <<life, tok>>
    BY <1>5 DEF Sharing
  <2>2. \A x \in Objects : Users'[x] = [Users EXCEPT ![o] = @ + 1][x]
    BY <1>0, <1>1, <1>2, <1>3, <2>1
  <2> QED
    BY <1>0, <2>1, <2>2
<1>6. CASE SharingAll
  <2>1. /\ refs' = [o \in Objects |-> IF o \in Live THEN refs[o] + 1 ELSE refs[o]]
        /\ UNCHANGED <<life, tok>>
    BY <1>6 DEF SharingAll
  <2>2. \A x \in Objects : Users'[x] = IF x \in Live THEN Users[x] + 1 ELSE Users[x]
    BY <1>1, <1>2, <1>3, <2>1
  <2>3. Users' = [o \in Objects |-> IF o \in Live THEN Users[o] + 1 ELSE Users[o]]
    BY <1>0, <2>2
  <2> QED
    BY <2>1, <2>3
<1>7. ASSUME NEW o \in Live, NEW a, NEW rest, Release(a, o, rest)
      PROVE  /\ Users[o] > 0 /\ Users' = [Users EXCEPT ![o] = @ - 1]
             /\ life' = IF Users[o] = 1 THEN [life EXCEPT ![o] = "dying"] ELSE life
             /\ UNCHANGED tok
  <2>1. o \in Objects /\ Users[o] = refs[o] /\ refs[o] \in Nat /\ refs[o] > 0
    BY <1>1, <1>2, <1>3 DEF RegistryInv, Counted
  <2>2. refs' = [refs EXCEPT ![o] = @ - 1] /\ UNCHANGED tok
    BY <1>7 DEF Release
  <2>3. refs[o] <= 1 <=> refs[o] = 1
    BY ONLY <2>1
  <2>4. life' = IF Users[o] = 1 THEN [life EXCEPT ![o] = "dying"] ELSE life
    BY <1>7, <2>1, <2>3 DEF Release
  <2>5. \A x \in Objects : x # o => Users'[x] = Users[x]
    BY <1>1, <1>2, <2>2, <2>4
  <2>6. Users'[o] = Users[o] - 1
    <3>1. CASE Users[o] = 1
      <4>1. life'[o] = "dying"
        BY <1>1, <2>1, <2>4, <3>1
      <4> QED
        BY <1>2, <2>1, <3>1, <4>1
    <3>2. CASE Users[o] # 1
      <4>1. life'[o] = "live" /\ refs'[o] = refs[o] - 1
        BY <1>1, <1>3, <2>1, <2>2, <2>4, <3>2
      <4> QED
        BY <1>2, <2>1, <4>1
    <3> QED
      BY <3>1, <3>2
  <2>7. Users' = [Users EXCEPT ![o] = @ - 1]
    BY <1>0, <2>1, <2>5, <2>6
  <2> QED
    BY <2>1, <2>2, <2>4, <2>7
<1>8. ASSUME NEW a \in Actors, CallDestroy(a)
      PROVE  /\ Of(a) \in Objects /\ life[Of(a)] = "dying" /\ Users[Of(a)] = 0 /\ Users' = Users
             /\ life' = [life EXCEPT ![Of(a)] = "free"] /\ tok' = [tok EXCEPT ![Of(a)] = None]
  <2>1. Of(a) \in Objects /\ life[Of(a)] = "dying"
    <3>1. Calling(a, "destroy")
      BY <1>8 DEF CallDestroy
    <3>2. /\ Of(a) \in Objects /\ 1 \in DOMAIN todo[a]
          /\ todo[a][1].call = "destroy" /\ todo[a][1].of = Of(a)
      BY <1>1, <3>1, CallNow
    <3> QED
      BY <3>2 DEF DestroysOnce, RegistryInv
  <2>2. /\ life' = [life EXCEPT ![Of(a)] = "free"] /\ tok' = [tok EXCEPT ![Of(a)] = None]
        /\ UNCHANGED refs
    BY <1>8 DEF CallDestroy
  <2>3. \A x \in Objects : life'[x] = "live" <=> life[x] = "live"
    BY <1>1, <2>1, <2>2
  <2>4. \A x \in Objects : Users'[x] = Users[x]
    BY <1>2, <2>2, <2>3
  <2> QED
    BY <1>0, <1>2, <2>1, <2>2, <2>4
<1>9. ASSUME NEW o \in Objects, life[o] = "free",
             life' = [life EXCEPT ![o] = "live"], refs' = [refs EXCEPT ![o] = 1]
      PROVE  Users' = [Users EXCEPT ![o] = 1]
  <2>1. \A x \in Objects : Users'[x] = [Users EXCEPT ![o] = 1][x]
    BY <1>0, <1>1, <1>2, <1>9
  <2> QED
    BY <1>0, <2>1
<1>10. ASSUME NEW t \in Tokens, NEW o \in Objects \cup {None}, Get(t, o)
       PROVE  \/ Users' = Users /\ UNCHANGED <<life, tok>>
              \/ o \in Live /\ Users' = [Users EXCEPT ![o] = @ + 1] /\ UNCHANGED <<life, tok>>
              \/ /\ o \in Objects /\ life[o] = "free" /\ \A x \in Live : tok[x] # t
                 /\ life' = [life EXCEPT ![o] = "live"] /\ tok' = [tok EXCEPT ![o] = t]
                 /\ Users' = [Users EXCEPT ![o] = 1]
  <2>1. UNCHANGED <<life, tok, refs>> => Users' = Users
    BY DEF Users, UsersOf
  <2> QED
    BY <1>1, <1>5, <1>9, <1>10, <2>1, GetIsMakeOrShare
<1>11. CASE \E t \in Tokens, o \in Objects \cup {None} : Get(t, o)
  <2>1. PICK t \in Tokens, o \in Objects \cup {None} : Get(t, o)
    BY <1>11
  <2>2. CASE Users' = Users /\ UNCHANGED <<life, tok>>
    BY <2>2
  <2>3. CASE o \in Live /\ Users' = [Users EXCEPT ![o] = @ + 1] /\ UNCHANGED <<life, tok>>
    BY <2>3
  <2>4. CASE /\ o \in Objects /\ life[o] = "free" /\ \A x \in Live : tok[x] # t
             /\ life' = [life EXCEPT ![o] = "live"] /\ tok' = [tok EXCEPT ![o] = t]
             /\ Users' = [Users EXCEPT ![o] = 1]
    BY <2>4
  <2> QED
    BY <1>10, <2>1, <2>2, <2>3, <2>4
<1>12. CASE Releasing
  BY <1>7, <1>12 DEF Releasing
<1> QED
  BY <1>4, <1>5, <1>6, <1>8, <1>11, <1>12, CountSteps

\* receive-session.c shares sessions as one table would, however the gets,
\* subscriptions, enumerations and releases of its threads interleave.
THEOREM RegistryIsSessionTable ==
    Spec => IsSessionTable
<1>1. Init => Table!TableInit
  <2> SUFFICES ASSUME Init PROVE Table!TableInit
    OBVIOUS
  <2>1. RegistryInv
    BY RegistryInit
  <2>2. life = [o \in Objects |-> "free"] /\ tok = [o \in Objects |-> None]
    BY DEF Init
  <2>3. [o \in Objects |-> Owners(o)] = [o \in Objects |-> 0]
    BY <2>1, <2>2, UsersAre DEF Users, UsersOf
  <2> QED
    BY <2>2, <2>3 DEF Table!TableInit
<1>2. RegistryInv /\ [Next]_vars => [Table!TableNext]_(Table!tableVars)
  <2> SUFFICES ASSUME RegistryInv, [Next]_vars
               PROVE  [Table!TableNext]_(Table!tableVars)
    OBVIOUS
  <2>1. [o \in Objects |-> Owners(o)] = Users
    BY UsersAre
  <2>2. [o \in Objects |-> Owners(o)]' = Users'
    <3>1. RegistryInv'
      BY RegistryNext
    <3>2. \A o \in Objects : Owners(o)' = UsersOf(o)'
      BY <3>1 DEF RegistryInv, Counted, UsersOf
    <3> QED
      BY <3>2 DEF Users
  <2>3. Table!InTable = Live
    BY DEF Table!InTable, Live
  <2>4. \A o \in Live : o \in Objects
    BY DEF Live
  <2>5. CASE Users' = Users /\ UNCHANGED <<life, tok>>
    BY <2>1, <2>2, <2>5 DEF Table!tableVars
  <2>6. ASSUME NEW o \in Live, Users' = [Users EXCEPT ![o] = @ + 1], UNCHANGED <<life, tok>>
        PROVE  Table!TableNext
    <3>1. Table!Share(o)
      BY <2>1, <2>2, <2>3, <2>6 DEF Table!Share
    <3> QED
      BY <2>4, <3>1 DEF Table!TableNext
  <2>7. CASE /\ Users' = [o \in Objects |-> IF o \in Live THEN Users[o] + 1 ELSE Users[o]]
             /\ UNCHANGED <<life, tok>>
    <3>1. Table!ShareAll
      BY <2>1, <2>2, <2>3, <2>7 DEF Table!ShareAll
    <3> QED
      BY <3>1 DEF Table!TableNext
  <2>8. ASSUME NEW o \in Live,
               Users[o] > 0, Users' = [Users EXCEPT ![o] = @ - 1],
               life' = IF Users[o] = 1 THEN [life EXCEPT ![o] = "dying"] ELSE life,
               UNCHANGED tok
        PROVE  Table!TableNext
    <3>1. Table!Leave(o)
      BY <2>1, <2>2, <2>3, <2>8 DEF Table!Leave
    <3> QED
      BY <2>4, <3>1 DEF Table!TableNext
  <2>9. ASSUME NEW o \in Objects,
               life[o] = "dying", Users[o] = 0, Users' = Users,
               life' = [life EXCEPT ![o] = "free"], tok' = [tok EXCEPT ![o] = None]
        PROVE  Table!TableNext
    <3>1. Table!TearDown(o)
      BY <2>1, <2>2, <2>9 DEF Table!TearDown
    <3> QED
      BY <3>1 DEF Table!TableNext
  <2>10. ASSUME NEW o \in Objects, NEW t \in Tokens,
                life[o] = "free", \A x \in Live : tok[x] # t,
                life' = [life EXCEPT ![o] = "live"], tok' = [tok EXCEPT ![o] = t],
                Users' = [Users EXCEPT ![o] = 1]
         PROVE  Table!TableNext
    <3>1. Table!Make(o, t)
      BY <2>1, <2>2, <2>3, <2>10 DEF Table!Make
    <3> QED
      BY <3>1 DEF Table!TableNext
  <2>11. \/ Users' = Users /\ UNCHANGED <<life, tok>>
         \/ \E o \in Live : Users' = [Users EXCEPT ![o] = @ + 1] /\ UNCHANGED <<life, tok>>
         \/ /\ Users' = [o \in Objects |-> IF o \in Live THEN Users[o] + 1 ELSE Users[o]]
            /\ UNCHANGED <<life, tok>>
         \/ \E o \in Live :
               /\ Users[o] > 0 /\ Users' = [Users EXCEPT ![o] = @ - 1]
               /\ life' = IF Users[o] = 1 THEN [life EXCEPT ![o] = "dying"] ELSE life
               /\ UNCHANGED tok
         \/ \E o \in Objects :
               /\ life[o] = "dying" /\ Users[o] = 0 /\ Users' = Users
               /\ life' = [life EXCEPT ![o] = "free"] /\ tok' = [tok EXCEPT ![o] = None]
         \/ \E o \in Objects, t \in Tokens :
               /\ life[o] = "free" /\ \A x \in Live : tok[x] # t
               /\ life' = [life EXCEPT ![o] = "live"] /\ tok' = [tok EXCEPT ![o] = t]
               /\ Users' = [Users EXCEPT ![o] = 1]
    BY TableSteps
  <2> QED
    BY ONLY <2>5, <2>6, <2>7, <2>8, <2>9, <2>10, <2>11
<1> QED
  BY <1>1, <1>2, RegistryInvariant, PTL DEF Spec, IsSessionTable, Table!TableSpec

================================================================================
