--------------------------- MODULE KnownTokensProofs ---------------------------
(***************************************************************************)
(* The list of known tokens is a book of tokens.                           *)
(*                                                                         *)
(* The invariant behind the proof is that no token has two entries, in     *)
(* memory or in the file; the rest is what the three changes of a list do  *)
(* to its book.                                                            *)
(***************************************************************************)
EXTENDS KnownTokens, SequenceTheorems, TLAPS

OneEach(list) ==
    \A i, j \in DOMAIN list : list[i].token = list[j].token => i = j

Inv ==
    /\ TypeOK
    /\ OneEach(entries)
    /\ OneEach(file)
    /\ saving => initialised

Without(list, i) == SubSeq(list, 1, i - 1) \o SubSeq(list, i + 1, Len(list))

-----------------------------------------------------------------------------
(* Lists and their books.                                                  *)

\* The list without its i-th entry.
LEMMA WithoutIs ==
    ASSUME NEW list \in Seq(Entry), NEW i \in DOMAIN list
    PROVE  /\ Without(list, i) \in Seq(Entry)
           /\ Len(Without(list, i)) = Len(list) - 1
           /\ \A k \in 1 .. Len(list) - 1 :
                 Without(list, i)[k] = list[IF k < i THEN k ELSE k + 1]
<1> DEFINE a == SubSeq(list, 1, i - 1)
           b == SubSeq(list, i + 1, Len(list))
<1>1. i \in 1 .. Len(list) /\ Len(list) \in Nat
  OBVIOUS
<1>2. a \in Seq(Entry) /\ Len(a) = i - 1 /\ \A k \in 1 .. i - 1 : a[k] = list[k]
  BY <1>1
<1>3. b \in Seq(Entry) /\ Len(b) = Len(list) - i
      /\ \A k \in 1 .. Len(list) - i : b[k] = list[i + k]
  <2>1. i + 1 \in Int /\ Len(list) \in Int
    BY <1>1
  <2>2. \A k \in (i + 1) .. Len(list) : list[k] \in Entry
    BY <1>1
  <2>b. b \in Seq(Entry)
    BY ONLY <2>1, <2>2, SubSeqProperties
  <2>l. Len(b) = IF i + 1 <= Len(list) THEN Len(list) - (i + 1) + 1 ELSE 0
    BY ONLY <2>1, <2>2, SubSeqProperties
  <2>3. \A k \in 1 .. Len(list) - (i + 1) + 1 : b[k] = list[(i + 1) + k - 1]
    BY ONLY <2>1, <2>2, SubSeqProperties
  <2> HIDE DEF a, b
  <2>4. Len(list) - (i + 1) + 1 = Len(list) - i
    BY ONLY <1>1
  <2>5. (IF i + 1 <= Len(list) THEN Len(list) - (i + 1) + 1 ELSE 0) = Len(list) - i
    BY ONLY <1>1
  <2>6. \A k \in 1 .. Len(list) - i : (i + 1) + k - 1 = i + k
    BY ONLY <1>1
  <2>7. Len(b) = Len(list) - i
    BY ONLY <2>l, <2>5
  <2>8. \A k \in 1 .. Len(list) - i : b[k] = list[i + k]
    BY ONLY <2>3, <2>4, <2>6
  <2> QED
    BY ONLY <2>b, <2>7, <2>8
<1>4. Without(list, i) = a \o b
  BY DEF Without
<1> HIDE DEF a, b
<1>5. Without(list, i) \in Seq(Entry) /\ Len(Without(list, i)) = Len(list) - 1
  <2>1. a \o b \in Seq(Entry)
    BY <1>2, <1>3
  <2>2. Len(a \o b) = Len(a) + Len(b)
    <3> HIDE DEF Entry
    <3>1. a \in Seq(Entry) /\ b \in Seq(Entry)
      BY <1>2, <1>3
    <3> QED
      BY ONLY <3>1
  <2>3. (i - 1) + (Len(list) - i) = Len(list) - 1
    BY <1>1
  <2> QED
    BY <2>1, <2>2, <2>3, <1>2, <1>3, <1>4
<1>6. ASSUME NEW k \in 1 .. Len(list) - 1
      PROVE  Without(list, i)[k] = list[IF k < i THEN k ELSE k + 1]
  <2>0. (a \o b)[k] = IF k <= Len(a) THEN a[k] ELSE b[k - Len(a)]
    <3>1. a \in Seq(Entry) /\ b \in Seq(Entry) /\ k \in 1 .. Len(a) + Len(b)
      BY <1>1, <1>2, <1>3
    <3> HIDE DEF Without, Entry
    <3> QED
      BY ONLY <3>1
  <2>1. CASE k < i
    <3>1. k \in 1 .. i - 1
      BY <2>1, <1>1
    <3>2. Without(list, i)[k] = a[k]
      BY <2>0, <3>1, <1>1, <1>2, <1>4
    <3> QED
      BY <2>1, <3>1, <3>2, <1>2
  <2>2. CASE k >= i
    <3>1. Without(list, i)[k] = b[k - (i - 1)]
      <4>1. ~(k <= i - 1)
        BY <2>2, <1>1
      <4>2. Len(a) = i - 1
        BY <1>2
      <4> QED
        BY ONLY <2>0, <4>1, <4>2, <1>4
    <3>2. k - (i - 1) \in 1 .. Len(list) - i
      BY <2>2, <1>1
    <3>3. i + (k - (i - 1)) = k + 1
      BY <1>1
    <3>4. b[k - (i - 1)] = list[k + 1]
      BY <3>2, <3>3, <1>3
    <3>5. ~(k < i)
      BY <2>2, <1>1
    <3> QED
      BY ONLY <3>1, <3>4, <3>5
  <2> QED
    BY <2>1, <2>2, <1>1
<1> QED
  BY <1>1, <1>2, <1>3, <1>5, <1>6

\* A book gives the name of a token's entry, and is made of its tokens.
LEMMA Lookup ==
    ASSUME NEW list \in Seq(Entry), OneEach(list)
    PROVE  /\ BookOf(list) = [t \in Tokens |-> BookOf(list)[t]]
           /\ \A i \in DOMAIN list : BookOf(list)[list[i].token] = list[i].name
           /\ \A t \in Tokens : (\A i \in DOMAIN list : list[i].token # t)
                                    => BookOf(list)[t] = Absent
<1>1. ASSUME NEW i \in DOMAIN list
      PROVE  BookOf(list)[list[i].token] = list[i].name
  <2> DEFINE t == list[i].token
             c == CHOOSE k \in DOMAIN list : list[k].token = t
  <2>1. t \in Tokens
    <3>1. list[i] \in Entry
      OBVIOUS
    <3> QED
      BY <3>1 DEF Entry
  <2>2. c \in DOMAIN list /\ list[c].token = t
    OBVIOUS
  <2>3. c = i
    BY <2>2 DEF OneEach
  <2>4. BookOf(list)[t] = list[c].name
    BY <2>1, <2>2 DEF BookOf
  <2> QED
    BY <2>3, <2>4
<1>2. ASSUME NEW t \in Tokens, \A i \in DOMAIN list : list[i].token # t
      PROVE  BookOf(list)[t] = Absent
  BY <1>2 DEF BookOf
<1>3. BookOf(list) = [t \in Tokens |-> BookOf(list)[t]]
  BY DEF BookOf
<1> QED
  BY <1>1, <1>2, <1>3

\* The same, for an entry whose token and name are known.
LEMMA LookupAt ==
    ASSUME NEW list \in Seq(Entry), OneEach(list), NEW i \in DOMAIN list,
           NEW t, list[i].token = t, NEW n, list[i].name = n
    PROVE  BookOf(list)[t] = n
<1>1. BookOf(list)[list[i].token] = list[i].name
  BY ONLY Lookup, list \in Seq(Entry), OneEach(list), i \in DOMAIN list
<1> QED
  BY ONLY <1>1, list[i].token = t, list[i].name = n

\* A new entry at the end.
LEMMA Appended ==
    ASSUME NEW list \in Seq(Entry), OneEach(list), NEW t \in Tokens,
           At(list, t) = {}
    PROVE  LET new == Append(list, [token |-> t, name |-> None])
           IN  /\ new \in Seq(Entry)
               /\ OneEach(new)
               /\ BookOf(list)[t] = Absent
               /\ BookOf(new) = [BookOf(list) EXCEPT ![t] = None]
<1> DEFINE e == [token |-> t, name |-> None]
           new == Append(list, e)
<1>1. e \in Entry /\ new \in Seq(Entry) /\ Len(new) = Len(list) + 1
      /\ DOMAIN new = 1 .. Len(list) + 1
  BY DEF Entry
<1>2. new[Len(list) + 1] = e /\ \A i \in DOMAIN list : new[i] = list[i]
  OBVIOUS
<1>3. \A i \in DOMAIN list : list[i].token # t
  BY DEF At
<1>4. DOMAIN list = 1 .. Len(list) /\ Len(list) \in Nat
  OBVIOUS
<1> HIDE DEF new
<1>5. OneEach(new)
  BY <1>1, <1>2, <1>3, <1>4 DEF OneEach
<1>6. BookOf(list)[t] = Absent
  BY <1>3, Lookup
<1>7. ASSUME NEW u \in Tokens
      PROVE  BookOf(new)[u] = IF u = t THEN None ELSE BookOf(list)[u]
  <2>1. CASE u = t
    <3>1. PICK j \in DOMAIN new : new[j].token = t /\ new[j].name = None
      BY <1>1, <1>2, <1>4
    <3>2. BookOf(new)[t] = None
      BY ONLY <3>1, <1>1, <1>5, LookupAt
    <3> QED
      BY ONLY <2>1, <3>2
  <2>2. CASE u # t /\ \E i \in DOMAIN list : list[i].token = u
    <3>1. PICK i \in DOMAIN list : list[i].token = u
      BY <2>2
    <3>2. i \in DOMAIN new /\ new[i] = list[i]
      BY <1>1, <1>2, <1>4
    <3>a. new[i].token = u /\ new[i].name = list[i].name
      BY ONLY <3>1, <3>2
    <3>3. BookOf(new)[u] = list[i].name
      BY ONLY <3>a, <3>2, <1>1, <1>5, LookupAt
    <3>4. BookOf(list)[u] = list[i].name
      BY <3>1, Lookup
    <3> QED
      BY <2>2, <3>3, <3>4
  <2>3. CASE u # t /\ \A i \in DOMAIN list : list[i].token # u
    <3>1. \A i \in DOMAIN new : new[i].token # u
      BY <2>3, <1>1, <1>2, <1>4
    <3>2. BookOf(new)[u] = Absent
      BY <3>1, <1>1, <1>5, Lookup
    <3>3. BookOf(list)[u] = Absent
      BY <2>3, Lookup
    <3> QED
      BY <2>3, <3>2, <3>3
  <2> QED
    BY <2>1, <2>2, <2>3
<1>8. BookOf(new) = [BookOf(list) EXCEPT ![t] = None]
  BY <1>7 DEF BookOf
<1> QED
  BY <1>1, <1>5, <1>6, <1>8 DEF new

\* An entry less.
LEMMA Removed ==
    ASSUME NEW list \in Seq(Entry), OneEach(list), NEW t \in Tokens,
           NEW i \in DOMAIN list, list[i].token = t
    PROVE  LET new == Without(list, i)
           IN  /\ new \in Seq(Entry)
               /\ OneEach(new)
               /\ BookOf(new) = [BookOf(list) EXCEPT ![t] = Absent]
<1> DEFINE new == Without(list, i)
           Old(k) == IF k < i THEN k ELSE k + 1
<1> HIDE DEF new
<1>1. /\ new \in Seq(Entry)
      /\ DOMAIN new = 1 .. Len(list) - 1
      /\ \A k \in DOMAIN new : new[k] = list[Old(k)]
  <2>1. /\ new \in Seq(Entry)
        /\ Len(new) = Len(list) - 1
        /\ \A k \in 1 .. Len(list) - 1 :
              new[k] = list[IF k < i THEN k ELSE k + 1]
    BY WithoutIs DEF new
  <2>2. DOMAIN new = 1 .. Len(new)
    BY <2>1
  <2> QED
    BY <2>1, <2>2
<1>2. DOMAIN list = 1 .. Len(list) /\ Len(list) \in Nat
  OBVIOUS
<1>3. ASSUME NEW k \in DOMAIN new
      PROVE  Old(k) \in DOMAIN list /\ Old(k) # i
  BY <1>1, <1>2
<1>4. ASSUME NEW k \in DOMAIN list, k # i
      PROVE  \E m \in DOMAIN new : Old(m) = k
  <2>1. CASE k < i
    BY <2>1, <1>1, <1>2
  <2>2. CASE k > i
    <3>1. k - 1 \in DOMAIN new /\ Old(k - 1) = k
      BY <2>2, <1>1, <1>2
    <3> QED
      BY <3>1
  <2> QED
    BY <2>1, <2>2, <1>2, <1>4
<1>5. \A k, m \in DOMAIN new : Old(k) = Old(m) => k = m
  BY <1>1, <1>2
<1>6. OneEach(new)
  BY <1>1, <1>3, <1>5 DEF OneEach
<1>7. ASSUME NEW u \in Tokens
      PROVE  BookOf(new)[u] = IF u = t THEN Absent ELSE BookOf(list)[u]
  <2>1. CASE u = t
    <3>1. \A k \in DOMAIN new : new[k].token # t
      BY <1>1, <1>3 DEF OneEach
    <3> QED
      BY <2>1, <3>1, <1>1, <1>6, Lookup
  <2>2. CASE u # t /\ \E k \in DOMAIN list : list[k].token = u
    <3>1. PICK k \in DOMAIN list : list[k].token = u
      BY <2>2
    <3>2. k # i
      BY <3>1, <2>2
    <3>3. PICK m \in DOMAIN new : Old(m) = k
      BY <3>2, <1>4
    <3>4. new[m] = list[k]
      BY <3>3, <1>1
    <3>a. new[m].token = u /\ new[m].name = list[k].name
      BY ONLY <3>1, <3>4
    <3>b. new \in Seq(Entry) /\ m \in DOMAIN new
      BY <1>1, <3>3
    <3>5. BookOf(new)[u] = list[k].name
      BY ONLY <3>a, <3>b, <1>6, LookupAt
    <3>6. BookOf(list)[u] = list[k].name
      BY <3>1, Lookup
    <3> QED
      BY <2>2, <3>5, <3>6
  <2>3. CASE u # t /\ \A k \in DOMAIN list : list[k].token # u
    <3>1. \A k \in DOMAIN new : new[k].token # u
      BY <2>3, <1>1, <1>3
    <3>2. BookOf(new)[u] = Absent
      BY <3>1, <1>1, <1>6, Lookup
    <3>3. BookOf(list)[u] = Absent
      BY <2>3, Lookup
    <3> QED
      BY <2>3, <3>2, <3>3
  <2> QED
    BY <2>1, <2>2, <2>3
<1>8. BookOf(new) = [BookOf(list) EXCEPT ![t] = Absent]
  BY <1>7 DEF BookOf
<1> QED
  BY <1>1, <1>6, <1>8 DEF new

\* Another name.
Renaming(list, i, n) == [list EXCEPT ![i].name = n]

LEMMA Renamed ==
    ASSUME NEW list \in Seq(Entry), OneEach(list), NEW t \in Tokens,
           NEW i \in DOMAIN list, list[i].token = t, NEW n \in Names \cup {None}
    PROVE  /\ Renaming(list, i, n) \in Seq(Entry)
           /\ OneEach(Renaming(list, i, n))
           /\ BookOf(list)[t] \in Names \cup {None}
           /\ BookOf(Renaming(list, i, n)) = [BookOf(list) EXCEPT ![t] = n]
<1> DEFINE new == [list EXCEPT ![i].name = n]
<1>0. Renaming(list, i, n) = new
  BY DEF Renaming
<1>1. \A k \in DOMAIN list : list[k] \in Entry
  OBVIOUS
<1>2. [list[i] EXCEPT !.name = n] \in Entry
  BY <1>1 DEF Entry
<1>3. new \in Seq(Entry) /\ DOMAIN new = DOMAIN list
  BY <1>2
<1>4. \A k \in DOMAIN list : new[k].token = list[k].token
  BY <1>1 DEF Entry
<1>5. \A k \in DOMAIN list : new[k].name = IF k = i THEN n ELSE list[k].name
  BY <1>1 DEF Entry
<1> HIDE DEF new
<1>6. OneEach(new)
  BY <1>3, <1>4 DEF OneEach
<1>7. BookOf(list)[t] \in Names \cup {None}
  <2>1. BookOf(list)[t] = list[i].name
    BY Lookup
  <2> QED
    BY <2>1, <1>1 DEF Entry
<1>8. ASSUME NEW u \in Tokens
      PROVE  BookOf(new)[u] = IF u = t THEN n ELSE BookOf(list)[u]
  <2>1. CASE u = t
    <3>1. i \in DOMAIN new /\ new[i].token = t /\ new[i].name = n
      BY ONLY <1>3, <1>4, <1>5, i \in DOMAIN list, list[i].token = t
    <3>2. BookOf(new)[t] = n
      BY ONLY <3>1, <1>3, <1>6, LookupAt
    <3> QED
      BY ONLY <2>1, <3>2
  <2>2. CASE u # t /\ \E k \in DOMAIN list : list[k].token = u
    <3>1. PICK k \in DOMAIN list : list[k].token = u
      BY <2>2
    <3>2. k # i
      BY <3>1, <2>2
    <3>a. k \in DOMAIN new /\ new[k].token = u /\ new[k].name = list[k].name
      BY ONLY <3>1, <3>2, <1>3, <1>4, <1>5
    <3>3. BookOf(new)[u] = list[k].name
      BY ONLY <3>a, <1>3, <1>6, LookupAt
    <3>4. BookOf(list)[u] = list[k].name
      BY <3>1, Lookup
    <3> QED
      BY <2>2, <3>3, <3>4
  <2>3. CASE u # t /\ \A k \in DOMAIN list : list[k].token # u
    <3>1. \A k \in DOMAIN new : new[k].token # u
      BY <2>3, <1>3, <1>4
    <3>2. BookOf(new)[u] = Absent
      BY <3>1, <1>3, <1>6, Lookup
    <3>3. BookOf(list)[u] = Absent
      BY <2>3, Lookup
    <3> QED
      BY <2>3, <3>2, <3>3
  <2> QED
    BY <2>1, <2>2, <2>3
<1>9. BookOf(new) = [BookOf(list) EXCEPT ![t] = n]
  <2>1. BookOf(new) = [u \in Tokens |-> BookOf(new)[u]]
    BY ONLY DEF BookOf
  <2>2. [BookOf(list) EXCEPT ![t] = n]
          = [u \in Tokens |-> IF u = t THEN n ELSE BookOf(list)[u]]
    <3>1. DOMAIN BookOf(list) = Tokens
      BY ONLY DEF BookOf
    <3> QED
      BY ONLY <3>1
  <2>3. [u \in Tokens |-> BookOf(new)[u]]
          = [u \in Tokens |-> IF u = t THEN n ELSE BookOf(list)[u]]
    BY ONLY <1>8
  <2> QED
    BY ONLY <2>1, <2>2, <2>3, Zenon
<1> QED
  BY ONLY <1>0, <1>3, <1>6, <1>7, <1>9

LEMMA EmptyList == <<>> \in Seq(Entry) /\ OneEach(<<>>) /\ BookOf(<<>>) = Book!Empty
BY DEF OneEach, BookOf, Book!Empty

-----------------------------------------------------------------------------
(* The invariant.                                                          *)

LEMMA InitInv == Init => Inv
BY EmptyList DEF Init, Inv, TypeOK

\* What a change of the list keeps, whatever becomes of the file.
LEMMA SaveKeeps ==
    ASSUME Inv, Ready, NEW list \in Seq(Entry), OneEach(list), Save(list),
           UNCHANGED initialised
    PROVE  Inv'
<1>1. entries' = list /\ file' \in {file, <<>>} /\ initialised'
      /\ saving' \in BOOLEAN
  BY DEF Save, Ready, Inv, TypeOK
<1>2. OneEach(file') /\ file' \in Seq(Entry)
  BY <1>1, EmptyList DEF Inv, TypeOK
<1>3. OneEach(list) /\ OneEach(entries')
  BY <1>1
<1>4. initialised' \in BOOLEAN
  BY DEF Inv, TypeOK
<1> QED
  BY <1>1, <1>2, <1>3, <1>4 DEF Inv, TypeOK, OneEach

LEMMA NextInv == Inv /\ [Next]_vars => Inv'
<1> SUFFICES ASSUME Inv, [Next]_vars PROVE Inv'
  OBVIOUS
<1>0. entries \in Seq(Entry) /\ OneEach(entries)
  BY DEF Inv, TypeOK
<1>1. ASSUME NEW t \in Tokens, Add(t) PROVE Inv'
  <2>1. At(entries, t) = {} /\ Ready /\ UNCHANGED initialised
        /\ Save(Append(entries, [token |-> t, name |-> None]))
    BY <1>1 DEF Add
  <2> QED
    BY <2>1, <1>0, Appended, SaveKeeps
<1>2. ASSUME NEW t \in Tokens, Remove(t) PROVE Inv'
  <2>1. PICK i \in DOMAIN entries : IsFirst(i, t) /\ Save(Without(entries, i))
    BY <1>2 DEF Remove, Without
  <2>2. entries[i].token = t
    BY <2>1 DEF IsFirst, At
  <2>3. Ready /\ UNCHANGED initialised
    BY <1>2 DEF Remove
  <2> QED
    BY <2>1, <2>2, <2>3, <1>0, Removed, SaveKeeps
<1>3. ASSUME NEW t \in Tokens, NEW n \in Names \cup {None}, SetName(t, n) PROVE Inv'
  <2>1. PICK i \in DOMAIN entries :
            IsFirst(i, t) /\ Save(Renaming(entries, i, n))
    BY <1>3 DEF SetName, Renaming
  <2>2. entries[i].token = t
    BY <2>1 DEF IsFirst, At
  <2>3. Ready /\ UNCHANGED initialised
    BY <1>3 DEF SetName
  <2> QED
    <3>1. Renaming(entries, i, n) \in Seq(Entry) /\ OneEach(Renaming(entries, i, n))
      BY ONLY <1>0, <1>3, <2>2, i \in DOMAIN entries, Renamed, Zenon
    <3> QED
      BY <2>1, <2>3, <3>1, SaveKeeps
<1>4. CASE Written
  BY <1>4 DEF Written, Inv, TypeOK, OneEach
<1>5. CASE Load
  BY <1>5 DEF Load, Inv, TypeOK, OneEach
<1>6. CASE Shutdown
  BY <1>6, EmptyList DEF Shutdown, Ready, Inv, TypeOK, OneEach
<1>7. CASE Crash
  BY <1>7, EmptyList DEF Crash, Inv, TypeOK, OneEach
<1>8. CASE UNCHANGED vars
  BY <1>8 DEF vars, Inv, TypeOK, OneEach
<1> QED
  BY <1>1, <1>2, <1>3, <1>4, <1>5, <1>6, <1>7, <1>8 DEF Next

LEMMA InvHolds == Spec => []Inv
BY InitInv, NextInv, PTL DEF Spec

\* The list and the file are lists of entries through every change, crash and
\* restart; no token has two entries in either.
THEOREM ListsAreSound == Spec => [](TypeOK /\ OneEach(entries) /\ OneEach(file))
<1>1. Inv => TypeOK /\ OneEach(entries) /\ OneEach(file)
  BY DEF Inv
<1> QED
  BY <1>1, InvHolds, PTL

-----------------------------------------------------------------------------
(* The list is a book.                                                     *)

\* The book, and what a restart would find.
Shown == IF initialised THEN BookOf(entries) ELSE BookOf(file)

Stored == BookOf(file)

\* A change of the list, with its book, is a change of the book.
LEMMA SaveIsChange ==
    ASSUME Ready, NEW list, Save(list), UNCHANGED initialised
    PROVE  Shown' = BookOf(list) /\ Stored' \in {Stored, Book!Empty}
<1>1. entries' = list /\ file' \in {file, <<>>} /\ initialised'
  BY DEF Save, Ready
<1> QED
  BY <1>1, EmptyList DEF Shown, Stored, BookOf

LEMMA NextBook == Inv /\ [Next]_vars => [Book!BookNext]_(Book!bookVars)
<1> SUFFICES ASSUME Inv, [Next]_vars
             PROVE  \/ Book!BookNext
                    \/ Shown' = Shown /\ Stored' = Stored
  BY DEF Book!bookVars, Shown, Stored
<1>0. entries \in Seq(Entry) /\ OneEach(entries)
  BY DEF Inv, TypeOK
<1>1. ASSUME NEW t \in Tokens, Add(t) PROVE Book!Register(t)
  <2>1. At(entries, t) = {} /\ Ready /\ UNCHANGED initialised
        /\ Save(Append(entries, [token |-> t, name |-> None]))
    BY <1>1 DEF Add
  <2>2. BookOf(entries)[t] = Absent
        /\ BookOf(Append(entries, [token |-> t, name |-> None]))
              = [BookOf(entries) EXCEPT ![t] = None]
    BY <2>1, <1>0, Appended
  <2>3. Shown = BookOf(entries)
    BY <2>1 DEF Ready, Shown
  <2>4. Shown' = [Shown EXCEPT ![t] = None] /\ Stored' \in {Stored, Book!Empty}
    BY <2>1, <2>2, <2>3, SaveIsChange
  <2> QED
    BY <2>2, <2>3, <2>4 DEF Book!Register, Book!Change, Shown, Stored
<1>2. ASSUME NEW t \in Tokens, Remove(t) PROVE Book!Forget(t)
  <2>1. PICK i \in DOMAIN entries : IsFirst(i, t) /\ Save(Without(entries, i))
    BY <1>2 DEF Remove, Without
  <2>2. entries[i].token = t
    BY <2>1 DEF IsFirst, At
  <2>3. Ready /\ UNCHANGED initialised
    BY <1>2 DEF Remove
  <2>4. BookOf(Without(entries, i)) = [BookOf(entries) EXCEPT ![t] = Absent]
    BY <2>2, <1>0, Removed
  <2>5. Shown = BookOf(entries)
    BY <2>3 DEF Ready, Shown
  <2>6. Shown[t] # Absent
    <3>1. BookOf(entries)[t] = entries[i].name /\ entries[i] \in Entry
      BY <2>2, <1>0, Lookup
    <3> QED
      BY <3>1, <2>5, KnownTokensAssumption DEF Entry
  <2>7. Shown' = [Shown EXCEPT ![t] = Absent] /\ Stored' \in {Stored, Book!Empty}
    BY <2>1, <2>3, <2>4, <2>5, SaveIsChange
  <2> QED
    BY <2>6, <2>7 DEF Book!Forget, Book!Change, Shown, Stored
<1>3. ASSUME NEW t \in Tokens, NEW n \in Names \cup {None}, SetName(t, n)
      PROVE  Book!Rename(t, n)
  <2>1. PICK i \in DOMAIN entries :
            IsFirst(i, t) /\ Save(Renaming(entries, i, n))
    BY <1>3 DEF SetName, Renaming
  <2>2. entries[i].token = t
    BY <2>1 DEF IsFirst, At
  <2>3. Ready /\ UNCHANGED initialised
    BY <1>3 DEF SetName
  <2>4. BookOf(entries)[t] \in Names \cup {None}
        /\ BookOf(Renaming(entries, i, n)) = [BookOf(entries) EXCEPT ![t] = n]
        /\ Renaming(entries, i, n) \in Seq(Entry) /\ OneEach(Renaming(entries, i, n))
    <3>1. i \in DOMAIN entries /\ entries \in Seq(Entry) /\ OneEach(entries)
      BY <1>0
    <3>2. Renaming(entries, i, n) \in Seq(Entry) /\ OneEach(Renaming(entries, i, n))
      BY ONLY <3>1, <1>3, <2>2, Renamed, Zenon
    <3>3. BookOf(entries)[t] \in Names \cup {None}
      BY ONLY <3>1, <1>3, <2>2, Renamed, Zenon
    <3>4. BookOf(Renaming(entries, i, n)) = [BookOf(entries) EXCEPT ![t] = n]
      BY ONLY <3>1, <1>3, <2>2, Renamed
    <3> QED
      BY ONLY <3>2, <3>3, <3>4
  <2>5. Shown = BookOf(entries)
    BY <2>3 DEF Ready, Shown
  <2>6. Shown[t] # Absent
    BY <2>4, <2>5, KnownTokensAssumption
  <2>7. Shown' = [Shown EXCEPT ![t] = n] /\ Stored' \in {Stored, Book!Empty}
    BY <2>1, <2>3, <2>4, <2>5, SaveIsChange
  <2> QED
    BY <2>6, <2>7 DEF Book!Rename, Book!Change, Shown, Stored
<1>4. CASE Written
  <2>1. initialised /\ initialised' = initialised /\ entries' = entries
        /\ file' \in {file, entries}
    BY <1>4 DEF Written, Inv
  <2>2. Shown' = Shown /\ Stored' \in {Stored, Shown}
    BY <2>1 DEF Shown, Stored, BookOf
  <2> QED
    BY <2>2 DEF Book!BookNext, Book!Save, Shown, Stored
<1>5. CASE Load
  <2>1. Shown' = Shown /\ Stored' = Stored
    BY <1>5 DEF Load, Shown, Stored, BookOf
  <2> QED
    BY <2>1
<1>6. CASE Shutdown \/ Crash
  <2>1. ~initialised' /\ file' = file
    BY <1>6 DEF Shutdown, Crash
  <2>2. Shown' = Stored /\ Stored' = Stored
    BY <2>1 DEF Shown, Stored, BookOf
  <2> QED
    BY <2>2 DEF Book!BookNext, Book!Restart, Shown, Stored
<1>7. CASE UNCHANGED vars
  BY <1>7 DEF vars, Shown, Stored, BookOf
<1> QED
  BY <1>1, <1>2, <1>3, <1>4, <1>5, <1>6, <1>7 DEF Next, Book!BookNext

\* The calls on the list implement the book: registering, renaming and
\* forgetting change one token, and a restart finds what was last saved or
\* nothing.
THEOREM ListIsTokenBook == Spec => IsTokenBook
<1>1. Init => Book!BookInit
  BY EmptyList DEF Init, Book!BookInit
<1> QED
  BY <1>1, NextBook, InvHolds, PTL DEF Spec, IsTokenBook, Book!BookSpec
================================================================================
