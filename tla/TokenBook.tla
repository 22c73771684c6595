------------------------------- MODULE TokenBook -------------------------------
(***************************************************************************)
(* What the list of known tokens promises: a book of tokens and names that *)
(* one change at a time alters, that a restart finds as it was when it was *)
(* last saved, and from which a restart may at worst find nothing.         *)
(***************************************************************************)
CONSTANTS Tokens, Names, None, Absent

VARIABLES
    book,           \* each token's name, None when it has none, or Absent
    durable         \* the book a restart would find

bookVars == <<book, durable>>

Empty == [t \in Tokens |-> Absent]

BookInit == book = Empty /\ durable = Empty

\* A file that is being written cannot be read; one that cannot be written
\* stays.
Change(new) ==
    /\ book' = new
    /\ durable' \in {durable, Empty}

Register(t) == book[t] = Absent /\ Change([book EXCEPT ![t] = None])

Rename(t, n) == book[t] # Absent /\ Change([book EXCEPT ![t] = n])

Forget(t) == book[t] # Absent /\ Change([book EXCEPT ![t] = Absent])

Save == durable' = book /\ UNCHANGED book

Restart == book' = durable /\ UNCHANGED durable

BookNext ==
    \/ \E t \in Tokens : Register(t)
    \/ \E t \in Tokens, n \in Names \cup {None} : Rename(t, n)
    \/ \E t \in Tokens : Forget(t)
    \/ Save
    \/ Restart

BookSpec == BookInit /\ [][BookNext]_bookVars
================================================================================
