------------------------------ MODULE KnownTokens ------------------------------
(***************************************************************************)
(* The list of receive tokens the user registered, with their names        *)
(* (src/src/known-tokens.c), and the file it is kept in.                   *)
(*                                                                         *)
(* Every call holds one lock to its end, so a call is an action, except    *)
(* that the file is written in a step of its own: OBS may crash meanwhile. *)
(* Calls come from the Qt thread, the control socket's and the sources'.   *)
(***************************************************************************)
EXTENDS Integers, Sequences

CONSTANTS
    Tokens,
    Names,          \* names a user gives
    None,           \* a NULL name; an empty one is stored as NULL
    Absent          \* the book's mark of an unknown token

ASSUME KnownTokensAssumption == None \notin Names /\ Absent \notin Names \cup {None}

VARIABLES
    initialised,    \* g_initialised
    entries,        \* g_entries
    file,           \* the entries a load would find: none in a torn file
    saving          \* the lock is held by a call that writes the file

vars == <<initialised, entries, file, saving>>

Entry == [token : Tokens, name : Names \cup {None}]

TypeOK ==
    /\ initialised \in BOOLEAN
    /\ entries \in Seq(Entry)
    /\ file \in Seq(Entry)
    /\ saving \in BOOLEAN

Init ==
    /\ initialised = FALSE
    /\ entries = <<>>
    /\ file = <<>>
    /\ saving = FALSE

-----------------------------------------------------------------------------
At(list, t) == {i \in DOMAIN list : list[i].token = t}

\* The loop of each call stops at the first entry of the token.
IsFirst(i, t) == i \in At(entries, t) /\ \A j \in At(entries, t) : i <= j

\* save_to_disk_locked: the file is opened, and emptied, and then written; or
\* there is no path, or it cannot be opened, and nobody is told.
Save(list) ==
    /\ entries' = list
    /\ \/ saving' = TRUE /\ file' = <<>>
       \/ UNCHANGED <<saving, file>>

Ready == initialised /\ ~saving

Add(t) ==
    /\ Ready
    /\ At(entries, t) = {}
    /\ Save(Append(entries, [token |-> t, name |-> None]))
    /\ UNCHANGED initialised

\* Mutant of Remove: the list is cut where the token was.
RemoveRest(t) ==
    /\ Ready
    /\ \E i \in DOMAIN entries :
          IsFirst(i, t) /\ Save(SubSeq(entries, 1, i - 1))
    /\ UNCHANGED initialised

Remove(t) ==
    /\ Ready
    /\ \E i \in DOMAIN entries :
          /\ IsFirst(i, t)
          /\ Save(SubSeq(entries, 1, i - 1) \o SubSeq(entries, i + 1, Len(entries)))
    /\ UNCHANGED initialised

SetName(t, n) ==
    /\ Ready
    /\ \E i \in DOMAIN entries :
          IsFirst(i, t) /\ Save([entries EXCEPT ![i].name = n])
    /\ UNCHANGED initialised

\* obs_data_save_json ends: the file holds the list, or the disk was full.
Written ==
    /\ saving
    /\ saving' = FALSE
    /\ file' \in {entries, file}
    /\ UNCHANGED <<initialised, entries>>

\* obs_module_load.
Load ==
    /\ ~initialised
    /\ initialised' = TRUE
    /\ entries' = file
    /\ UNCHANGED <<file, saving>>

\* obs_module_unload waits for the lock; nothing is saved again.
Shutdown ==
    /\ Ready
    /\ initialised' = FALSE
    /\ entries' = <<>>
    /\ UNCHANGED <<file, saving>>

\* OBS crashes, perhaps while the file is written.
Crash ==
    /\ initialised
    /\ initialised' = FALSE
    /\ entries' = <<>>
    /\ saving' = FALSE
    /\ UNCHANGED file

Next ==
    \/ \E t \in Tokens : Add(t)
    \/ \E t \in Tokens : Remove(t)
    \/ \E t \in Tokens, n \in Names \cup {None} : SetName(t, n)
    \/ Written
    \/ Load
    \/ Shutdown
    \/ Crash

Spec == Init /\ [][Next]_vars

-----------------------------------------------------------------------------
\* The list as a book.
BookOf(list) ==
    [t \in Tokens |->
        IF \E i \in DOMAIN list : list[i].token = t
        THEN list[CHOOSE i \in DOMAIN list : list[i].token = t].name
        ELSE Absent]

Book == INSTANCE TokenBook WITH
            book <- IF initialised THEN BookOf(entries) ELSE BookOf(file),
            durable <- BookOf(file)

-----------------------------------------------------------------------------
(* Properties.                                                             *)

\* The list is a book of tokens: a call registers, renames or forgets the token
\* it names and leaves the others alone, and a restart finds what was last
\* saved, or nothing.  (tether_known_tokens_add, _remove and _set_name, which save;
\* the header says that the tokens are not written back to disk.)
IsTokenBook == Book!BookSpec

================================================================================
