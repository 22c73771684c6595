----------------------------- MODULE SessionTable ------------------------------
(***************************************************************************)
(* What the registry of receive sessions promises those who share it: a    *)
(* session per token, made for the first user, shared with every further   *)
(* one, and out of the table in the very step in which the last one        *)
(* leaves.  Its address is given out again only after it was torn down.    *)
(***************************************************************************)
EXTENDS Naturals

CONSTANTS Tokens, Objects, None

VARIABLES
    phase,          \* live: in the table; dying: out of it, not yet torn down
    token,          \* the token of each session
    users           \* how many hold a reference to it

tableVars == <<phase, token, users>>

InTable == {o \in Objects : phase[o] = "live"}

TableInit ==
    /\ phase = [o \in Objects |-> "free"]
    /\ token = [o \in Objects |-> None]
    /\ users = [o \in Objects |-> 0]

Make(o, t) ==
    /\ phase[o] = "free"
    /\ \A x \in InTable : token[x] # t
    /\ phase' = [phase EXCEPT ![o] = "live"]
    /\ token' = [token EXCEPT ![o] = t]
    /\ users' = [users EXCEPT ![o] = 1]

Share(o) ==
    /\ o \in InTable
    /\ users' = [users EXCEPT ![o] = @ + 1]
    /\ UNCHANGED <<phase, token>>

ShareAll ==
    /\ users' = [o \in Objects |-> IF o \in InTable THEN users[o] + 1 ELSE users[o]]
    /\ UNCHANGED <<phase, token>>

\* Whoever leaves was a user of a session in the table.
Leave(o) ==
    /\ o \in InTable
    /\ users[o] > 0
    /\ users' = [users EXCEPT ![o] = @ - 1]
    /\ phase' = IF users[o] = 1 THEN [phase EXCEPT ![o] = "dying"] ELSE phase
    /\ UNCHANGED token

TearDown(o) ==
    /\ phase[o] = "dying"
    /\ users[o] = 0
    /\ phase' = [phase EXCEPT ![o] = "free"]
    /\ token' = [token EXCEPT ![o] = None]
    /\ UNCHANGED users

TableNext ==
    \/ \E o \in Objects :
          Share(o) \/ Leave(o) \/ TearDown(o) \/ \E t \in Tokens : Make(o, t)
    \/ ShareAll

TableSpec == TableInit /\ [][TableNext]_tableVars
================================================================================
