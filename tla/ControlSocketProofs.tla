-------------------------- MODULE ControlSocketProofs --------------------------
(***************************************************************************)
(* The command socket for any number of clients, peers, tokens, senders    *)
(* and polls.                                                              *)
(*                                                                         *)
(* A command reads the table at one point of the worker's loop, and that   *)
(* it is the sender's there depends on the whole life of a sender.  The    *)
(* invariant says at each point of the loop which sender may call back     *)
(* (Calling), what the point tells of c->sender (Point), and that the      *)
(* table is of that sender (Table) except between its release and the      *)
(* clearing, when nobody can call back.                                    *)
(***************************************************************************)
EXTENDS ControlSocket, SequenceTheorems, TLAPS

\* The sender that may call back: the one that is being made, or c->sender.
Current == IF pc = "creating" THEN made ELSE sender

Calling == alive = IF Current = 0 THEN {} ELSE {Current}

Point ==
    /\ pc = "creating" => sender = 0 /\ made # 0
    /\ pc \in {"await", "revoking"} => sender # 0
    /\ pc = "released" => sender = 0
    /\ pc \in {"read", "dispatch"} => serving \in Clients
    /\ pc = "dispatch" => line[serving] \in Commands
    /\ \A c \in Clients : conn[c] = "sent" => line[c] \in Commands

TableOf(k) ==
    /\ token \in {0, k}
    /\ \A i \in DOMAIN rows : k # 0 /\ rows[i].of = k

Table == pc \notin {"released", "exited"} => TableOf(Current)

Ending ==
    /\ ending \in {"joined", "released", "dropped", "freed"} => pc = "exited"
    /\ ending \in {"released", "dropped", "freed"} => sender = 0
    /\ ending \in {"dropped", "freed"} => \A t \in Tokens : held[t] = 0

Inv == TypeOK /\ Calling /\ Point /\ Table /\ Ending /\ refs = held

-----------------------------------------------------------------------------
(* The rows.                                                               *)

Erase(s, i) == SubSeq(s, 1, i - 1) \o SubSeq(s, i + 1, Len(s))

\* A sequence without one of its elements.
LEMMA Erased ==
    ASSUME NEW S, NEW s \in Seq(S), NEW i \in DOMAIN s
    PROVE  /\ Erase(s, i) \in Seq(S)
           /\ \A j \in DOMAIN Erase(s, i) : \E m \in DOMAIN s : Erase(s, i)[j] = s[m]
<1> DEFINE a == SubSeq(s, 1, i - 1)
           b == SubSeq(s, i + 1, Len(s))
<1>1. i \in 1 .. Len(s) /\ Len(s) \in Nat /\ DOMAIN s = 1 .. Len(s)
  OBVIOUS
<1>2. a \in Seq(S) /\ Len(a) = i - 1 /\ \A j \in 1 .. i - 1 : a[j] = s[j]
  BY <1>1
<1>3. b \in Seq(S) /\ Len(b) = Len(s) - i
      /\ \A j \in 1 .. Len(s) - i : b[j] = s[i + j]
  <2>1. i + 1 \in Int /\ Len(s) \in Int
    BY <1>1
  <2>2. \A k \in (i + 1) .. Len(s) : s[k] \in S
    BY <1>1
  <2>b. b \in Seq(S)
    BY ONLY <2>1, <2>2, SubSeqProperties
  <2>l. Len(b) = IF i + 1 <= Len(s) THEN Len(s) - (i + 1) + 1 ELSE 0
    BY ONLY <2>1, <2>2, SubSeqProperties
  <2>3. \A k \in 1 .. Len(s) - (i + 1) + 1 : b[k] = s[(i + 1) + k - 1]
    BY ONLY <2>1, <2>2, SubSeqProperties
  <2> HIDE DEF a, b
  <2>4. Len(s) - (i + 1) + 1 = Len(s) - i
    BY ONLY <1>1
  <2>5. (IF i + 1 <= Len(s) THEN Len(s) - (i + 1) + 1 ELSE 0) = Len(s) - i
    BY ONLY <1>1
  <2>6. \A k \in 1 .. Len(s) - i : (i + 1) + k - 1 = i + k
    BY ONLY <1>1
  <2>7. Len(b) = Len(s) - i
    BY ONLY <2>l, <2>5
  <2>8. \A k \in 1 .. Len(s) - i : b[k] = s[i + k]
    BY ONLY <2>3, <2>4, <2>6
  <2> QED
    BY ONLY <2>b, <2>7, <2>8
<1>4. Erase(s, i) = a \o b
  BY DEF Erase
<1> HIDE DEF a, b
<1>5. /\ Erase(s, i) \in Seq(S)
      /\ Len(Erase(s, i)) = Len(s) - 1
  <2>1. Erase(s, i) \in Seq(S) /\ Len(Erase(s, i)) = Len(a) + Len(b)
    <3>1. a \in Seq(S) /\ b \in Seq(S)
      BY <1>2, <1>3
    <3>2. a \o b \in Seq(S) /\ Len(a \o b) = Len(a) + Len(b)
      BY ONLY <3>1
    <3> QED
      BY <3>2, <1>4
  <2>2. (i - 1) + (Len(s) - i) = Len(s) - 1
    BY <1>1
  <2> QED
    BY <2>1, <2>2, <1>2, <1>3
<1>6. ASSUME NEW j \in 1 .. Len(s) - 1
      PROVE  Erase(s, i)[j] = s[IF j < i THEN j ELSE j + 1]
  <2>0. (a \o b)[j] = IF j <= Len(a) THEN a[j] ELSE b[j - Len(a)]
    <3>1. a \in Seq(S) /\ b \in Seq(S) /\ j \in 1 .. Len(a) + Len(b)
      BY <1>1, <1>2, <1>3
    <3> QED
      BY ONLY <3>1
  <2>1. CASE j < i
    <3>1. j \in 1 .. i - 1
      BY <2>1, <1>1
    <3>2. Erase(s, i)[j] = a[j]
      BY <2>0, <3>1, <1>1, <1>2, <1>4
    <3> QED
      BY <2>1, <3>1, <3>2, <1>2
  <2>2. CASE j >= i
    <3>1. Erase(s, i)[j] = b[j - (i - 1)]
      <4>1. ~(j <= i - 1)
        BY <2>2, <1>1
      <4>2. Len(a) = i - 1
        BY <1>2
      <4> QED
        BY ONLY <2>0, <4>1, <4>2, <1>4
    <3>2. j - (i - 1) \in 1 .. Len(s) - i
      BY <2>2, <1>1
    <3>3. i + (j - (i - 1)) = j + 1
      BY <1>1
    <3>4. b[j - (i - 1)] = s[j + 1]
      BY <3>2, <3>3, <1>3
    <3>5. ~(j < i)
      BY <2>2, <1>1
    <3> QED
      BY ONLY <3>1, <3>4, <3>5
  <2> QED
    BY <2>1, <2>2, <1>1
<1>7. ASSUME NEW j \in DOMAIN Erase(s, i)
      PROVE  \E m \in DOMAIN s : Erase(s, i)[j] = s[m]
  <2>1. j \in 1 .. Len(s) - 1
    BY <1>5, <1>1
  <2>2. (IF j < i THEN j ELSE j + 1) \in DOMAIN s
    BY <2>1, <1>1
  <2> QED
    BY <2>1, <2>2, <1>6
<1> QED
  BY <1>5, <1>7

\* Without keeps the rows of one sender.
LEMMA WithoutRows ==
    ASSUME rows \in Seq(Row), NEW p, Without(p)
    PROVE  /\ rows' \in Seq(Row)
           /\ \A k : (\A i \in DOMAIN rows : k # 0 /\ rows[i].of = k)
                        => \A i \in DOMAIN rows' : k # 0 /\ rows'[i].of = k
<1>1. CASE UNCHANGED rows
  BY <1>1
<1>2. CASE \E i \in RowsOf(p) :
              rows' = SubSeq(rows, 1, i - 1) \o SubSeq(rows, i + 1, Len(rows))
  <2>1. PICK i \in RowsOf(p) : rows' = Erase(rows, i)
    BY <1>2 DEF Erase
  <2>2. i \in DOMAIN rows
    BY DEF RowsOf
  <2> HIDE DEF Row
  <2>3. rows' \in Seq(Row) /\ \A j \in DOMAIN rows' : \E m \in DOMAIN rows : rows'[j] = rows[m]
    BY <2>1, <2>2, Erased
  <2> QED
    BY <2>3
<1> QED
  BY <1>1, <1>2 DEF Without, IsFirst

-----------------------------------------------------------------------------
(* The invariant.                                                          *)

LEMMA InitInv == Init => Inv
BY ControlAssumption
   DEF Init, Inv, TypeOK, Calling, Current, Point, Table, TableOf, Ending, Commands

\* What the clients do.
LEMMA ClientsKeepInv ==
    ASSUME Inv, NEW c \in Clients, ClientStep(c)
    PROVE  Inv'
<1> USE DEF Inv, TypeOK, Calling, Current, Point, Table, TableOf, Ending,
            workerVars, tableVars, senderVars, heldVars
<1>1. CASE Connect(c)
  BY <1>1 DEF Connect
<1>2. ASSUME NEW command \in Commands, Send(c, command)
      PROVE  Inv'
  BY <1>2 DEF Send
<1>3. CASE Leave(c)
  BY <1>3 DEF Leave
<1> QED
  BY <1>1, <1>2, <1>3 DEF ClientStep

\* Where the worker neither makes nor ends a sender, nor alters the table.
LEMMA LoopKeepsInv ==
    ASSUME Inv,
           \/ Check \/ Accept \/ AcceptFails \/ AcceptBreaks \/ Read \/ Close
           \/ Other \/ Revoke \/ Await \/ RegisterFails
    PROVE  Inv'
<1> USE DEF Inv, TypeOK, Calling, Current, Point, Table, TableOf, Ending, Goto,
            clientVars, workerVars, tableVars, senderVars, heldVars
<1>1. CASE Check
  BY <1>1 DEF Check
<1>2. CASE Accept
  <2>1. Head(queue) \in Clients /\ Tail(queue) \in Seq(Clients)
    BY <1>2 DEF Accept
  <2> QED
    BY <1>2, <2>1 DEF Accept
<1>3. CASE AcceptFails
  BY <1>3 DEF AcceptFails
<1>4. CASE AcceptBreaks
  BY <1>4 DEF AcceptBreaks
<1>5. CASE Read
  BY <1>5 DEF Read
<1>6. CASE Close
  BY <1>6 DEF Close
<1>7. CASE Other
  BY <1>7 DEF Other, Given
<1>8. CASE Revoke
  BY <1>8 DEF Revoke, Given
<1>9. CASE Await
  BY <1>9, ControlAssumption DEF Await
<1>10. CASE RegisterFails
  BY <1>10 DEF RegisterFails, Given
<1> QED
  BY <1>1, <1>2, <1>3, <1>4, <1>5, <1>6, <1>7, <1>8, <1>9, <1>10

-----------------------------------------------------------------------------
\* What the worker does to its sender, to the table and to the sessions it
\* holds.
LEMMA CommandsKeepInv ==
    ASSUME Inv,
           \/ Create \/ Created \/ Revoked \/ Cleared \/ Drop
           \/ Register \/ Forget
    PROVE  Inv'
<1> USE DEF Inv, TypeOK, Calling, Current, Point, Table, TableOf, Ending, Goto,
            clientVars, workerVars, tableVars, senderVars, heldVars
<1>1. CASE Create
  BY <1>1, ControlAssumption DEF Create, Given
<1>2. CASE Created
  BY <1>2, ControlAssumption DEF Created
<1>3. CASE Revoked
  BY <1>3 DEF Revoked, ReleaseSender
<1>4. CASE Cleared
  BY <1>4 DEF Cleared
<1>5. CASE Drop
  <2>1. rows' \in Seq(Row) /\ (TableOf(sender) => TableOf(sender)')
    BY <1>5, WithoutRows DEF Drop
  <2> QED
    BY <1>5, <2>1 DEF Drop, Given
<1>6. CASE Register
  <2>1. line[serving].token \in Tokens
    BY <1>6 DEF Register, Given, Commands
  <2> QED
    BY <1>6, <2>1 DEF Register, Given
<1>7. CASE Forget
  <2> DEFINE t == line[serving].token
  <2>1. t \in Tokens
    BY <1>7 DEF Forget, Given, Commands
  <2>2. held' = [held EXCEPT ![t] = 0] /\ refs' = [held EXCEPT ![t] = held[t] - held[t]]
    BY <1>7 DEF Forget
  <2>3. held[t] - held[t] = 0
    BY <2>1
  <2>4. held' \in [Tokens -> Nat] /\ refs' = [held EXCEPT ![t] = 0]
    BY <2>2, <2>3
  <2>5. refs' = held' /\ refs' \in [Tokens -> Int]
    <3>1. refs' = held'
      BY ONLY <2>2, <2>4
    <3>2. [Tokens -> Nat] \subseteq [Tokens -> Int]
      BY ONLY TRUE
    <3> QED
      BY <3>1, <3>2, <2>4
  <2> QED
    BY <1>7, <2>4, <2>5 DEF Forget, Given
<1> QED
  BY <1>1, <1>2, <1>3, <1>4, <1>5, <1>6, <1>7

\* What the threads of a sender do.
LEMMA CallbacksKeepInv ==
    ASSUME Inv, NEW g \in alive, Callback(g)
    PROVE  Inv'
<1> USE DEF Inv, TypeOK, Calling, Current, Point, Table, TableOf, Ending,
            clientVars, workerVars, tableVars, senderVars, heldVars
<1>0. Current # 0 /\ g = Current
  OBVIOUS
<1>1. CASE OnToken(g)
  BY <1>0, <1>1 DEF OnToken
<1>2. ASSUME NEW p \in Peers, OnPending(g, p)
      PROVE  Inv'
  <2> DEFINE r == [peer |-> p, of |-> g, state |-> "waiting"]
  <2>1. r \in Row /\ rows' = Append(rows, r) /\ r.of = g
    BY <1>2 DEF OnPending, Row
  <2> HIDE DEF r
  <2>2. rows' \in Seq(Row)
    BY <2>1
  <2>3. \A i \in DOMAIN rows' : (i \in DOMAIN rows /\ rows'[i] = rows[i]) \/ rows'[i] = r
    BY <2>1
  <2>4. TableOf(Current) => TableOf(Current)'
    BY <1>0, <1>2, <2>1, <2>3 DEF OnPending
  <2> QED
    BY <1>2, <2>2, <2>4 DEF OnPending
<1>3. ASSUME NEW p \in Peers, NEW state \in {"waiting", "connected", "failed"},
             OnPeerState(p, state)
      PROVE  Inv'
  <2>1. PICK i \in RowsOf(p) : rows' = [rows EXCEPT ![i].state = state]
    BY <1>3 DEF OnPeerState
  <2>2. i \in DOMAIN rows /\ rows[i] \in Row
    BY DEF RowsOf
  <2>3. [rows[i] EXCEPT !.state = state] \in Row
        /\ [rows[i] EXCEPT !.state = state].of = rows[i].of
    BY <2>2 DEF Row
  <2>4. rows' = [rows EXCEPT ![i] = [rows[i] EXCEPT !.state = state]]
    BY <2>1
  <2>5. rows' \in Seq(Row) /\ DOMAIN rows' = DOMAIN rows
        /\ \A j \in DOMAIN rows : rows'[j].of = rows[j].of
    BY <2>2, <2>3, <2>4
  <2>6. TableOf(Current) => TableOf(Current)'
    BY <1>3, <2>5 DEF OnPeerState
  <2> QED
    BY <1>3, <2>5, <2>6 DEF OnPeerState
<1>4. ASSUME NEW p \in Peers, OnPeerGone(p)
      PROVE  Inv'
  <2>1. rows' \in Seq(Row) /\ (TableOf(Current) => TableOf(Current)')
    BY <1>4, WithoutRows DEF OnPeerGone
  <2> QED
    BY <1>4, <2>1 DEF OnPeerGone
<1> QED
  BY <1>1, <1>2, <1>3, <1>4 DEF Callback

\* What the shutdown does.
LEMMA ShutdownKeepsInv ==
    ASSUME Inv, Stop \/ ShutdownStep
    PROVE  Inv'
<1> USE DEF Inv, TypeOK, Calling, Current, Point, Table, TableOf, Ending,
            clientVars, workerVars, tableVars, senderVars, heldVars
<1>1. CASE Stop
  BY <1>1 DEF Stop
<1>2. CASE CloseSocket
  BY <1>2 DEF CloseSocket
<1>3. CASE Join
  BY <1>3 DEF Join
<1>4. CASE EndSender
  BY <1>4 DEF EndSender, ReleaseSender
<1>5. CASE EndSessions
  <2>1. refs' = held' /\ refs' \in [Tokens -> Int] /\ held' \in [Tokens -> Nat]
    BY <1>5 DEF EndSessions
  <2> QED
    BY <1>5, <2>1 DEF EndSessions
<1>6. CASE Free
  BY <1>6 DEF Free
<1> QED
  BY <1>1, <1>2, <1>3, <1>4, <1>5, <1>6 DEF ShutdownStep

\* The invariant holds in every reachable state: types, who calls back at each
\* point of the worker's loop, whose the table is, and what the shutdown has
\* ended.
THEOREM Invariance == Spec => []Inv
<1>1. Inv /\ [Next]_vars => Inv'
  <2> SUFFICES ASSUME Inv, [Next]_vars
               PROVE  Inv'
    OBVIOUS
  <2>1. CASE UNCHANGED vars
    BY <2>1 DEF vars, Inv, TypeOK, Calling, Current, Point, Table, TableOf, Ending,
                clientVars, workerVars, tableVars, senderVars, heldVars
  <2>2. CASE Next
    BY <2>2, ClientsKeepInv, LoopKeepsInv, CommandsKeepInv, CallbacksKeepInv,
       ShutdownKeepsInv DEF Next, WorkerStep
  <2> QED
    BY <2>1, <2>2
<1> QED
  BY <1>1, InitInv, PTL DEF Spec

\* The worker acts on the sender the table is of: at a command, the token and
\* the rows are those of c->sender, or there are none.  (cmd_sender_revoke
\* releases the sender before it clears the table.)
THEOREM CommandsSeeTheirSender == Spec => []TableIsOfTheSender
<1>1. Inv => TableIsOfTheSender
  BY DEF Inv, Table, TableOf, Current, TableIsOfTheSender
<1> QED
  BY <1>1, Invariance, PTL

\* tether_control_shutdown frees what nobody uses any more.
THEOREM ShutdownEndsAll == Spec => []NothingOutlivesShutdown
<1>1. Inv => NothingOutlivesShutdown
  BY DEF Inv, Calling, Current, Ending, NothingOutlivesShutdown
<1> QED
  BY <1>1, Invariance, PTL

-----------------------------------------------------------------------------
(* What ShutdownReturns rests on.                                          *)

\* The most steps the worker still has before it exits, once it was told to.
Left ==
    CASE pc = "accept" -> Polls + 7
      [] pc = "read" -> Polls + 6
      [] pc = "dispatch" -> Polls + 5
      [] pc = "creating" -> Polls + 4
      [] pc = "await" -> polls + 3
      [] pc = "revoking" -> 4
      [] pc = "released" -> 3
      [] pc = "close" -> 2
      [] pc = "check" -> 1
      [] OTHER -> 0

\* The worker waits for a client to speak or to leave.
Silent == pc = "read" /\ conn[serving] = "silent"

Names == {"create", "revoke", "other", "drop", "register", "forget"}

\* The worker waits for nobody.
Ready ==
    \/ pc \in {"check", "creating", "await", "revoking", "released", "close"}
    \/ pc = "accept" /\ ~Listening
    \/ pc = "read" /\ conn[serving] # "silent"
    \/ pc = "dispatch" /\ \E name \in Names : Given(name)

\* While the join waits for the worker, the worker can go on or serves a client
\* that holds its connection in silence: nothing else can hold up the unloading.
OnlySilenceDelays ==
    ending = "closed" /\ pc # "exited" => Left \in Nat /\ Left > 0 /\ (Ready \/ Silent)

\* And each step of the worker brings its exit nearer, whatever clients, senders
\* and the shutdown do in between: no second client is served.
ExitNears ==
    ending # "no" => Left' <= Left /\ (WorkerStep \/ AcceptBreaks => Left' < Left)

LEMMA LeftIsNat == Inv => Left \in Nat /\ (pc # "exited" => Left > 0)
<1> SUFFICES ASSUME Inv PROVE Left \in Nat /\ (pc # "exited" => Left > 0)
  OBVIOUS
<1>1. /\ polls \in Nat /\ Polls \in Nat
      /\ pc \in {"check", "accept", "read", "dispatch", "creating", "await",
                 "revoking", "released", "close", "exited"}
  BY ControlAssumption DEF Inv, TypeOK
<1> QED
  BY ONLY <1>1 DEF Left

LEMMA SilenceOnly == Inv => OnlySilenceDelays
<1> SUFFICES ASSUME Inv, ending = "closed", pc # "exited"
             PROVE  Left \in Nat /\ Left > 0 /\ (Ready \/ Silent)
  BY DEF OnlySilenceDelays
<1>1. pc \in {"check", "accept", "read", "dispatch", "creating", "await",
              "revoking", "released", "close"}
  BY DEF Inv, TypeOK
<1>2. CASE pc = "dispatch"
  <2>1. line[serving] \in Commands
    BY <1>2 DEF Inv, Point
  <2>2. \A c \in Commands : c.name \in Names
    BY DEF Commands, Names
  <2>3. \E name \in Names : Given(name)
    BY <1>2, <2>1, <2>2 DEF Given
  <2> QED
    BY <1>2, <2>3, LeftIsNat DEF Ready
<1>3. CASE pc = "accept"
  BY <1>3, LeftIsNat DEF Ready, Listening
<1>4. CASE pc = "read"
  BY <1>4, LeftIsNat DEF Ready, Silent
<1>5. CASE pc \notin {"dispatch", "accept", "read"}
  BY <1>1, <1>5, LeftIsNat DEF Ready
<1> QED
  BY <1>2, <1>3, <1>4, <1>5

LEMMA WorkerNearsExit ==
    ASSUME Inv, ending # "no", WorkerStep \/ AcceptBreaks
    PROVE  Left' < Left
<1> USE DEF Goto
<1>1. polls \in 0 .. Polls /\ Polls \in Nat
  BY ControlAssumption DEF Inv, TypeOK
<1>2. CASE Check
  <2>1. pc = "check" /\ pc' = "exited"
    BY <1>2 DEF Check
  <2> QED
    BY ONLY <2>1 DEF Left
<1>3. CASE Accept \/ AcceptFails \/ AcceptBreaks
  <2>1. pc = "accept" /\ pc' \in {"read", "exited"}
    BY <1>3 DEF Accept, AcceptFails, AcceptBreaks
  <2> QED
    BY ONLY <1>1, <2>1 DEF Left
<1>4. CASE Read
  <2>1. pc = "read" /\ pc' \in {"dispatch", "close"}
    BY <1>4 DEF Read
  <2> QED
    BY ONLY <1>1, <2>1 DEF Left
<1>5. CASE Other \/ Drop \/ Register \/ RegisterFails \/ Forget \/ Create \/ Revoke
  <2>1. pc = "dispatch" /\ pc' \in {"close", "creating", "revoking"}
    BY <1>5 DEF Other, Drop, Register, RegisterFails, Forget, Create, Revoke, Given
  <2> QED
    BY ONLY <1>1, <2>1 DEF Left
<1>6. CASE Created
  <2>1. pc = "creating" /\ pc' = "await" /\ polls' = Polls
    BY <1>6 DEF Created
  <2> QED
    BY ONLY <1>1, <2>1 DEF Left
<1>7. CASE Await
  <2>1. \/ pc = "await" /\ pc' = "close"
        \/ pc = "await" /\ pc' = "await" /\ polls' = polls - 1
    BY <1>7 DEF Await
  <2> QED
    BY ONLY <1>1, <2>1 DEF Left
<1>8. CASE Revoked \/ Cleared \/ Close
  <2>1. \/ pc = "revoking" /\ pc' = "released"
        \/ pc = "released" /\ pc' = "close"
        \/ pc = "close" /\ pc' = "check"
    BY <1>8 DEF Revoked, Cleared, Close
  <2> QED
    BY ONLY <2>1 DEF Left
<1> QED
  BY <1>2, <1>3, <1>4, <1>5, <1>6, <1>7, <1>8 DEF WorkerStep

LEMMA ExitComesNearer == Inv /\ [Next]_vars => ExitNears
<1> SUFFICES ASSUME Inv, [Next]_vars, ending # "no"
             PROVE  Left' <= Left /\ (WorkerStep \/ AcceptBreaks => Left' < Left)
  BY DEF ExitNears
<1>0. Left \in Nat
  BY LeftIsNat
<1>1. CASE WorkerStep \/ AcceptBreaks
  <2>1. Left' < Left
    BY <1>1, WorkerNearsExit
  <2>2. Left' \in Int
    <3>1. Inv'
      BY <1>1, LoopKeepsInv, CommandsKeepInv DEF WorkerStep
    <3>2. /\ polls' \in Nat /\ Polls \in Nat
          /\ pc' \in {"check", "accept", "read", "dispatch", "creating", "await",
                      "revoking", "released", "close", "exited"}
      BY <3>1, ControlAssumption DEF Inv, TypeOK
    <3> QED
      BY ONLY <3>2 DEF Left
  <2> QED
    BY <1>0, <2>1, <2>2
<1>2. CASE ~(WorkerStep \/ AcceptBreaks)
  <2>1. UNCHANGED workerVars
    <3>1. ASSUME NEW c \in Clients, ClientStep(c)
          PROVE  UNCHANGED workerVars
      BY <3>1 DEF ClientStep, Connect, Send, Leave
    <3>2. ASSUME NEW g \in alive, Callback(g)
          PROVE  UNCHANGED workerVars
      BY <3>2 DEF Callback, OnToken, OnPending, OnPeerState, OnPeerGone
    <3>3. CASE Stop \/ ShutdownStep
      BY <3>3 DEF Stop, ShutdownStep, CloseSocket, Join, EndSender, EndSessions, Free
    <3>4. CASE UNCHANGED vars
      BY <3>4 DEF vars
    <3> QED
      BY <1>2, <3>1, <3>2, <3>3, <3>4 DEF Next
  <2>2. Left' = Left
    BY ONLY <2>1 DEF workerVars, Left
  <2> QED
    BY <1>0, <1>2, <2>2
<1> QED
  BY <1>1, <1>2

\* tether_control_shutdown waits in pthread_join for a worker that can go on, and
\* that exits after at most Left of its steps, unless a client is silent.  With
\* the fairness of FairSpec this is why ShutdownReturns.
THEOREM JoinMakesProgress == Spec => []OnlySilenceDelays /\ [][ExitNears]_vars
  BY Invariance, SilenceOnly, ExitComesNearer, PTL DEF Spec

================================================================================
