----------------------------- MODULE ControlSocket -----------------------------
(***************************************************************************)
(* The command socket of the plug-in, src/src/control.c: one worker serves *)
(* one client at a time, a sender it made calls back from threads of its   *)
(* own, and the thread that unloads the plug-in stops all of it.           *)
(*                                                                         *)
(* The callbacks and the commands that touch the table hold c->lock to     *)
(* their end; each is one action.  A command that may take long (making a  *)
(* sender, awaiting its token, releasing it) is several.                   *)
(***************************************************************************)
EXTENDS Integers, Sequences

CONSTANTS
    Clients,
    Peers,
    Tokens,         \* receive tokens
    None,
    Backlog,        \* of listen: 4 in the code
    Polls,          \* looks for the token of a new sender: 50 in the code
    MaxSenders,     \* bound: senders made
    MaxHeld         \* bound: registrations of a token

ASSUME ControlAssumption ==
    /\ None \notin Clients
    /\ Backlog \in Nat /\ Polls \in Nat /\ MaxSenders \in Nat /\ MaxHeld \in Nat

VARIABLES
    conn,           \* each client: away; silent, left, or its command was sent
    line,           \* the command it sent
    queue,          \* clients not accepted yet
    pc,             \* the worker's next step
    serving,        \* fd: the client it serves
    polls,          \* looks for the token still to be taken
    made,           \* senders made: the last one's number names it
    sender,         \* c->sender, or 0
    alive,          \* senders whose threads may still call back
    token,          \* c->current_token: the sender that was given it, or 0
    rows,           \* c->peers
    met,            \* peers the last sender told of: a room gives an id once
    held,           \* g_held_sessions: how often it holds each token's session
    refs,           \* references of the socket that each session counts
    ending          \* how far tether_control_shutdown came

clientVars == <<conn, line, queue>>
workerVars == <<pc, serving, polls>>
tableVars == <<token, rows, met>>
senderVars == <<made, sender, alive>>
heldVars == <<held, refs>>
vars == <<clientVars, workerVars, tableVars, senderVars, heldVars, ending>>

\* other: a command that changes nothing here (sender-status, sender-accept,
\* receive-status, ping, one with a part missing, one that is unknown); drop:
\* sender-reject and sender-disconnect.
Commands ==
    [name : {"create", "revoke", "other"}]
    \cup [name : {"drop"}, peer : Peers]
    \cup [name : {"register", "forget"}, token : Tokens]

Row == [peer : Peers, of : Nat, state : {"waiting", "connected", "failed"}]

TypeOK ==
    /\ conn \in [Clients -> {"away", "silent", "left", "sent"}]
    /\ line \in [Clients -> Commands \cup {None}]
    /\ queue \in Seq(Clients)
    /\ pc \in {"check", "accept", "read", "dispatch", "creating", "await",
               "revoking", "released", "close", "exited"}
    /\ serving \in Clients \cup {None}
    /\ polls \in 0 .. Polls
    /\ made \in 0 .. MaxSenders
    /\ sender \in 0 .. made
    /\ alive \in SUBSET (1 .. made)
    /\ token \in 0 .. made
    /\ rows \in Seq(Row)
    /\ met \in SUBSET Peers
    /\ held \in [Tokens -> Nat]
    /\ refs \in [Tokens -> Int]
    /\ ending \in {"no", "stopped", "closed", "joined", "released", "dropped", "freed"}

\* tether_control_init: the socket listens and the worker runs.
Init ==
    /\ conn = [c \in Clients |-> "away"]
    /\ line = [c \in Clients |-> None]
    /\ queue = <<>>
    /\ pc = "check"
    /\ serving = None
    /\ polls = 0
    /\ made = 0
    /\ sender = 0
    /\ alive = {}
    /\ token = 0
    /\ rows = <<>>
    /\ met = {}
    /\ held = [t \in Tokens |-> 0]
    /\ refs = [t \in Tokens |-> 0]
    /\ ending = "no"

Listening == ending \in {"no", "stopped"}

-----------------------------------------------------------------------------
(* Clients.  One that leaves after its command only misses the answer.     *)

Connect(c) ==
    /\ Listening
    /\ conn[c] = "away" /\ Len(queue) < Backlog
    /\ conn' = [conn EXCEPT ![c] = "silent"]
    /\ queue' = Append(queue, c)
    /\ UNCHANGED <<line, workerVars, tableVars, senderVars, heldVars, ending>>

Send(c, command) ==
    /\ conn[c] = "silent"
    /\ conn' = [conn EXCEPT ![c] = "sent"]
    /\ line' = [line EXCEPT ![c] = command]
    /\ UNCHANGED <<queue, workerVars, tableVars, senderVars, heldVars, ending>>

Leave(c) ==
    /\ conn[c] = "silent"
    /\ conn' = [conn EXCEPT ![c] = "left"]
    /\ UNCHANGED <<line, queue, workerVars, tableVars, senderVars, heldVars, ending>>

-----------------------------------------------------------------------------
(* The worker.                                                             *)

Goto(step) == pc' = step /\ UNCHANGED <<serving, polls>>

\* The head of the loop.
Check ==
    /\ pc = "check"
    /\ Goto(IF ending = "no" THEN "accept" ELSE "exited")
    /\ UNCHANGED <<clientVars, tableVars, senderVars, heldVars, ending>>

Accept ==
    /\ pc = "accept"
    /\ Listening /\ queue # <<>>
    /\ pc' = "read"
    /\ serving' = Head(queue)
    /\ queue' = Tail(queue)
    /\ UNCHANGED <<conn, line, polls, tableVars, senderVars, heldVars, ending>>

\* The socket was shut down.
AcceptFails ==
    /\ pc = "accept"
    /\ ~Listening
    /\ Goto("exited")
    /\ UNCHANGED <<clientVars, tableVars, senderVars, heldVars, ending>>

\* Any other error ends the worker too, and with it the service.
AcceptBreaks ==
    /\ pc = "accept"
    /\ Listening
    /\ Goto("exited")
    /\ UNCHANGED <<clientVars, tableVars, senderVars, heldVars, ending>>

\* read waits for the line or for the end of the connection, without a limit.
Read ==
    /\ pc = "read"
    /\ conn[serving] # "silent"
    /\ Goto(IF conn[serving] = "sent" THEN "dispatch" ELSE "close")
    /\ UNCHANGED <<clientVars, tableVars, senderVars, heldVars, ending>>

Given(name) == pc = "dispatch" /\ line[serving].name = name

\* The reply only.
Other ==
    /\ Given("other")
    /\ Goto("close")
    /\ UNCHANGED <<clientVars, tableVars, senderVars, heldVars, ending>>

\* tether_sender_create, unless there is a sender or (here at the bound) it
\* fails.  Its threads call back before it returns.
Create ==
    /\ Given("create")
    /\ IF sender # 0 \/ made = MaxSenders
       THEN Goto("close") /\ UNCHANGED <<made, alive, met>>
       ELSE /\ made' = made + 1
            /\ alive' = alive \cup {made + 1}
            /\ met' = {}
            /\ Goto("creating")
    /\ UNCHANGED <<clientVars, token, rows, sender, heldVars, ending>>

Created ==
    /\ pc = "creating"
    /\ sender' = made
    /\ pc' = "await"
    /\ polls' = Polls
    /\ UNCHANGED <<clientVars, serving, tableVars, made, alive, heldVars, ending>>

\* Mutant of Await: it looks until there is a token.
AwaitToken ==
    /\ pc = "await"
    /\ Goto(IF token # 0 THEN "close" ELSE "await")
    /\ UNCHANGED <<clientVars, tableVars, senderVars, heldVars, ending>>

\* A look at the token; the reply has it, or says that the time is over.
Await ==
    /\ pc = "await"
    /\ pc' = IF token # 0 \/ polls = 0 THEN "close" ELSE "await"
    /\ polls' = IF pc' = "close" THEN 0 ELSE polls - 1
    /\ UNCHANGED <<serving, clientVars, tableVars, senderVars, heldVars, ending>>

\* The loop of on_sender_peer_gone: the first row of the peer goes.
RowsOf(p) == {i \in DOMAIN rows : rows[i].peer = p}

IsFirst(i, p) == i \in RowsOf(p) /\ \A j \in RowsOf(p) : i <= j

Without(p) ==
    \/ RowsOf(p) = {} /\ UNCHANGED rows
    \/ \E i \in RowsOf(p) :
          /\ IsFirst(i, p)
          /\ rows' = SubSeq(rows, 1, i - 1) \o SubSeq(rows, i + 1, Len(rows))

\* sender-reject and sender-disconnect call on_sender_peer_gone on this thread;
\* a reject does not when the admission list lacks the peer.
Drop ==
    /\ Given("drop")
    /\ \/ sender # 0 /\ Without(line[serving].peer)
       \/ UNCHANGED rows
    /\ Goto("close")
    /\ UNCHANGED <<clientVars, token, met, senderVars, heldVars, ending>>

\* sender-revoke: tether_sender_revoke_token.
Revoke ==
    /\ Given("revoke")
    /\ Goto(IF sender = 0 THEN "close" ELSE "revoking")
    /\ UNCHANGED <<clientVars, tableVars, senderVars, heldVars, ending>>

\* tether_sender_release ends the threads that call back.
ReleaseSender == alive' = alive \ {sender} /\ sender' = 0 /\ UNCHANGED made

\* Mutant of Revoked: the sender is forgotten without its release.
RevokedOnly ==
    /\ pc = "revoking"
    /\ sender' = 0
    /\ Goto("released")
    /\ UNCHANGED <<clientVars, tableVars, made, alive, heldVars, ending>>

Revoked ==
    /\ pc = "revoking"
    /\ ReleaseSender
    /\ Goto("released")
    /\ UNCHANGED <<clientVars, tableVars, heldVars, ending>>

Cleared ==
    /\ pc = "released"
    /\ token' = 0 /\ rows' = <<>>
    /\ Goto("close")
    /\ UNCHANGED <<clientVars, met, senderVars, heldVars, ending>>

\* receive-register: it does not look whether it holds the session already.
Register ==
    /\ Given("register")
    /\ LET t == line[serving].token
       IN /\ held[t] < MaxHeld
          /\ held' = [held EXCEPT ![t] = @ + 1]
          /\ refs' = [refs EXCEPT ![t] = @ + 1]
    /\ Goto("close")
    /\ UNCHANGED <<clientVars, tableVars, senderVars, ending>>

\* No session could be made: nothing is held.
RegisterFails ==
    /\ Given("register")
    /\ Goto("close")
    /\ UNCHANGED <<clientVars, tableVars, senderVars, heldVars, ending>>

\* Mutant of Forget: one entry is left out, as in an upward loop that erases.
ForgetSome ==
    /\ Given("forget")
    /\ LET t == line[serving].token
       IN /\ held' = [held EXCEPT ![t] = 0]
          /\ refs' = [refs EXCEPT ![t] = IF held[t] = 0 THEN @ ELSE 1]
    /\ Goto("close")
    /\ UNCHANGED <<clientVars, tableVars, senderVars, ending>>

\* receive-forget: every reference it holds.
Forget ==
    /\ Given("forget")
    /\ LET t == line[serving].token
       IN /\ held' = [held EXCEPT ![t] = 0]
          /\ refs' = [refs EXCEPT ![t] = @ - held[t]]
    /\ Goto("close")
    /\ UNCHANGED <<clientVars, tableVars, senderVars, ending>>

\* The connection is closed; the client may come again.
Close ==
    /\ pc = "close"
    /\ pc' = "check"
    /\ conn' = [conn EXCEPT ![serving] = "away"]
    /\ line' = [line EXCEPT ![serving] = None]
    /\ serving' = None
    /\ UNCHANGED <<queue, polls, tableVars, senderVars, heldVars, ending>>

WorkerStep ==
    \/ Check \/ Accept \/ AcceptFails \/ Read \/ Close
    \/ Other \/ Drop \/ Register \/ RegisterFails \/ Forget
    \/ Create \/ Created \/ Await
    \/ Revoke \/ Revoked \/ Cleared

-----------------------------------------------------------------------------
(* The callbacks of a sender's threads.                                    *)

OnToken(g) ==
    /\ token' = g
    /\ UNCHANGED <<clientVars, workerVars, rows, met, senderVars, heldVars, ending>>

OnPending(g, p) ==
    /\ p \notin met
    /\ met' = met \cup {p}
    /\ rows' = Append(rows, [peer |-> p, of |-> g, state |-> "waiting"])
    /\ UNCHANGED <<clientVars, workerVars, token, senderVars, heldVars, ending>>

OnPeerState(p, state) ==
    /\ \E i \in RowsOf(p) :
          IsFirst(i, p) /\ rows' = [rows EXCEPT ![i].state = state]
    /\ UNCHANGED <<clientVars, workerVars, token, met, senderVars, heldVars, ending>>

OnPeerGone(p) ==
    /\ p \in met
    /\ Without(p)
    /\ UNCHANGED <<clientVars, workerVars, token, met, senderVars, heldVars, ending>>

Callback(g) ==
    \/ OnToken(g)
    \/ \E p \in Peers :
          \/ OnPending(g, p)
          \/ \E state \in {"waiting", "connected", "failed"} : OnPeerState(p, state)
          \/ OnPeerGone(p)

-----------------------------------------------------------------------------
(* tether_control_shutdown, on the thread that unloads the plug-in.        *)

Stop ==
    /\ ending = "no"
    /\ ending' = "stopped"
    /\ UNCHANGED <<clientVars, workerVars, tableVars, senderVars, heldVars>>

\* The listening socket is shut down and closed: clients in its queue are cut.
CloseSocket ==
    /\ ending = "stopped"
    /\ ending' = "closed"
    /\ conn' = [c \in Clients |->
                   IF \E i \in DOMAIN queue : queue[i] = c THEN "away" ELSE conn[c]]
    /\ queue' = <<>>
    /\ UNCHANGED <<line, workerVars, tableVars, senderVars, heldVars>>

Join ==
    /\ ending = "closed" /\ pc = "exited"
    /\ ending' = "joined"
    /\ UNCHANGED <<clientVars, workerVars, tableVars, senderVars, heldVars>>

\* Mutant of EndSender: the sender is left to the dialogs' end.
KeepSender ==
    /\ ending = "joined"
    /\ ending' = "released"
    /\ UNCHANGED <<clientVars, workerVars, tableVars, senderVars, heldVars>>

EndSender ==
    /\ ending = "joined"
    /\ IF sender = 0 THEN UNCHANGED senderVars ELSE ReleaseSender
    /\ ending' = "released"
    /\ UNCHANGED <<clientVars, workerVars, tableVars, heldVars>>

EndSessions ==
    /\ ending = "released"
    /\ refs' = [t \in Tokens |-> refs[t] - held[t]]
    /\ held' = [t \in Tokens |-> 0]
    /\ ending' = "dropped"
    /\ UNCHANGED <<clientVars, workerVars, tableVars, senderVars>>

\* The table, the lock and the whole are freed.
Free ==
    /\ ending = "dropped"
    /\ ending' = "freed"
    /\ rows' = <<>> /\ token' = 0
    /\ UNCHANGED <<clientVars, workerVars, met, senderVars, heldVars>>

ShutdownStep == CloseSocket \/ Join \/ EndSender \/ EndSessions \/ Free

-----------------------------------------------------------------------------
ClientStep(c) ==
    Connect(c) \/ (\E command \in Commands : Send(c, command)) \/ Leave(c)

Next ==
    \/ \E c \in Clients : ClientStep(c)
    \/ WorkerStep \/ AcceptBreaks
    \/ \E g \in alive : Callback(g)
    \/ Stop \/ ShutdownStep

Spec == Init /\ [][Next]_vars

\* The worker and the shutdown go on.  No client has to speak or to leave, and
\* no sender to be given a token.
FairSpec == Spec /\ WF_vars(WorkerStep) /\ WF_vars(ShutdownStep)

-----------------------------------------------------------------------------
(* Properties.                                                             *)

\* Whenever the worker takes up a command, the token and the rows are those of
\* the sender it would act on, and there are none when there is no sender: a
\* peer of a revoked sender is never shown, accepted or dropped as one of the
\* next.  (cmd_sender_revoke releases first and clears after.)
TableIsOfTheSender ==
    pc = "dispatch" =>
        /\ token \in {0, sender}
        /\ \A i \in DOMAIN rows : sender # 0 /\ rows[i].of = sender

\* When tether_control_shutdown frees the control block, nobody has it any
\* more: the worker is over, no sender calls back, and every session it held is
\* let go as often as it was taken.
NothingOutlivesShutdown ==
    ending = "freed" =>
        /\ pc = "exited"
        /\ alive = {}
        /\ \A t \in Tokens : refs[t] = 0

\* The unloading of the plug-in ends, whatever command is under way and however
\* long its token takes, unless a client holds its connection in silence for
\* ever.  (The join of tether_control_shutdown against worker and the polls of
\* cmd_sender_create.)
ShutdownReturns == (ending = "stopped" ~> ending = "freed") \/ <>[](pc = "read")
================================================================================
