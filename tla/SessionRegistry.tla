---------------------------- MODULE SessionRegistry ----------------------------
(***************************************************************************)
(* The registry of receive sessions (src/src/receive-session.c) and those  *)
(* who hold references: the receive dialog, the control socket, the OBS    *)
(* sources and their property pages, with the list of known tokens they    *)
(* share (src/src/known-tokens.c).                                         *)
(*                                                                         *)
(* Each actor runs on a thread of its own; the registry's lock is held     *)
(* inside one action only.  What an actor has still to do is its sequence  *)
(* of calls in todo.                                                       *)
(***************************************************************************)
EXTENDS Integers, Sequences, FiniteSets, SequencesExt

CONSTANTS
    Tokens,
    Sources,        \* OBS sources
    Objects,        \* bound: addresses of session objects
    None,           \* no token, no session
    MaxHeld         \* bound: references of the control socket to one session

ASSUME RegistryAssumption ==
    /\ IsFiniteSet(Tokens) /\ IsFiniteSet(Sources) /\ IsFiniteSet(Objects)
    /\ None \notin Tokens \cup Objects
    /\ {"qt", "control"} \cap Sources = {}
    /\ MaxHeld \in Nat

VARIABLES
    life,           \* live: in g_sessions; dying: removed, not yet destroyed
    tok,            \* s->token of each session
    refs,           \* s->refcount
    subs,           \* s->subs, by the source that owns the subscription
    known,          \* the known tokens
    open,           \* the receive dialog exists
    dialog,         \* sessions_ of the dialog
    held,           \* g_held_sessions of the control socket
    want,           \* the token of each source
    sub,            \* the session of the subscription each source holds
    failed,         \* history: sources that got no session for their token
    todo            \* todo[a]: the calls actor a has still to make

sessionVars == <<life, tok, refs, subs>>
holderVars == <<open, dialog, held, want, sub, failed>>
vars == <<sessionVars, known, holderVars, todo>>

Actors == Sources \cup {"qt", "control"}

Calls == [call : {"release", "destroy", "unsubscribe", "push", "bump"}, of : Objects]
    \cup [call : {"get", "know", "take", "drop", "peek", "hold", "forget"}, of : Tokens]
    \cup [call : {"refresh"}, of : {None}]

TypeOK ==
    /\ life \in [Objects -> {"free", "live", "dying"}]
    /\ tok \in [Objects -> Tokens \cup {None}]
    /\ refs \in [Objects -> Nat]
    /\ subs \in [Objects -> SUBSET Sources]
    /\ known \in SUBSET Tokens
    /\ open \in BOOLEAN
    /\ dialog \in [Tokens -> Objects \cup {None}]
    /\ held \in [Objects -> Nat]
    /\ want \in [Sources -> Tokens \cup {None}]
    /\ sub \in [Sources -> Objects \cup {None}]
    /\ failed \in SUBSET Sources
    /\ todo \in [Actors -> Seq(Calls)]

Init ==
    /\ life = [o \in Objects |-> "free"]
    /\ tok = [o \in Objects |-> None]
    /\ refs = [o \in Objects |-> 0]
    /\ subs = [o \in Objects |-> {}]
    /\ known = {}
    /\ open = FALSE
    /\ dialog = [t \in Tokens |-> None]
    /\ held = [o \in Objects |-> 0]
    /\ want = [s \in Sources |-> None]
    /\ sub = [s \in Sources |-> None]
    /\ failed = {}
    /\ todo = [a \in Actors |-> <<>>]

-----------------------------------------------------------------------------
(* Calls.                                                                  *)

Call(c, x) == [call |-> c, of |-> x]
CallEach(c, q) == [i \in DOMAIN q |-> Call(c, q[i])]

Idle(a) == todo[a] = <<>>
Calling(a, c) == ~Idle(a) /\ Head(todo[a]).call = c
Of(a) == Head(todo[a]).of
Proceed(a) == todo' = [todo EXCEPT ![a] = Tail(@)]
Then(a, calls) == todo' = [todo EXCEPT ![a] = calls \o Tail(@)]
Start(a, calls) == Idle(a) /\ todo' = [todo EXCEPT ![a] = calls]

Live == {o \in Objects : life[o] = "live"}
LiveOf(t) == {o \in Live : tok[o] = t}

\* An address is used again as soon as it is free.
Fresh(o) ==
    o \in Objects /\ life[o] = "free" /\ o = CHOOSE x \in Objects : life[x] = "free"

\* Mutant of Get: the registry is not searched.
GetFresh(t, o) ==
    /\ UNCHANGED subs
    /\ Fresh(o)
    /\ life' = [life EXCEPT ![o] = "live"]
    /\ tok' = [tok EXCEPT ![o] = t]
    /\ refs' = [refs EXCEPT ![o] = 1]

\* tether_receive_session_get returns o: the session of the token, a new one, or
\* none, as when the token is not well-formed.
Get(t, o) ==
    /\ UNCHANGED subs
    /\ \/ /\ o \in LiveOf(t)
          /\ refs' = [refs EXCEPT ![o] = @ + 1]
          /\ UNCHANGED <<life, tok>>
       \/ /\ LiveOf(t) = {}
          /\ o = None
          /\ UNCHANGED <<life, tok, refs>>
       \/ /\ LiveOf(t) = {}
          /\ Fresh(o)
          /\ life' = [life EXCEPT ![o] = "live"]
          /\ tok' = [tok EXCEPT ![o] = t]
          /\ refs' = [refs EXCEPT ![o] = 1]

\* Mutant of Release: the last reference is not the last.
ReleaseLate(a, o, rest) ==
    /\ refs' = [refs EXCEPT ![o] = @ - 1]
    /\ IF refs[o] < 1
       THEN /\ life' = [life EXCEPT ![o] = "dying"]
            /\ todo' = [todo EXCEPT ![a] = <<Call("destroy", o)>> \o rest]
       ELSE UNCHANGED life /\ todo' = [todo EXCEPT ![a] = rest]
    /\ UNCHANGED <<tok, subs>>

\* tether_receive_session_release: the last one takes the session out of the
\* registry; it is destroyed after the unlock, before the caller goes on.
Release(a, o, rest) ==
    /\ refs' = [refs EXCEPT ![o] = @ - 1]
    /\ IF refs[o] <= 1
       THEN /\ life' = [life EXCEPT ![o] = "dying"]
            /\ todo' = [todo EXCEPT ![a] = <<Call("destroy", o)>> \o rest]
       ELSE UNCHANGED life /\ todo' = [todo EXCEPT ![a] = rest]
    /\ UNCHANGED <<tok, subs>>

CallRelease(a) ==
    /\ Calling(a, "release")
    /\ Release(a, Of(a), Tail(todo[a]))
    /\ UNCHANGED <<known, holderVars>>

CallDestroy(a) ==
    /\ Calling(a, "destroy")
    /\ life' = [life EXCEPT ![Of(a)] = "free"]
    /\ tok' = [tok EXCEPT ![Of(a)] = None]
    /\ subs' = [subs EXCEPT ![Of(a)] = {}]
    /\ Proceed(a)
    /\ UNCHANGED <<refs, known, holderVars>>

-----------------------------------------------------------------------------
(* Sources.                                                                *)

\* attach_session, for create, update and (without a token) destroy: the old
\* subscription goes first.
Attach(s, t) ==
    /\ t # want[s]
    /\ Start(s, (IF sub[s] = None THEN <<>>
                 ELSE <<Call("unsubscribe", sub[s]), Call("release", sub[s])>>)
                \o (IF t = None THEN <<>> ELSE <<Call("get", t)>>))
    /\ want' = [want EXCEPT ![s] = t]
    /\ sub' = [sub EXCEPT ![s] = None]
    /\ failed' = failed \ {s}
    /\ UNCHANGED <<sessionVars, known, open, dialog, held>>

\* Mutant of CallUnsubscribe: the subscription stays in the list.
CallUnsubscribeNothing(s) ==
    /\ Calling(s, "unsubscribe")
    /\ Proceed(s)
    /\ UNCHANGED <<sessionVars, known, holderVars>>

\* tether_receive_session_unsubscribe, up to its release.
CallUnsubscribe(s) ==
    /\ Calling(s, "unsubscribe")
    /\ subs' = [subs EXCEPT ![Of(s)] = @ \ {s}]
    /\ Proceed(s)
    /\ UNCHANGED <<life, tok, refs, known, holderVars>>

\* The rest of attach_session runs with the session it got, if it got one.
CallGet(s) ==
    /\ Calling(s, "get")
    /\ \E o \in Objects \cup {None} :
        /\ Get(Of(s), o)
        /\ Then(s, IF o = None THEN <<>>
                   ELSE <<Call("know", Of(s)), Call("push", o), Call("bump", o),
                          Call("release", o)>>)
        /\ failed' = IF o = None THEN failed \cup {s} ELSE failed
    /\ UNCHANGED <<known, open, dialog, held, want, sub>>

CallKnow(s) ==
    /\ Calling(s, "know")
    /\ known' = known \cup {Of(s)}
    /\ Proceed(s)
    /\ UNCHANGED <<sessionVars, holderVars>>

\* tether_receive_session_subscribe: the list under the session's lock, then
\* the reference under the registry's.
CallPush(s) ==
    /\ Calling(s, "push")
    /\ subs' = [subs EXCEPT ![Of(s)] = @ \cup {s}]
    /\ Proceed(s)
    /\ UNCHANGED <<life, tok, refs, known, holderVars>>

\* Mutant of CallBump: the subscription takes no reference of its own.
CallBumpNothing(s) ==
    /\ Calling(s, "bump")
    /\ sub' = [sub EXCEPT ![s] = Of(s)]
    /\ Proceed(s)
    /\ UNCHANGED <<sessionVars, known, open, dialog, held, want, failed>>

CallBump(s) ==
    /\ Calling(s, "bump")
    /\ refs' = [refs EXCEPT ![Of(s)] = @ + 1]
    /\ sub' = [sub EXCEPT ![s] = Of(s)]
    /\ Proceed(s)
    /\ UNCHANGED <<life, tok, subs, known, open, dialog, held, want, failed>>

-----------------------------------------------------------------------------
(* The receive dialog and the property pages, on the Qt thread.            *)

\* The constructor adopts the known tokens, as a refresh does.
OpenDialog ==
    /\ ~open
    /\ open' = TRUE
    /\ Start("qt", <<Call("refresh", None)>>)
    /\ UNCHANGED <<sessionVars, known, dialog, held, want, sub, failed>>

\* onRegisterToken.
Register(t) ==
    /\ open
    /\ known' = known \cup {t}
    /\ Start("qt", (IF dialog[t] = None THEN <<Call("take", t)>> ELSE <<>>)
                   \o <<Call("refresh", None)>>)
    /\ UNCHANGED <<sessionVars, holderVars>>

\* onForgetToken, for a row of the list.
Forget(t) ==
    /\ open
    /\ t \in known \/ dialog[t] # None
    /\ known' = known \ {t}
    /\ Start("qt", (IF dialog[t] # None THEN <<Call("drop", t)>> ELSE <<>>)
                   \o <<Call("refresh", None)>>)
    /\ UNCHANGED <<sessionVars, holderVars>>

\* The 750 ms timer.
Timer ==
    /\ open
    /\ Start("qt", <<Call("refresh", None)>>)
    /\ UNCHANGED <<sessionVars, known, holderVars>>

\* refreshTokenList works on a snapshot of the known tokens: it takes a
\* session for each new one and drops the sessions of those that are gone.
CallRefresh ==
    /\ Calling("qt", "refresh")
    /\ \E new \in SetToSeqs({t \in known : dialog[t] = None}),
          old \in SetToSeqs({t \in Tokens \ known : dialog[t] # None}) :
        Then("qt", CallEach("take", new) \o CallEach("drop", old))
    /\ UNCHANGED <<sessionVars, known, holderVars>>

CallTake ==
    /\ Calling("qt", "take")
    /\ \E o \in Objects \cup {None} :
        Get(Of("qt"), o) /\ dialog' = [dialog EXCEPT ![Of("qt")] = o]
    /\ Proceed("qt")
    /\ UNCHANGED <<known, open, held, want, sub, failed>>

CallDrop ==
    /\ Calling("qt", "drop")
    /\ Release("qt", dialog[Of("qt")], Tail(todo["qt"]))
    /\ dialog' = [dialog EXCEPT ![Of("qt")] = None]
    /\ UNCHANGED <<known, open, held, want, sub, failed>>

\* ~ReceiveDialog.
CloseDialog ==
    /\ open
    /\ open' = FALSE
    /\ \E q \in SetToSeqs({t \in Tokens : dialog[t] # None}) : Start("qt", CallEach("drop", q))
    /\ UNCHANGED <<sessionVars, known, dialog, held, want, sub, failed>>

\* The property page of a source looks at the session of its token.
Peek(s) ==
    /\ want[s] # None
    /\ Start("qt", <<Call("peek", want[s])>>)
    /\ UNCHANGED <<sessionVars, known, holderVars>>

CallPeek ==
    /\ Calling("qt", "peek")
    /\ \E o \in Objects \cup {None} :
        Get(Of("qt"), o) /\ Then("qt", IF o = None THEN <<>> ELSE <<Call("release", o)>>)
    /\ UNCHANGED <<known, holderVars>>

-----------------------------------------------------------------------------
(* The control socket.                                                     *)

\* cmd_receive_register: every call holds a further reference.
CtlRegister(t) ==
    /\ \A o \in LiveOf(t) : held[o] < MaxHeld
    /\ known' = known \cup {t}
    /\ Start("control", <<Call("hold", t)>>)
    /\ UNCHANGED <<sessionVars, holderVars>>

CallHold ==
    /\ Calling("control", "hold")
    /\ \E o \in Objects \cup {None} :
        /\ Get(Of("control"), o)
        /\ held' = IF o = None THEN held ELSE [held EXCEPT ![o] = @ + 1]
    /\ Proceed("control")
    /\ UNCHANGED <<known, open, dialog, want, sub, failed>>

\* cmd_receive_forget goes through the references it holds, and releases those
\* to the token one by one.
CtlForget(t) ==
    /\ known' = known \ {t}
    /\ Start("control", <<Call("forget", t)>>)
    /\ UNCHANGED <<sessionVars, holderVars>>

CallForget ==
    /\ Calling("control", "forget")
    /\ LET mine == {o \in Objects : held[o] > 0 /\ tok[o] = Of("control")} IN
        \/ \E o \in mine :
            /\ Release("control", o, todo["control"])
            /\ held' = [held EXCEPT ![o] = @ - 1]
        \/ /\ mine = {}
           /\ Proceed("control")
           /\ UNCHANGED <<sessionVars, held>>
    /\ UNCHANGED <<known, open, dialog, want, sub, failed>>

\* tether_receive_session_enumerate, for cmd_receive_status.
CtlStatus ==
    /\ refs' = [o \in Objects |-> IF o \in Live THEN refs[o] + 1 ELSE refs[o]]
    /\ \E q \in SetToSeqs(Live) : Start("control", CallEach("release", q))
    /\ UNCHANGED <<life, tok, subs, known, holderVars>>

-----------------------------------------------------------------------------

Source(s) ==
    \/ CallUnsubscribe(s) \/ CallGet(s) \/ CallKnow(s) \/ CallPush(s) \/ CallBump(s)
    \/ CallRelease(s) \/ CallDestroy(s)

Qt == CallRefresh \/ CallTake \/ CallDrop \/ CallPeek \/ CallRelease("qt") \/ CallDestroy("qt")

Control == CallHold \/ CallForget \/ CallRelease("control") \/ CallDestroy("control")

Next ==
    \/ \E s \in Sources :
        Source(s) \/ Peek(s) \/ \E t \in Tokens \cup {None} : Attach(s, t)
    \/ Qt \/ Control
    \/ \E t \in Tokens : Register(t) \/ Forget(t) \/ CtlRegister(t) \/ CtlForget(t)
    \/ OpenDialog \/ CloseDialog \/ Timer
    \/ CtlStatus

Spec == Init /\ [][Next]_vars

\* Every thread goes on, and the Qt event loop gets round to the timer.
FairSpec ==
    /\ Spec
    /\ \A s \in Sources : WF_vars(Source(s))
    /\ WF_vars(Qt) /\ WF_vars(Control) /\ SF_vars(Timer)

-----------------------------------------------------------------------------

\* The references to a session: of the dialog, the control socket, the
\* subscriptions, and those a thread is still to release.
Releases(a, o) == {a} \X {k \in DOMAIN todo[a] : todo[a][k] = Call("release", o)}

Owners(o) ==
    held[o] + Cardinality({t \in Tokens : dialog[t] = o})
            + Cardinality({s \in Sources : sub[s] = o})
            + Cardinality(UNION {Releases(a, o) : a \in Actors})

\* The count of a session in the registry is the number of its owners, at
\* every point of every interleaving, and no one owns a session that left it:
\* "The session goes away once the last ref drops."
RefsCounted ==
    \A o \in Objects : IF o \in Live THEN refs[o] = Owners(o) ELSE Owners(o) = 0

\* "One session per token": the registry never holds two for one token.
OnePerToken == \A t \in Tokens : Cardinality(LiveOf(t)) <= 1

\* The references are the users of a table with one session per token.
Table ==
    INSTANCE SessionTable WITH phase <- life, token <- tok,
                               users <- [o \in Objects |-> Owners(o)]

\* get, subscribe, enumerate and release, on as many threads as there are, share
\* a session as one table would: it is there from its first user to its last,
\* and the token has no other in the meantime.
IsSessionTable == Table!TableSpec

\* A source that is done attaching is subscribed to the live session of its
\* token, unless it got none, and to no other.
SourceGetsItsToken ==
    \A s \in Sources : Idle(s) =>
        /\ want[s] # None /\ s \notin failed => sub[s] \in LiveOf(want[s])
        /\ \A o \in Objects : s \in subs[o] <=> sub[s] = o

\* A token that is forgotten, that no source wants and the control socket does
\* not hold, ends up without a session, although a refresh may still adopt it
\* from an older snapshot.
Unwanted(t) ==
    /\ t \notin known
    /\ \A s \in Sources : want[s] # t
    /\ \A o \in Objects : tok[o] = t => held[o] = 0

ForgottenGoes ==
    \A t \in Tokens : <>[]Unwanted(t) => <>[](\A o \in Objects : tok[o] # t)

=============================================================================
