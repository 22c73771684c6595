# A TLA+ model of the Tether OBS plugin

Tether sends the audio and video of one OBS Studio to another over WebRTC. The
sender shares a token; whoever presents it lands in a waiting room at the
signaling service and gets media only after the sender's user accepts. This
directory models the parts of the plugin (`src/src/`) and of its signaling
service (`src/backend/`) where threads, messages, clocks and restarts meet,
checks them on small instances with TLC, and proves the most important
statements for every instance with TLAPS.

Paths below are relative to the repository root; `sender.c` and its neighbours
are in `src/`, `room.ts` and `index.ts` in `backend/src/`.

## The system

| Part | State | Operations | Talks to |
|---|---|---|---|
| Admission list (`admission.c`) | peers with state, fingerprint, pin; attempts; lockout | add_pending, accept, reject, disconnect, revoke_all | called by the sender under its own lock; calls back after the unlock |
| Sender (`sender.c`) | sessions, current token, captures, worker | create, release, accept, reject, disconnect, revoke; callbacks of the list, the WebSocket and the connections | list, signaling, WebRTC, dialog |
| Frame pipeline (`sender.c`) | latest frame and flag per capture, locks, condition, encoders | render callback, encoder worker, start, stop | OBS render thread, sessions |
| Sender dialog (`sender-dialog.cpp`) | rows of peers, the sender | clicks, events posted from other threads | sender |
| Signaling client (`signaling.c`) | socket, state | connect, send, dispatch, disconnect | room; sender or receive session |
| WebRTC wrapper (`webrtc.c`) | connection, tracks | negotiate, descriptions, candidates, push | its owner's callbacks |
| Room (`room.ts`), edge (`index.ts`) | token, deadline, peers, attempts, lockout; storage | upgrade, hello, accept, reject, revoke, relay, close, restart | both clients |
| Receive session (`receive-session.c`) | state, subscribers, statistics | create, the signaling and connection callbacks | signaling, WebRTC, subscribers |
| Registry (`receive-session.c`) | sessions by token, reference counts | get, release, subscribe, unsubscribe, enumerate | everybody below |
| Receive dialog, property pages | the sessions each holds | register, forget, refresh, status | registry, known tokens |
| OBS source (`source.c`) | its token, subscription, pinned mids, decoders | create, update, destroy; the packet callbacks | registry, audio |
| Known tokens (`known-tokens.c`) | tokens and names, JSON file | add, remove, rename, snapshot | the holders above |
| Audio (`audio.c`) | ring and encoder per track; decoders | attach, capture callback, push, release | OBS audio thread, WebRTC |
| Control socket (`control.c`) | worker, table of peers, its sender, the sessions it holds | accept loop, commands of both sides, shutdown | sender, registry, known tokens |
| Token helpers, hub dialog, plugin entry points | | | |

What makes it hard: the sender is entered by the Qt thread, the WebSocket's
thread, one thread per connection, OBS's render and audio threads and its own
worker; locks are dropped between the steps of one operation; messages to the
room cross each other; the room may be restarted between two writes; the
rate limits run on two clocks; reference counts are shared by five kinds of
holders; packets, audio blocks and commands are under way while what they use is
being freed. `PROJECT.json` lists the hazards line by line with the properties that
watch them.

What would make each part correct:

- *Admission*: pins lead back to the user, and so does the acceptance of a peer
  that presents a fingerprint; the rate limit holds in every window. (That a peer
  without a fingerprint is never accepted by itself does not hold: see findings.)
- *Sender*: no media for a peer that still waits; the offer never overtakes the
  accept; what the list calls accepted is served unless its connection could not
  be created; the rows are the receivers of the room.
- *Pipeline*: no lost wake-up, no frame twice, rendering never held up, a
  release that ends and leaves nothing running.
- *Room*: the waiting room, through restarts; entry only when it is due; the
  sender's view stays true; wrong claims are limited.
- *Receive session*: one answer to the first offer unless libdatachannel fails on
  it, duplicates do not disturb a live connection, subscribers end up with the state, refusals are final.
- *Registry*: counts are exact, one session per token, a source has the session
  it asked for, a forgotten token's session goes.
- *Source and packets*: only the pinned tracks are decoded, a session lives while a
  reference to it is held, a freed subscription is called for one packet at most, a
  source that is destroyed goes.
- *Audio*: samples leave in order and none waits for long; a freed track is quiet.
- *Known tokens*: one entry per token; a restart finds what was written or nothing.
- *Control socket*: the table is that of the present sender; shutdown ends and
  leaves nothing behind.

## Modules

| Module | Models | Correspondence |
|---|---|---|
| `Admission` | `admission.c` | One action per call, as each runs under the lock. `AddPending` has the three outcomes of the rate limit. The clock is unsigned, modulo `ClockSpan`; `ledger`, `userAccepted`, `userPinned` are history. |
| `Sender` | `sender.c`, `sender-dialog.cpp`, sender side of `signaling.c` and `webrtc.c` | EXTENDS `Admission`, whose calls it makes (its own definitions of the same kind start with `Sender`). `todo[t]` holds what thread `t` has still to call after an unlock, so two threads interleave call by call. `sessions` is the array with the state of each connection (`unmade` if it could not be created); a loss may be called back and recorded again; `inbox`/`outbox` the socket, `posted` the Qt queue, `rows` the dialog. The room is reduced to where each peer stands. |
| `FramePipeline` | `capture_one` to `encoder_worker_main`, create and release in `sender.c` | `pc` is the worker's place, `frameLock` and `sessionLock` what it holds across steps; a frame is its number. Waiting on the condition is a place of `pc`, `Woken` the effect of signal and broadcast, `WakeAnyway` a spurious wake-up. |
| `SessionTable` | (abstract) | A session per token, made for its first user, shared with the others, out of the table in the step in which the last one leaves, and torn down before its address is used again. |
| `LatestFrame` | (abstract) | A place for one frame per capture: a drawn frame replaces the waiting one, a fetched one leaves the place empty, and what an encoder gets is newer than all it got. |
| `WaitingRoom` | (abstract) | What the room promises: knock, wait, be admitted, be served; out is out. |
| `Room` | `room.ts` | A handler is an action, because the object's input gate holds back other events while a handler awaits storage; a restart may cut a handler between two storage operations (`HelloCut`, `RevokeCut`) and starts from `stored`. A connection may say hello again, and each hello makes a peer of its own: a peer is a record of its connection, the number of the hello and the role. A close finds the first peer of the connection only; the loop of a revoke stops at a send that throws. `hellos`, `view`, `served`, `dismissed`, `openUntil`, `claims` and `lockedAt` are history. |
| `ReceiveSession` | `receive-session.c`, receiver side of `signaling.c`, `webrtc.c` | `todo` again: `set_state` is a load and compare (`CallSet`) and later a store (`CallStore`), on the creator's, the socket's and the connection's threads. An offer may have no sdp, may not be applied (`unapplied`) or not be answered (`unanswered`), and the code goes on as if it were. `overwritten` remembers that the creator's store came after another thread's. (Its own `Init`, `Next`, ... start with `Session`.) |
| `SessionRegistry` | registry and its holders in `receive-dialog.cpp`, `source.c`, `properties.c`, `control.c`, the set of `known-tokens.c` | A creation may fail and give no session (`failed` remembers the sources that met it). `refs` is the code's count; `Owners` counts who really holds. A session that left the registry is *dying* until the thread that took the last reference destroys it, outside the lock. |
| `AudioCapture` | sender side of `audio.c`, the order of `create_session`, `release_session` and `disconnect_peer` around it | A sample is its number. A callback is several steps under the track's lock (`busy`); removing a callback waits until none runs, as OBS's mutex does. `late` remembers a push into a freed connection. |
| `TokenBook` | (abstract) | A book of tokens and names, and the copy a restart finds. |
| `KnownTokens` | `known-tokens.c` | One action per call, as the lock covers it; the write of the file is a second step (`Written`) that may fail, leave a torn file, or be cut off by a crash. |
| `Playback` | the packet callbacks, subscriptions and destruction of a session, `source.c`, the receiver of `audio.c` | A delivery copies the subscriptions (`calls`) and calls them one after the other, each through the filter, the decoder lock and the decoding (`at`); a source's update and destroy are cut where they take or drop a lock. |
| `ControlSocket` | `control.c` | `pc` is the worker's place; create, which polls for the token, and revoke, which releases before it clears, are several steps. `alive` holds the senders that may still call back. |
| `...Proofs` | | Theorems of the module they are named after; `SenderProofs` also those of `Admission`, `ReceiverProofs` those of `Playback` and of `ReceiveSession`. |
| `MC...` | | Symmetry sets and notes on the instances; a `.cfg` per run. |

`Sender` composes with `Admission` and is checked and proved to implement it
(`AdmissionSpec`); `Room` is shown to implement `WaitingRoom` by the refinement
mapping `Standing`, `KnownTokens` to implement `TokenBook` by `BookOf`,
`SessionRegistry` to implement `SessionTable`, whose users are the references that
are really held (`Owners`), not the number the code keeps, and `FramePipeline` to
implement `LatestFrame`: a frame waits in its place while its
flag is set, and is on its way while the worker holds a copy. Definitions called "Mutant of ..." are wrong variants of the
definition after them; each property is violated when its variant takes the
definition's place, so each can fail.

## Runs

| Run | Instance | Shows |
|---|---|---|
| `admission` | 3 peers, one fingerprint and none, cap 2, 2 attempts in a window of 2 | Pins come from the user, as do the acceptances of peers with a fingerprint; the rate limit. |
| `sender_two` | 2 peers, one session | No session for a waiting peer, accept before offer, rows against room, the list is an admission list. |
| `sender_one` | 1 peer, 2 sessions, lockout expiring | Accepted means served, unless the connection could not be created; an accept reaches the room (liveness). |
| `sender_media` | 2 peers, one session | `MediaNeedsAccept` violated (see findings). |
| `pipeline` | 2 captures, 2 sessions, 3 frames each | No lost wake-up, nothing outlives release, the pipeline is a mailbox of one frame per capture; every frame is taken and release returns (liveness). |
| `room` | 3 connections of either role, one of which may say hello twice, 4 ticks, 1 restart | The room is the waiting room; entry is due; claims limited; the sender's view current. |
| `receive` | 2 acceptances, 2 losses | Subscribers, duplicates, the answer, refusals. |
| `registry` | 1 token, 2 sources, dialog, control socket holding it twice | Counts, subscriptions, the registry is a table of shared sessions, and the end of a forgotten token's session, with creations that fail. |
| `audio` | 2 tracks, frames of 2, ring and blocks of 5, 7 samples each | Samples in order, less than a frame waits, freed is quiet, late pushes only by a disconnect; the ending ends (liveness). |
| `known_tokens` | 3 tokens, 2 names | The list is a token book, of which a restart finds what was last saved, or nothing, with failing and torn writes and crashes. |
| `playback` | 1 source, 2 sessions, 2 video and 1 audio track, 2 subscriptions | Pinned tracks only, held sessions live, at most one late packet; destroy returns (liveness). |
| `control` | 2 clients, 2 peers, 1 token, 2 senders, 2 polls | The table is the present sender's, nothing outlives shutdown; shutdown returns (liveness). |

Why the bounds suffice: two peers (or two captures, two sources) are enough for
one thing to overtake another; a third peer gives `admission` someone to share a
fingerprint while the cap is full. Three connections give `room` a sender
and two that wait, are refused or admitted, or two senders and a receiver. One of
them may say hello a second time (`OneTalker`, a constraint of the instance), which
is enough for a peer that the close of its connection leaves behind, of either
role, and for a fourth peer. Windows, lockouts and lifetimes
are two ticks in a run of four to six, so that each can end and start again.
One restart is enough to lose the memory once; two acceptances and losses are
one more than the code treats as normal. In `audio` a block may fill the ring and
leaves a partial frame behind, so that the next one wraps the fill; seven samples
are three frames and a rest. In `playback` a source can leave one session for
another, or for the same once more, while a packet of the first is under way. In
`control` a second sender meets what the first left in the table, and one client
waits in the backlog while the other is served. `Objects` in `registry` is one more
than the sessions that can exist at once, so the bound never delays an
allocation. With two tokens
the states of `registry` are too many to check its liveness on.

`CHECK_DEADLOCK FALSE` stands where the system may rest: a dialog that was
closed, a pipeline that was released, a room whose clock reached its bound, a
receive session whose sender does nothing.

### Fairness

Weak fairness is assumed only of what the code's own threads do next: a thread
goes on with its calls, the server takes what was sent, the encoder worker and a
release that was begun go on. No user has to click, no peer to knock, no socket
to open, no connection to come up, OBS need not render, no packet and no audio
block has to come. The control socket's worker and the thread that unloads go on;
no client has to speak or to leave, which is why `ShutdownReturns` excepts a
client that stays silent for ever: the code reads without a time limit. Strong
fairness is assumed twice: of the receive dialog's 750 ms timer, as the Qt loop
gets round to it between other events, and of the thread that removes a capture
callback, which gets OBS's callback mutex between two blocks.

### Findings

`sender_media` checks what the documents promise, "no media flows until the sender
accepts" (`README.md:26`), and leaked tokens are "never automatically connected"
(`README.md:41`), and finds it violated. Receivers present no fingerprint, the dialog
pins with every accept, and two empty fingerprints match (`admission.c:157`): after
one accept the next receiver is let in, and gets media, by itself. The properties
that hold do not contradict this: `AcceptProvenance` is about peers that present a
fingerprint, which the receivers of this repository do not, `PinProvenance` about
pins, and `NoMediaWhilePending` about peers that the list still calls pending.

Other disagreements and faults, read in the code while modelling it. The models do
what the code does, and no property that holds claims the contrary.

Sender and list:
- a disconnect does not clear the pin although a comment says that it "also clears
  the pin so a reconnect lands in the pending list again" (`sender.c:817`):
  `set_peer_state` only ever sets the flag (`admission.c:187`). In the model
  `DisconnectPeer` leaves the pin, `AdmissionSpec` contains that step, and
  `PinsAreNeverCleared` is proved of it;
- a second click on Accept before the row shows the receiver as connected makes a
  second connection (`sender.c:298`), where `webrtc.h:7` has one per accepted
  receiver; the answer is applied to the first only;
- `now - window` is unsigned: while the host has been up for less than a window
  the rate limit forgets every attempt (`admission.c:59`), although
  `admission.c:21` calls the attempts a sliding window. `RateWindow` therefore
  holds, and is proved, for `Uptime >= Window`;
- accepting by hand ignores the cap (`admission.c:137` is reached by knocks only);
- a connection that cannot be created leaves its receiver accepted and unserved,
  and nobody is told (`sender.c:261`; `AcceptedIsServed` excepts it);
- `create_session` uses the connection after the unlock although
  `CONTRIBUTING.md:79` wants shared state locked; a release may free it meanwhile
  (`sender.c:307`).

Room and receivers:
- `backend/README.md:48` promises `peer_gone` for either side; a sender that
  leaves a reusable token tells nobody (`room.ts:312`);
- a second hello on a connection makes a second peer that its close leaves behind
  (`room.ts:215`, `room.ts:301`); the clients say hello once. `SenderIsCurrent`
  excepts receivers of such a connection;
- a send that throws ends the loop of a revoke, and the receivers after it stay
  (`room.ts:266`);
- an offer without an sdp, or one libdatachannel fails on, leaves the session
  negotiating without a negotiation: nobody is told, and every later offer is
  ignored because we "already have a PeerConnection negotiating"
  (`receive-session.c:239`, `receive-session.c:295`). `FirstOfferAnswered` excepts it
  (`OfferFailed`);
- an acceptance after a failure lets a second offer reach a connection that had
  one (`receive-session.c:226`);
- a subscription that was freed may be called by a delivery under way
  (`receive-session.c:125`; `LateByOnePacket` says that it is one packet at most);
- two spellings of a token are two sessions: the registry compares tokens as
  written (`receive-session.c:481`). `tether_token_normalise` stops when its
  buffer is full and may turn an over-long token into a well-formed one
  (`token.c:133`);
- a source whose session could not be created does not try again until its token
  changes (`source.c`, `update`).

Around them:
- `known-tokens.h:9` says that registered tokens "persist for the OBS session only"
  and are "not written back to disk"; add, remove and set_name save the list
  (`known-tokens.c:80`), and init loads it. `IsTokenBook` says of the file only that
  a restart finds what was last saved, or nothing;
- pins are read without a lock while `update` frees them (`source.c:148`), and the
  dialog copies a name after the lock that guards it (`receive-dialog.cpp:153`);
- without an audio pin the tracks of a sender that shares several all go into one
  Opus decoder (`source.c:185`);
- an error of `accept` other than the shutdown's ends the control worker, and a
  client that says nothing holds it for as long as it likes (`control.c`).

## Proofs

All statements are proved for every value of the constants that the named
assumptions allow; these say that the sets are finite, the limits are positive
and, for the clock, that it does not come round during a run.

- `SenderProofs`, the list: types; `PinProvenance` and `AcceptProvenance` (inductive
  together: a pinned peer was pinned by the user or carries the fingerprint, be it
  empty, of one who was, and the fingerprint of a listed peer never changes; of an
  accepted peer it is claimed only when it presents one);
  `RateWindow`, under `Uptime >= Window`, from `RateInv`: the kept attempts are
  the end of the ledger, and what was pruned is older than a window;
  the cap on automatic acceptance and the permanence of pins as action properties.
- `SenderProofs`, the sender: types; `AdmissionSpec`, step by step: each step of a thread is
  one call on the list or none, so that the theorems about the list are theorems
  about the sender; `NoMediaWhilePending`, from `MediaInv`: the peer has left the
  pending state from the moment a thread is *due* to create its session, and it
  cannot get back there because the list never drops an entry.
  `OfferAfterAccept`, from `OfferInv`: a thread that is to create a session
  sends the accept before (`InOrder`), from then on the server has admitted the
  peer, or will by what is in the socket (`Admitting`), and neither is undone,
  as only a peer that is `"out"` can knock and whoever the sender knows of is
  not (`Known`).
  `AcceptedIsServed`, from `ServedInv`: an accepted peer has a live connection
  (`Live`), a thread that owes it a session or its end (`Owed`), or a last session
  that could not be made (`LeftUnmade`), and while the
  sender runs nothing tears sessions down (`NoTeardown`). It is inductive because
  every step that takes a debt off a thread's list pays it in the same step.
  `RowsMatchRoom`, from `RowsInv`, which follows each peer on the way its coming
  and its going take: the socket, the calls of the socket's thread, the Qt queue,
  the rows. On each leg the two stand in order, nothing of a peer is on a
  later leg than the room knows of, and the peer is present (`Present`) exactly
  if it has come and is not going (`InStep`); at rest only the rows are left.
- `RoomProofs`: types; `IsWaitingRoom`, step by step under `Standing`;
  `EntryIsDue`, from `DeadlineInv`, which ties `expiresAt`, its stored copy and
  the deadline last granted, over restarts and cut-off revokes;
  `SenderIsCurrent`, from `SenderInv`: the senders' order of arrival decides which
  of them is told (`Seniority`, `Listening`), what was announced is still a peer or was
  sent away (`Announced`), and a connection that said hello once is open as long
  as its peer is there (`Once`), for which every peer needs a hello of its own
  (`Numbered`); `ClaimsAreLimited`, from `ClaimsInv`: the
  attempts the room keeps are the end of the claims made since the last lockout,
  and every claim it dropped is older than a window.
- `FramePipelineProofs`: types and four safety properties, from one
  inductive invariant. `NoFrameTwice`, which no run checks, is the one that is
  not inductive as it stands: it needs that an encoder never has a newer frame
  than its capture, has an older one than a capture that is ready, and an older
  one than the frame the worker carries (`FrameInv`). The same facts give the
  refinement `IsLatestFrame`, step by step (`StoreIsPut`, `TakeIsFetch`,
  `EncodeIsHand`, the rest stutters); it needs besides that a capture that is
  ready has a frame (`ReadyDrawn`). `JoinMakesProgress` is what `ReleaseReturns`
  rests on: while release waits in the join, the worker waits neither for the
  condition nor for a lock that is held, and each of its steps lowers `Left`,
  which no other step raises.
- `AudioCaptureProofs`: types and the four safety properties, for a block no
  larger than the ring. What was sent and what waits together are increasing and
  below the next sample, which every way of dropping samples keeps.
- `KnownTokensProofs`: types and one entry per token (`ListsAreSound`; the
  refinement alone would not tell a list with duplicates from one without); the
  refinement of `TokenBook`.
- `ReceiverProofs`: `HeldSessionsLive` and `LateByOnePacket` from an invariant
  that ties the count of a session to its subscriptions, the dialog and those on
  their way; `PinnedTracksOnly` from the place of each call between the filter and
  the decoder. Then one receive session, from `SessionInv`: what each thread may
  have to do (`ThreadsInv`), that the hello is answered once and a refusal leaves
  nobody to accept (`HelloInv`), that the offer of a single acceptance is in one
  place at a time and after it (`OffersInv`), and that, while the creator stored
  over nobody and the connection was not both lost and offered again (`Calm`), the
  state follows the connection as soon as its thread is idle (`StateInv`). Neither
  `StateCatchesUp` nor `LiveLinkKeepsItsOffer` is inductive: both need that the
  socket's thread has nothing to do once the offer is applied, which is a fact
  about the messages still under way. `DestroyMakesProgress` is what
  `DestroyReturns` rests on: a decoder's lock is held by a session's thread that is
  decoding (`LocksHeld`), a source that frees its decoders is subscribed nowhere
  (`Detached`) and the session another waits for by nobody, so that a destroy waits
  at most for a packet under way (`DestroyIsNotStuck`); its steps and the calls of
  that packet are bounded, and no other step raises the bounds (`DestroyNears`).
- `SessionRegistryProofs`: types, `RefsCounted`, `SourceGetsItsToken`, the
  refinement `IsSessionTable`, and three statements no run checks: one session per
  token (`TokensHaveOneSession`), no session stays in the registry without an owner
  (`NoneIsForgotten`), and what was destroyed is used by nobody
  (`NothingDestroyedIsUsed`). From `RegistryInv`: a session that waits to be
  destroyed is destroyed by one actor (`DestroysOnce`), live sessions have tokens of
  their own (`LiveTokens`), each count is the number of owners, the calls still to
  be made among them (`Counted`), and what the dialog and the sources hold and
  have still to call agrees (`QtInv`, `SourceInv`). The work is in `Counted`: every
  step says which owner it takes a reference from and which it gives it to. With
  `Counted` before and after a step, the refinement only has to follow the code's
  own count (`CountSteps`, `TableSteps`).
- `ControlSocketProofs`: the two safety properties, from an invariant of where the
  worker is in create and revoke, which senders may still call back, and how far
  the shutdown came. `JoinMakesProgress` is what `ShutdownReturns` rests on: once
  the sockets are shut the worker can always go on, but for a client that says
  nothing (`OnlySilenceDelays`), and its steps count down to its exit
  (`ExitNears`): no second client is served, and no poll starts over.

Every invariant and every action property that a run checks is proved, and so are the five
refinements. Only model-checked are the liveness properties, as the prover
handles neither fairness nor ENABLED (of `ReleaseReturns`, `DestroyReturns` and
`ShutdownReturns` all but the step from fairness to the end is proved): `AcceptReachesRoom`, `FrameIsTaken`,
`ReleaseReturns`, `EndingEnds`, `FirstOfferAnswered`, `RefusalIsFinal`,
`ForgottenGoes`, `DestroyReturns` and `ShutdownReturns`. No module uses recursive
operators.

## Not modelled

- Pixels, codecs, the contents of packets, JSON and URLs; ICE candidates as
  messages of their own; the table of tracks and mids in `webrtc.c`; the layout of
  dialogs and property pages; `tether_audio_sender_detach`, which has no caller;
  allocation failures other than that an encoder, a connection or a session
  cannot be made.
- *Control socket*: failures while the socket is set up, answers that are lost
  because the client left, and Windows, where the functions are empty.
- *State callbacks* of a session in `Playback`: `ReceiveSession` has them for one
  session; a source only logs them.
- *Tokens*: the helpers are pure and a token is a model value everywhere; spellings
  are therefore one.
- *Unloading*: the plugin calls the shutdowns in one order, but what they meet
  depends on when Qt runs deferred deletions and when OBS destroys sources.
- *Hub dialog, logging, build and packaging* keep no state of the system.

The code after a use of freed memory is undefined: the models let such a call do
nothing, or end, and state separately whether it can happen.

## What is left

1. Proofs: the bounds behind the other liveness properties, above all the way of an
   accept through the sender's threads (`AcceptReachesRoom`) and of a forgotten
   token through the dialog's refreshes (`ForgottenGoes`).
2. *Sender dialog*: a new sharing after a revoke with events of the old one still
   queued. *Signaling*: the connect of the sender.
3. *Registry*: spellings of one token; unloading with references outstanding.
4. *Tokens*: normalise against a reference definition.
