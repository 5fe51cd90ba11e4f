# Verification of dungeon-vr

This directory holds TLA+ models of dungeon-vr's networking, the TLC
configurations that check them on small instances, and proofs of the main
theorems for the TLA+ proof system (TLAPS).

dungeon-vr is a multiplayer VR program. A dedicated server and its clients talk
over UDP: a *connection* layer makes an encrypted, authenticated association out
of datagrams, and a *session* layer on top of it shares a simulated world. Every
layer is a tokio task with a biased `select!` loop, and tasks talk through
bounded channels. What can go wrong is what the models are about: lost, repeated
and reordered datagrams, timers that race with answers, cancellation between two
awaits, channels that fill up, state that outlives the event it belongs to, and
a client's clock that is steered from afar.

Source references are `crate/file.rs:line` below `src/`, with the crate prefix
`dungeon-vr-` left out where it is clear.

## 1. Inventory

| Component | State | Operations | Hard behaviour |
|---|---|---|---|
| Connection server (`connection-server`) | table of connections by address (Pending, Connected, Disconnecting), each with a secret, a token, timers; event and request channels | handlers of five packets, send requests, four timers, cancellation | duplicates and reordering, timers that belong to an earlier state, cancellation while a handler awaits |
| Connection client (`connection-client`) | one state (Connecting, Responding, Connected, Disconnected), key, timeout; event channel | handlers of four packets, send requests, send timer, timeout, cancellation | a second challenge, answers to an earlier process on the address, a timeout that outlives a refusal |
| Packets and cryptography (`connection-shared`, `cryptography`) | none | encode, decode, seal, open, exchange | which secret opens what |
| Sockets (`socket`) | datagrams under way | send, receive; an artificial-lag and a test implementation | loss, delay, repetition |
| Session server (`session-server`) | clients, player slots, world (hands, items, authority, grabbed flags), committed actions, last completed tick, slack estimates | a handler for each connection event and packet, tick | stale player IDs, slots that run out, duplicates and late commits, a player who leaves with an item in hand; the interval it assigns a client from an estimate that lags |
| Actions (`session-shared/action.rs`, `core.rs`) | the world | `apply_action` | two players and one item |
| Session client (`session-client`) | AwaitingConnection, MeasuringPing, Running; round trips, player ID; event and request channels | events, packets, ping timer, requests, shutdown | unwraps that rely on the order of independent packets; a peer that stopped taking messages |
| Game (`dungeon-vr/src/game.rs`, `main.rs`) | predicted world, local actions by tick, accumulator, last completed tick, next tick time, tick interval | frame, snapshot, start of a session | reconciliation of a predicted world with snapshots of the past; ticks that must stay ahead of the server's, frames that do not run |
| Cancellation (`cancel`) | flag, tokio `Notify` | `cancelled`, `is_cancelled`, guards | a wake-up between two looks at the flag |
| Channels between a connection task and its session task | bounded queues | send (waits), receive, poll | tasks that wait for each other |
| Snapshots, physics, time, codecs (`session-shared`, `stream-codec`) | ECS world, physics engine | encode, apply, step | sequential |
| Renderer, XR shell, audio, voice prototype, FFI bindings | device handles | device I/O | device I/O |

### How they interact

```
 game main loop --requests--> session client --requests--> connection client
       ^-----session events------'   ^----connection events----'   |
                                                                 UDP datagrams
                                                                   |
 session server <---connection events--- connection server <-------'
       '------------requests-------------^
```

All of it is stopped with cancellation tokens: the guard in each handle cancels
the task behind it when the handle is dropped, and the task says `Dropped` as its
last event.

### What makes each component correct

* **Connection layer.** Server and client never hold different secrets for a
  connection that both call Connected; nobody is promoted without the answer to
  the challenge of *this* connection; a keepalive confirms only what the server
  accepted; an entry's secret never changes under it; no key exchange serves two
  addresses; silent peers are noticed on both sides, in time; while packets get
  through often enough, the handshake completes in time and nobody is given up.
* **Event channels.** What the layer above is told follows a fixed order
  whatever the peer sends: game data only between Connected and the end, Dropped
  last.
* **Session server.** Lookups that are unwrapped succeed; a slot has one client,
  who knows it; an item is in one hand, and that hand's player has authority;
  commits are kept once, for ticks to come, and never replaced.
* **Channels and cancellation.** A connection task and its session task never wait
  for each other; no wake-up is lost; a cancelled task stops, whatever it was doing,
  and the session task hears of it.
* **Session client and game.** Assertions about the order of events hold; the
  session ends; the predicted world is the latest snapshot with the player's
  later actions applied once and in order.
* **Tick loop.** The session starts at a tick the server has not reached; the
  client's clock is steered to the goal and stays there; the server has a player's
  actions when it runs their tick.

The complete list of hazards, each at its line, is in `PROJECT.json`.

## 2. Plan

The order is that of the layers, the most important behaviour first; a module is
written so that it can be both checked and proved about.

1. *Connection layer*: `Network`, `ConnectionServer`, `ConnectionClient`, composed
   in `ConnectionSystem`; agreement and authenticity of the handshake, proved.
   **Done.**
2. *What the layers promise each other*: the abstract event channels
   `ConnectionEvents` and `ClientEventStream`, implemented by the server among
   arbitrary peers (`OpenServer`) and the client among arbitrary servers
   (`OpenClient`). **Done, proved**, both there and in `ConnectionSystem`.
3. *Session layer on those promises*: `SessionServer` on `ConnectionEvents`,
   `SessionClient` on `ClientEventStream`. **Done, proved.**
4. *Where tasks meet*: `ServerPipes` (bounded channels, on the server and on a
   client) and `CancelToken` (cancellation), composed in `Tasks`. **Done, proved.**
5. *Prediction*: `Actions` and `Prediction`, the player's game against the
   server's simulation. **Done, proved.**
6. *Time*: `ConnectionTiming`, the intervals and timeouts of the connection
   layer against a clock, and `TickSync`, the loop that steers a client's ticks.
   **Done, proved.**
7. *To come.* Models: the repeated player assignments; a client that stalls with
   its headset off, from the full event channel to the server's timeout
   (`SessionClient` and `ConnectionTiming` composed); the fake lag and the mixer's
   buffers; the synchronisation of physics with the world. Proofs: that the tick loop
   has the actions of every tick after `Grace`, which needs bounds from below as tight as
   those of section 5 are from above.

## 3. Modules and the code

| Module | Models | State | Actions |
|---|---|---|---|
| `Network` | packets, sealing, the UDP socket | all datagrams ever sent in each direction | sends, each of which may lose its datagram |
| `ConnectionServer` | `connection-server/src/lib.rs` | `conns` (entry by address), `gen` (keys generated), `events`, `phase` | one per packet handler, request, timer and step of the shutdown |
| `ConnectionClient` | `connection-client/src/lib.rs` | `clients` (the process on each address) | one per packet handler, send timer, timeout, cancellation, restart |
| `ConnectionSystem` | both and the network, and as much of the session server as sends requests | the above, `seen`, history `accepted` | receive, send, timers, take an event |
| `ConnectionEvents` | what the server's event channel promises | `stage` of each address, `events`, `phase` | one per kind of announcement |
| `OpenServer` | the server among peers that may send anything they can seal | that of `ConnectionServer` | receive anything; the refinement is `ImplementsConnectionEvents` of `ConnectionServer` |
| `ClientEventStream` | what a client's event channel promises | `stage`, `armed`, `events`, `phase` | one per announcement |
| `OpenClient` | the client against an arbitrary server | that of `ConnectionClient` | receive anything; the refinement, `ImplementsClientEventStream` of `ConnectionClient`, is per address |
| `ConnectionTiming` | one client process and the server's entry for it (`connection-client/src/lib.rs`, `connection-server/src/lib.rs`) with a clock | `client` and `server` with the time left on each timer, `flight` (how long datagrams are under way), `lost`, `silence`, `age` | one per packet handler and timer, either side stops, `Tick` |
| `ServerPipes` | the two channels between a connection task and its session task, on the server or on a client | fill of each channel, where each task is, what it has left to send | poll, take, send within a handler; a cancelled connection task announces the end of its connections, drops the requests and says Dropped |
| `CancelToken` | `cancel/src/lib.rs` and the loop that waits | the flag, calls of `notify_waiters`, where each task and guard is | one per atomic step |
| `Tasks` | a connection task whole: its loop waits on the token and serves the channels | that of `CancelToken` and `ServerPipes` | theirs, joined where one step of the loop is both |
| `SessionServer` | `session-server/src/lib.rs` | `known`, `playerOf`, `players`, `committed`, `world`, `tick`, `panic` | one per event, packet kind, and the tick |
| `SessionClient` | `session-client/src/lib.rs` and the main loop of `dungeon-vr` | `state`, `measured`, the channels, `game`, `panics` | one per event, packet kind, timer and request |
| `Actions` | `session-shared/src/action.rs` | (operators only) | |
| `Prediction` | `dungeon-vr/src/game.rs` against the server's `handle_tick` | the player's `world`, `latest`, `local_actions`, `action_accumulator`, `last`; the server's world, commits and snapshots | frame, snapshot, commit, tick |
| `TickSync` | the tick clock across `session-client/src/lib.rs` (first tick), `dungeon-vr/src/game.rs` and `main.rs` (snapshots, frames) and `session-server/src/lib.rs` (`handle_ping_packet`, `handle_commit_actions_packet`, `handle_tick`) | `server` (time to its tick, slack estimate, kept commits), `client` (round trips), `game` (last tick, time to its next, interval), packets under way | pings and pongs, snapshots, frame, commits, tick, `Elapse`; `Reroute` and `TakeOff` disturb it |
| `MCSessionServer` | | | symmetry for TLC |
| `ConnectionProofs`, `SessionServerProofs`, `SessionClientProofs`, `PredictionProofs`, `ConnectionTimingProofs`, `TickSyncProofs`, `TaskProofs` (of `CancelToken`, `ServerPipes` and `Tasks`) | | | theorems and proofs |
| `FoldInduction` | | | lemmas: what a fold over a sequence keeps, for any step; instantiated by the proofs about actions |

How the models read the code:

* **One action per `select!` branch.** A handler runs to its end before its loop
  polls again, so it is one action with everything it changes. Where the code
  awaits inside a handler and the wait matters, it is a step: the bounded send in
  `ServerPipes`, in a handler as well as in `handle_cancelled` and for Dropped,
  `HandleCancelled` per connection in `ConnectionServer`, the polls of the biased
  select in `ServerPipes` and `SessionClient`. An event that does not
  fit its channel blocks its handler: the guard `Len(events) < EventBufferSize`.
* **Time** is left out of all modules but two: a timer that is armed may expire at
  any time (`timeout` is then `"Due"`), its branch runs later or not at all if a
  packet that comes first refreshes it, and an interval timer may fire at any
  time. `ConnectionTiming` counts units: every timer is the time it has left, and
  a unit passes only when no timer has run out and no datagram is due.
  `TickSync` goes from event to event: every clock, timer and packet is the time
  left until it is due, and every tick id its distance from the server's last
  completed tick, so that a loop that has settled returns to states it was in.
* **Cryptography** is what can be opened: a secret is the pair of keys it was
  made of, and a sealed packet is opened only with the secret that sealed it. A
  key is a number never used before (`gen`, `key`): the randomness of keys, salts
  and tokens is assumed.
* **The network** is the set of datagrams ever sent. A datagram in it may be
  received any number of times, later, or never; a send may add nothing. In
  `ConnectionTiming` a datagram has an age and losses in a row are counted; in
  `TickSync` packets take a constant time each way and none is lost.
* **History variables**, which no action reads: `accepted` in `ConnectionSystem`;
  `sent`, `history` and `overtaken` in `Prediction` (`sent` and `history` are also
  the network between game and server).
* **Panics** are states: a model continues after one only where the program does
  (the other task).
* Next to a definition there may be a *mutant of* it: the form it would have with
  a plausible bug. `PROJECT.json` pairs every checked property with a mutant that
  breaks it: the evidence that the property can fail.

`PROJECT.json` ("map") gives for each definition the lines it models.

## 4. Runs

A run `X` is `tlc -config X.cfg M.tla`, with `M` given in `PROJECT.json`.

| Run | Question | Result |
|---|---|---|
| `ConnectionSystem` | Do both ends agree on the connection under loss, repetition, reordering, timeouts, cancellation and a process restarted on the same address? | `NoSplitBrain`, `ChallengeAnswered`, `ServerHeardResponse`, `KeepaliveConfirms`, `EntriesAreStable` hold |
| `OpenServer` | Does the server keep its promises whatever its peers send? | it implements `ConnectionEvents`; `TimersMatchVariant`, `KeysApart`, `SilentClientsAreForgotten`, `CancelledTaskStops` hold |
| `OpenClient` | Does the client, whatever a server sends? | it implements `ClientEventStream`; `OneResponsePerProcess`, `SilentServerIsNoticed` hold |
| `SessionServer` | Do slots, clients, hands, items and commits stay consistent? | all hold, up to the panics that are findings or known; nobody loses his slot by another's event (`OnlyOwnEventsVacate`) while the server runs |
| `ConnectionTiming` | Are the timeouts long enough for the handshake and the keepalives, and short enough to notice who stopped? | yes, under its assumption: `NobodyGivesUp`, `ConnectedInTime`, `StoppedClientIsForgotten`, `StoppedServerIsNoticed` hold |
| `Tasks` | Can a connection task and its session task block each other, or a task miss its cancellation? | no (`NoDeadlock`, `NoLostWakeup`): every handler finishes, every task stops, and the session task hears of it (`HandlersFinish`, `EveryTaskStops`), with few connections |
| `SessionClient` | Which of the unwraps can fail, and does the session end? | only the four of `OnlyKnownPanics`; `SessionEnds` holds |
| `Prediction` | Is what the player sees the server's state with his later actions? | yes: `PredictionIsReplay`, `TicksAreCommittedOnce`, `DropsAreSound` |
| `TickSync` | Do a client's commits arrive when the server wants them? | they settle at the goal (`Settles`), also after an absence of 11 seconds; undisturbed they are in time from the first tick (`CommitsComeInTime`), and 15 seconds after a late start or a change of route every tick has its actions (`EveryTickHasActions`), after an absence not |
| `LongAbsence` | Does the assigned interval always work against the error, as `session-server/lib.rs:694` says? | **no**: not after an absence of 12 seconds |
| `Reconnect` | Is a Pending connection always a new client, as `session-server/lib.rs:414` asserts? | **no**: a timed-out client that returns |
| `StartUnassigned` | Does a session start with a player ID, as `session-client/lib.rs:349` unwraps? | **no**: pongs come without it |

### Bounds, and why they are enough

| Run | Bounds |
|---|---|
| `ConnectionSystem` | one address, two keys of the server (`MaxGen`), two successive processes (`MaxKey`), event channels of 1 and 2. Entries of different addresses share only the event channel, the shutdown and the key counter; what two entries can do to each other is `SecretsApart` and the server's runs with two addresses. Two keys on each side give every pairing of an old and a new process with an old and a new challenge. |
| `OpenServer` | two addresses, two server keys, one peer key; `DISCONNECT_PACKET_COUNT` of 2 (10 in the code): first, middle and last of the repeated packets. |
| `ConnectionTiming` | intervals of 1, 2 and 13, one loss in a row, a delay of up to 1, two Disconnect packets: the tightest values the assumption allows (a timeout of 12 gives a running peer up). The real values in eighths of a second are 2, 8 and 40 with 10 packets: 2*3 + 2*9 + 8 = 32 < 40, too large to enumerate; the proof is for all. |
| `OpenClient` | two processes on an address, two server keys: right, wrong and stale challenges and secrets. A channel of 3, since a handler may send two events. |
| `SessionServer` | three clients for two slots: full, vacated and taken over. Two hands, so that a player can meet his own item; two ticks, one ahead; up to two actions a tick: grab and drop in one. |
| `Reconnect` | two clients, two slots, one action: the shortest path that returns. |
| `Tasks` | two tasks on the token, of which one has the channels, and two guards: a first call and a later one. One event and two requests a handler (the server sends 1 and 4, the client 2 and 1), two connections; buffers of 3 and 6, the smallest that `FewConnections` allows. The bound is tight: with a third connection, or a smaller buffer of either channel, TLC finds the two tasks waiting for each other. The proofs are for all. |
| `SessionClient`, `StartUnassigned` | channels of 2 and 3 (256 in the code): empty, partly filled, full. Two pongs (10 in the code): first and last. |
| `Prediction` | one item, one hand for each of two players, three ticks, up to two in a frame, two accumulated actions: grab and drop; three snapshots can arrive in every order. |
| `TickSync` | the code's own times in units of 20 µs: ticks of 50 ms, pings every 100 ms, slack and goal of 100 ms, correction in 10 s. `Delays`: 13 or 150 ms each way, independently. `Phases`: the server's tick 9 or 47 ms after the client connects. `Absences`: 3 or 11 s, on this side of the pole at about 11.5 s, of which the second takes the estimate close to it. `MaxDelay` and `MaxAbsence` are those 150 ms and 11 s. One disturbance, a minute after the start (`Calm`), or a first frame that is as late as an absence is long. `PingSamples` is 2 (10 in the code): constant round trips average to themselves. `Grace` 15 s (the slowest start is late for 13.4 s), `Tolerance` 5 ms. |
| `LongAbsence` | as `TickSync`, with an absence of 12 s: long enough for the pole, short enough for the one-byte count of ticks in a packet (12.75 s) and the session client's channel of 256 (12.8 s). |

What `TickSync` fixes: packets take a constant time and none is lost; of events
at one instant packets come first, then the frame, then the server's tick; a frame
runs when it has something to do, since frames (11 ms) are much shorter than
ticks, and the display time it predicts is taken for the present; intervals and
estimates, floating-point in the code, are rounded down to the unit. One player is
modelled, since the players' loops share nothing but the server's clock.

`CHECK_DEADLOCK FALSE` is set wherever the bounds or the program's own end (a
stopped task) stop the model. In `Tasks` that no task is stuck is `HandlersFinish`
and `EveryTaskStops`.

### Fairness

* `OpenServer`, `OpenClient`: a timeout that stays armed and unrefreshed expires,
  and once expired its branch is reached though packets keep coming (strong
  fairness: the select of tokio reaches a timer at the latest when no packet is
  ready, and the handlers' sends wait for a receiver who keeps taking). After the
  cancellation the shutdown's steps happen.
* `Tasks`: weak fairness of the connection task, the session task and every other
  task on the token, which the runtime keeps polling, and of the call of
  `notify_waiters` that follows the swap of the flag in the same function. The
  connection task's steps do not include a poll that finds no request
  (`FindsNoRequest`): nothing makes a packet or a timer come after it. A store of
  the flag need never become visible to a thread that has not synchronised.
* `SessionClient`: the session's task is polled (weak fairness of its steps that
  change its place and of those that take an event), the game takes session
  events while it runs frames, and its destructor comes to its end. Nothing is
  assumed of the game's requests.
* `TickSync`: weak fairness of `Step`: what is due happens, and time passes.
  Nothing makes the disturbances happen.

`ConnectionTiming` has no fairness: that the handshake completes is stated with
the time it takes (`ConnectedInTime`), as a safety property. That time passes is
what remains, and at most `MaxLoss` losses in a row is the assumption under which
a packet that is sent again and again gets through.

## 5. Proofs

All theorems are for every value of the constants that satisfies the assumptions.

| Theorem | Module | States |
|---|---|---|
| `OpenServerInvariant`, `OpenServerTypes` | `ConnectionProofs` | `ServerInv`; `ServerTypeOK`, the types of the server among arbitrary peers |
| `TimersStayMatched`, `TimersMatchInTheSystem` | | `TimersMatchVariant`, among arbitrary peers and among the clients |
| `OpenKeysStayApart`, `KeysStayApart` | | `KeysApart`, likewise |
| `OpenServerAnnounces`, `SystemAnnounces` | | `ImplementsConnectionEvents`, likewise: the server's steps are steps of `ConnectionEvents` |
| `OpenClientInvariant`, `OpenClientTypes` | | `ClientInv`; `ClientTypeOK`, the types of the clients among arbitrary servers |
| `OneChallengeIsAnswered`, `ResponsesAgree` | | `OneResponsePerProcess`, among arbitrary servers and with the server |
| `OpenClientsAnnounce`, `ClientsAnnounce` | | `ImplementsClientEventStream`, likewise: every client's steps are steps of `ClientEventStream` |
| `TypesCorrect` | | `TypeOK` of the connection layer |
| `SidesAgree` | | `NoSplitBrain` |
| `ServerHearsResponses` | | `ServerHeardResponse` |
| `ClientsAnswerChallenges` | | `ChallengeAnswered` |
| `KeepalivesTellTheTruth` | | `KeepaliveConfirms` |
| `SecretsStayApart` | | `SecretsApart`, `KeysApart` for the secrets clients hold |
| `EntriesStay` | | `EntriesAreStable`, an action property |
| `SessionServerInvariant` | `SessionServerProofs` | `SessionInv` |
| `LookupsSucceed` | | `OnlyKnownPanics` of the session server |
| `SlotsAreTheirClients` | | `SlotsMatchClients` |
| `HandsHoldTheirOwn`, `NoItemIsStranded` | | `HeldItemsAreOwned`, `AuthorityIsHeld` |
| `FirstCommitStands`, `NobodyElseVacates` | | `FirstCommitWins`, `OnlyOwnEventsVacate`, action properties |
| `SessionClientInvariant` | `SessionClientProofs` | `SessionClientInv` |
| `FourUnwrapsCanFail` | | `OnlyKnownPanics` of the session client |
| `DrainMeetsDropped` | | the shutdown's drain loop finds Dropped, and before it nothing its caller has not been told |
| `PredictionInv`, `PredictionTypes` | `PredictionProofs` | `Inv`; `TypeOK` of the prediction |
| `DropsSound` | | `DropsAreSound` |
| `CommittedOnce` | | `TicksAreCommittedOnce` |
| `PredictionReplays` | | `PredictionIsReplay` |
| `TokenTypeCorrect`, `TokenLosesNoWakeup` | `TaskProofs` | `TypeOK` and `NoLostWakeup` of `CancelToken` |
| `PipesTypesCorrect` | | `PipesTypeOK` |
| `RunningTasksNeverDeadlock` | | `NoDeadlock` unless the connections are being closed |
| `PipesNeverDeadlock` | | `NoDeadlock`, given `FewConnections` |
| `TasksImplementBoth` | | `Tasks` implements `CancelToken` and `ServerPipes` |
| `TasksAreSafe` | | all four for `Tasks`, given `FewConnections` |
| `SyncInvariant` | `TickSyncProofs` | `SyncInv`, as long as corrections help |
| `CorrectionsHelpIfStable` | | `CorrectionsHelp`, given `Stable` |
| `LeadStaysBounded`, `KeptCommitsInRange` | | how far ahead the client's clock can get and what the server keeps of its commits, as long as corrections help |
| `TimingTypesCorrect` | `ConnectionTimingProofs` | `TypeOK` of `ConnectionTiming` |
| `TimeoutsSuffice` | | `NobodyGivesUp` |
| `HandshakeIsTimely` | | `ConnectedInTime` |
| `StoppedClientsLeave`, `StoppedServersAreNoticed` | | `StoppedClientIsForgotten`, `StoppedServerIsNoticed` |

*Assumptions*, each an `ASSUME` of the module that has the constants:

* `ServerAssumption`, `ClientAssumption`, `SessionClientAssumption`: buffers hold
  at least one event, there is at least one disconnect packet and one pong to
  collect, bounds are natural numbers.
* `ClientKeyAssumption`, `ServerKeyAssumption`: keys are numbers.
* `PipesAssumption`: a handler's events fit the event channel, and the requests of
  as many session handlers as one connection handler sends events fit the request
  channel (on the server 1 event and 4 requests, on the client 2 and 1, of 256 in
  the code; without either the two tasks can indeed block each other).
* `TasksAssumption`: the connection task is one of the tasks.
* `TimingAssumption`: the send interval is no longer than the keepalive interval,
  and `2 * SendBudget + 2 * KeepaliveBudget + KeepaliveInterval < TimeoutInterval`,
  where a budget is `MaxLoss` intervals and a delay. The code's intervals satisfy
  it with one loss in a row and a quarter of a second: 4.5 < 5 seconds. They do
  not with two losses in a row.
* `TickSyncAssumption`: the interval is a multiple of ten (its clamp is nine or
  eleven tenths of it), the correction takes 1000 units of time or more, delays and
  absences are at most `MaxDelay` and `MaxAbsence`, which may be anything.
* `SessionAssumption`, `PredictionAssumption`: there is a slot, no client stands
  for a free one, bounds are natural numbers.
* `ActionsAssumption`: a player has a hand, and no item stands for an empty one
  (without hands a player who has joined could not be told from one who has not).

Two conditions that the code does not guarantee are assumed of no constant; the
theorems that need them state them:

* `FewConnections`: an event for each connection, and the answers to them, fit the
  channels. Nothing in the code limits the connections of a server. It holds for up
  to 63 on the server, and always on a client, and only closing needs it.
* `Stable`: what the client can gain before it is told to slow down stays below the
  pole of the correction, `Reach + 2 * TickInterval < 9 * (GoalSlack +
  CorrectionTime)`. With the code's intervals that is so for delays of up to 150 ms
  with one absence of up to 4.7 seconds, of 0.5 s with 3.8, or of 1 s with 2.6. For
  an absence of 12 seconds `CorrectionsHelp` is false (`LongAbsence`); in between
  it is not proved, and the run `TickSync`, whose commits still settle after 11
  seconds, is all there is. The other theorems about the loop are for all delays
  and absences, for as long as `CorrectionsHelp` holds.

*Connection layer.* Each side is proved about alone, among peers that send
anything, and both together. Alone the server's invariant is

```
ServerInv == TableOK /\ ChannelOK /\ phase \in Phase /\ KeysGenerated /\ KeysApart
```

`TableOK` says of every entry that it has the timers of its state, which is
`TimersMatchVariant`, what the abstract stages are read from, and what the types
need (a Disconnecting entry without a packet left to send would count below zero).
`KeysGenerated`, that no entry has a key yet to come, keeps `KeysApart`, since an
entry is only made with a new key. The clients' invariant is

```
ClientInv == ClientTypeOK /\ ToServerOK /\ SecretsAreOwn
                /\ ResponsesPinned /\ OneResponsePerProcess
```

A process answers one challenge only: a response sent by the process that now runs
on an address carries the secret and the token that process holds
(`ResponsesPinned`), which makes all its responses one. `SecretsAreOwn` (a process
holds a secret made of its own key) is why a response of an earlier process is not
taken for one of the present.

The lemmas behind both are about handlers, not about specifications: they ask of a
packet only that its keys are numbers (`Readable`), and are used for the
arbitrary peers of `OpenServer` and `OpenClient` and again for `ConnectionSystem`.
There, with `Types` (the two invariants and the types of the rest),

```
SafetyInv == Types /\ ServerHeardResponse /\ ConnectedIsAccepted /\ KeepaliveConfirms
                   /\ ChallengeAnswered /\ ChallengesAreFresh
```

The argument for `NoSplitBrain`: the server calls an entry Connected only after a
`ConnectResponse` under that entry's secret was sent (`ServerHeardResponse`), and
by `ResponsesPinned` a response of the running process carries the secret that
process holds; so if the entry's secret is made from this process's key, the two
secrets are the same. `ChallengesAreFresh` (a challenge that was sent has a key
the server has generated, and no other address's entry has it) extends
`KeysApart` to what is under way, and gives `SecretsApart`. `EntriesAreStable`
follows from the actions: all of them that leave an entry in the table keep its
secret and token. The proofs have one step per action; the lemmas say for each
handler which variables it touches and what it adds to the network.

*What the layers promise.* The refinements are proved step by step: the initial
state maps to the abstract one, and under `ServerInv` or `ClientInv` every action
is an action of the abstract specification or leaves what it describes alone. An
action of a client on its own address appends to its channel what
`ClientEventStream` announces, and an action on another's leaves it. Both hold
among arbitrary peers and in `ConnectionSystem`, so the channels that
`SessionServer` and `SessionClient` are modelled on are the ones the connection
layer provides, whoever is on the other end.

*Session server.* The invariant is

```
SessionInv == ChannelOK /\ SlotsInv /\ OnlyKnownPanics /\ EventsAreExplained
```

What the session server knows of a client lags behind the client's stage by the
events in the channel. `EventsAreExplained` ties them together with a history, one
mode of each client after each event, that begins with what the session server
knows and ends with the stages: so an event that is taken finds the client in the
mode its handler unwraps, unless one of the known panics has happened. A
Disconnected of a client who is already Disconnecting vacates a slot the client
may no longer have; the history says that this needs a server that closes, after
which nothing but Disconnected and Dropped follows (`Winding`). Until then
the client whose event vacates a slot is the one who has it: `OnlyOwnEventsVacate`.
`SlotsInv` has `SessionTypeOK`, whose worlds are those in which every player owns what his hands
hold, and `VacantCommitsNothing`, without which the first commit of a player who
takes over a slot could meet one of his predecessor's: `FirstCommitWins` needs it.
Ownership is kept by each action, hence by a player's actions of a tick, hence by
all players' in any order: two folds, each by `FoldKeeps`.

*Session client.* The invariant is

```
SessionClientInv == StreamOK /\ SessionOK /\ ConnectedOnce /\ DroppedLast
                       /\ StartedFirst /\ OnlyKnownPanics
```

An unwrap of the session client or of the main loop relies on the order of what
waits in a queue of events. `ConnectedOnce`: Connected is in the connection's
channel at most once, and then the session client still awaits it; so it is never
taken in another state. `DroppedLast`: Dropped is the last event, and stays in the
channel of a connection that has stopped until the session client has taken it; so
the loop that drains the channel ends (`DrainMeetsDropped`), and nothing is
received from a closed channel. `StartedFirst`: the game is told Start once, and
every snapshot that waits for a game that is offline stands behind it. The proofs
look at positions in the two sequences: what is sent stands behind what waits
(`Appended`), and when the first is taken the others move up (`MovedUp`).

*Prediction.* The invariant is

```
Inv == TypeOK /\ Worlds /\ Offline /\ Kept /\ Replayed
```

`Worlds`: the player owns what his hands hold, in his world, in the server's, and
in every snapshot; in the last two he has hands. His world is never compared with
the server's, which may have refused some of his actions: a snapshot has what is
needed, and his actions keep it, whatever the hands of the others hold. `Kept`: for
the ticks that the latest snapshot does not cover, `local_actions` is what was
sent, which makes the replay of the one the replay of the other. `Replayed` says
that the world looks like the latest snapshot with the actions kept and those
accumulated. It is about worlds in which the player sees the same (`Alike`), since
the hands of players who left differ: equal actions lead from two such worlds to
two such worlds (`FoldRelates`, over actions and over ticks). A frame first applies
what it captured, at the end of what was accumulated (`FoldConcatenated`), and at
the next tick commits all of it: the replay up to the last of the frame's ticks is
then the replay up to the tick before, followed by all that was accumulated
(`ReplayCommits`).

*Folds.* `FoldInduction` proves for any step, its parameter, what a fold over a
sequence does: the recursive function that the fold stands for exists and has
values with the property at every length, or there would be a least length without.
The library's induction theorems, whose parameter is an operator, are of no use
to the provers; a least element of a set of naturals is all that is needed.

*Cancellation.* `NoLostWakeup` needs that the flag is set before the call
(`CallFollowsFlag`) and that a future remembers at most the calls made
(`CreatedBeforeCall`): a task that waits on a cancelled token created its future
before the call that wakes it.

*Channels.* `PipesInv` (`PipesTypeOK`, that a task that is not in a handler has nothing
left to send, and `FewHandlersSincePoll`) bounds the requests while the connection
task is past its poll: the session task finds an event whenever it polls, so that
it can have run no more handlers than the connection task has sent events, each of
which sends at most `MaxRequests`. The requests then fit their channel, and the
session task is not waiting. A task that closes its connections last polled before
it took the cancellation's branch, so the same count goes on with an event for each
connection, for which `FewConnections` is needed. Once the requests are dropped
nobody waits for room in their channel. `TasksImplementBoth` lets `Tasks` have all
of that: each of its steps is one of `CancelToken`, or leaves its variables alone,
and one of `ServerPipes`, or leaves its.

*Timing.* `TimingInv == Types /\ InPhase /\ ClientFades /\ ServerFades`. While both
sides run they are in one of five phases, `Calling`, `Challenging`, `Answering`,
`Confirming` and `Keeping` (`InPhase`): each says which packets may be under way
and that the time left on either side's timeout is more than what the exchanges
still to come may take, counted from the packet that is being repeated, its age
and its losses. The assumption is what the step from one phase to the next needs,
and the two keepalive budgets and the interval are what `Keeping` needs to return
to itself. `ClientFades` and `ServerFades` say that all a stopped side has under
way is as old as its silence, so that what refreshes a timeout dries up.

*Tick loop.* The slack estimate is an average of the slack of single commits, so
that it stays below the pole (`Slacks`) if no commit is ever too early: this is where
`Stable` is needed. That corrections help up to a step is what its preservation of
the rest rests on, so the invariant is proved under `[]CorrectionsHelp`, and with
`Stable` the two are proved together. But a client
that is early already may tick fast for as long as its commits take to arrive and
to raise the estimate to the goal, and the snapshot that says so takes to come
back. `SyncInv` keeps account of that time:

```
SyncInv == Types /\ Stages /\ GameTimes /\ Measured
              /\ SnapshotTimes /\ Chain /\ Floor
              /\ CommitsKnown /\ Slacks
              /\ LeadBounded /\ LateCommits /\ FastSnapshots /\ Rising
```

`Lead` is how far the client's clock is ahead, and `Headway`, nine times that less
the time to its next tick, grows no faster than time passes even while the clock
runs a tenth fast. Whatever can still make it run fast has a time it may last: a
low estimate needs so many early commits to rise to the goal (`Rising`), a commit
that is not early may first lower it (`LateCommits`), a snapshot or an interval that
says fast lasts until the next snapshot (`FastSnapshots`). In each of these
`Headway` plus that time is at most `Reach`. Time moves from the one to the other,
and it is only added where the client has just been found not to be early, which
leaves room for all of it. Without such a cause the clock does not gain, and
`LeadBounded` holds by itself: a frame that comes late makes up what it missed, once
(`GameTimes`), and a snapshot moves the game only if it was behind. `Chain` and
`Floor` (every snapshot is under way, or the client has it or a later one) and
`CommitsKnown` (every tick that the client ran ahead has a commit kept or under way,
or is paid for) are what makes these times exact, `Measured` what the start
contributes. The commits of a frame are one packet: what the server makes of them
is a fold (`FoldKeeps`), and `DueIs` and `CaughtUpIs` say of each when it arrives.

Checked by TLC only: liveness and everything under fairness (`EveryTaskStops`,
`HandlersFinish`, `SessionEnds`, the timeouts of `OpenServer` and `OpenClient`,
`Settles`), which the prover cannot treat; `EveryTickHasActions`, which needs to
know how fast the loop settles and holds for intervals like the code's, not for
all.

## 6. Where the code disagrees with itself

Each of the three findings is the counterexample of a run:

* **`Reconnect`.** A client that times out becomes Disconnecting, and after the
  last Disconnect packet the connection server removes it without an event
  (`connection-server/lib.rs:460`); but the session server asserts that a Pending
  client is new (`session-server/lib.rs:414`). When that client connects again
  from its address, the session server panics.
* **`StartUnassigned`.** Ten pongs start the session (`session-client/lib.rs:349`)
  and unwrap a player ID that travels in separate packets, and that a full server
  never sends.
* **`LongAbsence`.** The comment at `session-server/lib.rs:694` speaks of "the tick
  rate that would resolve the error over the next 10 seconds". A snapshot that is
  ahead of the game moves the game's tick but not its clock (`game.rs:351`), so that
  after an absence the frame adds the ticks of the absence once more
  (`game.rs:410`): 12 seconds with the headset off put the client 12 seconds
  ahead. The slack estimate follows, and when it is more than ten seconds over the
  goal the rate is negative; its inverse is negative too, and the clamp
  (`session-server/lib.rs:697`) makes of it the shortest interval. The client, far
  too early, is told to tick faster with every snapshot, and never comes back. An
  absence of that length is survived by everything else: its 240 ticks fit the
  commit packet's count and its 240 snapshots the session client's channel.

Seen while modelling, and part of the models as the code has them:

* A player who leaves with an item in hand leaves it with `grabbed` set
  (`session-server/lib.rs:501`, `action.rs:110`): nobody can grab it again.
  `AuthorityIsHeld` says what does hold: the authority returns to the server.
* The main loop unwraps `try_send_request` (`dungeon-vr/src/main.rs:454`) after
  the session client may have ended; this is one of the four panics that
  `OnlyKnownPanics` permits, so no property objects to it.
* The game forgets the guard of its session client (`dungeon-vr/src/main.rs:102`)
  and the dedicated server never cancels. `SessionEnds`, `CancelledTaskStops` and
  what `Tasks` says of the end are therefore about the crates as libraries, which
  their tests use so.
* Game data the session server requests for a Pending address confirms the
  client's handshake early (`connection-server/lib.rs:195`,
  `connection-client/lib.rs:438`); `KeepaliveConfirms` is therefore about
  keepalives only.
* After a refusal the client's timeout stays armed and announces Disconnected a
  second time (`connection-client/lib.rs:242`, `:424`); `ClientEventStream` has
  this as `armed`.
* A cancellation during a handler ends the server's loop by its condition
  (`connection-server/lib.rs:107`), and the receiver is told Dropped without each
  connection's Disconnected; `ConnectionEvents` has this in `Stop`: what
  `CancelledTaskStops` and `EveryTaskStops` say is that the task ends.
* `handle_cancelled` sends an event for each connection and does not look at the
  requests meanwhile (`connection-server/lib.rs:181`). With more than 63
  connections, of which nothing limits the number, the event channel and the
  request channel can both fill, and the two tasks wait for each other for ever.
* The session server does not clear a client's player ID when it starts to
  disconnect (`session-server/lib.rs:443-449`), and a Disconnected that follows
  vacates the slot, whoever has it by then. The connection server announces
  Disconnected after Disconnecting only when it shuts down, and after that
  nothing of the client who lost the slot can arrive: `OnlyKnownPanics` holds, and
  until then `OnlyOwnEventsVacate`. At the shutdown another's slot is vacated.
* All ticks that are due in one frame are committed in one packet, whose count is
  one byte (`commit_actions_packet.rs:34`): after a pause of more than 12.75
  seconds the session client panics. The models' absences, 12 seconds at most, stay
  below that bound.
* When an estimate is exactly ten seconds over the goal the rate is zero, and the
  inverse fails the assertion of `NanoDuration::from_secs_f64` (`time.rs:155`): the
  session server panics. In `TickSync` the server has no tick then.
* `handle_snapshot` replays committed actions only: those captured since the last
  tick lose their effect on the player's world until a later snapshot has them
  (`game.rs:361`, `:397`), though the comment at `game.rs:372` calls the simulation
  "back to where it was". `PredictionIsReplay` excepts the time from such a
  snapshot to the next (`overtaken`).
* Every branch that sends is expected to refresh the keepalive, and no other does
  (`connection-server/lib.rs:579`); with the intervals of the code nobody is given
  up for it (`NobodyGivesUp`) unless two packets in a row are lost of each kind.
  The tests `connected_request_gamedata_should_refresh_keepalive` of both crates
  (`connection-server/src/tests/request.rs:44`, `connection-client/src/tests/request.rs:41`)
  are named for a refresh that game data does not do; the models follow the code.
* A client that starts again right after a crash finds its old entry until the
  timeout and the Disconnect packets are through, up to 7.4 seconds, longer than
  its own timeout of 5: it may give up once before it can connect.
* A player's assignment is sent again for ever: nothing clears `send_assignment`,
  though the comment at `session-server/lib.rs:424` speaks of "until we process a
  session packet indicating they got the message".
* **The tick loop.** A session that starts at once, over a route that stays as it
  was measured, has its commits in time from the first tick (`CommitsComeInTime`).
  The slack estimate starts at zero, so the client first ticks faster than it
  should and overshoots the goal by some 30 ms; it settles within a minute. An
  absence of 3 seconds puts the client 3 seconds ahead. The loop takes that back
  over the next 40 seconds, then overshoots, and for some ten seconds the commits
  are late, which is why `EveryTickHasActions` leaves absences out. From absences
  of up to about 11.5 seconds it recovers (`Settles`), from longer ones it does not:
  the third finding.
* `apply_snapshot` removes no entities: the hands of players who left stay, and
  `emit_hand_actions` emits actions from every hand in the world. `Prediction`
  has the stale hands and what they emit.

## 7. Not modelled

* Transforms, rigid bodies, collisions, interpolation: numeric and
  without concurrency; where a hand is near an item is nondeterministic.
* The byte formats and codecs, the integer arithmetic of times: pure functions.
* Jitter and loss in `TickSync`, and of the absences there those long enough for
  the panic of the one-byte count.
* How long the shutdown takes: `ConnectionTiming` lets a side stop at once, without
  the events of `handle_cancelled`, which `ServerPipes` and `ConnectionServer` have.
* Key derivation, ciphers, nonces: assumed to do what they promise.
* The renderer, OpenXR, audio, Steam Audio and the voice prototype: device I/O
  and native libraries, with no state shared with the above but voice packets,
  which `SessionClient` passes on.
* The dedicated server's start-up and command line.
