------------------------------ MODULE TickSync ------------------------------
(***************************************************************************)
(* Keeping one client's ticks ahead of the server's.                       *)
(*                                                                         *)
(* The client starts at a tick estimated from the round trip, commits the  *)
(* actions of each tick as its own clock reaches it, and the server steers *)
(* that clock with the tick interval it sends in every snapshot, so that   *)
(* the commits arrive GoalSlack before the server runs their tick.         *)
(*                                                                         *)
(* Time advances from one event to the next; every clock, timer and packet *)
(* is kept as the time that is left until it is due, and every tick id as  *)
(* its distance from the last tick the server completed.  Packets take a   *)
(* constant time each way, frames are far shorter than ticks, and the loop *)
(* is disturbed at most once: the route changes, or the headset is off for *)
(* a while and no frame runs.                                              *)
(***************************************************************************)
EXTENDS Integers, FiniteSetsExt, SequencesExt

CONSTANTS
    TickInterval,       \* TICK_INTERVAL
    PingInterval,       \* PING_INTERVAL
    PingSamples,        \* PING_SAMPLES
    InitialSlack,       \* INITIAL_SLACK
    GoalSlack,          \* GOAL_SLACK_NS
    CorrectionTime,     \* the 10 seconds in which the error is to be resolved
    MaxDelay, Delays,       \* times a packet may take
    Phases,             \* times to the server's next tick when the client connects
    MaxAbsence, Absences,   \* times the headset may be off
    Calm,               \* time after which a disturbance may strike
    Grace, Tolerance    \* how soon, and how well, the loop is to settle

ASSUME TickSyncAssumption ==
    /\ {TickInterval, PingInterval, PingSamples, CorrectionTime} \subseteq Nat \ {0}
    /\ {InitialSlack, GoalSlack, MaxDelay, MaxAbsence, Grace, Tolerance} \subseteq Nat
    /\ Delays \subseteq 0 .. MaxDelay
    /\ Phases \subseteq 1 .. TickInterval
    /\ Absences \subseteq 1 .. MaxAbsence
    /\ Calm \in Nat \ {0} /\ Grace <= Calm
    /\ TickInterval % 10 = 0 /\ CorrectionTime >= 1000

VARIABLES
    server,         \* its next tick, the player's slack estimate and kept commits
    client,         \* the session client's State
    game,           \* GameTick, and the tick of the latest snapshot
    waiting,        \* the newest snapshot in the session client's event channel, if any
    up, down,       \* packets on their way to the server and to the client
    delay,          \* the time they take
    away,           \* how long the headset is still off
    age,            \* time since the session started or was disturbed, up to Calm
    disturbed

vars == <<server, client, game, waiting, up, down, delay, away, age, disturbed>>
route == <<delay, away, disturbed>>

Ping == [what |-> "Ping", in |-> delay.up, since |-> 0]
Pong(since) == [what |-> "Pong", in |-> delay.down, since |-> since, tick |-> 0]
GameState(interval) == [what |-> "GameState", in |-> delay.down, tick |-> 0, interval |-> interval]
Commit(first, count) == [what |-> "Commit", in |-> delay.up, tick |-> first, count |-> count]

\* What happens at one instant happens in one order: packets are received,
\* then a frame runs, then the server ticks.
Arrived(packets) == \E m \in packets : m.in = 0

NotMeasuring == [stage |-> "Measuring", pingIn |-> 0, samples |-> 0, total |-> 0, tick |-> 0]
NotPlaying == [last |-> 0, latest |-> {}, nextIn |-> 0, interval |-> TickInterval]

Init ==
    /\ \E phase \in Phases : server = [toTick |-> phase, estimate |-> 0, kept |-> {}]
    /\ client = NotMeasuring
    /\ game = NotPlaying
    /\ waiting = {} /\ up = {} /\ down = {}
    /\ delay \in [up : Delays, down : Delays]
    /\ away = 0 /\ age = 0 /\ disturbed = "No"

-----------------------------------------------------------------------------
(* The session client.                                                     *)

\* Mutant of StartTick: the round trip is left out.
StartTickBySlack == client.tick + (InitialSlack + TickInterval \div 2) \div TickInterval

\* The tick to start at: the round trip and the slack ahead of the server.
StartTick ==
    client.tick + (client.total \div client.samples + InitialSlack + TickInterval \div 2)
                    \div TickInterval

PingElapsed ==
    /\ client.stage = "Measuring" /\ client.pingIn = 0 /\ ~Arrived(down)
    /\ IF client.samples >= PingSamples
         THEN /\ client' = [client EXCEPT !.stage = "Starting", !.tick = StartTick]
              /\ UNCHANGED up
         ELSE /\ client' = [client EXCEPT !.pingIn = PingInterval]
              /\ up' = up \cup {Ping}
    /\ UNCHANGED <<server, game, waiting, down, route, age>>

HandlePong(m) ==
    /\ m.what = "Pong"
    /\ client' = IF client.stage = "Measuring"
                   THEN [client EXCEPT !.samples = @ + 1, !.total = @ + m.since, !.tick = m.tick]
                   ELSE client
    /\ UNCHANGED waiting

\* Of the snapshots that wait for a frame only the newest has an effect.
HandleGameState(m) ==
    /\ m.what = "GameState"
    /\ waiting' = IF client.stage # "Measuring" /\ \A s \in waiting : s.tick < m.tick
                    THEN {[tick |-> m.tick, interval |-> m.interval]}
                    ELSE waiting
    /\ UNCHANGED client

ClientReceives ==
    \E m \in down :
        /\ m.in = 0
        /\ down' = down \ {m}
        /\ HandlePong(m) \/ HandleGameState(m)
        /\ UNCHANGED <<server, game, up, route, age>>

-----------------------------------------------------------------------------
(* The game.  A frame takes the events that wait and then runs, and        *)
(* commits in one packet, every tick that is due.                          *)

Clamped(interval) ==
    Max({(TickInterval * 9) \div 10, Min({interval, (TickInterval * 11) \div 10})})

StartNetSession == [NotPlaying EXCEPT !.last = client.tick]

\* Mutant: a snapshot never takes the game ahead.
SnapshotNeverSkips(g, snapshot) ==
    [g EXCEPT !.interval = Clamped(snapshot.interval), !.latest = {snapshot.tick}]

HandleSnapshot(g, snapshot) ==
    IF \E t \in g.latest : snapshot.tick <= t
      THEN g
      ELSE [g EXCEPT !.interval = Clamped(snapshot.interval),
                     !.latest = {snapshot.tick},
                     !.last = Max({@, snapshot.tick})]

TicksDue(g) == IF g.nextIn > 0 THEN 0 ELSE (-g.nextIn) \div g.interval + 1

\* The loop of Game::update.
CaughtUp(g) == [g EXCEPT !.last = @ + TicksDue(g), !.nextIn = @ + TicksDue(g) * g.interval]

FrameDue ==
    /\ away = 0 /\ ~Arrived(down)
    /\ \/ client.stage = "Starting"
       \/ client.stage = "Playing" /\ (waiting # {} \/ game.nextIn <= 0)

Frame ==
    /\ FrameDue
    /\ LET starting == client.stage = "Starting"
           started  == IF starting THEN StartNetSession ELSE game
           g        == IF waiting = {} THEN started
                       ELSE HandleSnapshot(started, CHOOSE s \in waiting : TRUE)
       IN  /\ game' = CaughtUp(g)
           /\ up' = IF TicksDue(g) = 0 THEN up ELSE up \cup {Commit(g.last + 1, TicksDue(g))}
           /\ age' = IF starting THEN 0 ELSE age
    /\ client' = [NotMeasuring EXCEPT !.stage = "Playing"]
    /\ waiting' = {}
    /\ UNCHANGED <<server, down, route>>

-----------------------------------------------------------------------------
(* The session server.                                                     *)

HandlePing(m) ==
    /\ m.what = "Ping"
    /\ down' = down \cup {Pong(m.since)}
    /\ UNCHANGED server

\* PlayerState::record_slack_observation, with 0.99 and 0.01.
RecordSlackObservation(estimate, slack) == estimate + (slack - estimate) \div 100

\* How early a commit of a tick is that arrives now.
SlackOf(tick) == server.toTick + (tick - 1) * TickInterval

RecordIfLate(estimate, tick) ==
    IF tick > 0 THEN estimate ELSE RecordSlackObservation(estimate, SlackOf(tick))

\* Commits of later ticks are kept until their tick; late ones, and ticks
\* that are already kept, change no more than the estimate.
HandleCommitActions(m) ==
    /\ m.what = "Commit"
    /\ LET ticks == [i \in 1 .. m.count |-> m.tick + i - 1]
           taken == {c.tick : c \in server.kept}
       IN  server' = [server EXCEPT
                        !.kept = @ \cup {[tick |-> t, slack |-> SlackOf(t)] :
                                            t \in {u \in Range(ticks) \ taken : u > 0}},
                        !.estimate = FoldLeft(RecordIfLate, @, ticks)]
    /\ UNCHANGED down

ServerReceives ==
    \E m \in up :
        /\ m.in = 0 /\ ~Arrived(down)
        /\ up' = up \ {m}
        /\ HandlePing(m) \/ HandleCommitActions(m)
        /\ UNCHANGED <<client, game, waiting, route, age>>

\* The interval at which the client's ticks, at a rate of
\*     1 / TickInterval - error / (TickInterval * time),
\* make up for the error in that time.  Past an error as long as the time the
\* rate is negative, and so is the interval.
Correcting(error, time) ==
    IF error > time
      THEN Clamped(-1)
      ELSE Clamped(TickInterval + (TickInterval * error) \div (time - error))

\* Mutant of AssignedInterval: the commits are to arrive just in time.
AssignJustInTime(estimate) == Correcting(estimate, CorrectionTime)

AssignedInterval(estimate) == Correcting(estimate - GoalSlack, CorrectionTime)

\* The tick ids are one further from the tick that is completed.
Earlier(records) == {[r EXCEPT !.tick = @ - 1] : r \in records}
InTransit(packets) ==
    {m \in packets : m.what = "Ping"} \cup Earlier({m \in packets : m.what # "Ping"})

\* At the pole, where the rate is zero, the inverse of the rate is infinite:
\* an assertion of NanoDuration fails, the server's task panics, and no more
\* ticks come.
HandleTick ==
    /\ server.toTick = 0 /\ ~Arrived(up) /\ ~Arrived(down) /\ ~FrameDue
    /\ LET now   == {c \in server.kept : c.tick = 1}
           known == IF now = {} THEN server.estimate
                    ELSE RecordSlackObservation(server.estimate, (CHOOSE c \in now : TRUE).slack)
       IN  /\ known - GoalSlack # CorrectionTime
           /\ server' = [toTick |-> TickInterval, estimate |-> known,
                         kept |-> Earlier(server.kept \ now)]
           /\ down' = InTransit(down) \cup {GameState(AssignedInterval(known))}
    /\ up' = InTransit(up)
    /\ client' = IF client.stage = "Playing" THEN client ELSE [client EXCEPT !.tick = @ - 1]
    /\ game' = [game EXCEPT !.last = @ - 1, !.latest = {t - 1 : t \in @}]
    /\ waiting' = Earlier(waiting)
    /\ UNCHANGED <<route, age>>

-----------------------------------------------------------------------------
(* Time, and what may disturb the loop.                                    *)

TimesLeft ==
    {server.toTick} \cup {m.in : m \in up \cup down}
        \cup (IF client.stage = "Measuring" THEN {client.pingIn} ELSE {})
        \cup (IF away > 0 THEN {away}
              ELSE IF client.stage = "Playing" THEN {game.nextIn} ELSE {})

Nearer(packets, d) ==
    {IF m.what \in {"Ping", "Pong"} THEN [m EXCEPT !.in = @ - d, !.since = @ + d]
     ELSE [m EXCEPT !.in = @ - d] : m \in packets}

Elapse ==
    LET d == Min(TimesLeft)
    IN  /\ ~FrameDue /\ d > 0
        /\ server' = [server EXCEPT !.toTick = @ - d]
        /\ client' = IF client.stage = "Measuring" THEN [client EXCEPT !.pingIn = @ - d] ELSE client
        /\ game' = IF client.stage = "Playing" THEN [game EXCEPT !.nextIn = @ - d] ELSE game
        /\ up' = Nearer(up, d) /\ down' = Nearer(down, d)
        /\ away' = Max({0, away - d})
        /\ age' = IF client.stage = "Playing" /\ away = 0 THEN Min({Calm, age + d}) ELSE 0
        /\ UNCHANGED <<waiting, delay, disturbed>>

MayDisturb == disturbed = "No" /\ age = Calm /\ server.toTick = TickInterval

\* Packets take another time from now on.
Reroute ==
    /\ MayDisturb
    /\ delay' \in [up : Delays, down : Delays] \ {delay}
    /\ disturbed' = "Rerouted" /\ age' = 0
    /\ UNCHANGED <<server, client, game, waiting, up, down, away>>

\* The headset is off, and no frame runs: after a while, or as the session
\* starts.
TakeOff ==
    /\ \/ MayDisturb /\ disturbed' = "Absent"
       \/ disturbed = "No" /\ client.stage = "Starting" /\ disturbed' = "Late"
    /\ away' \in Absences /\ age' = 0
    /\ UNCHANGED <<server, client, game, waiting, up, down, delay>>

Step ==
    \/ PingElapsed
    \/ ClientReceives
    \/ Frame
    \/ ServerReceives
    \/ HandleTick
    \/ Elapse

Next == Step \/ Reroute \/ TakeOff

Spec == Init /\ [][Next]_vars /\ WF_vars(Step)

-----------------------------------------------------------------------------
\* How early the server will have the next commit of the client.
Ahead == server.toTick + game.last * TickInterval - game.nextIn - delay.up

\* Whatever the round trip, the phase of the two clocks, and the one change
\* of route or absence, the client's commits settle at the goal of
\* handle_tick and stay there: the estimate lags and the snapshots take
\* their time, but the loop neither swings for ever nor settles elsewhere.
Settles ==
    <>[](/\ client.stage = "Playing" /\ away = 0
         /\ Ahead \in GoalSlack - Tolerance .. GoalSlack + Tolerance)

\* A session that starts at once, over a route that stays as it was measured,
\* has its commits in time from the first tick on: the tick it starts at is
\* far enough ahead whatever the two ways of the round trip and the phase of
\* the clocks are, and what the loop corrects never makes them late.
CommitsComeInTime ==
    disturbed = "No" => \A m \in up : m.what = "Commit" /\ m.in = 0 => m.tick > 0

\* Soon after a session started, however late its first frame came, and soon
\* after the route changed, the server has the player's actions for every
\* tick when it runs the tick: handle_tick finds them.  After an absence in
\* the middle of a session this is not so: the loop overshoots, and for some
\* seconds the commits are late.
EveryTickHasActions ==
    [][HandleTick /\ age >= Grace /\ disturbed # "Absent"
          => \E c \in server.kept : c.tick = 1]_vars

-----------------------------------------------------------------------------
(* What the code's own comments say, and is not so.                        *)

\* "Compute the tick rate that would resolve the error over the next 10
\* seconds": the interval a client is assigned works against its error.  It
\* does while the estimate stays below the pole of Correcting; past it a
\* client that is too early is told to tick faster.  A long absence brings
\* the estimate there: the next snapshot takes the game to the server's tick,
\* and then the frame runs the ticks of the whole absence on top.
CorrectionsHelp ==
    /\ server.estimate - GoalSlack # CorrectionTime
    /\ server.estimate > GoalSlack => AssignedInterval(server.estimate) >= TickInterval
    /\ server.estimate < GoalSlack => AssignedInterval(server.estimate) <= TickInterval

-----------------------------------------------------------------------------
(* How far the client's clock can get ahead while corrections help, and    *)
(* when that keeps the estimate below the pole.  While commits come early  *)
(* by a Margin over the goal, each raises a low estimate by a hundredth of *)
(* the Margin, and when the estimate has reached the goal the client is    *)
(* told to slow down.  Until then its clock gains at most a ninth of the   *)
(* time that passes.                                                       *)

Margin == CorrectionTime \div 10

\* The least slack of any commit, and how many early commits raise the
\* estimate from there to the goal, how long that and the next snapshot take.
LeastSlack == -(3 * MaxDelay + PingInterval + MaxAbsence + 2 * TickInterval)
RaisingTicks == (GoalSlack - LeastSlack) \div (Margin \div 100) + 1
RaisingTime == RaisingTicks * TickInterval + TickInterval + MaxDelay

\* Nine times as far as the client's clock gets ahead, but for two ticks.
Reach ==
    10 * (GoalSlack + Margin + InitialSlack + 2 * MaxDelay + MaxAbsence + 2 * TickInterval)
        + RaisingTime

\* With the code's times (rates of a tenth, ticks of 50 ms, a correction in
\* 10 s) this holds for delays of up to 150 ms and one absence of up to 4.7 s,
\* of 0.5 s and 3.8 s, or of 1 s and 2.6 s.  The code bounds neither, and it
\* is not assumed: the theorems that need it say so.
Stable == Reach + 2 * TickInterval < 9 * (GoalSlack + CorrectionTime)
=============================================================================
