--------------------------- MODULE TickSyncProofs ---------------------------
(***************************************************************************)
(* How far the loop of TickSync can carry a client's clock.  While what    *)
(* the server tells a client to do about its clock works against the       *)
(* client's error (CorrectionsHelp), the client's lead is bounded for any  *)
(* delays and absences (LeadStaysBounded); and if the bound is below the   *)
(* pole of the correction (Stable), it always does                         *)
(* (CorrectionsHelpIfStable).  Longer absences do get the estimate past    *)
(* the pole.                                                               *)
(*                                                                         *)
(* The estimate is an average of the slack of single commits, so it is     *)
(* enough to bound how early a commit can be.  Nothing in the state at     *)
(* hand does that: a client that is early already may yet tick fast for as *)
(* long as it takes until its commits arrive, raise the estimate to the    *)
(* goal, and the snapshot that says so has come back.  The proof keeps     *)
(* account of that time.  Headway is nine times the client's lead and a    *)
(* bit more: while the clock runs fast it grows no faster than time        *)
(* passes.  Whatever can still make the clock run fast (an estimate below  *)
(* the goal, a commit that is not early, a snapshot or an interval that    *)
(* says fast) comes with the time it may last, and Headway and that time   *)
(* together stay below Reach: the time goes down as it passes, and none is *)
(* added except where the client is measured and found not to be early,    *)
(* which leaves room for all of it.  Once nothing is left that can make    *)
(* the clock run fast the lead cannot grow, and a frame that was late      *)
(* makes up what it missed and no more.                                    *)
(*                                                                         *)
(* The other half is that none of this is lost or too old: every snapshot  *)
(* is under way, or the client has it or a later one (Chain), so its       *)
(* interval and its clock are never older than the delay and a tick; and   *)
(* every tick the client ran has a commit that is under way or kept, or is *)
(* accounted for (CommitsKnown).                                           *)
(***************************************************************************)
EXTENDS TickSync, TLAPS

\* The loop over the ticks of a commit.
RecordStep(toTick, estimate, tick) ==
    IF tick > 0 THEN estimate
    ELSE RecordSlackObservation(estimate, toTick + (tick - 1) * TickInterval)

Late == INSTANCE FoldInduction WITH Op <- RecordStep

-----------------------------------------------------------------------------
(* The invariant.                                                          *)

Playing == client.stage = "Playing"
Span(n) == n * TickInterval
Fastest == (TickInterval * 9) \div 10
Slowest == (TickInterval * 11) \div 10

\* How far the client's clock is ahead of the server's, and the potential.
Lead == server.toTick + Span(game.last) - game.nextIn
Headway == 9 * Lead - game.nextIn

\* The time since the server completed a tick.
Age(tick) == TickInterval - server.toTick - Span(tick)
Commits == {m \in up : m.what = "Commit"}
TicksOf(m) == m.tick .. m.tick + m.count - 1
Snapshots == {m \in down : m.what = "GameState"}
Past == {s \in Int : s <= 0}

\* The packets.
PingPacket == [what : {"Ping"}, in : 0 .. MaxDelay, since : Nat]
PongPacket == [what : {"Pong"}, in : 0 .. MaxDelay, since : Nat, tick : Int]
GameStatePacket == [what : {"GameState"}, in : 0 .. MaxDelay, tick : Int, interval : Int]
CommitPacket == [what : {"Commit"}, in : 0 .. MaxDelay, tick : Int, count : Nat \ {0}]

\* The types, and the bounds on the timers.
Types ==
    /\ server \in [toTick : 0 .. TickInterval, estimate : Int,
                   kept : SUBSET [tick : Nat \ {0}, slack : Int]]
    /\ client \in [stage : {"Measuring", "Starting", "Playing"}, pingIn : 0 .. PingInterval,
                   samples : Nat, total : Nat, tick : Int]
    /\ game \in [last : Int, latest : SUBSET Int, nextIn : Int, interval : Fastest .. Slowest]
    /\ waiting \subseteq [tick : Int, interval : Int]
    /\ up \subseteq PingPacket \cup CommitPacket
    /\ down \subseteq PongPacket \cup GameStatePacket
    /\ delay \in [up : 0 .. MaxDelay, down : 0 .. MaxDelay]
    /\ away \in 0 .. MaxAbsence
    /\ age \in 0 .. Calm
    /\ disturbed \in {"No", "Rerouted", "Absent", "Late"}

\* What a client that does not play yet has not caused.
Stages ==
    /\ ~Playing => /\ age = 0
                   /\ server.kept = {} /\ server.estimate = 0 /\ Commits = {} /\ game.latest = {}
    /\ client.stage = "Measuring" => disturbed = "No" /\ waiting = {}
    /\ disturbed = "No" => away = 0

\* A tick is late by no more than the absence that made it late.
GameTimes ==
    Playing => /\ away - MaxAbsence <= game.nextIn /\ game.nextIn <= Slowest
               /\ disturbed = "No" => game.nextIn >= 0

\* The round trips, and the tick ids they came with: the tick a client is to
\* start at is neither far ahead nor far behind.
Measured ==
    /\ \A m \in up : m.what = "Ping" => m.since + m.in <= MaxDelay
    /\ \A m \in down : m.what = "Pong" =>
          m.since + m.in <= 2 * MaxDelay /\ m.tick <= 0
            /\ m.in <= MaxDelay + server.toTick + Span(m.tick)
    /\ client.total <= 2 * MaxDelay * client.samples
    /\ client.stage = "Measuring" =>
          /\ client.tick <= 0
          /\ client.samples >= PingSamples =>
                Span(client.tick) + server.toTick + MaxDelay + PingInterval - client.pingIn >= 0
    /\ client.stage = "Starting" =>
          /\ Span(client.tick) <= 2 * MaxDelay + InitialSlack + TickInterval
          /\ Span(client.tick) + server.toTick + MaxDelay + PingInterval
                + (IF disturbed = "No" THEN 0 ELSE MaxAbsence - away) >= 0

\* A snapshot is under way for the delay, and taken in order.
SnapshotTimes ==
    /\ \A m \in Snapshots :
          /\ m.tick <= 0
          /\ m.in + Age(m.tick) <= MaxDelay
          /\ disturbed = "No" => m.in + Age(m.tick) = delay.down
    /\ \A v, w \in waiting : v = w
    /\ \A w \in waiting : w.tick <= 0
    /\ \A t, u \in game.latest : t = u
    /\ \A t \in game.latest : t <= 0 /\ t <= game.last
    /\ game.latest = {} => game.interval = TickInterval

\* Every snapshot is under way, or overtaken by one the client has.
Taken(s) == (\E t \in game.latest : s <= t) \/ (\E w \in waiting : s <= w.tick)
UnderWay(s) == \E m \in Snapshots : m.tick = s

Chain ==
    \A t \in game.latest \cup {w.tick : w \in waiting} \cup {m.tick : m \in Snapshots} :
        \A s \in t .. 0 : UnderWay(s) \/ Taken(s)

\* So a client that plays is behind only by what is under way, or by its start.
StartAge == MaxDelay + PingInterval + MaxAbsence + TickInterval

Floor ==
    Playing => \A s \in Past : UnderWay(s) \/ Taken(s) \/ Span(s) <= Span(game.last) + StartAge

\* Every tick the client is ahead by has a commit that is kept or under way, or
\* it has none and there is room left for all that may follow from that.
CommitsKnown ==
    /\ \A c, d \in server.kept : c.tick = d.tick => c = d
    /\ Playing => \A t \in 1 .. game.last :
          \/ \E c \in server.kept : c.tick = t
          \/ \E m \in Commits : t \in TicksOf(m)
          \/ Headway + SlackOf(t) + RaisingTime <= Reach
    /\ \A c \in server.kept : c.tick <= game.last
    /\ \A m \in Commits : m.tick + m.count - 1 <= game.last

\* The estimate, and all that it will be made of, is between two bounds.
InRange(slack) == LeastSlack <= slack /\ 9 * slack <= Reach + 2 * TickInterval

Slacks ==
    /\ InRange(server.estimate)
    /\ \A c \in server.kept : InRange(c.slack)
    /\ \A m \in Commits : \A t \in TicksOf(m) : InRange(SlackOf(t) - m.in)

\* A commit that is early raises a low estimate by a hundredth of the Margin.
Early(slack) == slack >= GoalSlack + Margin

\* The bound on the client's clock.
LeadBounded == Playing => 9 * Lead <= Reach + 2 * TickInterval

\* A commit that is not early was made with room for the estimate to fall and
\* to rise again.
LateCommits ==
    /\ \A c \in server.kept : ~Early(c.slack) => Headway + SlackOf(c.tick) + RaisingTime <= Reach
    /\ \A m \in Commits : \A t \in TicksOf(m) : ~Early(SlackOf(t) - m.in) =>
          Headway + SlackOf(t) + RaisingTime <= Reach /\ Headway + m.in + RaisingTime <= Reach

\* An interval that says fast lasts until the next snapshot comes, and that
\* much room is left.
Superseded(tick) == Headway + TickInterval + MaxDelay - Age(tick) <= Reach

FastSnapshots ==
    Playing =>
        /\ \A m \in Snapshots : m.interval < TickInterval => Superseded(m.tick)
        /\ \A w \in waiting : w.interval < TickInterval => Superseded(w.tick)
        /\ \A t \in game.latest : game.interval < TickInterval => Superseded(t)

\* A low estimate will have risen in so many ticks, and that much room is left.
Rising ==
    Playing /\ server.estimate < GoalSlack =>
        \E n \in 0 .. RaisingTicks :
            /\ server.estimate + n * (Margin \div 100) >= GoalSlack
            /\ Headway + Span(n) + server.toTick + MaxDelay <= Reach

\* All of it is inductive together.
SyncInv ==
    /\ Types /\ Stages /\ GameTimes /\ Measured
    /\ SnapshotTimes /\ Chain /\ Floor
    /\ CommitsKnown /\ Slacks
    /\ LeadBounded /\ LateCommits /\ FastSnapshots /\ Rising

-----------------------------------------------------------------------------
(* Numbers.                                                                *)

\* The constants, without the lists of the assumptions.
LEMMA Sizes ==
    /\ TickInterval \in Nat \ {0} /\ PingInterval \in Nat \ {0}
    /\ PingSamples \in Nat \ {0} /\ CorrectionTime \in Nat \ {0}
    /\ InitialSlack \in Nat /\ GoalSlack \in Nat
    /\ MaxDelay \in Nat /\ MaxAbsence \in Nat
    /\ Calm \in Nat \ {0}
    /\ Delays \subseteq 0 .. MaxDelay
    /\ Phases \subseteq 1 .. TickInterval
    /\ Absences \subseteq 1 .. MaxAbsence
BY TickSyncAssumption

\* The intervals, a tenth to either side.
LEMMA Intervals ==
    /\ Fastest \in Nat \ {0} /\ Slowest \in Nat
    /\ 10 * Fastest = 9 * TickInterval
    /\ 10 * Slowest = 11 * TickInterval
<1>1. TickInterval \in Nat \ {0} /\ TickInterval % 10 = 0
  BY TickSyncAssumption
<1> DEFINE k == TickInterval \div 10
<1>2. k \in Int /\ TickInterval = 10 * k
  BY <1>1
<1> HIDE DEF k
<1>3. Fastest = 9 * k /\ Slowest = 11 * k
  <2>1. (TickInterval * 9) \div 10 = 9 * k
    BY <1>2
  <2>2. (TickInterval * 11) \div 10 = 11 * k
    BY <1>2
  <2> QED
    BY <2>1, <2>2 DEF Fastest, Slowest
<1> QED
  BY <1>1, <1>2, <1>3

\* Whole ticks.
LEMMA Spans ==
    /\ \A n \in Int : Span(n) \in Int
    /\ Span(0) = 0
    /\ \A m, n \in Int : Span(m + n) = Span(m) + Span(n)
    /\ \A n \in Int : Span(n + 1) = Span(n) + TickInterval
    /\ \A n \in Int : Span(n - 1) = Span(n) - TickInterval
    /\ \A m, n \in Int : m <= n => Span(m) <= Span(n)
<1>1. TickInterval \in Nat
  BY Sizes
<1>2. \A m, n \in Int : m <= n => m * TickInterval <= n * TickInterval
  <2> TAKE m, n \in Int
  <2> HAVE m <= n
  <2>1. (n - m) * TickInterval >= 0
    BY <1>1
  <2>2. (n - m) * TickInterval = n * TickInterval - m * TickInterval
    BY <1>1
  <2> QED
    BY <1>1, <2>1, <2>2
<1> QED
  BY <1>1, <1>2 DEF Span

\* A tick is due, and was completed, so long before or after the present one.
LEMMA SlackIs ==
    ASSUME server.toTick \in Int, NEW t \in Int
    PROVE  SlackOf(t) = server.toTick + Span(t) - TickInterval /\ SlackOf(t) \in Int
<1>1. (t - 1) * TickInterval = Span(t - 1)
  BY DEF Span
<1>2. Span(t - 1) = Span(t) - TickInterval /\ Span(t) \in Int
  BY Spans
<1> QED
  BY <1>1, <1>2, Sizes DEF SlackOf

\* What a division leaves is less than the divisor.
LEMMA Division ==
    \A a \in Nat, b \in Nat \ {0} :
        a \div b \in Nat /\ b * (a \div b) <= a /\ a < b * (a \div b) + b
<1>1. \A a \in Nat, b \in Nat \ {0} : a \div b \in Nat
  OBVIOUS
<1>2. \A a \in Nat, b \in Nat \ {0} : b * (a \div b) <= a
  BY SMTT(30)
<1>3. \A a \in Nat, b \in Nat \ {0} : a < b * (a \div b) + b
  BY SMTT(30)
<1> QED
  BY <1>1, <1>2, <1>3

\* Of two numbers.
LEMMA LargerOfTwo ==
    ASSUME NEW a \in Int, NEW b \in Int
    PROVE  Max({a, b}) = IF a >= b THEN a ELSE b
BY DEF Max

\* And the smaller of them.
LEMMA SmallerOfTwo ==
    ASSUME NEW a \in Int, NEW b \in Int
    PROVE  Min({a, b}) = IF a <= b THEN a ELSE b
BY DEF Min

\* The bounds of the potential.
LEMMA Bounds ==
    /\ Margin \in Nat /\ Margin \div 100 \in Nat \ {0} /\ 100 * (Margin \div 100) <= Margin
    /\ LeastSlack \in Int /\ RaisingTicks \in Nat
    /\ LeastSlack + RaisingTicks * (Margin \div 100) >= GoalSlack
    /\ RaisingTime = Span(RaisingTicks) + TickInterval + MaxDelay /\ RaisingTime \in Nat
    /\ Reach \in Nat
    /\ Reach = 10 * (GoalSlack + Margin + InitialSlack + 2 * MaxDelay + MaxAbsence
                        + 2 * TickInterval) + RaisingTime
<1>1. Margin \in Nat /\ Margin >= 100
  BY TickSyncAssumption DEF Margin
<1> DEFINE h == Margin \div 100
<1>2. h \in Nat \ {0} /\ 100 * h <= Margin
  BY <1>1
<1>3. LeastSlack \in Int /\ GoalSlack - LeastSlack \in Nat
  BY Sizes DEF LeastSlack
<1> DEFINE g == GoalSlack - LeastSlack
           q == g \div h
<1>4. q \in Nat /\ (q + 1) * h >= g
  <2> HIDE DEF h, g
  <2>1. g \in Nat /\ h \in Nat \ {0}
    BY <1>2, <1>3 DEF g
  <2>2. q \in Nat /\ g < h * q + h
    BY <2>1, Division
  <2>3. (q + 1) * h = h * q + h /\ h * q \in Int
    BY <2>1, <2>2
  <2> QED
    BY <2>1, <2>2, <2>3
<1>5. RaisingTicks = q + 1
  BY DEF RaisingTicks
<1> HIDE DEF h, q
<1>6. RaisingTicks \in Nat /\ RaisingTicks * h >= g
  BY <1>4, <1>5
<1>7. RaisingTicks * h \in Int /\ Span(RaisingTicks) \in Nat
  <2>1. RaisingTicks * h \in Int
    BY <1>2, <1>6
  <2>2. Span(0) <= Span(RaisingTicks) /\ Span(RaisingTicks) \in Int /\ Span(0) = 0
    BY <1>6, Spans
  <2> QED
    BY <2>1, <2>2
<1>8. LeastSlack + RaisingTicks * h >= GoalSlack
  BY <1>3, <1>6, <1>7, Sizes
<1>9. RaisingTime = Span(RaisingTicks) + TickInterval + MaxDelay /\ RaisingTime \in Nat
  BY <1>7, Sizes DEF RaisingTime, Span
<1>10. /\ Reach \in Nat
       /\ Reach = 10 * (GoalSlack + Margin + InitialSlack + 2 * MaxDelay + MaxAbsence
                           + 2 * TickInterval) + RaisingTime
  BY <1>1, <1>9, Sizes DEF Reach
<1> QED
  BY <1>1, <1>2, <1>3, <1>6, <1>8, <1>9, <1>10 DEF h

\* A set of numbers with a lower bound has a least one.
LEMMA LeastOf ==
    ASSUME NEW S, S \subseteq Int, S # {}, NEW b \in Int, \A x \in S : b <= x
    PROVE  Min(S) \in S /\ \A x \in S : Min(S) <= x
<1> DEFINE R == {x - b : x \in S}
<1>1. R \subseteq Nat /\ R # {}
  <2>1. \A x \in S : x - b \in Nat
    OBVIOUS
  <2> QED
    BY <2>1
<1>2. PICK r \in R : \A u \in R : r <= u
  BY <1>1, Late!LeastNatural
<1>3. PICK x \in S : r = x - b
  BY <1>2
<1>4. \A y \in S : x <= y
  <2> TAKE y \in S
  <2>1. x - b <= y - b
    BY <1>2, <1>3
  <2> QED
    BY <2>1
<1> QED
  BY <1>3, <1>4 DEF Min

-----------------------------------------------------------------------------
(* Packets: what time, and a tick of the server, make of them.             *)

Packet == PingPacket \cup PongPacket \cup GameStatePacket \cup CommitPacket

\* A packet d units of time later, and one tick of the server later.
Moved(m, d) ==
    IF m.what \in {"Ping", "Pong"} THEN [m EXCEPT !.in = @ - d, !.since = @ + d]
    ELSE [m EXCEPT !.in = @ - d]

Shifted(m) == IF m.what = "Ping" THEN m ELSE [m EXCEPT !.tick = @ - 1]

\* A packet stays one of its kind, nearer by the time that passed.
LEMMA MovedIs ==
    ASSUME NEW m \in Packet, NEW d \in Nat, d <= m.in
    PROVE  /\ Moved(m, d).what = m.what /\ Moved(m, d).in = m.in - d
           /\ m \in PingPacket =>
                Moved(m, d) \in PingPacket /\ Moved(m, d).since = m.since + d
           /\ m \in PongPacket =>
                /\ Moved(m, d) \in PongPacket
                /\ Moved(m, d).since = m.since + d /\ Moved(m, d).tick = m.tick
           /\ m \in GameStatePacket =>
                /\ Moved(m, d) \in GameStatePacket
                /\ Moved(m, d).tick = m.tick /\ Moved(m, d).interval = m.interval
           /\ m \in CommitPacket =>
                /\ Moved(m, d) \in CommitPacket
                /\ Moved(m, d).tick = m.tick /\ Moved(m, d).count = m.count
<1>0. MaxDelay \in Nat
  BY Sizes
<1>1. CASE m \in PingPacket
  <2>1. m.what = "Ping" /\ m.in \in 0 .. MaxDelay /\ m.since \in Nat
    BY <1>1 DEF PingPacket
  <2>2. Moved(m, d) = [m EXCEPT !.in = m.in - d, !.since = m.since + d]
    BY <2>1 DEF Moved
  <2>3. m.in - d \in 0 .. MaxDelay /\ m.since + d \in Nat
    BY <1>0, <2>1
  <2>4. Moved(m, d) \in PingPacket
    BY <1>1, <2>2, <2>3 DEF PingPacket
  <2>5. Moved(m, d).in = m.in - d /\ Moved(m, d).since = m.since + d
    BY <1>1, <2>2 DEF PingPacket
  <2> QED
    BY <2>1, <2>4, <2>5 DEF PingPacket, PongPacket, GameStatePacket, CommitPacket
<1>2. CASE m \in PongPacket
  <2>1. m.what = "Pong" /\ m.in \in 0 .. MaxDelay /\ m.since \in Nat
    BY <1>2 DEF PongPacket
  <2>2. Moved(m, d) = [m EXCEPT !.in = m.in - d, !.since = m.since + d]
    BY <2>1 DEF Moved
  <2>3. m.in - d \in 0 .. MaxDelay /\ m.since + d \in Nat
    BY <1>0, <2>1
  <2>4. Moved(m, d) \in PongPacket
    BY <1>2, <2>2, <2>3 DEF PongPacket
  <2>5. /\ Moved(m, d).in = m.in - d /\ Moved(m, d).since = m.since + d
        /\ Moved(m, d).tick = m.tick
    BY <1>2, <2>2 DEF PongPacket
  <2> QED
    BY <2>1, <2>4, <2>5 DEF PingPacket, PongPacket, GameStatePacket, CommitPacket
<1>3. CASE m \in GameStatePacket
  BY <1>0, <1>3 DEF Moved, PingPacket, PongPacket, GameStatePacket, CommitPacket
<1>4. CASE m \in CommitPacket
  BY <1>0, <1>4 DEF Moved, PingPacket, PongPacket, GameStatePacket, CommitPacket
<1> QED
  BY <1>1, <1>2, <1>3, <1>4 DEF Packet

\* A packet stays one of its kind, its tick one further back.
LEMMA ShiftedIs ==
    ASSUME NEW m \in Packet
    PROVE  /\ Shifted(m).what = m.what /\ Shifted(m).in = m.in
           /\ m \in PingPacket => Shifted(m) = m
           /\ m \in PongPacket =>
                /\ Shifted(m) \in PongPacket
                /\ Shifted(m).since = m.since /\ Shifted(m).tick = m.tick - 1
           /\ m \in GameStatePacket =>
                /\ Shifted(m) \in GameStatePacket
                /\ Shifted(m).tick = m.tick - 1 /\ Shifted(m).interval = m.interval
           /\ m \in CommitPacket =>
                /\ Shifted(m) \in CommitPacket
                /\ Shifted(m).tick = m.tick - 1 /\ Shifted(m).count = m.count
<1>1. CASE m \in PingPacket
  BY <1>1 DEF Shifted, PingPacket, PongPacket, GameStatePacket, CommitPacket
<1>2. CASE m \in PongPacket
  BY <1>2 DEF Shifted, PingPacket, PongPacket, GameStatePacket, CommitPacket
<1>3. CASE m \in GameStatePacket
  BY <1>3 DEF Shifted, PingPacket, PongPacket, GameStatePacket, CommitPacket
<1>4. CASE m \in CommitPacket
  BY <1>4 DEF Shifted, PingPacket, PongPacket, GameStatePacket, CommitPacket
<1> QED
  BY <1>1, <1>2, <1>3, <1>4 DEF Packet

\* Nearer moves every packet.
LEMMA NearerIs == \A packets, d : Nearer(packets, d) = {Moved(m, d) : m \in packets}
BY DEF Nearer, Moved

\* InTransit shifts every packet.
LEMMA InTransitIs ==
    ASSUME NEW packets
    PROVE  InTransit(packets) = {Shifted(m) : m \in packets}
<1>1. ASSUME NEW n \in InTransit(packets) PROVE n \in {Shifted(m) : m \in packets}
  <2>1. CASE n \in {m \in packets : m.what = "Ping"}
    BY <2>1 DEF Shifted
  <2>2. CASE n \in Earlier({m \in packets : m.what # "Ping"})
    <3>1. PICK m \in packets : m.what # "Ping" /\ n = [m EXCEPT !.tick = @ - 1]
      BY <2>2 DEF Earlier
    <3> QED
      BY <3>1 DEF Shifted
  <2> QED
    BY <1>1, <2>1, <2>2 DEF InTransit
<1>2. ASSUME NEW m \in packets PROVE Shifted(m) \in InTransit(packets)
  BY DEF Shifted, InTransit, Earlier
<1> QED
  BY <1>1, <1>2

-----------------------------------------------------------------------------
(* Time passes.                                                            *)

\* What is under way is a packet.
LEMMA PacketsUnderWay ==
    ASSUME Types
    PROVE  /\ \A m \in up \cup down : m \in Packet /\ m.in \in Nat
           /\ \A m \in up : m \in PingPacket \/ m \in CommitPacket
           /\ \A m \in down : m \in PongPacket \/ m \in GameStatePacket
BY Sizes DEF Types, Packet, PingPacket, PongPacket, GameStatePacket, CommitPacket

\* Elapse lets some time pass, and no more than any timer has left.
LEMMA ElapseIs ==
    ASSUME Types, Elapse
    PROVE  \E d \in Nat \ {0} :
             /\ d <= server.toTick
             /\ \A m \in up \cup down : d <= m.in
             /\ client.stage = "Measuring" => d <= client.pingIn
             /\ away > 0 => d <= away
             /\ away = 0 /\ Playing => d <= game.nextIn
             /\ ~FrameDue
             /\ server' = [server EXCEPT !.toTick = @ - d]
             /\ client' = IF client.stage = "Measuring" THEN [client EXCEPT !.pingIn = @ - d]
                          ELSE client
             /\ game' = IF Playing THEN [game EXCEPT !.nextIn = @ - d] ELSE game
             /\ up' = {Moved(m, d) : m \in up} /\ down' = {Moved(m, d) : m \in down}
             /\ away' = IF away > 0 THEN away - d ELSE 0
             /\ age' \in 0 .. Calm /\ (~Playing => age' = 0)
             /\ UNCHANGED <<waiting, delay, disturbed>>
<1> DEFINE d == Min(TimesLeft)
<1>1. /\ d > 0 /\ ~FrameDue
      /\ server' = [server EXCEPT !.toTick = @ - d]
      /\ client' = IF client.stage = "Measuring" THEN [client EXCEPT !.pingIn = @ - d] ELSE client
      /\ game' = IF Playing THEN [game EXCEPT !.nextIn = @ - d] ELSE game
      /\ up' = {Moved(m, d) : m \in up} /\ down' = {Moved(m, d) : m \in down}
      /\ away' = Max({0, away - d})
      /\ age' = IF client.stage = "Playing" /\ away = 0 THEN Min({Calm, age + d}) ELSE 0
      /\ UNCHANGED <<waiting, delay, disturbed>>
  BY NearerIs DEF Elapse, Playing
<1>2. /\ server.toTick \in Nat /\ game.nextIn \in Int /\ client.pingIn \in Nat /\ away \in Nat
      /\ age \in 0 .. Calm
  BY Sizes DEF Types
<1>3. \A m \in up \cup down : m.in \in Nat
  BY PacketsUnderWay
<1>4. /\ TimesLeft \subseteq Int /\ server.toTick \in TimesLeft
      /\ \A m \in up \cup down : m.in \in TimesLeft
      /\ client.stage = "Measuring" => client.pingIn \in TimesLeft
      /\ away > 0 => away \in TimesLeft
      /\ away = 0 /\ Playing => game.nextIn \in TimesLeft
  BY <1>2, <1>3 DEF TimesLeft, Playing
<1> DEFINE b == IF game.nextIn < 0 THEN game.nextIn ELSE 0
<1>5. b \in Int /\ \A x \in TimesLeft : b <= x
  BY <1>2, <1>3 DEF TimesLeft, Playing
<1>6. d \in TimesLeft /\ \A x \in TimesLeft : d <= x
  <2> HIDE DEF b
  <2> QED
    BY <1>4, <1>5, LeastOf
<1>7. d \in Nat \ {0}
  BY <1>1, <1>4, <1>6
<1> HIDE DEF d
<1>8. away' = IF away > 0 THEN away - d ELSE 0
  <2>1. away' = IF 0 >= away - d THEN 0 ELSE away - d
    BY <1>1, <1>2, <1>7, LargerOfTwo
  <2> QED
    BY <1>2, <1>4, <1>6, <1>7, <2>1
<1>9. age' \in 0 .. Calm /\ (~Playing => age' = 0)
  <2>1. Min({Calm, age + d}) = IF Calm <= age + d THEN Calm ELSE age + d
    BY <1>2, <1>7, Sizes, SmallerOfTwo
  <2> QED
    BY <1>1, <1>2, <1>7, <2>1, Sizes DEF Playing
<1> QED
  BY <1>1, <1>4, <1>6, <1>7, <1>8, <1>9

\* What the potential is made of.
MeasuresAre ==
    /\ server.toTick \in 0 .. TickInterval /\ game.last \in Int /\ game.nextIn \in Int
    /\ Span(game.last) \in Int
    /\ Lead \in Int /\ Headway \in Int
    /\ Lead = server.toTick + Span(game.last) - game.nextIn
    /\ Headway = 9 * server.toTick + 9 * Span(game.last) - 10 * game.nextIn
    /\ \A t \in Int : /\ Age(t) \in Int /\ Age(t) = TickInterval - server.toTick - Span(t)
                      /\ SlackOf(t) \in Int
                      /\ SlackOf(t) = server.toTick + Span(t) - TickInterval

\* They are so in every state of the types.
LEMMA Measures == Types => MeasuresAre
<1> SUFFICES ASSUME Types PROVE MeasuresAre
  OBVIOUS
<1>1. server.toTick \in 0 .. TickInterval /\ game.last \in Int /\ game.nextIn \in Int
  BY DEF Types
<1>2. server.toTick \in Int /\ \A t \in Int : Span(t) \in Int
  <2>1. server.toTick \in Int
    BY <1>1
  <2> QED
    BY <2>1, Spans
<1>3. \A t \in Int : /\ SlackOf(t) \in Int
                     /\ SlackOf(t) = server.toTick + Span(t) - TickInterval
  BY <1>2, SlackIs
<1>4. \A t \in Int : Age(t) \in Int /\ Age(t) = TickInterval - server.toTick - Span(t)
  BY <1>2, Sizes DEF Age
<1>5. Span(game.last) \in Int
  BY <1>1, <1>2
<1>6. Lead = server.toTick + Span(game.last) - game.nextIn /\ Lead \in Int
  BY <1>1, <1>2, <1>5 DEF Lead
<1>7. Headway = 9 * Lead - game.nextIn /\ Headway \in Int
  BY <1>1, <1>6 DEF Headway
<1>8. Headway = 9 * server.toTick + 9 * Span(game.last) - 10 * game.nextIn
  BY <1>1, <1>2, <1>5, <1>6, <1>7
<1> QED
  BY <1>1, <1>3, <1>4, <1>5, <1>6, <1>7, <1>8 DEF MeasuresAre

\* A packet d units of time and k ticks of the server later.
Later(m, n, d, k) ==
    /\ n.what = m.what /\ n.in = m.in - d
    /\ m.what \in {"Ping", "Pong"} => n.since = m.since + d
    /\ m.what # "Ping" => n.tick = m.tick - k
    /\ m.what = "GameState" => n.interval = m.interval
    /\ m.what = "Commit" => n.count = m.count

\* A packet is of the kind it says.
LEMMA KindsOf ==
    ASSUME Types
    PROVE  /\ \A m \in up : \/ m \in PingPacket /\ m.what = "Ping"
                            \/ m \in CommitPacket /\ m.what = "Commit"
           /\ \A m \in down : \/ m \in PongPacket /\ m.what = "Pong"
                              \/ m \in GameStatePacket /\ m.what = "GameState"
BY DEF Types, PingPacket, PongPacket, GameStatePacket, CommitPacket

\* As time passes the packets under way are the same ones.
LEMMA MovedPackets ==
    ASSUME Types, NEW d \in Nat, \A m \in up \cup down : d <= m.in,
           up' = {Moved(m, d) : m \in up}, down' = {Moved(m, d) : m \in down}
    PROVE  /\ up' \subseteq PingPacket \cup CommitPacket
           /\ down' \subseteq PongPacket \cup GameStatePacket
           /\ \A n \in up' : \E m \in up : Later(m, n, d, 0)
           /\ \A n \in down' : \E m \in down : Later(m, n, d, 0)
           /\ \A m \in up : \E n \in up' : Later(m, n, d, 0)
           /\ \A m \in down : \E n \in down' : Later(m, n, d, 0)
<1>1. ASSUME NEW m \in up
      PROVE  Later(m, Moved(m, d), d, 0) /\ Moved(m, d) \in PingPacket \cup CommitPacket
  <2>0. m \in Packet /\ d <= m.in
    BY PacketsUnderWay
  <2>1. CASE m \in PingPacket /\ m.what = "Ping"
    BY <2>0, <2>1, MovedIs DEF Later
  <2>2. CASE m \in CommitPacket /\ m.what = "Commit"
    <3>1. m.tick \in Int
      BY <2>2 DEF CommitPacket
    <3> QED
      BY <2>0, <2>2, <3>1, MovedIs DEF Later
  <2> QED
    BY <2>1, <2>2, KindsOf
<1>2. ASSUME NEW m \in down
      PROVE  Later(m, Moved(m, d), d, 0) /\ Moved(m, d) \in PongPacket \cup GameStatePacket
  <2>0. m \in Packet /\ d <= m.in
    BY PacketsUnderWay
  <2>1. CASE m \in PongPacket /\ m.what = "Pong"
    <3>1. m.tick \in Int
      BY <2>1 DEF PongPacket
    <3> QED
      BY <2>0, <2>1, <3>1, MovedIs DEF Later
  <2>2. CASE m \in GameStatePacket /\ m.what = "GameState"
    <3>1. m.tick \in Int
      BY <2>2 DEF GameStatePacket
    <3> QED
      BY <2>0, <2>2, <3>1, MovedIs DEF Later
  <2> QED
    BY <2>1, <2>2, KindsOf
<1> QED
  BY <1>1, <1>2

\* And when the server ticks.
LEMMA ShiftedPackets ==
    ASSUME Types
    PROVE  /\ InTransit(up) \subseteq PingPacket \cup CommitPacket
           /\ InTransit(down) \subseteq PongPacket \cup GameStatePacket
           /\ \A n \in InTransit(up) : \E m \in up : Later(m, n, 0, 1)
           /\ \A n \in InTransit(down) : \E m \in down : Later(m, n, 0, 1)
           /\ \A m \in up : \E n \in InTransit(up) : Later(m, n, 0, 1)
           /\ \A m \in down : \E n \in InTransit(down) : Later(m, n, 0, 1)
<1>1. ASSUME NEW m \in up
      PROVE  Later(m, Shifted(m), 0, 1) /\ Shifted(m) \in PingPacket \cup CommitPacket
  <2>0. m \in Packet /\ m.in \in Nat
    BY PacketsUnderWay
  <2>1. CASE m \in PingPacket /\ m.what = "Ping"
    <3>1. m.since \in Nat
      BY <2>1 DEF PingPacket
    <3> QED
      BY <2>0, <2>1, <3>1, ShiftedIs DEF Later
  <2>2. CASE m \in CommitPacket /\ m.what = "Commit"
    BY <2>0, <2>2, ShiftedIs DEF Later
  <2> QED
    BY <2>1, <2>2, KindsOf
<1>2. ASSUME NEW m \in down
      PROVE  Later(m, Shifted(m), 0, 1) /\ Shifted(m) \in PongPacket \cup GameStatePacket
  <2>0. m \in Packet /\ m.in \in Nat
    BY PacketsUnderWay
  <2>1. CASE m \in PongPacket /\ m.what = "Pong"
    <3>1. m.since \in Nat
      BY <2>1 DEF PongPacket
    <3> QED
      BY <2>0, <2>1, <3>1, ShiftedIs DEF Later
  <2>2. CASE m \in GameStatePacket /\ m.what = "GameState"
    BY <2>0, <2>2, ShiftedIs DEF Later
  <2> QED
    BY <2>1, <2>2, KindsOf
<1> QED
  BY <1>1, <1>2, InTransitIs

\* Time passes: a clock that runs fast gains on the potential what the time
\* left for it loses.
LEMMA ElapseKeeps == SyncInv /\ Elapse => SyncInv'
<1> SUFFICES ASSUME SyncInv, Elapse PROVE SyncInv'
  OBVIOUS
<1>1. Types /\ MeasuresAre
  BY Measures DEF SyncInv
<1>2. PICK d \in Nat \ {0} :
             /\ d <= server.toTick
             /\ \A m \in up \cup down : d <= m.in
             /\ client.stage = "Measuring" => d <= client.pingIn
             /\ away > 0 => d <= away
             /\ away = 0 /\ Playing => d <= game.nextIn
             /\ ~FrameDue
             /\ server' = [server EXCEPT !.toTick = @ - d]
             /\ client' = IF client.stage = "Measuring" THEN [client EXCEPT !.pingIn = @ - d]
                          ELSE client
             /\ game' = IF Playing THEN [game EXCEPT !.nextIn = @ - d] ELSE game
             /\ up' = {Moved(m, d) : m \in up} /\ down' = {Moved(m, d) : m \in down}
             /\ away' = IF away > 0 THEN away - d ELSE 0
             /\ age' \in 0 .. Calm /\ (~Playing => age' = 0)
             /\ UNCHANGED <<waiting, delay, disturbed>>
  BY <1>1, ElapseIs
<1>3. /\ up' \subseteq PingPacket \cup CommitPacket
      /\ down' \subseteq PongPacket \cup GameStatePacket
      /\ \A n \in up' : \E m \in up : Later(m, n, d, 0)
      /\ \A n \in down' : \E m \in down : Later(m, n, d, 0)
      /\ \A m \in up : \E n \in up' : Later(m, n, d, 0)
      /\ \A m \in down : \E n \in down' : Later(m, n, d, 0)
  BY <1>1, <1>2, MovedPackets
<1>4. /\ server'.toTick = server.toTick - d /\ server'.estimate = server.estimate
      /\ server'.kept = server.kept
      /\ client'.stage = client.stage /\ client'.samples = client.samples
      /\ client'.total = client.total /\ client'.tick = client.tick
      /\ client'.pingIn = IF client.stage = "Measuring" THEN client.pingIn - d ELSE client.pingIn
      /\ game'.last = game.last /\ game'.latest = game.latest /\ game'.interval = game.interval
      /\ game'.nextIn = IF Playing THEN game.nextIn - d ELSE game.nextIn
      /\ (Playing <=> Playing')
  BY <1>1, <1>2 DEF Types, Playing
<1>5. Types'
  <2>1. server' \in [toTick : 0 .. TickInterval, estimate : Int,
                     kept : SUBSET [tick : Nat \ {0}, slack : Int]]
    BY <1>1, <1>2, Sizes DEF Types
  <2>2. client' \in [stage : {"Measuring", "Starting", "Playing"}, pingIn : 0 .. PingInterval,
                     samples : Nat, total : Nat, tick : Int]
    BY <1>1, <1>2, Sizes DEF Types
  <2>3. game' \in [last : Int, latest : SUBSET Int, nextIn : Int, interval : Fastest .. Slowest]
    BY <1>1, <1>2, Sizes DEF Types
  <2>4. away' \in 0 .. MaxAbsence
    BY <1>1, <1>2, Sizes DEF Types
  <2> QED
    BY <1>1, <1>2, <1>3, <2>1, <2>2, <2>3, <2>4 DEF Types
<1>6. MeasuresAre'
  BY <1>5, Measures, PTL
<1>7. /\ Playing => Lead' = Lead /\ Headway' = Headway + d
      /\ \A t \in Int : Age(t)' = Age(t) + d /\ SlackOf(t)' = SlackOf(t) - d
  <2>1. Playing => Lead' = Lead /\ Headway' = Headway + d
    BY <1>1, <1>4, <1>6 DEF MeasuresAre
  <2>2. ASSUME NEW t \in Int PROVE Age(t)' = Age(t) + d /\ SlackOf(t)' = SlackOf(t) - d
    <3>1. Span(t) \in Int /\ server.toTick \in Int /\ TickInterval \in Int
      <4>1. server.toTick \in Int /\ TickInterval \in Int
        BY <1>1, Sizes DEF MeasuresAre
      <4> QED
        BY <4>1, Spans
    <3>2. /\ Age(t) = TickInterval - server.toTick - Span(t)
          /\ SlackOf(t) = server.toTick + Span(t) - TickInterval
      BY <1>1 DEF MeasuresAre
    <3>3. /\ Age(t)' = TickInterval - server'.toTick - Span(t)
          /\ SlackOf(t)' = server'.toTick + Span(t) - TickInterval
      BY <1>6 DEF MeasuresAre
    <3> QED
      BY <1>4, <3>1, <3>2, <3>3
  <2> QED
    BY <2>1, <2>2
<1>8. /\ \A n \in Commits' : \E m \in Commits :
            n.tick = m.tick /\ n.count = m.count /\ n.in = m.in - d
      /\ \A n \in Snapshots' : \E m \in Snapshots :
            n.tick = m.tick /\ n.interval = m.interval /\ n.in = m.in - d
      /\ \A m \in Commits : m \in CommitPacket
      /\ \A m \in Snapshots : m \in GameStatePacket
  <2>1. \A n \in Commits' : \E m \in Commits :
            n.tick = m.tick /\ n.count = m.count /\ n.in = m.in - d
    <3> TAKE n \in Commits'
    <3>1. n \in up' /\ n.what = "Commit"
      BY DEF Commits
    <3>2. PICK m \in up : Later(m, n, d, 0)
      BY <1>3, <3>1
    <3>3. m.what = "Commit" /\ m \in CommitPacket
      BY <1>1, <3>1, <3>2, KindsOf DEF Later
    <3> QED
      BY <3>2, <3>3 DEF Later, Commits, CommitPacket
  <2>2. \A n \in Snapshots' : \E m \in Snapshots :
            n.tick = m.tick /\ n.interval = m.interval /\ n.in = m.in - d
    <3> TAKE n \in Snapshots'
    <3>1. n \in down' /\ n.what = "GameState"
      BY DEF Snapshots
    <3>2. PICK m \in down : Later(m, n, d, 0)
      BY <1>3, <3>1
    <3>3. m.what = "GameState" /\ m \in GameStatePacket
      BY <1>1, <3>1, <3>2, KindsOf DEF Later
    <3> QED
      BY <3>2, <3>3 DEF Later, Snapshots, GameStatePacket
  <2>3. (\A m \in Commits : m \in CommitPacket) /\ \A m \in Snapshots : m \in GameStatePacket
    BY <1>1, KindsOf DEF Commits, Snapshots
  <2> QED
    BY <2>1, <2>2, <2>3
<1>9. /\ \A m \in Commits : \E n \in Commits' : n.tick = m.tick /\ n.count = m.count
      /\ \A m \in Snapshots : \E n \in Snapshots' : n.tick = m.tick
  <2>1. ASSUME NEW m \in Commits PROVE \E n \in Commits' : n.tick = m.tick /\ n.count = m.count
    <3>1. PICK n \in up' : Later(m, n, d, 0)
      BY <1>3 DEF Commits
    <3> QED
      BY <1>8, <3>1 DEF Later, Commits, CommitPacket
  <2>2. ASSUME NEW m \in Snapshots PROVE \E n \in Snapshots' : n.tick = m.tick
    <3>1. PICK n \in down' : Later(m, n, d, 0)
      BY <1>3 DEF Snapshots
    <3> QED
      BY <1>8, <3>1 DEF Later, Snapshots, GameStatePacket
  <2> QED
    BY <2>1, <2>2
<1>10. Stages'
  <2>1. Stages
    BY DEF SyncInv
  <2>2. ~Playing' => Commits' = {}
    BY <1>4, <1>8, <2>1 DEF Stages
  <2> QED
    BY <1>1, <1>2, <1>4, <2>1, <2>2 DEF Stages
<1>11. GameTimes'
  <2>1. GameTimes /\ Stages /\ Slowest \in Nat /\ MaxAbsence \in Nat /\ away \in Nat
    BY <1>1, Sizes, Intervals DEF SyncInv, Types
  <2>2. ASSUME Playing
        PROVE  /\ away' - MaxAbsence <= game'.nextIn /\ game'.nextIn <= Slowest
               /\ disturbed' = "No" => game'.nextIn >= 0
    BY <1>1, <1>2, <1>4, <2>1, <2>2 DEF Stages, GameTimes, MeasuresAre
  <2> QED
    BY <1>4, <2>2 DEF GameTimes
<1>12. Measured'
  <2>1. Measured /\ Stages
    BY DEF SyncInv
  <2>2. \A n \in up' : n.what = "Ping" => n.since + n.in <= MaxDelay
    <3> SUFFICES ASSUME NEW n \in up', n.what = "Ping" PROVE n.since + n.in <= MaxDelay
      OBVIOUS
    <3>1. PICK m \in up : Later(m, n, d, 0)
      BY <1>3
    <3>2. m.what = "Ping" /\ m \in PingPacket /\ m.since + m.in <= MaxDelay
      BY <1>1, <2>1, <3>1, KindsOf DEF Later, Measured
    <3>3. m.since \in Nat /\ m.in \in Nat /\ n.since = m.since + d /\ n.in = m.in - d
      BY <3>1, <3>2, Sizes DEF Later, PingPacket
    <3> QED
      BY <3>2, <3>3
  <2>3. ASSUME NEW n \in down', n.what = "Pong"
        PROVE  /\ n.since + n.in <= 2 * MaxDelay /\ n.tick <= 0
               /\ n.in <= MaxDelay + server'.toTick + Span(n.tick)
    <3>1. PICK m \in down : Later(m, n, d, 0)
      BY <1>3
    <3>2. /\ m.what = "Pong" /\ m \in PongPacket
          /\ m.since + m.in <= 2 * MaxDelay /\ m.tick <= 0
          /\ m.in <= MaxDelay + server.toTick + Span(m.tick)
      BY <1>1, <2>1, <2>3, <3>1, KindsOf DEF Later, Measured
    <3>3. /\ m.since \in Nat /\ m.in \in Nat /\ m.tick \in Int
          /\ n.since = m.since + d /\ n.in = m.in - d /\ n.tick = m.tick
      BY <3>1, <3>2, Sizes DEF Later, PongPacket
    <3>4. Span(m.tick) \in Int
      BY <3>3, Spans
    <3>5. server.toTick \in Int /\ MaxDelay \in Nat
      BY <1>1, Sizes DEF MeasuresAre
    <3> QED
      BY <1>4, <3>2, <3>3, <3>4, <3>5
  <2>4. client'.total <= 2 * MaxDelay * client'.samples
    BY <1>4, <2>1 DEF Measured
  <2>5. /\ client.tick \in Int /\ client.pingIn \in Int /\ server.toTick \in Int
        /\ MaxDelay \in Nat /\ PingInterval \in Nat /\ MaxAbsence \in Nat /\ away \in Nat
    BY <1>1, Sizes DEF Types
  <2>6. Span(client.tick) \in Int
    BY <2>5, Spans
  <2>7. client'.stage = "Measuring" =>
          /\ client'.tick <= 0
          /\ client'.samples >= PingSamples =>
                Span(client'.tick) + server'.toTick + MaxDelay + PingInterval - client'.pingIn >= 0
    BY <1>4, <2>1, <2>5, <2>6 DEF Measured
  <2>8. client.stage = "Starting" => away > 0
    <3> SUFFICES ASSUME client.stage = "Starting", away = 0 PROVE FALSE
      BY <2>5
    <3>1. ~Arrived(down)
      BY <1>2 DEF Arrived
    <3> QED
      BY <1>2, <3>1 DEF FrameDue
  <2>9. client'.stage = "Starting" =>
          /\ Span(client'.tick) <= 2 * MaxDelay + InitialSlack + TickInterval
          /\ Span(client'.tick) + server'.toTick + MaxDelay + PingInterval
                + (IF disturbed' = "No" THEN 0 ELSE MaxAbsence - away') >= 0
    <3>1. client.stage = "Starting" => disturbed # "No" /\ away' = away - d
      BY <1>2, <2>1, <2>5, <2>8 DEF Stages
    <3> QED
      BY <1>2, <1>4, <2>1, <2>5, <2>6, <3>1 DEF Measured
  <2> QED
    BY <2>2, <2>3, <2>4, <2>7, <2>9 DEF Measured
<1>13. SnapshotTimes'
  <2>1. SnapshotTimes
    BY DEF SyncInv
  <2>2. ASSUME NEW n \in Snapshots'
        PROVE  /\ n.tick <= 0
               /\ n.in + Age(n.tick)' <= MaxDelay
               /\ disturbed' = "No" => n.in + Age(n.tick)' = delay'.down
    <3>1. PICK m \in Snapshots : n.tick = m.tick /\ n.in = m.in - d
      BY <1>8
    <3>2. /\ m.tick <= 0
          /\ m.in + Age(m.tick) <= MaxDelay
          /\ disturbed = "No" => m.in + Age(m.tick) = delay.down
      BY <2>1 DEF SnapshotTimes
    <3>3. m.tick \in Int /\ m.in \in Int /\ MaxDelay \in Nat
      BY <1>8, Sizes DEF GameStatePacket
    <3>4. Age(n.tick)' = Age(m.tick) + d /\ Age(m.tick) \in Int
      BY <1>1, <1>7, <3>1, <3>3 DEF MeasuresAre
    <3> QED
      BY <1>2, <3>1, <3>2, <3>3, <3>4
  <2> QED
    BY <1>2, <1>4, <2>1, <2>2 DEF SnapshotTimes
<1>14. \A s : (UnderWay(s) => UnderWay(s)') /\ (Taken(s) <=> Taken(s)')
  BY <1>2, <1>4, <1>9 DEF UnderWay, Taken
<1>15. Chain'
  <2>1. Chain
    BY DEF SyncInv
  <2> SUFFICES ASSUME NEW t \in game'.latest \cup {w.tick : w \in waiting'}
                                  \cup {m.tick : m \in Snapshots'},
                      NEW s \in t .. 0
               PROVE  UnderWay(s)' \/ Taken(s)'
    BY DEF Chain
  <2>2. t \in game.latest \cup {w.tick : w \in waiting} \cup {m.tick : m \in Snapshots}
    BY <1>2, <1>4, <1>8
  <2> QED
    BY <1>14, <2>1, <2>2 DEF Chain
<1>16. Floor'
  BY <1>4, <1>14 DEF SyncInv, Floor
<1>17. CommitsKnown'
  <2>1. CommitsKnown
    BY DEF SyncInv
  <2>2. ASSUME Playing', NEW t \in 1 .. game'.last
        PROVE  \/ \E c \in server'.kept : c.tick = t
               \/ \E m \in Commits' : t \in m.tick .. m.tick + m.count - 1
               \/ Headway' + SlackOf(t)' + RaisingTime <= Reach
    <3>1. t \in 1 .. game.last /\ t \in Int /\ Playing
      BY <1>1, <1>4, <2>2 DEF MeasuresAre
    <3>2. CASE \E c \in server.kept : c.tick = t
      BY <1>4, <3>2
    <3>3. CASE \E m \in Commits : t \in TicksOf(m)
      BY <1>9, <3>3 DEF TicksOf
    <3>4. CASE Headway + SlackOf(t) + RaisingTime <= Reach
      BY <1>1, <1>7, <3>1, <3>4, Bounds DEF MeasuresAre
    <3> QED
      BY <2>1, <3>1, <3>2, <3>3, <3>4 DEF CommitsKnown
  <2>3. ASSUME NEW n \in Commits' PROVE n.tick + n.count - 1 <= game'.last
    BY <1>4, <1>8, <2>1 DEF CommitsKnown
  <2> QED
    BY <1>4, <2>1, <2>2, <2>3 DEF CommitsKnown, TicksOf
<1>18. ASSUME NEW n \in Commits', NEW t \in TicksOf(n)
       PROVE  \E m \in Commits : /\ t \in TicksOf(m) /\ t \in Int /\ n.in = m.in - d /\ m.in \in Int
                                 /\ SlackOf(t)' - n.in = SlackOf(t) - m.in
                                 /\ SlackOf(t)' = SlackOf(t) - d
  <2>1. PICK m \in Commits : n.tick = m.tick /\ n.count = m.count /\ n.in = m.in - d
    BY <1>8
  <2>2. m.tick \in Int /\ m.count \in Int /\ m.in \in Int
    BY <1>8, Sizes DEF CommitPacket
  <2>3. t \in TicksOf(m) /\ t \in Int
    BY <1>18, <2>1, <2>2 DEF TicksOf
  <2> QED
    BY <1>1, <1>7, <2>1, <2>2, <2>3 DEF MeasuresAre
<1>19. Slacks'
  BY <1>4, <1>18 DEF SyncInv, Slacks, InRange
<1>20. LeadBounded'
  BY <1>4, <1>7 DEF SyncInv, LeadBounded
<1>21. LateCommits'
  <2>1. LateCommits /\ Stages
    BY DEF SyncInv
  <2>2. ASSUME NEW c \in server'.kept, ~Early(c.slack)
        PROVE  Headway' + SlackOf(c.tick)' + RaisingTime <= Reach
    <3>1. c \in server.kept /\ c.tick \in Int
      BY <1>1, <1>4 DEF Types
    <3>2. Headway + SlackOf(c.tick) + RaisingTime <= Reach /\ Playing
      BY <2>1, <2>2, <3>1 DEF LateCommits, Stages
    <3> QED
      BY <1>1, <1>7, <3>1, <3>2, Bounds DEF MeasuresAre
  <2>3. ASSUME NEW n \in Commits', NEW t \in TicksOf(n), ~Early(SlackOf(t)' - n.in)
        PROVE  Headway' + SlackOf(t)' + RaisingTime <= Reach /\ Headway' + n.in + RaisingTime <= Reach
    <3>1. PICK m \in Commits :
             /\ t \in TicksOf(m) /\ t \in Int /\ n.in = m.in - d /\ m.in \in Int
             /\ SlackOf(t)' - n.in = SlackOf(t) - m.in /\ SlackOf(t)' = SlackOf(t) - d
      BY <1>18
    <3>2. /\ Headway + SlackOf(t) + RaisingTime <= Reach
          /\ Headway + m.in + RaisingTime <= Reach /\ Playing
      BY <2>1, <2>3, <3>1 DEF LateCommits, Stages
    <3> QED
      BY <1>1, <1>7, <3>1, <3>2, Bounds DEF MeasuresAre
  <2> QED
    BY <2>2, <2>3 DEF LateCommits, Early, TicksOf
<1>22. ASSUME Playing, NEW t \in Int, Superseded(t) PROVE Superseded(t)'
  BY <1>1, <1>7, <1>22, Sizes, Bounds DEF Superseded, MeasuresAre
<1>23. FastSnapshots'
  <2>1. FastSnapshots /\ \A m \in Snapshots : m.tick \in Int
    BY <1>8 DEF SyncInv, GameStatePacket
  <2>2. /\ \A w \in waiting : w.tick \in Int
        /\ \A t \in game.latest : t \in Int
    BY <1>1 DEF Types
  <2> SUFFICES ASSUME Playing
               PROVE  /\ \A m \in Snapshots' : m.interval < TickInterval => Superseded(m.tick)'
                      /\ \A w \in waiting' : w.interval < TickInterval => Superseded(w.tick)'
                      /\ \A t \in game'.latest :
                            game'.interval < TickInterval => Superseded(t)'
    BY <1>4 DEF FastSnapshots
  <2> QED
    BY <1>2, <1>4, <1>8, <1>22, <2>1, <2>2 DEF FastSnapshots
<1>24. Rising'
  <2>1. Rising
    BY DEF SyncInv
  <2> SUFFICES ASSUME Playing', server'.estimate < GoalSlack
               PROVE  \E n \in 0 .. RaisingTicks :
                         /\ server'.estimate + n * (Margin \div 100) >= GoalSlack
                         /\ Headway' + Span(n) + server'.toTick + MaxDelay <= Reach
    BY DEF Rising
  <2>2. PICK n \in 0 .. RaisingTicks :
               /\ server.estimate + n * (Margin \div 100) >= GoalSlack
               /\ Headway + Span(n) + server.toTick + MaxDelay <= Reach
    BY <1>4, <2>1 DEF Rising
  <2>3. n \in Int /\ server.toTick \in Int /\ MaxDelay \in Int /\ Reach \in Int /\ Headway \in Int
    BY <1>1, Sizes, Bounds DEF MeasuresAre
  <2>4. Span(n) \in Int
    BY <2>3, Spans
  <2>5. Headway' + Span(n) + server'.toTick + MaxDelay <= Reach
    BY <1>4, <1>7, <2>2, <2>3, <2>4
  <2> QED
    BY <1>4, <2>2, <2>5
<1> QED
  BY <1>5, <1>10, <1>11, <1>12, <1>13, <1>15, <1>16, <1>17, <1>19, <1>20, <1>21, <1>23, <1>24
     DEF SyncInv
-----------------------------------------------------------------------------
(* The first state, the disturbances, and the pings.                       *)

\* Nothing is under way, and no client plays.
LEMMA SyncInit == Init => SyncInv
<1> SUFFICES ASSUME Init PROVE SyncInv
  OBVIOUS
<1>1. /\ server.toTick \in 0 .. TickInterval /\ server.estimate = 0 /\ server.kept = {}
      /\ server = [toTick |-> server.toTick, estimate |-> 0, kept |-> {}]
      /\ client = NotMeasuring /\ game = NotPlaying
      /\ waiting = {} /\ up = {} /\ down = {} /\ away = 0 /\ age = 0 /\ disturbed = "No"
      /\ delay \in [up : 0 .. MaxDelay, down : 0 .. MaxDelay]
  <2>1. Phases \subseteq 0 .. TickInterval /\ Delays \subseteq 0 .. MaxDelay
    BY Sizes
  <2>2. PICK phase \in Phases : server = [toTick |-> phase, estimate |-> 0, kept |-> {}]
    BY DEF Init
  <2>3. delay \in [up : 0 .. MaxDelay, down : 0 .. MaxDelay]
    BY <2>1 DEF Init
  <2> QED
    BY <2>1, <2>2, <2>3 DEF Init
<1>2. ~Playing /\ Commits = {} /\ Snapshots = {}
  BY <1>1 DEF NotMeasuring, Playing, Commits, Snapshots
<1>3. Types
  <2>1. TickInterval \in Fastest .. Slowest
    BY Intervals, Sizes
  <2>2. client \in [stage : {"Measuring", "Starting", "Playing"}, pingIn : 0 .. PingInterval,
                    samples : Nat, total : Nat, tick : Int]
    BY <1>1, Sizes DEF NotMeasuring
  <2>3. game \in [last : Int, latest : SUBSET Int, nextIn : Int, interval : Fastest .. Slowest]
    BY <1>1, <2>1 DEF NotPlaying
  <2>4. away \in 0 .. MaxAbsence /\ age \in 0 .. Calm
    BY <1>1, Sizes
  <2> QED
    BY <1>1, <2>2, <2>3, <2>4 DEF Types
<1>4. Stages /\ GameTimes
  BY <1>1, <1>2 DEF Stages, GameTimes, NotPlaying
<1>5. Measured
  <2>1. MaxDelay \in Nat /\ PingSamples \in Nat \ {0}
    BY Sizes
  <2>2. client.total = 0 /\ client.samples = 0 /\ client.tick = 0 /\ client.stage = "Measuring"
    BY <1>1 DEF NotMeasuring
  <2> QED
    BY <1>1, <2>1, <2>2 DEF Measured
<1>6. SnapshotTimes /\ Chain /\ Floor /\ CommitsKnown
  BY <1>1, <1>2 DEF SnapshotTimes, Chain, Floor, CommitsKnown, NotPlaying
<1>7. Slacks
  <2>1. LeastSlack <= 0
    BY Sizes DEF LeastSlack
  <2>2. 9 * 0 <= Reach + 2 * TickInterval
    BY Sizes, Bounds
  <2> QED
    BY <1>1, <1>2, <2>1, <2>2 DEF Slacks, InRange
<1>8. LeadBounded /\ LateCommits /\ FastSnapshots /\ Rising
  BY <1>1, <1>2 DEF LeadBounded, LateCommits, FastSnapshots, Rising
<1> QED
  BY <1>3, <1>4, <1>5, <1>6, <1>7, <1>8 DEF SyncInv

\* The parts of the invariant that only say how the game and its commits stand.
LEMMA GameUnmoved ==
    ASSUME SyncInv, UNCHANGED <<server, game>>, Commits' = Commits, Playing' <=> Playing
    PROVE  /\ CommitsKnown' /\ Slacks' /\ LeadBounded' /\ LateCommits' /\ Rising'
           /\ \A t : Superseded(t)' <=> Superseded(t)
<1>1. CommitsKnown /\ Slacks /\ LeadBounded /\ LateCommits /\ Rising
  BY DEF SyncInv
<1>2. /\ Headway' = Headway /\ Lead' = Lead
      /\ \A t : SlackOf(t)' = SlackOf(t) /\ Age(t)' = Age(t)
      /\ \A t : Superseded(t)' <=> Superseded(t)
  BY DEF Headway, Lead, SlackOf, Age, Superseded
<1>3. CommitsKnown' /\ Slacks'
  BY <1>1, <1>2 DEF CommitsKnown, Slacks, TicksOf, InRange
<1>4. LeadBounded' /\ LateCommits'
  BY <1>1, <1>2 DEF LeadBounded, LateCommits, TicksOf, Early
<1>5. Rising'
  BY <1>1, <1>2 DEF Rising
<1> QED
  BY <1>2, <1>3, <1>4, <1>5

\* And those that also say which snapshots it has, or will have.
LEMMA Unmoved ==
    ASSUME SyncInv, UNCHANGED <<server, game, waiting>>,
           Commits' = Commits, Snapshots' = Snapshots, Playing' <=> Playing
    PROVE  Chain' /\ Floor' /\ CommitsKnown' /\ Slacks' /\ LeadBounded' /\ LateCommits'
              /\ FastSnapshots' /\ Rising'
<1>1. Chain /\ Floor /\ FastSnapshots
  BY DEF SyncInv
<1>2. /\ CommitsKnown' /\ Slacks' /\ LeadBounded' /\ LateCommits' /\ Rising'
      /\ \A t : Superseded(t)' <=> Superseded(t)
  BY GameUnmoved
<1>3. \A s : (UnderWay(s)' <=> UnderWay(s)) /\ (Taken(s)' <=> Taken(s))
  BY DEF UnderWay, Taken
<1>4. Chain' /\ Floor'
  BY <1>1, <1>3 DEF Chain, Floor
<1>5. FastSnapshots'
  BY <1>1, <1>2 DEF FastSnapshots
<1> QED
  BY <1>2, <1>4, <1>5

\* A disturbance strikes a session that plays, or one that is about to start.
LEMMA RerouteKeeps == SyncInv /\ Reroute => SyncInv'
<1> SUFFICES ASSUME SyncInv, Reroute PROVE SyncInv'
  OBVIOUS
<1>1. Types /\ Stages /\ GameTimes /\ Measured /\ SnapshotTimes
  BY DEF SyncInv
<1>2. /\ UNCHANGED <<server, client, game, waiting, up, down, away>>
      /\ delay' \in [up : Delays, down : Delays] /\ age' = 0
      /\ disturbed' = "Rerouted" /\ Playing
  BY <1>1, Sizes DEF Reroute, MayDisturb, Stages
<1>3. Types'
  <2>1. Delays \subseteq 0 .. MaxDelay /\ 0 \in 0 .. Calm
    BY Sizes
  <2>2. delay' \in [up : 0 .. MaxDelay, down : 0 .. MaxDelay] /\ age' \in 0 .. Calm
    BY <1>2, <2>1
  <2> QED
    BY <1>1, <1>2, <2>2 DEF Types
<1>4. Stages' /\ GameTimes' /\ Measured'
  BY <1>1, <1>2 DEF Stages, GameTimes, Measured, Playing
<1>5. SnapshotTimes'
  BY <1>1, <1>2 DEF SnapshotTimes, Snapshots, Age
<1>6. Commits' = Commits /\ Snapshots' = Snapshots /\ (Playing' <=> Playing)
  BY <1>2 DEF Commits, Snapshots, Playing
<1> QED
  BY <1>2, <1>3, <1>4, <1>5, <1>6, Unmoved DEF SyncInv

\* The absence is the time by which frames will be late.
LEMMA TakeOffKeeps == SyncInv /\ TakeOff => SyncInv'
<1> SUFFICES ASSUME SyncInv, TakeOff PROVE SyncInv'
  OBVIOUS
<1>1. Types /\ Stages /\ GameTimes /\ Measured /\ SnapshotTimes
  BY DEF SyncInv
<1>2. /\ UNCHANGED <<server, client, game, waiting, up, down, delay>>
      /\ away' \in 1 .. MaxAbsence /\ age' = 0
      /\ disturbed = "No" /\ disturbed' \in {"Absent", "Late"}
      /\ Playing \/ client.stage = "Starting"
  BY <1>1, Sizes DEF TakeOff, MayDisturb, Stages
<1>3. Types'
  <2>1. MaxAbsence \in Nat /\ 0 \in 0 .. Calm
    BY Sizes
  <2>2. away' \in 0 .. MaxAbsence /\ age' \in 0 .. Calm
    BY <1>2, <2>1
  <2> QED
    BY <1>1, <1>2, <2>2 DEF Types
<1>4. Stages'
  BY <1>1, <1>2 DEF Stages, Playing, Commits
<1>5. GameTimes'
  <2>1. game.nextIn \in Int /\ away' \in Int /\ MaxAbsence \in Int /\ away' <= MaxAbsence
    <3>1. MaxAbsence \in Nat
      BY Sizes
    <3>2. game.nextIn \in Int
      BY <1>1 DEF Types
    <3>3. away' \in 1 .. MaxAbsence
      BY <1>2
    <3> QED
      BY <3>1, <3>2, <3>3
  <2> QED
    BY <1>1, <1>2, <2>1 DEF GameTimes, Playing
<1>6. Measured'
  <2>1. client.stage = "Starting" =>
          Span(client.tick) + server.toTick + MaxDelay + PingInterval + (MaxAbsence - away') >= 0
    <3>1. client.tick \in Int /\ server.toTick \in Int
      BY <1>1 DEF Types
    <3>2. MaxDelay \in Nat /\ PingInterval \in Nat /\ MaxAbsence \in Nat
      BY Sizes
    <3>3. Span(client.tick) \in Int
      BY <3>1, Spans
    <3> QED
      BY <1>1, <1>2, <3>1, <3>2, <3>3 DEF Measured
  <2> QED
    BY <1>1, <1>2, <2>1 DEF Measured, Playing
<1>7. SnapshotTimes'
  BY <1>1, <1>2 DEF SnapshotTimes, Snapshots, Age
<1>8. Commits' = Commits /\ Snapshots' = Snapshots /\ (Playing' <=> Playing)
  BY <1>2 DEF Commits, Snapshots, Playing
<1> QED
  BY <1>2, <1>3, <1>4, <1>5, <1>6, <1>7, <1>8, Unmoved DEF SyncInv

\* The mean of the round trips is no longer than the longest of them.
LEMMA MeanIs ==
    ASSUME NEW total \in Nat, NEW samples \in Nat \ {0}, NEW b \in Nat, total <= b * samples
    PROVE  total \div samples \in Nat /\ total \div samples <= b
<1> DEFINE mean == total \div samples
<1>1. mean \in Nat /\ samples * mean <= total
  BY Division
<1> HIDE DEF mean
<1>2. ASSUME mean >= b + 1 PROVE FALSE
  <2>1. samples * (mean - b) >= samples
    <3>1. mean - b - 1 \in Nat
      BY <1>1, <1>2
    <3>2. samples * (mean - b - 1) >= 0
      BY <3>1
    <3>3. samples * (mean - b) = samples * (mean - b - 1) + samples
      BY <1>1
    <3> QED
      BY <1>1, <3>2, <3>3
  <2>2. samples * (mean - b) = samples * mean - b * samples
    BY <1>1
  <2>3. samples * mean \in Int /\ b * samples \in Int
    BY <1>1
  <2> QED
    BY <1>1, <2>1, <2>2, <2>3
<1>3. mean <= b
  BY <1>1, <1>2
<1> QED
  BY <1>1, <1>3 DEF mean

\* The tick the client starts at is ahead by the round trip and the slack.
LEMMA StartTickIs ==
    ASSUME Types, Measured, client.samples >= PingSamples
    PROVE  /\ StartTick \in Int /\ Span(client.tick) <= Span(StartTick)
           /\ Span(StartTick) <= Span(client.tick) + 2 * MaxDelay + InitialSlack + TickInterval
<1>1. client.tick \in Int /\ client.samples \in Nat /\ client.total \in Nat
  BY DEF Types
<1>2. PingSamples \in Nat \ {0} /\ TickInterval \in Nat \ {0} /\ MaxDelay \in Nat /\ InitialSlack \in Nat
  BY Sizes
<1> DEFINE mean == client.total \div client.samples
           half == TickInterval \div 2
           x == mean + InitialSlack + half
           q == x \div TickInterval
<1>3. mean \in Nat /\ mean <= 2 * MaxDelay
  BY <1>1, <1>2, MeanIs DEF Measured
<1>4. half \in Nat /\ half <= TickInterval
  BY <1>2
<1> HIDE DEF mean, half
<1>5. x \in Nat /\ x <= 2 * MaxDelay + InitialSlack + TickInterval
  BY <1>2, <1>3, <1>4
<1> HIDE DEF x
<1>6. q \in Nat /\ TickInterval * q <= x
  BY <1>2, <1>5, Division
<1> HIDE DEF q
<1>7. Span(q) = TickInterval * q /\ Span(q) >= 0
  BY <1>2, <1>6 DEF Span
<1>8. StartTick = client.tick + q
  BY DEF StartTick, q, x, mean, half
<1>9. q \in Int /\ client.tick \in Int
  BY <1>1, <1>6
<1>10. Span(client.tick + q) = Span(client.tick) + Span(q)
  BY <1>9, Spans
<1>11. Span(client.tick) \in Int /\ Span(q) \in Int
  BY <1>9, Spans
<1> QED
  BY <1>2, <1>5, <1>6, <1>7, <1>8, <1>9, <1>10, <1>11

\* The client pings once more, or chooses the tick to start at.
LEMMA PingElapsedKeeps == SyncInv /\ PingElapsed => SyncInv'
<1> SUFFICES ASSUME SyncInv, PingElapsed PROVE SyncInv'
  OBVIOUS
<1>1. Types /\ Stages /\ GameTimes /\ Measured /\ SnapshotTimes
  BY DEF SyncInv
<1>2. /\ client.stage = "Measuring" /\ client.pingIn = 0 /\ disturbed = "No" /\ ~Playing
      /\ UNCHANGED <<server, game, waiting, down, delay, away, disturbed, age>>
  BY <1>1 DEF PingElapsed, route, Stages, Playing
<1>3. /\ client.tick \in Int /\ client.samples \in Nat /\ client.total \in Nat
      /\ server.toTick \in Int /\ delay.up \in 0 .. MaxDelay
      /\ client \in [stage : {"Measuring", "Starting", "Playing"}, pingIn : 0 .. PingInterval,
                     samples : Nat, total : Nat, tick : Int]
  BY <1>1, Sizes DEF Types
<1>4. MaxDelay \in Nat /\ PingInterval \in Nat \ {0} /\ PingSamples \in Nat \ {0}
         /\ InitialSlack \in Nat /\ TickInterval \in Nat
  BY Sizes
<1>5. SnapshotTimes'
  BY <1>1, <1>2 DEF SnapshotTimes, Snapshots, Age
<1>6. CASE client.samples >= PingSamples
  <2>1. client' = [client EXCEPT !.stage = "Starting", !.tick = StartTick] /\ up' = up
    BY <1>6 DEF PingElapsed
  <2>2. /\ StartTick \in Int /\ Span(client.tick) <= Span(StartTick)
        /\ Span(StartTick) <= Span(client.tick) + 2 * MaxDelay + InitialSlack + TickInterval
    BY <1>1, <1>6, StartTickIs
  <2>3. /\ client'.stage = "Starting" /\ client'.tick = StartTick
        /\ client'.total = client.total /\ client'.samples = client.samples
    BY <1>3, <2>1
  <2>4. Types'
    <3>1. client' \in [stage : {"Measuring", "Starting", "Playing"}, pingIn : 0 .. PingInterval,
                       samples : Nat, total : Nat, tick : Int]
      BY <1>3, <2>1, <2>2
    <3> QED
      BY <1>1, <1>2, <2>1, <3>1 DEF Types
  <2>5. Stages' /\ GameTimes'
    BY <1>1, <1>2, <2>1, <2>3 DEF Stages, GameTimes, Playing, Commits
  <2>6. Measured'
    <3>1. Span(StartTick) \in Int /\ Span(client.tick) \in Int /\ Span(client.tick) <= 0
      <4>1. client.tick <= 0 /\ 0 \in Int
        BY <1>1, <1>2 DEF Measured
      <4> QED
        BY <1>3, <2>2, <4>1, Spans
    <3>2. Span(client.tick) + server.toTick + MaxDelay + PingInterval >= 0
      BY <1>1, <1>2, <1>3, <1>4, <1>6, <3>1 DEF Measured
    <3>3. /\ Span(StartTick) <= 2 * MaxDelay + InitialSlack + TickInterval
          /\ Span(StartTick) + server.toTick + MaxDelay + PingInterval >= 0
      BY <1>3, <1>4, <2>2, <3>1, <3>2
    <3>4. Span(StartTick) + server.toTick + MaxDelay + PingInterval + 0 >= 0
      BY <1>3, <1>4, <3>1, <3>3
    <3> QED
      BY <1>1, <1>2, <2>1, <2>3, <3>3, <3>4 DEF Measured
  <2>7. Commits' = Commits /\ Snapshots' = Snapshots /\ (Playing' <=> Playing)
    BY <1>2, <2>1, <2>3 DEF Commits, Snapshots, Playing
  <2> QED
    BY <1>2, <1>5, <2>4, <2>5, <2>6, <2>7, Unmoved DEF SyncInv
<1>7. CASE ~(client.samples >= PingSamples)
  <2>1. client' = [client EXCEPT !.pingIn = PingInterval] /\ up' = up \cup {Ping}
    BY <1>7 DEF PingElapsed
  <2>2. /\ client'.stage = "Measuring" /\ client'.tick = client.tick
        /\ client'.total = client.total /\ client'.samples = client.samples
    BY <1>2, <1>3, <2>1
  <2>3. /\ Ping.what = "Ping" /\ Ping.in = delay.up /\ Ping.since = 0 /\ Ping \in PingPacket
    BY <1>3 DEF Ping, PingPacket
  <2>4. Types'
    <3>1. client' \in [stage : {"Measuring", "Starting", "Playing"}, pingIn : 0 .. PingInterval,
                       samples : Nat, total : Nat, tick : Int]
      BY <1>3, <1>4, <2>1
    <3> QED
      BY <1>1, <1>2, <2>1, <2>3, <3>1 DEF Types
  <2>5. Commits' = Commits /\ Snapshots' = Snapshots /\ (Playing' <=> Playing)
    BY <1>2, <2>1, <2>2, <2>3 DEF Commits, Snapshots, Playing
  <2>6. Stages' /\ GameTimes'
    BY <1>1, <1>2, <2>2, <2>5 DEF Stages, GameTimes, Playing
  <2>7. Measured'
    <3>1. \A m \in up' : m.what = "Ping" => m.since + m.in <= MaxDelay
      BY <1>1, <1>3, <1>4, <2>1, <2>3 DEF Measured
    <3> QED
      BY <1>1, <1>2, <1>3, <1>4, <1>7, <2>2, <3>1 DEF Measured
  <2> QED
    BY <1>2, <1>5, <2>4, <2>5, <2>6, <2>7, Unmoved DEF SyncInv
<1> QED
  BY <1>6, <1>7

-----------------------------------------------------------------------------
(* The client receives.                                                    *)

\* An order of ticks is an order of times.
LEMMA SpanOrders == ASSUME NEW m \in Int, NEW n \in Int, Span(m) <= Span(n) PROVE m <= n
<1>1. CASE m <= n
  BY <1>1
<1>2. CASE n <= m - 1
  <2>1. Span(n) <= Span(m - 1) /\ Span(m - 1) = Span(m) - TickInterval
    BY <1>2, Spans
  <2>2. Span(m) \in Int /\ Span(n) \in Int
    BY Spans
  <2> QED
    BY <2>1, <2>2, Sizes
<1> QED
  BY <1>1, <1>2

\* A pong adds a round trip to the measurement.
LEMMA HandlePongKeeps ==
    ASSUME SyncInv, NEW m \in down, m.in = 0, down' = down \ {m}, HandlePong(m),
           UNCHANGED <<server, game, up, route, age>>
    PROVE  SyncInv'
<1>1. Types /\ Stages /\ GameTimes /\ Measured /\ SnapshotTimes
  BY DEF SyncInv
<1>2. /\ m.what = "Pong" /\ m \in PongPacket
      /\ UNCHANGED <<server, game, up, waiting, delay, away, disturbed, age>>
  BY <1>1, KindsOf DEF HandlePong, route
<1>3. /\ m.since \in Nat /\ m.since <= 2 * MaxDelay /\ m.tick \in Int /\ m.tick <= 0
      /\ 0 <= MaxDelay + server.toTick + Span(m.tick)
  BY <1>1, <1>2, Sizes DEF PongPacket, Measured
<1>4. /\ client.samples \in Nat /\ client.total \in Nat /\ client.pingIn \in 0 .. PingInterval
      /\ server.toTick \in Int /\ MaxDelay \in Nat /\ PingInterval \in Nat
      /\ client \in [stage : {"Measuring", "Starting", "Playing"}, pingIn : 0 .. PingInterval,
                     samples : Nat, total : Nat, tick : Int]
  BY <1>1, Sizes DEF Types
<1>5. /\ client'.stage = client.stage /\ client'.pingIn = client.pingIn
      /\ client'.samples = IF client.stage = "Measuring" THEN client.samples + 1 ELSE client.samples
      /\ client'.total = IF client.stage = "Measuring" THEN client.total + m.since ELSE client.total
      /\ client'.tick = IF client.stage = "Measuring" THEN m.tick ELSE client.tick
      /\ client' \in [stage : {"Measuring", "Starting", "Playing"}, pingIn : 0 .. PingInterval,
                      samples : Nat, total : Nat, tick : Int]
  <2>1. CASE client.stage = "Measuring"
    <3>1. client' = [client EXCEPT !.samples = @ + 1, !.total = @ + m.since, !.tick = m.tick]
      BY <2>1 DEF HandlePong
    <3>2. client.samples + 1 \in Nat /\ client.total + m.since \in Nat
      BY <1>3, <1>4
    <3> QED
      BY <1>3, <1>4, <2>1, <3>1, <3>2
  <2>2. CASE client.stage # "Measuring"
    BY <1>4, <2>2 DEF HandlePong
  <2> QED
    BY <2>1, <2>2
<1>6. Commits' = Commits /\ Snapshots' = Snapshots /\ (Playing' <=> Playing)
  BY <1>2, <1>5 DEF Commits, Snapshots, Playing
<1>7. Types'
  BY <1>1, <1>2, <1>5 DEF Types
<1>8. Stages' /\ GameTimes' /\ SnapshotTimes'
  BY <1>1, <1>2, <1>5, <1>6 DEF Stages, GameTimes, SnapshotTimes, Age
<1>9. Measured'
  <2>1. client'.total <= 2 * MaxDelay * client'.samples
    <3>1. client.total <= 2 * MaxDelay * client.samples
      BY <1>1 DEF Measured
    <3>2. 2 * MaxDelay * (client.samples + 1) = 2 * MaxDelay * client.samples + 2 * MaxDelay
      BY <1>4
    <3>3. 2 * MaxDelay * client.samples \in Int
      BY <1>4
    <3> QED
      BY <1>3, <1>4, <1>5, <3>1, <3>2, <3>3
  <2>2. Span(m.tick) \in Int
    BY <1>3, Spans
  <2>3. Span(m.tick) + server.toTick + MaxDelay + PingInterval - client.pingIn >= 0
    BY <1>3, <1>4, <2>2
  <2> QED
    BY <1>1, <1>2, <1>3, <1>5, <2>1, <2>3 DEF Measured
<1> QED
  BY <1>2, <1>6, <1>7, <1>8, <1>9, Unmoved DEF SyncInv

\* A snapshot replaces the one that waits, if that is older.
LEMMA HandleGameStateKeeps ==
    ASSUME SyncInv, NEW m \in down, m.in = 0, down' = down \ {m}, HandleGameState(m),
           UNCHANGED <<server, game, up, route, age>>
    PROVE  SyncInv'
<1>1. Types /\ Stages /\ GameTimes /\ Measured /\ SnapshotTimes /\ Chain /\ Floor /\ FastSnapshots
  BY DEF SyncInv
<1>2. /\ m.what = "GameState" /\ m \in GameStatePacket
      /\ UNCHANGED <<server, client, game, up, delay, away, disturbed, age>>
  BY <1>1, KindsOf DEF HandleGameState, route
<1>3. m.tick \in Int /\ m.interval \in Int /\ m \in Snapshots /\ m.tick <= 0
  BY <1>1, <1>2 DEF GameStatePacket, Snapshots, SnapshotTimes
<1>4. /\ Snapshots' = Snapshots \ {m} /\ Commits' = Commits /\ (Playing' <=> Playing)
      /\ \A t : Age(t)' = Age(t)
  BY <1>2 DEF Snapshots, Commits, Playing, Age
<1>5. \/ /\ client.stage # "Measuring" /\ \A w \in waiting : w.tick < m.tick
         /\ waiting' = {[tick |-> m.tick, interval |-> m.interval]}
         /\ \E r \in waiting' : r.tick = m.tick
      \/ /\ client.stage # "Measuring" /\ waiting' = waiting
         /\ \E w \in waiting : ~(w.tick < m.tick)
      \/ client.stage = "Measuring" /\ waiting' = waiting
  BY DEF HandleGameState
<1>6. Types'
  <2>1. waiting' \subseteq [tick : Int, interval : Int]
    BY <1>1, <1>3, <1>5 DEF Types
  <2> QED
    BY <1>1, <1>2, <2>1 DEF Types
<1>7. Stages' /\ GameTimes'
  BY <1>1, <1>2, <1>4, <1>5 DEF Stages, GameTimes
<1>8. Measured'
  BY <1>1, <1>2 DEF Measured
<1>9. SnapshotTimes'
  BY <1>1, <1>2, <1>3, <1>4, <1>5 DEF SnapshotTimes
<1>10. \A w \in waiting : w.tick \in Int
  BY <1>1 DEF Types
<1>11. ASSUME client.stage # "Measuring", NEW s \in Int, UnderWay(s) \/ Taken(s)
       PROVE  UnderWay(s)' \/ Taken(s)'
  <2>1. CASE Taken(s)
    <3>1. CASE \E t \in game.latest : s <= t
      BY <1>2, <3>1 DEF Taken
    <3>2. CASE \E w \in waiting : s <= w.tick
      <4>1. PICK w \in waiting : s <= w.tick
        BY <3>2
      <4>2. w.tick \in Int
        BY <1>10
      <4>3. CASE waiting' = waiting
        BY <4>1, <4>3 DEF Taken
      <4>4. CASE w.tick < m.tick /\ \E r \in waiting' : r.tick = m.tick
        BY <1>3, <4>1, <4>2, <4>4 DEF Taken
      <4> QED
        BY <1>5, <1>11, <4>1, <4>3, <4>4
    <3> QED
      BY <2>1, <3>1, <3>2 DEF Taken
  <2>2. CASE UnderWay(s) /\ s # m.tick
    BY <1>4, <2>2 DEF UnderWay
  <2>3. CASE s = m.tick
    <3>1. CASE \E r \in waiting' : r.tick = m.tick
      BY <1>3, <2>3, <3>1 DEF Taken
    <3>2. CASE waiting' = waiting /\ \E w \in waiting : ~(w.tick < m.tick)
      <4>1. PICK w \in waiting : ~(w.tick < m.tick)
        BY <3>2
      <4>2. s <= w.tick
        <5>1. w.tick \in Int
          BY <1>10
        <5> QED
          BY <1>3, <2>3, <4>1, <5>1
      <4> QED
        BY <3>2, <4>2 DEF Taken
    <3> QED
      BY <1>5, <1>11, <3>1, <3>2
  <2> QED
    BY <1>11, <2>1, <2>2, <2>3
<1>12. \A n \in Snapshots : n.tick \in Int /\ n.in \in Int /\ n.in >= 0 /\ n \in down
  BY <1>1, KindsOf, Sizes DEF Snapshots, GameStatePacket
<1>13. Chain'
  <2> SUFFICES ASSUME NEW t \in game'.latest \cup {w.tick : w \in waiting'}
                                  \cup {n.tick : n \in Snapshots'},
                      NEW s \in t .. 0
               PROVE  UnderWay(s)' \/ Taken(s)'
    BY DEF Chain
  <2>1. t \in game.latest \cup {w.tick : w \in waiting} \cup {n.tick : n \in Snapshots}
    BY <1>2, <1>3, <1>4, <1>5
  <2>2. t \in Int /\ s \in Int /\ t <= s
    BY <1>1, <1>10, <1>12, <2>1 DEF Types
  <2>3. UnderWay(s) \/ Taken(s)
    BY <1>1, <2>1 DEF Chain
  <2>4. CASE client.stage # "Measuring"
    BY <1>11, <2>2, <2>3, <2>4
  <2>5. CASE client.stage = "Measuring"
    <3>1. waiting = {} /\ waiting' = {} /\ game.latest = {} /\ disturbed = "No"
      BY <1>1, <1>5, <2>5 DEF Stages, Playing
    <3>2. PICK n \in Snapshots' : t = n.tick
      BY <1>2, <3>1
    <3>3. PICK k \in Snapshots : k.tick = s
      BY <2>3, <3>1 DEF Taken, UnderWay
    <3>4. CASE k # m
      BY <1>4, <3>3, <3>4 DEF UnderWay
    <3>5. CASE k = m
      <4>1. n \in Snapshots /\ n.tick \in Int /\ n.in \in Int /\ n.in >= 0
        BY <1>4, <1>12, <3>2
      <4>2. n.in + Age(n.tick) = delay.down /\ m.in + Age(m.tick) = delay.down
        BY <1>1, <1>3, <3>1, <4>1 DEF SnapshotTimes
      <4>3. MeasuresAre /\ delay.down \in Int /\ TickInterval \in Int
        BY <1>1, Measures, Sizes DEF Types
      <4>4. /\ Age(n.tick) \in Int /\ Age(n.tick) = TickInterval - server.toTick - Span(n.tick)
            /\ Age(m.tick) \in Int /\ Age(m.tick) = TickInterval - server.toTick - Span(m.tick)
            /\ server.toTick \in Int
        BY <1>3, <4>1, <4>3 DEF MeasuresAre
      <4>5. Span(n.tick) \in Int /\ Span(m.tick) \in Int
        BY <1>3, <4>1, Spans
      <4>6. Span(m.tick) <= Span(n.tick)
        BY <4>1, <4>2, <4>3, <4>4, <4>5
      <4>7. m.tick <= n.tick
        BY <1>3, <4>1, <4>6, SpanOrders
      <4>8. n.tick = s
        BY <1>3, <2>2, <3>2, <3>3, <3>5, <4>1, <4>7
      <4> QED
        BY <3>2, <4>8 DEF UnderWay
    <3> QED
      BY <3>4, <3>5
  <2> QED
    BY <2>4, <2>5
<1>14. Floor'
  <2> SUFFICES ASSUME Playing', NEW s \in Past
               PROVE  UnderWay(s)' \/ Taken(s)' \/ Span(s) <= Span(game'.last) + StartAge
    BY DEF Floor
  <2>1. s \in Int /\ client.stage # "Measuring" /\ Playing
    BY <1>4 DEF Past, Playing
  <2> QED
    BY <1>1, <1>2, <1>11, <2>1 DEF Floor
<1>15. /\ CommitsKnown' /\ Slacks' /\ LeadBounded' /\ LateCommits' /\ Rising'
       /\ \A t : Superseded(t)' <=> Superseded(t)
  BY <1>2, <1>4, GameUnmoved
<1>16. FastSnapshots'
  BY <1>1, <1>2, <1>3, <1>4, <1>5, <1>15 DEF FastSnapshots
<1> QED
  BY <1>6, <1>7, <1>8, <1>9, <1>13, <1>14, <1>15, <1>16 DEF SyncInv

\* The client receives either.
LEMMA ClientReceivesKeeps == SyncInv /\ ClientReceives => SyncInv'
<1> SUFFICES ASSUME SyncInv, ClientReceives PROVE SyncInv'
  OBVIOUS
<1>1. PICK m \in down : /\ m.in = 0 /\ down' = down \ {m}
                        /\ HandlePong(m) \/ HandleGameState(m)
                        /\ UNCHANGED <<server, game, up, route, age>>
  BY DEF ClientReceives
<1> QED
  BY <1>1, HandlePongKeeps, HandleGameStateKeeps

-----------------------------------------------------------------------------
(* The server receives.                                                    *)

\* An observation draws the estimate towards it, and one that is far above
\* raises it by a hundredth of the difference.
LEMMA RecordsIs ==
    ASSUME NEW e \in Int, NEW s \in Int
    PROVE  /\ RecordSlackObservation(e, s) \in Int
           /\ \/ e <= RecordSlackObservation(e, s) /\ RecordSlackObservation(e, s) <= s
              \/ s <= RecordSlackObservation(e, s) /\ RecordSlackObservation(e, s) <= e
           /\ s >= e => RecordSlackObservation(e, s) >= e + (s - e) \div 100
<1> DEFINE k == (s - e) \div 100
<1>1. k \in Int /\ 100 * k <= s - e /\ s - e < 100 * k + 100
  OBVIOUS
<1>2. RecordSlackObservation(e, s) = e + k
  BY DEF RecordSlackObservation
<1> HIDE DEF k
<1>3. (s >= e => 0 <= k /\ k <= s - e) /\ (s < e => s - e <= k /\ k <= 0)
  BY <1>1
<1> QED
  BY <1>1, <1>2, <1>3 DEF k

\* An average stays between the bounds.
LEMMA RecordInRange ==
    ASSUME NEW e \in Int, NEW s \in Int, InRange(e), InRange(s)
    PROVE  RecordSlackObservation(e, s) \in Int /\ InRange(RecordSlackObservation(e, s))
<1> DEFINE r == RecordSlackObservation(e, s)
<1>1. r \in Int /\ ((e <= r /\ r <= s) \/ (s <= r /\ r <= e))
  BY RecordsIs
<1> HIDE DEF r
<1>2. LeastSlack \in Int /\ Reach + 2 * TickInterval \in Int
  BY Bounds, Sizes
<1>3. InRange(r)
  BY <1>1, <1>2 DEF InRange
<1> QED
  BY <1>1, <1>3 DEF r

\* A ping is answered at once, with the tick that was completed last.
LEMMA HandlePingKeeps ==
    ASSUME SyncInv, NEW m \in up, m.in = 0, up' = up \ {m}, HandlePing(m),
           UNCHANGED <<client, game, waiting, route, age>>
    PROVE  SyncInv'
<1>1. Types /\ Stages /\ GameTimes /\ Measured /\ SnapshotTimes
  BY DEF SyncInv
<1>2. /\ m.what = "Ping" /\ m \in PingPacket /\ down' = down \cup {Pong(m.since)}
      /\ UNCHANGED <<server, client, game, waiting, delay, away, disturbed, age>>
  BY <1>1, KindsOf DEF HandlePing, route
<1> DEFINE n == Pong(m.since)
<1>3. m.since \in Nat /\ m.since <= MaxDelay /\ delay.down \in 0 .. MaxDelay /\ MaxDelay \in Nat
         /\ server.toTick \in 0 .. TickInterval /\ TickInterval \in Nat
  BY <1>1, <1>2, Sizes DEF PingPacket, Measured, Types
<1>4. n.what = "Pong" /\ n.in = delay.down /\ n.since = m.since /\ n.tick = 0 /\ n \in PongPacket
  BY <1>3 DEF Pong, PongPacket
<1> HIDE DEF n
<1>5. down' = down \cup {n}
  BY <1>2 DEF n
<1>6. Commits' = Commits /\ Snapshots' = Snapshots /\ (Playing' <=> Playing)
  BY <1>2, <1>4, <1>5 DEF Commits, Snapshots, Playing
<1>7. Types'
  BY <1>1, <1>2, <1>4, <1>5 DEF Types
<1>8. Stages' /\ GameTimes' /\ SnapshotTimes'
  BY <1>1, <1>2, <1>6 DEF Stages, GameTimes, SnapshotTimes, Age
<1>9. Measured'
  <2>1. /\ n.since + n.in <= 2 * MaxDelay /\ n.tick <= 0
        /\ n.in <= MaxDelay + server.toTick + Span(n.tick)
    <3>1. Span(0) = 0
      BY Spans
    <3> QED
      BY <1>3, <1>4, <3>1
  <2> QED
    BY <1>1, <1>2, <1>4, <1>5, <2>1 DEF Measured
<1> QED
  BY <1>2, <1>6, <1>7, <1>8, <1>9, Unmoved DEF SyncInv

\* The estimate stays in range, and changes only with a late commit.
LEMMA LateIs ==
    ASSUME NEW e \in Int, InRange(e),
           NEW n \in Nat, NEW ticks, DOMAIN ticks = 1 .. n,
           \A i \in 1 .. n : ticks[i] \in Int /\ SlackOf(ticks[i]) \in Int /\ InRange(SlackOf(ticks[i]))
    PROVE  /\ FoldLeft(RecordIfLate, e, ticks) \in Int
           /\ InRange(FoldLeft(RecordIfLate, e, ticks))
           /\ (\A i \in 1 .. n : ticks[i] > 0) => FoldLeft(RecordIfLate, e, ticks) = e
<1>1. FoldLeft(RecordIfLate, e, ticks) = Late!Fold(server.toTick, e, ticks)
  BY DEF RecordStep, RecordIfLate, SlackOf, FoldLeft, MapThenFoldSet, Max,
         Late!Fold, Late!FoldLeft, Late!MapThenFoldSet, Late!Max
<1>2. \A x : \A t : RecordStep(server.toTick, x, t) =
               IF t > 0 THEN x ELSE RecordSlackObservation(x, SlackOf(t))
  BY DEF RecordStep, SlackOf
<1> DEFINE Good == {x \in Int : InRange(x)}
<1>3. \A x \in Good : \A i \in 1 .. n : RecordStep(server.toTick, x, ticks[i]) \in Good
  BY <1>2, RecordInRange
<1>4. Late!Fold(server.toTick, e, ticks) \in Good
  <2> HIDE DEF Good
  <2>1. e \in Good
    BY DEF Good
  <2> QED
    BY <1>3, <2>1, Late!FoldKeeps
<1>5. ASSUME \A i \in 1 .. n : ticks[i] > 0 PROVE Late!Fold(server.toTick, e, ticks) = e
  <2>1. \A x \in {e} : \A i \in 1 .. n : RecordStep(server.toTick, x, ticks[i]) \in {e}
    BY <1>2, <1>5
  <2>2. Late!Fold(server.toTick, e, ticks) \in {e}
    BY <2>1, Late!FoldKeeps
  <2> QED
    BY <2>2
<1> QED
  BY <1>1, <1>4, <1>5

\* What a packet of commits adds: the ticks that are to come and were not kept.
Kept(m) == {t \in TicksOf(m) : t > 0 /\ \A c \in server.kept : c.tick # t}

\* What handle_commit_actions_packet does, without its loops.
LEMMA HandleCommitActionsIs ==
    ASSUME Types, Stages, Slacks, NEW m \in up, m.in = 0, HandleCommitActions(m)
    PROVE  /\ m \in Commits /\ m \in CommitPacket /\ Playing
           /\ server'.toTick = server.toTick
           /\ server'.kept = server.kept \cup {[tick |-> t, slack |-> SlackOf(t)] : t \in Kept(m)}
           /\ server' \in [toTick : 0 .. TickInterval, estimate : Int,
                           kept : SUBSET [tick : Nat \ {0}, slack : Int]]
           /\ InRange(server'.estimate)
           /\ (\A t \in TicksOf(m) : t > 0) => server'.estimate = server.estimate
<1> DEFINE ticks == [i \in 1 .. m.count |-> m.tick + i - 1]
           taken == {c.tick : c \in server.kept}
           estimate == FoldLeft(RecordIfLate, server.estimate, ticks)
           new == {[tick |-> t, slack |-> SlackOf(t)] : t \in {u \in Range(ticks) \ taken : u > 0}}
<1>1. m.what = "Commit" /\ server' = [server EXCEPT !.kept = @ \cup new, !.estimate = estimate]
  BY DEF HandleCommitActions
<1>2. m \in CommitPacket /\ m \in Commits /\ Playing
  BY <1>1, KindsOf DEF Commits, Stages
<1>3. m.tick \in Int /\ m.count \in Nat
  BY <1>2 DEF CommitPacket
<1>4. MeasuresAre /\ server.estimate \in Int /\ InRange(server.estimate)
      /\ server \in [toTick : 0 .. TickInterval, estimate : Int,
                     kept : SUBSET [tick : Nat \ {0}, slack : Int]]
  BY Measures DEF Types, Slacks
<1>5. \A i \in 1 .. m.count : ticks[i] \in TicksOf(m) /\ ticks[i] \in Int
  BY <1>3 DEF TicksOf
<1>6. \A t \in TicksOf(m) : t \in Int /\ \E i \in 1 .. m.count : ticks[i] = t
  <2> TAKE t \in TicksOf(m)
  <2>1. t \in Int /\ m.tick <= t /\ t <= m.tick + m.count - 1
    BY <1>3 DEF TicksOf
  <2>2. t - m.tick + 1 \in 1 .. m.count /\ m.tick + (t - m.tick + 1) - 1 = t
    BY <1>3, <2>1
  <2> QED
    BY <2>1, <2>2
<1>7. Range(ticks) = TicksOf(m)
  <2>1. DOMAIN ticks = 1 .. m.count
    OBVIOUS
  <2> HIDE DEF ticks
  <2>2. Range(ticks) = {ticks[i] : i \in 1 .. m.count}
    BY <2>1 DEF Range
  <2> QED
    BY <1>5, <1>6, <2>2
<1>8. /\ estimate \in Int /\ InRange(estimate)
      /\ (\A t \in TicksOf(m) : t > 0) => estimate = server.estimate
  <2>1. DOMAIN ticks = 1 .. m.count
    OBVIOUS
  <2> HIDE DEF ticks
  <2>2. \A i \in 1 .. m.count :
          ticks[i] \in Int /\ SlackOf(ticks[i]) \in Int /\ InRange(SlackOf(ticks[i]))
    <3> TAKE i \in 1 .. m.count
    <3>1. ticks[i] \in TicksOf(m) /\ ticks[i] \in Int
      BY <1>5
    <3>2. SlackOf(ticks[i]) \in Int
      BY <1>4, <3>1 DEF MeasuresAre
    <3>3. InRange(SlackOf(ticks[i]) - 0)
      BY <1>2, <3>1 DEF Slacks
    <3>4. SlackOf(ticks[i]) - 0 = SlackOf(ticks[i])
      BY <3>2
    <3> QED
      BY <3>1, <3>2, <3>3, <3>4
  <2>3. /\ estimate \in Int /\ InRange(estimate)
        /\ (\A i \in 1 .. m.count : ticks[i] > 0) => estimate = server.estimate
    BY <1>3, <1>4, <2>1, <2>2, LateIs
  <2> QED
    BY <1>5, <2>3
<1>9. {u \in Range(ticks) \ taken : u > 0} = Kept(m)
  BY <1>7 DEF Kept
<1>10. new = {[tick |-> t, slack |-> SlackOf(t)] : t \in Kept(m)}
  BY <1>9
<1> HIDE DEF ticks, taken, estimate
<1>11. \A t \in Kept(m) : t \in Nat \ {0} /\ SlackOf(t) \in Int
  BY <1>4, <1>6 DEF Kept, MeasuresAre
<1>12. new \in SUBSET [tick : Nat \ {0}, slack : Int]
  BY <1>10, <1>11
<1> HIDE DEF new
<1>13. /\ server'.toTick = server.toTick /\ server'.estimate = estimate
       /\ server'.kept = server.kept \cup new
       /\ server' \in [toTick : 0 .. TickInterval, estimate : Int,
                       kept : SUBSET [tick : Nat \ {0}, slack : Int]]
  BY <1>1, <1>4, <1>8, <1>12
<1> QED
  BY <1>2, <1>8, <1>10, <1>13

\* Commits are kept with their slack, and a late one draws the estimate down:
\* it was not early, and so there is time to raise the estimate again.
LEMMA HandleCommitActionsKeeps ==
    ASSUME SyncInv, NEW m \in up, m.in = 0, up' = up \ {m}, HandleCommitActions(m),
           UNCHANGED <<client, game, waiting, route, age>>
    PROVE  SyncInv'
<1>1. /\ Types /\ Stages /\ GameTimes /\ Measured /\ SnapshotTimes /\ Chain /\ Floor
      /\ CommitsKnown /\ Slacks /\ LeadBounded /\ LateCommits /\ FastSnapshots /\ Rising
  BY DEF SyncInv
<1>2. /\ m \in Commits /\ m \in CommitPacket /\ Playing
      /\ server'.toTick = server.toTick
      /\ server'.kept = server.kept \cup {[tick |-> t, slack |-> SlackOf(t)] : t \in Kept(m)}
      /\ server' \in [toTick : 0 .. TickInterval, estimate : Int,
                      kept : SUBSET [tick : Nat \ {0}, slack : Int]]
      /\ InRange(server'.estimate)
      /\ (\A t \in TicksOf(m) : t > 0) => server'.estimate = server.estimate
  BY <1>1, HandleCommitActionsIs
<1>3. /\ UNCHANGED <<client, game, waiting, down, delay, away, disturbed, age>>
      /\ up' \subseteq up /\ Commits' = Commits \ {m} /\ Snapshots' = Snapshots /\ Playing'
  BY <1>2 DEF HandleCommitActions, route, Commits, Snapshots, Playing
<1>4. MeasuresAre /\ m.tick \in Int /\ m.count \in Nat
  BY <1>1, <1>2, Measures DEF CommitPacket
<1>5. /\ Headway' = Headway /\ Lead' = Lead
      /\ \A t : SlackOf(t)' = SlackOf(t) /\ Age(t)' = Age(t)
      /\ \A s : (UnderWay(s)' <=> UnderWay(s)) /\ (Taken(s)' <=> Taken(s))
      /\ \A t : Superseded(t)' <=> Superseded(t)
  BY <1>2, <1>3 DEF Headway, Lead, SlackOf, Age, UnderWay, Taken, Superseded
<1>6. \A t \in TicksOf(m) : t \in Int /\ SlackOf(t) \in Int /\ SlackOf(t) - m.in = SlackOf(t)
  BY <1>4 DEF TicksOf, MeasuresAre
<1>7. \A t \in Kept(m) : t \in TicksOf(m) /\ \A c \in server.kept : c.tick # t
  BY DEF Kept
<1>8. \A c \in server'.kept :
          \/ c \in server.kept
          \/ c.tick \in Kept(m) /\ c = [tick |-> c.tick, slack |-> SlackOf(c.tick)]
  BY <1>2
<1>9. Types'
  BY <1>1, <1>2, <1>3 DEF Types
<1>10. Stages' /\ GameTimes'
  BY <1>1, <1>3 DEF Stages, GameTimes, Playing
<1>11. Measured' /\ SnapshotTimes'
  <2>1. /\ client.stage = "Playing" /\ UNCHANGED <<client, game, waiting, down, delay, disturbed>>
        /\ up' \subseteq up /\ server'.toTick = server.toTick
    BY <1>2, <1>3 DEF Playing
  <2>2. Measured'
    BY <1>1, <2>1 DEF Measured
  <2>3. SnapshotTimes'
    BY <1>1, <1>3, <1>5, <2>1 DEF SnapshotTimes
  <2> QED
    BY <2>2, <2>3
<1>12. Chain' /\ Floor'
  <2>1. UNCHANGED <<game, waiting>> /\ Snapshots' = Snapshots /\ Playing
    BY <1>2, <1>3
  <2>2. \A s : (UnderWay(s)' <=> UnderWay(s)) /\ (Taken(s)' <=> Taken(s))
    BY <1>5
  <2>3. Chain'
    BY <1>1, <2>1, <2>2 DEF Chain
  <2>4. Floor'
    BY <1>1, <2>1, <2>2 DEF Floor
  <2> QED
    BY <2>3, <2>4
<1>13. CommitsKnown'
  <2>1. ASSUME NEW c \in server'.kept, NEW d \in server'.kept, c.tick = d.tick PROVE c = d
    BY <1>1, <1>7, <1>8, <2>1 DEF CommitsKnown
  <2>2. ASSUME NEW t \in 1 .. game'.last
        PROVE  \/ \E c \in server'.kept : c.tick = t
               \/ \E n \in Commits' : t \in TicksOf(n)
               \/ Headway' + SlackOf(t)' + RaisingTime <= Reach
    <3>1. t \in 1 .. game.last /\ t > 0
      BY <1>3, <1>4 DEF MeasuresAre
    <3>2. CASE \E c \in server.kept : c.tick = t
      BY <1>2, <3>2
    <3>3. CASE \E n \in Commits : t \in TicksOf(n)
      <4>1. PICK n \in Commits : t \in TicksOf(n)
        BY <3>3
      <4>2. CASE n # m
        BY <1>3, <4>1, <4>2
      <4>3. CASE n = m /\ \A c \in server.kept : c.tick # t
        <5>1. t \in Kept(m)
          BY <3>1, <4>1, <4>3 DEF Kept
        <5>2. [tick |-> t, slack |-> SlackOf(t)] \in server'.kept
          BY <1>2, <5>1
        <5> QED
          BY <5>2
      <4> QED
        BY <3>2, <4>2, <4>3
    <3>4. CASE Headway + SlackOf(t) + RaisingTime <= Reach
      BY <1>5, <3>4
    <3> QED
      BY <1>1, <1>2, <3>1, <3>2, <3>3, <3>4 DEF CommitsKnown
  <2>3. ASSUME NEW c \in server'.kept PROVE c.tick <= game'.last
    <3>1. CASE c \in server.kept
      BY <1>1, <1>3, <3>1 DEF CommitsKnown
    <3>2. CASE c.tick \in Kept(m)
      <4>1. c.tick \in Int /\ c.tick <= m.tick + m.count - 1
        BY <1>4, <1>7, <3>2 DEF TicksOf
      <4>2. m.tick + m.count - 1 <= game.last /\ game.last \in Int
        BY <1>1, <1>2, <1>4 DEF CommitsKnown, MeasuresAre
      <4> QED
        BY <1>3, <1>4, <4>1, <4>2
    <3> QED
      BY <1>8, <3>1, <3>2
  <2>4. ASSUME NEW n \in Commits' PROVE n.tick + n.count - 1 <= game'.last
    BY <1>1, <1>3 DEF CommitsKnown
  <2> QED
    BY <2>1, <2>2, <2>3, <2>4 DEF CommitsKnown, TicksOf
<1>14. Slacks'
  <2>1. ASSUME NEW c \in server'.kept PROVE InRange(c.slack)
    <3>1. CASE c \in server.kept
      BY <1>1, <3>1 DEF Slacks
    <3>2. CASE c.tick \in Kept(m) /\ c.slack = SlackOf(c.tick)
      <4>1. c.tick \in TicksOf(m)
        BY <1>7, <3>2
      <4>2. InRange(SlackOf(c.tick) - m.in) /\ SlackOf(c.tick) - m.in = c.slack
        BY <1>1, <1>2, <1>6, <3>2, <4>1 DEF Slacks
      <4> QED
        BY <4>2
    <3> QED
      BY <1>8, <3>1, <3>2
  <2>2. ASSUME NEW n \in Commits', NEW t \in TicksOf(n) PROVE InRange(SlackOf(t)' - n.in)
    BY <1>1, <1>3, <1>5 DEF Slacks
  <2> QED
    BY <1>2, <2>1, <2>2 DEF Slacks, TicksOf, InRange
<1>15. LeadBounded'
  BY <1>1, <1>2, <1>5 DEF LeadBounded
<1>16. LateCommits'
  <2>1. ASSUME NEW c \in server'.kept, ~Early(c.slack)
        PROVE  Headway' + SlackOf(c.tick)' + RaisingTime <= Reach
    <3>1. CASE c \in server.kept
      BY <1>1, <1>5, <2>1, <3>1 DEF LateCommits
    <3>2. CASE c.tick \in Kept(m) /\ c.slack = SlackOf(c.tick)
      <4>1. c.tick \in TicksOf(m)
        BY <1>7, <3>2
      <4>2. SlackOf(c.tick) - m.in = c.slack
        BY <1>6, <3>2, <4>1
      <4> QED
        BY <1>1, <1>2, <1>5, <2>1, <4>1, <4>2 DEF LateCommits
    <3> QED
      BY <1>8, <3>1, <3>2
  <2>2. ASSUME NEW n \in Commits', NEW t \in TicksOf(n), ~Early(SlackOf(t)' - n.in)
        PROVE  Headway' + SlackOf(t)' + RaisingTime <= Reach /\ Headway' + n.in + RaisingTime <= Reach
    BY <1>1, <1>3, <1>5, <2>2 DEF LateCommits
  <2> QED
    BY <2>1, <2>2 DEF LateCommits, TicksOf, Early
<1>17. FastSnapshots'
  BY <1>1, <1>2, <1>3, <1>5 DEF FastSnapshots
<1>18. Rising'
  <2> SUFFICES ASSUME server'.estimate < GoalSlack
               PROVE  \E n \in 0 .. RaisingTicks :
                         /\ server'.estimate + n * (Margin \div 100) >= GoalSlack
                         /\ Headway' + Span(n) + server'.toTick + MaxDelay <= Reach
    BY DEF Rising
  <2>1. CASE \A t \in TicksOf(m) : t > 0
    BY <1>1, <1>2, <1>5, <2>1 DEF Rising
  <2>2. CASE \E t \in TicksOf(m) : ~(t > 0)
    <3>1. PICK t \in TicksOf(m) : t \in Int /\ t <= 0
      BY <1>6, <2>2
    <3>2. SlackOf(t) <= 0
      <4>1. Span(t) <= Span(0) /\ Span(0) = 0 /\ Span(t) \in Int
        BY <3>1, Spans
      <4>2. /\ SlackOf(t) = server.toTick + Span(t) - TickInterval
            /\ server.toTick \in Int /\ server.toTick <= TickInterval /\ TickInterval \in Int
        BY <1>4, <3>1, Sizes DEF MeasuresAre
      <4> QED
        BY <4>1, <4>2
    <3>3. ~Early(SlackOf(t) - m.in)
      <4>1. GoalSlack \in Nat /\ Margin \in Nat /\ Margin >= 100
        BY TickSyncAssumption DEF Margin
      <4> QED
        BY <1>6, <3>1, <3>2, <4>1 DEF Early
    <3>4. Headway + m.in + RaisingTime <= Reach
      BY <1>1, <1>2, <3>1, <3>3 DEF LateCommits
    <3>5. /\ Headway \in Int /\ server.toTick \in Int /\ server.toTick <= TickInterval
          /\ TickInterval \in Int /\ MaxDelay \in Int
      BY <1>4, Sizes DEF MeasuresAre
    <3>6. /\ LeastSlack + RaisingTicks * (Margin \div 100) >= GoalSlack
          /\ RaisingTime = Span(RaisingTicks) + TickInterval + MaxDelay /\ RaisingTime \in Nat
          /\ RaisingTicks \in Nat /\ Reach \in Int /\ LeastSlack \in Int /\ GoalSlack \in Int
          /\ Margin \div 100 \in Int
      BY Bounds, Sizes
    <3>7. Span(RaisingTicks) \in Int /\ RaisingTicks * (Margin \div 100) \in Int
      <4>1. RaisingTicks \in Int /\ Margin \div 100 \in Int
        BY <3>6
      <4>2. RaisingTicks * (Margin \div 100) \in Int
        BY <4>1
      <4> QED
        BY <4>1, <4>2, Spans
    <3>8. server'.estimate \in Int /\ LeastSlack <= server'.estimate
      BY <1>2 DEF InRange
    <3>9. server'.estimate + RaisingTicks * (Margin \div 100) >= GoalSlack
      BY <3>6, <3>7, <3>8
    <3>10. Headway + Span(RaisingTicks) + server.toTick + MaxDelay <= Reach
      BY <3>4, <3>5, <3>6, <3>7
    <3>11. RaisingTicks \in 0 .. RaisingTicks
      BY <3>6
    <3> QED
      BY <1>2, <1>5, <3>9, <3>10, <3>11
  <2> QED
    BY <2>1, <2>2
<1> QED
  BY <1>9, <1>10, <1>11, <1>12, <1>13, <1>14, <1>15, <1>16, <1>17, <1>18 DEF SyncInv

\* The server receives either.
LEMMA ServerReceivesKeeps == SyncInv /\ ServerReceives => SyncInv'
<1> SUFFICES ASSUME SyncInv, ServerReceives PROVE SyncInv'
  OBVIOUS
<1>1. PICK m \in up : /\ m.in = 0 /\ up' = up \ {m}
                      /\ HandlePing(m) \/ HandleCommitActions(m)
                      /\ UNCHANGED <<client, game, waiting, route, age>>
  BY DEF ServerReceives
<1> QED
  BY <1>1, HandlePingKeeps, HandleCommitActionsKeeps

-----------------------------------------------------------------------------
(* The server ticks.                                                       *)

\* An interval is assigned within a tenth, and on its side of TICK_INTERVAL.
LEMMA ClampedIs ==
    ASSUME NEW i \in Int
    PROVE  /\ Clamped(i) \in Fastest .. Slowest
           /\ i <= TickInterval => Clamped(i) <= TickInterval
           /\ i >= TickInterval => Clamped(i) >= TickInterval
<1>1. /\ Fastest \in Int /\ Slowest \in Int /\ TickInterval \in Int
      /\ Fastest <= TickInterval /\ TickInterval <= Slowest
  BY Intervals, Sizes
<1> DEFINE low == Min({i, Slowest})
<1>2. low = (IF i <= Slowest THEN i ELSE Slowest) /\ low \in Int
  BY <1>1, SmallerOfTwo
<1>3. Clamped(i) = Max({Fastest, low})
  BY DEF Clamped, Fastest, Slowest
<1> HIDE DEF low
<1>4. Clamped(i) = IF Fastest >= low THEN Fastest ELSE low
  BY <1>1, <1>2, <1>3, LargerOfTwo
<1> QED
  BY <1>1, <1>2, <1>4

\* Below the pole the interval works against the error.
LEMMA AssignedIs ==
    ASSUME NEW estimate \in Int, estimate - GoalSlack # CorrectionTime
    PROVE  /\ AssignedInterval(estimate) \in Fastest .. Slowest
           /\ estimate < GoalSlack + CorrectionTime =>
                 /\ estimate >= GoalSlack => AssignedInterval(estimate) >= TickInterval
                 /\ estimate <= GoalSlack => AssignedInterval(estimate) <= TickInterval
<1> DEFINE error == estimate - GoalSlack
           left == CorrectionTime - error
           more == (TickInterval * error) \div left
<1>1. /\ TickInterval \in Nat \ {0} /\ GoalSlack \in Nat /\ CorrectionTime \in Nat
      /\ error \in Int /\ left \in Int
  BY Sizes
<1>2. AssignedInterval(estimate) = IF error > CorrectionTime THEN Clamped(-1)
                                   ELSE Clamped(TickInterval + more)
  BY DEF AssignedInterval, Correcting
<1>3. ASSUME left > 0
      PROVE  more \in Int /\ (error >= 0 => more >= 0) /\ (error <= 0 => more <= 0)
  <2>1. left \in Nat \ {0} /\ TickInterval * error \in Int
    BY <1>1, <1>3
  <2>2. (error >= 0 => TickInterval * error >= 0) /\ (error <= 0 => TickInterval * error <= 0)
    BY <1>1
  <2>3. \A a \in Int, b \in Nat \ {0} :
            /\ a \div b \in Int
            /\ a >= 0 => a \div b >= 0
            /\ a <= 0 => a \div b <= 0
    <3>1. \A a \in Int, b \in Nat \ {0} : a \div b \in Int
      OBVIOUS
    <3>2. \A a \in Int, b \in Nat \ {0} : a >= 0 => a \div b >= 0
      BY SMTT(30)
    <3>3. \A a \in Int, b \in Nat \ {0} : a <= 0 => a \div b <= 0
      BY SMTT(30)
    <3> QED
      BY <3>1, <3>2, <3>3
  <2> DEFINE product == TickInterval * error
  <2>4. more = product \div left /\ product \in Int
    BY <2>1
  <2> HIDE DEF product, more, left
  <2>5. /\ more \in Int /\ (product >= 0 => more >= 0) /\ (product <= 0 => more <= 0)
    BY <2>1, <2>3, <2>4
  <2> QED
    BY <2>2, <2>5 DEF product
<1>4. AssignedInterval(estimate) \in Fastest .. Slowest
  <2>1. CASE error > CorrectionTime
    BY <1>2, <2>1, ClampedIs
  <2>2. CASE ~(error > CorrectionTime)
    <3>1. left > 0
      BY <1>1, <2>2
    <3> HIDE DEF more
    <3>2. TickInterval + more \in Int
      BY <1>1, <1>3, <3>1
    <3> QED
      BY <1>2, <2>2, <3>2, ClampedIs
  <2> QED
    BY <2>1, <2>2
<1>5. ASSUME estimate < GoalSlack + CorrectionTime
      PROVE  /\ estimate >= GoalSlack => AssignedInterval(estimate) >= TickInterval
             /\ estimate <= GoalSlack => AssignedInterval(estimate) <= TickInterval
  <2>1. left > 0 /\ ~(error > CorrectionTime)
    BY <1>1, <1>5
  <2> HIDE DEF more
  <2>2. /\ TickInterval + more \in Int
        /\ estimate >= GoalSlack => TickInterval + more >= TickInterval
        /\ estimate <= GoalSlack => TickInterval + more <= TickInterval
    BY <1>1, <1>3, <2>1
  <2> QED
    BY <1>2, <2>1, <2>2, ClampedIs
<1> QED
  BY <1>4, <1>5

\* What handle_tick does, with the estimate it comes to know.
LEMMA HandleTickIs ==
    ASSUME SyncInv, HandleTick
    PROVE  \E known \in Int :
             /\ server.toTick = 0
             /\ \A m \in up \cup down : m.in \in Nat \ {0}
             /\ server'.toTick = TickInterval /\ server'.estimate = known
             /\ server'.kept = Earlier({c \in server.kept : c.tick # 1})
             /\ server' \in [toTick : 0 .. TickInterval, estimate : Int,
                             kept : SUBSET [tick : Nat \ {0}, slack : Int]]
             /\ InRange(known) /\ known - GoalSlack # CorrectionTime
             /\ \/ known = server.estimate /\ \A c \in server.kept : c.tick # 1
                \/ \E c \in server.kept :
                      c.tick = 1 /\ known = RecordSlackObservation(server.estimate, c.slack)
             /\ up' = InTransit(up)
             /\ down' = InTransit(down) \cup {GameState(AssignedInterval(known))}
             /\ client' = IF Playing THEN client ELSE [client EXCEPT !.tick = @ - 1]
             /\ game' = [game EXCEPT !.last = @ - 1, !.latest = {t - 1 : t \in @}]
             /\ waiting' = Earlier(waiting)
             /\ UNCHANGED <<delay, away, disturbed, age>>
<1> DEFINE now == {c \in server.kept : c.tick = 1}
           chosen == CHOOSE c \in now : TRUE
           known == IF now = {} THEN server.estimate
                    ELSE RecordSlackObservation(server.estimate, chosen.slack)
<1>1. /\ server.toTick = 0 /\ ~Arrived(up) /\ ~Arrived(down)
      /\ known - GoalSlack # CorrectionTime
      /\ server' = [toTick |-> TickInterval, estimate |-> known, kept |-> Earlier(server.kept \ now)]
      /\ down' = InTransit(down) \cup {GameState(AssignedInterval(known))}
      /\ up' = InTransit(up)
      /\ client' = IF Playing THEN client ELSE [client EXCEPT !.tick = @ - 1]
      /\ game' = [game EXCEPT !.last = @ - 1, !.latest = {t - 1 : t \in @}]
      /\ waiting' = Earlier(waiting)
      /\ UNCHANGED <<delay, away, disturbed, age>>
  BY DEF HandleTick, route, Playing
<1>2. Types /\ Slacks
  BY DEF SyncInv
<1>3. \A m \in up \cup down : m.in \in Nat \ {0}
  BY <1>1, <1>2, PacketsUnderWay DEF Arrived
<1>4. server.kept \ now = {c \in server.kept : c.tick # 1}
  OBVIOUS
<1>5. now # {} => chosen \in server.kept /\ chosen.tick = 1
  OBVIOUS
<1>6. server.estimate \in Int /\ InRange(server.estimate)
         /\ \A c \in server.kept : c.tick \in Nat \ {0} /\ c.slack \in Int /\ InRange(c.slack)
  BY <1>2 DEF Types, Slacks
<1> HIDE DEF chosen
<1>7. known \in Int /\ InRange(known)
  <2>1. CASE now = {}
    BY <1>6, <2>1
  <2>2. CASE now # {}
    BY <1>5, <1>6, <2>2, RecordInRange
  <2> QED
    BY <2>1, <2>2
<1>8. \/ known = server.estimate /\ \A c \in server.kept : c.tick # 1
      \/ \E c \in server.kept :
            c.tick = 1 /\ known = RecordSlackObservation(server.estimate, c.slack)
  <2>1. CASE now = {}
    BY <2>1
  <2>2. CASE now # {}
    BY <1>5, <2>2
  <2> QED
    BY <2>1, <2>2
<1> HIDE DEF known, now
<1>9. Earlier({c \in server.kept : c.tick # 1}) \in SUBSET [tick : Nat \ {0}, slack : Int]
  <2>1. server.kept \subseteq [tick : Nat \ {0}, slack : Int]
    BY <1>2 DEF Types
  <2>2. \A c \in {c \in server.kept : c.tick # 1} :
            [c EXCEPT !.tick = @ - 1] \in [tick : Nat \ {0}, slack : Int]
    BY <2>1
  <2> QED
    BY <2>2 DEF Earlier
<1>10. /\ server'.toTick = TickInterval /\ server'.estimate = known
       /\ server'.kept = Earlier({c \in server.kept : c.tick # 1})
       /\ server' \in [toTick : 0 .. TickInterval, estimate : Int,
                       kept : SUBSET [tick : Nat \ {0}, slack : Int]]
  <2>1. TickInterval \in 0 .. TickInterval
    BY Sizes
  <2> QED
    BY <1>1, <1>4, <1>7, <1>9, <2>1
<1> QED
  BY <1>1, <1>3, <1>7, <1>8, <1>10

\* The tick's own commit moves the estimate: an early one raises it, and of one
\* that is not early, or was superseded, the room is known.  The snapshot says
\* fast only while the estimate is low: corrections help.
LEMMA HandleTickKeeps == SyncInv /\ HandleTick /\ CorrectionsHelp' => SyncInv'
<1> SUFFICES ASSUME SyncInv, HandleTick, CorrectionsHelp' PROVE SyncInv'
  OBVIOUS
<1>1. /\ Types /\ Stages /\ GameTimes /\ Measured /\ SnapshotTimes /\ Chain /\ Floor
      /\ CommitsKnown /\ Slacks /\ LeadBounded /\ LateCommits /\ FastSnapshots /\ Rising
  BY DEF SyncInv
<1>2. PICK known \in Int :
             /\ server.toTick = 0
             /\ \A m \in up \cup down : m.in \in Nat \ {0}
             /\ server'.toTick = TickInterval /\ server'.estimate = known
             /\ server'.kept = Earlier({c \in server.kept : c.tick # 1})
             /\ server' \in [toTick : 0 .. TickInterval, estimate : Int,
                             kept : SUBSET [tick : Nat \ {0}, slack : Int]]
             /\ InRange(known) /\ known - GoalSlack # CorrectionTime
             /\ \/ known = server.estimate /\ \A c \in server.kept : c.tick # 1
                \/ \E c \in server.kept :
                      c.tick = 1 /\ known = RecordSlackObservation(server.estimate, c.slack)
             /\ up' = InTransit(up)
             /\ down' = InTransit(down) \cup {GameState(AssignedInterval(known))}
             /\ client' = IF Playing THEN client ELSE [client EXCEPT !.tick = @ - 1]
             /\ game' = [game EXCEPT !.last = @ - 1, !.latest = {t - 1 : t \in @}]
             /\ waiting' = Earlier(waiting)
             /\ UNCHANGED <<delay, away, disturbed, age>>
  BY HandleTickIs
<1> DEFINE new == GameState(AssignedInterval(known))
<1>3. /\ new.what = "GameState" /\ new.in = delay.down /\ new.tick = 0
      /\ new.interval = AssignedInterval(known) /\ new \in GameStatePacket
  <2>1. AssignedInterval(known) \in Int
    <3>1. AssignedInterval(known) \in Fastest .. Slowest
      BY <1>2, AssignedIs
    <3> QED
      BY <3>1, Intervals
  <2>2. delay.down \in 0 .. MaxDelay
    BY <1>1 DEF Types
  <2> QED
    BY <2>1, <2>2 DEF GameState, GameStatePacket
<1> HIDE DEF new
<1>4. down' = InTransit(down) \cup {new}
  BY <1>2 DEF new
<1>5. MeasuresAre /\ TickInterval \in Nat \ {0} /\ MaxDelay \in Nat /\ MaxAbsence \in Nat
         /\ GoalSlack \in Nat /\ PingInterval \in Nat
  BY <1>1, Measures, Sizes
<1>6. /\ client'.stage = client.stage /\ client'.pingIn = client.pingIn
      /\ client'.samples = client.samples /\ client'.total = client.total
      /\ client'.tick = IF Playing THEN client.tick ELSE client.tick - 1
      /\ client' \in [stage : {"Measuring", "Starting", "Playing"}, pingIn : 0 .. PingInterval,
                      samples : Nat, total : Nat, tick : Int]
      /\ (Playing <=> Playing')
  BY <1>1, <1>2 DEF Types, Playing
<1>7. /\ game'.last = game.last - 1 /\ game'.latest = {t - 1 : t \in game.latest}
      /\ game'.nextIn = game.nextIn /\ game'.interval = game.interval
      /\ game' \in [last : Int, latest : SUBSET Int, nextIn : Int, interval : Fastest .. Slowest]
  <2>1. game \in [last : Int, latest : SUBSET Int, nextIn : Int, interval : Fastest .. Slowest]
    BY <1>1 DEF Types
  <2>2. game' = [game EXCEPT !.last = @ - 1, !.latest = {t - 1 : t \in @}]
    BY <1>2
  <2>3. game.last - 1 \in Int /\ {t - 1 : t \in game.latest} \in SUBSET Int
    BY <2>1
  <2> QED
    BY <2>1, <2>2, <2>3
<1>8. /\ waiting' \subseteq [tick : Int, interval : Int]
      /\ \A v \in waiting' : \E w \in waiting :
            w.tick \in Int /\ v = [w EXCEPT !.tick = @ - 1] /\ v.tick = w.tick - 1
              /\ v.interval = w.interval
      /\ \A w \in waiting : w.tick \in Int /\ \E v \in waiting' : v.tick = w.tick - 1
  <2>1. waiting \subseteq [tick : Int, interval : Int]
    BY <1>1 DEF Types
  <2>2. waiting' = {[w EXCEPT !.tick = @ - 1] : w \in waiting}
    BY <1>2 DEF Earlier
  <2>3. ASSUME NEW w \in waiting
        PROVE  /\ w.tick \in Int /\ [w EXCEPT !.tick = @ - 1] \in [tick : Int, interval : Int]
               /\ [w EXCEPT !.tick = @ - 1].tick = w.tick - 1
               /\ [w EXCEPT !.tick = @ - 1].interval = w.interval
    BY <2>1
  <2> QED
    BY <2>2, <2>3
<1>9. /\ \A d \in server'.kept : \E c \in server.kept :
            /\ c.tick \in Nat \ {0} /\ c.tick # 1
            /\ d = [c EXCEPT !.tick = @ - 1] /\ d.tick = c.tick - 1 /\ d.slack = c.slack
      /\ \A c \in server.kept : c.tick # 1 => \E d \in server'.kept : d.tick = c.tick - 1
  <2>1. server.kept \subseteq [tick : Nat \ {0}, slack : Int]
    BY <1>1 DEF Types
  <2>2. server'.kept = {[c EXCEPT !.tick = @ - 1] : c \in {c \in server.kept : c.tick # 1}}
    BY <1>2 DEF Earlier
  <2>3. ASSUME NEW c \in server.kept
        PROVE  /\ c.tick \in Nat \ {0} /\ [c EXCEPT !.tick = @ - 1].tick = c.tick - 1
               /\ [c EXCEPT !.tick = @ - 1].slack = c.slack
    BY <2>1
  <2> QED
    BY <2>2, <2>3
<1>10. Types'
  <2>1. InTransit(up) \subseteq PingPacket \cup CommitPacket
    BY <1>1, ShiftedPackets
  <2>2. InTransit(down) \subseteq PongPacket \cup GameStatePacket
    BY <1>1, ShiftedPackets
  <2> QED
    BY <1>1, <1>2, <1>3, <1>4, <1>6, <1>7, <1>8, <2>1, <2>2 DEF Types
<1>11. MeasuresAre'
  BY <1>10, Measures, PTL
<1>12. /\ Lead' = Lead /\ Headway' = Headway
       /\ \A t \in Int : Age(t - 1)' = Age(t) /\ SlackOf(t - 1)' = SlackOf(t)
  <2>1. Span(game.last - 1) = Span(game.last) - TickInterval /\ Span(game.last) \in Int
    BY <1>5, Spans DEF MeasuresAre
  <2>2. /\ Lead = server.toTick + Span(game.last) - game.nextIn
        /\ Headway = 9 * server.toTick + 9 * Span(game.last) - 10 * game.nextIn
        /\ Lead' = server'.toTick + Span(game'.last) - game'.nextIn
        /\ Headway' = 9 * server'.toTick + 9 * Span(game'.last) - 10 * game'.nextIn
        /\ game.nextIn \in Int
    BY <1>5, <1>11 DEF MeasuresAre
  <2>3. Lead' = Lead /\ Headway' = Headway
    <3>1. /\ server.toTick = 0 /\ server'.toTick = TickInterval /\ TickInterval \in Int
          /\ Span(game'.last) = Span(game.last) - TickInterval /\ game'.nextIn = game.nextIn
      <4>1. server.toTick = 0 /\ server'.toTick = TickInterval
        BY <1>2
      <4>2. game'.last = game.last - 1 /\ game'.nextIn = game.nextIn
        BY <1>7
      <4> QED
        BY <1>5, <2>1, <4>1, <4>2
    <3> QED
      BY <2>1, <2>2, <3>1
  <2>4. ASSUME NEW t \in Int PROVE Age(t - 1)' = Age(t) /\ SlackOf(t - 1)' = SlackOf(t)
    <3>1. Span(t - 1) = Span(t) - TickInterval /\ Span(t) \in Int
      BY Spans
    <3>2. /\ Age(t) = TickInterval - server.toTick - Span(t)
          /\ SlackOf(t) = server.toTick + Span(t) - TickInterval
      BY <1>5 DEF MeasuresAre
    <3>3. /\ Age(t - 1)' = TickInterval - server'.toTick - Span(t - 1)
          /\ SlackOf(t - 1)' = server'.toTick + Span(t - 1) - TickInterval
      <4>1. t - 1 \in Int
        OBVIOUS
      <4> QED
        BY <1>11, <4>1 DEF MeasuresAre
    <3> QED
      BY <1>2, <1>5, <3>1, <3>2, <3>3
  <2> QED
    BY <2>3, <2>4
<1>13. /\ \A n \in Commits' : \E m \in Commits :
             /\ m \in CommitPacket
             /\ n.tick = m.tick - 1 /\ n.count = m.count /\ n.in = m.in
       /\ \A n \in Snapshots' : \/ n = new
                                \/ \E m \in Snapshots :
                                      /\ m \in GameStatePacket
                                      /\ n.tick = m.tick - 1 /\ n.in = m.in
                                      /\ n.interval = m.interval
       /\ new \in Snapshots'
  <2>1. ASSUME NEW n \in Commits'
        PROVE  \E m \in Commits : /\ m \in CommitPacket
                                  /\ n.tick = m.tick - 1 /\ n.count = m.count /\ n.in = m.in
    <3>1. n \in InTransit(up) /\ n.what = "Commit"
      BY <1>2 DEF Commits
    <3>2. PICK m \in up : Later(m, n, 0, 1)
      BY <1>1, <3>1, ShiftedPackets
    <3>3. m \in CommitPacket /\ m.what = "Commit" /\ m.in \in Int
      BY <1>1, <1>2, <3>1, <3>2, KindsOf DEF Later
    <3> QED
      BY <3>2, <3>3 DEF Later, Commits
  <2>2. ASSUME NEW n \in Snapshots', n # new
        PROVE  \E m \in Snapshots : /\ m \in GameStatePacket
                                    /\ n.tick = m.tick - 1 /\ n.in = m.in
                                    /\ n.interval = m.interval
    <3>1. n \in InTransit(down) /\ n.what = "GameState"
      BY <1>4, <2>2 DEF Snapshots
    <3>2. PICK m \in down : Later(m, n, 0, 1)
      BY <1>1, <3>1, ShiftedPackets
    <3>3. m \in GameStatePacket /\ m.what = "GameState" /\ m.in \in Int
      BY <1>1, <1>2, <3>1, <3>2, KindsOf DEF Later
    <3> QED
      BY <3>2, <3>3 DEF Later, Snapshots
  <2>3. new \in Snapshots'
    BY <1>3, <1>4 DEF Snapshots
  <2> QED
    BY <2>1, <2>2, <2>3
<1>14. /\ \A m \in Commits : /\ m.tick \in Int /\ m.count \in Nat /\ m.in \in Nat \ {0}
                             /\ \E n \in Commits' : n.tick = m.tick - 1 /\ n.count = m.count
       /\ \A m \in Snapshots : /\ m.tick \in Int
                               /\ \E n \in Snapshots' : n.tick = m.tick - 1
  <2>1. ASSUME NEW m \in Commits
        PROVE  /\ m.tick \in Int /\ m.count \in Nat /\ m.in \in Nat \ {0}
               /\ \E n \in Commits' : n.tick = m.tick - 1 /\ n.count = m.count
    <3>1. PICK n \in InTransit(up) : Later(m, n, 0, 1)
      BY <1>1, ShiftedPackets DEF Commits
    <3>2. m \in CommitPacket /\ m.what = "Commit"
      BY <1>1, KindsOf DEF Commits
    <3> QED
      BY <1>2, <3>1, <3>2 DEF Later, Commits, CommitPacket
  <2>2. ASSUME NEW m \in Snapshots
        PROVE  m.tick \in Int /\ \E n \in Snapshots' : n.tick = m.tick - 1
    <3>1. PICK n \in InTransit(down) : Later(m, n, 0, 1)
      BY <1>1, ShiftedPackets DEF Snapshots
    <3>2. m \in GameStatePacket /\ m.what = "GameState"
      BY <1>1, KindsOf DEF Snapshots
    <3> QED
      BY <1>4, <3>1, <3>2 DEF Later, Snapshots, GameStatePacket
  <2> QED
    BY <2>1, <2>2
<1>15. Stages'
  <2>1. ~Playing => Commits' = {} /\ server'.kept = {} /\ known = 0 /\ game'.latest = {}
    BY <1>1, <1>2, <1>7, <1>9, <1>13 DEF Stages
  <2>2. client.stage = "Measuring" => disturbed = "No" /\ waiting' = {}
    BY <1>1, <1>8 DEF Stages
  <2> QED
    BY <1>1, <1>2, <1>6, <2>1, <2>2 DEF Stages
<1>16. GameTimes'
  BY <1>1, <1>2, <1>6, <1>7 DEF GameTimes
<1>17. Measured'
  <2>1. \A n \in up' : n.what = "Ping" => n.since + n.in <= MaxDelay
    <3> SUFFICES ASSUME NEW n \in up', n.what = "Ping" PROVE n.since + n.in <= MaxDelay
      OBVIOUS
    <3>1. PICK m \in up : Later(m, n, 0, 1)
      BY <1>1, <1>2, ShiftedPackets
    <3>2. m.what = "Ping" /\ m \in PingPacket /\ m.since + m.in <= MaxDelay
      BY <1>1, <3>1, KindsOf DEF Later, Measured
    <3>3. m.since \in Nat /\ m.in \in Nat /\ n.since = m.since + 0 /\ n.in = m.in - 0
      BY <1>2, <3>1, <3>2 DEF Later, PingPacket
    <3> QED
      BY <3>2, <3>3
  <2>2. ASSUME NEW n \in down', n.what = "Pong"
        PROVE  /\ n.since + n.in <= 2 * MaxDelay /\ n.tick <= 0
               /\ n.in <= MaxDelay + server'.toTick + Span(n.tick)
    <3>1. n \in InTransit(down)
      BY <1>3, <1>4, <2>2
    <3>2. PICK m \in down : Later(m, n, 0, 1)
      BY <1>1, <3>1, ShiftedPackets
    <3>3. /\ m.what = "Pong" /\ m \in PongPacket
          /\ m.since + m.in <= 2 * MaxDelay /\ m.tick <= 0
          /\ m.in <= MaxDelay + server.toTick + Span(m.tick)
      BY <1>1, <2>2, <3>2, KindsOf DEF Later, Measured
    <3>4. /\ m.since \in Nat /\ m.in \in Nat /\ m.tick \in Int
          /\ n.since = m.since + 0 /\ n.in = m.in - 0 /\ n.tick = m.tick - 1
      BY <1>2, <3>2, <3>3 DEF Later, PongPacket
    <3>5. Span(m.tick - 1) = Span(m.tick) - TickInterval /\ Span(m.tick) \in Int
      BY <3>4, Spans
    <3> QED
      BY <1>2, <1>5, <3>3, <3>4, <3>5
  <2>3. client'.total <= 2 * MaxDelay * client'.samples
    BY <1>1, <1>6 DEF Measured
  <2>4. client.tick \in Int /\ client.pingIn \in Int /\ away \in Nat
    BY <1>1, Sizes DEF Types
  <2>5. Span(client.tick - 1) = Span(client.tick) - TickInterval /\ Span(client.tick) \in Int
    BY <2>4, Spans
  <2>6. ASSUME client.stage = "Measuring"
        PROVE  /\ client'.tick <= 0
               /\ client'.samples >= PingSamples =>
                     Span(client'.tick) + server'.toTick + MaxDelay + PingInterval - client'.pingIn >= 0
    <3>1. client'.tick = client.tick - 1
      BY <1>6, <2>6 DEF Playing
    <3> QED
      BY <1>1, <1>2, <1>5, <1>6, <2>4, <2>5, <2>6, <3>1 DEF Measured
  <2>7. ASSUME client.stage = "Starting"
        PROVE  /\ Span(client'.tick) <= 2 * MaxDelay + InitialSlack + TickInterval
               /\ Span(client'.tick) + server'.toTick + MaxDelay + PingInterval
                     + (IF disturbed' = "No" THEN 0 ELSE MaxAbsence - away') >= 0
    <3>1. client'.tick = client.tick - 1
      BY <1>6, <2>7 DEF Playing
    <3>2. /\ Span(client.tick) <= 2 * MaxDelay + InitialSlack + TickInterval
          /\ Span(client.tick) + 0 + MaxDelay + PingInterval
                + (IF disturbed = "No" THEN 0 ELSE MaxAbsence - away) >= 0
      BY <1>1, <1>2, <2>7 DEF Measured
    <3>3. InitialSlack \in Nat
      BY Sizes
    <3> QED
      BY <1>2, <1>5, <2>4, <2>5, <3>1, <3>2, <3>3
  <2> QED
    BY <1>6, <2>1, <2>2, <2>3, <2>6, <2>7 DEF Measured
<1>18. SnapshotTimes'
  <2>1. ASSUME NEW n \in Snapshots'
        PROVE  /\ n.tick <= 0
               /\ n.in + Age(n.tick)' <= MaxDelay
               /\ disturbed' = "No" => n.in + Age(n.tick)' = delay'.down
    <3>1. CASE n = new
      <4>1. Age(0)' = 0
        <5>1. Age(0)' = TickInterval - server'.toTick - Span(0)
          BY <1>11 DEF MeasuresAre
        <5>2. Span(0) = 0
          BY Spans
        <5> QED
          BY <1>2, <1>5, <5>1, <5>2
      <4>2. delay.down \in 0 .. MaxDelay
        BY <1>1 DEF Types
      <4> QED
        BY <1>2, <1>3, <1>5, <3>1, <4>1, <4>2
    <3>2. CASE n # new
      <4>1. PICK m \in Snapshots : m \in GameStatePacket /\ n.tick = m.tick - 1 /\ n.in = m.in
        BY <1>13, <3>2
      <4>2. m.tick \in Int /\ Age(n.tick)' = Age(m.tick)
        BY <1>12, <4>1 DEF GameStatePacket
      <4>3. /\ m.tick <= 0 /\ m.in + Age(m.tick) <= MaxDelay
            /\ disturbed = "No" => m.in + Age(m.tick) = delay.down
        BY <1>1, <4>1 DEF SnapshotTimes
      <4> QED
        BY <1>2, <4>1, <4>2, <4>3
    <3> QED
      BY <3>1, <3>2
  <2>2. \A v, w \in waiting' : v = w
    BY <1>1, <1>8 DEF SnapshotTimes
  <2>3. \A w \in waiting' : w.tick <= 0
    <3> TAKE v \in waiting'
    <3>1. PICK w \in waiting : w.tick \in Int /\ v.tick = w.tick - 1
      BY <1>8
    <3>2. w.tick <= 0
      BY <1>1 DEF SnapshotTimes
    <3> QED
      BY <3>1, <3>2
  <2>4. (\A t, u \in game'.latest : t = u) /\ (game'.latest = {} => game'.interval = TickInterval)
    BY <1>1, <1>7 DEF SnapshotTimes
  <2>5. \A t \in game'.latest : t <= 0 /\ t <= game'.last
    <3> TAKE u \in game'.latest
    <3>1. PICK t \in game.latest : u = t - 1
      BY <1>7
    <3>2. t \in Int /\ game.last \in Int /\ t <= 0 /\ t <= game.last
      BY <1>1 DEF SnapshotTimes, Types
    <3> QED
      BY <1>7, <3>1, <3>2
  <2> QED
    BY <2>1, <2>2, <2>3, <2>4, <2>5 DEF SnapshotTimes
<1>19. ASSUME NEW s \in Int
       PROVE  /\ UnderWay(s) => UnderWay(s - 1)'
              /\ Taken(s) => Taken(s - 1)'
              /\ UnderWay(0)'
  <2>1. UnderWay(s) => UnderWay(s - 1)'
    BY <1>14 DEF UnderWay
  <2>2. ASSUME Taken(s) PROVE Taken(s - 1)'
    <3>1. CASE \E t \in game.latest : s <= t
      <4>1. PICK t \in game.latest : s <= t
        BY <3>1
      <4>2. t \in Int /\ t - 1 \in game'.latest
        BY <1>1, <1>7, <4>1 DEF Types
      <4>3. s - 1 <= t - 1
        BY <4>1, <4>2
      <4> QED
        BY <4>2, <4>3 DEF Taken
    <3>2. CASE \E w \in waiting : s <= w.tick
      <4>1. PICK w \in waiting : s <= w.tick
        BY <3>2
      <4>2. w.tick \in Int /\ \E v \in waiting' : v.tick = w.tick - 1
        BY <1>8, <4>1
      <4>3. s - 1 <= w.tick - 1
        BY <4>1, <4>2
      <4> QED
        BY <4>2, <4>3 DEF Taken
    <3> QED
      BY <2>2, <3>1, <3>2 DEF Taken
  <2>3. UnderWay(0)'
    BY <1>3, <1>13 DEF UnderWay
  <2> QED
    BY <2>1, <2>2, <2>3
<1>20. Chain'
  <2> SUFFICES ASSUME NEW t \in game'.latest \cup {w.tick : w \in waiting'}
                                  \cup {n.tick : n \in Snapshots'},
                      NEW s \in t .. 0
               PROVE  UnderWay(s)' \/ Taken(s)'
    BY DEF Chain
  <2>1. \/ t = 0
        \/ \E u \in game.latest \cup {w.tick : w \in waiting} \cup {m.tick : m \in Snapshots} :
              u \in Int /\ t = u - 1
    <3>1. CASE t \in game'.latest
      BY <1>1, <1>7, <3>1 DEF Types
    <3>2. CASE t \in {w.tick : w \in waiting'}
      BY <1>8, <3>2
    <3>3. CASE t \in {n.tick : n \in Snapshots'}
      <4>1. PICK n \in Snapshots' : t = n.tick
        BY <3>3
      <4>2. CASE n = new
        BY <1>3, <4>1, <4>2
      <4>3. CASE n # new
        BY <1>13, <1>14, <4>1, <4>3
      <4> QED
        BY <4>2, <4>3
    <3> QED
      BY <3>1, <3>2, <3>3
  <2>2. CASE s = 0
    BY <1>19, <2>2
  <2>3. CASE s # 0
    <3>1. PICK u \in game.latest \cup {w.tick : w \in waiting} \cup {m.tick : m \in Snapshots} :
             u \in Int /\ t = u - 1
      <4>1. t # 0
        BY <2>3
      <4> QED
        BY <2>1, <4>1
    <3>2. s \in Int /\ s + 1 \in u .. 0 /\ s + 1 \in Int /\ (s + 1) - 1 = s
      BY <2>3, <3>1
    <3>3. UnderWay(s + 1) \/ Taken(s + 1)
      BY <1>1, <3>1, <3>2 DEF Chain
    <3>4. UnderWay((s + 1) - 1)' \/ Taken((s + 1) - 1)'
      BY <1>19, <3>2, <3>3
    <3> QED
      BY <3>2, <3>4
  <2> QED
    BY <2>2, <2>3
<1>21. Floor'
  <2> SUFFICES ASSUME Playing', NEW s \in Past
               PROVE  UnderWay(s)' \/ Taken(s)' \/ Span(s) <= Span(game'.last) + StartAge
    BY DEF Floor
  <2>1. s \in Int /\ s <= 0
    BY DEF Past
  <2>2. CASE s = 0
    BY <1>19, <2>2
  <2>3. CASE s # 0
    <3>1. s + 1 \in Past /\ s + 1 \in Int /\ (s + 1) - 1 = s
      BY <2>1, <2>3 DEF Past
    <3>2. UnderWay(s + 1) \/ Taken(s + 1) \/ Span(s + 1) <= Span(game.last) + StartAge
      BY <1>1, <1>6, <3>1 DEF Floor
    <3>3. CASE UnderWay(s + 1) \/ Taken(s + 1)
      <4>1. UnderWay((s + 1) - 1)' \/ Taken((s + 1) - 1)'
        BY <1>19, <3>1, <3>3
      <4> QED
        BY <3>1, <4>1
    <3>4. CASE Span(s + 1) <= Span(game.last) + StartAge
      <4>1. Span(s + 1) = Span(s) + TickInterval /\ Span(s) \in Int
        BY <2>1, Spans
      <4>2. Span(game.last - 1) = Span(game.last) - TickInterval /\ Span(game.last) \in Int
        BY <1>5, Spans DEF MeasuresAre
      <4>3. StartAge \in Int
        BY <1>5 DEF StartAge
      <4> QED
        BY <1>5, <1>7, <3>4, <4>1, <4>2, <4>3
    <3> QED
      BY <3>2, <3>3, <3>4
  <2> QED
    BY <2>2, <2>3
<1>22. ASSUME NEW n \in Commits', NEW t \in TicksOf(n)
       PROVE  \E m \in Commits :
                 /\ t \in Int /\ t + 1 \in TicksOf(m) /\ n.in = m.in /\ m.in \in Int
                 /\ SlackOf(t)' = SlackOf(t + 1) /\ SlackOf(t + 1) \in Int
  <2>1. PICK m \in Commits : /\ m \in CommitPacket
                             /\ n.tick = m.tick - 1 /\ n.count = m.count /\ n.in = m.in
    BY <1>13
  <2>2. m.tick \in Int /\ m.count \in Int /\ m.in \in Int
    BY <1>14
  <2>3. t \in Int /\ t + 1 \in TicksOf(m) /\ (t + 1) - 1 = t
    BY <1>22, <2>1, <2>2 DEF TicksOf
  <2>4. t + 1 \in Int
    BY <2>3
  <2>5. SlackOf((t + 1) - 1)' = SlackOf(t + 1) /\ SlackOf(t + 1) \in Int
    BY <1>5, <1>12, <2>4 DEF MeasuresAre
  <2> QED
    BY <2>1, <2>2, <2>3, <2>5
<1>23. CommitsKnown'
  <2>1. ASSUME NEW c \in server'.kept, NEW d \in server'.kept, c.tick = d.tick PROVE c = d
    <3>1. PICK x \in server.kept : /\ x.tick \in Nat \ {0} /\ c = [x EXCEPT !.tick = @ - 1]
                                   /\ c.tick = x.tick - 1
      BY <1>9
    <3>2. PICK y \in server.kept : /\ y.tick \in Nat \ {0} /\ d = [y EXCEPT !.tick = @ - 1]
                                   /\ d.tick = y.tick - 1
      BY <1>9
    <3>3. x.tick = y.tick
      BY <2>1, <3>1, <3>2
    <3>4. x = y
      BY <1>1, <3>3 DEF CommitsKnown
    <3> QED
      BY <3>1, <3>2, <3>4
  <2>2. ASSUME Playing', NEW t \in 1 .. game'.last
        PROVE  \/ \E c \in server'.kept : c.tick = t
               \/ \E n \in Commits' : t \in n.tick .. n.tick + n.count - 1
               \/ Headway' + SlackOf(t)' + RaisingTime <= Reach
    <3>1. t \in Int /\ t + 1 \in 1 .. game.last /\ t + 1 # 1 /\ (t + 1) - 1 = t /\ t + 1 \in Int
      BY <1>5, <1>7 DEF MeasuresAre
    <3>2. CASE \E c \in server.kept : c.tick = t + 1
      <4>1. PICK c \in server.kept : c.tick = t + 1
        BY <3>2
      <4>2. PICK d \in server'.kept : d.tick = c.tick - 1
        BY <1>9, <3>1, <4>1
      <4>3. d.tick = t
        BY <3>1, <4>1, <4>2
      <4> QED
        BY <4>3
    <3>3. CASE \E m \in Commits : t + 1 \in TicksOf(m)
      <4>1. PICK m \in Commits : t + 1 \in TicksOf(m)
        BY <3>3
      <4>2. m.tick \in Int /\ m.count \in Nat
        BY <1>14
      <4>3. PICK n \in Commits' : n.tick = m.tick - 1 /\ n.count = m.count
        BY <1>14
      <4>4. t \in n.tick .. n.tick + n.count - 1
        BY <3>1, <4>1, <4>2, <4>3 DEF TicksOf
      <4> QED
        BY <4>4
    <3>4. CASE Headway + SlackOf(t + 1) + RaisingTime <= Reach
      <4>1. SlackOf((t + 1) - 1)' = SlackOf(t + 1)
        BY <1>12, <3>1
      <4> QED
        BY <1>12, <3>1, <3>4, <4>1
    <3> QED
      BY <1>1, <1>6, <2>2, <3>1, <3>2, <3>3, <3>4 DEF CommitsKnown
  <2>3. ASSUME NEW d \in server'.kept PROVE d.tick <= game'.last
    <3>1. PICK c \in server.kept : c.tick \in Nat \ {0} /\ d.tick = c.tick - 1
      BY <1>9
    <3>2. c.tick <= game.last /\ game.last \in Int
      BY <1>1, <1>5 DEF CommitsKnown, MeasuresAre
    <3> QED
      BY <1>7, <3>1, <3>2
  <2>4. ASSUME NEW n \in Commits' PROVE n.tick + n.count - 1 <= game'.last
    <3>1. PICK m \in Commits : n.tick = m.tick - 1 /\ n.count = m.count
      BY <1>13
    <3>2. m.tick + m.count - 1 <= game.last /\ game.last \in Int /\ m.tick \in Int /\ m.count \in Nat
      BY <1>1, <1>5, <1>14 DEF CommitsKnown, MeasuresAre
    <3> QED
      BY <1>7, <3>1, <3>2
  <2> QED
    BY <2>1, <2>2, <2>3, <2>4 DEF CommitsKnown, TicksOf
<1>24. Slacks'
  <2>1. \A d \in server'.kept : InRange(d.slack)
    BY <1>1, <1>9 DEF Slacks
  <2>2. ASSUME NEW n \in Commits', NEW t \in TicksOf(n) PROVE InRange(SlackOf(t)' - n.in)
    BY <1>1, <1>22 DEF Slacks
  <2> QED
    BY <1>2, <2>1, <2>2 DEF Slacks, TicksOf, InRange
<1>25. LeadBounded'
  BY <1>1, <1>6, <1>12 DEF LeadBounded
<1>26. LateCommits'
  <2>1. ASSUME NEW d \in server'.kept, ~Early(d.slack)
        PROVE  Headway' + SlackOf(d.tick)' + RaisingTime <= Reach
    <3>1. PICK c \in server.kept : c.tick \in Nat \ {0} /\ d.tick = c.tick - 1 /\ d.slack = c.slack
      BY <1>9
    <3>2. Headway + SlackOf(c.tick) + RaisingTime <= Reach
      BY <1>1, <2>1, <3>1 DEF LateCommits
    <3>3. SlackOf(c.tick - 1)' = SlackOf(c.tick)
      BY <1>12, <3>1
    <3> QED
      BY <1>12, <3>1, <3>2, <3>3
  <2>2. ASSUME NEW n \in Commits', NEW t \in TicksOf(n), ~Early(SlackOf(t)' - n.in)
        PROVE  Headway' + SlackOf(t)' + RaisingTime <= Reach /\ Headway' + n.in + RaisingTime <= Reach
    <3>1. PICK m \in Commits :
             /\ t \in Int /\ t + 1 \in TicksOf(m) /\ n.in = m.in
             /\ SlackOf(t)' = SlackOf(t + 1)
      BY <1>22
    <3>2. ~Early(SlackOf(t + 1) - m.in)
      BY <2>2, <3>1
    <3> QED
      BY <1>1, <1>12, <3>1, <3>2 DEF LateCommits
  <2> QED
    BY <2>1, <2>2 DEF LateCommits, TicksOf, Early
<1>27. Rising'
  <2> SUFFICES ASSUME Playing, known < GoalSlack
               PROVE  \E n \in 0 .. RaisingTicks :
                         /\ known + n * (Margin \div 100) >= GoalSlack
                         /\ Headway' + Span(n) + server'.toTick + MaxDelay <= Reach
    BY <1>2, <1>6 DEF Rising
  <2> DEFINE h == Margin \div 100
  <2>1. /\ LeastSlack + RaisingTicks * h >= GoalSlack
        /\ RaisingTime = Span(RaisingTicks) + TickInterval + MaxDelay
        /\ RaisingTime \in Nat /\ RaisingTicks \in Nat /\ Reach \in Int /\ LeastSlack \in Int
        /\ h \in Nat \ {0} /\ Margin \in Nat /\ 100 * h <= Margin
    BY Bounds
  <2>2. Headway \in Int
    BY <1>5 DEF MeasuresAre
  <2> HIDE DEF h
  <2>3. ASSUME Headway + RaisingTime <= Reach
        PROVE  \E n \in 0 .. RaisingTicks :
                  /\ known + n * h >= GoalSlack
                  /\ Headway' + Span(n) + server'.toTick + MaxDelay <= Reach
    <3>1. LeastSlack <= known
      BY <1>2 DEF InRange
    <3>2. RaisingTicks * h \in Int
      BY <2>1
    <3>3. known + RaisingTicks * h >= GoalSlack
      BY <1>5, <2>1, <3>1, <3>2
    <3>4. Span(RaisingTicks) \in Int
      BY <2>1, Spans
    <3>5. Headway' + Span(RaisingTicks) + server'.toTick + MaxDelay <= Reach
      BY <1>2, <1>5, <1>12, <2>1, <2>2, <2>3, <3>4
    <3>6. RaisingTicks \in 0 .. RaisingTicks
      BY <2>1
    <3> QED
      BY <3>3, <3>5, <3>6
  <2>4. SlackOf(1) = 0
    <3>1. Span(0 + 1) = Span(0) + TickInterval /\ Span(0) = 0
      BY Spans
    <3>2. Span(1) = TickInterval
      BY <1>5, <3>1
    <3>3. SlackOf(1) = server.toTick + Span(1) - TickInterval
      BY <1>5 DEF MeasuresAre
    <3> QED
      BY <1>2, <1>5, <3>2, <3>3
  <2>5. CASE \A c \in server.kept : c.tick # 1
    <3>1. CASE game.last < 1
      <4>1. Span(game.last) <= Span(0) /\ Span(0) = 0 /\ Span(game.last) \in Int
        <5>1. game.last <= 0 /\ game.last \in Int
          BY <1>5, <3>1 DEF MeasuresAre
        <5>2. \A m, n \in Int : m <= n => Span(m) <= Span(n)
          BY Spans
        <5>3. Span(game.last) <= Span(0)
          BY <5>1, <5>2
        <5>4. Span(0) = 0 /\ Span(game.last) \in Int
          BY <5>1, Spans
        <5> QED
          BY <5>3, <5>4
      <4>2. game.nextIn \in Int /\ game.nextIn >= -MaxAbsence
        <5>1. away \in Nat /\ away - MaxAbsence <= game.nextIn /\ game.nextIn \in Int
          BY <1>1 DEF GameTimes, Types
        <5> QED
          BY <1>5, <5>1
      <4>3. Headway = 9 * server.toTick + 9 * Span(game.last) - 10 * game.nextIn
        BY <1>5 DEF MeasuresAre
      <4>4. Headway <= 10 * MaxAbsence
        BY <1>2, <1>5, <4>1, <4>2, <4>3
      <4>5. Reach >= 10 * MaxAbsence + RaisingTime
        <5>1. InitialSlack \in Nat
          BY Sizes
        <5>2. Reach = 10 * (GoalSlack + Margin + InitialSlack + 2 * MaxDelay + MaxAbsence
                                + 2 * TickInterval) + RaisingTime
          BY Bounds
        <5> QED
          BY <1>5, <2>1, <5>1, <5>2
      <4>6. Headway + RaisingTime <= Reach
        BY <1>5, <2>1, <2>2, <4>4, <4>5
      <4> QED
        BY <2>3, <4>6 DEF h
    <3>2. CASE ~(game.last < 1)
      <4>1. 1 \in 1 .. game.last
        BY <1>5, <3>2 DEF MeasuresAre
      <4>2. CASE \E m \in Commits : 1 \in TicksOf(m)
        <5>1. PICK m \in Commits : 1 \in TicksOf(m)
          BY <4>2
        <5>2. m.in \in Nat \ {0}
          BY <1>14
        <5>3. ~Early(SlackOf(1) - m.in)
          BY <1>5, <2>1, <2>4, <5>2 DEF Early
        <5>4. Headway + m.in + RaisingTime <= Reach
          BY <1>1, <5>1, <5>3 DEF LateCommits
        <5>5. Headway + RaisingTime <= Reach
          BY <2>1, <2>2, <5>2, <5>4
        <5> QED
          BY <2>3, <5>5 DEF h
      <4>3. CASE Headway + SlackOf(1) + RaisingTime <= Reach
        <5>1. Headway + RaisingTime <= Reach
          BY <2>1, <2>2, <2>4, <4>3
        <5> QED
          BY <2>3, <5>1 DEF h
      <4> QED
        BY <1>1, <2>5, <4>1, <4>2, <4>3 DEF CommitsKnown
    <3> QED
      BY <3>1, <3>2
  <2>6. CASE \E c \in server.kept :
                c.tick = 1 /\ known = RecordSlackObservation(server.estimate, c.slack)
    <3>1. PICK c \in server.kept :
             c.tick = 1 /\ known = RecordSlackObservation(server.estimate, c.slack)
      BY <2>6
    <3>2. c.slack \in Int /\ server.estimate \in Int
      BY <1>1 DEF Types
    <3>3. CASE ~Early(c.slack)
      <4>1. Headway + SlackOf(1) + RaisingTime <= Reach
        BY <1>1, <3>1, <3>3 DEF LateCommits
      <4>2. Headway + RaisingTime <= Reach
        BY <2>1, <2>2, <2>4, <4>1
      <4> QED
        BY <2>3, <4>2 DEF h
    <3>4. CASE Early(c.slack)
      <4>1. c.slack >= GoalSlack + Margin
        BY <3>4 DEF Early
      <4>0. /\ \/ server.estimate <= known /\ known <= c.slack
               \/ c.slack <= known /\ known <= server.estimate
            /\ c.slack >= server.estimate =>
                  known >= server.estimate + (c.slack - server.estimate) \div 100
        BY <3>1, <3>2, RecordsIs
      <4>2. server.estimate < GoalSlack
        BY <1>5, <2>1, <3>2, <4>1, <4>0
      <4>3. known >= server.estimate + h
        <5> DEFINE k == (c.slack - server.estimate) \div 100
        <5>2. c.slack - server.estimate \in Int /\ c.slack - server.estimate >= Margin
                 /\ c.slack >= server.estimate
          BY <1>5, <2>1, <3>2, <4>1, <4>2
        <5>1. known >= server.estimate + k
          BY <4>0, <5>2
        <5>3. k >= h /\ k \in Int
          <6>1. \A a, b \in Int : a >= b => a \div 100 >= b \div 100 /\ a \div 100 \in Int
            OBVIOUS
          <6> QED
            BY <2>1, <5>2, <6>1 DEF h
        <5> HIDE DEF k
        <5> QED
          BY <2>1, <3>2, <5>1, <5>3
      <4>4. PICK n \in 0 .. RaisingTicks :
               /\ server.estimate + n * h >= GoalSlack
               /\ Headway + Span(n) + server.toTick + MaxDelay <= Reach
        BY <1>1, <4>2 DEF Rising, h
      <4>5. n \in Nat
        BY <2>1
      <4>6. n * h \in Int /\ (n - 1) * h = n * h - h
        BY <2>1, <4>5
      <4>7. n # 0
        <5> SUFFICES ASSUME n = 0 PROVE FALSE
          OBVIOUS
        <5>1. n * h = 0
          BY <2>1
        <5> QED
          BY <1>5, <3>2, <4>2, <4>4, <5>1
      <4>8. known + (n - 1) * h >= GoalSlack
        <5>1. (n - 1) * h \in Int
          BY <2>1, <4>6
        <5> QED
          BY <1>5, <2>1, <3>2, <4>3, <4>4, <4>6, <5>1
      <4>9. Span(n - 1) = Span(n) - TickInterval /\ Span(n) \in Int
        BY <4>5, Spans
      <4>10. Headway' + Span(n - 1) + server'.toTick + MaxDelay <= Reach
        BY <1>2, <1>5, <1>12, <2>1, <2>2, <4>4, <4>9
      <4>11. n - 1 \in 0 .. RaisingTicks
        BY <2>1, <4>5, <4>7
      <4> QED
        BY <4>8, <4>10, <4>11 DEF h
    <3> QED
      BY <3>3, <3>4
  <2> QED
    BY <1>2, <2>5, <2>6
<1>28. ASSUME NEW t \in Int, Superseded(t) PROVE Superseded(t - 1)'
  BY <1>12, <1>28 DEF Superseded
<1>29. FastSnapshots'
  <2> SUFFICES ASSUME Playing
               PROVE  /\ \A n \in Snapshots' : n.interval < TickInterval => Superseded(n.tick)'
                      /\ \A v \in waiting' : v.interval < TickInterval => Superseded(v.tick)'
                      /\ \A u \in game'.latest : game'.interval < TickInterval => Superseded(u)'
    BY <1>6 DEF FastSnapshots
  <2>1. ASSUME new.interval < TickInterval PROVE Superseded(0)'
    <3>1. known < GoalSlack
      <4> SUFFICES ASSUME known >= GoalSlack PROVE FALSE
        BY <1>5
      <4>1. AssignedInterval(known) >= TickInterval
        <5>1. CASE known > GoalSlack
          BY <1>2, <5>1 DEF CorrectionsHelp
        <5>2. CASE known = GoalSlack
          <6>1. GoalSlack < GoalSlack + CorrectionTime
            BY Sizes
          <6> QED
            BY <1>2, <5>2, <6>1, AssignedIs
        <5> QED
          BY <1>2, <1>5, <5>1, <5>2
      <4>2. AssignedInterval(known) \in Int
        BY <1>3 DEF GameStatePacket
      <4> QED
        BY <1>3, <1>5, <2>1, <4>1, <4>2
    <3>2. PICK n \in 0 .. RaisingTicks : Headway' + Span(n) + server'.toTick + MaxDelay <= Reach
      BY <1>2, <1>6, <1>27, <3>1 DEF Rising
    <3>3. Span(n) >= 0 /\ Span(n) \in Int
      <4>1. n \in Int /\ 0 <= n
        BY Bounds
      <4> QED
        BY <4>1, Spans
    <3>4. Age(0)' = 0
      <4>1. Age(0)' = TickInterval - server'.toTick - Span(0)
        BY <1>11 DEF MeasuresAre
      <4>2. Span(0) = 0
        BY Spans
      <4> QED
        BY <1>2, <1>5, <4>1, <4>2
    <3>5. Headway' + TickInterval + MaxDelay - Age(0)' <= Reach
      <4>1. Headway' \in Int /\ Reach \in Int
        BY <1>11, Bounds DEF MeasuresAre
      <4> QED
        BY <1>2, <1>5, <3>2, <3>3, <3>4, <4>1
    <3> QED
      BY <3>5 DEF Superseded
  <2>2. ASSUME NEW n \in Snapshots', n.interval < TickInterval PROVE Superseded(n.tick)'
    <3>1. CASE n = new
      BY <1>3, <2>1, <2>2, <3>1
    <3>2. CASE n # new
      <4>1. PICK m \in Snapshots : /\ m \in GameStatePacket
                                   /\ n.tick = m.tick - 1 /\ n.interval = m.interval
        BY <1>13, <3>2
      <4>2. m.tick \in Int /\ Superseded(m.tick)
        BY <1>1, <2>2, <4>1 DEF FastSnapshots, GameStatePacket
      <4> QED
        BY <1>28, <4>1, <4>2
    <3> QED
      BY <3>1, <3>2
  <2>3. ASSUME NEW v \in waiting', v.interval < TickInterval PROVE Superseded(v.tick)'
    BY <1>1, <1>8, <1>28, <2>3 DEF FastSnapshots
  <2>4. ASSUME NEW u \in game'.latest, game'.interval < TickInterval PROVE Superseded(u)'
    <3>1. PICK t \in game.latest : t \in Int /\ u = t - 1
      BY <1>1, <1>7 DEF Types
    <3> QED
      BY <1>1, <1>7, <1>28, <2>4, <3>1 DEF FastSnapshots
  <2> QED
    BY <2>2, <2>3, <2>4
<1> QED
  BY <1>10, <1>15, <1>16, <1>17, <1>18, <1>20, <1>21, <1>23, <1>24, <1>25, <1>26, <1>27, <1>29
     DEF SyncInv

-----------------------------------------------------------------------------
(* A frame runs: the game takes the snapshot that waits, and catches up.   *)

\* The ticks that are due take at least nine tenths of their time, and all
\* but the last are due.
LEMMA CaughtUpIs ==
    ASSUME NEW g \in [last : Int, latest : SUBSET Int, nextIn : Int, interval : Fastest .. Slowest]
    PROVE  /\ TicksDue(g) \in Nat
           /\ CaughtUp(g) \in [last : Int, latest : SUBSET Int, nextIn : Int,
                               interval : Fastest .. Slowest]
           /\ CaughtUp(g).last = g.last + TicksDue(g)
           /\ CaughtUp(g).latest = g.latest /\ CaughtUp(g).interval = g.interval
           /\ CaughtUp(g).nextIn > 0
           /\ CaughtUp(g).nextIn <= g.nextIn \/ CaughtUp(g).nextIn <= Slowest
           /\ 9 * Span(TicksDue(g)) <= 10 * (CaughtUp(g).nextIn - g.nextIn)
           /\ g.interval >= TickInterval => Span(TicksDue(g)) <= CaughtUp(g).nextIn - g.nextIn
           /\ \A j \in 1 .. TicksDue(g) :
                 /\ 9 * Span(j - 1) <= -(10 * g.nextIn)
                 /\ g.interval >= TickInterval => Span(j - 1) <= -g.nextIn
<1> DEFINE k == TicksDue(g)
           i == g.interval
           n == g.nextIn
<1>1. TickInterval \in Nat \ {0} /\ Fastest \in Nat \ {0} /\ Slowest \in Nat
         /\ 10 * Fastest = 9 * TickInterval
  BY Sizes, Intervals
<1>2. /\ n \in Int /\ g.last \in Int /\ i \in Nat \ {0} /\ i <= Slowest
      /\ 10 * i >= 9 * TickInterval
  BY <1>1
<1>3. /\ k \in Nat /\ k * i \in Int
      /\ n > 0 => k = 0
      /\ n <= 0 => k * i > -n /\ k * i <= -n + i
  <2>1. CASE n > 0
    BY <1>2, <2>1 DEF TicksDue
  <2>2. CASE n <= 0
    <3> DEFINE q == (-n) \div i
    <3>1. -n \in Nat
      BY <1>2, <2>2
    <3>2. q \in Nat /\ i * q <= -n /\ -n < i * q + i
      BY <1>2, <3>1, Division
    <3>3. k = q + 1
      BY <1>2, <2>2 DEF TicksDue
    <3> HIDE DEF q, k, n, i
    <3>4. k * i = i * q + i /\ i * q \in Int /\ k \in Nat
      BY <1>2, <3>2, <3>3
    <3> QED
      BY <1>2, <2>2, <3>2, <3>4
  <2> QED
    BY <1>2, <2>1, <2>2
<1>4. CaughtUp(g) = [g EXCEPT !.last = @ + k, !.nextIn = @ + k * i]
  BY DEF CaughtUp
<1> HIDE DEF k
<1>5. /\ CaughtUp(g).last = g.last + k /\ CaughtUp(g).nextIn = n + k * i
      /\ CaughtUp(g).latest = g.latest /\ CaughtUp(g).interval = g.interval
      /\ CaughtUp(g) \in [last : Int, latest : SUBSET Int, nextIn : Int,
                          interval : Fastest .. Slowest]
  <2>1. g.last + k \in Int /\ n + k * i \in Int
    BY <1>2, <1>3
  <2> QED
    BY <1>4, <2>1
<1>6. \A j \in Nat : /\ 9 * (j * TickInterval) <= 10 * (j * i)
                     /\ i >= TickInterval => j * TickInterval <= j * i
                     /\ j * TickInterval \in Int /\ j * i \in Int
  <2> HIDE DEF i
  <2> TAKE j \in Nat
  <2>1. 10 * i - 9 * TickInterval \in Nat
    BY <1>1, <1>2
  <2>2. j * (10 * i - 9 * TickInterval) >= 0
    BY <2>1
  <2>3. j * (10 * i - 9 * TickInterval) = 10 * (j * i) - 9 * (j * TickInterval)
    BY <1>1, <1>2
  <2>4. j * TickInterval \in Int /\ j * i \in Int
    BY <1>1, <1>2
  <2>5. ASSUME i >= TickInterval PROVE j * TickInterval <= j * i
    <3>1. i - TickInterval \in Nat
      BY <1>1, <1>2, <2>5
    <3>2. j * (i - TickInterval) >= 0
      BY <3>1
    <3>3. j * (i - TickInterval) = j * i - j * TickInterval
      BY <1>1, <1>2
    <3> QED
      BY <2>4, <3>2, <3>3
  <2> QED
    BY <2>2, <2>3, <2>4, <2>5
<1>7. /\ 9 * Span(k) <= 10 * (CaughtUp(g).nextIn - n)
      /\ i >= TickInterval => Span(k) <= CaughtUp(g).nextIn - n
  <2>1. /\ 9 * (k * TickInterval) <= 10 * (k * i)
        /\ i >= TickInterval => k * TickInterval <= k * i
    BY <1>3, <1>6
  <2>2. Span(k) = k * TickInterval /\ CaughtUp(g).nextIn - n = k * i
    BY <1>2, <1>3, <1>5 DEF Span
  <2> QED
    BY <2>1, <2>2
<1>8. ASSUME NEW j \in 1 .. k
      PROVE  /\ 9 * Span(j - 1) <= -(10 * n)
             /\ i >= TickInterval => Span(j - 1) <= -n
  <2>1. j - 1 \in Nat /\ k - j \in Nat /\ n <= 0
    BY <1>2, <1>3
  <2>2. /\ 9 * ((j - 1) * TickInterval) <= 10 * ((j - 1) * i)
        /\ i >= TickInterval => (j - 1) * TickInterval <= (j - 1) * i
        /\ (j - 1) * TickInterval \in Int /\ (j - 1) * i \in Int
    BY <1>6, <2>1
  <2>3. (j - 1) * i <= -n
    <3> HIDE DEF i, n
    <3>1. (k - j) * i >= 0
      BY <1>2, <2>1
    <3>2. (k - j) * i = k * i - (j - 1) * i - i
      BY <1>2, <1>3
    <3> QED
      BY <1>2, <1>3, <2>1, <2>2, <3>1, <3>2
  <2>4. Span(j - 1) = (j - 1) * TickInterval
    BY DEF Span
  <2> HIDE DEF i, n
  <2> QED
    BY <1>2, <2>2, <2>3, <2>4
<1>9. /\ CaughtUp(g).nextIn > 0
      /\ CaughtUp(g).nextIn <= n \/ CaughtUp(g).nextIn <= Slowest
  <2> HIDE DEF i, n
  <2>1. CASE n > 0
    <3>1. k * i = 0
      BY <1>2, <1>3, <2>1
    <3> QED
      BY <1>2, <1>5, <2>1, <3>1
  <2>2. CASE ~(n > 0)
    BY <1>1, <1>2, <1>3, <1>5, <2>2
  <2> QED
    BY <2>1, <2>2
<1> QED
  BY <1>3, <1>5, <1>7, <1>8, <1>9 DEF k

\* The game once a frame has taken its events, before the ticks that are due.
Resumed(g) ==
    /\ g \in [last : Int, latest : SUBSET Int, nextIn : Int, interval : Fastest .. Slowest]
    /\ -MaxAbsence <= g.nextIn /\ g.nextIn <= Slowest
    /\ g.latest \subseteq game.latest \cup {w.tick : w \in waiting}
    /\ \A t, u \in g.latest : t = u
    /\ \A t \in g.latest : t <= g.last
    /\ g.latest = {} => g.interval = TickInterval
    /\ \A s \in Int : Taken(s) => \E t \in g.latest : s <= t
    /\ \/ /\ Playing /\ g.nextIn = game.nextIn
          /\ g.last = game.last \/ (game.last < g.last /\ g.last <= 0)
          /\ g.interval < TickInterval => \A t \in g.latest : Superseded(t)
       \/ /\ client.stage = "Starting" /\ g.nextIn = 0
          /\ g.last = client.tick \/ (client.tick < g.last /\ g.last <= 0)

\* The game takes a snapshot if it is newer than its latest.
LEMMA HandleSnapshotIs ==
    ASSUME NEW g \in [last : Int, latest : SUBSET Int, nextIn : Int, interval : Fastest .. Slowest],
           NEW w \in [tick : Int, interval : Int]
    PROVE  /\ HandleSnapshot(g, w) \in [last : Int, latest : SUBSET Int, nextIn : Int,
                                        interval : Fastest .. Slowest]
           /\ HandleSnapshot(g, w).nextIn = g.nextIn
           /\ \/ /\ \E t \in g.latest : w.tick <= t
                 /\ HandleSnapshot(g, w) = g
              \/ /\ \A t \in g.latest : ~(w.tick <= t)
                 /\ HandleSnapshot(g, w).latest = {w.tick}
                 /\ HandleSnapshot(g, w).interval = Clamped(w.interval)
                 /\ HandleSnapshot(g, w).last = IF g.last >= w.tick THEN g.last ELSE w.tick
<1>1. CASE \E t \in g.latest : w.tick <= t
  BY <1>1 DEF HandleSnapshot
<1>2. CASE \A t \in g.latest : ~(w.tick <= t)
  <2>1. HandleSnapshot(g, w) = [g EXCEPT !.interval = Clamped(w.interval), !.latest = {w.tick},
                                         !.last = Max({g.last, w.tick})]
    BY <1>2 DEF HandleSnapshot
  <2>2. Max({g.last, w.tick}) = (IF g.last >= w.tick THEN g.last ELSE w.tick)
           /\ Max({g.last, w.tick}) \in Int
    BY LargerOfTwo
  <2>3. Clamped(w.interval) \in Fastest .. Slowest
    BY ClampedIs
  <2> QED
    BY <1>2, <2>1, <2>2, <2>3
<1> QED
  BY <1>1, <1>2

\* What a frame does: the game resumes with all it knows, and catches up.
LEMMA FrameIs ==
    ASSUME SyncInv, Frame
    PROVE  \E g : /\ Resumed(g)
                  /\ game' = CaughtUp(g)
                  /\ up' = IF TicksDue(g) = 0 THEN up
                           ELSE up \cup {Commit(g.last + 1, TicksDue(g))}
                  /\ client' = [NotMeasuring EXCEPT !.stage = "Playing"]
                  /\ waiting' = {} /\ away = 0 /\ age' \in {0, age}
                  /\ UNCHANGED <<server, down, delay, away, disturbed>>
<1> DEFINE starting == client.stage = "Starting"
           started == IF starting THEN StartNetSession ELSE game
           chosen == CHOOSE s \in waiting : TRUE
           g == IF waiting = {} THEN started ELSE HandleSnapshot(started, chosen)
           Games == [last : Int, latest : SUBSET Int, nextIn : Int, interval : Fastest .. Slowest]
<1>1. /\ game' = CaughtUp(g)
      /\ up' = IF TicksDue(g) = 0 THEN up ELSE up \cup {Commit(g.last + 1, TicksDue(g))}
      /\ client' = [NotMeasuring EXCEPT !.stage = "Playing"]
      /\ waiting' = {} /\ away = 0 /\ age' \in {0, age}
      /\ UNCHANGED <<server, down, delay, away, disturbed>>
  BY DEF Frame, FrameDue, route
<1>2. Playing \/ starting
  BY DEF Frame, FrameDue, Playing
<1>3. Types /\ Stages /\ GameTimes /\ SnapshotTimes /\ FastSnapshots
  BY DEF SyncInv
<1>4. TickInterval \in Fastest .. Slowest /\ TickInterval \in Nat \ {0} /\ Slowest \in Nat
         /\ MaxAbsence \in Nat
  <2>1. TickInterval \in Nat \ {0} /\ MaxAbsence \in Nat
    BY Sizes
  <2> QED
    BY <2>1, Intervals
<1>5. client.tick \in Int /\ game \in Games /\ waiting \subseteq [tick : Int, interval : Int]
  BY <1>3 DEF Types
<1>6. starting => ~Playing /\ game.latest = {}
  BY <1>3 DEF Stages, Playing
<1>7. /\ started \in Games
      /\ starting => /\ started.last = client.tick /\ started.latest = {} /\ started.nextIn = 0
                     /\ started.interval = TickInterval
      /\ ~starting => started = game
  BY <1>4, <1>5 DEF StartNetSession, NotPlaying
<1>8. started.latest = game.latest
  BY <1>6, <1>7
<1>9. -MaxAbsence <= started.nextIn /\ started.nextIn <= Slowest
  <2>1. CASE starting
    BY <1>4, <1>7, <2>1
  <2>2. CASE ~starting
    BY <1>1, <1>2, <1>3, <1>4, <1>5, <1>7, <2>2 DEF GameTimes
  <2> QED
    BY <2>1, <2>2
<1>10. /\ \A t, u \in started.latest : t = u
       /\ \A t \in started.latest : t <= started.last
       /\ started.latest = {} => started.interval = TickInterval
  BY <1>3, <1>6, <1>7 DEF SnapshotTimes
<1>11. ~starting /\ started.interval < TickInterval => \A t \in started.latest : Superseded(t)
  BY <1>2, <1>3, <1>7 DEF FastSnapshots
<1> HIDE DEF started, chosen
<1>12. CASE waiting = {}
  <2>1. g = started
    BY <1>12
  <2>2. \A s \in Int : Taken(s) => \E t \in g.latest : s <= t
    BY <1>8, <1>12, <2>1 DEF Taken
  <2> HIDE DEF g
  <2>3. Resumed(g)
    BY <1>2, <1>7, <1>8, <1>9, <1>10, <1>11, <2>1, <2>2 DEF Resumed
  <2> QED
    BY <1>1, <2>3 DEF g
<1>13. CASE waiting # {}
  <2>1. /\ chosen \in waiting /\ chosen \in [tick : Int, interval : Int]
        /\ g = HandleSnapshot(started, chosen)
    BY <1>5, <1>13 DEF chosen
  <2>2. /\ g \in Games /\ g.nextIn = started.nextIn
        /\ \/ /\ \E t \in started.latest : chosen.tick <= t
              /\ g = started
           \/ /\ \A t \in started.latest : ~(chosen.tick <= t)
              /\ g.latest = {chosen.tick}
              /\ g.interval = Clamped(chosen.interval)
              /\ g.last = IF started.last >= chosen.tick THEN started.last ELSE chosen.tick
    BY <1>7, <2>1, HandleSnapshotIs
  <2>3. chosen.tick <= 0 /\ \A w \in waiting : w = chosen
    BY <1>3, <2>1 DEF SnapshotTimes
  <2>4. chosen.tick \in Int /\ chosen.interval \in Int /\ started.last \in Int
           /\ \A t \in started.latest : t \in Int
    BY <1>7, <2>1
  <2> HIDE DEF g
  <2>5. CASE g = started /\ \E t \in started.latest : chosen.tick <= t
    <3>1. \A s \in Int : Taken(s) => \E t \in g.latest : s <= t
      <4> SUFFICES ASSUME NEW s \in Int, Taken(s) PROVE \E t \in g.latest : s <= t
        OBVIOUS
      <4>1. CASE \E t \in game.latest : s <= t
        BY <1>8, <2>5, <4>1
      <4>2. CASE \E w \in waiting : s <= w.tick
        <5>1. PICK t \in started.latest : chosen.tick <= t
          BY <2>5
        <5>2. s <= chosen.tick /\ t \in Int
          BY <2>3, <2>4, <4>2
        <5>3. s <= t
          BY <2>4, <5>1, <5>2
        <5> QED
          BY <2>5, <5>3
      <4> QED
        BY <4>1, <4>2 DEF Taken
    <3>2. Resumed(g)
      BY <1>2, <1>7, <1>8, <1>9, <1>10, <1>11, <2>5, <3>1 DEF Resumed
    <3> QED
      BY <1>1, <3>2 DEF g
  <2>6. CASE /\ \A t \in started.latest : ~(chosen.tick <= t)
             /\ g.latest = {chosen.tick}
             /\ g.interval = Clamped(chosen.interval)
             /\ g.last = IF started.last >= chosen.tick THEN started.last ELSE chosen.tick
    <3>1. \A s \in Int : Taken(s) => \E t \in g.latest : s <= t
      <4> SUFFICES ASSUME NEW s \in Int, Taken(s) PROVE s <= chosen.tick
        BY <2>6
      <4>1. CASE \E t \in game.latest : s <= t
        <5>1. PICK t \in started.latest : s <= t
          BY <1>8, <4>1
        <5>2. t \in Int /\ ~(chosen.tick <= t)
          BY <2>4, <2>6
        <5> QED
          BY <2>4, <5>1, <5>2
      <4>2. CASE \E w \in waiting : s <= w.tick
        BY <2>3, <4>2
      <4> QED
        BY <4>1, <4>2 DEF Taken
    <3>2. chosen.tick <= g.last
      BY <2>4, <2>6
    <3>3. g.last = started.last \/ (started.last < g.last /\ g.last <= 0)
      BY <2>3, <2>4, <2>6
    <3>4. ~starting /\ g.interval < TickInterval => \A t \in g.latest : Superseded(t)
      <4> SUFFICES ASSUME ~starting, g.interval < TickInterval PROVE Superseded(chosen.tick)
        BY <2>6
      <4>1. chosen.interval < TickInterval
        <5> SUFFICES ASSUME chosen.interval >= TickInterval PROVE FALSE
          BY <1>4, <2>4
        <5>1. Clamped(chosen.interval) >= TickInterval
          BY <2>4, ClampedIs
        <5>2. g.interval \in Int
          BY <1>4, <2>2
        <5> QED
          BY <1>4, <2>6, <5>1, <5>2
      <4> QED
        BY <1>2, <1>3, <2>1, <4>1 DEF FastSnapshots
    <3>5. /\ g.latest \subseteq game.latest \cup {w.tick : w \in waiting}
          /\ (\A t, u \in g.latest : t = u) /\ g.latest # {}
          /\ \A t \in g.latest : t <= g.last
      BY <2>1, <2>6, <3>2
    <3>6. Resumed(g)
      BY <1>2, <1>7, <1>9, <2>2, <3>1, <3>3, <3>4, <3>5 DEF Resumed
    <3> QED
      BY <1>1, <3>6 DEF g
  <2> QED
    BY <2>2, <2>5, <2>6
<1> QED
  BY <1>12, <1>13

\* The measures of the game before its ticks are run.
HeadOf(g) == 9 * server.toTick + 9 * Span(g.last) - 10 * g.nextIn
LeadOf(g) == server.toTick + Span(g.last) - g.nextIn
Still(g) == Playing /\ g.last = game.last /\ g.nextIn = game.nextIn

\* No snapshot is missing between the game's and those under way, so the
\* game's is no older than a tick and the delay.
LEMMA LatestIs ==
    ASSUME SyncInv, NEW g, Resumed(g), NEW u \in g.latest
    PROVE  u \in Int /\ u <= 0 /\ 0 <= Age(u) /\ Age(u) <= TickInterval + MaxDelay
<1>1. Types /\ SnapshotTimes /\ Chain
  BY DEF SyncInv
<1>2. MeasuresAre /\ TickInterval \in Nat /\ MaxDelay \in Nat
  BY <1>1, Measures, Sizes
<1>3. u \in Int /\ u <= 0
  <2>1. CASE u \in game.latest
    BY <1>1, <2>1 DEF Types, SnapshotTimes
  <2>2. CASE u \in {w.tick : w \in waiting}
    BY <1>1, <2>2 DEF Types, SnapshotTimes
  <2> QED
    BY <2>1, <2>2 DEF Resumed
<1>4. Age(u) \in Int /\ Age(u) = TickInterval - server.toTick - Span(u)
      /\ server.toTick \in Int /\ server.toTick >= 0 /\ server.toTick <= TickInterval
  BY <1>2, <1>3 DEF MeasuresAre
<1>5. Span(u) \in Int /\ Span(u) <= 0
  <2>1. Span(0) = 0 /\ Span(u) \in Int
    BY <1>3, Spans
  <2>2. \A m, n \in Int : m <= n => Span(m) <= Span(n)
    BY Spans
  <2> QED
    BY <1>3, <2>1, <2>2
<1>6. 0 <= Age(u)
  BY <1>2, <1>4, <1>5
<1>7. CASE u = 0
  <2>1. Span(u) = 0
    BY <1>7, Spans
  <2> QED
    BY <1>2, <1>3, <1>4, <1>6, <2>1
<1>8. CASE u # 0
  <2>1. u + 1 \in u .. 0 /\ u + 1 \in Int
    BY <1>3, <1>8
  <2>2. UnderWay(u + 1) \/ Taken(u + 1)
    BY <1>1, <2>1 DEF Chain, Resumed
  <2>3. ~Taken(u + 1)
    <3> SUFFICES ASSUME Taken(u + 1) PROVE FALSE
      OBVIOUS
    <3>1. PICK t \in g.latest : u + 1 <= t
      BY <2>1 DEF Resumed
    <3>2. t = u
      BY DEF Resumed
    <3> QED
      BY <1>3, <3>1, <3>2
  <2>4. PICK m \in Snapshots : m.tick = u + 1
    BY <2>2, <2>3 DEF UnderWay
  <2>5. m.in + Age(u + 1) <= MaxDelay /\ m.in \in Int /\ m.in >= 0
    <3>1. m \in GameStatePacket
      BY <1>1, KindsOf DEF Snapshots
    <3>2. m.in + Age(m.tick) <= MaxDelay
      BY <1>1 DEF SnapshotTimes
    <3>3. m.in \in Int /\ m.in >= 0
      BY <1>2, <3>1 DEF GameStatePacket
    <3> QED
      BY <2>4, <3>2, <3>3
  <2>6. Age(u + 1) \in Int /\ Age(u + 1) = TickInterval - server.toTick - Span(u + 1)
    BY <1>2, <2>1 DEF MeasuresAre
  <2>7. Span(u + 1) = Span(u) + TickInterval
    BY <1>3, Spans
  <2> QED
    BY <1>2, <1>3, <1>4, <1>5, <1>6, <2>5, <2>6, <2>7
<1> QED
  BY <1>7, <1>8

\* The client is not far behind: it knows of every snapshot that is not still
\* under way, or started later than it.
LEMMA LastIs ==
    ASSUME SyncInv, NEW g, Resumed(g)
    PROVE  /\ Span(g.last) + server.toTick + 2 * MaxDelay + PingInterval + MaxAbsence
                + 2 * TickInterval >= 0
           /\ Playing => game.last <= g.last
           /\ ~Playing => Span(g.last) + server.toTick + MaxDelay + PingInterval + MaxAbsence >= 0
<1>1. Types /\ SnapshotTimes /\ Floor /\ Measured /\ GameTimes
  BY DEF SyncInv
<1>2. /\ server.toTick \in Nat /\ TickInterval \in Nat \ {0} /\ MaxDelay \in Nat
      /\ PingInterval \in Nat /\ MaxAbsence \in Nat /\ away \in 0 .. MaxAbsence
      /\ client.tick \in Int /\ game.last \in Int /\ g.last \in Int
  BY <1>1, Sizes DEF Types, Resumed
<1>3. Span(g.last) \in Int /\ Span(game.last) \in Int /\ Span(client.tick) \in Int
  BY <1>2, Spans
<1>4. \A m, n \in Int : m <= n => Span(m) <= Span(n)
  BY Spans
<1>5. CASE client.stage = "Starting" /\ ~Playing
  <2>1. client.tick <= g.last
    BY <1>2, <1>5 DEF Resumed
  <2>2. Span(client.tick) <= Span(g.last)
    BY <1>2, <1>4, <2>1
  <2>3. Span(client.tick) + server.toTick + MaxDelay + PingInterval
             + (IF disturbed = "No" THEN 0 ELSE MaxAbsence - away) >= 0
    BY <1>1, <1>5 DEF Measured
  <2>4. Span(g.last) + server.toTick + MaxDelay + PingInterval + MaxAbsence >= 0
    BY <1>2, <1>3, <2>2, <2>3
  <2> QED
    BY <1>2, <1>3, <1>5, <2>4
<1>6. CASE Playing
  <2>1. game.last <= g.last
    BY <1>2, <1>6 DEF Resumed, Playing
  <2> DEFINE q == MaxDelay \div TickInterval
             s == (0 - q) - 1
  <2>2. q \in Nat /\ TickInterval * q <= MaxDelay /\ MaxDelay < TickInterval * q + TickInterval
    BY <1>2, Division
  <2> HIDE DEF q
  <2>3. s \in Int /\ s <= 0 /\ Span(s) = -(TickInterval * q) - TickInterval
    BY <1>2, <2>2 DEF Span
  <2>4. s \in Past /\ TickInterval * q \in Int
    BY <1>2, <2>2, <2>3 DEF Past
  <2> HIDE DEF s
  <2>5. Span(s) \in Int /\ Span(s) < -MaxDelay /\ -MaxDelay - TickInterval <= Span(s)
    BY <1>2, <2>2, <2>3, <2>4
  <2>6. ~UnderWay(s)
    <3> SUFFICES ASSUME UnderWay(s) PROVE FALSE
      OBVIOUS
    <3>1. PICK m \in Snapshots : m.tick = s
      BY DEF UnderWay
    <3>2. m \in GameStatePacket
      BY <1>1, KindsOf DEF Snapshots
    <3>3. m.in \in Int /\ m.in >= 0
      BY <1>2, <3>2 DEF GameStatePacket
    <3>4. m.in + Age(s) <= MaxDelay
      BY <1>1, <3>1 DEF SnapshotTimes
    <3>5. Age(s) = TickInterval - server.toTick - Span(s) /\ server.toTick <= TickInterval
      <4>1. MeasuresAre
        BY <1>1, Measures
      <4> QED
        BY <2>3, <4>1 DEF MeasuresAre
    <3> QED
      BY <1>2, <2>5, <3>3, <3>4, <3>5
  <2>7. CASE Taken(s)
    <3>1. PICK t \in g.latest : s <= t
      BY <2>3, <2>7 DEF Resumed
    <3>2. t \in Int /\ t <= g.last
      BY DEF Resumed
    <3>3. Span(s) <= Span(g.last)
      BY <1>2, <1>4, <2>3, <3>1, <3>2
    <3> QED
      BY <1>2, <1>3, <1>6, <2>1, <2>5, <3>3
  <2>8. CASE Span(s) <= Span(game.last) + StartAge
    <3>1. Span(game.last) <= Span(g.last)
      BY <1>2, <1>4, <2>1
    <3>2. StartAge = MaxDelay + PingInterval + MaxAbsence + TickInterval
      BY DEF StartAge
    <3> QED
      BY <1>2, <1>3, <1>6, <2>1, <2>5, <2>8, <3>1, <3>2
  <2> QED
    BY <1>1, <1>6, <2>4, <2>6, <2>7, <2>8 DEF Floor
<1> QED
  BY <1>5, <1>6 DEF Resumed, Playing

\* Where the game stands when it takes up its ticks: as before, or, at the
\* start of the session or after a jump, with room to spare.
LEMMA HeadIs ==
    ASSUME SyncInv, NEW g, Resumed(g)
    PROVE  /\ HeadOf(g) \in Int /\ LeadOf(g) \in Int
           /\ 9 * LeadOf(g) <= Reach + 2 * TickInterval
           /\ g.interval < TickInterval => HeadOf(g) <= Reach
           /\ Still(g) => HeadOf(g) = Headway
           /\ ~Still(g) =>
                 /\ HeadOf(g) + TickInterval + MaxDelay + RaisingTime <= Reach
                 /\ server.kept = {}
                 /\ \A m \in Commits : \A t \in TicksOf(m) : t <= 0
                 /\ \A t \in 1 .. g.last : HeadOf(g) + SlackOf(t) + RaisingTime <= Reach
<1>1. Types /\ Stages /\ Measured /\ CommitsKnown /\ LeadBounded /\ MeasuresAre
  BY Measures DEF SyncInv
<1>2. /\ TickInterval \in Nat \ {0} /\ MaxDelay \in Nat /\ MaxAbsence \in Nat
      /\ InitialSlack \in Nat /\ GoalSlack \in Nat
  BY Sizes
<1>3. /\ server.toTick \in Int /\ server.toTick >= 0 /\ server.toTick <= TickInterval
      /\ g.last \in Int /\ g.nextIn \in Int /\ g.interval \in Int /\ client.tick \in Int
      /\ game.last \in Int
  BY <1>1, <1>2, Intervals DEF MeasuresAre, Resumed, Types
<1>4. Span(g.last) \in Int /\ Span(client.tick) \in Int /\ Span(0) = 0
  BY <1>3, Spans
<1>5. \A m, n \in Int : m <= n => Span(m) <= Span(n)
  BY Spans
<1>6. /\ RaisingTime \in Nat /\ Reach \in Nat /\ Margin \in Nat
      /\ Reach = 10 * (GoalSlack + Margin + InitialSlack + 2 * MaxDelay + MaxAbsence
                          + 2 * TickInterval) + RaisingTime
  BY Bounds
<1>7. /\ HeadOf(g) = 9 * server.toTick + 9 * Span(g.last) - 10 * g.nextIn
      /\ LeadOf(g) = server.toTick + Span(g.last) - g.nextIn
      /\ HeadOf(g) \in Int /\ LeadOf(g) \in Int
  BY <1>3, <1>4 DEF HeadOf, LeadOf
<1>8. CASE Still(g)
  <2>1. HeadOf(g) = Headway /\ LeadOf(g) = Lead /\ Playing
    BY <1>1, <1>7, <1>8 DEF Still, MeasuresAre
  <2>2. 9 * LeadOf(g) <= Reach + 2 * TickInterval
    BY <1>1, <2>1 DEF LeadBounded
  <2>3. ASSUME g.interval < TickInterval PROVE HeadOf(g) <= Reach
    <3>1. g.latest # {}
      BY <1>2, <2>3 DEF Resumed
    <3>2. PICK u \in g.latest : TRUE
      BY <3>1
    <3>3. Superseded(u)
      BY <2>1, <2>3 DEF Resumed, Playing
    <3>4. u \in Int /\ Age(u) <= TickInterval + MaxDelay
      BY LatestIs
    <3>5. Age(u) \in Int
      BY <1>1, <3>4 DEF MeasuresAre
    <3>6. Headway + TickInterval + MaxDelay - Age(u) <= Reach
      BY <3>3 DEF Superseded
    <3> QED
      BY <1>2, <1>6, <1>7, <2>1, <3>4, <3>5, <3>6
  <2> QED
    BY <1>7, <1>8, <2>1, <2>2, <2>3
<1>9. CASE Playing /\ ~Still(g)
  <2>1. game.last < g.last /\ g.last <= 0 /\ -MaxAbsence <= g.nextIn
    BY <1>9 DEF Resumed, Still, Playing
  <2>2. Span(g.last) <= 0
    BY <1>3, <1>4, <1>5, <2>1
  <2>3. /\ HeadOf(g) <= 9 * TickInterval + 10 * MaxAbsence
        /\ LeadOf(g) <= TickInterval + MaxAbsence
    BY <1>2, <1>3, <1>4, <1>7, <2>1, <2>2
  <2>4. /\ 9 * LeadOf(g) <= Reach + 2 * TickInterval /\ HeadOf(g) <= Reach
        /\ HeadOf(g) + TickInterval + MaxDelay + RaisingTime <= Reach
    BY <1>2, <1>6, <1>7, <2>3
  <2>5. server.kept = {}
    <3> SUFFICES ASSUME NEW c \in server.kept PROVE FALSE
      OBVIOUS
    <3>1. c.tick \in Nat \ {0} /\ c.tick <= game.last
      BY <1>1 DEF Types, CommitsKnown
    <3> QED
      BY <1>3, <2>1, <3>1
  <2>6. \A m \in Commits : \A t \in TicksOf(m) : t <= 0
    <3> TAKE m \in Commits
    <3> TAKE t \in TicksOf(m)
    <3>1. m \in CommitPacket /\ m.tick + m.count - 1 <= game.last
      BY <1>1, KindsOf DEF CommitsKnown, Commits
    <3>2. m.tick \in Int /\ m.count \in Int
      BY <3>1 DEF CommitPacket
    <3>3. t \in Int /\ t <= m.tick + m.count - 1
      BY <3>2 DEF TicksOf
    <3> QED
      BY <1>3, <2>1, <3>1, <3>2, <3>3
  <2>7. 1 .. g.last = {}
    BY <1>3, <2>1
  <2> QED
    BY <1>7, <1>9, <2>4, <2>5, <2>6, <2>7
<1>10. CASE ~Playing
  <2>1. /\ client.stage = "Starting" /\ g.nextIn = 0
        /\ g.last = client.tick \/ g.last <= 0
    BY <1>10 DEF Resumed
  <2>2. Span(g.last) <= 2 * MaxDelay + InitialSlack + TickInterval
    <3>1. CASE g.last = client.tick
      BY <1>1, <2>1, <3>1 DEF Measured
    <3>2. CASE g.last <= 0
      <4>1. Span(g.last) <= 0
        BY <1>3, <1>4, <1>5, <3>2
      <4> QED
        BY <1>2, <1>4, <4>1
    <3> QED
      BY <2>1, <3>1, <3>2
  <2>3. /\ HeadOf(g) <= 9 * (2 * TickInterval + 2 * MaxDelay + InitialSlack)
        /\ LeadOf(g) <= 2 * TickInterval + 2 * MaxDelay + InitialSlack
    BY <1>2, <1>3, <1>4, <1>7, <2>1, <2>2
  <2>4. /\ 9 * LeadOf(g) <= Reach + 2 * TickInterval /\ HeadOf(g) <= Reach
        /\ HeadOf(g) + TickInterval + MaxDelay + RaisingTime <= Reach
    BY <1>2, <1>6, <1>7, <2>3
  <2>5. server.kept = {} /\ Commits = {}
    BY <1>1, <1>10 DEF Stages
  <2>6. ASSUME NEW t \in 1 .. g.last PROVE HeadOf(g) + SlackOf(t) + RaisingTime <= Reach
    <3>1. t \in Int /\ t <= g.last
      BY <1>3
    <3>2. Span(t) \in Int /\ Span(t) <= Span(g.last)
      <4>1. Span(t) <= Span(g.last)
        BY <1>3, <1>5, <3>1
      <4> QED
        BY <3>1, <4>1, Spans
    <3>3. SlackOf(t) \in Int /\ SlackOf(t) = server.toTick + Span(t) - TickInterval
      BY <1>1, <3>1 DEF MeasuresAre
    <3>4. SlackOf(t) <= 2 * MaxDelay + InitialSlack + TickInterval
      BY <1>2, <1>3, <1>4, <2>2, <3>2, <3>3
    <3> QED
      BY <1>2, <1>6, <1>7, <2>3, <3>3, <3>4
  <2> QED
    BY <1>7, <1>10, <2>4, <2>5, <2>6 DEF Still
<1> QED
  BY <1>8, <1>9, <1>10

\* The ticks that are due, one by one: none arrives too early or too late, and
\* one that is not early leaves time to raise the estimate.
LEMMA DueIs ==
    ASSUME SyncInv, NEW g, Resumed(g), NEW j \in 1 .. TicksDue(g)
    PROVE  /\ g.last + j \in Int /\ SlackOf(g.last + j) \in Int
           /\ InRange(SlackOf(g.last + j) - delay.up)
           /\ ~Early(SlackOf(g.last + j) - delay.up) =>
                 /\ HeadOf(g) + SlackOf(g.last + j) + RaisingTime <= Reach
                 /\ HeadOf(g) + delay.up + RaisingTime <= Reach
<1> DEFINE t == g.last + j
           slack == SlackOf(t)
<1>1. Types /\ MeasuresAre
  BY Measures DEF SyncInv
<1>2. g \in [last : Int, latest : SUBSET Int, nextIn : Int, interval : Fastest .. Slowest]
         /\ -MaxAbsence <= g.nextIn
  BY DEF Resumed
<1>3. /\ TicksDue(g) \in Nat
      /\ 9 * Span(j - 1) <= -(10 * g.nextIn)
      /\ g.interval >= TickInterval => Span(j - 1) <= -g.nextIn
  BY <1>2, CaughtUpIs
<1>4. /\ TickInterval \in Nat \ {0} /\ MaxDelay \in Nat /\ MaxAbsence \in Nat
      /\ InitialSlack \in Nat /\ GoalSlack \in Nat /\ PingInterval \in Nat
  BY Sizes
<1>5. /\ server.toTick \in Int /\ server.toTick >= 0 /\ server.toTick <= TickInterval
      /\ g.last \in Int /\ g.nextIn \in Int /\ g.interval \in Int /\ j \in Int /\ j >= 1
  BY <1>1, <1>2, <1>3, <1>4, Intervals DEF MeasuresAre
<1>6. delay.up \in Int /\ 0 <= delay.up /\ delay.up <= MaxDelay
  BY <1>1, <1>4 DEF Types
<1>7. /\ RaisingTime \in Nat /\ Reach \in Nat /\ Margin \in Nat /\ LeastSlack \in Int
      /\ Reach = 10 * (GoalSlack + Margin + InitialSlack + 2 * MaxDelay + MaxAbsence
                          + 2 * TickInterval) + RaisingTime
  BY Bounds
<1>8. t \in Int /\ slack \in Int /\ slack = server.toTick + Span(t) - TickInterval
  <2>1. t \in Int
    BY <1>5
  <2> HIDE DEF t
  <2> QED
    BY <1>1, <2>1 DEF MeasuresAre
<1>9. /\ Span(t) = Span(g.last) + Span(j - 1) + TickInterval
      /\ Span(g.last) \in Int /\ Span(j - 1) \in Int /\ Span(j - 1) >= 0
  <2>1. j - 1 \in Int /\ g.last + (j - 1) \in Int /\ (g.last + (j - 1)) + 1 = t /\ 0 <= j - 1
    BY <1>5
  <2>2. Span((g.last + (j - 1)) + 1) = Span(g.last + (j - 1)) + TickInterval
    BY <2>1, Spans
  <2>3. Span(g.last + (j - 1)) = Span(g.last) + Span(j - 1)
    BY <1>5, <2>1, Spans
  <2>4. Span(g.last) \in Int /\ Span(j - 1) \in Int /\ Span(0) = 0
    BY <1>5, <2>1, Spans
  <2>5. \A m, n \in Int : m <= n => Span(m) <= Span(n)
    BY Spans
  <2>6. Span(0) <= Span(j - 1)
    BY <2>1, <2>5
  <2> QED
    BY <2>1, <2>2, <2>3, <2>4, <2>6
<1> HIDE DEF slack, t
<1>10. slack = server.toTick + Span(g.last) + Span(j - 1)
  BY <1>4, <1>5, <1>8, <1>9
<1>11. /\ HeadOf(g) = 9 * server.toTick + 9 * Span(g.last) - 10 * g.nextIn
       /\ LeadOf(g) = server.toTick + Span(g.last) - g.nextIn
       /\ HeadOf(g) \in Int /\ LeadOf(g) \in Int
       /\ 9 * LeadOf(g) <= Reach + 2 * TickInterval
       /\ g.interval < TickInterval => HeadOf(g) <= Reach
  BY HeadIs DEF HeadOf, LeadOf
<1>12. 9 * slack <= Reach + 2 * TickInterval
  <2> DEFINE done == Span(j - 1)
             start == server.toTick + Span(g.last)
  <2>1. done \in Int /\ start \in Int /\ slack = start + done /\ 9 * done <= -(10 * g.nextIn)
    BY <1>3, <1>5, <1>9, <1>10
  <2>2. HeadOf(g) = 9 * start - 10 * g.nextIn /\ LeadOf(g) = start - g.nextIn
    BY <1>5, <1>9, <1>11
  <2>3. g.interval >= TickInterval => done <= -g.nextIn
    BY <1>3
  <2> HIDE DEF done, start
  <2>4. CASE g.interval < TickInterval
    <3>1. HeadOf(g) <= Reach
      BY <1>11, <2>4
    <3> QED
      BY <1>4, <1>5, <1>7, <2>1, <2>2, <3>1
  <2>5. CASE ~(g.interval < TickInterval)
    <3>1. done <= -g.nextIn
      BY <1>4, <1>5, <2>3, <2>5
    <3>2. slack <= LeadOf(g) /\ LeadOf(g) \in Int /\ slack \in Int
      BY <1>5, <2>1, <2>2, <3>1
    <3>3. 9 * LeadOf(g) <= Reach + 2 * TickInterval
      BY <1>11
    <3> QED
      BY <1>4, <1>7, <3>2, <3>3
  <2> QED
    BY <2>4, <2>5
<1>13. LeastSlack <= slack - delay.up
  <2>1. Span(g.last) + server.toTick + 2 * MaxDelay + PingInterval + MaxAbsence
             + 2 * TickInterval >= 0
    BY LastIs
  <2>2. LeastSlack = -(3 * MaxDelay + PingInterval + MaxAbsence + 2 * TickInterval)
    BY DEF LeastSlack
  <2> QED
    BY <1>4, <1>5, <1>6, <1>8, <1>9, <1>10, <2>1, <2>2
<1>14. InRange(slack - delay.up)
  <2>1. 9 * (slack - delay.up) <= Reach + 2 * TickInterval
    BY <1>4, <1>6, <1>7, <1>8, <1>12
  <2> QED
    BY <1>13, <2>1 DEF InRange
<1>15. ASSUME ~Early(slack - delay.up)
       PROVE  /\ HeadOf(g) + slack + RaisingTime <= Reach
              /\ HeadOf(g) + delay.up + RaisingTime <= Reach
  <2>1. slack < GoalSlack + Margin + MaxDelay
    BY <1>4, <1>6, <1>7, <1>8, <1>15 DEF Early
  <2>2. HeadOf(g) <= 9 * slack + 10 * MaxAbsence
    BY <1>2, <1>4, <1>5, <1>8, <1>9, <1>10, <1>11
  <2> QED
    BY <1>4, <1>6, <1>7, <1>8, <1>11, <2>1, <2>2
<1> QED
  BY <1>8, <1>14, <1>15 DEF slack, t

\* A frame's ticks do not move the clock by more than the time they are late,
\* and their commits are early, or leave the room.
LEMMA FrameKeeps == SyncInv /\ Frame => SyncInv'
<1> SUFFICES ASSUME SyncInv, Frame PROVE SyncInv'
  OBVIOUS
<1>1. /\ Types /\ Stages /\ GameTimes /\ Measured /\ SnapshotTimes /\ Chain /\ Floor
      /\ CommitsKnown /\ Slacks /\ LeadBounded /\ LateCommits /\ FastSnapshots /\ Rising
      /\ MeasuresAre
  BY Measures DEF SyncInv
<1>2. PICK g : /\ Resumed(g)
               /\ game' = CaughtUp(g)
               /\ up' = IF TicksDue(g) = 0 THEN up
                        ELSE up \cup {Commit(g.last + 1, TicksDue(g))}
               /\ client' = [NotMeasuring EXCEPT !.stage = "Playing"]
               /\ waiting' = {} /\ away = 0 /\ age' \in {0, age}
               /\ UNCHANGED <<server, down, delay, away, disturbed>>
  BY FrameIs
<1> DEFINE k == TicksDue(g)
           new == Commit(g.last + 1, k)
<1>3. g \in [last : Int, latest : SUBSET Int, nextIn : Int, interval : Fastest .. Slowest]
         /\ -MaxAbsence <= g.nextIn /\ g.nextIn <= Slowest
  BY <1>2 DEF Resumed
<1>4. /\ k \in Nat
      /\ game' \in [last : Int, latest : SUBSET Int, nextIn : Int, interval : Fastest .. Slowest]
      /\ game'.last = g.last + k /\ game'.latest = g.latest /\ game'.interval = g.interval
      /\ game'.nextIn > 0 /\ (game'.nextIn <= g.nextIn \/ game'.nextIn <= Slowest)
      /\ 9 * Span(k) <= 10 * (game'.nextIn - g.nextIn)
      /\ g.interval >= TickInterval => Span(k) <= game'.nextIn - g.nextIn
  BY <1>2, <1>3, CaughtUpIs
<1>5. /\ TickInterval \in Nat \ {0} /\ MaxDelay \in Nat /\ MaxAbsence \in Nat
      /\ PingInterval \in Nat /\ Slowest \in Nat /\ 10 * Slowest = 11 * TickInterval
      /\ RaisingTime \in Nat /\ Reach \in Nat
  BY Sizes, Intervals, Bounds
<1>6. /\ client'.stage = "Playing" /\ client'.samples = 0 /\ client'.total = 0
      /\ client' \in [stage : {"Measuring", "Starting", "Playing"}, pingIn : 0 .. PingInterval,
                      samples : Nat, total : Nat, tick : Int]
      /\ Playing'
  <2>1. 0 \in 0 .. PingInterval
    BY <1>5
  <2> QED
    BY <1>2, <2>1 DEF NotMeasuring, Playing
<1>7. /\ new.what = "Commit" /\ new.in = delay.up /\ new.tick = g.last + 1 /\ new.count = k
      /\ k # 0 => new \in CommitPacket
  <2>1. delay.up \in 0 .. MaxDelay /\ g.last + 1 \in Int
    BY <1>1, <1>3 DEF Types
  <2> QED
    BY <1>4, <2>1 DEF Commit, CommitPacket
<1>8. /\ up' = IF k = 0 THEN up ELSE up \cup {new}
      /\ Snapshots' = Snapshots
      /\ Commits \subseteq Commits'
      /\ \A m \in Commits' : m \in Commits \/ (m = new /\ k # 0)
      /\ k # 0 => new \in Commits'
  BY <1>2, <1>7 DEF Commits, Snapshots
<1> HIDE DEF new, k
<1>9. Types'
  <2>1. age' \in 0 .. Calm
    <3>1. 0 \in 0 .. Calm /\ age \in 0 .. Calm
      BY <1>1, Sizes DEF Types
    <3> QED
      BY <1>2, <3>1
  <2>2. up' \subseteq PingPacket \cup CommitPacket
    BY <1>1, <1>7, <1>8 DEF Types
  <2>3. waiting' \subseteq [tick : Int, interval : Int]
    BY <1>2
  <2> QED
    BY <1>1, <1>2, <1>4, <1>6, <2>1, <2>2, <2>3 DEF Types
<1>10. MeasuresAre'
  BY <1>9, Measures, PTL
<1>11. /\ \A t : SlackOf(t)' = SlackOf(t) /\ Age(t)' = Age(t)
       /\ server'.toTick = server.toTick /\ server'.kept = server.kept
       /\ server'.estimate = server.estimate
  BY <1>2 DEF SlackOf, Age
<1>12. /\ HeadOf(g) = 9 * server.toTick + 9 * Span(g.last) - 10 * g.nextIn
       /\ LeadOf(g) = server.toTick + Span(g.last) - g.nextIn
       /\ HeadOf(g) \in Int /\ LeadOf(g) \in Int
       /\ 9 * LeadOf(g) <= Reach + 2 * TickInterval
       /\ g.interval < TickInterval => HeadOf(g) <= Reach
       /\ Still(g) => HeadOf(g) = Headway
       /\ ~Still(g) =>
             /\ HeadOf(g) + TickInterval + MaxDelay + RaisingTime <= Reach
             /\ server.kept = {}
             /\ \A m \in Commits : \A t \in TicksOf(m) : t <= 0
             /\ \A t \in 1 .. g.last : HeadOf(g) + SlackOf(t) + RaisingTime <= Reach
  BY <1>2, HeadIs DEF HeadOf, LeadOf
<1>13. /\ Headway' \in Int /\ Lead' \in Int
       /\ Headway' = 9 * server.toTick + 9 * Span(game'.last) - 10 * game'.nextIn
       /\ Lead' = server.toTick + Span(game'.last) - game'.nextIn
       /\ game'.last \in Int /\ game'.nextIn \in Int
  BY <1>10, <1>11 DEF MeasuresAre
<1>14. /\ g.last \in Int /\ g.nextIn \in Int /\ g.interval \in Int /\ server.toTick \in Int
       /\ server.toTick >= 0 /\ server.toTick <= TickInterval
  BY <1>1, <1>3, <1>5, Intervals DEF MeasuresAre
<1>15. Span(game'.last) = Span(g.last) + Span(k) /\ Span(g.last) \in Int /\ Span(k) \in Int
          /\ Span(k) >= 0
  <2>1. k \in Int /\ 0 <= k
    BY <1>4
  <2>2. Span(g.last + k) = Span(g.last) + Span(k)
    BY <1>14, <2>1, Spans
  <2>3. Span(g.last) \in Int /\ Span(k) \in Int /\ Span(0) = 0
    BY <1>14, <2>1, Spans
  <2>4. Span(0) <= Span(k)
    <3>1. \A m, n \in Int : m <= n => Span(m) <= Span(n)
      BY Spans
    <3> QED
      BY <2>1, <3>1
  <2> QED
    BY <1>4, <2>2, <2>3, <2>4
<1>16. Headway' <= HeadOf(g)
  BY <1>4, <1>12, <1>13, <1>14, <1>15
<1>17. \A s \in Int : /\ UnderWay(s)' <=> UnderWay(s)
                      /\ Taken(s) => Taken(s)'
  <2>1. \A s \in Int : UnderWay(s)' <=> UnderWay(s)
    BY <1>8 DEF UnderWay
  <2>2. \A s \in Int : Taken(s) => \E t \in g.latest : s <= t
    BY <1>2 DEF Resumed
  <2>3. \A s \in Int : Taken(s) => Taken(s)'
    BY <1>4, <2>2 DEF Taken
  <2> QED
    BY <2>1, <2>3
<1>18. game'.nextIn <= Slowest
  BY <1>3, <1>4, <1>5, <1>13, <1>14
<1>19. Stages'
  BY <1>1, <1>2, <1>6 DEF Stages
<1>20. GameTimes'
  <2>1. away' - MaxAbsence <= game'.nextIn /\ game'.nextIn >= 0
    BY <1>2, <1>4, <1>5, <1>13
  <2> QED
    BY <1>18, <2>1 DEF GameTimes
<1>21. Measured'
  <2>1. \A m \in up' : m.what = "Ping" => m.since + m.in <= MaxDelay
    BY <1>1, <1>7, <1>8 DEF Measured
  <2>2. \A m \in down' : m.what = "Pong" =>
           m.since + m.in <= 2 * MaxDelay /\ m.tick <= 0
             /\ m.in <= MaxDelay + server'.toTick + Span(m.tick)
    BY <1>1, <1>2 DEF Measured
  <2>3. client'.total <= 2 * MaxDelay * client'.samples
    BY <1>5, <1>6
  <2> QED
    BY <1>6, <2>1, <2>2, <2>3 DEF Measured
<1>22. SnapshotTimes'
  <2>1. \A t \in g.latest : t <= 0 /\ t \in Int /\ t <= g.last
    BY <1>2, LatestIs DEF Resumed
  <2>2. \A t \in game'.latest : t <= 0 /\ t <= game'.last
    BY <1>4, <1>14, <2>1
  <2>3. (\A t, u \in game'.latest : t = u) /\ (game'.latest = {} => game'.interval = TickInterval)
    BY <1>2, <1>4 DEF Resumed
  <2>4. \A m \in Snapshots' :
           /\ m.tick <= 0
           /\ m.in + Age(m.tick)' <= MaxDelay
           /\ disturbed' = "No" => m.in + Age(m.tick)' = delay'.down
    BY <1>1, <1>2, <1>8, <1>11 DEF SnapshotTimes
  <2> QED
    BY <1>2, <2>2, <2>3, <2>4 DEF SnapshotTimes
<1>23. Chain'
  <2> SUFFICES ASSUME NEW t \in game'.latest \cup {w.tick : w \in waiting'}
                                  \cup {m.tick : m \in Snapshots'},
                      NEW s \in t .. 0
               PROVE  UnderWay(s)' \/ Taken(s)'
    BY DEF Chain
  <2>1. t \in game.latest \cup {w.tick : w \in waiting} \cup {m.tick : m \in Snapshots}
    BY <1>2, <1>4, <1>8 DEF Resumed
  <2>2. UnderWay(s) \/ Taken(s)
    BY <1>1, <2>1 DEF Chain
  <2>3. s \in Int
    OBVIOUS
  <2> QED
    BY <1>17, <2>2, <2>3
<1>24. Floor'
  <2> SUFFICES ASSUME NEW s \in Past
               PROVE  UnderWay(s)' \/ Taken(s)' \/ Span(s) <= Span(game'.last) + StartAge
    BY DEF Floor
  <2>1. s \in Int /\ s <= 0
    BY DEF Past
  <2>2. Span(s) \in Int /\ Span(0) = 0
    BY <2>1, Spans
  <2>3. \A m, n \in Int : m <= n => Span(m) <= Span(n)
    BY Spans
  <2>4. StartAge \in Int /\ StartAge = MaxDelay + PingInterval + MaxAbsence + TickInterval
    BY <1>5 DEF StartAge
  <2>5. CASE Playing
    <3>1. UnderWay(s) \/ Taken(s) \/ Span(s) <= Span(game.last) + StartAge
      BY <1>1, <2>5 DEF Floor
    <3>2. game.last <= g.last /\ game.last \in Int
      BY <1>1, <1>2, <2>5, LastIs DEF MeasuresAre
    <3>3. Span(game.last) <= Span(g.last) /\ Span(game.last) \in Int
      <4>1. Span(game.last) <= Span(g.last)
        BY <1>14, <2>3, <3>2
      <4> QED
        BY <3>2, <4>1, Spans
    <3>4. Span(s) <= Span(game.last) + StartAge => Span(s) <= Span(game'.last) + StartAge
      BY <1>15, <2>2, <2>4, <3>3
    <3> QED
      BY <1>17, <2>1, <3>1, <3>4
  <2>6. CASE ~Playing
    <3>1. Span(g.last) + server.toTick + MaxDelay + PingInterval + MaxAbsence >= 0
      BY <1>2, <2>6, LastIs
    <3>2. Span(s) <= 0
      BY <2>1, <2>2, <2>3
    <3> QED
      BY <1>5, <1>14, <1>15, <2>2, <2>4, <3>1, <3>2
  <2> QED
    BY <2>5, <2>6
<1>25. ASSUME NEW t \in g.last + 1 .. game'.last
       PROVE  /\ t \in Int /\ k # 0 /\ t \in TicksOf(new) /\ SlackOf(t) \in Int
              /\ InRange(SlackOf(t) - delay.up)
              /\ ~Early(SlackOf(t) - delay.up) =>
                    /\ HeadOf(g) + SlackOf(t) + RaisingTime <= Reach
                    /\ HeadOf(g) + delay.up + RaisingTime <= Reach
  <2>1. t \in Int /\ t - g.last \in 1 .. k /\ g.last + (t - g.last) = t
    BY <1>4, <1>14, <1>25
  <2>2. k # 0
    BY <1>4, <2>1
  <2>3. t \in TicksOf(new)
    BY <1>4, <1>7, <1>14, <1>25 DEF TicksOf
  <2>4. /\ SlackOf(g.last + (t - g.last)) \in Int
        /\ InRange(SlackOf(g.last + (t - g.last)) - delay.up)
        /\ ~Early(SlackOf(g.last + (t - g.last)) - delay.up) =>
              /\ HeadOf(g) + SlackOf(g.last + (t - g.last)) + RaisingTime <= Reach
              /\ HeadOf(g) + delay.up + RaisingTime <= Reach
    BY <1>2, <2>1, DueIs DEF k
  <2> QED
    BY <2>1, <2>2, <2>3, <2>4
<1>26. \A t \in TicksOf(new) : t \in g.last + 1 .. game'.last
  BY <1>4, <1>7, <1>14 DEF TicksOf
<1>27. ASSUME NEW m \in Commits, NEW t \in TicksOf(m)
       PROVE  t \in Int /\ m.in \in Int /\ m.in <= MaxDelay /\ SlackOf(t) \in Int
              /\ SlackOf(t) = server.toTick + Span(t) - TickInterval
  <2>1. m \in CommitPacket
    BY <1>1, KindsOf DEF Commits
  <2>2. t \in Int /\ m.in \in Int /\ m.in <= MaxDelay
    BY <1>5, <1>27, <2>1 DEF CommitPacket, TicksOf
  <2> QED
    BY <1>1, <2>2 DEF MeasuresAre
<1>28. CommitsKnown'
  <2>1. ASSUME NEW t \in 1 .. game'.last
        PROVE  \/ \E c \in server'.kept : c.tick = t
               \/ \E m \in Commits' : t \in TicksOf(m)
               \/ Headway' + SlackOf(t)' + RaisingTime <= Reach
    <3>1. t \in Int /\ t >= 1 /\ t <= game'.last /\ SlackOf(t) \in Int
      <4>1. t \in Int /\ t >= 1 /\ t <= game'.last
        BY <1>13
      <4> QED
        BY <1>1, <4>1 DEF MeasuresAre
    <3>2. CASE t > g.last
      <4>1. t \in g.last + 1 .. game'.last
        BY <1>13, <1>14, <3>1, <3>2
      <4> QED
        BY <1>8, <1>25, <4>1
    <3>3. CASE t <= g.last /\ ~Still(g)
      <4>1. t \in 1 .. g.last
        BY <1>14, <3>1, <3>3
      <4>2. HeadOf(g) + SlackOf(t) + RaisingTime <= Reach
        BY <1>12, <3>3, <4>1
      <4> QED
        BY <1>5, <1>11, <1>12, <1>13, <1>16, <3>1, <4>2
    <3>4. CASE t <= g.last /\ Still(g)
      <4>1. t \in 1 .. game.last /\ Playing
        BY <1>14, <3>1, <3>4 DEF Still
      <4>2. CASE Headway + SlackOf(t) + RaisingTime <= Reach
        BY <1>5, <1>11, <1>12, <1>13, <1>16, <3>1, <3>4, <4>2
      <4> QED
        BY <1>1, <1>8, <1>11, <4>1, <4>2 DEF CommitsKnown
    <3> QED
      BY <1>14, <3>1, <3>2, <3>3, <3>4
  <2>2. ASSUME Playing PROVE game.last <= game'.last /\ game.last \in Int
    BY <1>1, <1>2, <1>4, <1>14, <2>2, LastIs DEF MeasuresAre
  <2>3. ASSUME NEW c \in server'.kept PROVE c.tick <= game'.last
    <3>1. Playing /\ c \in server.kept
      BY <1>1, <1>11, <2>3 DEF Stages
    <3>2. c.tick \in Int /\ c.tick <= game.last
      BY <1>1, <3>1 DEF CommitsKnown, Types
    <3> QED
      BY <1>13, <2>2, <3>1, <3>2
  <2>4. ASSUME NEW m \in Commits' PROVE m.tick + m.count - 1 <= game'.last
    <3>1. CASE m \in Commits
      <4>1. Playing /\ m.tick + m.count - 1 <= game.last /\ m \in CommitPacket
        BY <1>1, <3>1, KindsOf DEF Stages, CommitsKnown, Commits
      <4>2. m.tick + m.count - 1 \in Int
        BY <4>1 DEF CommitPacket
      <4> QED
        BY <1>13, <2>2, <4>1, <4>2
    <3>2. CASE m = new
      BY <1>4, <1>7, <1>14, <3>2
    <3> QED
      BY <1>8, <3>1, <3>2
  <2>5. \A c, d \in server'.kept : c.tick = d.tick => c = d
    BY <1>1, <1>11 DEF CommitsKnown
  <2> QED
    BY <2>1, <2>3, <2>4, <2>5 DEF CommitsKnown, TicksOf
<1>29. Slacks'
  <2>1. ASSUME NEW m \in Commits', NEW t \in TicksOf(m) PROVE InRange(SlackOf(t)' - m.in)
    <3>1. CASE m \in Commits
      BY <1>1, <1>11, <3>1 DEF Slacks
    <3>2. CASE m = new
      BY <1>7, <1>11, <1>25, <1>26, <2>1, <3>2
    <3> QED
      BY <1>8, <3>1, <3>2
  <2> QED
    BY <1>1, <1>11, <2>1 DEF Slacks, TicksOf, InRange
<1>30. LeadBounded'
  <2>1. CASE g.interval >= TickInterval
    <3>1. Lead' <= LeadOf(g)
      BY <1>4, <1>12, <1>13, <1>14, <1>15, <2>1
    <3> QED
      BY <1>5, <1>12, <1>13, <3>1 DEF LeadBounded
  <2>2. CASE g.interval < TickInterval
    <3>1. 9 * Lead' = Headway' + game'.nextIn
      BY <1>13, <1>14, <1>15
    <3>2. 9 * Lead' <= Reach + 2 * TickInterval
      BY <1>5, <1>12, <1>13, <1>16, <1>18, <2>2, <3>1
    <3> QED
      BY <3>2 DEF LeadBounded
  <2> QED
    BY <1>5, <1>14, <2>1, <2>2
<1>31. LateCommits'
  <2>1. ASSUME NEW c \in server'.kept, ~Early(c.slack)
        PROVE  Headway' + SlackOf(c.tick)' + RaisingTime <= Reach
    <3>1. c \in server.kept /\ Still(g)
      BY <1>11, <1>12
    <3>2. SlackOf(c.tick) \in Int
      BY <1>1, <3>1 DEF Types, MeasuresAre
    <3>3. Headway + SlackOf(c.tick) + RaisingTime <= Reach
      BY <1>1, <2>1, <3>1 DEF LateCommits
    <3> QED
      BY <1>5, <1>11, <1>12, <1>13, <1>16, <3>1, <3>2, <3>3
  <2>2. ASSUME NEW m \in Commits', NEW t \in TicksOf(m), ~Early(SlackOf(t)' - m.in)
        PROVE  Headway' + SlackOf(t)' + RaisingTime <= Reach /\ Headway' + m.in + RaisingTime <= Reach
    <3>1. ~Early(SlackOf(t) - m.in) /\ SlackOf(t)' = SlackOf(t)
      BY <1>11, <2>2
    <3>2. CASE m \in Commits /\ Still(g)
      <4>1. Headway + SlackOf(t) + RaisingTime <= Reach /\ Headway + m.in + RaisingTime <= Reach
        BY <1>1, <2>2, <3>1, <3>2 DEF LateCommits
      <4> QED
        BY <1>5, <1>12, <1>13, <1>16, <1>27, <2>2, <3>1, <3>2, <4>1
    <3>3. CASE m \in Commits /\ ~Still(g)
      <4>1. t \in Int /\ t <= 0
        BY <1>12, <1>27, <2>2, <3>3
      <4>2. Span(t) \in Int /\ Span(t) <= 0
        <5>1. Span(0) = 0 /\ Span(t) \in Int
          BY <4>1, Spans
        <5>2. \A a, b \in Int : a <= b => Span(a) <= Span(b)
          BY Spans
        <5> QED
          BY <4>1, <5>1, <5>2
      <4>3. /\ m.in \in Int /\ m.in <= MaxDelay /\ SlackOf(t) \in Int
            /\ SlackOf(t) = server.toTick + Span(t) - TickInterval
        BY <1>27, <2>2, <3>3
      <4>4. HeadOf(g) + TickInterval + MaxDelay + RaisingTime <= Reach
        BY <1>12, <3>3
      <4> QED
        BY <1>5, <1>12, <1>13, <1>14, <1>16, <3>1, <4>2, <4>3, <4>4
    <3>4. CASE m = new
      <4>1. t \in g.last + 1 .. game'.last /\ m.in = delay.up
        BY <1>7, <1>26, <2>2, <3>4
      <4>2. /\ SlackOf(t) \in Int
            /\ HeadOf(g) + SlackOf(t) + RaisingTime <= Reach
            /\ HeadOf(g) + delay.up + RaisingTime <= Reach
        BY <1>25, <3>1, <4>1
      <4>3. delay.up \in Int
        BY <1>1 DEF Types
      <4> QED
        BY <1>5, <1>12, <1>13, <1>16, <3>1, <4>1, <4>2, <4>3
    <3> QED
      BY <1>8, <3>2, <3>3, <3>4
  <2> QED
    BY <2>1, <2>2 DEF LateCommits, TicksOf, Early
<1>32. ASSUME NEW u \in Int, u <= 0, Superseded(u) \/ ~Still(g) PROVE Superseded(u)'
  <2>1. Age(u) \in Int /\ Age(u) = TickInterval - server.toTick - Span(u)
    BY <1>1 DEF MeasuresAre
  <2>2. CASE Still(g)
    BY <1>5, <1>11, <1>12, <1>13, <1>16, <1>32, <2>1, <2>2 DEF Superseded
  <2>3. CASE ~Still(g)
    <3>1. Span(u) \in Int /\ Span(u) <= 0
      <4>1. Span(0) = 0 /\ Span(u) \in Int
        BY Spans
      <4>2. \A a, b \in Int : a <= b => Span(a) <= Span(b)
        BY Spans
      <4> QED
        BY <1>32, <4>1, <4>2
    <3>2. HeadOf(g) + TickInterval + MaxDelay + RaisingTime <= Reach
      BY <1>12, <2>3
    <3>3. Headway' + TickInterval + MaxDelay - Age(u)' <= Reach
      BY <1>5, <1>11, <1>12, <1>13, <1>14, <1>16, <2>1, <3>1, <3>2
    <3> QED
      BY <3>3 DEF Superseded
  <2> QED
    BY <2>2, <2>3
<1>33. FastSnapshots'
  <2>1. ASSUME NEW m \in Snapshots', m.interval < TickInterval PROVE Superseded(m.tick)'
    <3>1. m \in Snapshots /\ m \in GameStatePacket
      BY <1>1, <1>8, KindsOf DEF Snapshots
    <3>2. m.tick \in Int /\ m.tick <= 0
      BY <1>1, <3>1 DEF SnapshotTimes, GameStatePacket
    <3>3. Playing => Superseded(m.tick)
      BY <1>1, <2>1, <3>1 DEF FastSnapshots
    <3> QED
      BY <1>32, <3>2, <3>3 DEF Still
  <2>2. ASSUME NEW u \in game'.latest, game'.interval < TickInterval PROVE Superseded(u)'
    <3>1. u \in g.latest /\ g.interval < TickInterval
      BY <1>4, <2>2
    <3>2. u \in Int /\ u <= 0
      BY <1>2, <3>1, LatestIs
    <3>3. Playing => Superseded(u)
      BY <1>2, <3>1 DEF Resumed, Playing
    <3> QED
      BY <1>32, <3>2, <3>3 DEF Still
  <2> QED
    BY <1>2, <2>1, <2>2 DEF FastSnapshots
<1>34. Rising'
  <2> SUFFICES ASSUME server.estimate < GoalSlack
               PROVE  \E n \in 0 .. RaisingTicks :
                         /\ server.estimate + n * (Margin \div 100) >= GoalSlack
                         /\ Headway' + Span(n) + server.toTick + MaxDelay <= Reach
    BY <1>11 DEF Rising
  <2>1. CASE Still(g)
    <3>1. PICK n \in 0 .. RaisingTicks :
             /\ server.estimate + n * (Margin \div 100) >= GoalSlack
             /\ Headway + Span(n) + server.toTick + MaxDelay <= Reach
      BY <1>1, <2>1 DEF Rising, Still
    <3>2. n \in Int
      BY Bounds
    <3>3. Span(n) \in Int
      BY <3>2, Spans
    <3>4. Headway' + Span(n) + server.toTick + MaxDelay <= Reach
      BY <1>5, <1>12, <1>13, <1>14, <1>16, <2>1, <3>1, <3>3
    <3> QED
      BY <3>1, <3>4
  <2>2. CASE ~Still(g)
    <3>1. /\ LeastSlack + RaisingTicks * (Margin \div 100) >= GoalSlack
          /\ RaisingTime = Span(RaisingTicks) + TickInterval + MaxDelay
          /\ RaisingTicks \in Nat /\ LeastSlack \in Int /\ GoalSlack \in Int
          /\ Margin \div 100 \in Nat
      BY Bounds, Sizes
    <3>2. Span(RaisingTicks) \in Int /\ RaisingTicks * (Margin \div 100) \in Int
      <4>1. RaisingTicks \in Int /\ Margin \div 100 \in Int
        BY <3>1
      <4>2. RaisingTicks * (Margin \div 100) \in Int
        BY <4>1
      <4> QED
        BY <4>1, <4>2, Spans
    <3>3. server.estimate \in Int /\ LeastSlack <= server.estimate
      BY <1>1 DEF Types, Slacks, InRange
    <3>4. server.estimate + RaisingTicks * (Margin \div 100) >= GoalSlack
      BY <3>1, <3>2, <3>3
    <3>5. HeadOf(g) + TickInterval + MaxDelay + RaisingTime <= Reach
      BY <1>12, <2>2
    <3>6. Headway' + Span(RaisingTicks) + server.toTick + MaxDelay <= Reach
      BY <1>5, <1>12, <1>13, <1>14, <1>16, <3>1, <3>2, <3>5
    <3>7. RaisingTicks \in 0 .. RaisingTicks
      BY <3>1
    <3> QED
      BY <3>4, <3>6, <3>7
  <2> QED
    BY <2>1, <2>2
<1> QED
  BY <1>9, <1>19, <1>20, <1>21, <1>22, <1>23, <1>24, <1>28, <1>29, <1>30, <1>31, <1>33, <1>34
     DEF SyncInv
-----------------------------------------------------------------------------
(* The results.                                                            *)

\* SyncInv is inductive as long as corrections help: only the interval that a
\* tick assigns could break it.
LEMMA StepKeeps == SyncInv /\ [Next]_vars /\ (HandleTick => CorrectionsHelp') => SyncInv'
<1> SUFFICES ASSUME SyncInv, [Next]_vars, HandleTick => CorrectionsHelp' PROVE SyncInv'
  OBVIOUS
<1>1. CASE PingElapsed
  BY <1>1, PingElapsedKeeps
<1>2. CASE ClientReceives
  BY <1>2, ClientReceivesKeeps
<1>3. CASE Frame
  BY <1>3, FrameKeeps
<1>4. CASE ServerReceives
  BY <1>4, ServerReceivesKeeps
<1>5. CASE HandleTick
  BY <1>5, HandleTickKeeps
<1>6. CASE Elapse
  BY <1>6, ElapseKeeps
<1>7. CASE Reroute
  BY <1>7, RerouteKeeps
<1>8. CASE TakeOff
  BY <1>8, TakeOffKeeps
<1>9. CASE UNCHANGED vars
  <2>1. UNCHANGED <<server, client, game, waiting, up, down, delay, away, age, disturbed>>
    BY <1>9 DEF vars
  <2>2. Types /\ Stages /\ GameTimes /\ Measured /\ SnapshotTimes
    BY DEF SyncInv
  <2>3. Commits' = Commits /\ Snapshots' = Snapshots /\ (Playing' <=> Playing)
    BY <2>1 DEF Commits, Snapshots, Playing
  <2>4. Types' /\ Stages' /\ GameTimes'
    BY <2>1, <2>2, <2>3 DEF Types, Stages, GameTimes
  <2>5. Measured'
    BY <2>1, <2>2 DEF Measured
  <2>6. SnapshotTimes'
    BY <2>1, <2>2, <2>3 DEF SnapshotTimes, Age
  <2> QED
    BY <2>1, <2>3, <2>4, <2>5, <2>6, Unmoved DEF SyncInv
<1> QED
  BY <1>1, <1>2, <1>3, <1>4, <1>5, <1>6, <1>7, <1>8, <1>9 DEF Next, Step

\* The estimate is then below the pole, and so it is after the next tick.
LEMMA StableHelps ==
    ASSUME Stable, SyncInv
    PROVE  CorrectionsHelp /\ (HandleTick => CorrectionsHelp')
<1>1. \A e \in Int : InRange(e) => e < GoalSlack + CorrectionTime
  <2>1. Reach \in Int /\ TickInterval \in Int /\ GoalSlack \in Int /\ CorrectionTime \in Int
    BY Bounds, Sizes
  <2> QED
    BY <2>1 DEF Stable, InRange
<1>2. ASSUME NEW e \in Int, e < GoalSlack + CorrectionTime
      PROVE  /\ e - GoalSlack # CorrectionTime
             /\ e > GoalSlack => AssignedInterval(e) >= TickInterval
             /\ e < GoalSlack => AssignedInterval(e) <= TickInterval
  <2>1. GoalSlack \in Int /\ CorrectionTime \in Int
    BY Sizes
  <2>2. e - GoalSlack # CorrectionTime
    BY <1>2, <2>1
  <2> QED
    BY <1>2, <2>1, <2>2, AssignedIs
<1>3. CorrectionsHelp
  <2>1. server.estimate \in Int /\ InRange(server.estimate)
    BY DEF SyncInv, Types, Slacks
  <2> QED
    BY <1>1, <1>2, <2>1 DEF CorrectionsHelp
<1>4. ASSUME HandleTick PROVE CorrectionsHelp'
  <2>1. server'.estimate \in Int /\ InRange(server'.estimate)
    BY <1>4, HandleTickIs
  <2> QED
    BY <1>1, <1>2, <2>1 DEF CorrectionsHelp
<1> QED
  BY <1>3, <1>4

\* As long as the intervals that handle_tick assigns work against the error,
\* the loop of session server and game stays within SyncInv, whatever the
\* phases, the delays, the one change of route or absence and the order of
\* the events.
THEOREM SyncInvariant == Spec /\ []CorrectionsHelp => []SyncInv
<1>1. Init => SyncInv
  BY SyncInit
<1>2. SyncInv /\ [Next]_vars /\ CorrectionsHelp' => SyncInv'
  BY StepKeeps
<1> QED
  BY <1>1, <1>2, PTL DEF Spec

\* With delays and an absence so short that Stable holds, handle_tick never
\* tells a client that is too early to tick faster, nor one that is too late
\* to tick slower: the slack estimate stays below the pole of its formula for
\* the interval.  With longer ones it does not.
THEOREM CorrectionsHelpIfStable == Stable => (Spec => []CorrectionsHelp)
<1> SUFFICES ASSUME Stable PROVE Spec => []CorrectionsHelp
  OBVIOUS
<1>1. Init => SyncInv
  BY SyncInit
<1>2. SyncInv /\ [Next]_vars => SyncInv'
  BY StableHelps, StepKeeps
<1>3. SyncInv => CorrectionsHelp
  BY StableHelps
<1> QED
  BY <1>1, <1>2, <1>3, PTL DEF Spec

\* As long as corrections help, the clock of a client that plays is ahead of
\* the server's by no more than a constant, whichever intervals it was
\* assigned on stale measurements and however long a frame was late: the
\* ticks it has run at any time, and so the commits the server keeps for it,
\* are bounded.
THEOREM LeadStaysBounded ==
    Spec /\ []CorrectionsHelp =>
        [](client.stage = "Playing" => 9 * Lead <= Reach + 2 * TickInterval)
<1>1. SyncInv => (client.stage = "Playing" => 9 * Lead <= Reach + 2 * TickInterval)
  BY DEF SyncInv, LeadBounded, Playing
<1> QED
  BY <1>1, SyncInvariant, PTL

\* As long as corrections help, the server keeps at most one commit of a
\* tick, of a tick that the client has run, and one whose slack is in the
\* bounds that the estimate stays in, too.
THEOREM KeptCommitsInRange ==
    Spec /\ []CorrectionsHelp =>
        [](/\ \A c, d \in server.kept : c.tick = d.tick => c = d
           /\ \A c \in server.kept : 0 < c.tick /\ c.tick <= game.last /\ InRange(c.slack))
<1>1. SyncInv => /\ \A c, d \in server.kept : c.tick = d.tick => c = d
                 /\ \A c \in server.kept : 0 < c.tick /\ c.tick <= game.last /\ InRange(c.slack)
  <2> SUFFICES ASSUME SyncInv
               PROVE  /\ \A c, d \in server.kept : c.tick = d.tick => c = d
                      /\ \A c \in server.kept : 0 < c.tick /\ c.tick <= game.last /\ InRange(c.slack)
    OBVIOUS
  <2>1. server.kept \subseteq [tick : Nat \ {0}, slack : Int]
    BY DEF SyncInv, Types
  <2>2. \A c \in server.kept : 0 < c.tick
    BY <2>1
  <2> QED
    BY <2>2 DEF SyncInv, CommitsKnown, Slacks
<1> QED
  BY <1>1, SyncInvariant, PTL
=============================================================================
