----------------------- MODULE ConnectionTimingProofs -----------------------
(***************************************************************************)
(* Proofs about ConnectionTiming, for all intervals that satisfy           *)
(* TimingAssumption.                                                       *)
(*                                                                         *)
(* The argument is one of budgets.  In every phase of the handshake one    *)
(* repeated packet carries it on; Within says that this packet arrives     *)
(* before a deadline, and the deadline leaves both timeouts the budgets of *)
(* the phases that are still to come.                                      *)
(***************************************************************************)
EXTENDS ConnectionTiming, TLAPS

Trying == {"Connecting", "Responding", "Connected"}
Open == {"Pending", "Connected"}

\* Which timers exist, and whose silence is counted.
Shape ==
    /\ client.variant \in Trying => client.sendIn # Off /\ client.timeout # Off
    /\ client.variant = "Stopped" => client.sendIn = Off /\ client.timeout = Off
    /\ server.variant \in Open => server.sendIn # Off /\ server.timeout # Off
    /\ server.variant \notin Open => server.timeout = Off
    /\ server.variant = "Disconnecting" => server.sendIn # Off /\ server.packets_to_send > 0
    /\ server.variant \in {"None", "Stopped"} => server.sendIn = Off
    /\ client.variant # "Stopped" => silence.client = 0
    /\ server.variant # "Stopped" => silence.server = 0

Types == TypeOK /\ Shape

\* With datagrams under way for the times in f, l of them just lost, and the
\* next to be sent in w, one of a kind arrives before the deadline x.
Within(f, l, kind, w, x) ==
    \/ w + (MaxLoss - l) * Interval(kind) + MaxDelay < x
    \/ \E a \in f : MaxDelay - a < x

Arriving(kind, w, x) == Within(flight[kind], lost[kind], kind, w, x)

\* The three deadlines, each short of the time that is needed afterwards.
ClientHas(rest) == client.timeout - rest
ServerHas(rest) == server.timeout - rest
HandshakeHas(rest) == Handshake + 1 - age - rest

Nothing(kinds) == \A kind \in kinds : flight[kind] = {}

\* The time that is needed once the packet of a phase has arrived.
AfterInit == 2 * SendBudget + KeepaliveBudget
AfterChallenge == SendBudget + KeepaliveBudget
AfterResponse == KeepaliveBudget
Round == KeepaliveInterval + KeepaliveBudget

Calling ==
    /\ client.variant = "Connecting" /\ server.variant = "None"
    /\ Nothing({"ConnectChallenge", "ServerKeepalive", "ServerGameData", "ConnectResponse"})
    /\ Arriving("ConnectInit", client.sendIn, ClientHas(AfterInit))
    /\ Arriving("ConnectInit", client.sendIn, HandshakeHas(AfterInit))

Challenging ==
    /\ client.variant = "Connecting" /\ server.variant = "Pending"
    /\ Nothing({"ServerKeepalive", "ServerGameData", "ConnectResponse"})
    /\ Arriving("ConnectChallenge", server.sendIn, ClientHas(AfterChallenge))
    /\ Arriving("ConnectChallenge", server.sendIn, HandshakeHas(AfterChallenge))
    /\ Arriving("ConnectChallenge", server.sendIn, ServerHas(AfterChallenge + Round))

Answering ==
    /\ client.variant = "Responding" /\ server.variant = "Pending"
    /\ Nothing({"ServerKeepalive", "ServerGameData"})
    /\ Arriving("ConnectResponse", client.sendIn, ClientHas(AfterResponse))
    /\ Arriving("ConnectResponse", client.sendIn, HandshakeHas(AfterResponse))
    /\ Arriving("ConnectResponse", client.sendIn, ServerHas(AfterResponse + Round))

Confirming ==
    /\ client.variant = "Responding" /\ server.variant = "Connected"
    /\ Arriving("ServerKeepalive", server.sendIn, ClientHas(0))
    /\ Arriving("ServerKeepalive", server.sendIn, HandshakeHas(0))
    /\ Arriving("ServerKeepalive", server.sendIn, ServerHas(Round))

Keeping ==
    /\ client.variant = "Connected" /\ server.variant = "Connected"
    /\ Arriving("ServerKeepalive", server.sendIn, ClientHas(0))
    /\ Arriving("ClientKeepalive", client.sendIn, ServerHas(0))

\* While both sides run they are in one of the five phases.
InPhase ==
    BothRun =>
        /\ Nothing({"Disconnect"})
        /\ Calling \/ Challenging \/ Answering \/ Confirming \/ Keeping

\* What a stopped client sent is at least as old as its silence, which with
\* the time left on the server's timers stays in its bounds.
ClientFades ==
    client.variant = "Stopped" /\ server.variant # "Stopped" =>
        /\ \A kind \in Up : \A a \in flight[kind] : silence.client <= a
        /\ server.variant \in Open => silence.client + server.timeout <= Noticed
        /\ server.variant = "Disconnecting" =>
              silence.client + server.sendIn + (server.packets_to_send - 1) * SendInterval
                  <= Forgotten

ServerFades ==
    server.variant = "Stopped" /\ client.variant # "Stopped" =>
        /\ \A kind \in Down : \A a \in flight[kind] : silence.server <= a
        /\ client.variant \in Trying => silence.server + client.timeout <= Noticed

-----------------------------------------------------------------------------
(* Constants.                                                              *)

\* The budgets and bounds are numbers, and fit the timeout.
LEMMA Budgets ==
    /\ SendInterval \in Nat \ {0} /\ KeepaliveInterval \in Nat /\ TimeoutInterval \in Nat
    /\ DisconnectPacketCount \in Nat \ {0} /\ MaxDelay \in Nat /\ MaxLoss \in Nat
    /\ SendInterval <= KeepaliveInterval
    /\ SendBudget \in Nat /\ KeepaliveBudget \in Nat
    /\ Handshake = 3 * SendBudget + KeepaliveBudget
    /\ 2 * SendBudget + 2 * KeepaliveBudget + KeepaliveInterval < TimeoutInterval
    /\ SendBudget <= KeepaliveBudget
    /\ Noticed = TimeoutInterval + MaxDelay
    /\ Forgotten \in Nat /\ Noticed \in Nat /\ Handshake \in Nat
    /\ Horizon = Forgotten + 1
    /\ KeepaliveInterval <= TimeoutInterval
<1> DEFINE s == MaxLoss * SendInterval
           k == MaxLoss * KeepaliveInterval
           n == (DisconnectPacketCount - 1) * SendInterval
<1>1. s \in Nat /\ k \in Nat /\ n \in Nat
  BY TimingAssumption
<1>2. s <= k
  BY TimingAssumption
<1>3. SendBudget = s + MaxDelay /\ KeepaliveBudget = k + MaxDelay
  BY DEF SendBudget, KeepaliveBudget
<1>4. Forgotten = Noticed + n
  BY DEF Forgotten
<1> HIDE DEF s, k
<1>5. SendBudget \in Nat /\ KeepaliveBudget \in Nat /\ SendBudget <= KeepaliveBudget
  BY <1>1, <1>2, <1>3, TimingAssumption
<1> QED
  <2> HIDE DEF n
  <2> QED
    BY <1>1, <1>4, <1>5, TimingAssumption DEF Noticed, Handshake, Horizon

\* One loss uses up one interval of what is allowed.
LEMMA OneLoss ==
    ASSUME NEW n \in Int, NEW i \in Int
    PROVE  (n - 1) * i = n * i - i
OBVIOUS

LEMMA LossesAllowed ==
    ASSUME NEW kind \in Kind, NEW l \in 0 .. MaxLoss
    PROVE  /\ (MaxLoss - l) * Interval(kind) \in Nat
           /\ (MaxLoss - l) * Interval(kind) <= MaxLoss * Interval(kind)
           /\ Interval(kind) \in Nat
<1>1. Interval(kind) \in Nat
  BY Budgets DEF Interval
<1> DEFINE i == Interval(kind)
<1> HIDE DEF i
<1>2. \A m \in Nat, j \in Nat, c \in Nat : j <= m => (m - j) * c \in Nat /\ (m - j) * c <= m * c
  OBVIOUS
<1> QED
  BY <1>1, <1>2, Budgets

-----------------------------------------------------------------------------
(* Deadlines.                                                              *)

\* A deadline that is met has not passed.
LEMMA DeadlineAhead ==
    ASSUME NEW f \in SUBSET (0 .. MaxDelay), NEW l \in 0 .. MaxLoss, NEW kind \in Kind,
           NEW w \in Nat, NEW x \in Int, Within(f, l, kind, w, x)
    PROVE  x > 0
<1>1. CASE w + (MaxLoss - l) * Interval(kind) + MaxDelay < x
  <2> DEFINE p == (MaxLoss - l) * Interval(kind)
  <2>1. p \in Nat
    BY LossesAllowed
  <2> HIDE DEF p
  <2>2. w + p + MaxDelay < x
    BY <1>1 DEF p
  <2> QED
    BY <2>1, <2>2, Budgets
<1>2. CASE \E a \in f : MaxDelay - a < x
  BY <1>2, Budgets
<1> QED
  BY <1>1, <1>2 DEF Within

\* A later deadline is met, too.
LEMMA DeadlineLater ==
    ASSUME NEW f \in SUBSET (0 .. MaxDelay), NEW l \in 0 .. MaxLoss, NEW kind \in Kind,
           NEW w \in Nat, NEW x \in Int, Within(f, l, kind, w, x),
           NEW y \in Int, x <= y
    PROVE  Within(f, l, kind, w, y)
<1> DEFINE p == (MaxLoss - l) * Interval(kind)
<1>1. p \in Nat
  BY LossesAllowed
<1>2. CASE w + p + MaxDelay < x
  <2> HIDE DEF p
  <2>1. w + p + MaxDelay < y
    BY <1>1, <1>2, Budgets
  <2> QED
    BY <2>1 DEF Within, p
<1>3. CASE \E a \in f : MaxDelay - a < x
  <2>1. \E a \in f : MaxDelay - a < y
    BY <1>3, Budgets
  <2> QED
    BY <2>1 DEF Within
<1> QED
  BY <1>2, <1>3 DEF Within

\* Time passes: whatever is under way gets older, the deadline nearer.
LEMMA DeadlineNearer ==
    ASSUME NEW f \in SUBSET (0 .. MaxDelay), NEW l \in 0 .. MaxLoss, NEW kind \in Kind,
           NEW w \in Nat, NEW x \in Int, Within(f, l, kind, w, x)
    PROVE  Within({a + 1 : a \in f}, l, kind, w - 1, x - 1)
<1> DEFINE p == (MaxLoss - l) * Interval(kind)
<1>1. p \in Nat
  BY LossesAllowed
<1>2. CASE w + p + MaxDelay < x
  <2> HIDE DEF p
  <2>1. (w - 1) + p + MaxDelay < x - 1
    BY <1>1, <1>2, Budgets
  <2> QED
    BY <2>1 DEF Within, p
<1>3. CASE \E a \in f : MaxDelay - a < x
  <2>1. PICK a \in f : MaxDelay - a < x
    BY <1>3
  <2>2. a + 1 \in {b + 1 : b \in f} /\ MaxDelay - (a + 1) < x - 1
    BY <2>1, Budgets
  <2> QED
    BY <2>2 DEF Within
<1> QED
  BY <1>2, <1>3 DEF Within

\* A packet is sent again, and is under way or lost.
LEMMA DeadlineSent ==
    ASSUME NEW f \in SUBSET (0 .. MaxDelay), NEW l \in 0 .. MaxLoss, NEW kind \in Kind,
           NEW x \in Int, Within(f, l, kind, 0, x)
    PROVE  /\ Within(f \cup {0}, 0, kind, Interval(kind), x)
           /\ l < MaxLoss => Within(f, l + 1, kind, Interval(kind), x)
<1> DEFINE i == Interval(kind)
           p == (MaxLoss - l) * i
           q == (MaxLoss - (l + 1)) * i
<1>1. p \in Nat /\ i \in Nat
  BY LossesAllowed
<1>2. q = p - i
  <2>1. MaxLoss - (l + 1) = (MaxLoss - l) - 1 /\ MaxLoss - l \in Int
    BY Budgets
  <2> QED
    BY <1>1, <2>1, OneLoss
<1>3. CASE 0 + p + MaxDelay < x
  <2> HIDE DEF p, q, i
  <2>1. MaxDelay - 0 < x
    BY <1>1, <1>3, Budgets
  <2>2. i + q + MaxDelay < x
    BY <1>1, <1>2, <1>3, Budgets
  <2>3. Within(f, l + 1, kind, i, x)
    BY <2>2 DEF Within, q, i
  <2>4. Within(f \cup {0}, 0, kind, i, x)
    BY <2>1 DEF Within
  <2> QED
    BY <2>3, <2>4 DEF i
<1>4. CASE \E a \in f : MaxDelay - a < x
  BY <1>4 DEF Within
<1> QED
  BY <1>3, <1>4 DEF Within

Budget(kind) ==
    IF kind \in {"ClientKeepalive", "ServerKeepalive"} THEN KeepaliveBudget ELSE SendBudget

\* The deadline of a packet that starts to be sent, whatever was lost before.
LEMMA DeadlineBegun ==
    ASSUME NEW f \in SUBSET (0 .. MaxDelay), NEW l \in 0 .. MaxLoss, NEW kind \in Kind,
           NEW w \in Nat, NEW x \in Int,
           w + Budget(kind) < x
    PROVE  Within(f, l, kind, w, x)
<1> DEFINE i == Interval(kind)
           p == (MaxLoss - l) * i
           m == MaxLoss * i
<1>1. p \in Nat /\ p <= m /\ m \in Int
  BY LossesAllowed, Budgets
<1>2. w + (m + MaxDelay) < x
  BY DEF Interval, Budget, SendBudget, KeepaliveBudget
<1>3. w + p + MaxDelay < x
  <2> HIDE DEF p, m
  <2> QED
    BY <1>1, <1>2, Budgets
<1> QED
  BY <1>3 DEF Within

-----------------------------------------------------------------------------
(* Types.                                                                  *)

\* The network stays well typed, and carries one more or one less.
LEMMA NetTypes ==
    ASSUME flight \in [Kind -> SUBSET (0 .. MaxDelay)],
           lost \in [Repeated -> 0 .. MaxLoss],
           NEW kind \in Kind
    PROVE  /\ Arrives(kind) \/ SendOnce(kind) =>
                  /\ flight' \in [Kind -> SUBSET (0 .. MaxDelay)]
                  /\ lost' = lost
           /\ kind \in Repeated /\ SendAgain(kind) =>
                  /\ flight' \in [Kind -> SUBSET (0 .. MaxDelay)]
                  /\ lost' \in [Repeated -> 0 .. MaxLoss]
BY Budgets DEF Arrives, SendOnce, SendAgain, Carried

\* What timers hold, and that one which waits can be counted down.
LEMMA Timers ==
    /\ {Off, 0, SendInterval, KeepaliveInterval} \subseteq Timer(KeepaliveInterval)
    /\ {Off, 0, TimeoutInterval} \subseteq Timer(TimeoutInterval)
    /\ \A t \in Timer(KeepaliveInterval) : t # 0 => Later(t) \in Timer(KeepaliveInterval)
    /\ \A t \in Timer(TimeoutInterval) : t # 0 => Later(t) \in Timer(TimeoutInterval)
    /\ {0, DisconnectPacketCount} \subseteq Packets
    /\ \A n \in Packets : n \in Nat /\ (n > 0 => n - 1 \in Packets)
BY Budgets DEF Timer, Off, Later, Packets

LEMMA TypesInit == Init => Types
BY Budgets, Timers DEF Init, Types, TypeOK, Shape, Client, Server, NoEntry, Off, Kind, Up, Down,
       Repeated, Trying, Open

\* What the type of the state amounts to, field by field.
LEMMA Fields ==
    ASSUME Types
    PROVE  /\ client.sendIn \in {Off} \cup Nat /\ client.timeout \in {Off} \cup Nat
           /\ client.sendIn <= KeepaliveInterval /\ client.timeout <= TimeoutInterval
           /\ server.sendIn \in {Off} \cup Nat /\ server.timeout \in {Off} \cup Nat
           /\ server.sendIn <= KeepaliveInterval /\ server.timeout <= TimeoutInterval
           /\ server.packets_to_send \in 0 .. DisconnectPacketCount
           /\ age \in Nat /\ silence.client \in Nat /\ silence.server \in Nat
BY Budgets DEF Types, TypeOK, Client, Server, Timer, Off, Packets

LEMMA TypesClient == Types /\ ClientStep => Types'
<1> SUFFICES ASSUME Types, ClientStep PROVE Types'
  OBVIOUS
<1> USE Budgets, Timers DEF Types, TypeOK, Shape, Client, Off, Trying, Refreshed, sides, net, clocks
<1>0. \A kind \in Kind : Arrives(kind) \/ SendOnce(kind) =>
              flight' \in [Kind -> SUBSET (0 .. MaxDelay)] /\ lost' \in [Repeated -> 0 .. MaxLoss]
  BY NetTypes
<1>1. CASE HandleSendIntervalElapsed
  <2>1. {"ConnectInit", "ConnectResponse"} \subseteq Repeated \cap Kind
    BY DEF Repeated, Kind, Up, Down
  <2>2. flight' \in [Kind -> SUBSET (0 .. MaxDelay)] /\ lost' \in [Repeated -> 0 .. MaxLoss]
    BY <1>1, <2>1, NetTypes DEF HandleSendIntervalElapsed
  <2>3. client' \in Client
    BY <1>1 DEF HandleSendIntervalElapsed
  <2>4. Shape'
    BY <1>1 DEF HandleSendIntervalElapsed
  <2> QED
    BY <1>1, <2>2, <2>3, <2>4 DEF HandleSendIntervalElapsed
<1>2. CASE ClientHandleKeepaliveElapsed
  <2>1. "ClientKeepalive" \in Repeated \cap Kind
    BY DEF Repeated, Kind, Up, Down
  <2> QED
    BY <1>2, <2>1, NetTypes DEF ClientHandleKeepaliveElapsed
<1>3. CASE ClientHandleSendGameDataRequest
  BY <1>3, NetTypes DEF ClientHandleSendGameDataRequest, Kind, Up
<1>4. CASE HandleConnectChallengePacket
  <2>1. flight' \in [Kind -> SUBSET (0 .. MaxDelay)] /\ lost' \in [Repeated -> 0 .. MaxLoss]
    BY <1>0, <1>4 DEF HandleConnectChallengePacket, Kind, Down
  <2>2. client' \in Client
    BY <1>4 DEF HandleConnectChallengePacket
  <2>3. Shape'
    BY <1>4 DEF HandleConnectChallengePacket
  <2> QED
    BY <1>4, <2>1, <2>2, <2>3 DEF HandleConnectChallengePacket
<1>5. CASE ClientHandleKeepalivePacket
  <2>1. flight' \in [Kind -> SUBSET (0 .. MaxDelay)] /\ lost' \in [Repeated -> 0 .. MaxLoss]
    BY <1>0, <1>5 DEF ClientHandleKeepalivePacket, Kind, Down
  <2>2. client' \in Client
    BY <1>5 DEF ClientHandleKeepalivePacket, Confirm
  <2>3. Shape'
    BY <1>5 DEF ClientHandleKeepalivePacket, Confirm
  <2> QED
    BY <1>5, <2>1, <2>2, <2>3 DEF ClientHandleKeepalivePacket
<1>6. CASE ClientHandleGameDataPacket
  <2>1. flight' \in [Kind -> SUBSET (0 .. MaxDelay)] /\ lost' \in [Repeated -> 0 .. MaxLoss]
    BY <1>0, <1>6 DEF ClientHandleGameDataPacket, Kind, Down
  <2>2. client' \in Client
    BY <1>6 DEF ClientHandleGameDataPacket, Confirm
  <2>3. Shape'
    BY <1>6 DEF ClientHandleGameDataPacket, Confirm
  <2> QED
    BY <1>6, <2>1, <2>2, <2>3 DEF ClientHandleGameDataPacket
<1>7. CASE ClientHandleDisconnectPacket
  <2>1. flight' \in [Kind -> SUBSET (0 .. MaxDelay)] /\ lost' \in [Repeated -> 0 .. MaxLoss]
    BY <1>0, <1>7 DEF ClientHandleDisconnectPacket, Kind, Down
  <2>2. client' \in Client
    BY <1>7 DEF ClientHandleDisconnectPacket
  <2>3. Shape'
    BY <1>7 DEF ClientHandleDisconnectPacket
  <2> QED
    BY <1>7, <2>1, <2>2, <2>3 DEF ClientHandleDisconnectPacket
<1>8. CASE HandleServerTimeout
  <2>1. client' \in Client
    BY <1>8 DEF HandleServerTimeout
  <2>2. Shape'
    BY <1>8 DEF HandleServerTimeout
  <2> QED
    BY <1>8, <2>1, <2>2 DEF HandleServerTimeout
<1>9. CASE ClientStops
  BY <1>9 DEF ClientStops
<1> QED
  BY <1>1, <1>2, <1>3, <1>4, <1>5, <1>6, <1>7, <1>8, <1>9 DEF ClientStep

LEMMA TypesServer == Types /\ ServerStep => Types'
<1> SUFFICES ASSUME Types, ServerStep PROVE Types'
  OBVIOUS
<1> USE Budgets, Timers DEF Types, TypeOK, Shape, Server, Off, Open, Refreshed, NoEntry,
        sides, net, clocks
<1>0. \A kind \in Kind : Arrives(kind) \/ SendOnce(kind) =>
              flight' \in [Kind -> SUBSET (0 .. MaxDelay)] /\ lost' \in [Repeated -> 0 .. MaxLoss]
  BY NetTypes
<1>1. CASE HandleConnectInitPacket
  <2>1. flight' \in [Kind -> SUBSET (0 .. MaxDelay)] /\ lost' \in [Repeated -> 0 .. MaxLoss]
    BY <1>0, <1>1 DEF HandleConnectInitPacket, Kind, Up
  <2>2. server' \in Server
    BY <1>1 DEF HandleConnectInitPacket
  <2>3. Shape'
    BY <1>1 DEF HandleConnectInitPacket
  <2> QED
    BY <1>1, <2>1, <2>2, <2>3 DEF HandleConnectInitPacket
<1>2. CASE HandleConnectResponsePacket
  <2>1. flight' \in [Kind -> SUBSET (0 .. MaxDelay)] /\ lost' \in [Repeated -> 0 .. MaxLoss]
    BY <1>0, <1>2 DEF HandleConnectResponsePacket, Kind, Up
  <2>2. server' \in Server
    BY <1>2 DEF HandleConnectResponsePacket
  <2>3. Shape'
    BY <1>2 DEF HandleConnectResponsePacket
  <2> QED
    BY <1>2, <2>1, <2>2, <2>3 DEF HandleConnectResponsePacket
<1>3. CASE HandleKeepalivePacket
  <2>1. flight' \in [Kind -> SUBSET (0 .. MaxDelay)] /\ lost' \in [Repeated -> 0 .. MaxLoss]
    BY <1>0, <1>3 DEF HandleKeepalivePacket, Kind, Up
  <2>2. server' \in Server
    BY <1>3 DEF HandleKeepalivePacket
  <2>3. Shape'
    BY <1>3 DEF HandleKeepalivePacket
  <2> QED
    BY <1>3, <2>1, <2>2, <2>3 DEF HandleKeepalivePacket
<1>4. CASE HandleGameDataPacket
  <2>1. flight' \in [Kind -> SUBSET (0 .. MaxDelay)] /\ lost' \in [Repeated -> 0 .. MaxLoss]
    BY <1>0, <1>4 DEF HandleGameDataPacket, Kind, Up
  <2>2. server' \in Server
    BY <1>4 DEF HandleGameDataPacket
  <2>3. Shape'
    BY <1>4 DEF HandleGameDataPacket
  <2> QED
    BY <1>4, <2>1, <2>2, <2>3 DEF HandleGameDataPacket
<1>5. CASE HandleSendGameDataRequest
  BY <1>5, NetTypes DEF HandleSendGameDataRequest, Kind, Down
<1>6. CASE HandleClientTimeout
  BY <1>6 DEF HandleClientTimeout
<1>7. CASE HandleDisconnectElapsed
  <2>1. flight' \in [Kind -> SUBSET (0 .. MaxDelay)] /\ lost' \in [Repeated -> 0 .. MaxLoss]
    BY <1>0, <1>7 DEF HandleDisconnectElapsed, Kind, Down
  <2>2. server' \in Server
    BY <1>7 DEF HandleDisconnectElapsed
  <2>3. Shape'
    BY <1>7 DEF HandleDisconnectElapsed
  <2> QED
    BY <1>7, <2>1, <2>2, <2>3 DEF HandleDisconnectElapsed
<1>8. CASE HandlePendingConnectionSend
  BY <1>8, NetTypes DEF HandlePendingConnectionSend, Repeated, Kind, Up, Down
<1>9. CASE HandleKeepaliveElapsed
  BY <1>9, NetTypes DEF HandleKeepaliveElapsed, Repeated, Kind, Up, Down
<1>10. CASE ServerStops
  BY <1>10 DEF ServerStops
<1> QED
  BY <1>1, <1>2, <1>3, <1>4, <1>5, <1>6, <1>7, <1>8, <1>9, <1>10 DEF ServerStep

LEMMA TypesTick == Types /\ Tick => Types'
<1> SUFFICES ASSUME Types, Tick PROVE Types'
  OBVIOUS
<1>1. flight' \in [Kind -> SUBSET (0 .. MaxDelay)]
  BY Budgets DEF Types, TypeOK, Tick
<1>2. silence' \in [client : 0 .. Horizon, server : 0 .. Horizon] /\ age' \in 0 .. Horizon
  BY Budgets DEF Types, TypeOK, Tick, Clock
<1>3. client' \in Client
  BY Budgets, Timers DEF Types, TypeOK, Tick, Client, Counted, Waits
<1>5. server' \in Server
  BY Budgets, Timers DEF Types, TypeOK, Tick, Server, Counted, Waits
<1>4. Shape'
  BY Fields, Budgets
     DEF Types, TypeOK, Shape, Tick, Client, Server, Counted, Later, Waits, Off, Clock, Trying, Open
<1> QED
  BY <1>1, <1>2, <1>3, <1>4, <1>5 DEF Types, TypeOK, Tick

\* The types and the shape of timers are inductive.
LEMMA TypesNext == Types /\ [Next]_vars => Types'
<1>1. Types /\ UNCHANGED vars => Types'
  BY DEF Types, TypeOK, Shape, vars, sides, net, clocks
<1> QED
  BY <1>1, TypesClient, TypesServer, TypesTick DEF Next

-----------------------------------------------------------------------------
(* Both sides run.                                                         *)

\* A side that stopped stays so.
LEMMA StopsForGood ==
    ASSUME Types, Next, BothRun'
    PROVE  BothRun
<1> USE DEF Types, Shape, BothRun, Off, sides, net, clocks
<1>1. CASE ClientStep
  BY <1>1 DEF ClientStep, HandleSendIntervalElapsed, ClientHandleKeepaliveElapsed,
        ClientHandleSendGameDataRequest, HandleConnectChallengePacket,
        ClientHandleKeepalivePacket, ClientHandleGameDataPacket, Confirm,
        ClientHandleDisconnectPacket, HandleServerTimeout, ClientStops
<1>2. CASE ServerStep
  <2>1. client' = client
    BY <1>2 DEF ServerStep, HandleConnectInitPacket, HandleConnectResponsePacket,
        HandleKeepalivePacket, HandleGameDataPacket, HandleSendGameDataRequest,
        HandleClientTimeout, HandleDisconnectElapsed, HandlePendingConnectionSend,
        HandleKeepaliveElapsed, ServerStops
  <2>2. HandleClientTimeout => server.variant # "Stopped"
    BY DEF HandleClientTimeout, Open
  <2>3. CASE server.variant = "Stopped"
    BY <1>2, <2>2, <2>3 DEF ServerStep, HandleConnectInitPacket, HandleConnectResponsePacket,
        TypeOK, Server, HandleKeepalivePacket, HandleGameDataPacket, HandleSendGameDataRequest,
        HandleDisconnectElapsed, HandlePendingConnectionSend, HandleKeepaliveElapsed, ServerStops
  <2> QED
    BY <2>1, <2>3
<1>3. CASE Tick
  BY <1>3 DEF Tick, Counted
<1> QED
  BY <1>1, <1>2, <1>3 DEF Next

\* What the network does to the kind that is received or sent, and that it
\* leaves the others alone.
LEMMA Others ==
    ASSUME Types, NEW kind \in Kind
    PROVE  /\ Arrives(kind) \/ SendOnce(kind) =>
                  /\ lost' = lost
                  /\ \A k \in Kind \ {kind} : flight'[k] = flight[k]
           /\ Arrives(kind) => flight[kind] # {} /\ flight'[kind] \subseteq flight[kind]
           /\ kind \in Repeated /\ SendAgain(kind) =>
                  /\ \A k \in Kind \ {kind} : flight'[k] = flight[k]
                  /\ \A k \in Repeated \ {kind} : lost'[k] = lost[k]
BY DEF Types, TypeOK, Arrives, SendOnce, SendAgain, Carried

\* The packet that carries a phase on is sent again: it still arrives in time.
LEMMA SentAgain ==
    ASSUME Types, NEW kind \in Repeated, SendAgain(kind),
           NEW x \in Int, Arriving(kind, 0, x)
    PROVE  Within(flight'[kind], lost'[kind], kind, Interval(kind), x)
<1>1. kind \in Kind /\ flight[kind] \in SUBSET (0 .. MaxDelay) /\ lost[kind] \in 0 .. MaxLoss
  BY DEF Types, TypeOK, Repeated
<1>2. Within(flight[kind], lost[kind], kind, 0, x)
  BY DEF Arriving
<1>3. \/ flight'[kind] = flight[kind] \cup {0} /\ lost'[kind] = 0
      \/ flight'[kind] = flight[kind] /\ lost'[kind] = lost[kind] + 1 /\ lost[kind] < MaxLoss
  BY <1>1 DEF SendAgain, Carried, Types, TypeOK
<1> QED
  BY <1>1, <1>2, <1>3, DeadlineSent

\* The deadlines are numbers.
LEMMA Deadlines ==
    ASSUME Types, NEW rest \in Int
    PROVE  ClientHas(rest) \in Int /\ ServerHas(rest) \in Int /\ HandshakeHas(rest) \in Int
BY Fields, Budgets DEF ClientHas, ServerHas, HandshakeHas, Off

LEMMA Rests ==
    /\ AfterInit \in Int /\ AfterChallenge \in Int /\ AfterResponse \in Int /\ Round \in Int
    /\ AfterInit = SendBudget + AfterChallenge
    /\ AfterChallenge = SendBudget + AfterResponse
    /\ AfterResponse = KeepaliveBudget
    /\ Round = KeepaliveInterval + KeepaliveBudget
BY Budgets DEF AfterInit, AfterChallenge, AfterResponse, Round

\* The three deadlines of a phase have not passed.
LEMMA TimeLeft ==
    ASSUME Types, InPhase, BothRun
    PROVE  /\ client.timeout > 0
           /\ server.timeout # 0
           /\ age > Handshake => Keeping
           /\ Calling => client.timeout > AfterInit /\ age <= Handshake - AfterInit
           /\ Challenging => /\ client.timeout > AfterChallenge
                             /\ age <= Handshake - AfterChallenge
                             /\ server.timeout > AfterChallenge + Round
           /\ Answering => /\ client.timeout > AfterResponse
                           /\ age <= Handshake - AfterResponse
                           /\ server.timeout > AfterResponse + Round
           /\ Confirming => server.timeout > Round
<1>1. ASSUME NEW kind \in Repeated, NEW w \in Nat, NEW x \in Int, Arriving(kind, w, x)
      PROVE  x > 0
  BY <1>1, DeadlineAhead DEF Arriving, Types, TypeOK, Repeated
<1>2. /\ client.variant \in Trying => client.sendIn \in Nat
      /\ server.variant \in Open => server.sendIn \in Nat
  BY Fields DEF Types, Shape
<1>3. Repeated = {"ConnectInit", "ConnectResponse", "ClientKeepalive", "ConnectChallenge",
                  "ServerKeepalive"}
  BY DEF Repeated, Kind, Up, Down
<1> USE Rests DEF Trying, Open
<1>4. CASE Calling
  <2>1. ClientHas(AfterInit) > 0 /\ HandshakeHas(AfterInit) > 0
    BY <1>4, <1>1, <1>2, <1>3, Deadlines DEF Calling
  <2> QED
    BY <1>4, <2>1, Fields, Budgets
       DEF Calling, Challenging, Answering, Confirming, Keeping, ClientHas, ServerHas,
           HandshakeHas, Off, Types, Shape
<1>5. CASE Challenging
  <2>1. /\ ClientHas(AfterChallenge) > 0 /\ HandshakeHas(AfterChallenge) > 0
        /\ ServerHas(AfterChallenge + Round) > 0
    BY <1>5, <1>1, <1>2, <1>3, Deadlines DEF Challenging
  <2> QED
    BY <1>5, <2>1, Fields, Budgets
       DEF Calling, Challenging, Answering, Confirming, Keeping, ClientHas, ServerHas,
           HandshakeHas, Off
<1>6. CASE Answering
  <2>1. /\ ClientHas(AfterResponse) > 0 /\ HandshakeHas(AfterResponse) > 0
        /\ ServerHas(AfterResponse + Round) > 0
    BY <1>6, <1>1, <1>2, <1>3, Deadlines DEF Answering
  <2> QED
    BY <1>6, <2>1, Fields, Budgets
       DEF Calling, Challenging, Answering, Confirming, Keeping, ClientHas, ServerHas,
           HandshakeHas, Off
<1>7. CASE Confirming
  <2>1. ClientHas(0) > 0 /\ HandshakeHas(0) > 0 /\ ServerHas(Round) > 0
    BY <1>7, <1>1, <1>2, <1>3, Deadlines DEF Confirming
  <2> QED
    BY <1>7, <2>1, Fields, Budgets
       DEF Calling, Challenging, Answering, Confirming, Keeping, ClientHas, ServerHas,
           HandshakeHas, Off
<1>8. CASE Keeping
  <2>1. ClientHas(0) > 0 /\ ServerHas(0) > 0
    BY <1>8, <1>1, <1>2, <1>3, Deadlines DEF Keeping
  <2> QED
    BY <1>8, <2>1, Fields, Budgets
       DEF Calling, Challenging, Answering, Confirming, Keeping, ClientHas, ServerHas,
           HandshakeHas, Off
<1> QED
  BY <1>4, <1>5, <1>6, <1>7, <1>8 DEF InPhase

\* What is left is enough for the phase that follows.
LEMMA NextPhase ==
    ASSUME Types, InPhase, BothRun
    PROVE  /\ Calling => /\ SendBudget < ClientHas(AfterChallenge)
                         /\ SendBudget < HandshakeHas(AfterChallenge)
           /\ Challenging => /\ SendBudget < ClientHas(AfterResponse)
                             /\ SendBudget < HandshakeHas(AfterResponse)
                             /\ SendBudget < ServerHas(AfterResponse + Round)
           /\ Answering => /\ KeepaliveBudget < ClientHas(0)
                           /\ KeepaliveBudget < HandshakeHas(0)
                           /\ KeepaliveBudget < ServerHas(Round)
           /\ Confirming => KeepaliveInterval + KeepaliveBudget < ServerHas(0)
BY TimeLeft, Fields, Rests, Budgets DEF ClientHas, ServerHas, HandshakeHas, Off

\* A packet that starts to be sent arrives within its budget.
LEMMA Begins ==
    ASSUME Types', NEW kind \in Repeated, NEW w \in Nat, NEW x \in Int, w + Budget(kind) < x
    PROVE  Within(flight'[kind], lost'[kind], kind, w, x)
BY DeadlineBegun DEF Types, TypeOK, Repeated

LEMMA BeginsNow ==
    ASSUME Types'
    PROVE  /\ \A kind \in {"ConnectChallenge", "ConnectResponse"}, x \in Int : SendBudget < x =>
                Within(flight'[kind], lost'[kind], kind, 0, x)
           /\ \A kind \in {"ClientKeepalive", "ServerKeepalive"},
                 w \in 0 .. KeepaliveInterval, x \in Int : w + KeepaliveBudget < x =>
                Within(flight'[kind], lost'[kind], kind, w, x)
<1>1. ASSUME NEW kind \in {"ConnectChallenge", "ConnectResponse"}, NEW x \in Int, SendBudget < x
      PROVE  Within(flight'[kind], lost'[kind], kind, 0, x)
  <2>1. kind \in Repeated /\ Budget(kind) = SendBudget
    BY DEF Repeated, Kind, Up, Down, Budget
  <2>2. 0 + Budget(kind) < x
    BY <1>1, <2>1, Budgets
  <2> QED
    BY <2>1, <2>2, Begins
<1>2. ASSUME NEW kind \in {"ClientKeepalive", "ServerKeepalive"},
             NEW w \in 0 .. KeepaliveInterval, NEW x \in Int, w + KeepaliveBudget < x
      PROVE  Within(flight'[kind], lost'[kind], kind, w, x)
  <2>1. kind \in Repeated /\ Budget(kind) = KeepaliveBudget
    BY DEF Repeated, Kind, Up, Down, Budget
  <2> QED
    BY <1>2, <2>1, Begins
<1> QED
  BY <1>1, <1>2

\* The client's actions keep the two sides in phase.
LEMMA PhaseClient ==
    ASSUME Types, Types', InPhase, BothRun, BothRun', ClientStep
    PROVE  InPhase'
<1> USE Rests, Budgets
    DEF Types, TypeOK, Client, Kind, Up, Down, Repeated, Nothing, Arriving, ClientHas, ServerHas,
        HandshakeHas, clocks, sides, net
<1>0. Nothing({"Disconnect"}) /\ (Calling \/ Challenging \/ Answering \/ Confirming \/ Keeping)
  BY DEF InPhase
<1>1. CASE HandleSendIntervalElapsed
  <2> USE <1>1 DEF HandleSendIntervalElapsed
  <2>1. CASE Calling
    <3>1. SendAgain("ConnectInit") /\ client.sendIn = 0 /\ "ConnectInit" \in Repeated
      BY <2>1 DEF Calling
    <3>2. \A x \in Int : Arriving("ConnectInit", client.sendIn, x) =>
             Within(flight'["ConnectInit"], lost'["ConnectInit"], "ConnectInit", SendInterval, x)
      BY <3>1, SentAgain DEF Interval
    <3>3. Calling'
      BY <2>1, <3>1, <3>2, Others, Deadlines DEF Calling
    <3> QED
      BY <1>0, <3>1, <3>3, Others DEF InPhase
  <2>2. CASE Challenging
    <3>1. Challenging' /\ flight'["Disconnect"] = {}
      BY <1>0, <2>2, Others DEF Challenging
    <3> QED
      BY <3>1 DEF InPhase
  <2>3. CASE Answering
    <3>1. SendAgain("ConnectResponse") /\ client.sendIn = 0 /\ "ConnectResponse" \in Repeated
      BY <2>3 DEF Answering
    <3>2. \A x \in Int : Arriving("ConnectResponse", client.sendIn, x) =>
             Within(flight'["ConnectResponse"], lost'["ConnectResponse"], "ConnectResponse",
                    SendInterval, x)
      BY <3>1, SentAgain DEF Interval
    <3>3. Answering'
      BY <2>3, <3>1, <3>2, Others, Deadlines DEF Answering
    <3> QED
      BY <1>0, <3>1, <3>3, Others DEF InPhase
  <2>4. CASE Confirming
    <3>1. Confirming' /\ flight'["Disconnect"] = {}
      BY <1>0, <2>4, Others DEF Confirming
    <3> QED
      BY <3>1 DEF InPhase
  <2>5. CASE Keeping
    BY <2>5 DEF Keeping
  <2> QED
    BY <1>0, <2>1, <2>2, <2>3, <2>4, <2>5
<1>2. CASE ClientHandleKeepaliveElapsed
  <2> USE <1>2 DEF ClientHandleKeepaliveElapsed
  <2>1. Keeping /\ SendAgain("ClientKeepalive") /\ client.sendIn = 0
    BY <1>0 DEF Calling, Challenging, Answering, Confirming
  <2>2. \A x \in Int : Arriving("ClientKeepalive", client.sendIn, x) =>
           Within(flight'["ClientKeepalive"], lost'["ClientKeepalive"], "ClientKeepalive",
                  KeepaliveInterval, x)
    BY <2>1, SentAgain DEF Interval
  <2>3. Keeping' /\ flight'["Disconnect"] = {}
    BY <1>0, <2>1, <2>2, Others, Deadlines DEF Keeping
  <2> QED
    BY <2>3 DEF InPhase
<1>3. CASE ClientHandleSendGameDataRequest
  <2> USE <1>3 DEF ClientHandleSendGameDataRequest
  <2>1. Keeping
    BY <1>0 DEF Calling, Challenging, Answering, Confirming
  <2>2. Keeping' /\ flight'["Disconnect"] = {}
    BY <1>0, <2>1, Others DEF Keeping
  <2> QED
    BY <2>2 DEF InPhase
<1>4. CASE HandleConnectChallengePacket
  <2> USE <1>4 DEF HandleConnectChallengePacket
  <2>0. flight'["Disconnect"] = {} /\ flight["ConnectChallenge"] # {}
    BY <1>0, Others
  <2>1. CASE Calling
    BY <2>0, <2>1 DEF Calling
  <2>2. CASE Challenging
    <3>1. client'.sendIn = 0 /\ client'.timeout = client.timeout
      BY <2>2 DEF Challenging
    <3>2. \A x \in Int : SendBudget < x =>
             Within(flight'["ConnectResponse"], lost'["ConnectResponse"], "ConnectResponse", 0, x)
      BY BeginsNow
    <3>3. Answering'
      BY <2>2, <3>1, <3>2, NextPhase, Others, Deadlines DEF Challenging, Answering
    <3> QED
      BY <2>0, <3>3 DEF InPhase
  <2>3. CASE Answering
    <3>1. Answering'
      BY <2>3, Others DEF Answering
    <3> QED
      BY <2>0, <3>1 DEF InPhase
  <2>4. CASE Confirming
    <3>1. Confirming'
      BY <2>4, Others DEF Confirming
    <3> QED
      BY <2>0, <3>1 DEF InPhase
  <2>5. CASE Keeping
    <3>1. Keeping'
      BY <2>5, Others DEF Keeping
    <3> QED
      BY <2>0, <3>1 DEF InPhase
  <2> QED
    BY <1>0, <2>1, <2>2, <2>3, <2>4, <2>5
<1>5. CASE ClientHandleKeepalivePacket
  <2> USE <1>5 DEF ClientHandleKeepalivePacket, Confirm, Refreshed
  <2>0. flight'["Disconnect"] = {} /\ flight["ServerKeepalive"] # {}
    BY <1>0, Others
  <2>1. \A w \in 0 .. KeepaliveInterval, x \in Int : w + KeepaliveBudget < x =>
           Within(flight'["ServerKeepalive"], lost'["ServerKeepalive"], "ServerKeepalive", w, x)
    BY BeginsNow
  <2>2. server.variant = "Connected" => server.sendIn \in 0 .. KeepaliveInterval
    BY Fields DEF Shape, Open
  <2>3. client.variant # "Stopped" => client'.timeout = TimeoutInterval \/ client' = client
    BY TimeLeft, Fields DEF Off
  <2>4. CASE Calling \/ Challenging \/ Answering
    BY <2>0, <2>4 DEF Calling, Challenging, Answering
  <2>5. CASE Confirming
    <3>1. client'.sendIn = KeepaliveInterval /\ client'.timeout = TimeoutInterval
      BY <2>3, <2>5, TimeLeft, Fields DEF Confirming, Off
    <3>2. \A x \in Int : KeepaliveInterval + KeepaliveBudget < x =>
             Within(flight'["ClientKeepalive"], lost'["ClientKeepalive"], "ClientKeepalive",
                    KeepaliveInterval, x)
      BY BeginsNow
    <3>3. KeepaliveInterval + KeepaliveBudget < ServerHas(0)
      BY <2>5, NextPhase
    <3>4. server.sendIn + KeepaliveBudget < TimeoutInterval
      BY <2>2, <2>5 DEF Confirming
    <3>5. server' = server /\ client'.variant = "Connected" /\ server.variant = "Connected"
      BY <2>5 DEF Confirming
    <3>6. Arriving("ServerKeepalive", server.sendIn, ClientHas(0))'
      BY <2>1, <2>2, <3>1, <3>4, <3>5
    <3>7. Arriving("ClientKeepalive", client.sendIn, ServerHas(0))'
      BY <3>1, <3>2, <3>3, <3>5, Deadlines
    <3> QED
      BY <2>0, <3>5, <3>6, <3>7 DEF InPhase, Keeping
  <2>6. CASE Keeping
    <3>1. client'.timeout = TimeoutInterval
      BY <2>3, <2>6, TimeLeft, Fields DEF Keeping, Off
    <3>2. server.sendIn + KeepaliveBudget < TimeoutInterval
      BY <2>2, <2>6 DEF Keeping
    <3>3. server' = server /\ client'.variant = "Connected" /\ client'.sendIn = client.sendIn
      BY <2>6 DEF Keeping
    <3>4. Keeping'
      BY <2>1, <2>2, <2>6, <3>1, <3>2, <3>3, Others, Deadlines DEF Keeping
    <3> QED
      BY <2>0, <3>4 DEF InPhase
  <2> QED
    BY <1>0, <2>4, <2>5, <2>6
<1>6. CASE ClientHandleGameDataPacket
  <2> USE <1>6 DEF ClientHandleGameDataPacket, Confirm, Refreshed
  <2>0. flight'["Disconnect"] = {} /\ flight["ServerGameData"] # {}
    BY <1>0, Others
  <2>1. \A w \in 0 .. KeepaliveInterval, x \in Int : w + KeepaliveBudget < x =>
           Within(flight'["ServerKeepalive"], lost'["ServerKeepalive"], "ServerKeepalive", w, x)
    BY BeginsNow
  <2>2. server.variant = "Connected" => server.sendIn \in 0 .. KeepaliveInterval
    BY Fields DEF Shape, Open
  <2>3. client.variant # "Stopped" => client'.timeout = TimeoutInterval \/ client' = client
    BY TimeLeft, Fields DEF Off
  <2>4. CASE Calling \/ Challenging \/ Answering
    BY <2>0, <2>4 DEF Calling, Challenging, Answering
  <2>5. CASE Confirming
    <3>1. client'.sendIn = KeepaliveInterval /\ client'.timeout = TimeoutInterval
      BY <2>3, <2>5, TimeLeft, Fields DEF Confirming, Off
    <3>2. \A x \in Int : KeepaliveInterval + KeepaliveBudget < x =>
             Within(flight'["ClientKeepalive"], lost'["ClientKeepalive"], "ClientKeepalive",
                    KeepaliveInterval, x)
      BY BeginsNow
    <3>3. KeepaliveInterval + KeepaliveBudget < ServerHas(0)
      BY <2>5, NextPhase
    <3>4. server.sendIn + KeepaliveBudget < TimeoutInterval
      BY <2>2, <2>5 DEF Confirming
    <3>5. server' = server /\ client'.variant = "Connected" /\ server.variant = "Connected"
      BY <2>5 DEF Confirming
    <3>6. Arriving("ServerKeepalive", server.sendIn, ClientHas(0))'
      BY <2>1, <2>2, <3>1, <3>4, <3>5
    <3>7. Arriving("ClientKeepalive", client.sendIn, ServerHas(0))'
      BY <3>1, <3>2, <3>3, <3>5, Deadlines
    <3> QED
      BY <2>0, <3>5, <3>6, <3>7 DEF InPhase, Keeping
  <2>6. CASE Keeping
    <3>1. client'.timeout = TimeoutInterval
      BY <2>3, <2>6, TimeLeft, Fields DEF Keeping, Off
    <3>2. server.sendIn + KeepaliveBudget < TimeoutInterval
      BY <2>2, <2>6 DEF Keeping
    <3>3. server' = server /\ client'.variant = "Connected" /\ client'.sendIn = client.sendIn
      BY <2>6 DEF Keeping
    <3>4. Keeping'
      BY <2>1, <2>2, <2>6, <3>1, <3>2, <3>3, Others, Deadlines DEF Keeping
    <3> QED
      BY <2>0, <3>4 DEF InPhase
  <2> QED
    BY <1>0, <2>4, <2>5, <2>6
<1>7. CASE ClientHandleDisconnectPacket
  BY <1>0, <1>7, Others DEF ClientHandleDisconnectPacket
<1>8. CASE HandleServerTimeout
  BY <1>8, TimeLeft DEF HandleServerTimeout
<1>9. CASE ClientStops
  BY <1>9 DEF ClientStops, BothRun
<1> QED
  BY <1>1, <1>2, <1>3, <1>4, <1>5, <1>6, <1>7, <1>8, <1>9 DEF ClientStep

\* A later timeout is a later deadline.
LEMMA Refreshes ==
    ASSUME Types, Types', NEW kind \in Repeated, NEW w \in Nat, NEW rest \in Int,
           Arriving(kind, w, ServerHas(rest)),
           flight'[kind] = flight[kind], lost'[kind] = lost[kind],
           server'.timeout = TimeoutInterval
    PROVE  Within(flight'[kind], lost'[kind], kind, w, server'.timeout - rest)
<1>1. server.timeout <= TimeoutInterval /\ server.timeout \in Int /\ TimeoutInterval \in Int
  BY Fields, Budgets DEF Off
<1>2. Within(flight[kind], lost[kind], kind, w, server.timeout - rest)
  BY DEF Arriving, ServerHas
<1>3. kind \in Kind /\ flight[kind] \in SUBSET (0 .. MaxDelay) /\ lost[kind] \in 0 .. MaxLoss
  BY DEF Types, TypeOK, Repeated
<1>4. server.timeout - rest \in Int /\ TimeoutInterval - rest \in Int
      /\ server.timeout - rest <= TimeoutInterval - rest
  BY <1>1
<1> QED
  BY <1>2, <1>3, <1>4, DeadlineLater

\* The server's actions keep the two sides in phase.
LEMMA PhaseServer ==
    ASSUME Types, Types', InPhase, BothRun, BothRun', ServerStep
    PROVE  InPhase'
<1> USE Rests, Budgets
    DEF Types, TypeOK, Server, Kind, Up, Down, Repeated, Nothing, Arriving, ClientHas, ServerHas,
        HandshakeHas, clocks, sides, net
<1>0. Nothing({"Disconnect"}) /\ (Calling \/ Challenging \/ Answering \/ Confirming \/ Keeping)
  BY DEF InPhase
<1>a. client.variant \in Trying => client.sendIn \in 0 .. KeepaliveInterval
  BY Fields DEF Shape
<1>b. server.variant \in Open => server.sendIn \in 0 .. KeepaliveInterval
  BY Fields DEF Shape
<1>1. CASE HandleConnectInitPacket
  <2> USE <1>1 DEF HandleConnectInitPacket
  <2>0. flight'["Disconnect"] = {}
    BY <1>0, Others
  <2>1. CASE Calling
    <3>1. /\ client' = client /\ age' = age
          /\ server' = [NoEntry EXCEPT !.variant = "Pending", !.sendIn = 0,
                                       !.timeout = TimeoutInterval]
      BY <2>1 DEF Calling
    <3>2. server'.variant = "Pending" /\ server'.sendIn = 0 /\ server'.timeout = TimeoutInterval
      BY <3>1 DEF NoEntry
    <3>3. \A x \in Int : SendBudget < x =>
             Within(flight'["ConnectChallenge"], lost'["ConnectChallenge"], "ConnectChallenge", 0, x)
      BY BeginsNow
    <3>4. SendBudget < TimeoutInterval - (AfterChallenge + Round)
      BY Rests, Budgets
    <3>5. Challenging'
      BY <2>1, <3>1, <3>2, <3>3, <3>4, NextPhase, Others, Deadlines DEF Calling, Challenging
    <3> QED
      BY <2>0, <3>5 DEF InPhase
  <2>2. CASE Challenging
    <3>1. Challenging'
      BY <2>2, Others DEF Challenging
    <3> QED
      BY <2>0, <3>1 DEF InPhase
  <2>3. CASE Answering
    <3>1. Answering'
      BY <2>3, Others DEF Answering
    <3> QED
      BY <2>0, <3>1 DEF InPhase
  <2>4. CASE Confirming
    <3>1. Confirming'
      BY <2>4, Others DEF Confirming
    <3> QED
      BY <2>0, <3>1 DEF InPhase
  <2>5. CASE Keeping
    <3>1. Keeping'
      BY <2>5, Others DEF Keeping
    <3> QED
      BY <2>0, <3>1 DEF InPhase
  <2> QED
    BY <1>0, <2>1, <2>2, <2>3, <2>4, <2>5
<1>2. CASE HandleConnectResponsePacket
  <2> USE <1>2 DEF HandleConnectResponsePacket
  <2>0. flight'["Disconnect"] = {} /\ flight["ConnectResponse"] # {}
    BY <1>0, Others
  <2>1. CASE Calling \/ Challenging
    BY <2>0, <2>1 DEF Calling, Challenging
  <2>2. CASE Answering
    <3>1. /\ client' = client /\ age' = age
          /\ server' = [server EXCEPT !.variant = "Connected", !.sendIn = 0]
      BY <2>2 DEF Answering
    <3>2. server'.variant = "Connected" /\ server'.sendIn = 0 /\ server'.timeout = server.timeout
      BY <3>1
    <3>3. \A x \in Int : KeepaliveBudget < x =>
             Within(flight'["ServerKeepalive"], lost'["ServerKeepalive"], "ServerKeepalive", 0, x)
      BY BeginsNow
    <3>4. Confirming'
      BY <2>2, <3>1, <3>2, <3>3, NextPhase, Others, Deadlines DEF Answering, Confirming
    <3> QED
      BY <2>0, <3>4 DEF InPhase
  <2>3. CASE Confirming
    <3>1. Confirming'
      BY <2>3, Others DEF Confirming
    <3> QED
      BY <2>0, <3>1 DEF InPhase
  <2>4. CASE Keeping
    <3>1. Keeping'
      BY <2>4, Others DEF Keeping
    <3> QED
      BY <2>0, <3>1 DEF InPhase
  <2> QED
    BY <1>0, <2>1, <2>2, <2>3, <2>4
<1>3. CASE HandleKeepalivePacket
  <2> USE <1>3 DEF HandleKeepalivePacket, Refreshed
  <2>0. flight'["Disconnect"] = {} /\ client' = client /\ age' = age
    BY <1>0, Others
  <2>r. \/ server' = server
        \/ /\ server'.timeout = TimeoutInterval /\ server'.variant = server.variant
           /\ server'.sendIn = server.sendIn
    BY DEF Off
  <2>1. CASE Calling
    <3>1. server' = server
      BY <2>1 DEF Calling, Shape, Open
    <3>2. Calling'
      BY <2>0, <2>1, <3>1, Others DEF Calling
    <3> QED
      BY <2>0, <3>2 DEF InPhase
  <2>2. CASE Challenging
    <3>1. flight'["ConnectChallenge"] = flight["ConnectChallenge"] /\ lost' = lost /\ server.sendIn \in Nat
      BY <1>a, <1>b, <2>2, Others DEF Challenging, Trying, Open
    <3>2. server'.timeout = TimeoutInterval =>
             Within(flight'["ConnectChallenge"], lost'["ConnectChallenge"], "ConnectChallenge", server.sendIn,
                    server'.timeout - (AfterChallenge + Round))
      BY <2>2, <3>1, Refreshes DEF Challenging
    <3>3. Challenging'
      BY <2>0, <2>r, <2>2, <3>1, <3>2, Others DEF Challenging
    <3> QED
      BY <2>0, <3>3 DEF InPhase
  <2>3. CASE Answering
    <3>1. flight'["ConnectResponse"] = flight["ConnectResponse"] /\ lost' = lost /\ client.sendIn \in Nat
      BY <1>a, <1>b, <2>3, Others DEF Answering, Trying, Open
    <3>2. server'.timeout = TimeoutInterval =>
             Within(flight'["ConnectResponse"], lost'["ConnectResponse"], "ConnectResponse", client.sendIn,
                    server'.timeout - (AfterResponse + Round))
      BY <2>3, <3>1, Refreshes, SMTT(20) DEF Answering
    <3>3. Answering'
      BY <2>0, <2>r, <2>3, <3>1, <3>2, Others DEF Answering
    <3> QED
      BY <2>0, <3>3 DEF InPhase
  <2>4. CASE Confirming
    <3>1. flight'["ServerKeepalive"] = flight["ServerKeepalive"] /\ lost' = lost /\ server.sendIn \in Nat
      BY <1>a, <1>b, <2>4, Others DEF Confirming, Trying, Open
    <3>2. server'.timeout = TimeoutInterval =>
             Within(flight'["ServerKeepalive"], lost'["ServerKeepalive"], "ServerKeepalive", server.sendIn,
                    server'.timeout - Round)
      BY <2>4, <3>1, Refreshes DEF Confirming
    <3>3. Confirming'
      BY <2>0, <2>r, <2>4, <3>1, <3>2, Others DEF Confirming
    <3> QED
      BY <2>0, <3>3 DEF InPhase
  <2>5. CASE Keeping
    <3>1. server'.timeout = TimeoutInterval /\ client.sendIn \in 0 .. KeepaliveInterval
      BY <1>a, <2>5, Fields DEF Keeping, Trying, Open, Shape
    <3>2. \A w \in 0 .. KeepaliveInterval : w + KeepaliveBudget < TimeoutInterval =>
             Within(flight'["ClientKeepalive"], lost'["ClientKeepalive"], "ClientKeepalive", w,
                    TimeoutInterval)
      BY BeginsNow
    <3>3. Keeping'
      BY <2>0, <2>r, <2>5, <3>1, <3>2, Others, Deadlines DEF Keeping
    <3> QED
      BY <2>0, <3>3 DEF InPhase
  <2> QED
    BY <1>0, <2>1, <2>2, <2>3, <2>4, <2>5
<1>4. CASE HandleGameDataPacket
  <2> USE <1>4 DEF HandleGameDataPacket, Refreshed
  <2>0. flight'["Disconnect"] = {} /\ client' = client /\ age' = age
    BY <1>0, Others
  <2>r. \/ server' = server
        \/ /\ server'.timeout = TimeoutInterval /\ server'.variant = server.variant
           /\ server'.sendIn = server.sendIn
    BY DEF Off
  <2>1. CASE Calling
    <3>1. server' = server
      BY <2>1 DEF Calling, Shape, Open
    <3>2. Calling'
      BY <2>0, <2>1, <3>1, Others DEF Calling
    <3> QED
      BY <2>0, <3>2 DEF InPhase
  <2>2. CASE Challenging
    <3>1. flight'["ConnectChallenge"] = flight["ConnectChallenge"] /\ lost' = lost /\ server.sendIn \in Nat
      BY <1>a, <1>b, <2>2, Others DEF Challenging, Trying, Open
    <3>2. server'.timeout = TimeoutInterval =>
             Within(flight'["ConnectChallenge"], lost'["ConnectChallenge"], "ConnectChallenge", server.sendIn,
                    server'.timeout - (AfterChallenge + Round))
      BY <2>2, <3>1, Refreshes DEF Challenging
    <3>3. Challenging'
      BY <2>0, <2>r, <2>2, <3>1, <3>2, Others DEF Challenging
    <3> QED
      BY <2>0, <3>3 DEF InPhase
  <2>3. CASE Answering
    <3>1. flight'["ConnectResponse"] = flight["ConnectResponse"] /\ lost' = lost /\ client.sendIn \in Nat
      BY <1>a, <1>b, <2>3, Others DEF Answering, Trying, Open
    <3>2. server'.timeout = TimeoutInterval =>
             Within(flight'["ConnectResponse"], lost'["ConnectResponse"], "ConnectResponse", client.sendIn,
                    server'.timeout - (AfterResponse + Round))
      BY <2>3, <3>1, Refreshes DEF Answering
    <3>3. Answering'
      BY <2>0, <2>r, <2>3, <3>1, <3>2, Others DEF Answering
    <3> QED
      BY <2>0, <3>3 DEF InPhase
  <2>4. CASE Confirming
    <3>1. flight'["ServerKeepalive"] = flight["ServerKeepalive"] /\ lost' = lost /\ server.sendIn \in Nat
      BY <1>a, <1>b, <2>4, Others DEF Confirming, Trying, Open
    <3>2. server'.timeout = TimeoutInterval =>
             Within(flight'["ServerKeepalive"], lost'["ServerKeepalive"], "ServerKeepalive", server.sendIn,
                    server'.timeout - Round)
      BY <2>4, <3>1, Refreshes DEF Confirming
    <3>3. Confirming'
      BY <2>0, <2>r, <2>4, <3>1, <3>2, Others DEF Confirming
    <3> QED
      BY <2>0, <3>3 DEF InPhase
  <2>5. CASE Keeping
    <3>1. /\ flight'["ClientKeepalive"] = flight["ClientKeepalive"] /\ lost' = lost
          /\ client.sendIn \in Nat
      BY <1>a, <2>5, Others DEF Keeping, Trying
    <3>2. /\ client'.variant = "Connected" /\ server'.variant = "Connected"
          /\ flight'["ServerKeepalive"] = flight["ServerKeepalive"]
          /\ server'.sendIn = server.sendIn /\ ClientHas(0)' = ClientHas(0) /\ lost' = lost
      BY <2>0, <2>r, <2>5, Others DEF Keeping
    <3>3. Arriving("ServerKeepalive", server.sendIn, ClientHas(0))'
      BY ONLY <2>5, <3>2 DEF Keeping, Arriving
    <3>4. ASSUME server' = server PROVE Keeping'
      <4>1. ServerHas(0)' = ServerHas(0)
        BY <3>4
      <4>2. Arriving("ClientKeepalive", client.sendIn, ServerHas(0))'
        BY ONLY <2>0, <2>5, <3>1, <3>2, <4>1 DEF Keeping, Arriving
      <4> QED
        BY ONLY <3>2, <3>3, <4>2 DEF Keeping
    <3>5. ASSUME server'.timeout = TimeoutInterval PROVE Keeping'
      <4>1. Within(flight'["ClientKeepalive"], lost'["ClientKeepalive"], "ClientKeepalive",
                   client.sendIn, server'.timeout - 0)
        BY ONLY <2>5, <3>1, <3>2, <3>5, Refreshes, Types, Types' DEF Keeping, Repeated
      <4>2. Arriving("ClientKeepalive", client.sendIn, ServerHas(0))'
        BY ONLY <2>0, <4>1 DEF Arriving, ServerHas
      <4> QED
        BY ONLY <3>2, <3>3, <4>2 DEF Keeping
    <3>6. Keeping'
      BY ONLY <2>r, <3>4, <3>5
    <3> QED
      BY <2>0, <3>6 DEF InPhase
  <2> QED
    BY <1>0, <2>1, <2>2, <2>3, <2>4, <2>5
<1>5. CASE HandleSendGameDataRequest
  <2> USE <1>5 DEF HandleSendGameDataRequest
  <2>0. flight'["Disconnect"] = {}
    BY <1>0, Others
  <2>1. Confirming \/ Keeping
    BY <1>0 DEF Calling, Challenging, Answering
  <2>2. CASE Confirming
    <3>1. Confirming'
      BY <2>2, Others DEF Confirming
    <3> QED
      BY <2>0, <3>1 DEF InPhase
  <2>3. CASE Keeping
    <3>1. Keeping'
      BY <2>3, Others DEF Keeping
    <3> QED
      BY <2>0, <3>1 DEF InPhase
  <2> QED
    BY <2>1, <2>2, <2>3
<1>6. CASE HandleClientTimeout
  BY <1>6, TimeLeft DEF HandleClientTimeout
<1>7. CASE HandleDisconnectElapsed
  BY <1>0, <1>7 DEF HandleDisconnectElapsed, Calling, Challenging, Answering, Confirming, Keeping
<1>8. CASE HandlePendingConnectionSend
  <2> USE <1>8 DEF HandlePendingConnectionSend
  <2>0. flight'["Disconnect"] = {} /\ SendAgain("ConnectChallenge") /\ server.sendIn = 0
    BY <1>0, Others
  <2>1. Challenging \/ Answering
    BY <1>0 DEF Calling, Confirming, Keeping
  <2>2. CASE Challenging
    <3>1. \A x \in Int : Arriving("ConnectChallenge", server.sendIn, x) =>
             Within(flight'["ConnectChallenge"], lost'["ConnectChallenge"], "ConnectChallenge",
                    SendInterval, x)
      BY <2>0, SentAgain DEF Interval
    <3>2. Challenging'
      BY <2>0, <2>2, <3>1, Others, Deadlines DEF Challenging
    <3> QED
      BY <2>0, <3>2 DEF InPhase
  <2>3. CASE Answering
    <3>1. Answering'
      BY <2>3, Others DEF Answering
    <3> QED
      BY <2>0, <3>1 DEF InPhase
  <2> QED
    BY <2>1, <2>2, <2>3
<1>9. CASE HandleKeepaliveElapsed
  <2> USE <1>9 DEF HandleKeepaliveElapsed
  <2>0. flight'["Disconnect"] = {} /\ SendAgain("ServerKeepalive") /\ server.sendIn = 0
    BY <1>0, Others
  <2>1. Confirming \/ Keeping
    BY <1>0 DEF Calling, Challenging, Answering
  <2>2. \A x \in Int : Arriving("ServerKeepalive", server.sendIn, x) =>
           Within(flight'["ServerKeepalive"], lost'["ServerKeepalive"], "ServerKeepalive",
                  KeepaliveInterval, x)
    BY <2>0, SentAgain DEF Interval
  <2>3. CASE Confirming
    <3>1. Confirming'
      BY <2>0, <2>2, <2>3, Others, Deadlines DEF Confirming
    <3> QED
      BY <2>0, <3>1 DEF InPhase
  <2>4. CASE Keeping
    <3>1. Keeping'
      BY <2>0, <2>2, <2>4, Others, Deadlines DEF Keeping
    <3> QED
      BY <2>0, <3>1 DEF InPhase
  <2> QED
    BY <2>1, <2>3, <2>4
<1>10. CASE ServerStops
  BY <1>10 DEF ServerStops, BothRun, NoEntry
<1> QED
  BY <1>1, <1>2, <1>3, <1>4, <1>5, <1>6, <1>7, <1>8, <1>9, <1>10 DEF ServerStep

\* Time brings what is under way and the deadlines nearer alike.
LEMMA Nearer ==
    ASSUME Types, Types', Tick, NEW kind \in Repeated, NEW w \in Nat, NEW x \in Int,
           Arriving(kind, w, x), w # 0, NEW y \in Int, x - 1 <= y
    PROVE  Within(flight'[kind], lost'[kind], kind, w - 1, y)
<1>1. kind \in Kind /\ flight[kind] \in SUBSET (0 .. MaxDelay) /\ lost[kind] \in 0 .. MaxLoss
  BY DEF Types, TypeOK, Repeated
<1>2. flight'[kind] = {a + 1 : a \in flight[kind]} /\ lost' = lost
  BY <1>1 DEF Tick
<1>3. Within(flight'[kind], lost'[kind], kind, w - 1, x - 1)
  BY <1>1, <1>2, DeadlineNearer DEF Arriving
<1>4. flight'[kind] \in SUBSET (0 .. MaxDelay) /\ lost'[kind] \in 0 .. MaxLoss
  BY <1>1, <1>2 DEF Types, TypeOK
<1>5. w - 1 \in Nat /\ x - 1 \in Int
  OBVIOUS
<1> QED
  BY <1>1, <1>3, <1>4, <1>5, DeadlineLater

LEMMA PhaseTick ==
    ASSUME Types, Types', InPhase, BothRun, Tick
    PROVE  InPhase'
<1>0. flight["Disconnect"] = {} /\ (Calling \/ Challenging \/ Answering \/ Confirming \/ Keeping)
  BY DEF InPhase, Nothing
<1>1. \A kind \in Kind : flight[kind] = {} => flight'[kind] = {}
  BY DEF Tick
<1>2. flight'["Disconnect"] = {}
  BY <1>0, <1>1 DEF Kind, Down
<1>3. client'.variant = client.variant /\ server'.variant = server.variant
  BY DEF Tick, Counted, Types, TypeOK, Client, Server
<1>4. client.variant \in Trying =>
        /\ client.sendIn \in Nat \ {0} /\ client'.sendIn = client.sendIn - 1
        /\ client.timeout \in Nat \ {0} /\ client'.timeout = client.timeout - 1
  BY Fields DEF Tick, Waits, Counted, Later, Types, TypeOK, Client, Shape, Off
<1>5. server.variant \in Open =>
        /\ server.sendIn \in Nat \ {0} /\ server'.sendIn = server.sendIn - 1
        /\ server.timeout \in Nat \ {0} /\ server'.timeout = server.timeout - 1
  BY Fields DEF Tick, Waits, Counted, Later, Types, TypeOK, Server, Shape, Off
<1>6. age' \in Nat /\ age' <= age + 1
  BY Fields, Budgets DEF Tick, Clock
<1>7. ASSUME NEW rest \in Int
      PROVE  /\ HandshakeHas(rest)' \in Int /\ HandshakeHas(rest) - 1 <= HandshakeHas(rest)'
             /\ client.variant \in Trying => ClientHas(rest)' = ClientHas(rest) - 1
             /\ server.variant \in Open => ServerHas(rest)' = ServerHas(rest) - 1
  BY <1>4, <1>5, <1>6, Fields, Budgets DEF HandshakeHas, ClientHas, ServerHas
<1>8. \A kind \in Repeated, w \in Nat \ {0}, x \in Int, y \in Int :
         Arriving(kind, w, x) /\ x - 1 <= y =>
            Within(flight'[kind], lost'[kind], kind, w - 1, y)
  BY Nearer
<1> USE <1>3, <1>4, <1>5, Rests DEF Repeated, Kind, Up, Down, Trying, Open
<1>9. CASE Calling
  <2>1. Arriving("ConnectInit", client.sendIn, ClientHas(AfterInit))'
    <3>1. Arriving("ConnectInit", client.sendIn, ClientHas(AfterInit))
      BY <1>9 DEF Calling
    <3>2. client.sendIn \in Nat \ {0} /\ client'.sendIn = client.sendIn - 1
      BY <1>9 DEF Calling
    <3>3. ClientHas(AfterInit) \in Int /\ ClientHas(AfterInit)' \in Int /\ ClientHas(AfterInit) - 1 <= ClientHas(AfterInit)'
      BY <1>9, <1>7, Deadlines DEF Calling
    <3> QED
      BY <3>1, <3>2, <3>3, <1>8 DEF Arriving
  <2>2. Arriving("ConnectInit", client.sendIn, HandshakeHas(AfterInit))'
    <3>1. Arriving("ConnectInit", client.sendIn, HandshakeHas(AfterInit))
      BY <1>9 DEF Calling
    <3>2. client.sendIn \in Nat \ {0} /\ client'.sendIn = client.sendIn - 1
      BY <1>9 DEF Calling
    <3>3. HandshakeHas(AfterInit) \in Int /\ HandshakeHas(AfterInit)' \in Int /\ HandshakeHas(AfterInit) - 1 <= HandshakeHas(AfterInit)'
      BY <1>9, <1>7, Deadlines DEF Calling
    <3> QED
      BY <3>1, <3>2, <3>3, <1>8 DEF Arriving
  <2> QED
    BY <1>1, <1>2, <1>9, <2>1, <2>2 DEF InPhase, Calling, Nothing
<1>10. CASE Challenging
  <2>1. Arriving("ConnectChallenge", server.sendIn, ClientHas(AfterChallenge))'
    <3>1. Arriving("ConnectChallenge", server.sendIn, ClientHas(AfterChallenge))
      BY <1>10 DEF Challenging
    <3>2. server.sendIn \in Nat \ {0} /\ server'.sendIn = server.sendIn - 1
      BY <1>10 DEF Challenging
    <3>3. ClientHas(AfterChallenge) \in Int /\ ClientHas(AfterChallenge)' \in Int /\ ClientHas(AfterChallenge) - 1 <= ClientHas(AfterChallenge)'
      BY <1>10, <1>7, Deadlines, SMTT(20) DEF Challenging
    <3> QED
      BY <3>1, <3>2, <3>3, <1>8 DEF Arriving
  <2>2. Arriving("ConnectChallenge", server.sendIn, HandshakeHas(AfterChallenge))'
    <3>1. Arriving("ConnectChallenge", server.sendIn, HandshakeHas(AfterChallenge))
      BY <1>10 DEF Challenging
    <3>2. server.sendIn \in Nat \ {0} /\ server'.sendIn = server.sendIn - 1
      BY <1>10 DEF Challenging
    <3>3. HandshakeHas(AfterChallenge) \in Int /\ HandshakeHas(AfterChallenge)' \in Int /\ HandshakeHas(AfterChallenge) - 1 <= HandshakeHas(AfterChallenge)'
      BY <1>10, <1>7, Deadlines DEF Challenging
    <3> QED
      BY <3>1, <3>2, <3>3, <1>8 DEF Arriving
  <2>3. Arriving("ConnectChallenge", server.sendIn, ServerHas(AfterChallenge + Round))'
    <3>1. Arriving("ConnectChallenge", server.sendIn, ServerHas(AfterChallenge + Round))
      BY <1>10 DEF Challenging
    <3>2. server.sendIn \in Nat \ {0} /\ server'.sendIn = server.sendIn - 1
      BY <1>10 DEF Challenging
    <3>3. ServerHas(AfterChallenge + Round) \in Int /\ ServerHas(AfterChallenge + Round)' \in Int /\ ServerHas(AfterChallenge + Round) - 1 <= ServerHas(AfterChallenge + Round)'
      BY <1>10, <1>7, Deadlines, SMTT(20) DEF Challenging
    <3> QED
      BY <3>1, <3>2, <3>3, <1>8 DEF Arriving
  <2> QED
    BY <1>1, <1>2, <1>10, <2>1, <2>2, <2>3 DEF InPhase, Challenging, Nothing
<1>11. CASE Answering
  <2>1. Arriving("ConnectResponse", client.sendIn, ClientHas(AfterResponse))'
    <3>1. Arriving("ConnectResponse", client.sendIn, ClientHas(AfterResponse))
      BY <1>11 DEF Answering
    <3>2. client.sendIn \in Nat \ {0} /\ client'.sendIn = client.sendIn - 1
      BY <1>11 DEF Answering
    <3>3. ClientHas(AfterResponse) \in Int /\ ClientHas(AfterResponse)' \in Int /\ ClientHas(AfterResponse) - 1 <= ClientHas(AfterResponse)'
      BY <1>11, <1>7, Deadlines, SMTT(20) DEF Answering
    <3> QED
      BY <3>1, <3>2, <3>3, <1>8 DEF Arriving
  <2>2. Arriving("ConnectResponse", client.sendIn, HandshakeHas(AfterResponse))'
    <3>1. Arriving("ConnectResponse", client.sendIn, HandshakeHas(AfterResponse))
      BY <1>11 DEF Answering
    <3>2. client.sendIn \in Nat \ {0} /\ client'.sendIn = client.sendIn - 1
      BY <1>11 DEF Answering
    <3>3. HandshakeHas(AfterResponse) \in Int /\ HandshakeHas(AfterResponse)' \in Int /\ HandshakeHas(AfterResponse) - 1 <= HandshakeHas(AfterResponse)'
      BY <1>11, <1>7, Deadlines DEF Answering
    <3> QED
      BY <3>1, <3>2, <3>3, <1>8 DEF Arriving
  <2>3. Arriving("ConnectResponse", client.sendIn, ServerHas(AfterResponse + Round))'
    <3>1. Arriving("ConnectResponse", client.sendIn, ServerHas(AfterResponse + Round))
      BY <1>11 DEF Answering
    <3>2. client.sendIn \in Nat \ {0} /\ client'.sendIn = client.sendIn - 1
      BY <1>11 DEF Answering
    <3>3. ServerHas(AfterResponse + Round) \in Int /\ ServerHas(AfterResponse + Round)' \in Int /\ ServerHas(AfterResponse + Round) - 1 <= ServerHas(AfterResponse + Round)'
      BY <1>11, <1>7, Deadlines, SMTT(20) DEF Answering
    <3> QED
      BY <3>1, <3>2, <3>3, <1>8 DEF Arriving
  <2> QED
    BY <1>1, <1>2, <1>11, <2>1, <2>2, <2>3 DEF InPhase, Answering, Nothing
<1>12. CASE Confirming
  <2>1. Arriving("ServerKeepalive", server.sendIn, ClientHas(0))'
    <3>1. Arriving("ServerKeepalive", server.sendIn, ClientHas(0))
      BY <1>12 DEF Confirming
    <3>2. server.sendIn \in Nat \ {0} /\ server'.sendIn = server.sendIn - 1
      BY <1>12 DEF Confirming
    <3>3. ClientHas(0) \in Int /\ ClientHas(0)' \in Int /\ ClientHas(0) - 1 <= ClientHas(0)'
      BY <1>12, <1>7, Deadlines, SMTT(20) DEF Confirming
    <3> QED
      BY <3>1, <3>2, <3>3, <1>8 DEF Arriving
  <2>2. Arriving("ServerKeepalive", server.sendIn, HandshakeHas(0))'
    <3>1. Arriving("ServerKeepalive", server.sendIn, HandshakeHas(0))
      BY <1>12 DEF Confirming
    <3>2. server.sendIn \in Nat \ {0} /\ server'.sendIn = server.sendIn - 1
      BY <1>12 DEF Confirming
    <3>3. HandshakeHas(0) \in Int /\ HandshakeHas(0)' \in Int /\ HandshakeHas(0) - 1 <= HandshakeHas(0)'
      BY <1>12, <1>7, Deadlines DEF Confirming
    <3> QED
      BY <3>1, <3>2, <3>3, <1>8 DEF Arriving
  <2>3. Arriving("ServerKeepalive", server.sendIn, ServerHas(Round))'
    <3>1. Arriving("ServerKeepalive", server.sendIn, ServerHas(Round))
      BY <1>12 DEF Confirming
    <3>2. server.sendIn \in Nat \ {0} /\ server'.sendIn = server.sendIn - 1
      BY <1>12 DEF Confirming
    <3>3. ServerHas(Round) \in Int /\ ServerHas(Round)' \in Int /\ ServerHas(Round) - 1 <= ServerHas(Round)'
      BY <1>12, <1>7, Deadlines, SMTT(20) DEF Confirming
    <3> QED
      BY <3>1, <3>2, <3>3, <1>8 DEF Arriving
  <2> QED
    BY <1>1, <1>2, <1>12, <2>1, <2>2, <2>3 DEF InPhase, Confirming, Nothing
<1>13. CASE Keeping
  <2>1. Arriving("ServerKeepalive", server.sendIn, ClientHas(0))'
    <3>1. Arriving("ServerKeepalive", server.sendIn, ClientHas(0))
      BY <1>13 DEF Keeping
    <3>2. server.sendIn \in Nat \ {0} /\ server'.sendIn = server.sendIn - 1
      BY <1>13 DEF Keeping
    <3>3. ClientHas(0) \in Int /\ ClientHas(0)' \in Int /\ ClientHas(0) - 1 <= ClientHas(0)'
      BY <1>13, <1>7, Deadlines, SMTT(20) DEF Keeping
    <3> QED
      BY <3>1, <3>2, <3>3, <1>8 DEF Arriving
  <2>2. Arriving("ClientKeepalive", client.sendIn, ServerHas(0))'
    <3>1. Arriving("ClientKeepalive", client.sendIn, ServerHas(0))
      BY <1>13 DEF Keeping
    <3>2. client.sendIn \in Nat \ {0} /\ client'.sendIn = client.sendIn - 1
      BY <1>13 DEF Keeping
    <3>3. ServerHas(0) \in Int /\ ServerHas(0)' \in Int /\ ServerHas(0) - 1 <= ServerHas(0)'
      BY <1>13, <1>7, Deadlines, SMTT(20) DEF Keeping
    <3> QED
      BY <3>1, <3>2, <3>3, <1>8 DEF Arriving
  <2> QED
    BY <1>1, <1>2, <1>13, <2>1, <2>2 DEF InPhase, Keeping, Nothing
<1> QED
  BY <1>0, <1>9, <1>10, <1>11, <1>12, <1>13

-----------------------------------------------------------------------------
(* One side has stopped.                                                   *)

LEMMA ForgottenIs ==
    /\ Forgotten = Noticed + (DisconnectPacketCount - 1) * SendInterval
    /\ Noticed <= Forgotten
    /\ \A n \in Packets : n > 0 =>
          /\ (n - 1) * SendInterval \in Nat
          /\ (n - 1 - 1) * SendInterval = (n - 1) * SendInterval - SendInterval
<1>1. \A m \in Nat : m * SendInterval \in Nat
  BY Budgets
<1>2. DisconnectPacketCount - 1 \in Nat /\ \A n \in Packets : n > 0 => n - 1 \in Nat
  BY Budgets DEF Packets
<1>3. \A n \in Packets : n > 0 =>
        (n - 1 - 1) * SendInterval = (n - 1) * SendInterval - SendInterval
  BY <1>2, OneLoss, Budgets
<1>4. (DisconnectPacketCount - 1) * SendInterval \in Nat
  BY <1>1, <1>2
<1>5. Noticed <= Forgotten
  <2> DEFINE n == (DisconnectPacketCount - 1) * SendInterval
  <2>1. Forgotten = Noticed + n /\ n \in Nat
    BY <1>4 DEF Forgotten
  <2> HIDE DEF n
  <2> QED
    BY <2>1, Budgets
<1> QED
  BY <1>1, <1>2, <1>3, <1>5 DEF Forgotten

\* A side that stopped takes no step, and hears nothing that changes it.
LEMMA StoppedClient ==
    ASSUME Types, client.variant = "Stopped", ClientStep
    PROVE  /\ client' = client /\ server' = server /\ silence' = silence
           /\ \A kind \in Up : flight'[kind] = flight[kind]
<1>1. \A kind \in Kind : Arrives(kind) => \A k \in Kind \ {kind} : flight'[k] = flight[k]
  BY Others
<1>2. HandleServerTimeout => FALSE
  BY DEF HandleServerTimeout, Types, Shape, Off
<1> QED
  BY <1>1, <1>2
     DEF ClientStep, HandleSendIntervalElapsed, ClientHandleKeepaliveElapsed,
         ClientHandleSendGameDataRequest, HandleConnectChallengePacket,
         ClientHandleKeepalivePacket, ClientHandleGameDataPacket, Confirm,
         ClientHandleDisconnectPacket, ClientStops, Kind, Up, Down, clocks

LEMMA StoppedServer ==
    ASSUME Types, server.variant = "Stopped", ServerStep
    PROVE  /\ client' = client /\ server'.variant = "Stopped" /\ silence' = silence
           /\ \A kind \in Down : flight'[kind] = flight[kind]
<1> USE DEF Types, TypeOK, Server, clocks
<1>1. \A kind \in Kind : Arrives(kind) => \A k \in Kind \ {kind} : flight'[k] = flight[k]
  BY Others
<1>2. HandleClientTimeout => FALSE
  BY DEF HandleClientTimeout, Shape, Off, Open
<1>3. CASE HandleConnectInitPacket \/ HandleConnectResponsePacket
  BY <1>1, <1>3 DEF HandleConnectInitPacket, HandleConnectResponsePacket, Kind, Up, Down
<1>4. CASE HandleKeepalivePacket \/ HandleGameDataPacket
  BY <1>1, <1>4 DEF HandleKeepalivePacket, HandleGameDataPacket, Kind, Up, Down
<1> QED
  BY <1>2, <1>3, <1>4
     DEF ServerStep, HandleSendGameDataRequest, HandleDisconnectElapsed,
         HandlePendingConnectionSend, HandleKeepaliveElapsed, ServerStops

LEMMA ClientFadesServer ==
    ASSUME Types, Types', ClientFades, client.variant = "Stopped", ServerStep
    PROVE  ClientFades'
<1> SUFFICES ASSUME server'.variant # "Stopped" PROVE ClientFades'
  BY DEF ClientFades
<1>0. client' = client /\ silence' = silence
  BY DEF ServerStep, HandleConnectInitPacket, HandleConnectResponsePacket,
        HandleKeepalivePacket, HandleGameDataPacket, HandleSendGameDataRequest,
        HandleClientTimeout, HandleDisconnectElapsed, HandlePendingConnectionSend,
        HandleKeepaliveElapsed, ServerStops, sides, clocks
<1>1. server.variant # "Stopped"
  BY StoppedServer
<1>2. /\ \A kind \in Up : \A a \in flight[kind] : silence.client <= a
      /\ server.variant \in Open => silence.client + server.timeout <= Noticed
      /\ server.variant = "Disconnecting" =>
            silence.client + server.sendIn + (server.packets_to_send - 1) * SendInterval
                <= Forgotten
  BY <1>1 DEF ClientFades
<1>3. \A kind \in Kind :
        /\ Arrives(kind) \/ SendOnce(kind) =>
              \A k \in Kind \ {kind} : flight'[k] = flight[k]
        /\ Arrives(kind) => flight[kind] # {} /\ flight'[kind] \subseteq flight[kind]
        /\ kind \in Repeated /\ SendAgain(kind) =>
              \A k \in Kind \ {kind} : flight'[k] = flight[k]
  BY Others
<1>4. ASSUME NEW kind \in Up, Arrives(kind)
      PROVE  silence.client + TimeoutInterval <= Noticed
  <2>1. PICK a \in flight[kind] : TRUE
    BY <1>4, <1>3 DEF Kind
  <2>2. silence.client <= a /\ a \in 0 .. MaxDelay
    BY <1>2, <2>1 DEF Types, TypeOK, Kind
  <2> QED
    BY <2>2, Fields, Budgets
<1>5. \A kind \in Up : flight'[kind] \subseteq flight[kind]
  <2> USE <1>3 DEF Kind, Up, Down, Repeated
  <2>1. CASE HandleConnectInitPacket \/ HandleConnectResponsePacket
             \/ HandleKeepalivePacket \/ HandleGameDataPacket
    BY <2>1 DEF HandleConnectInitPacket, HandleConnectResponsePacket, HandleKeepalivePacket,
                HandleGameDataPacket
  <2>2. CASE HandleSendGameDataRequest \/ HandleDisconnectElapsed
             \/ HandlePendingConnectionSend \/ HandleKeepaliveElapsed
    BY <2>2 DEF HandleSendGameDataRequest, HandleDisconnectElapsed, HandlePendingConnectionSend,
                HandleKeepaliveElapsed
  <2>3. CASE HandleClientTimeout \/ ServerStops
    BY <2>3 DEF HandleClientTimeout, ServerStops, net
  <2> QED
    BY <2>1, <2>2, <2>3 DEF ServerStep
<1>6. server'.variant \in Open => silence.client + server'.timeout <= Noticed
  <2> USE <1>2, <1>4, Fields, Budgets DEF Types, TypeOK, Server, Open, Up
  <2>1. CASE HandleConnectInitPacket
    BY <2>1 DEF HandleConnectInitPacket, NoEntry
  <2>2. CASE HandleConnectResponsePacket
    BY <2>2 DEF HandleConnectResponsePacket
  <2>3. CASE HandleKeepalivePacket
    BY <2>3 DEF HandleKeepalivePacket, Refreshed
  <2>4. CASE HandleGameDataPacket
    BY <2>4 DEF HandleGameDataPacket, Refreshed
  <2>5. CASE HandleSendGameDataRequest
    BY <2>5 DEF HandleSendGameDataRequest, sides
  <2>6. CASE HandleClientTimeout \/ ServerStops
    BY <2>6 DEF HandleClientTimeout, ServerStops, NoEntry
  <2>7. CASE HandleDisconnectElapsed
    BY <2>7 DEF HandleDisconnectElapsed, NoEntry
  <2>8. CASE HandlePendingConnectionSend \/ HandleKeepaliveElapsed
    BY <2>8 DEF HandlePendingConnectionSend, HandleKeepaliveElapsed
  <2> QED
    BY <2>1, <2>2, <2>3, <2>4, <2>5, <2>6, <2>7, <2>8 DEF ServerStep
<1>7. server'.variant = "Disconnecting" =>
        silence.client + server'.sendIn + (server'.packets_to_send - 1) * SendInterval
            <= Forgotten
  <2> USE DEF Types, TypeOK, Server
  <2>1. CASE HandleClientTimeout
    <3>1. silence.client <= Noticed
      BY <1>2, <2>1, Fields, Budgets DEF HandleClientTimeout, Shape, Off
    <3>2. server'.sendIn = 0 /\ server'.packets_to_send = DisconnectPacketCount
      BY <2>1 DEF HandleClientTimeout
    <3> DEFINE n == (DisconnectPacketCount - 1) * SendInterval
    <3>3. Forgotten = Noticed + n /\ n \in Nat
      BY ForgottenIs, Timers, Budgets
    <3> HIDE DEF n
    <3>4. silence.client + 0 + n <= Forgotten
      BY <3>1, <3>3, Fields, Budgets
    <3> QED
      BY <3>2, <3>4 DEF n
  <2>2. CASE HandleDisconnectElapsed
    <3>1. SUFFICES ASSUME server'.variant = "Disconnecting"
                   PROVE  silence.client + server'.sendIn
                            + (server'.packets_to_send - 1) * SendInterval <= Forgotten
      OBVIOUS
    <3>2. /\ server.variant = "Disconnecting" /\ server.sendIn = 0
          /\ server'.sendIn = SendInterval
          /\ server'.packets_to_send = server.packets_to_send - 1
      BY <2>2, <3>1 DEF HandleDisconnectElapsed, NoEntry
    <3> DEFINE n == (server.packets_to_send - 1) * SendInterval
               m == (server.packets_to_send - 1 - 1) * SendInterval
    <3>3. m = n - SendInterval /\ n \in Nat
      BY <3>2, ForgottenIs DEF Shape
    <3>4. silence.client + 0 + n <= Forgotten
      BY <1>2, <3>2
    <3> HIDE DEF n, m
    <3>5. silence.client + SendInterval + m <= Forgotten
      BY <3>3, <3>4, Fields, Budgets
    <3> QED
      BY <3>2, <3>5 DEF m
  <2>3. CASE HandleConnectInitPacket \/ HandleConnectResponsePacket
             \/ HandlePendingConnectionSend \/ HandleKeepaliveElapsed \/ ServerStops
    <3>1. server'.variant = "Disconnecting" => server' = server
      BY <2>3 DEF HandleConnectInitPacket, HandleConnectResponsePacket,
                  HandlePendingConnectionSend, HandleKeepaliveElapsed, ServerStops, NoEntry
    <3> QED
      BY <1>2, <3>1
  <2>4. CASE HandleKeepalivePacket \/ HandleGameDataPacket \/ HandleSendGameDataRequest
    <3>1. /\ server'.variant = server.variant /\ server'.sendIn = server.sendIn
          /\ server'.packets_to_send = server.packets_to_send
      BY <2>4 DEF HandleKeepalivePacket, HandleGameDataPacket, HandleSendGameDataRequest, sides
    <3> QED
      BY <1>2, <3>1
  <2> QED
    BY <2>1, <2>2, <2>3, <2>4 DEF ServerStep
<1> QED
  BY <1>0, <1>2, <1>5, <1>6, <1>7 DEF ClientFades

LEMMA FadesTick ==
    ASSUME Types, Types', ClientFades, ServerFades, Tick
    PROVE  ClientFades' /\ ServerFades'
<1>1. \A kind \in Kind : flight'[kind] = {a + 1 : a \in flight[kind]}
  BY DEF Tick
<1>2. \A kind \in Kind : \A a \in flight[kind] : a \in Nat
  BY Budgets DEF Types, TypeOK
<1>3. /\ silence'.client \in Nat /\ silence'.client <= silence.client + 1
      /\ silence'.server \in Nat /\ silence'.server <= silence.server + 1
  BY Fields, Budgets DEF Tick, Clock
<1>4. client'.variant = client.variant /\ server'.variant = server.variant
  BY DEF Tick, Counted, Types, TypeOK, Client, Server
<1>5. server'.packets_to_send = server.packets_to_send
  BY DEF Tick, Counted, Types, TypeOK, Server
<1>6. client.variant \in Trying => client'.timeout = client.timeout - 1
  BY Fields DEF Tick, Counted, Later, Types, TypeOK, Client, Shape, Off
<1>7. /\ server.variant \in Open => server'.timeout = server.timeout - 1
      /\ server.variant = "Disconnecting" => server'.sendIn = server.sendIn - 1
  BY Fields DEF Tick, Counted, Later, Types, TypeOK, Server, Shape, Off
<1>8. ClientFades'
  <2> SUFFICES ASSUME client.variant = "Stopped", server.variant # "Stopped"
               PROVE  /\ \A kind \in Up : \A a \in flight'[kind] : silence'.client <= a
                      /\ server.variant \in Open =>
                            silence'.client + server'.timeout <= Noticed
                      /\ server.variant = "Disconnecting" =>
                            silence'.client + server'.sendIn
                              + (server.packets_to_send - 1) * SendInterval <= Forgotten
    BY <1>4, <1>5 DEF ClientFades
  <2>1. \A kind \in Up : \A a \in flight'[kind] : silence'.client <= a
    BY <1>1, <1>2, <1>3, Fields DEF ClientFades, Kind
  <2>2. server.variant \in Open => silence'.client + server'.timeout <= Noticed
    BY <1>3, <1>7, Fields, Budgets DEF ClientFades, Off
  <2>3. ASSUME server.variant = "Disconnecting"
        PROVE  silence'.client + server'.sendIn
                  + (server.packets_to_send - 1) * SendInterval <= Forgotten
    <3> DEFINE n == (server.packets_to_send - 1) * SendInterval
    <3>1. n \in Nat
      BY <2>3, ForgottenIs DEF Types, TypeOK, Server, Shape
    <3>2. silence.client + server.sendIn + n <= Forgotten
      BY <2>3 DEF ClientFades
    <3> HIDE DEF n
    <3>3. silence'.client + server'.sendIn + n <= Forgotten
      BY <1>3, <1>7, <2>3, <3>1, <3>2, Fields, Budgets DEF Off
    <3> QED
      BY <3>3 DEF n
  <2> QED
    BY <2>1, <2>2, <2>3
<1>9. ServerFades'
  <2>1. server.variant = "Stopped" /\ client.variant # "Stopped" =>
          \A kind \in Down : \A a \in flight'[kind] : silence'.server <= a
    BY <1>1, <1>2, <1>3, Fields DEF ServerFades, Kind
  <2>2. server.variant = "Stopped" /\ client.variant # "Stopped" /\ client.variant \in Trying =>
          silence'.server + client'.timeout <= Noticed
    BY <1>3, <1>6, Fields, Budgets DEF ServerFades, Off
  <2> QED
    BY <1>4, <2>1, <2>2 DEF ServerFades
<1> QED
  BY <1>8, <1>9

LEMMA ServerFadesClient ==
    ASSUME Types, Types', ServerFades, server.variant = "Stopped", ClientStep
    PROVE  ServerFades'
<1> SUFFICES ASSUME client'.variant # "Stopped" PROVE ServerFades'
  BY DEF ServerFades
<1>0. server' = server /\ silence' = silence
  BY DEF ClientStep, HandleSendIntervalElapsed, ClientHandleKeepaliveElapsed,
         ClientHandleSendGameDataRequest, HandleConnectChallengePacket,
         ClientHandleKeepalivePacket, ClientHandleGameDataPacket,
         ClientHandleDisconnectPacket, HandleServerTimeout, ClientStops, sides, clocks
<1>1. client.variant # "Stopped"
  BY StoppedClient
<1>2. /\ \A kind \in Down : \A a \in flight[kind] : silence.server <= a
      /\ client.variant \in Trying => silence.server + client.timeout <= Noticed
  BY <1>1 DEF ServerFades
<1>3. \A kind \in Kind :
        /\ Arrives(kind) \/ SendOnce(kind) =>
              \A k \in Kind \ {kind} : flight'[k] = flight[k]
        /\ Arrives(kind) => flight[kind] # {} /\ flight'[kind] \subseteq flight[kind]
        /\ kind \in Repeated /\ SendAgain(kind) =>
              \A k \in Kind \ {kind} : flight'[k] = flight[k]
  BY Others
<1>4. ASSUME NEW kind \in Down, Arrives(kind)
      PROVE  silence.server + TimeoutInterval <= Noticed
  <2>1. PICK a \in flight[kind] : TRUE
    BY <1>4, <1>3 DEF Kind
  <2>2. silence.server <= a /\ a \in 0 .. MaxDelay
    BY <1>2, <2>1 DEF Types, TypeOK, Kind
  <2> QED
    BY <2>2, Fields, Budgets
<1>5. \A kind \in Down : flight'[kind] \subseteq flight[kind]
  <2> USE <1>3 DEF Kind, Up, Down, Repeated
  <2>1. CASE HandleSendIntervalElapsed \/ ClientHandleKeepaliveElapsed
             \/ ClientHandleSendGameDataRequest
    BY <2>1 DEF HandleSendIntervalElapsed, ClientHandleKeepaliveElapsed,
                ClientHandleSendGameDataRequest
  <2>2. CASE HandleConnectChallengePacket \/ ClientHandleKeepalivePacket
             \/ ClientHandleGameDataPacket \/ ClientHandleDisconnectPacket
    BY <2>2 DEF HandleConnectChallengePacket, ClientHandleKeepalivePacket,
                ClientHandleGameDataPacket, ClientHandleDisconnectPacket
  <2>3. CASE HandleServerTimeout \/ ClientStops
    BY <2>3 DEF HandleServerTimeout, ClientStops, net
  <2> QED
    BY <2>1, <2>2, <2>3 DEF ClientStep
<1>6. client'.variant \in Trying => silence.server + client'.timeout <= Noticed
  <2> USE <1>2, <1>4, Fields, Budgets DEF Types, TypeOK, Client, Trying, Down
  <2>1. CASE HandleSendIntervalElapsed \/ ClientHandleKeepaliveElapsed
    BY <2>1 DEF HandleSendIntervalElapsed, ClientHandleKeepaliveElapsed
  <2>2. CASE ClientHandleSendGameDataRequest
    BY <2>2 DEF ClientHandleSendGameDataRequest, sides
  <2>3. CASE HandleConnectChallengePacket
    BY <2>3 DEF HandleConnectChallengePacket
  <2>4. CASE ClientHandleKeepalivePacket \/ ClientHandleGameDataPacket
    <3>1. client'.variant \in Trying =>
            client.variant \in Trying /\ (client'.timeout = TimeoutInterval \/ client' = client)
      BY <2>4 DEF ClientHandleKeepalivePacket, ClientHandleGameDataPacket, Confirm, Refreshed, Shape
    <3>2. silence.server + TimeoutInterval <= Noticed
      BY <2>4 DEF ClientHandleKeepalivePacket, ClientHandleGameDataPacket
    <3> QED
      BY <3>1, <3>2
  <2>5. CASE ClientHandleDisconnectPacket
    BY <2>5 DEF ClientHandleDisconnectPacket
  <2>6. CASE HandleServerTimeout
    <3>1. client' = [client EXCEPT !.variant = "Disconnected", !.sendIn = Off, !.timeout = Off]
      BY <2>6 DEF HandleServerTimeout
    <3>2. client'.variant = "Disconnected"
      BY <3>1
    <3> QED
      BY <3>2
  <2>7. CASE ClientStops
    BY <2>7 DEF ClientStops
  <2> QED
    BY <2>1, <2>2, <2>3, <2>4, <2>5, <2>6, <2>7 DEF ClientStep
<1> QED
  BY <1>0, <1>2, <1>5, <1>6 DEF ServerFades

\* A side only stops by stopping.
LEMMA OnlyStopsClient ==
    ASSUME Types, ClientStep, ~ClientStops, client.variant # "Stopped"
    PROVE  client'.variant # "Stopped"
<1>0. client \in Client /\ server \in Server
  BY DEF Types, TypeOK
<1>1. CASE HandleSendIntervalElapsed \/ ClientHandleKeepaliveElapsed
  BY <1>0, <1>1 DEF HandleSendIntervalElapsed, ClientHandleKeepaliveElapsed, Client, Server
<1>2. CASE ClientHandleSendGameDataRequest
  BY <1>2 DEF ClientHandleSendGameDataRequest, sides
<1>3. CASE HandleConnectChallengePacket
  BY <1>0, <1>3 DEF HandleConnectChallengePacket, Client, Server
<1>4. CASE ClientHandleKeepalivePacket \/ ClientHandleGameDataPacket
  BY <1>0, <1>4 DEF ClientHandleKeepalivePacket, ClientHandleGameDataPacket, Confirm, Client, Server
<1>5. CASE ClientHandleDisconnectPacket
  BY <1>0, <1>5 DEF ClientHandleDisconnectPacket, Client, Server
<1>6. CASE HandleServerTimeout
  BY <1>0, <1>6 DEF HandleServerTimeout, Client, Server
<1> QED
  BY <1>1, <1>2, <1>3, <1>4, <1>5, <1>6 DEF ClientStep

LEMMA OnlyStopsServer ==
    ASSUME Types, ServerStep, ~ServerStops, server.variant # "Stopped"
    PROVE  server'.variant # "Stopped"
<1>0. client \in Client /\ server \in Server
  BY DEF Types, TypeOK
<1>1. CASE HandleConnectInitPacket
  BY <1>0, <1>1 DEF HandleConnectInitPacket, NoEntry, Client, Server
<1>2. CASE HandleConnectResponsePacket
  BY <1>0, <1>2 DEF HandleConnectResponsePacket, Client, Server
<1>3. CASE HandleKeepalivePacket \/ HandleGameDataPacket
  BY <1>0, <1>3 DEF HandleKeepalivePacket, HandleGameDataPacket, Client, Server
<1>4. CASE HandleSendGameDataRequest
  BY <1>4 DEF HandleSendGameDataRequest, sides
<1>5. CASE HandleClientTimeout
  BY <1>5 DEF HandleClientTimeout
<1>6. CASE HandleDisconnectElapsed
  BY <1>0, <1>6 DEF HandleDisconnectElapsed, NoEntry, Client, Server
<1>7. CASE HandlePendingConnectionSend \/ HandleKeepaliveElapsed
  BY <1>0, <1>7 DEF HandlePendingConnectionSend, HandleKeepaliveElapsed, Client, Server
<1> QED
  BY <1>1, <1>2, <1>3, <1>4, <1>5, <1>6, <1>7 DEF ServerStep

\* A side stops while the other is in phase.
LEMMA FadesBegin ==
    ASSUME Types, Types', InPhase, BothRun, ClientStep \/ ServerStep
    PROVE  ClientFades' /\ ServerFades'
<1> USE Fields, Budgets DEF Types, TypeOK, BothRun, Shape
<1>1. CASE BothRun'
  BY <1>1 DEF ClientFades, ServerFades
<1>2. CASE ClientStops
  <2>1. server.variant # "Disconnecting"
    BY DEF InPhase, Calling, Challenging, Answering, Confirming, Keeping
  <2>2. \A kind \in Up : \A a \in flight[kind] : 0 <= a
    BY DEF Kind
  <2> QED
    BY <1>2, <2>1, <2>2 DEF ClientStops, ClientFades, ServerFades, net, clocks, Open, Off
<1>3. CASE ServerStops
  <2>1. \A kind \in Down : \A a \in flight[kind] : 0 <= a
    BY DEF Kind
  <2> QED
    BY <1>3, <2>1 DEF ServerStops, ClientFades, ServerFades, NoEntry, net, clocks, Off
<1>4. CASE ClientStep /\ ~ClientStops
  <2>1. server' = server
    BY <1>4 DEF ClientStep, HandleSendIntervalElapsed, ClientHandleKeepaliveElapsed,
         ClientHandleSendGameDataRequest, HandleConnectChallengePacket,
         ClientHandleKeepalivePacket, ClientHandleGameDataPacket,
         ClientHandleDisconnectPacket, HandleServerTimeout, sides
  <2>2. client'.variant # "Stopped"
    BY <1>4, OnlyStopsClient DEF BothRun
  <2> QED
    BY <2>1, <2>2, <1>1 DEF BothRun
<1>5. CASE ServerStep /\ ~ServerStops
  <2>1. client' = client
    BY <1>5 DEF ServerStep, HandleConnectInitPacket, HandleConnectResponsePacket,
        HandleKeepalivePacket, HandleGameDataPacket, HandleSendGameDataRequest,
        HandleClientTimeout, HandleDisconnectElapsed, HandlePendingConnectionSend,
        HandleKeepaliveElapsed, sides
  <2>2. server'.variant # "Stopped"
    BY <1>5, OnlyStopsServer DEF BothRun
  <2> QED
    BY <2>1, <2>2, <1>1 DEF BothRun
<1> QED
  BY <1>1, <1>2, <1>3, <1>4, <1>5

-----------------------------------------------------------------------------
(* The invariant and the theorems.                                         *)

TimingInv == Types /\ InPhase /\ ClientFades /\ ServerFades

LEMMA TimingInit == Init => TimingInv
<1> SUFFICES ASSUME Init PROVE InPhase /\ ClientFades /\ ServerFades
  BY TypesInit DEF TimingInv
<1>1. SendBudget < ClientHas(AfterInit) /\ SendBudget < HandshakeHas(AfterInit)
  BY Budgets, Rests DEF Init, ClientHas, HandshakeHas
<1>2. \A x \in Int : SendBudget < x => Arriving("ConnectInit", 0, x)
  <2> SUFFICES ASSUME NEW x \in Int, SendBudget < x PROVE Within({}, 0, "ConnectInit", 0, x)
    BY DEF Init, Arriving, Kind, Up, Repeated
  <2>1. "ConnectInit" \in Kind /\ Budget("ConnectInit") = SendBudget /\ 0 + SendBudget < x
    BY Budgets DEF Kind, Up, Budget
  <2> QED
    BY <2>1, Budgets, DeadlineBegun
<1>3. Calling
  <2>1. ClientHas(AfterInit) \in Int /\ HandshakeHas(AfterInit) \in Int
    BY TypesInit, Deadlines, Rests
  <2> QED
    BY <1>1, <1>2, <2>1 DEF Init, Calling, NoEntry, Nothing, Kind, Up, Down
<1> QED
  BY <1>3 DEF Init, InPhase, Nothing, Kind, Down, ClientFades, ServerFades, NoEntry

LEMMA TimingNext == TimingInv /\ [Next]_vars => TimingInv'
<1> SUFFICES ASSUME TimingInv, [Next]_vars PROVE TimingInv'
  OBVIOUS
<1>0. Types /\ Types' /\ InPhase /\ ClientFades /\ ServerFades
  BY TypesNext DEF TimingInv
<1>1. CASE UNCHANGED vars
  BY <1>0, <1>1
     DEF TimingInv, vars, sides, net, clocks, InPhase, BothRun, Nothing, Calling, Challenging,
         Answering, Confirming, Keeping, Arriving, ClientHas, ServerHas, HandshakeHas,
         ClientFades, ServerFades
<1>2. CASE Next
  <2>1. InPhase'
    <3>1. CASE BothRun'
      <4>1. BothRun
        BY <1>0, <1>2, <3>1, StopsForGood
      <4> QED
        BY <1>0, <1>2, <3>1, <4>1, PhaseClient, PhaseServer, PhaseTick DEF Next
    <3> QED
      BY <3>1 DEF InPhase
  <2>2. ClientFades' /\ ServerFades'
    <3>1. CASE BothRun /\ ~Tick
      BY <1>0, <1>2, <3>1, FadesBegin DEF Next
    <3>2. CASE Tick
      BY <1>0, <3>2, FadesTick
    <3>3. CASE client.variant = "Stopped" /\ server.variant = "Stopped" /\ ~Tick
      <4>1. ~BothRun'
        BY <1>0, <1>2, <3>3, StopsForGood DEF BothRun
      <4>2. client'.variant = "Stopped" /\ server'.variant = "Stopped"
        BY <1>0, <1>2, <3>3, StoppedClient, StoppedServer DEF Next
      <4> QED
        BY <4>2 DEF ClientFades, ServerFades
    <3>4. CASE client.variant = "Stopped" /\ server.variant # "Stopped" /\ ~Tick
      <4>1. ClientFades'
        <5>1. CASE ClientStep
          BY <1>0, <3>4, <5>1, StoppedClient DEF ClientFades
        <5> QED
          BY <1>0, <1>2, <3>4, <5>1, ClientFadesServer DEF Next
      <4>2. client'.variant = "Stopped"
        <5>1. ServerStep => client' = client
          BY DEF ServerStep, HandleConnectInitPacket, HandleConnectResponsePacket,
              HandleKeepalivePacket, HandleGameDataPacket, HandleSendGameDataRequest,
              HandleClientTimeout, HandleDisconnectElapsed, HandlePendingConnectionSend,
              HandleKeepaliveElapsed, ServerStops, sides
        <5> QED
          BY <1>0, <1>2, <3>4, <5>1, StoppedClient DEF Next
      <4> QED
        BY <4>1, <4>2 DEF ServerFades
    <3>5. CASE client.variant # "Stopped" /\ server.variant = "Stopped" /\ ~Tick
      <4>1. ServerFades'
        <5>1. CASE ServerStep
          BY <1>0, <3>5, <5>1, StoppedServer DEF ServerFades
        <5> QED
          BY <1>0, <1>2, <3>5, <5>1, ServerFadesClient DEF Next
      <4>2. server'.variant = "Stopped"
        <5>1. ClientStep => server' = server
          BY DEF ClientStep, HandleSendIntervalElapsed, ClientHandleKeepaliveElapsed,
             ClientHandleSendGameDataRequest, HandleConnectChallengePacket,
             ClientHandleKeepalivePacket, ClientHandleGameDataPacket,
             ClientHandleDisconnectPacket, HandleServerTimeout, ClientStops, sides
        <5> QED
          BY <1>0, <1>2, <3>5, <5>1, StoppedServer DEF Next
      <4> QED
        BY <4>1, <4>2 DEF ClientFades
    <3> QED
      BY <3>1, <3>2, <3>3, <3>4, <3>5 DEF BothRun
  <2> QED
    BY <1>0, <2>1, <2>2 DEF TimingInv
<1> QED
  BY <1>1, <1>2

LEMMA TimingInvariant == Spec => []TimingInv
BY TimingInit, TimingNext, PTL DEF Spec

\* Every reachable state has its type.
THEOREM TimingTypesCorrect == Spec => []TypeOK
<1>1. TimingInv => TypeOK
  BY DEF TimingInv, Types
<1> QED
  BY <1>1, TimingInvariant, PTL

\* While both sides run and the network keeps its bounds, no timeout ever
\* elapses, for all intervals that satisfy the assumption.
THEOREM TimeoutsSuffice == Spec => []NobodyGivesUp
<1>1. TimingInv => NobodyGivesUp
  BY DEF TimingInv, InPhase, NobodyGivesUp, Calling, Challenging, Answering, Confirming, Keeping
<1> QED
  BY <1>1, TimingInvariant, PTL

\* The handshake takes no longer than the budgets of its four exchanges.
THEOREM HandshakeIsTimely == Spec => []ConnectedInTime
<1>1. TimingInv => ConnectedInTime
  BY TimeLeft DEF TimingInv, ConnectedInTime, Keeping
<1> QED
  BY <1>1, TimingInvariant, PTL

\* A client that stopped is given up and forgotten in time.
THEOREM StoppedClientsLeave == Spec => []StoppedClientIsForgotten
<1>1. ASSUME TimingInv, client.variant = "Stopped", server.variant # "Stopped"
      PROVE  /\ silence.client > Noticed => server.variant \notin {"Pending", "Connected"}
             /\ silence.client > Forgotten => server.variant = "None"
  <2>0. Types /\ ClientFades
    BY <1>1 DEF TimingInv
  <2>1. CASE server.variant \in Open
    <3>1. server.timeout \in Nat /\ silence.client + server.timeout <= Noticed
      BY <1>1, <2>0, <2>1, Fields DEF ClientFades, Types, Shape
    <3> QED
      BY <2>0, <2>1, <3>1, Fields, Budgets, ForgottenIs
  <2>2. CASE server.variant = "Disconnecting"
    <3> DEFINE n == (server.packets_to_send - 1) * SendInterval
    <3>1. n \in Nat /\ server.sendIn \in Nat
      BY <2>0, <2>2, Fields, ForgottenIs DEF Types, TypeOK, Server, Shape
    <3>2. silence.client + server.sendIn + n <= Forgotten
      BY <1>1, <2>0, <2>2 DEF ClientFades
    <3> HIDE DEF n
    <3>3. silence.client <= Forgotten
      BY <2>0, <3>1, <3>2, Fields, Budgets
    <3> QED
      BY <2>0, <2>2, <3>3, Fields, Budgets
  <2>3. server.variant \in Open \cup {"None", "Disconnecting"}
    BY <1>1, <2>0 DEF Types, TypeOK, Server, Open
  <2> QED
    BY <2>1, <2>2, <2>3 DEF Open
<1>2. TimingInv => StoppedClientIsForgotten
  BY <1>1 DEF StoppedClientIsForgotten
<1> QED
  BY <1>2, TimingInvariant, PTL

\* A server that stopped is noticed in time.
THEOREM StoppedServersAreNoticed == Spec => []StoppedServerIsNoticed
<1>1. TimingInv => StoppedServerIsNoticed
  BY Fields, Budgets
     DEF TimingInv, StoppedServerIsNoticed, ServerFades, Types, TypeOK, Client, Shape, Trying, Off
<1> QED
  BY <1>1, TimingInvariant, PTL
=============================================================================
