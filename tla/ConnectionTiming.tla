-------------------------- MODULE ConnectionTiming --------------------------
(***************************************************************************)
(* One client process and the server's entry for it, with a clock.         *)
(*                                                                         *)
(* ConnectionSystem lets a timer expire whenever it is armed.  Here every  *)
(* timer counts down, and Tick lets a unit of time pass: not before every  *)
(* branch whose timer has run out was taken, nor before a datagram that    *)
(* has been under way for MaxDelay arrived.  A datagram may arrive twice.  *)
(* Of each packet that is sent again and again at most MaxLoss in a row    *)
(* are lost; game data and Disconnect packets may all be.  Each side may   *)
(* stop, once, at any time: it then sends nothing and says no goodbye.     *)
(*                                                                         *)
(* There is one key exchange, so all that is sealed opens: who may open    *)
(* what is the business of ConnectionSystem.                               *)
(***************************************************************************)
EXTENDS Integers

CONSTANTS
    SendInterval,            \* SEND_INTERVAL, CONNECTING_RESPONDING_SEND_INTERVAL
    KeepaliveInterval,       \* KEEPALIVE_INTERVAL
    TimeoutInterval,         \* CLIENT_TIMEOUT_INTERVAL, SERVER_TIMEOUT_INTERVAL
    DisconnectPacketCount,   \* DISCONNECT_PACKET_COUNT
    MaxDelay,                \* the longest a datagram is under way
    MaxLoss                  \* the most datagrams of a kind lost in a row

\* The time it takes to get one of a repeated packet across.
SendBudget == MaxLoss * SendInterval + MaxDelay
KeepaliveBudget == MaxLoss * KeepaliveInterval + MaxDelay

\* With the intervals of the code the last conjunct allows one loss in a row
\* and a delay of 1/4 s: 2 * (1/4 + 1/4) + 2 * (1 + 1/4) + 1 < 5 seconds.
ASSUME TimingAssumption ==
    /\ SendInterval \in Nat \ {0}
    /\ KeepaliveInterval \in Nat
    /\ TimeoutInterval \in Nat
    /\ DisconnectPacketCount \in Nat \ {0}
    /\ MaxDelay \in Nat
    /\ MaxLoss \in Nat
    /\ SendInterval <= KeepaliveInterval
    /\ 2 * SendBudget + 2 * KeepaliveBudget + KeepaliveInterval < TimeoutInterval

VARIABLES
    client,                  \* the client process
    server,                  \* the server's entry for it
    flight,                  \* by kind, how long the datagrams are under way
    lost,                    \* by repeated kind, how many were just lost
    silence,                 \* how long each side has been stopped
    age                      \* how long ago the client was started

sides == <<client, server>>
net == <<flight, lost>>
clocks == <<silence, age>>
vars == <<sides, net, clocks>>

-----------------------------------------------------------------------------
Off == -1                    \* a timer that does not exist

Up == {"ConnectInit", "ConnectResponse", "ClientKeepalive", "ClientGameData"}
Down == {"ConnectChallenge", "ServerKeepalive", "ServerGameData", "Disconnect"}
Kind == Up \cup Down

Repeated == Kind \ {"ClientGameData", "ServerGameData", "Disconnect"}

Interval(kind) ==
    IF kind \in {"ClientKeepalive", "ServerKeepalive"}
      THEN KeepaliveInterval
      ELSE SendInterval

\* Nobody waits longer than this for anything: bound of the clocks.
Handshake == 3 * SendBudget + KeepaliveBudget
Noticed == TimeoutInterval + MaxDelay
Forgotten == Noticed + (DisconnectPacketCount - 1) * SendInterval
Horizon == Forgotten + 1

Timer(max) == {Off} \cup 0 .. max
Packets == 0 .. DisconnectPacketCount

Client ==
    [variant : {"Connecting", "Responding", "Connected", "Disconnected", "Stopped"},
     sendIn : Timer(KeepaliveInterval), timeout : Timer(TimeoutInterval)]

Server ==
    [variant : {"None", "Pending", "Connected", "Disconnecting", "Stopped"},
     sendIn : Timer(KeepaliveInterval), timeout : Timer(TimeoutInterval),
     packets_to_send : Packets]

NoEntry ==
    [variant |-> "None", sendIn |-> Off, timeout |-> Off, packets_to_send |-> 0]

\* An interval's first tick comes at once.
Init ==
    /\ client = [variant |-> "Connecting", sendIn |-> 0, timeout |-> TimeoutInterval]
    /\ server = NoEntry
    /\ flight = [kind \in Kind |-> {}]
    /\ lost = [kind \in Repeated |-> 0]
    /\ silence = [client |-> 0, server |-> 0]
    /\ age = 0

-----------------------------------------------------------------------------
(* The network.                                                            *)

Carried(kind) == flight' = [flight EXCEPT ![kind] = @ \cup {0}]

SendAgain(kind) ==
    \/ Carried(kind) /\ lost' = [lost EXCEPT ![kind] = 0]
    \/ /\ lost[kind] < MaxLoss
       /\ lost' = [lost EXCEPT ![kind] = @ + 1]
       /\ UNCHANGED flight

SendOnce(kind) == (Carried(kind) \/ UNCHANGED flight) /\ UNCHANGED lost

\* A datagram arrives, perhaps not for the last time.
Arrives(kind) ==
    /\ \E a \in flight[kind] :
          \/ UNCHANGED flight
          \/ flight' = [flight EXCEPT ![kind] = @ \ {a}]
    /\ UNCHANGED lost

\* Connection::refresh_timeout, refresh_timeout
Refreshed(timer) == IF timer = Off THEN Off ELSE TimeoutInterval

-----------------------------------------------------------------------------
(* The client.                                                             *)

HandleSendIntervalElapsed ==
    /\ client.variant \in {"Connecting", "Responding"}
    /\ client.sendIn = 0
    /\ SendAgain(IF client.variant = "Connecting" THEN "ConnectInit" ELSE "ConnectResponse")
    /\ client' = [client EXCEPT !.sendIn = SendInterval]
    /\ UNCHANGED <<server, clocks>>

ClientHandleKeepaliveElapsed ==
    /\ client.variant = "Connected"
    /\ client.sendIn = 0
    /\ SendAgain("ClientKeepalive")
    /\ client' = [client EXCEPT !.sendIn = KeepaliveInterval]
    /\ UNCHANGED <<server, clocks>>

\* The keepalive timer is not refreshed.
ClientHandleSendGameDataRequest ==
    /\ client.variant = "Connected"
    /\ SendOnce("ClientGameData")
    /\ UNCHANGED <<sides, clocks>>

HandleConnectChallengePacket ==
    /\ Arrives("ConnectChallenge")
    /\ client' = IF client.variant = "Connecting"
                   THEN [client EXCEPT !.variant = "Responding", !.sendIn = 0]
                   ELSE client
    /\ UNCHANGED <<server, clocks>>

\* Mutant of Confirm: the timeout is not refreshed.
ConfirmUnrefreshed ==
    client' = CASE client.variant = "Responding" ->
                     [client EXCEPT !.variant = "Connected",
                                    !.sendIn = KeepaliveInterval]
                [] OTHER -> client

\* refresh_timeout and confirm_connection
Confirm ==
    client' = CASE client.variant = "Responding" ->
                     [client EXCEPT !.variant = "Connected",
                                    !.sendIn = KeepaliveInterval,
                                    !.timeout = Refreshed(@)]
                [] client.variant = "Connected" ->
                     [client EXCEPT !.timeout = Refreshed(@)]
                [] OTHER -> client

ClientHandleKeepalivePacket ==
    /\ Arrives("ServerKeepalive")
    /\ Confirm
    /\ UNCHANGED <<server, clocks>>

ClientHandleGameDataPacket ==
    /\ Arrives("ServerGameData")
    /\ Confirm
    /\ UNCHANGED <<server, clocks>>

\* The timeout stays armed.
ClientHandleDisconnectPacket ==
    /\ Arrives("Disconnect")
    /\ client' = IF client.variant \in {"Responding", "Connected"}
                   THEN [client EXCEPT !.variant = "Disconnected", !.sendIn = Off]
                   ELSE client
    /\ UNCHANGED <<server, clocks>>

\* Mutant of HandleServerTimeout: a Responding client waits on.
TimeoutUnlessResponding ==
    /\ client.timeout = 0
    /\ client' = IF client.variant = "Responding"
                   THEN [client EXCEPT !.timeout = TimeoutInterval]
                   ELSE [client EXCEPT !.variant = "Disconnected", !.sendIn = Off,
                                       !.timeout = Off]
    /\ UNCHANGED <<server, net, clocks>>

HandleServerTimeout ==
    /\ client.timeout = 0
    /\ client' = [client EXCEPT !.variant = "Disconnected", !.sendIn = Off,
                                !.timeout = Off]
    /\ UNCHANGED <<server, net, clocks>>

\* The process is killed, cancelled or cut off.
ClientStops ==
    /\ client.variant # "Stopped"
    /\ client' = [variant |-> "Stopped", sendIn |-> Off, timeout |-> Off]
    /\ UNCHANGED <<server, net, clocks>>

ClientStep ==
    \/ HandleSendIntervalElapsed
    \/ ClientHandleKeepaliveElapsed
    \/ ClientHandleSendGameDataRequest
    \/ HandleConnectChallengePacket
    \/ ClientHandleKeepalivePacket
    \/ ClientHandleGameDataPacket
    \/ ClientHandleDisconnectPacket
    \/ HandleServerTimeout
    \/ ClientStops

-----------------------------------------------------------------------------
(* The server.                                                             *)

HandleConnectInitPacket ==
    /\ Arrives("ConnectInit")
    /\ server' = IF server.variant = "None"
                   THEN [NoEntry EXCEPT !.variant = "Pending", !.sendIn = 0,
                                        !.timeout = TimeoutInterval]
                   ELSE server
    /\ UNCHANGED <<client, clocks>>

\* Mutant of HandleConnectResponsePacket: the first keepalive waits its turn.
PatientPromotion ==
    /\ Arrives("ConnectResponse")
    /\ server' = IF server.variant = "Pending"
                   THEN [server EXCEPT !.variant = "Connected",
                                       !.sendIn = KeepaliveInterval]
                   ELSE server
    /\ UNCHANGED <<client, clocks>>

\* The first keepalive is due at once; the timeout is not refreshed.
HandleConnectResponsePacket ==
    /\ Arrives("ConnectResponse")
    /\ server' = IF server.variant = "Pending"
                   THEN [server EXCEPT !.variant = "Connected", !.sendIn = 0]
                   ELSE server
    /\ UNCHANGED <<client, clocks>>

HandleKeepalivePacket ==
    /\ Arrives("ClientKeepalive")
    /\ server' = [server EXCEPT !.timeout = Refreshed(@)]
    /\ UNCHANGED <<client, clocks>>

HandleGameDataPacket ==
    /\ Arrives("ClientGameData")
    /\ server' = IF server.variant = "Connected"
                   THEN [server EXCEPT !.timeout = Refreshed(@)]
                   ELSE server
    /\ UNCHANGED <<client, clocks>>

\* The session server sends to clients it was told are Connected.
HandleSendGameDataRequest ==
    /\ server.variant = "Connected"
    /\ SendOnce("ServerGameData")
    /\ UNCHANGED <<sides, clocks>>

HandleClientTimeout ==
    /\ server.timeout = 0
    /\ server' = [variant |-> "Disconnecting", sendIn |-> 0, timeout |-> Off,
                  packets_to_send |-> DisconnectPacketCount]
    /\ UNCHANGED <<client, net, clocks>>

\* Mutant of HandleDisconnectElapsed: the last packet is not recognised.
EndlessDisconnect ==
    /\ server.variant = "Disconnecting"
    /\ server.sendIn = 0
    /\ SendOnce("Disconnect")
    /\ server' = [server EXCEPT !.sendIn = SendInterval, !.packets_to_send = @ - 1]
    /\ UNCHANGED <<client, clocks>>

\* Mutant of HandleDisconnectElapsed: one packet too many.
DisconnectOnceMore ==
    /\ server.variant = "Disconnecting"
    /\ server.sendIn = 0
    /\ SendOnce("Disconnect")
    /\ server' = IF server.packets_to_send = 0
                   THEN NoEntry
                   ELSE [server EXCEPT !.sendIn = SendInterval, !.packets_to_send = @ - 1]
    /\ UNCHANGED <<client, clocks>>

HandleDisconnectElapsed ==
    /\ server.variant = "Disconnecting"
    /\ server.sendIn = 0
    /\ SendOnce("Disconnect")
    /\ server' = IF server.packets_to_send = 1
                   THEN NoEntry
                   ELSE [server EXCEPT !.sendIn = SendInterval, !.packets_to_send = @ - 1]
    /\ UNCHANGED <<client, clocks>>

HandlePendingConnectionSend ==
    /\ server.variant = "Pending"
    /\ server.sendIn = 0
    /\ SendAgain("ConnectChallenge")
    /\ server' = [server EXCEPT !.sendIn = SendInterval]
    /\ UNCHANGED <<client, clocks>>

HandleKeepaliveElapsed ==
    /\ server.variant = "Connected"
    /\ server.sendIn = 0
    /\ SendAgain("ServerKeepalive")
    /\ server' = [server EXCEPT !.sendIn = KeepaliveInterval]
    /\ UNCHANGED <<client, clocks>>

ServerStops ==
    /\ server.variant # "Stopped"
    /\ server' = [NoEntry EXCEPT !.variant = "Stopped"]
    /\ UNCHANGED <<client, net, clocks>>

ServerStep ==
    \/ HandleConnectInitPacket
    \/ HandleConnectResponsePacket
    \/ HandleKeepalivePacket
    \/ HandleGameDataPacket
    \/ HandleSendGameDataRequest
    \/ HandleClientTimeout
    \/ HandleDisconnectElapsed
    \/ HandlePendingConnectionSend
    \/ HandleKeepaliveElapsed
    \/ ServerStops

-----------------------------------------------------------------------------
(* Time.                                                                   *)

\* A branch whose timer has run out is taken before time goes on.
Waits(side) == side.sendIn # 0 /\ side.timeout # 0

Later(timer) == IF timer = Off THEN Off ELSE timer - 1

Counted(side) ==
    [side EXCEPT !.sendIn = Later(@), !.timeout = Later(@)]

\* A clock runs while it counts, up to the horizon.
Clock(time, runs) == IF runs /\ time < Horizon THEN time + 1 ELSE time

Tick ==
    /\ Waits(client)
    /\ Waits(server)
    /\ \A kind \in Kind : MaxDelay \notin flight[kind]
    /\ client' = Counted(client)
    /\ server' = Counted(server)
    /\ flight' = [kind \in Kind |-> {a + 1 : a \in flight[kind]}]
    /\ silence' = [client |-> Clock(silence.client, client.variant = "Stopped"),
                   server |-> Clock(silence.server, server.variant = "Stopped")]
    /\ age' = Clock(age, age <= Handshake)
    /\ UNCHANGED lost

Next == ClientStep \/ ServerStep \/ Tick

Spec == Init /\ [][Next]_vars

-----------------------------------------------------------------------------
TypeOK ==
    /\ client \in Client
    /\ server \in Server
    /\ flight \in [Kind -> SUBSET (0 .. MaxDelay)]
    /\ lost \in [Repeated -> 0 .. MaxLoss]
    /\ silence \in [client : 0 .. Horizon, server : 0 .. Horizon]
    /\ age \in 0 .. Horizon

BothRun == client.variant # "Stopped" /\ server.variant # "Stopped"

\* The timeouts leave room for everything the handshake and the keepalives
\* need: while both sides run and the network keeps its bounds, neither
\* side ever gives the other up, though a timeout is armed before the first
\* packet of the handshake and refreshed only after the last, and though
\* keepalives are all that refreshes it (refresh_timeout on both sides).
NobodyGivesUp ==
    BothRun => client.variant # "Disconnected" /\ server.variant # "Disconnecting"

\* Each of the four exchanges of the handshake takes at most its budget: by
\* then both sides are Connected, and stay so.
ConnectedInTime ==
    BothRun /\ age > Handshake =>
        client.variant = "Connected" /\ server.variant = "Connected"

\* The server gives up a client that stopped, and then forgets it, in time,
\* whatever the client's last packets were and however long they were under
\* way (handle_client_timeout, handle_disconnect_elapsed).
StoppedClientIsForgotten ==
    client.variant = "Stopped" /\ server.variant # "Stopped" =>
        /\ silence.client > Noticed => server.variant \notin {"Pending", "Connected"}
        /\ silence.client > Forgotten => server.variant = "None"

\* The client notices in time that the server stopped, in every state.
StoppedServerIsNoticed ==
    server.variant = "Stopped" /\ silence.server > Noticed =>
        client.variant \in {"Disconnected", "Stopped"}
=============================================================================
