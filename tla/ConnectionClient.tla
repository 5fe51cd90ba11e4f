-------------------------- MODULE ConnectionClient --------------------------
(***************************************************************************)
(* dungeon-vr-connection-client: the task that owns a client's socket, one *)
(* process at a time on each address.  It repeats ConnectInit until it is  *)
(* challenged, repeats its ConnectResponse until the server shows that it  *)
(* knows the connection, and then exchanges game data and keepalives.      *)
(*                                                                         *)
(* The server timeout is the three-position timer of the server's model.   *)
(* A process may be killed and started again on the same address: it then  *)
(* generates a new key and finds the packets meant for its predecessor.    *)
(***************************************************************************)
EXTENDS Network, Sequences

CONSTANTS
    ClientEventBufferSize,   \* EVENT_BUFFER_SIZE
    MaxKey                   \* bound: processes started on one address

ASSUME ClientAssumption ==
    /\ ClientEventBufferSize \in Nat \ {0}
    /\ MaxKey \in Nat \ {0}

VARIABLES
    clients,                 \* the client process on each address
    clientEvents             \* its channel to the session client

clientVars == <<clients, clientEvents>>

-----------------------------------------------------------------------------
ClientVariant == {"Disconnected", "Connecting", "Responding", "Connected"}
ClientTimer == {"None", "Fresh", "Due"}
ClientPhase == {"Running", "Exiting", "Stopped"}

Client ==
    [variant : ClientVariant, key : 1 .. MaxKey, secret : SharedSecret, token : Nat,
     timeout : ClientTimer, phase : ClientPhase]

ClientEventWhat == {"Disconnected", "Responding", "Connected", "GameData", "Dropped"}

\* Mutant of NewClient: no timeout is armed.
UntimedClient(key) ==
    [variant |-> "Connecting", key |-> key, secret |-> NoSecret, token |-> 0,
     timeout |-> "None", phase |-> "Running"]

\* ConnectionClient::new, with the key the process generates.
NewClient(key) ==
    [variant |-> "Connecting", key |-> key, secret |-> NoSecret, token |-> 0,
     timeout |-> "Fresh", phase |-> "Running"]

Running(addr) == clients[addr].phase = "Running"

\* Variant::shared_secret
HasSecret(addr) == clients[addr].variant \in {"Responding", "Connected"}

Tell(addr, what) ==
    /\ Len(clientEvents[addr]) + Len(what) <= ClientEventBufferSize
    /\ clientEvents' = [clientEvents EXCEPT ![addr] = @ \o what]

ClientInit ==
    /\ clients = [addr \in Addr |-> NewClient(1)]
    /\ clientEvents = [addr \in Addr |-> <<>>]

-----------------------------------------------------------------------------
(* Packets.                                                                *)

\* The timer is left as it is.
ClientHandleDisconnectPacket(addr, packet) ==
    /\ packet.kind = "Disconnect"
    /\ HasSecret(addr)
    /\ Opens(packet, clients[addr].secret)
    /\ clients' = [clients EXCEPT ![addr].variant = "Disconnected",
                                  ![addr].secret = NoSecret,
                                  ![addr].token = 0]
    /\ Tell(addr, <<"Disconnected">>)
    /\ UNCHANGED toServer

\* Mutant of HandleConnectChallengePacket: a second challenge replaces the first.
LastChallenge(addr, packet) ==
    /\ packet.kind = "ConnectChallenge"
    /\ clients[addr].variant \in {"Connecting", "Responding"}
    /\ LET secret == Exchange(clients[addr].key, packet.key)
       IN  /\ Opens(packet, secret)
           /\ clients' = [clients EXCEPT ![addr].variant = "Responding",
                                         ![addr].secret = secret,
                                         ![addr].token = packet.token]
    /\ Tell(addr, <<"Responding">>)
    /\ UNCHANGED toServer

\* Mutant of HandleConnectChallengePacket: the seal is not checked.
UncheckedChallenge(addr, packet) ==
    /\ packet.kind = "ConnectChallenge"
    /\ clients[addr].variant = "Connecting"
    /\ clients' = [clients EXCEPT ![addr].variant = "Responding",
                                  ![addr].secret = Exchange(clients[addr].key, packet.key),
                                  ![addr].token = packet.token]
    /\ Tell(addr, <<"Responding">>)
    /\ UNCHANGED toServer

HandleConnectChallengePacket(addr, packet) ==
    /\ packet.kind = "ConnectChallenge"
    /\ clients[addr].variant = "Connecting"
    /\ LET secret == Exchange(clients[addr].key, packet.key)
       IN  /\ Opens(packet, secret)
           /\ clients' = [clients EXCEPT ![addr].variant = "Responding",
                                         ![addr].secret = secret,
                                         ![addr].token = packet.token]
    /\ Tell(addr, <<"Responding">>)
    /\ UNCHANGED toServer

\* refresh_timeout and confirm_connection, the two effects of every sealed
\* packet that shows the server alive.  A timer that was cleared stays so.
Confirm(addr) ==
    clients' = [clients EXCEPT ![addr].variant = "Connected",
                               ![addr].timeout = IF @ = "None" THEN @ ELSE "Fresh"]

\* Mutant of ConfirmEvent: announced with every packet.
ConfirmAgain(addr) == <<"Connected">>

ConfirmEvent(addr) ==
    IF clients[addr].variant = "Responding" THEN <<"Connected">> ELSE <<>>

ClientHandleKeepalivePacket(addr, packet) ==
    /\ packet.kind = "Keepalive"
    /\ HasSecret(addr)
    /\ Opens(packet, clients[addr].secret)
    /\ Confirm(addr)
    /\ Tell(addr, ConfirmEvent(addr))
    /\ UNCHANGED toServer

ClientHandleGameDataPacket(addr, packet) ==
    /\ packet.kind = "GameData"
    /\ HasSecret(addr)
    /\ Opens(packet, clients[addr].secret)
    /\ Confirm(addr)
    /\ Tell(addr, Append(ConfirmEvent(addr), "GameData"))
    /\ UNCHANGED toServer

ClientRecv(addr, packet) ==
    /\ Running(addr)
    /\ \/ ClientHandleDisconnectPacket(addr, packet)
       \/ HandleConnectChallengePacket(addr, packet)
       \/ ClientHandleKeepalivePacket(addr, packet)
       \/ ClientHandleGameDataPacket(addr, packet)

-----------------------------------------------------------------------------
(* Requests and timers.                                                    *)

ClientHandleSendGameDataRequest(addr) ==
    /\ clients[addr].variant = "Connected"
    /\ SendToServer(addr, GameData(clients[addr].secret))
    /\ UNCHANGED clientVars

\* SERVER_TIMEOUT_INTERVAL passes without a refresh.
ServerTimeoutExpires(addr) ==
    /\ clients[addr].timeout = "Fresh"
    /\ clients' = [clients EXCEPT ![addr].timeout = "Due"]
    /\ UNCHANGED <<clientEvents, toServer>>

HandleServerTimeout(addr) ==
    /\ clients[addr].timeout = "Due"
    /\ clients' = [clients EXCEPT ![addr].timeout = "None",
                                  ![addr].variant = "Disconnected",
                                  ![addr].secret = NoSecret,
                                  ![addr].token = 0]
    /\ Tell(addr, <<"Disconnected">>)
    /\ UNCHANGED toServer

HandleSendIntervalElapsed(addr) ==
    /\ \/ /\ clients[addr].variant = "Connecting"
          /\ SendToServer(addr, ConnectInit(clients[addr].key))
       \/ /\ clients[addr].variant = "Responding"
          /\ SendToServer(addr, ConnectResponse(clients[addr].secret, clients[addr].token))
    /\ UNCHANGED clientVars

ClientHandleKeepaliveElapsed(addr) ==
    /\ clients[addr].variant = "Connected"
    /\ SendToServer(addr, Keepalive(clients[addr].secret))
    /\ UNCHANGED clientVars

ClientSends(addr) ==
    /\ Running(addr)
    /\ \/ ClientHandleSendGameDataRequest(addr)
       \/ HandleSendIntervalElapsed(addr)
       \/ ClientHandleKeepaliveElapsed(addr)

ClientTimers(addr) ==
    Running(addr) /\ (ServerTimeoutExpires(addr) \/ HandleServerTimeout(addr))

-----------------------------------------------------------------------------
(* The life of a process.                                                  *)

\* The token is cancelled.  The select's branch runs handle_cancelled; a
\* cancellation noticed by the loop condition leaves the loop without it.
ClientCancel(addr) ==
    /\ Running(addr)
    /\ clients' = [clients EXCEPT ![addr].phase = "Exiting"]
    /\ \/ UNCHANGED clientEvents
       \/ clients[addr].variant # "Disconnected" /\ Tell(addr, <<"Disconnected">>)
    /\ UNCHANGED toServer

ClientDrop(addr) ==
    /\ clients[addr].phase = "Exiting"
    /\ clients' = [clients EXCEPT ![addr].phase = "Stopped",
                                  ![addr].variant = "Disconnected",
                                  ![addr].secret = NoSecret,
                                  ![addr].token = 0,
                                  ![addr].timeout = "None"]
    /\ Tell(addr, <<"Dropped">>)
    /\ UNCHANGED toServer

\* The process ends or is killed, and a new one starts on its address.
Restart(addr) ==
    /\ clients[addr].key < MaxKey
    /\ clients' = [clients EXCEPT ![addr] = NewClient(clients[addr].key + 1)]
    /\ clientEvents' = [clientEvents EXCEPT ![addr] = <<>>]
    /\ UNCHANGED toServer

ClientLife(addr) == ClientCancel(addr) \/ ClientDrop(addr) \/ Restart(addr)

\* The session client takes an event from the channel.
ClientTake(addr) ==
    /\ clientEvents[addr] # <<>>
    /\ clientEvents' = [clientEvents EXCEPT ![addr] = Tail(@)]
    /\ UNCHANGED <<clients, toServer>>

-----------------------------------------------------------------------------
ClientTypeOK ==
    /\ clients \in [Addr -> Client]
    /\ clientEvents \in [Addr -> Seq(ClientEventWhat)]
    /\ \A addr \in Addr : Len(clientEvents[addr]) <= ClientEventBufferSize

-----------------------------------------------------------------------------
\* A process answers at most one challenge: however many challenges it is
\* sent, its responses all carry one secret (handle_connect_challenge_packet
\* takes a challenge only in Connecting).
OneResponsePerProcess ==
    \A m, n \in toServer :
        /\ m.addr = n.addr
        /\ m.packet.kind = "ConnectResponse" /\ n.packet.kind = "ConnectResponse"
        /\ m.packet.secret.client = n.packet.secret.client
        => m.packet = n.packet

Stream(addr) == INSTANCE ClientEventStream WITH
    stage <- clients[addr].variant,
    armed <- clients[addr].timeout # "None",
    phase <- clients[addr].phase,
    events <- clientEvents[addr]

\* The events of every process are those ClientEventStream allows, whatever
\* the server sends.
ImplementsClientEventStream ==
    /\ \A addr \in Addr : Stream(addr)!StreamInit
    /\ [][\A addr \in Addr : Stream(addr)!StreamStep]_clientVars
=============================================================================
