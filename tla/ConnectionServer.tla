-------------------------- MODULE ConnectionServer --------------------------
(***************************************************************************)
(* dungeon-vr-connection-server: the task that owns the server's socket.   *)
(* It answers ConnectInit packets with a key exchange and a challenge,     *)
(* promotes a connection when the challenge comes back, times silent       *)
(* clients out, and tells the session server about it on a bounded event   *)
(* channel.                                                                *)
(*                                                                         *)
(* One action per handler of `run`.  A handler that drops its packet       *)
(* changes nothing and has no action.  The client timeout is a timer with  *)
(* three positions: "None" (no timer), "Fresh" (armed, not yet expired)    *)
(* and "Due" (expired); time passing turns Fresh into Due, a packet that   *)
(* refreshes the timer turns it back.  The 250 ms and 1 s send timers may  *)
(* fire at any time.                                                       *)
(***************************************************************************)
EXTENDS Network, Sequences, FiniteSets

CONSTANTS
    DisconnectPacketCount,   \* DISCONNECT_PACKET_COUNT
    EventBufferSize,         \* EVENT_BUFFER_SIZE
    MaxGen                   \* bound: server key pairs generated in a run

ASSUME ServerAssumption ==
    /\ DisconnectPacketCount \in Nat \ {0}
    /\ EventBufferSize \in Nat \ {0}
    /\ MaxGen \in Nat

VARIABLES
    conns,                   \* the table of connections, by address
    gen,                     \* server key pairs generated so far
    events,                  \* the channel to the session server
    phase                    \* where the task is in its life

serverVars == <<conns, gen, events, phase>>

-----------------------------------------------------------------------------
Open == {"Pending", "Connected"}
Variant == Open \cup {"Disconnecting"}
Timer == {"None", "Fresh", "Due"}
Phase == {"Running", "Draining", "Exiting", "Stopped"}

Connection ==
    [variant : Variant \cup {"None"}, secret : SharedSecret, token : Nat,
     timeout : Timer, packets_to_send : 0 .. DisconnectPacketCount]

\* No entry for the address in the table.
NoConnection ==
    [variant |-> "None", secret |-> NoSecret, token |-> 0,
     timeout |-> "None", packets_to_send |-> 0]

\* Mutant of PendingConnection: the timeout is not armed.
UntimedConnection(secret, token) ==
    [NoConnection EXCEPT !.variant = "Pending", !.secret = secret, !.token = token]

PendingConnection(secret, token) ==
    [variant |-> "Pending", secret |-> secret, token |-> token,
     timeout |-> "Fresh", packets_to_send |-> 0]

\* An event about an address: a state, or "GameData".
Event(addr, what) == [addr |-> addr, what |-> what]
EventWhat == {"Disconnected", "Pending", "Connected", "Disconnecting", "GameData"}

\* The event that ends the stream; it is about no address.
Dropped == [what |-> "Dropped"]

Send(event) == Len(events) < EventBufferSize /\ events' = Append(events, event)

\* Connection::refresh_timeout: only a timer that exists is reset.
Refreshed(timer) == IF timer = "None" THEN "None" ELSE "Fresh"

ServerInit ==
    /\ conns = [addr \in Addr |-> NoConnection]
    /\ gen = 0
    /\ events = <<>>
    /\ phase = "Running"

-----------------------------------------------------------------------------
(* Packets.  The datagram comes from addr and decodes to packet.           *)

HandleDisconnectPacket(addr, packet) ==
    /\ packet.kind = "Disconnect"
    /\ conns[addr].variant # "None"
    /\ Opens(packet, conns[addr].secret)
    /\ conns' = [conns EXCEPT ![addr] = NoConnection]
    /\ IF conns[addr].variant \in Open
         THEN Send(Event(addr, "Disconnected"))
         ELSE UNCHANGED events
    /\ UNCHANGED <<gen, phase, toClient>>

\* Mutant of HandleConnectInitPacket: an existing entry is replaced.
ReplacingInit(addr, packet) ==
    /\ packet.kind = "ConnectInit"
    /\ gen < MaxGen
    /\ gen' = gen + 1
    /\ conns' = [conns EXCEPT ![addr] =
                    PendingConnection(Exchange(packet.key, gen + 1), gen + 1)]
    /\ Send(Event(addr, "Pending"))
    /\ UNCHANGED <<phase, toClient>>

\* Mutant of HandleConnectInitPacket: one key pair serves all connections.
OneKeyInit(addr, packet) ==
    /\ packet.kind = "ConnectInit"
    /\ conns[addr].variant = "None"
    /\ gen' = 1
    /\ conns' = [conns EXCEPT ![addr] = PendingConnection(Exchange(packet.key, 1), 1)]
    /\ Send(Event(addr, "Pending"))
    /\ UNCHANGED <<phase, toClient>>

HandleConnectInitPacket(addr, packet) ==
    /\ packet.kind = "ConnectInit"
    /\ conns[addr].variant = "None"
    /\ gen < MaxGen
    /\ gen' = gen + 1
    /\ LET token == gen + 1
           secret == Exchange(packet.key, gen + 1)
       IN  conns' = [conns EXCEPT ![addr] = PendingConnection(secret, token)]
    /\ Send(Event(addr, "Pending"))
    /\ UNCHANGED <<phase, toClient>>

\* Mutant of HandleConnectResponsePacket: the sealed token is not looked at.
UncheckedResponse(addr, packet) ==
    /\ packet.kind = "ConnectResponse"
    /\ conns[addr].variant = "Pending"
    /\ conns' = [conns EXCEPT ![addr].variant = "Connected"]
    /\ Send(Event(addr, "Connected"))
    /\ UNCHANGED <<gen, phase, toClient>>

HandleConnectResponsePacket(addr, packet) ==
    /\ packet.kind = "ConnectResponse"
    /\ conns[addr].variant = "Pending"
    /\ Opens(packet, conns[addr].secret)
    /\ packet.token = conns[addr].token
    /\ conns' = [conns EXCEPT ![addr].variant = "Connected"]
    /\ Send(Event(addr, "Connected"))
    /\ UNCHANGED <<gen, phase, toClient>>

HandleKeepalivePacket(addr, packet) ==
    /\ packet.kind = "Keepalive"
    /\ conns[addr].variant # "None"
    /\ Opens(packet, conns[addr].secret)
    /\ conns' = [conns EXCEPT ![addr].timeout = Refreshed(@)]
    /\ UNCHANGED <<gen, events, phase, toClient>>

\* Mutant of HandleGameDataPacket: accepted in every state.
EagerGameData(addr, packet) ==
    /\ packet.kind = "GameData"
    /\ conns[addr].variant # "None"
    /\ Opens(packet, conns[addr].secret)
    /\ conns' = [conns EXCEPT ![addr].timeout = Refreshed(@)]
    /\ Send(Event(addr, "GameData"))
    /\ UNCHANGED <<gen, phase, toClient>>

HandleGameDataPacket(addr, packet) ==
    /\ packet.kind = "GameData"
    /\ conns[addr].variant = "Connected"
    /\ Opens(packet, conns[addr].secret)
    /\ conns' = [conns EXCEPT ![addr].timeout = Refreshed(@)]
    /\ Send(Event(addr, "GameData"))
    /\ UNCHANGED <<gen, phase, toClient>>

HandleSocketRecv(addr, packet) ==
    \/ HandleDisconnectPacket(addr, packet)
    \/ HandleConnectInitPacket(addr, packet)
    \/ HandleConnectResponsePacket(addr, packet)
    \/ HandleKeepalivePacket(addr, packet)
    \/ HandleGameDataPacket(addr, packet)

-----------------------------------------------------------------------------
(* Requests and timers.                                                    *)

\* The session server asks for game data to be sent: whatever the state of
\* the connection, as long as there is one.
HandleSendGameDataRequest(addr) ==
    /\ conns[addr].variant # "None"
    /\ SendToClient(addr, GameData(conns[addr].secret))
    /\ UNCHANGED <<conns, gen, events, phase>>

\* CLIENT_TIMEOUT_INTERVAL passes without a refresh.
TimeoutExpires(addr) ==
    /\ conns[addr].timeout = "Fresh"
    /\ conns' = [conns EXCEPT ![addr].timeout = "Due"]
    /\ UNCHANGED <<gen, events, phase, toClient>>

\* Mutant of HandleClientTimeout: the timer is left armed.
ArmedTimeout(addr) ==
    /\ conns[addr].timeout = "Due"
    /\ conns' = [conns EXCEPT ![addr] =
                    [@ EXCEPT !.variant = "Disconnecting",
                              !.packets_to_send = DisconnectPacketCount]]
    /\ IF conns[addr].variant \in Open
         THEN Send(Event(addr, "Disconnecting"))
         ELSE UNCHANGED events
    /\ UNCHANGED <<gen, phase, toClient>>

HandleClientTimeout(addr) ==
    /\ conns[addr].timeout = "Due"
    /\ conns' = [conns EXCEPT ![addr] =
                    [@ EXCEPT !.timeout = "None",
                              !.variant = "Disconnecting",
                              !.packets_to_send = DisconnectPacketCount]]
    /\ IF conns[addr].variant \in Open
         THEN Send(Event(addr, "Disconnecting"))
         ELSE UNCHANGED events
    /\ UNCHANGED <<gen, phase, toClient>>

\* Mutant of HandleDisconnectElapsed: the last packet is not recognised.
EndlessDisconnect(addr) ==
    /\ conns[addr].variant = "Disconnecting"
    /\ SendToClient(addr, Disconnect(conns[addr].secret))
    /\ conns' = [conns EXCEPT ![addr].packets_to_send = @ - 1]
    /\ UNCHANGED <<gen, events, phase>>

HandleDisconnectElapsed(addr) ==
    /\ conns[addr].variant = "Disconnecting"
    /\ SendToClient(addr, Disconnect(conns[addr].secret))
    /\ conns' = IF conns[addr].packets_to_send = 1
                  THEN [conns EXCEPT ![addr] = NoConnection]
                  ELSE [conns EXCEPT ![addr].packets_to_send = @ - 1]
    /\ UNCHANGED <<gen, events, phase>>

HandlePendingConnectionSend(addr) ==
    /\ conns[addr].variant = "Pending"
    /\ LET c == conns[addr]
       IN  SendToClient(addr, ConnectChallenge(c.secret.server, c.secret, c.token))
    /\ UNCHANGED <<conns, gen, events, phase>>

\* Mutant of HandleKeepaliveElapsed: sent while Pending, too.
EarlyKeepalive(addr) ==
    /\ conns[addr].variant \in Open
    /\ SendToClient(addr, Keepalive(conns[addr].secret))
    /\ UNCHANGED <<conns, gen, events, phase>>

HandleKeepaliveElapsed(addr) ==
    /\ conns[addr].variant = "Connected"
    /\ SendToClient(addr, Keepalive(conns[addr].secret))
    /\ UNCHANGED <<conns, gen, events, phase>>

ServerTimers(addr) ==
    \/ TimeoutExpires(addr)
    \/ HandleClientTimeout(addr)
    \/ HandleDisconnectElapsed(addr)
    \/ HandlePendingConnectionSend(addr)
    \/ HandleKeepaliveElapsed(addr)

-----------------------------------------------------------------------------
(* The end of the task.  A cancellation that finds the task waiting in its *)
(* select runs handle_cancelled; one that comes while a handler runs is    *)
(* noticed by the loop condition, which leaves the loop without it.        *)

Cancel ==
    /\ phase = "Running"
    /\ phase' \in {"Draining", "Exiting"}
    /\ UNCHANGED <<conns, gen, events, toClient>>

\* Mutant of HandleCancelled: skips what is Disconnecting.
CancelledOpen(addr) ==
    /\ phase = "Draining"
    /\ conns[addr].variant \in Open
    /\ conns' = [conns EXCEPT ![addr] = NoConnection]
    /\ Send(Event(addr, "Disconnected"))
    /\ UNCHANGED <<gen, phase, toClient>>

\* handle_cancelled, one drained connection at a time.
HandleCancelled(addr) ==
    /\ phase = "Draining"
    /\ conns[addr].variant # "None"
    /\ conns' = [conns EXCEPT ![addr] = NoConnection]
    /\ Send(Event(addr, "Disconnected"))
    /\ UNCHANGED <<gen, phase, toClient>>

Drained ==
    /\ phase = "Draining"
    /\ \A addr \in Addr : conns[addr].variant = "None"
    /\ phase' = "Exiting"
    /\ UNCHANGED <<conns, gen, events, toClient>>

\* After the loop: the connections are dropped with the socket, then the
\* receiver is told.
Drop ==
    /\ phase = "Exiting"
    /\ conns' = [addr \in Addr |-> NoConnection]
    /\ Send(Dropped)
    /\ phase' = "Stopped"
    /\ UNCHANGED <<gen, toClient>>

ServerShutdown == Cancel \/ (\E addr \in Addr : HandleCancelled(addr)) \/ Drained \/ Drop

-----------------------------------------------------------------------------
ServerTypeOK ==
    /\ conns \in [Addr -> Connection]
    /\ gen \in 0 .. MaxGen
    /\ events \in Seq([addr : Addr, what : EventWhat] \cup {Dropped})
    /\ Len(events) <= EventBufferSize
    /\ phase \in Phase

\* Two connections in the table never share a key exchange: a packet one
\* client sealed would open as another's (handle_connect_init_packet
\* generates a key pair for every entry).
KeysApart ==
    \A x, y \in Addr :
        x # y /\ conns[x].variant # "None" /\ conns[y].variant # "None"
           => conns[x].secret.server # conns[y].secret.server

\* A connection has a timeout exactly while it is not Disconnecting, and a
\* Disconnecting connection still has packets to send: the timeout handler's
\* silent branch is never taken, and the subtraction in
\* handle_disconnect_elapsed never underflows.
TimersMatchVariant ==
    \A addr \in Addr :
        LET c == conns[addr]
        IN  /\ c.variant \in Open <=> c.timeout # "None"
            /\ c.variant = "Disconnecting" <=> c.packets_to_send > 0

-----------------------------------------------------------------------------
(* The event channel, as the session server may rely on it.                *)

AbstractPhase == IF phase \in {"Draining", "Exiting"} THEN "Closing" ELSE phase

Events == INSTANCE ConnectionEvents WITH
    stage <- [addr \in Addr |-> conns[addr].variant],
    phase <- AbstractPhase

\* The server's event channel announces the stages of every address as
\* ConnectionEvents prescribes, whatever its peers send: in particular game
\* data is announced only between Connected and the end of the connection.
ImplementsConnectionEvents == Events!EventsSpec
=============================================================================
