-------------------------- MODULE ConnectionSystem --------------------------
(***************************************************************************)
(* The connection server, the client processes and the network between     *)
(* them, with the session server at the far end of the event channel.      *)
(*                                                                         *)
(* Of the session server only this is kept: it takes events in order,      *)
(* remembers the last state it was told of each address, and asks for game *)
(* data to be sent to the addresses it believes Connected.  Requests reach *)
(* the connection server in order and change nothing else, so a request    *)
(* that waits in its channel is one the session server makes later.        *)
(***************************************************************************)
EXTENDS ConnectionServer, ConnectionClient

VARIABLES
    seen,          \* the last state the session server took, by address
    accepted       \* history: secrets the server accepted a response under

vars == <<serverVars, clientVars, netVars, seen, accepted>>

Init ==
    /\ NetInit
    /\ ServerInit
    /\ ClientInit
    /\ seen = [addr \in Addr |-> "None"]
    /\ accepted = {}

-----------------------------------------------------------------------------
ServerRecv ==
    /\ phase = "Running"
    /\ \E m \in toServer : HandleSocketRecv(m.addr, m.packet)
    /\ accepted' = accepted \cup
          {conns'[addr].secret : addr \in {x \in Addr : conns'[x].variant = "Connected"}}
    /\ UNCHANGED <<clientVars, toServer, seen>>

SessionRequest(addr) ==
    /\ phase = "Running"
    /\ seen[addr] = "Connected"
    /\ HandleSendGameDataRequest(addr)
    /\ UNCHANGED <<clientVars, toServer, seen, accepted>>

ServerTimer(addr) ==
    /\ phase = "Running"
    /\ ServerTimers(addr)
    /\ UNCHANGED <<clientVars, toServer, seen, accepted>>

ServerEnds == ServerShutdown /\ UNCHANGED <<clientVars, toServer, seen, accepted>>

\* The session server takes the oldest event.
SessionTake ==
    /\ events # <<>>
    /\ events' = Tail(events)
    /\ LET e == Head(events)
       IN  seen' = IF e = Dropped \/ e.what = "GameData"
                     THEN seen
                     ELSE [seen EXCEPT ![e.addr] = e.what]
    /\ UNCHANGED <<conns, gen, phase, clientVars, netVars, accepted>>

ClientRecvs(addr) ==
    /\ \E m \in toClient : m.addr = addr /\ ClientRecv(addr, m.packet)
    /\ UNCHANGED <<serverVars, toClient, seen, accepted>>

ClientActs(addr) ==
    /\ ClientSends(addr) \/ ClientTimers(addr) \/ ClientLife(addr) \/ ClientTake(addr)
    /\ UNCHANGED <<serverVars, toClient, seen, accepted>>

Next ==
    \/ ServerRecv
    \/ \E addr \in Addr :
          \/ SessionRequest(addr)
          \/ ServerTimer(addr)
          \/ ClientRecvs(addr)
          \/ ClientActs(addr)
    \/ ServerEnds
    \/ SessionTake

Spec == Init /\ [][Next]_vars

-----------------------------------------------------------------------------
TypeOK ==
    /\ ServerTypeOK
    /\ ClientTypeOK
    /\ toServer \subseteq [addr : Addr, packet : ServerPacket]
    /\ toClient \subseteq [addr : Addr, packet : ClientPacket]
    /\ seen \in [Addr -> EventWhat \cup {"None"}]
    /\ accepted \subseteq SharedSecret

-----------------------------------------------------------------------------
(* Safety.                                                                 *)

\* The client has answered, or may answer, the challenge of a key exchange.
Holds(addr) == clients[addr].variant \in {"Responding", "Connected"}

\* One client process answers one challenge: when the server has a Connected
\* entry made for the process that now runs on the address, and that process
\* holds a secret, they hold the same secret, however often ConnectInit was
\* repeated, duplicated or delayed (handle_connect_init_packet,
\* handle_connect_challenge_packet, handle_connect_response_packet).
NoSplitBrain ==
    \A addr \in Addr :
        /\ conns[addr].variant = "Connected"
        /\ Holds(addr)
        /\ conns[addr].secret.client = clients[addr].key
        => conns[addr].secret = clients[addr].secret

\* A secret a client holds was made for that process: from its own key, and
\* by the server for its address, with the token the client echoes.
ChallengeAnswered ==
    \A addr \in Addr :
        Holds(addr) =>
            /\ clients[addr].secret.client = clients[addr].key
            /\ LET s == clients[addr].secret
                   m == ConnectChallenge(s.server, s, clients[addr].token)
               IN  Datagram(addr, m) \in toClient

\* The server promotes a connection only when a process on that address has
\* answered the challenge of this connection.
ServerHeardResponse ==
    \A addr \in Addr :
        conns[addr].variant = "Connected" =>
            Datagram(addr, ConnectResponse(conns[addr].secret, conns[addr].token)) \in toServer

\* A keepalive tells the client the truth: the server never sends one under
\* a secret it has not accepted a response for (handle_keepalive_elapsed).
\* Of game data this is not true: it may be requested for a Pending address.
KeepaliveConfirms ==
    \A m \in toClient : m.packet.kind = "Keepalive" => m.packet.secret \in accepted

\* No key exchange serves two addresses, in the table or between a connection
\* and a client bound to another address.
SecretsApart ==
    /\ KeysApart
    /\ \A x, y \in Addr :
          x # y /\ conns[x].variant # "None" /\ Holds(y)
             => conns[x].secret.server # clients[y].secret.server

\* While an address stays in the table its secret and its token never
\* change, and a connection that is Disconnecting never comes back to life.
EntriesAreStable ==
    [][\A addr \in Addr :
          conns[addr].variant # "None" /\ conns'[addr].variant # "None" =>
              /\ conns'[addr].secret = conns[addr].secret
              /\ conns'[addr].token = conns[addr].token
              /\ conns[addr].variant = "Disconnecting"
                    => conns'[addr].variant = "Disconnecting"]_vars
=============================================================================
