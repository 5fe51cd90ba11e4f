----------------------------- MODULE OpenServer -----------------------------
(***************************************************************************)
(* The connection server among peers of which nothing is assumed but that  *)
(* they cannot seal under a secret of a key exchange that never happened:  *)
(* any packet kind, under the secret of any key pair generated so far, may *)
(* arrive from any address at any time, as the test driver's client sends  *)
(* them.  Requests for game data may name any address.  The server's event *)
(* channel is taken by a receiver that does nothing else.                  *)
(***************************************************************************)
EXTENDS ConnectionServer

CONSTANT ClientKey          \* the keys peers generate

ASSUME ClientKeyAssumption == ClientKey \subseteq Nat

openServerVars == <<serverVars, netVars>>

Known == {Exchange(k, g) : k \in ClientKey, g \in 1 .. gen}

PeerPacket ==
    [kind : {"ConnectInit"}, key : ClientKey]
        \cup [kind : {"ConnectResponse"}, secret : Known, token : 0 .. gen]
        \cup [kind : {"Disconnect", "Keepalive", "GameData"}, secret : Known]

OpenServerInit == NetInit /\ ServerInit

Recv(addr) ==
    /\ phase = "Running"
    /\ \E packet \in PeerPacket : HandleSocketRecv(addr, packet)
    /\ UNCHANGED toServer

Request(addr) ==
    phase = "Running" /\ HandleSendGameDataRequest(addr) /\ UNCHANGED toServer

Timers(addr) == phase = "Running" /\ ServerTimers(addr) /\ UNCHANGED toServer

Shutdown == ServerShutdown /\ UNCHANGED toServer

Take ==
    /\ events # <<>>
    /\ events' = Tail(events)
    /\ UNCHANGED <<conns, gen, phase, netVars>>

OpenServerNext ==
    \/ \E addr \in Addr : Recv(addr) \/ Request(addr) \/ Timers(addr)
    \/ Shutdown
    \/ Take

OpenServerSpec == OpenServerInit /\ [][OpenServerNext]_openServerVars

-----------------------------------------------------------------------------
(* Liveness.  The receiver takes events; the select loop reaches the        *)
(* timers, which it does whenever it finds no request and no packet waiting.*)

ClientHeard(addr) == conns[addr].timeout = "Due" /\ conns'[addr].timeout = "Fresh"

ServerFairness ==
    /\ WF_openServerVars(Take)
    /\ \A addr \in Addr :
          /\ WF_openServerVars(phase = "Running" /\ TimeoutExpires(addr) /\ UNCHANGED toServer)
          /\ SF_openServerVars(phase = "Running" /\ HandleClientTimeout(addr) /\ UNCHANGED toServer)
          /\ WF_openServerVars(phase = "Running" /\ HandleDisconnectElapsed(addr) /\ UNCHANGED toServer)
    /\ \A addr \in Addr : SF_openServerVars(HandleCancelled(addr) /\ UNCHANGED toServer)
    /\ WF_openServerVars(Drained /\ UNCHANGED toServer)
    /\ SF_openServerVars(Drop /\ UNCHANGED toServer)

FairServerSpec == OpenServerSpec /\ ServerFairness

\* Every entry leaves the table unless its client is heard from again and
\* again: a client that falls silent in any state, a handshake that was
\* never finished, and a Disconnecting entry whatever arrives for it.
SilentClientsAreForgotten ==
    \A addr \in Addr :
        []<>(conns[addr].variant = "None") \/ []<><<ClientHeard(addr)>>_openServerVars

\* A cancelled task ends, and tells its receiver so.
CancelledTaskStops == phase # "Running" ~> phase = "Stopped" /\ events = <<>>
=============================================================================
