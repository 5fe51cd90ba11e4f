----------------------------- MODULE OpenClient -----------------------------
(***************************************************************************)
(* The client processes against a server of which nothing is assumed but   *)
(* that it cannot seal under a secret that belongs to another key: any     *)
(* packet a server may send, under any key exchange with the current or an *)
(* earlier process of the address, may arrive at any time.                 *)
(***************************************************************************)
EXTENDS ConnectionClient

CONSTANT ServerKey           \* the keys a server generates

ASSUME ServerKeyAssumption == ServerKey \subseteq Nat

openClientVars == <<clientVars, netVars>>

ServerSays(addr) ==
    LET known == {Exchange(k, g) : k \in 1 .. clients[addr].key, g \in ServerKey}
    IN  {ConnectChallenge(s.server, s, s.server) : s \in known}
           \cup [kind : {"Disconnect", "Keepalive", "GameData"}, secret : known]

OpenClientInit == NetInit /\ ClientInit

OpenClientStep(addr) ==
    /\ \/ \E packet \in ServerSays(addr) : ClientRecv(addr, packet)
       \/ ClientSends(addr) \/ ClientTimers(addr) \/ ClientLife(addr) \/ ClientTake(addr)
    /\ UNCHANGED toClient

OpenClientNext == \E addr \in Addr : OpenClientStep(addr)

OpenClientSpec == OpenClientInit /\ [][OpenClientNext]_openClientVars

-----------------------------------------------------------------------------
(* Liveness: the session client takes events, and the select loop reaches  *)
(* the timer whenever it finds no request and no packet waiting.           *)

ServerHeard(addr) == clients[addr].timeout = "Due" /\ clients'[addr].timeout = "Fresh"

ClientFairness ==
    \A addr \in Addr :
        /\ WF_openClientVars(ClientTake(addr) /\ UNCHANGED toClient)
        /\ WF_openClientVars(Running(addr) /\ ServerTimeoutExpires(addr) /\ UNCHANGED toClient)
        /\ SF_openClientVars(Running(addr) /\ HandleServerTimeout(addr) /\ UNCHANGED toClient)
        /\ SF_openClientVars(ClientDrop(addr) /\ UNCHANGED toClient)

FairClientSpec == OpenClientSpec /\ ClientFairness

\* A process whose server stays silent, in whatever state it is, ends up
\* Disconnected: it waits forever only for a server it hears from again and
\* again.
SilentServerIsNoticed ==
    \A addr \in Addr :
        []<>(clients[addr].variant = "Disconnected") \/ []<><<ServerHeard(addr)>>_openClientVars
=============================================================================
