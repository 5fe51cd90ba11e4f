------------------------------ MODULE Network ------------------------------
(***************************************************************************)
(* The packets of dungeon-vr-connection-shared, the cryptography they are  *)
(* sealed with, and the UDP network between the clients and the server.    *)
(*                                                                         *)
(* A key pair is the serial number of its generation: a client process     *)
(* generates one pair when it starts, the server one pair and one token    *)
(* for every ConnectInit it accepts.  A Diffie-Hellman exchange yields the *)
(* pair of the two serial numbers, whichever side computes it, and a       *)
(* sealed payload opens under the secret it was sealed with and no other.  *)
(*                                                                         *)
(* The network loses, duplicates, delays and reorders datagrams: one that  *)
(* is not lost may be received any number of times, at any later time, or  *)
(* never.                                                                  *)
(***************************************************************************)
EXTENDS Naturals

CONSTANT Addr          \* the addresses client processes are bound to

VARIABLES
    toServer,          \* datagrams to the server that were not lost
    toClient           \* datagrams to client addresses, likewise

netVars == <<toServer, toClient>>

-----------------------------------------------------------------------------
SharedSecret == [client : Nat, server : Nat]

NoSecret == [client |-> 0, server |-> 0]     \* serial numbers start at 1

\* PrivateKey::exchange, seen from either side.
Exchange(clientKey, serverKey) == [client |-> clientKey, server |-> serverKey]

ConnectInit(key) == [kind |-> "ConnectInit", key |-> key]

ConnectChallenge(key, secret, token) ==
    [kind |-> "ConnectChallenge", key |-> key, secret |-> secret, token |-> token]

ConnectResponse(secret, token) ==
    [kind |-> "ConnectResponse", secret |-> secret, token |-> token]

Keepalive(secret) == [kind |-> "Keepalive", secret |-> secret]

Disconnect(secret) == [kind |-> "Disconnect", secret |-> secret]

GameData(secret) == [kind |-> "GameData", secret |-> secret]

\* Sealed::open succeeds exactly under the secret the payload was sealed with.
Opens(packet, secret) == packet.secret = secret

Sealed(kinds) == [kind : kinds, secret : SharedSecret]

SealedToken == [kind : {"ConnectResponse"}, secret : SharedSecret, token : Nat]

Challenge ==
    [kind : {"ConnectChallenge"}, key : Nat, secret : SharedSecret, token : Nat]

ServerPacket ==        \* what a client may send
    [kind : {"ConnectInit"}, key : Nat] \cup SealedToken
        \cup Sealed({"Keepalive", "Disconnect", "GameData"})

ClientPacket ==        \* what the server may send
    Challenge \cup Sealed({"Keepalive", "Disconnect", "GameData"})

Datagram(addr, packet) == [addr |-> addr, packet |-> packet]

\* A datagram that is sent is lost at once, or may arrive from then on.
SendToServer(addr, packet) ==
    toServer' = toServer \/ toServer' = toServer \cup {Datagram(addr, packet)}

SendToClient(addr, packet) ==
    toClient' = toClient \/ toClient' = toClient \cup {Datagram(addr, packet)}

NetInit == toServer = {} /\ toClient = {}
=============================================================================
