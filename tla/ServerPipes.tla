---------------------------- MODULE ServerPipes ----------------------------
(***************************************************************************)
(* The two bounded channels between a connection task and the session task *)
(* above it: on the server ConnectionServer and InnerServer, on a client   *)
(* ConnectionClient and InnerClient.  Each task sends on one channel and   *)
(* receives from the other, and a handler that sends waits, inside the     *)
(* handler, for room: the tasks wait for each other if both channels are   *)
(* full and both are sending.                                              *)
(*                                                                         *)
(* All four selects are biased and poll their branches in order: a task    *)
(* that handles something other than a message has found its channel       *)
(* empty, at some moment before.  The poll and the handler are therefore   *)
(* two steps.  What a message says is left out; what counts is how many a  *)
(* handler sends.                                                          *)
(*                                                                         *)
(* A connection task that is cancelled announces the end of its            *)
(* connections without looking at the requests, then drops what it has,    *)
(* the requests too, and says Dropped.  The session task goes on until it  *)
(* has heard that.                                                         *)
(***************************************************************************)
EXTENDS Naturals

CONSTANTS
    EventBufferSize,     \* EVENT_BUFFER_SIZE
    RequestBufferSize,   \* REQUEST_BUFFER_SIZE
    MaxEvents,           \* the most events a handler of the connection task sends
    MaxRequests,         \* the most requests a handler of the session task sends
    MaxConnections       \* the most connections a cancelled connection task has

\* The buffers hold 256.  On the server a handler sends one event, and one
\* request to each player: 4, in dungeon-vr-dedicated.  On the client it sends
\* two events, when game data confirms the connection, and one request.
ASSUME PipesAssumption ==
    /\ EventBufferSize \in Nat
    /\ RequestBufferSize \in Nat \ {0}
    /\ MaxEvents \in Nat \ {0}
    /\ MaxRequests \in Nat
    /\ MaxConnections \in Nat
    /\ MaxEvents <= EventBufferSize
    /\ MaxEvents * MaxRequests <= RequestBufferSize

\* Nothing in the code limits the connections of a server: any address that
\* begins a handshake gets an entry.  Up to 63, on the server, both channels
\* have room for what is sent while they are closed; a client has one.
FewConnections ==
    /\ MaxEvents + MaxConnections <= EventBufferSize
    /\ (MaxEvents + MaxConnections) * MaxRequests <= RequestBufferSize

VARIABLES
    events,              \* messages in the channel to the session task
    requests,            \* messages in the channel to the connection task
    connection,          \* where the connection task is in its loop
    session,             \* where the session task is in its loop
    unsent,              \* events the connection task has to send, now
    left                 \* requests the session task's handler has to send

pipesVars == <<events, requests, connection, session, unsent, left>>

\* At the top of the loop; past the poll of the channel, found empty; in a
\* handler; and, for a connection task, closing its connections, with the
\* requests dropped, and at its end.
Place == {"select", "polled", "sending", "closing", "dropping", "stopped"}

PipesInit ==
    /\ events = 0
    /\ requests = 0
    /\ connection = "select"
    /\ session = "select"
    /\ unsent = 0
    /\ left = 0

-----------------------------------------------------------------------------
(* The connection task.                                                    *)

\* A request is waiting: its handler only writes to the socket.
HandleRequest ==
    /\ connection = "select"
    /\ requests > 0
    /\ requests' = requests - 1
    /\ UNCHANGED <<events, connection, session, unsent, left>>

PollRequests ==
    /\ connection = "select"
    /\ requests = 0
    /\ connection' = "polled"
    /\ UNCHANGED <<events, requests, session, unsent, left>>

\* Mutant of HandleSocketOrTimer: the select is not biased.
UnbiasedSocketOrTimer ==
    /\ connection \in {"select", "polled"}
    /\ unsent' \in 0 .. MaxEvents
    /\ connection' = "sending"
    /\ UNCHANGED <<events, requests, session, left>>

\* A packet or a timer, or an error of the socket, which is ignored.
HandleSocketOrTimer ==
    /\ connection = "polled"
    /\ unsent' \in 0 .. MaxEvents
    /\ connection' = "sending"
    /\ UNCHANGED <<events, requests, session, left>>

\* Mutant of SendEvent: the sender does not wait for room.
SendEventAnyway ==
    /\ connection = "sending"
    /\ unsent > 0
    /\ events' = events + 1
    /\ unsent' = unsent - 1
    /\ UNCHANGED <<requests, connection, session, left>>

SendEvent ==
    /\ connection \in {"sending", "closing"}
    /\ unsent > 0
    /\ events < EventBufferSize
    /\ events' = events + 1
    /\ unsent' = unsent - 1
    /\ UNCHANGED <<requests, connection, session, left>>

FinishSocketOrTimer ==
    /\ connection = "sending"
    /\ unsent = 0
    /\ connection' = "select"
    /\ UNCHANGED <<events, requests, session, unsent, left>>

\* The loop is left: by the branch of the cancellation, which is the first,
\* with an event for each connection, or by the loop condition, with none.
HandleCancelled ==
    /\ connection = "select"
    /\ unsent' \in 0 .. MaxConnections
    /\ connection' = "closing"
    /\ UNCHANGED <<events, requests, session, left>>

DropRequests ==
    /\ connection = "closing"
    /\ unsent = 0
    /\ requests' = 0
    /\ connection' = "dropping"
    /\ UNCHANGED <<events, session, unsent, left>>

SendDropped ==
    /\ connection = "dropping"
    /\ events < EventBufferSize
    /\ events' = events + 1
    /\ connection' = "stopped"
    /\ UNCHANGED <<requests, session, unsent, left>>

-----------------------------------------------------------------------------
(* The session task.                                                       *)

\* On the server a pong to one player or a voice packet to the others.
HandleConnectionEvent ==
    /\ session = "select"
    /\ events > (IF connection = "stopped" THEN 1 ELSE 0)
    /\ events' = events - 1
    /\ left' \in 0 .. MaxRequests
    /\ session' = "sending"
    /\ UNCHANGED <<requests, connection, unsent>>

\* Nothing comes after Dropped.
HandleDropped ==
    /\ session = "select"
    /\ connection = "stopped"
    /\ events = 1
    /\ events' = 0
    /\ session' = "stopped"
    /\ UNCHANGED <<requests, connection, unsent, left>>

PollEvents ==
    /\ session = "select"
    /\ events = 0
    /\ session' = "polled"
    /\ UNCHANGED <<events, requests, connection, unsent, left>>

\* On the server an assignment to one player, or a tick and a snapshot to each
\* of them; on a client a ping, or what the game asks to be sent.
HandleOther ==
    /\ session = "polled"
    /\ left' \in 0 .. MaxRequests
    /\ session' = "sending"
    /\ UNCHANGED <<events, requests, connection, unsent>>

\* Mutant of SendGameData: the handler does not move on to the next player.
SendGameDataAgain ==
    /\ session = "sending"
    /\ left > 0
    /\ requests < RequestBufferSize
    /\ requests' = requests + 1
    /\ UNCHANGED <<events, connection, session, unsent, left>>

\* To a task that has dropped its requests nothing is sent, and that is no
\* reason to wait.
RequestsDropped == connection \in {"dropping", "stopped"}

SendGameData ==
    /\ session = "sending"
    /\ left > 0
    /\ \/ RequestsDropped /\ UNCHANGED requests
       \/ ~ RequestsDropped /\ requests < RequestBufferSize /\ requests' = requests + 1
    /\ left' = left - 1
    /\ UNCHANGED <<events, connection, session, unsent>>

FinishHandler ==
    /\ session = "sending"
    /\ left = 0
    /\ session' = "select"
    /\ UNCHANGED <<events, requests, connection, unsent, left>>

-----------------------------------------------------------------------------
ConnectionStep ==
    \/ HandleRequest \/ PollRequests \/ HandleSocketOrTimer
    \/ SendEvent \/ FinishSocketOrTimer
    \/ HandleCancelled \/ DropRequests \/ SendDropped

SessionStep ==
    \/ HandleConnectionEvent \/ HandleDropped \/ PollEvents \/ HandleOther
    \/ SendGameData \/ FinishHandler

PipesNext == ConnectionStep \/ SessionStep

PipesSpec == PipesInit /\ [][PipesNext]_pipesVars

-----------------------------------------------------------------------------
PipesTypeOK ==
    /\ events \in 0 .. EventBufferSize
    /\ requests \in 0 .. RequestBufferSize
    /\ connection \in Place
    /\ session \in {"select", "polled", "sending", "stopped"}
    /\ unsent \in 0 .. (IF connection = "closing" THEN MaxConnections ELSE MaxEvents)
    /\ left \in 0 .. MaxRequests

ConnectionWaits ==
    /\ events = EventBufferSize
    /\ \/ connection \in {"sending", "closing"} /\ unsent > 0
       \/ connection = "dropping"

SessionWaits ==
    /\ session = "sending" /\ left > 0
    /\ ~ RequestsDropped /\ requests = RequestBufferSize

\* The tasks never wait for each other's channel to drain: the connection task
\* polls the requests before each handler (the biased selects), and what the
\* session task can send until the handler is done fits the channel.  When
\* the connection task closes it does not poll them again, and then it takes
\* few connections for that.
NoDeadlock == ~ (ConnectionWaits /\ SessionWaits)
=============================================================================
