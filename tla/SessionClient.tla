--------------------------- MODULE SessionClient ---------------------------
(***************************************************************************)
(* dungeon-vr-session-client, between a connection client, whose events    *)
(* are what ClientEventStream promises, and the game's main loop, which    *)
(* takes session events and makes requests without ever waiting.           *)
(*                                                                         *)
(* The select is biased: cancellation, then the connection's events, then  *)
(* the ping timer, then requests.  A poll that finds no cancellation and   *)
(* no event is a step of its own, since other threads go on between the    *)
(* branches.  A handler that sends to the game waits for room, and does    *)
(* not wait if the game has dropped its end.  Requests that the session    *)
(* client passes on to the connection are left out.  The ping timer may    *)
(* fire at any time; what a packet of game data is, is decided when it is  *)
(* taken: the network loses, repeats and reorders them.                    *)
(***************************************************************************)
EXTENDS ClientEventStream

CONSTANTS
    GameBufferSize,      \* EVENT_BUFFER_SIZE of the session client
    RequestBufferSize,   \* REQUEST_BUFFER_SIZE
    PingSamples          \* PING_SAMPLES

ASSUME SessionClientAssumption ==
    /\ GameBufferSize \in Nat \ {0}
    /\ RequestBufferSize \in Nat \ {0}
    /\ PingSamples \in Nat \ {0}

VARIABLES
    place,         \* its task: loop, polled, draining, spinning, done, panicked
    state,         \* AwaitingConnection, MeasuringPing, Running
    measured,      \* what it has collected while it measures: see NothingMeasured
    is_cancelled,  \* its cancellation token
    toGame,        \* session events the game has not taken
    requests,      \* requests it has not taken: how many
    game,          \* the game's main loop: offline, online, leaving, gone
    panics         \* the assertions and unwraps that have failed

sessionVars == <<place, state, measured, is_cancelled, toGame, requests, game, panics>>
vars == <<streamVars, sessionVars>>

\* rtt_samples, local_player_id and the rest of State::MeasuringPing.
NothingMeasured == [pinged |-> FALSE, pongs |-> 0, assigned |-> FALSE]

Init ==
    /\ StreamInit
    /\ place = "loop"
    /\ state = "AwaitingConnection"
    /\ measured = NothingMeasured
    /\ is_cancelled = FALSE
    /\ toGame = <<>>
    /\ requests = 0
    /\ game = "offline"
    /\ panics = {}

-----------------------------------------------------------------------------
Goes(from, to) == place = from /\ place' = to

\* The task ends; the ends of its channels are dropped.
Panics(why) ==
    /\ place' = "panicked"
    /\ panics' = panics \cup {why}
    /\ UNCHANGED <<state, measured, is_cancelled, toGame>>

SendEvent(event) ==
    IF game = "gone"
      THEN UNCHANGED toGame
      ELSE Len(toGame) < GameBufferSize /\ toGame' = Append(toGame, event)

-----------------------------------------------------------------------------
(* The connection's events.                                                *)

Takes(what) == events # <<>> /\ Head(events) = what /\ events' = Tail(events)

HandleDisconnected ==
    /\ Takes("Disconnected")
    /\ is_cancelled' = TRUE
    /\ UNCHANGED <<place, state, measured, toGame, panics>>

HandleResponding ==
    Takes("Responding") /\ UNCHANGED <<place, state, measured, is_cancelled, toGame, panics>>

HandleConnected ==
    /\ Takes("Connected")
    /\ IF state # "AwaitingConnection"
         THEN Panics("AwaitingConnection")
         ELSE /\ state' = "MeasuringPing"
              /\ measured' = NothingMeasured
              /\ UNCHANGED <<place, is_cancelled, toGame, panics>>

\* A pong answers a ping of this session; a duplicate counts like the first.
HandlePong ==
    /\ Takes("GameData")
    /\ state = "MeasuringPing"
    /\ measured.pinged
    /\ measured' = [measured EXCEPT !.pongs = IF @ < PingSamples THEN @ + 1 ELSE @]
    /\ UNCHANGED <<place, state, is_cancelled, toGame, panics>>

HandlePlayerAssignment ==
    /\ Takes("GameData")
    /\ state = "MeasuringPing"
    /\ measured' = [measured EXCEPT !.assigned = TRUE]
    /\ UNCHANGED <<place, state, is_cancelled, toGame, panics>>

\* Mutant of HandleGameState: snapshots are passed on in every state.
EarlyGameState ==
    /\ Takes("GameData")
    /\ SendEvent("Snapshot")
    /\ UNCHANGED <<place, state, measured, is_cancelled, panics>>

HandleGameState ==
    /\ Takes("GameData")
    /\ state = "Running"
    /\ SendEvent("Snapshot")
    /\ UNCHANGED <<place, state, measured, is_cancelled, panics>>

HandleVoice ==
    /\ Takes("GameData")
    /\ SendEvent("Voice")
    /\ UNCHANGED <<place, state, measured, is_cancelled, panics>>

\* A packet that does not decode, or that this state does not expect.
DropPacket ==
    Takes("GameData") /\ UNCHANGED <<place, state, measured, is_cancelled, toGame, panics>>

\* Dropped is a todo!(); None, from a closed channel, is unwrapped.
HandleDropped ==
    IF events = <<>>
      THEN phase = "Stopped" /\ Panics("event") /\ UNCHANGED events
      ELSE Takes("Dropped") /\ Panics("Dropped")

HandleConnectionEvent ==
    /\ place = "loop"
    /\ ~ is_cancelled
    /\ \/ HandleDisconnected \/ HandleResponding \/ HandleConnected
       \/ HandlePong \/ HandlePlayerAssignment \/ HandleGameState \/ HandleVoice
       \/ DropPacket \/ HandleDropped
    /\ UNCHANGED <<requests, game>>

-----------------------------------------------------------------------------
(* The other branches, after a poll that found no event.                   *)

PollEvents ==
    /\ ~ is_cancelled /\ events = <<>> /\ phase # "Stopped"
    /\ Goes("loop", "polled")
    /\ UNCHANGED <<events, state, measured, is_cancelled, toGame, requests, game, panics>>

NothingReady ==
    /\ Goes("polled", "loop")
    /\ UNCHANGED <<events, state, measured, is_cancelled, toGame, requests, game, panics>>

\* Enough samples start the session; the player ID is unwrapped.
HandlePingElapsed ==
    /\ place = "polled"
    /\ state = "MeasuringPing"
    /\ IF measured.pongs < PingSamples
         THEN /\ measured' = [measured EXCEPT !.pinged = TRUE]
              /\ place' = "loop"
              /\ UNCHANGED <<state, is_cancelled, toGame, panics>>
       ELSE IF ~ measured.assigned
         THEN Panics("local_player_id")
       ELSE /\ SendEvent("Start")
            /\ state' = "Running"
            /\ place' = "loop"
            /\ UNCHANGED <<measured, is_cancelled, panics>>
    /\ UNCHANGED <<events, requests, game>>

HandleRequest ==
    /\ requests > 0
    /\ requests' = requests - 1
    /\ Goes("polled", "loop")
    /\ UNCHANGED <<events, state, measured, is_cancelled, toGame, game, panics>>

\* The game's end is gone: None, which is unwrapped.
HandleRequestsClosed ==
    /\ place = "polled"
    /\ requests = 0 /\ game = "gone"
    /\ Panics("request")
    /\ UNCHANGED <<events, requests, game>>

-----------------------------------------------------------------------------
(* The end of the task.                                                    *)

LeaveLoop ==
    /\ is_cancelled
    /\ Goes("loop", "draining")
    /\ UNCHANGED <<events, state, measured, is_cancelled, toGame, requests, game, panics>>

\* Mutant of Drain: Dropped is an event like the others.
DrainOn ==
    /\ IF events = <<>>
         THEN phase = "Stopped" /\ Goes("draining", "spinning") /\ UNCHANGED events
         ELSE events' = Tail(events) /\ Goes("draining", "draining")
    /\ UNCHANGED <<state, measured, is_cancelled, toGame, requests, game, panics>>

\* Wait for the connection to drop.  On a closed channel recv returns None
\* for ever: the loop logs an error and does not end.
Drain ==
    /\ IF events = <<>>
         THEN phase = "Stopped" /\ Goes("draining", "spinning") /\ UNCHANGED events
         ELSE /\ events' = Tail(events)
              /\ Goes("draining", IF Head(events) = "Dropped" THEN "done" ELSE "draining")
    /\ UNCHANGED <<state, measured, is_cancelled, toGame, requests, game, panics>>

Session ==
    /\ \/ HandleConnectionEvent \/ PollEvents \/ NothingReady
       \/ HandlePingElapsed \/ HandleRequest \/ HandleRequestsClosed
       \/ LeaveLoop \/ Drain
    /\ UNCHANGED <<stage, armed, phase>>

-----------------------------------------------------------------------------
(* The game's main loop.                                                   *)

Playing == game \in {"offline", "online"}

\* A panic in the main loop unwinds through the SessionClient's destructor.
Crashes(why) == game' = "leaving" /\ panics' = panics \cup {why} /\ is_cancelled' = TRUE

\* One session event: start_net_session and handle_snapshot rely on the
\* order in which they come.
GameTakes ==
    /\ Playing
    /\ toGame # <<>>
    /\ toGame' = Tail(toGame)
    /\ IF Head(toGame) = "Start" /\ game = "online"
         THEN Crashes("net.is_none()")
       ELSE IF Head(toGame) = "Snapshot" /\ game = "offline"
         THEN Crashes("net")
       ELSE /\ game' = IF Head(toGame) = "Start" THEN "online" ELSE game
            /\ UNCHANGED <<panics, is_cancelled>>
    /\ UNCHANGED <<place, state, measured, requests>>

\* Every frame commits actions, started or not; try_send_request is unwrapped.
GameSends ==
    /\ Playing
    /\ IF place \in {"done", "panicked"} \/ requests = RequestBufferSize
         THEN Crashes("try_send_request") /\ UNCHANGED requests
         ELSE requests' = requests + 1 /\ UNCHANGED <<game, panics, is_cancelled>>
    /\ UNCHANGED <<place, state, measured, toGame>>

\* The destructor of SessionClient: the guard first, then the channels.
GameLeaves ==
    /\ Playing
    /\ game' = "leaving"
    /\ is_cancelled' = TRUE
    /\ UNCHANGED <<place, state, measured, toGame, requests, panics>>

GameIsGone ==
    /\ game = "leaving"
    /\ game' = "gone"
    /\ toGame' = <<>>
    /\ UNCHANGED <<place, state, measured, is_cancelled, requests, panics>>

GameStep == (GameTakes \/ GameSends \/ GameLeaves \/ GameIsGone) /\ UNCHANGED streamVars

-----------------------------------------------------------------------------
\* The connection client, which is not restarted under a session.
Connection ==
    /\ \/ Challenged \/ Confirmed \/ Received \/ Refused \/ TimedOut \/ Cancelled \/ Ended
    /\ UNCHANGED sessionVars

Next == Connection \/ Session \/ GameStep

Spec == Init /\ [][Next]_vars

-----------------------------------------------------------------------------
\* Of the assertions and unwraps of the session client and of the game's
\* handlers of its events only four can fail; in particular the session
\* starts once and before any snapshot reaches the game, Connected comes
\* once, and the event channel is not closed under the loop.
OnlyKnownPanics ==
    panics \subseteq {"local_player_id", "try_send_request", "request", "Dropped"}

-----------------------------------------------------------------------------
(* What the code's own unwraps and comments say, and is not so.            *)

\* The session starts with a player ID: the server tells it "repeatedly"
\* (handle_connection_state of the session server), and ten pongs later
\* handle_state_event unwraps it.
StartHasPlayerId == "local_player_id" \notin panics

-----------------------------------------------------------------------------
\* The task is polled, and the game takes events while it runs frames and
\* finishes its destructor.
FairSpec ==
    /\ Spec
    /\ WF_vars(Session /\ place' # place)
    /\ WF_vars(Session /\ events' # events)
    /\ WF_vars(GameTakes /\ UNCHANGED streamVars)
    /\ WF_vars(GameIsGone /\ UNCHANGED streamVars)

\* Once the connection has reported Dropped, a session that was disconnected
\* or left by the game ends.
SessionEnds ==
    is_cancelled /\ phase = "Stopped" ~> place \in {"done", "panicked"}
=============================================================================
