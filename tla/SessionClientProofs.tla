------------------------ MODULE SessionClientProofs ------------------------
(***************************************************************************)
(* Of the unwraps and assertions of the session client and of the game's   *)
(* handlers of its events only four can fail, for every size of the        *)
(* channels and every number of ping samples.                              *)
(*                                                                         *)
(* The handlers rely on the order in which their events come, and the      *)
(* order is in two queues.  The invariant says of every event in a queue   *)
(* where it may stand and what is then true at both ends: of Connected,    *)
(* that the session client still awaits it; of Dropped, that it is last    *)
(* and that a stopped connection has sent it; of Start, that it is the     *)
(* only one and comes before every snapshot.                               *)
(***************************************************************************)
EXTENDS SessionClient, TLAPS

-----------------------------------------------------------------------------
(* The inductive invariant.                                                *)

\* What the two channels may hold.
ConnectionEvent == {"Responding", "Connected", "GameData", "Disconnected", "Dropped"}
SessionEvent == {"Start", "Snapshot", "Voice"}

StreamOK ==
    /\ stage \in {"Connecting", "Responding", "Connected", "Disconnected"}
    /\ phase \in {"Running", "Exiting", "Stopped"}
    /\ events \in Seq(ConnectionEvent)

\* The task never spins on a closed channel.
SessionOK ==
    /\ place \in {"loop", "polled", "draining", "done", "panicked"}
    /\ state \in {"AwaitingConnection", "MeasuringPing", "Running"}
    /\ toGame \in Seq(SessionEvent)
    /\ game \in {"offline", "online", "leaving", "gone"}

\* Connected is announced once, and the session client awaits it until it
\* takes it.
ConnectedOnce ==
    /\ stage \in {"Connecting", "Responding"} => state = "AwaitingConnection"
    /\ \A i \in 1 .. Len(events) : events[i] = "Connected" =>
          /\ stage \in {"Connected", "Disconnected"}
          /\ state = "AwaitingConnection"
          /\ \A j \in 1 .. Len(events) : events[j] = "Connected" => j = i

\* Dropped is the last event, and waits in the channel of a stopped
\* connection until the session client's task ends.
DroppedLast ==
    /\ \A i \in 1 .. Len(events) :
          events[i] = "Dropped" => phase = "Stopped" /\ i = Len(events)
    /\ phase = "Stopped" /\ place \in {"loop", "polled", "draining"} =>
          events # <<>> /\ events[Len(events)] = "Dropped"

\* The session is started once, and before any snapshot.
StartedFirst ==
    /\ game = "online" => state = "Running"
    /\ state = "Running" /\ game = "offline" =>
          \E i \in 1 .. Len(toGame) : toGame[i] = "Start"
    /\ \A i \in 1 .. Len(toGame) : toGame[i] = "Start" =>
          /\ state = "Running" /\ game # "online"
          /\ \A j \in 1 .. Len(toGame) : toGame[j] = "Start" => j = i
    /\ \A i \in 1 .. Len(toGame) : toGame[i] = "Snapshot" =>
          /\ state = "Running"
          /\ game = "offline" => \E j \in 1 .. (i - 1) : toGame[j] = "Start"

SessionClientInv ==
    StreamOK /\ SessionOK /\ ConnectedOnce /\ DroppedLast /\ StartedFirst /\ OnlyKnownPanics

-----------------------------------------------------------------------------
(* Queues.                                                                 *)

\* What is sent stands behind what waits.
LEMMA Appended ==
  ASSUME NEW S, NEW s \in Seq(S), NEW t \in Seq(S)
  PROVE  /\ s \o t \in Seq(S)
         /\ Len(s) \in Nat /\ Len(t) \in Nat
         /\ Len(s \o t) = Len(s) + Len(t)
         /\ \A i \in 1 .. Len(s) : (s \o t)[i] = s[i]
         /\ \A i \in 1 .. Len(t) : (s \o t)[Len(s) + i] = t[i]
  OBVIOUS

\* When the first event is taken the others move up.
LEMMA MovedUp ==
  ASSUME NEW S, NEW s \in Seq(S), s # <<>>
  PROVE  /\ Tail(s) \in Seq(S)
         /\ Len(s) \in Nat \ {0}
         /\ Head(s) = s[1]
         /\ Len(Tail(s)) = Len(s) - 1
         /\ \A i \in 1 .. Len(Tail(s)) : Tail(s)[i] = s[i + 1]
  OBVIOUS

-----------------------------------------------------------------------------
(* The connection's end of its channel.                                    *)

\* The parts of the invariant that are about the connection's events.
StreamInv == StreamOK /\ ConnectedOnce /\ DroppedLast

\* An announcement that is neither Connected nor Dropped.
LEMMA AnnouncedOther ==
  ASSUME SessionClientInv, NEW e \in {"Responding", "GameData", "Disconnected"},
         events' = events \o <<e>>, phase # "Stopped", phase' \in {"Running", "Exiting"},
         \/ stage' = stage
         \/ stage' = "Disconnected"
         \/ stage' = "Responding" /\ stage = "Connecting",
         UNCHANGED <<state, place>>
  PROVE  StreamInv'
<1>1. events \in Seq(ConnectionEvent) /\ <<e>> \in Seq(ConnectionEvent)
  BY DEF SessionClientInv, StreamOK, ConnectionEvent
<1>2. /\ events' \in Seq(ConnectionEvent)
      /\ Len(events) \in Nat /\ Len(events') = Len(events) + 1
      /\ \A i \in 1 .. Len(events) : events'[i] = events[i]
      /\ events'[Len(events) + 1] = e
  BY <1>1, Appended
<1>3. \A i \in 1 .. Len(events') : events'[i] \in {"Connected", "Dropped"} =>
         i \in 1 .. Len(events) /\ events'[i] = events[i]
  BY <1>2
<1>4. StreamOK'
  BY <1>2 DEF SessionClientInv, StreamOK
<1>5. ConnectedOnce'
  BY <1>3 DEF SessionClientInv, StreamOK, ConnectedOnce
<1>6. DroppedLast'
  BY <1>3 DEF SessionClientInv, DroppedLast
<1> QED
  BY <1>4, <1>5, <1>6 DEF StreamInv

\* Connected is announced when it has not been, and is awaited.
LEMMA AnnouncedConnected ==
  ASSUME SessionClientInv, phase = "Running", Confirmed, UNCHANGED <<state, place>>
  PROVE  StreamInv'
<1>1. PICK t \in {<<"Connected">>, <<"Connected", "GameData">>} : events' = events \o t
  BY DEF Confirmed, Announce
<1>2. events \in Seq(ConnectionEvent) /\ t \in Seq(ConnectionEvent)
  <2>1. <<"Connected">> \in Seq(ConnectionEvent)
    BY DEF ConnectionEvent
  <2>2. <<"Connected", "GameData">> \in Seq(ConnectionEvent)
    BY DEF ConnectionEvent
  <2> QED
    BY <2>1, <2>2 DEF SessionClientInv, StreamOK
<1>3. /\ events' \in Seq(ConnectionEvent)
      /\ Len(events) \in Nat /\ Len(t) \in {1, 2} /\ Len(events') = Len(events) + Len(t)
      /\ \A i \in 1 .. Len(events) : events'[i] = events[i]
      /\ \A i \in 1 .. Len(t) : events'[Len(events) + i] = t[i]
  BY <1>1, <1>2, Appended
<1>4. \A i \in 1 .. Len(t) : t[i] # "Dropped" /\ (t[i] = "Connected" <=> i = 1)
  OBVIOUS
<1>5. \A i \in 1 .. Len(events') :
         i \in 1 .. Len(events) \/ (i - Len(events) \in 1 .. Len(t)
                                      /\ events'[i] = t[i - Len(events)])
  BY <1>3
<1>6. \A i \in 1 .. Len(events) : events[i] \notin {"Connected", "Dropped"}
  BY DEF Confirmed, SessionClientInv, ConnectedOnce, DroppedLast
<1>7. \A i \in 1 .. Len(events') :
         events'[i] # "Dropped" /\ (events'[i] = "Connected" <=> i = Len(events) + 1)
  BY <1>3, <1>4, <1>5, <1>6
<1>8. StreamOK'
  BY <1>3 DEF Confirmed, StreamOK
<1>9. ConnectedOnce'
  BY <1>7 DEF Confirmed, SessionClientInv, ConnectedOnce
<1>10. DroppedLast'
  BY <1>7 DEF Confirmed, DroppedLast
<1> QED
  BY <1>8, <1>9, <1>10 DEF StreamInv

\* Dropped is the last thing the connection announces.
LEMMA AnnouncedDropped ==
  ASSUME SessionClientInv, Ended, UNCHANGED <<state, place>>
  PROVE  StreamInv'
<1>1. events \in Seq(ConnectionEvent) /\ <<"Dropped">> \in Seq(ConnectionEvent)
  BY DEF SessionClientInv, StreamOK, ConnectionEvent
<1>2. /\ events' \in Seq(ConnectionEvent)
      /\ Len(events) \in Nat /\ Len(events') = Len(events) + 1
      /\ \A i \in 1 .. Len(events) : events'[i] = events[i]
      /\ events'[Len(events')] = "Dropped"
  BY <1>1, Appended DEF Ended, Announce
<1>3. StreamOK'
  BY <1>2 DEF Ended, StreamOK
<1>4. ConnectedOnce'
  BY <1>2 DEF Ended, SessionClientInv, StreamOK, ConnectedOnce
<1>5. DroppedLast'
  BY <1>2 DEF Ended, SessionClientInv, DroppedLast
<1> QED
  BY <1>3, <1>4, <1>5 DEF StreamInv

\* Where the connection neither announces nor ends, and the session client
\* takes nothing, the channel stays as it was.
LEMMA NothingTaken ==
  ASSUME SessionClientInv, UNCHANGED events, phase' \in {phase, "Exiting"},
         phase' = "Exiting" => phase \in {"Running", "Exiting"},
         UNCHANGED stage, state' = state \/ state # "AwaitingConnection",
         place' \in {"loop", "polled", "draining"} => place \in {"loop", "polled", "draining"}
  PROVE  StreamInv'
<1>1. StreamOK'
  BY DEF SessionClientInv, StreamOK
<1>2. ConnectedOnce'
  BY DEF SessionClientInv, StreamOK, ConnectedOnce
<1>3. DroppedLast'
  BY DEF SessionClientInv, DroppedLast
<1> QED
  BY <1>1, <1>2, <1>3 DEF StreamInv

\* The session client takes Connected where it awaits it, and ends when it
\* takes Dropped.
LEMMA EventTaken ==
  ASSUME SessionClientInv, events # <<>>, events' = Tail(events),
         UNCHANGED <<stage, phase>>,
         state' = state \/ Head(events) = "Connected",
         place \in {"loop", "draining"},
         Head(events) = "Dropped" => place' \in {"done", "panicked"}
  PROVE  StreamInv'
<1>1. /\ events' \in Seq(ConnectionEvent)
      /\ Len(events) \in Nat \ {0} /\ Len(events') = Len(events) - 1
      /\ Head(events) = events[1]
      /\ \A i \in 1 .. Len(events') : events'[i] = events[i + 1] /\ i + 1 \in 1 .. Len(events)
  BY MovedUp DEF SessionClientInv, StreamOK
<1>2. StreamOK'
  BY <1>1 DEF SessionClientInv, StreamOK
<1>3. ConnectedOnce'
  <2>1. Head(events) = "Connected" =>
           /\ stage \in {"Connected", "Disconnected"}
           /\ \A i \in 1 .. Len(events') : events'[i] # "Connected"
    BY <1>1 DEF SessionClientInv, ConnectedOnce
  <2>2. \A i, j \in 1 .. Len(events') :
           events'[i] = "Connected" /\ events'[j] = "Connected" => i = j
    BY <1>1 DEF SessionClientInv, ConnectedOnce
  <2> QED
    BY <1>1, <2>1, <2>2 DEF SessionClientInv, ConnectedOnce
<1>4. DroppedLast'
  <2>1. phase = "Stopped" /\ Head(events) # "Dropped" =>
           events' # <<>> /\ events'[Len(events')] = "Dropped"
    <3> SUFFICES ASSUME phase = "Stopped", Head(events) # "Dropped"
                 PROVE  events' # <<>> /\ events'[Len(events')] = "Dropped"
      OBVIOUS
    <3>1. events[Len(events)] = "Dropped"
      BY DEF SessionClientInv, DroppedLast
    <3>2. Len(events') \in 1 .. Len(events') /\ Len(events') + 1 = Len(events)
      BY <1>1, <3>1
    <3>3. events'[Len(events')] = events[Len(events)]
      BY <1>1, <3>2
    <3> QED
      BY <3>1, <3>2, <3>3
  <2>2. \A i \in 1 .. Len(events') :
           events'[i] = "Dropped" => phase = "Stopped" /\ i + 1 = Len(events)
    BY <1>1 DEF SessionClientInv, DroppedLast
  <2>3. \A i \in 1 .. Len(events') : events'[i] = "Dropped" => i = Len(events')
    <3>1. Len(events) \in Nat /\ Len(events') = Len(events) - 1
      BY <1>1
    <3>2. \A n, m, i \in Nat : m = n - 1 /\ i + 1 = n => i = m
      OBVIOUS
    <3>3. Len(events') \in Nat /\ \A i \in 1 .. Len(events') : i \in Nat
      BY <1>1
    <3> QED
      BY <2>2, <3>1, <3>2, <3>3
  <2>4. phase = "Stopped" /\ place' \in {"loop", "polled", "draining"} =>
           events' # <<>> /\ events'[Len(events')] = "Dropped"
    BY <2>1
  <2> QED
    BY <2>2, <2>3, <2>4 DEF DroppedLast
<1> QED
  BY <1>2, <1>3, <1>4 DEF StreamInv

-----------------------------------------------------------------------------
(* The channel to the game.                                                *)

\* The parts of the invariant that are about the session's events.
GameInv ==
    /\ toGame \in Seq(SessionEvent)
    /\ game \in {"offline", "online", "leaving", "gone"}
    /\ StartedFirst

\* Snapshots are sent when the session has started.
LEMMA OtherSent ==
  ASSUME SessionClientInv, NEW e \in {"Snapshot", "Voice"}, SendEvent(e),
         e = "Snapshot" => state = "Running", UNCHANGED <<state, game>>
  PROVE  GameInv'
<1>1. toGame \in Seq(SessionEvent) /\ <<e>> \in Seq(SessionEvent)
  BY DEF SessionClientInv, SessionOK, SessionEvent
<1>2. CASE UNCHANGED toGame
  BY <1>1, <1>2 DEF SessionClientInv, SessionOK, StartedFirst, GameInv
<1>3. CASE toGame' = toGame \o <<e>>
  <2>1. /\ toGame' \in Seq(SessionEvent)
        /\ Len(toGame) \in Nat /\ Len(toGame') = Len(toGame) + 1
        /\ \A i \in 1 .. Len(toGame) : toGame'[i] = toGame[i]
        /\ toGame'[Len(toGame) + 1] = e
    BY <1>1, <1>3, Appended
  <2>2. \A i \in 1 .. Len(toGame') :
           \/ i \in 1 .. Len(toGame) /\ toGame'[i] = toGame[i]
           \/ i = Len(toGame) + 1 /\ toGame'[i] = e
    BY <2>1
  <2>3. \A i \in 1 .. Len(toGame) : i \in 1 .. Len(toGame')
    BY <2>1
  <2>4. StartedFirst'
    <3>1. \A i \in 1 .. Len(toGame') : toGame'[i] = "Start" =>
             i \in 1 .. Len(toGame) /\ toGame[i] = "Start"
      BY <2>2
    <3>2. state' = "Running" /\ game' = "offline" =>
             \E i \in 1 .. Len(toGame) : toGame[i] = "Start" /\ toGame'[i] = "Start"
      BY <2>1 DEF SessionClientInv, StartedFirst
    <3>3. ASSUME NEW i \in 1 .. Len(toGame'), toGame'[i] = "Snapshot"
          PROVE  /\ state' = "Running"
                 /\ game' = "offline" => \E j \in 1 .. (i - 1) : toGame'[j] = "Start"
      <4>1. CASE i \in 1 .. Len(toGame) /\ toGame[i] = "Snapshot"
        <5>1. \A j \in 1 .. (i - 1) : j \in 1 .. Len(toGame)
          BY <2>1, <4>1
        <5> QED
          BY <2>1, <4>1, <5>1 DEF SessionClientInv, StartedFirst
      <4>2. CASE i = Len(toGame) + 1 /\ e = "Snapshot"
        <5>1. i - 1 = Len(toGame)
          BY <2>1, <4>2
        <5> QED
          BY <3>2, <4>2, <5>1
      <4> QED
        BY <2>2, <3>3, <4>1, <4>2
    <3> QED
      BY <2>3, <3>1, <3>2, <3>3 DEF SessionClientInv, StartedFirst
  <2> QED
    BY <2>1, <2>4 DEF GameInv, SessionClientInv, SessionOK
<1> QED
  BY <1>1, <1>2, <1>3 DEF SendEvent

\* The session starts once: no session event but Voice was sent before.
LEMMA StartSent ==
  ASSUME SessionClientInv, SendEvent("Start"), state # "Running", state' = "Running",
         UNCHANGED game
  PROVE  GameInv'
<1>1. toGame \in Seq(SessionEvent) /\ <<"Start">> \in Seq(SessionEvent)
  BY DEF SessionClientInv, SessionOK, SessionEvent
<1>2. \A i \in 1 .. Len(toGame) : toGame[i] \notin {"Start", "Snapshot"}
  BY DEF SessionClientInv, StartedFirst
<1>3. game # "online"
  BY DEF SessionClientInv, StartedFirst
<1>4. CASE game = "gone" /\ UNCHANGED toGame
  BY <1>1, <1>2, <1>4 DEF StartedFirst, GameInv
<1>5. CASE toGame' = toGame \o <<"Start">>
  <2>1. /\ toGame' \in Seq(SessionEvent)
        /\ Len(toGame) \in Nat /\ Len(toGame') = Len(toGame) + 1
        /\ \A i \in 1 .. Len(toGame) : toGame'[i] = toGame[i]
        /\ toGame'[Len(toGame) + 1] = "Start"
    BY <1>1, <1>5, Appended
  <2>2. \A i \in 1 .. Len(toGame') :
           /\ toGame'[i] # "Snapshot"
           /\ toGame'[i] = "Start" <=> i = Len(toGame')
    BY <1>2, <2>1
  <2>3. Len(toGame') \in 1 .. Len(toGame')
    BY <2>1
  <2> QED
    BY <1>3, <2>1, <2>2, <2>3 DEF GameInv, StartedFirst, SessionClientInv, SessionOK
<1> QED
  BY <1>1, <1>4, <1>5 DEF SendEvent

\* A step that sends nothing to the game and takes nothing there.
LEMMA NothingSent ==
  ASSUME SessionClientInv, UNCHANGED toGame,
         state' = state \/ (state # "Running" /\ state' # "Running"),
         game' \in {game, "leaving"}
  PROVE  GameInv'
  BY DEF SessionClientInv, SessionOK, StartedFirst, GameInv

\* The game finds Start before it has a session, and a snapshot only when it
\* has one.
LEMMA GameTakesInOrder ==
  ASSUME SessionClientInv, GameTakes
  PROVE  GameInv' /\ UNCHANGED panics
<1>1. /\ toGame' \in Seq(SessionEvent)
      /\ Len(toGame) \in Nat \ {0} /\ Len(toGame') = Len(toGame) - 1
      /\ Head(toGame) = toGame[1] /\ 1 \in 1 .. Len(toGame)
      /\ \A i \in 1 .. Len(toGame') :
            toGame'[i] = toGame[i + 1] /\ i + 1 \in 1 .. Len(toGame)
  BY MovedUp DEF SessionClientInv, SessionOK, GameTakes
<1>2. Head(toGame) = "Start" => game = "offline"
  BY <1>1 DEF SessionClientInv, SessionOK, StartedFirst, GameTakes, Playing
<1>3. Head(toGame) = "Snapshot" => game = "online"
  BY <1>1 DEF SessionClientInv, SessionOK, StartedFirst, GameTakes, Playing
<1>4. game' = (IF Head(toGame) = "Start" THEN "online" ELSE game) /\ UNCHANGED <<panics, state>>
  BY <1>2, <1>3 DEF GameTakes
<1>5. StartedFirst'
  <2>1. CASE Head(toGame) = "Start"
    <3>1. state = "Running" /\ game' = "online"
      BY <1>1, <1>4, <2>1 DEF SessionClientInv, StartedFirst
    <3>2. \A i \in 1 .. Len(toGame') : toGame'[i] # "Start"
      <4>1. \A i \in 1 .. Len(toGame) : toGame[i] = "Start" => i = 1
        BY <1>1, <2>1 DEF SessionClientInv, StartedFirst
      <4> QED
        BY <1>1, <4>1
    <3> QED
      BY <1>4, <3>1, <3>2 DEF StartedFirst
  <2>2. CASE Head(toGame) # "Start"
    <3>1. UNCHANGED <<game, state>>
      BY <1>4, <2>2
    <3>2. \A k \in 1 .. Len(toGame) : toGame[k] = "Start" =>
             k # 1 /\ k - 1 \in 1 .. Len(toGame') /\ toGame'[k - 1] = "Start"
      BY <1>1, <2>2
    <3>3. ASSUME NEW i \in 1 .. Len(toGame'), toGame'[i] = "Snapshot"
          PROVE  /\ state' = "Running"
                 /\ game' = "offline" => \E j \in 1 .. (i - 1) : toGame'[j] = "Start"
      <4>1. i + 1 \in 1 .. Len(toGame) /\ toGame[i + 1] = "Snapshot" /\ (i + 1) - 1 = i
        BY <1>1, <3>3
      <4>2. state = "Running"
        BY <4>1 DEF SessionClientInv, StartedFirst
      <4>3. ASSUME game = "offline"
            PROVE  \E j \in 1 .. (i - 1) : toGame'[j] = "Start"
        <5>1. PICK k \in 1 .. ((i + 1) - 1) : toGame[k] = "Start"
          BY <4>1, <4>3 DEF SessionClientInv, StartedFirst
        <5>2. k \in 1 .. Len(toGame) /\ k \in 1 .. i
          BY <1>1, <4>1, <5>1
        <5>3. k # 1 /\ toGame'[k - 1] = "Start"
          BY <3>2, <5>1, <5>2
        <5>4. k - 1 \in 1 .. (i - 1)
          BY <1>1, <5>2, <5>3
        <5> QED
          BY <5>3, <5>4
      <4> QED
        BY <3>1, <4>2, <4>3
    <3>4. \A i \in 1 .. Len(toGame') : toGame'[i] = "Start" =>
             /\ state' = "Running" /\ game' # "online"
             /\ \A j \in 1 .. Len(toGame') : toGame'[j] = "Start" => j = i
      <4>1. \A i, j \in 1 .. Len(toGame') :
               toGame[i + 1] = "Start" /\ toGame[j + 1] = "Start" => i + 1 = j + 1
        BY <1>1 DEF SessionClientInv, StartedFirst
      <4>2. \A i, j \in 1 .. Len(toGame') : i + 1 = j + 1 => i = j
        BY <1>1
      <4> QED
        BY <1>1, <3>1, <4>1, <4>2 DEF SessionClientInv, StartedFirst
    <3>5. state' = "Running" /\ game' = "offline" =>
             \E i \in 1 .. Len(toGame') : toGame'[i] = "Start"
      BY <3>1, <3>2 DEF SessionClientInv, StartedFirst
    <3> QED
      BY <3>1, <3>3, <3>4, <3>5 DEF SessionClientInv, StartedFirst
  <2> QED
    BY <2>1, <2>2
<1> QED
  BY <1>1, <1>4, <1>5 DEF GameInv, SessionClientInv, SessionOK

-----------------------------------------------------------------------------
(* Every step keeps the invariant.                                         *)

\* The invariant, by the two channels.
LEMMA InvParts ==
  ASSUME StreamInv', GameInv', OnlyKnownPanics',
         place' \in {"loop", "polled", "draining", "done", "panicked"},
         state' \in {"AwaitingConnection", "MeasuringPing", "Running"}
  PROVE  SessionClientInv'
  BY DEF StreamInv, GameInv, SessionOK, SessionClientInv

\* The connection announces, stops or is cancelled.
LEMMA ConnectionKeepsInv ==
  ASSUME SessionClientInv, Connection
  PROVE  SessionClientInv'
<1>1. UNCHANGED <<place, state, toGame, game, panics>>
  BY DEF Connection, sessionVars
<1>2. StreamInv'
  <2>1. CASE Challenged
    BY <1>1, <2>1, AnnouncedOther DEF Challenged, Announce
  <2>2. CASE Confirmed
    BY <1>1, <2>2, AnnouncedConnected DEF Confirmed
  <2>3. CASE Received
    BY <1>1, <2>3, AnnouncedOther DEF Received, Announce
  <2>4. CASE Refused
    BY <1>1, <2>4, AnnouncedOther DEF Refused, Announce
  <2>5. CASE TimedOut
    BY <1>1, <2>5, AnnouncedOther DEF TimedOut, Announce
  <2>6. CASE Cancelled /\ UNCHANGED events
    BY <1>1, <2>6, NothingTaken DEF Cancelled
  <2>7. CASE Cancelled /\ Announce(<<"Disconnected">>)
    <3>1. events' = events \o <<"Disconnected">> /\ UNCHANGED stage
             /\ phase = "Running" /\ phase' = "Exiting"
      BY <2>7 DEF Cancelled, Announce
    <3> QED
      BY <1>1, <3>1, AnnouncedOther
  <2>8. CASE Ended
    BY <1>1, <2>8, AnnouncedDropped
  <2> QED
    BY <2>1, <2>2, <2>3, <2>4, <2>5, <2>6, <2>7, <2>8 DEF Connection, Cancelled
<1>3. GameInv'
  BY <1>1, NothingSent
<1> QED
  BY <1>1, <1>2, <1>3, InvParts DEF SessionClientInv, SessionOK, OnlyKnownPanics

\* The session client handles an event of the connection: Connected finds it
\* waiting, and Dropped ends it before the channel is closed.
LEMMA ConnectionEventKeepsInv ==
  ASSUME SessionClientInv, HandleConnectionEvent, UNCHANGED <<stage, phase>>
  PROVE  SessionClientInv'
<1>1. place = "loop" /\ UNCHANGED game
  BY DEF HandleConnectionEvent
<1>2. state \in {"AwaitingConnection", "MeasuringPing", "Running"}
  BY DEF SessionClientInv, SessionOK
<1>3. OnlyKnownPanics
  BY DEF SessionClientInv
<1>4. ASSUME NEW e \in {"Disconnected", "Responding"}, Takes(e),
             UNCHANGED <<place, state, toGame, panics>>
      PROVE  SessionClientInv'
  BY <1>1, <1>2, <1>3, <1>4, EventTaken, NothingSent, InvParts DEF Takes, OnlyKnownPanics
<1>5. CASE HandleConnected
  <2>1. state = "AwaitingConnection"
    <3>1. events \in Seq(ConnectionEvent) /\ events # <<>> /\ Head(events) = "Connected"
      BY <1>5 DEF HandleConnected, Takes, SessionClientInv, StreamOK
    <3>2. 1 \in 1 .. Len(events) /\ events[1] = "Connected"
      BY <3>1, MovedUp
    <3> QED
      BY <3>2 DEF SessionClientInv, ConnectedOnce
  <2>2. Takes("Connected") /\ state' = "MeasuringPing" /\ UNCHANGED <<place, toGame, panics>>
    BY <1>5, <2>1 DEF HandleConnected
  <2>3. StreamInv'
    BY <1>1, <2>2, EventTaken DEF Takes
  <2>4. GameInv'
    BY <1>1, <2>1, <2>2, NothingSent
  <2> QED
    BY <1>1, <1>3, <2>2, <2>3, <2>4, InvParts DEF OnlyKnownPanics
<1>6. ASSUME Takes("GameData"), GameInv', UNCHANGED <<place, state, panics>>
      PROVE  SessionClientInv'
  <2>1. StreamInv'
    BY <1>1, <1>6, EventTaken DEF Takes
  <2> QED
    BY <1>1, <1>2, <1>3, <1>6, <2>1, InvParts DEF OnlyKnownPanics
<1>7. CASE HandlePong \/ HandlePlayerAssignment \/ DropPacket
  BY <1>1, <1>6, <1>7, NothingSent DEF HandlePong, HandlePlayerAssignment, DropPacket
<1>8. CASE HandleGameState
  BY <1>1, <1>6, <1>8, OtherSent DEF HandleGameState
<1>9. CASE HandleVoice
  BY <1>1, <1>6, <1>9, OtherSent DEF HandleVoice
<1>10. CASE HandleDropped
  <2>1. ~ (events = <<>> /\ phase = "Stopped")
    BY <1>1 DEF SessionClientInv, DroppedLast
  <2>2. Takes("Dropped") /\ Panics("Dropped")
    BY <1>10, <2>1 DEF HandleDropped
  <2>3. StreamInv'
    BY <1>1, <2>2, EventTaken DEF Takes, Panics
  <2>4. GameInv'
    BY <1>1, <2>2, NothingSent DEF Panics
  <2> QED
    BY <1>2, <1>3, <2>2, <2>3, <2>4, InvParts DEF Panics, OnlyKnownPanics
<1> QED
  BY <1>4, <1>5, <1>7, <1>8, <1>9, <1>10
     DEF HandleConnectionEvent, HandleDisconnected, HandleResponding

\* The other branches of the session client, and its end: the drain meets
\* Dropped before the channel is closed.
LEMMA SessionKeepsInv ==
  ASSUME SessionClientInv, Session
  PROVE  SessionClientInv'
<1>1. UNCHANGED <<stage, phase>>
  BY DEF Session
<1>2. /\ place \in {"loop", "polled", "draining", "done", "panicked"}
      /\ state \in {"AwaitingConnection", "MeasuringPing", "Running"}
      /\ OnlyKnownPanics
  BY DEF SessionClientInv, SessionOK
<1>3. ASSUME UNCHANGED <<events, state, toGame, game>>,
             place \in {"loop", "polled"},
             place' \in {"loop", "polled", "draining", "panicked"}, OnlyKnownPanics'
      PROVE  SessionClientInv'
  BY <1>1, <1>2, <1>3, NothingTaken, NothingSent, InvParts
<1>4. CASE PollEvents \/ NothingReady \/ HandleRequest \/ LeaveLoop
  BY <1>2, <1>3, <1>4
     DEF PollEvents, NothingReady, HandleRequest, LeaveLoop, Goes, OnlyKnownPanics
<1>5. CASE HandleRequestsClosed
  BY <1>2, <1>3, <1>5 DEF HandleRequestsClosed, Panics, OnlyKnownPanics
<1>6. CASE HandlePingElapsed
  <2>1. CASE measured.pongs < PingSamples
    BY <1>2, <1>3, <1>6, <2>1 DEF HandlePingElapsed, OnlyKnownPanics
  <2>2. CASE ~ (measured.pongs < PingSamples) /\ ~ measured.assigned
    BY <1>2, <1>3, <1>6, <2>2 DEF HandlePingElapsed, Panics, OnlyKnownPanics
  <2>3. CASE ~ (measured.pongs < PingSamples) /\ measured.assigned
    <3>1. /\ SendEvent("Start") /\ state = "MeasuringPing" /\ state' = "Running"
          /\ place' = "loop" /\ place = "polled" /\ UNCHANGED <<events, game, panics>>
      BY <1>6, <2>3 DEF HandlePingElapsed
    <3>2. StreamInv'
      BY <1>1, <3>1, NothingTaken
    <3>3. GameInv'
      BY <3>1, StartSent
    <3> QED
      BY <1>2, <3>1, <3>2, <3>3, InvParts DEF OnlyKnownPanics
  <2> QED
    BY <2>1, <2>2, <2>3
<1>7. CASE Drain
  <2>1. /\ place = "draining" /\ events # <<>> /\ events' = Tail(events)
        /\ place' = (IF Head(events) = "Dropped" THEN "done" ELSE "draining")
        /\ UNCHANGED <<state, toGame, game, panics>>
    BY <1>7 DEF Drain, Goes, SessionClientInv, DroppedLast
  <2>2. StreamInv'
    BY <1>1, <2>1, EventTaken
  <2>3. GameInv'
    BY <2>1, NothingSent
  <2> QED
    BY <1>2, <2>1, <2>2, <2>3, InvParts DEF OnlyKnownPanics
<1> QED
  BY <1>1, <1>4, <1>5, <1>6, <1>7, ConnectionEventKeepsInv DEF Session

\* The game takes what it can handle; a request it cannot send is one of the
\* known panics.
LEMMA GameKeepsInv ==
  ASSUME SessionClientInv, GameStep
  PROVE  SessionClientInv'
<1>1. UNCHANGED <<stage, phase, events>> /\ UNCHANGED <<place, state>>
  BY DEF GameStep, streamVars, GameTakes, GameSends, GameLeaves, GameIsGone
<1>2. StreamInv'
  BY <1>1, NothingTaken
<1>3. /\ place' \in {"loop", "polled", "draining", "done", "panicked"}
      /\ state' \in {"AwaitingConnection", "MeasuringPing", "Running"}
  BY <1>1 DEF SessionClientInv, SessionOK
<1>4. CASE GameTakes
  BY <1>2, <1>3, <1>4, GameTakesInOrder, InvParts DEF SessionClientInv, OnlyKnownPanics
<1>5. CASE GameSends \/ GameLeaves
  <2>1. GameInv'
    BY <1>1, <1>5, NothingSent DEF GameSends, GameLeaves, Crashes
  <2>2. OnlyKnownPanics'
    BY <1>5 DEF SessionClientInv, OnlyKnownPanics, GameSends, GameLeaves, Crashes
  <2> QED
    BY <1>2, <1>3, <2>1, <2>2, InvParts
<1>6. CASE GameIsGone
  <2>1. toGame' = <<>> /\ game' = "gone" /\ UNCHANGED panics
    BY <1>6 DEF GameIsGone
  <2>2. GameInv'
    BY <2>1 DEF GameInv, StartedFirst
  <2> QED
    BY <1>2, <1>3, <2>1, <2>2, InvParts DEF SessionClientInv, OnlyKnownPanics
<1> QED
  BY <1>4, <1>5, <1>6 DEF GameStep

\* The inductive invariant of the session client and the game's main loop.
THEOREM SessionClientInvariant == Spec => []SessionClientInv
<1>1. Init => SessionClientInv
  BY DEF Init, StreamInit, Fresh, SessionClientInv, StreamOK, SessionOK, ConnectedOnce,
         DroppedLast, StartedFirst, OnlyKnownPanics
<1>2. ASSUME SessionClientInv, [Next]_vars PROVE SessionClientInv'
  <2>1. CASE Next
    BY <1>2, <2>1, ConnectionKeepsInv, SessionKeepsInv, GameKeepsInv DEF Next
  <2>2. CASE UNCHANGED vars
    <3>1. UNCHANGED <<stage, phase, events, place, state, toGame, game, panics>>
      BY <2>2 DEF vars, streamVars, sessionVars
    <3> QED
      BY <1>2, <3>1, NothingTaken, NothingSent, InvParts
         DEF SessionClientInv, SessionOK, OnlyKnownPanics
  <2> QED
    BY <1>2, <2>1, <2>2
<1> QED
  BY <1>1, <1>2, PTL DEF Spec

\* Four unwraps can fail and no other: Connected comes once, the session
\* starts once and before any snapshot, and the event channel is not closed
\* under the loop.
THEOREM FourUnwrapsCanFail == Spec => []OnlyKnownPanics
<1>1. SessionClientInv => OnlyKnownPanics
  BY DEF SessionClientInv
<1> QED
  BY <1>1, SessionClientInvariant, PTL

\* A task that drains its channel meets Dropped before the channel is closed:
\* it never spins on a channel that returns None for ever.
THEOREM DrainMeetsDropped == Spec => [](place # "spinning")
<1>1. SessionClientInv => place # "spinning"
  BY DEF SessionClientInv, SessionOK
<1> QED
  BY <1>1, SessionClientInvariant, PTL
=============================================================================
