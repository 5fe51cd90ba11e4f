------------------------- MODULE ClientEventStream -------------------------
(***************************************************************************)
(* What a connection client promises to the session client that takes its  *)
(* events: one process, without packets, keys or timers.                   *)
(*                                                                         *)
(* Connected is announced once, before any game data; after Disconnected   *)
(* there is no game data; Disconnected is announced at most twice, the     *)
(* second time because the timeout was left armed; Dropped comes last.     *)
(***************************************************************************)
EXTENDS Naturals, Sequences

CONSTANT ClientEventBufferSize

VARIABLES
    stage,       \* Connecting, Responding, Connected, Disconnected
    armed,       \* the timeout may still announce Disconnected
    phase,       \* Running, Exiting, Stopped
    events       \* announced and not yet taken

streamVars == <<stage, armed, phase, events>>

Announce(what) ==
    /\ Len(events) + Len(what) <= ClientEventBufferSize
    /\ events' = events \o what

Fresh(s, a, p, e) == s = "Connecting" /\ a = TRUE /\ p = "Running" /\ e = <<>>

StreamInit == Fresh(stage, armed, phase, events)

-----------------------------------------------------------------------------
Challenged ==
    /\ phase = "Running" /\ stage = "Connecting"
    /\ stage' = "Responding"
    /\ Announce(<<"Responding">>)
    /\ UNCHANGED <<armed, phase>>

Confirmed ==
    /\ phase = "Running" /\ stage = "Responding"
    /\ stage' = "Connected"
    /\ Announce(<<"Connected">>) \/ Announce(<<"Connected", "GameData">>)
    /\ UNCHANGED <<armed, phase>>

Received ==
    /\ phase = "Running" /\ stage = "Connected"
    /\ Announce(<<"GameData">>)
    /\ UNCHANGED <<stage, armed, phase>>

Refused ==
    /\ phase = "Running" /\ stage \in {"Responding", "Connected"}
    /\ stage' = "Disconnected"
    /\ Announce(<<"Disconnected">>)
    /\ UNCHANGED <<armed, phase>>

TimedOut ==
    /\ phase = "Running" /\ armed
    /\ stage' = "Disconnected"
    /\ armed' = FALSE
    /\ Announce(<<"Disconnected">>)
    /\ UNCHANGED phase

Cancelled ==
    /\ phase = "Running"
    /\ phase' = "Exiting"
    /\ UNCHANGED events \/ (stage # "Disconnected" /\ Announce(<<"Disconnected">>))
    /\ UNCHANGED <<stage, armed>>

Ended ==
    /\ phase = "Exiting"
    /\ phase' = "Stopped"
    /\ stage' = "Disconnected"
    /\ armed' = FALSE
    /\ Announce(<<"Dropped">>)

Restarted == Fresh(stage', armed', phase', events')

Taken == events # <<>> /\ events' = Tail(events) /\ UNCHANGED <<stage, armed, phase>>

StreamNext ==
    \/ Challenged \/ Confirmed \/ Received \/ Refused
    \/ TimedOut \/ Cancelled \/ Ended \/ Restarted \/ Taken

\* A step of a process, or of another one.
StreamStep == StreamNext \/ UNCHANGED streamVars
=============================================================================
