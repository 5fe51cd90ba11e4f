-------------------------- MODULE ConnectionEvents --------------------------
(***************************************************************************)
(* What the connection server promises to the receiver of its event        *)
(* channel, with the packets, the secrets and the timers left out.         *)
(*                                                                         *)
(* Every address goes through a cycle of stages.  Entering Pending,        *)
(* Connected and Disconnecting is announced, and so is leaving the table   *)
(* from Pending or Connected; the last step of a Disconnecting connection  *)
(* is silent.  Game data is announced only while Connected.  The stream    *)
(* ends with Dropped.                                                      *)
(***************************************************************************)
EXTENDS Naturals, Sequences

CONSTANTS Addr, EventBufferSize

VARIABLES
    stage,       \* the stage each address has reached
    events,      \* announced and not yet received
    phase        \* "Running", "Closing" or "Stopped"

eventVars == <<stage, events, phase>>

Announce(event) == Len(events) < EventBufferSize /\ events' = Append(events, event)

Moves(addr, from, to) == stage[addr] \in from /\ stage' = [stage EXCEPT ![addr] = to]

StateEvent(addr, what) == [addr |-> addr, what |-> what]

EventsInit ==
    /\ stage = [addr \in Addr |-> "None"]
    /\ events = <<>>
    /\ phase = "Running"

-----------------------------------------------------------------------------
Begin(addr) ==
    /\ phase = "Running"
    /\ Moves(addr, {"None"}, "Pending")
    /\ Announce(StateEvent(addr, "Pending"))
    /\ UNCHANGED phase

Accept(addr) ==
    /\ phase = "Running"
    /\ Moves(addr, {"Pending"}, "Connected")
    /\ Announce(StateEvent(addr, "Connected"))
    /\ UNCHANGED phase

Deliver(addr) ==
    /\ phase = "Running"
    /\ stage[addr] = "Connected"
    /\ Announce(StateEvent(addr, "GameData"))
    /\ UNCHANGED <<stage, phase>>

GiveUp(addr) ==
    /\ phase = "Running"
    /\ Moves(addr, {"Pending", "Connected"}, "Disconnecting")
    /\ Announce(StateEvent(addr, "Disconnecting"))
    /\ UNCHANGED phase

Leave(addr) ==
    /\ phase = "Running"
    /\ Moves(addr, {"Pending", "Connected"}, "None")
    /\ Announce(StateEvent(addr, "Disconnected"))
    /\ UNCHANGED phase

\* Mutant of LeaveSilently: leaving the table is announced in every stage.
LeaveAnnounced(addr) ==
    /\ phase = "Running"
    /\ Moves(addr, {"Disconnecting"}, "None")
    /\ Announce(StateEvent(addr, "Disconnected"))
    /\ UNCHANGED phase

LeaveSilently(addr) ==
    /\ phase = "Running"
    /\ Moves(addr, {"Disconnecting"}, "None")
    /\ UNCHANGED <<events, phase>>

Close ==
    /\ phase = "Running"
    /\ phase' = "Closing"
    /\ UNCHANGED <<stage, events>>

LeaveAtClose(addr) ==
    /\ phase = "Closing"
    /\ Moves(addr, {"Pending", "Connected", "Disconnecting"}, "None")
    /\ Announce(StateEvent(addr, "Disconnected"))
    /\ UNCHANGED phase

Stop ==
    /\ phase = "Closing"
    /\ phase' = "Stopped"
    /\ stage' = [addr \in Addr |-> "None"]
    /\ Announce([what |-> "Dropped"])

\* The receiver's side of the channel.
Take == events # <<>> /\ events' = Tail(events)

-----------------------------------------------------------------------------
Source ==
    \/ \E addr \in Addr :
          \/ Begin(addr) \/ Accept(addr) \/ Deliver(addr)
          \/ GiveUp(addr) \/ Leave(addr) \/ LeaveSilently(addr)
          \/ LeaveAtClose(addr)
    \/ Close
    \/ Stop

EventsNext == Source \/ (Take /\ UNCHANGED <<stage, phase>>)

EventsSpec == EventsInit /\ [][EventsNext]_eventVars
=============================================================================
