-------------------------- MODULE ConnectionProofs --------------------------
(***************************************************************************)
(* The two sides of a connection, each alone among arbitrary peers and     *)
(* both together over the network, for every set of addresses, every       *)
(* number of client processes and any loss, duplication and reordering.    *)
(*                                                                         *)
(* The server alone: its entries keep their shape, their keys stay apart,  *)
(* and its event channel says what ConnectionEvents prescribes.  An entry  *)
(* is well-shaped when its timeout and its countdown match its state.      *)
(* That alone is inductive; the keys need that no entry has a key pair     *)
(* that is yet to be generated.  The lemmas are about the handlers and ask *)
(* of a packet only that its key is a number, so that they serve the       *)
(* server among arbitrary peers and the composed system.                   *)
(*                                                                         *)
(* The clients alone: a process answers one challenge, and its events are  *)
(* those of ClientEventStream.                                             *)
(*                                                                         *)
(* Both together: they agree.  NoSplitBrain relates what both sides hold   *)
(* now, but a client changes its state on what the server sent earlier and *)
(* the server on what the client sent earlier.  SafetyInv therefore says   *)
(* of every packet still in flight and of every response ever sent what it *)
(* was sent for.                                                           *)
(***************************************************************************)
EXTENDS ConnectionSystem, OpenServer, OpenClient, TLAPS

-----------------------------------------------------------------------------
(* The server: the inductive invariant.                                    *)

\* What the event channel may hold.
ChannelEvent == [addr : Addr, what : EventWhat] \cup {Dropped}

\* A connection whose timeout and countdown are those of its state.
Matched(c) ==
    /\ c.variant \in Open <=> c.timeout # "None"
    /\ c.variant = "Disconnecting" <=> c.packets_to_send > 0

Entry == {c \in Connection : Matched(c)}

TableOK == conns \in [Addr -> Entry] /\ gen \in 0 .. MaxGen

ChannelOK ==
    /\ events \in Seq(ChannelEvent)
    /\ Len(events) <= EventBufferSize

\* Every entry has a key pair that was generated.
KeysGenerated ==
    \A x \in Addr :
        conns[x].variant # "None" => conns[x].secret.server \in 1 .. gen

ServerInv == TableOK /\ ChannelOK /\ phase \in Phase /\ KeysGenerated /\ KeysApart

-----------------------------------------------------------------------------
(* Entries.                                                                *)

\* An address without an entry is well-shaped.
LEMMA NoConnectionIsAnEntry == NoConnection \in Entry
  BY ServerAssumption
     DEF NoConnection, Entry, Matched, Connection, NoSecret, SharedSecret, Timer, Open, Variant

\* What the state, the timeout and the countdown of an entry may be.
LEMMA EntryParts ==
  ASSUME NEW c \in Entry
  PROVE  /\ c \in Connection
         /\ c.variant \in {"None", "Pending", "Connected", "Disconnecting"}
         /\ c.timeout \in {"None", "Fresh", "Due"}
         /\ c.packets_to_send \in 0 .. DisconnectPacketCount
         /\ c.variant \in {"Pending", "Connected"} <=> c.timeout # "None"
         /\ c.variant = "Disconnecting" <=> c.packets_to_send > 0
  BY DEF Entry, Matched, Connection, Timer, Variant, Open

\* An entry that is replaced by one with the same secret, or removed, leaves
\* the keys of the table as they are.
LEMMA EntryReplaced ==
  ASSUME ServerInv, NEW a \in Addr, NEW c \in Entry,
         conns' = [conns EXCEPT ![a] = c], gen' = gen,
         c.variant # "None" => conns[a].variant # "None" /\ c.secret = conns[a].secret
  PROVE  TableOK' /\ KeysGenerated' /\ KeysApart'
<1>1. \A x \in Addr : conns'[x] = IF x = a THEN c ELSE conns[x]
  BY DEF ServerInv, TableOK
<1>2. TableOK'
  BY DEF ServerInv, TableOK
<1>3. KeysGenerated'
  BY <1>1 DEF ServerInv, KeysGenerated
<1>4. KeysApart'
  BY <1>1 DEF ServerInv, KeysApart
<1> QED
  BY <1>2, <1>3, <1>4

\* A new entry has a key pair of its own.
LEMMA EntryAdded ==
  ASSUME ServerInv, NEW a \in Addr, NEW key \in Nat, gen < MaxGen, gen' = gen + 1,
         conns' = [conns EXCEPT ![a] = PendingConnection(Exchange(key, gen + 1), gen + 1)]
  PROVE  TableOK' /\ KeysGenerated' /\ KeysApart'
<1> DEFINE c == PendingConnection(Exchange(key, gen + 1), gen + 1)
<1>1. gen \in Nat /\ gen + 1 \in 0 .. MaxGen
  BY ServerAssumption DEF ServerInv, TableOK
<1>2. c \in Entry
  BY <1>1, ServerAssumption
     DEF PendingConnection, Exchange, Entry, Matched, Connection, SharedSecret, Variant,
         Open, Timer
<1>3. c.secret.server = gen + 1
  BY DEF PendingConnection, Exchange
<1> HIDE DEF c
<1>4. \A x \in Addr : conns'[x] = IF x = a THEN c ELSE conns[x]
  BY DEF ServerInv, TableOK, c
<1>5. TableOK'
  BY <1>1, <1>2 DEF ServerInv, TableOK, c
<1>6. KeysGenerated'
  BY <1>1, <1>3, <1>4 DEF ServerInv, KeysGenerated
<1>7. KeysApart'
  BY <1>1, <1>3, <1>4 DEF ServerInv, KeysApart, KeysGenerated
<1> QED
  BY <1>5, <1>6, <1>7

\* An event is sent only when the channel has room for it.
LEMMA SendKeepsChannel ==
  ASSUME ChannelOK, NEW e \in ChannelEvent, Send(e)
  PROVE  ChannelOK'
  BY ServerAssumption DEF ChannelOK, Send

-----------------------------------------------------------------------------
(* The table of connections, whatever arrives and whichever timer fires.   *)

\* The refresh of a timeout keeps an entry an entry.
LEMMA RefreshedIsAnEntry ==
  ASSUME NEW c \in Entry
  PROVE  [c EXCEPT !.timeout = Refreshed(@)] \in Entry
  BY DEF Entry, Matched, Connection, Refreshed, Timer

\* Every handler of a packet keeps the invariant.
LEMMA RecvKeepsInv ==
  ASSUME ServerInv, NEW a \in Addr, NEW p, p.kind = "ConnectInit" => p.key \in Nat,
         HandleSocketRecv(a, p)
  PROVE  ServerInv'
<1>1. conns[a] \in Entry /\ conns \in [Addr -> Entry] /\ ChannelOK /\ phase \in Phase
  BY DEF ServerInv, TableOK
<1>2. \A what \in EventWhat : Event(a, what) \in ChannelEvent
  BY DEF Event, ChannelEvent
<1>3. CASE HandleDisconnectPacket(a, p)
  <2>1. TableOK' /\ KeysGenerated' /\ KeysApart'
    <3>1. NoConnection.variant = "None"
      BY DEF NoConnection
    <3> QED
      BY <1>3, <3>1, NoConnectionIsAnEntry, EntryReplaced DEF HandleDisconnectPacket
  <2>2. ChannelOK'
    BY <1>1, <1>2, <1>3, SendKeepsChannel DEF HandleDisconnectPacket, EventWhat, ChannelOK
  <2> QED
    BY <1>1, <1>3, <2>1, <2>2 DEF HandleDisconnectPacket, ServerInv
<1>4. CASE HandleConnectInitPacket(a, p)
  <2>1. p.key \in Nat
    BY <1>4 DEF HandleConnectInitPacket
  <2>2. TableOK' /\ KeysGenerated' /\ KeysApart'
    BY <1>4, <2>1, EntryAdded DEF HandleConnectInitPacket
  <2>3. ChannelOK'
    BY <1>1, <1>2, <1>4, SendKeepsChannel DEF HandleConnectInitPacket, EventWhat
  <2> QED
    BY <1>1, <1>4, <2>2, <2>3 DEF HandleConnectInitPacket, ServerInv
<1>5. CASE HandleConnectResponsePacket(a, p)
  <2> DEFINE c == [conns[a] EXCEPT !.variant = "Connected"]
  <2>1. c \in Entry /\ c.secret = conns[a].secret
    BY <1>1, <1>5 DEF HandleConnectResponsePacket, Entry, Matched, Connection, Variant, Open
  <2>2. conns' = [conns EXCEPT ![a] = c] /\ gen' = gen /\ conns[a].variant # "None"
    BY <1>5 DEF HandleConnectResponsePacket
  <2> HIDE DEF c
  <2>3. TableOK' /\ KeysGenerated' /\ KeysApart'
    BY <2>1, <2>2, EntryReplaced
  <2>4. ChannelOK'
    BY <1>1, <1>2, <1>5, SendKeepsChannel DEF HandleConnectResponsePacket, EventWhat
  <2> QED
    BY <1>1, <1>5, <2>3, <2>4 DEF HandleConnectResponsePacket, ServerInv
<1> DEFINE r == [conns[a] EXCEPT !.timeout = Refreshed(@)]
<1>6. r \in Entry /\ r.secret = conns[a].secret
  BY <1>1, RefreshedIsAnEntry DEF Entry, Connection
<1>7. ASSUME conns' = [conns EXCEPT ![a].timeout = Refreshed(@)], gen' = gen,
             conns[a].variant # "None"
      PROVE  TableOK' /\ KeysGenerated' /\ KeysApart'
  <2>1. conns' = [conns EXCEPT ![a] = r]
    BY <1>7
  <2> HIDE DEF r
  <2> QED
    BY <1>6, <1>7, <2>1, EntryReplaced
<1>8. CASE HandleKeepalivePacket(a, p)
  BY <1>1, <1>7, <1>8 DEF HandleKeepalivePacket, ServerInv, ChannelOK
<1>9. CASE HandleGameDataPacket(a, p)
  <2>1. ChannelOK'
    BY <1>1, <1>2, <1>9, SendKeepsChannel DEF HandleGameDataPacket, EventWhat
  <2> QED
    BY <1>1, <1>7, <1>9, <2>1 DEF HandleGameDataPacket, ServerInv
<1> QED
  BY <1>3, <1>4, <1>5, <1>8, <1>9 DEF HandleSocketRecv

\* The timers and the requests keep the invariant: the countdown of a
\* disconnect ends with the entry.
LEMMA TimersKeepInv ==
  ASSUME ServerInv, NEW a \in Addr, ServerTimers(a) \/ HandleSendGameDataRequest(a)
  PROVE  ServerInv'
<1>1. conns[a] \in Entry /\ conns \in [Addr -> Entry] /\ ChannelOK /\ phase \in Phase
  BY DEF ServerInv, TableOK
<1>2. \A what \in EventWhat : Event(a, what) \in ChannelEvent
  BY DEF Event, ChannelEvent
<1>3. CASE UNCHANGED <<conns, gen, events, phase>>
  BY <1>3 DEF ServerInv, TableOK, ChannelOK, KeysGenerated, KeysApart
<1>4. CASE TimeoutExpires(a)
  <2> DEFINE c == [conns[a] EXCEPT !.timeout = "Due"]
  <2>1. c \in Entry /\ c.secret = conns[a].secret /\ conns[a].variant # "None"
    BY <1>1, <1>4 DEF TimeoutExpires, Entry, Matched, Connection, Variant, Open, Timer
  <2>2. conns' = [conns EXCEPT ![a] = c] /\ UNCHANGED <<gen, events, phase>>
    BY <1>4 DEF TimeoutExpires
  <2> HIDE DEF c
  <2> QED
    BY <2>1, <2>2, EntryReplaced DEF ServerInv, ChannelOK
<1>5. CASE HandleClientTimeout(a)
  <2> DEFINE c == [conns[a] EXCEPT !.timeout = "None", !.variant = "Disconnecting",
                                   !.packets_to_send = DisconnectPacketCount]
  <2>1. c \in Entry /\ c.secret = conns[a].secret
    <3>1. /\ DisconnectPacketCount \in 0 .. DisconnectPacketCount
          /\ DisconnectPacketCount > 0
      BY ServerAssumption
    <3> HIDE DEF c
    <3>2. c \in Connection /\ c.secret = conns[a].secret
      BY <1>1, <3>1 DEF c, Entry, Connection, Variant, Timer
    <3>3. c.variant = "Disconnecting" /\ c.timeout = "None"
             /\ c.packets_to_send = DisconnectPacketCount
      BY <1>1 DEF c, Entry, Connection
    <3> QED
      BY <3>1, <3>2, <3>3 DEF Entry, Matched, Open
  <2>2. conns[a].variant # "None"
    BY <1>1, <1>5 DEF HandleClientTimeout, Entry, Matched, Open
  <2>3. conns' = [conns EXCEPT ![a] = c] /\ UNCHANGED <<gen, phase>>
    BY <1>5 DEF HandleClientTimeout
  <2> HIDE DEF c
  <2>4. ChannelOK'
    BY <1>1, <1>2, <1>5, SendKeepsChannel DEF HandleClientTimeout, EventWhat, ChannelOK
  <2> QED
    BY <2>1, <2>2, <2>3, <2>4, EntryReplaced DEF ServerInv
<1>6. CASE HandleDisconnectElapsed(a) /\ conns[a].packets_to_send = 1
  <2>1. NoConnection.variant = "None"
    BY DEF NoConnection
  <2>2. conns' = [conns EXCEPT ![a] = NoConnection] /\ UNCHANGED <<gen, events, phase>>
    BY <1>6 DEF HandleDisconnectElapsed
  <2> QED
    BY <2>1, <2>2, NoConnectionIsAnEntry, EntryReplaced DEF ServerInv, ChannelOK
<1>7. CASE HandleDisconnectElapsed(a) /\ conns[a].packets_to_send # 1
  <2> DEFINE c == [conns[a] EXCEPT !.packets_to_send = @ - 1]
  <2>1. c \in Entry /\ c.secret = conns[a].secret /\ conns[a].variant # "None"
    BY <1>1, <1>7, ServerAssumption
       DEF HandleDisconnectElapsed, Entry, Matched, Connection, Variant, Open
  <2>2. conns' = [conns EXCEPT ![a] = c] /\ UNCHANGED <<gen, events, phase>>
    BY <1>7 DEF HandleDisconnectElapsed
  <2> HIDE DEF c
  <2> QED
    BY <2>1, <2>2, EntryReplaced DEF ServerInv, ChannelOK
<1> QED
  BY <1>3, <1>4, <1>5, <1>6, <1>7
     DEF ServerTimers, HandleSendGameDataRequest,
         HandlePendingConnectionSend, HandleKeepaliveElapsed

\* The end of the task keeps the invariant.
LEMMA ShutdownKeepsInv ==
  ASSUME ServerInv, ServerShutdown
  PROVE  ServerInv'
<1>1. conns \in [Addr -> Entry] /\ ChannelOK /\ phase \in Phase
  BY DEF ServerInv, TableOK
<1>2. NoConnection.variant = "None"
  BY DEF NoConnection
<1>3. CASE Cancel
  BY <1>3 DEF Cancel, ServerInv, TableOK, ChannelOK, KeysGenerated, KeysApart, Phase
<1>4. ASSUME NEW a \in Addr, HandleCancelled(a)
      PROVE  ServerInv'
  <2>1. ChannelOK'
    BY <1>1, <1>4, SendKeepsChannel DEF HandleCancelled, EventWhat, Event, ChannelEvent
  <2> QED
    BY <1>2, <1>4, <2>1, NoConnectionIsAnEntry, EntryReplaced DEF HandleCancelled, ServerInv
<1>5. CASE Drained
  BY <1>5 DEF Drained, ServerInv, TableOK, ChannelOK, KeysGenerated, KeysApart, Phase
<1>6. CASE Drop
  <2>1. ChannelOK'
    BY <1>1, <1>6, SendKeepsChannel DEF Drop, ChannelEvent
  <2>2. \A x \in Addr : conns'[x].variant = "None"
    BY <1>2, <1>6 DEF Drop
  <2> QED
    BY <1>6, <2>1, <2>2, NoConnectionIsAnEntry
       DEF Drop, ServerInv, TableOK, KeysGenerated, KeysApart, Phase
<1> QED
  BY <1>3, <1>4, <1>5, <1>6 DEF ServerShutdown

\* Taking an event keeps the invariant.
LEMMA TakeKeepsInv ==
  ASSUME ServerInv, events # <<>>, events' = Tail(events), UNCHANGED <<conns, gen, phase>>
  PROVE  ServerInv'
<1>1. ChannelOK'
  BY ServerAssumption DEF ServerInv, ChannelOK
<1> QED
  BY <1>1 DEF ServerInv, TableOK, KeysGenerated, KeysApart

\* The invariant holds at first, and a step that leaves the server alone
\* keeps it.
LEMMA ServerInvInit == ServerInit => ServerInv
<1>1. NoConnection.variant = "None"
  BY DEF NoConnection
<1> QED
  BY <1>1, NoConnectionIsAnEntry, ServerAssumption
     DEF ServerInit, ServerInv, TableOK, ChannelOK, KeysGenerated, KeysApart, Phase

LEMMA ServerInvKept ==
  ASSUME ServerInv, UNCHANGED serverVars
  PROVE  ServerInv'
  BY DEF serverVars, ServerInv, TableOK, ChannelOK, KeysGenerated, KeysApart

\* The invariant gives the server's types and what TimersMatchVariant says.
LEMMA ServerInvImplies == ServerInv => ServerTypeOK /\ TimersMatchVariant /\ KeysApart
<1>1. ServerInv => ServerTypeOK
  BY DEF ServerInv, TableOK, ChannelOK, ServerTypeOK, Entry, ChannelEvent
<1>2. ServerInv => TimersMatchVariant
  BY DEF ServerInv, TableOK, TimersMatchVariant, Entry, Matched
<1> QED
  BY <1>1, <1>2 DEF ServerInv

-----------------------------------------------------------------------------
(* The server's event channel: every step of the server is a step of       *)
(* ConnectionEvents, or leaves the stages, the channel and the phase alone.*)

\* The stage of every address, as ConnectionEvents sees it.
Stages == [addr \in Addr |-> conns[addr].variant]

\* An entry that changes its state moves its address to another stage.
LEMMA EntryMoves ==
  ASSUME ServerInv, NEW a \in Addr, NEW c, conns' = [conns EXCEPT ![a] = c],
         NEW from, conns[a].variant \in from, NEW to, c.variant = to
  PROVE  Events!Moves(a, from, to)
<1>1. \A x \in Addr : conns'[x] = IF x = a THEN c ELSE conns[x]
  BY DEF ServerInv, TableOK
<1>2. Stages' = [x \in Addr |-> IF x = a THEN c.variant ELSE conns[x].variant]
  BY <1>1 DEF Stages
<1>3. [Stages EXCEPT ![a] = c.variant]
         = [x \in Addr |-> IF x = a THEN c.variant ELSE conns[x].variant]
  BY DEF Stages
<1>4. Stages[a] \in from
  BY DEF Stages
<1> QED
  BY <1>2, <1>3, <1>4 DEF Events!Moves, Stages

\* An entry that keeps its state keeps the stages.
LEMMA EntryKeepsStage ==
  ASSUME ServerInv, NEW a \in Addr, NEW c, conns' = [conns EXCEPT ![a] = c],
         c.variant = conns[a].variant
  PROVE  Stages' = Stages
<1>1. \A x \in Addr : conns'[x] = IF x = a THEN c ELSE conns[x]
  BY DEF ServerInv, TableOK
<1> QED
  BY <1>1 DEF Stages

\* The server sends what ConnectionEvents announces.
LEMMA SendAnnounces ==
  ASSUME NEW a, NEW what, Send(Event(a, what))
  PROVE  Events!Announce(Events!StateEvent(a, what))
  BY DEF Send, Event, Events!Announce, Events!StateEvent

\* ConnectionEvents tells a running task from one that is closing.
LEMMA PhaseIsSeen ==
  /\ phase = "Running" => AbstractPhase = "Running"
  /\ UNCHANGED phase => UNCHANGED AbstractPhase
  BY DEF AbstractPhase

\* A step that leaves the stages, the channel and the phase alone is a stutter.
LEMMA NothingAnnounced ==
  ASSUME UNCHANGED events, UNCHANGED phase, UNCHANGED Stages
  PROVE  [Events!EventsNext]_(Events!eventVars)
  BY DEF Events!eventVars, AbstractPhase, Stages

\* A packet that is handled begins, accepts, delivers or ends a connection.
LEMMA RecvAnnounces ==
  ASSUME ServerInv, phase = "Running", NEW a \in Addr, NEW p, HandleSocketRecv(a, p)
  PROVE  [Events!EventsNext]_(Events!eventVars)
<1>1. conns[a] \in Entry /\ phase = "Running" /\ NoConnection.variant = "None"
  BY DEF ServerInv, TableOK, NoConnection
<1>2. CASE HandleDisconnectPacket(a, p) /\ conns[a].variant \in Open
  <2>1. Events!Moves(a, {"Pending", "Connected"}, "None")
    BY <1>1, <1>2, EntryMoves DEF HandleDisconnectPacket, Open
  <2>2. Events!Leave(a)
    BY <1>1, <1>2, <2>1, PhaseIsSeen, SendAnnounces
       DEF HandleDisconnectPacket, Events!Leave
  <2> QED
    BY <2>2 DEF Events!EventsNext, Events!Source
<1>3. CASE HandleDisconnectPacket(a, p) /\ conns[a].variant \notin Open
  <2>1. conns[a].variant = "Disconnecting"
    BY <1>1, <1>3, EntryParts DEF HandleDisconnectPacket, Open
  <2>2. Events!Moves(a, {"Disconnecting"}, "None")
    BY <1>1, <1>3, <2>1, EntryMoves DEF HandleDisconnectPacket
  <2>3. Events!LeaveSilently(a)
    BY <1>1, <1>3, <2>2, PhaseIsSeen DEF HandleDisconnectPacket, Events!LeaveSilently
  <2> QED
    BY <2>3 DEF Events!EventsNext, Events!Source
<1>4. CASE HandleConnectInitPacket(a, p)
  <2> DEFINE c == PendingConnection(Exchange(p.key, gen + 1), gen + 1)
  <2>1. c.variant = "Pending" /\ conns' = [conns EXCEPT ![a] = c]
    BY <1>4 DEF HandleConnectInitPacket, PendingConnection
  <2> HIDE DEF c
  <2>2. Events!Moves(a, {"None"}, "Pending")
    <3>1. conns[a].variant \in {"None"}
      BY <1>4 DEF HandleConnectInitPacket
    <3> QED
      BY <2>1, <3>1, EntryMoves
  <2>3. Events!Begin(a)
    BY <1>1, <1>4, <2>2, PhaseIsSeen, SendAnnounces
       DEF HandleConnectInitPacket, Events!Begin
  <2> QED
    BY <2>3 DEF Events!EventsNext, Events!Source
<1>5. CASE HandleConnectResponsePacket(a, p)
  <2> DEFINE c == [conns[a] EXCEPT !.variant = "Connected"]
  <2>1. c.variant = "Connected" /\ conns' = [conns EXCEPT ![a] = c]
    BY <1>1, <1>5 DEF HandleConnectResponsePacket, Entry, Connection
  <2> HIDE DEF c
  <2>2. Events!Moves(a, {"Pending"}, "Connected")
    <3>1. conns[a].variant \in {"Pending"}
      BY <1>5 DEF HandleConnectResponsePacket
    <3> QED
      BY <2>1, <3>1, EntryMoves
  <2>3. Events!Accept(a)
    BY <1>1, <1>5, <2>2, PhaseIsSeen, SendAnnounces
       DEF HandleConnectResponsePacket, Events!Accept
  <2> QED
    BY <2>3 DEF Events!EventsNext, Events!Source
<1>6. ASSUME conns' = [conns EXCEPT ![a].timeout = Refreshed(@)]
      PROVE  Stages' = Stages
  <2> DEFINE r == [conns[a] EXCEPT !.timeout = Refreshed(@)]
  <2>1. r.variant = conns[a].variant /\ conns' = [conns EXCEPT ![a] = r]
    BY <1>1, <1>6 DEF Entry, Connection
  <2> HIDE DEF r
  <2> QED
    BY <2>1, EntryKeepsStage
<1>7. CASE HandleKeepalivePacket(a, p)
  BY <1>6, <1>7, NothingAnnounced DEF HandleKeepalivePacket
<1>8. CASE HandleGameDataPacket(a, p)
  <2>1. Stages' = Stages /\ Stages[a] = "Connected"
    BY <1>6, <1>8 DEF HandleGameDataPacket, Stages
  <2>2. Events!Deliver(a)
    BY <1>1, <1>8, <2>1, PhaseIsSeen, SendAnnounces
       DEF HandleGameDataPacket, Stages, Events!Deliver
  <2> QED
    BY <2>2 DEF Events!EventsNext, Events!Source
<1> QED
  BY <1>2, <1>3, <1>4, <1>5, <1>7, <1>8 DEF HandleSocketRecv

\* A timer ends a connection or says nothing; a request says nothing.
LEMMA TimersAnnounce ==
  ASSUME ServerInv, phase = "Running", NEW a \in Addr,
         ServerTimers(a) \/ HandleSendGameDataRequest(a)
  PROVE  [Events!EventsNext]_(Events!eventVars)
<1>1. conns[a] \in Entry /\ phase = "Running" /\ NoConnection.variant = "None"
  BY DEF ServerInv, TableOK, NoConnection
<1>2. CASE UNCHANGED <<conns, gen, events, phase>>
  BY <1>2, NothingAnnounced DEF Stages
<1>3. CASE TimeoutExpires(a)
  <2> DEFINE c == [conns[a] EXCEPT !.timeout = "Due"]
  <2>1. c.variant = conns[a].variant /\ conns' = [conns EXCEPT ![a] = c]
    BY <1>1, <1>3 DEF TimeoutExpires, Entry, Connection
  <2> HIDE DEF c
  <2> QED
    BY <1>3, <2>1, EntryKeepsStage, NothingAnnounced DEF TimeoutExpires
<1>4. CASE HandleClientTimeout(a)
  <2> DEFINE c == [conns[a] EXCEPT !.timeout = "None", !.variant = "Disconnecting",
                                   !.packets_to_send = DisconnectPacketCount]
  <2>1. c.variant = "Disconnecting" /\ conns' = [conns EXCEPT ![a] = c]
    BY <1>1, <1>4 DEF HandleClientTimeout, Entry, Connection
  <2> HIDE DEF c
  <2>2. conns[a].variant \in Open /\ Send(Event(a, "Disconnecting"))
    BY <1>1, <1>4 DEF HandleClientTimeout, Entry, Matched
  <2>3. Events!Moves(a, {"Pending", "Connected"}, "Disconnecting")
    BY <2>1, <2>2, EntryMoves DEF Open
  <2>4. Events!GiveUp(a)
    BY <1>1, <1>4, <2>2, <2>3, PhaseIsSeen, SendAnnounces
       DEF HandleClientTimeout, Events!GiveUp
  <2> QED
    BY <2>4 DEF Events!EventsNext, Events!Source
<1>5. CASE HandleDisconnectElapsed(a) /\ conns[a].packets_to_send = 1
  <2>1. Events!Moves(a, {"Disconnecting"}, "None")
    BY <1>1, <1>5, EntryMoves DEF HandleDisconnectElapsed
  <2>2. Events!LeaveSilently(a)
    BY <1>1, <1>5, <2>1, PhaseIsSeen DEF HandleDisconnectElapsed, Events!LeaveSilently
  <2> QED
    BY <2>2 DEF Events!EventsNext, Events!Source
<1>6. CASE HandleDisconnectElapsed(a) /\ conns[a].packets_to_send # 1
  <2> DEFINE c == [conns[a] EXCEPT !.packets_to_send = @ - 1]
  <2>1. c.variant = conns[a].variant /\ conns' = [conns EXCEPT ![a] = c]
    BY <1>1, <1>6 DEF HandleDisconnectElapsed, Entry, Connection
  <2> HIDE DEF c
  <2> QED
    BY <1>6, <2>1, EntryKeepsStage, NothingAnnounced DEF HandleDisconnectElapsed
<1> QED
  BY <1>2, <1>3, <1>4, <1>5, <1>6
     DEF ServerTimers, HandleSendGameDataRequest,
         HandlePendingConnectionSend, HandleKeepaliveElapsed

\* The end of the task closes the stream, tells the rest of the connections
\* off and stops.
LEMMA ShutdownAnnounces ==
  ASSUME ServerInv, ServerShutdown
  PROVE  [Events!EventsNext]_(Events!eventVars)
<1>1. NoConnection.variant = "None"
  BY DEF NoConnection
<1>2. CASE Cancel
  <2>1. Events!Close
    BY <1>2 DEF Cancel, AbstractPhase, Events!Close
  <2> QED
    BY <2>1 DEF Events!EventsNext, Events!Source
<1>3. ASSUME NEW a \in Addr, HandleCancelled(a)
      PROVE  [Events!EventsNext]_(Events!eventVars)
  <2>1. conns[a].variant \in {"Pending", "Connected", "Disconnecting"}
    BY <1>3, EntryParts DEF HandleCancelled, ServerInv, TableOK
  <2>2. Events!Moves(a, {"Pending", "Connected", "Disconnecting"}, "None")
    BY <1>1, <1>3, <2>1, EntryMoves DEF HandleCancelled
  <2>3. AbstractPhase = "Closing"
    BY <1>3 DEF HandleCancelled, AbstractPhase
  <2>4. Events!LeaveAtClose(a)
    BY <1>3, <2>2, <2>3, PhaseIsSeen, SendAnnounces
       DEF HandleCancelled, Events!LeaveAtClose
  <2> QED
    BY <2>4 DEF Events!EventsNext, Events!Source
<1>4. CASE Drained
  BY <1>4 DEF Drained, AbstractPhase, Events!eventVars
<1>5. CASE Drop
  <2>1. Stages' = [x \in Addr |-> "None"]
    BY <1>1, <1>5 DEF Drop, Stages
  <2>2. Events!Stop
    BY <1>5, <2>1
       DEF Drop, Send, Dropped, Stages, AbstractPhase, Events!Stop, Events!Announce
  <2> QED
    BY <2>2 DEF Events!EventsNext, Events!Source
<1> QED
  BY <1>2, <1>3, <1>4, <1>5 DEF ServerShutdown

\* A step that leaves the server alone is a stutter.
LEMMA OthersAnnounceNothing ==
  ASSUME UNCHANGED serverVars
  PROVE  [Events!EventsNext]_(Events!eventVars)
  BY NothingAnnounced DEF serverVars, Stages

\* The receiver takes an event.
LEMMA TakeAnnounces ==
  ASSUME events # <<>>, events' = Tail(events), UNCHANGED <<conns, gen, phase>>
  PROVE  [Events!EventsNext]_(Events!eventVars)
  BY DEF AbstractPhase, Events!EventsNext, Events!Take

\* At first every address is at its first stage.
LEMMA AnnouncesInit == ServerInit => Events!EventsInit
  BY DEF ServerInit, NoConnection, AbstractPhase, Events!EventsInit

-----------------------------------------------------------------------------
(* The server among arbitrary peers.                                       *)

\* Every step of the server and of its peers keeps the server's invariant.
LEMMA OpenServerStep == ServerInv /\ [OpenServerNext]_openServerVars => ServerInv'
<1>1. ASSUME ServerInv, NEW a \in Addr, Recv(a) PROVE ServerInv'
  <2>1. PICK p \in PeerPacket : HandleSocketRecv(a, p)
    BY <1>1 DEF Recv
  <2>2. p.kind = "ConnectInit" => p.key \in Nat
    BY ClientKeyAssumption DEF PeerPacket
  <2> QED
    BY <1>1, <2>1, <2>2, RecvKeepsInv
<1>2. ASSUME ServerInv, OpenServerNext PROVE ServerInv'
  BY <1>1, <1>2, TimersKeepInv, ShutdownKeepsInv, TakeKeepsInv
     DEF OpenServerNext, Timers, Request, Shutdown, Take
<1> QED
  BY <1>2, ServerInvKept DEF openServerVars

\* The inductive invariant of the connection server among arbitrary peers.
THEOREM OpenServerInvariant == OpenServerSpec => []ServerInv
<1>1. OpenServerInit => ServerInv
  BY ServerInvInit DEF OpenServerInit
<1> QED
  BY <1>1, OpenServerStep, PTL DEF OpenServerSpec

\* The server's table, channel and phase keep their types, whatever peers
\* send: the countdown of a disconnect never leaves its range.
THEOREM OpenServerTypes == OpenServerSpec => []ServerTypeOK
  BY ServerInvImplies, OpenServerInvariant, PTL

\* A connection has a timeout exactly while it is not Disconnecting, and
\* packets left to send exactly while it is.
THEOREM TimersStayMatched == OpenServerSpec => []TimersMatchVariant
  BY ServerInvImplies, OpenServerInvariant, PTL

\* No two entries share a key exchange, whatever peers send.
THEOREM OpenKeysStayApart == OpenServerSpec => []KeysApart
  BY ServerInvImplies, OpenServerInvariant, PTL

\* The event channel of the connection server is one that ConnectionEvents
\* describes, whatever peers send and whenever the task is cancelled: the
\* session server may rely on the order of its events.
THEOREM OpenServerAnnounces == OpenServerSpec => ImplementsConnectionEvents
<1>1. OpenServerInit => Events!EventsInit
  BY AnnouncesInit DEF OpenServerInit
<1>2. ASSUME ServerInv, OpenServerNext PROVE [Events!EventsNext]_(Events!eventVars)
  BY <1>2, RecvAnnounces, TimersAnnounce, ShutdownAnnounces, TakeAnnounces
     DEF OpenServerNext, Recv, Timers, Request, Shutdown, Take
<1>3. ServerInv /\ [OpenServerNext]_openServerVars => [Events!EventsNext]_(Events!eventVars)
  BY <1>2, OthersAnnounceNothing DEF openServerVars
<1> QED
  BY <1>1, <1>3, OpenServerInvariant, PTL
     DEF OpenServerSpec, ImplementsConnectionEvents, Events!EventsSpec

-----------------------------------------------------------------------------
(* The clients: the inductive invariant.  A process answers one challenge  *)
(* because a response that was sent pins the secret and the token of the   *)
(* process that sent it, and no response is from a process of the future.  *)

\* What clients send has its type.
ToServerOK == toServer \subseteq [addr : Addr, packet : ServerPacket]

\* A client that holds a secret holds one made with its own key.
SecretsAreOwn ==
    \A addr \in Addr : Holds(addr) => clients[addr].secret.client = clients[addr].key

ResponsesPinned ==
    \A m \in toServer :
        m.packet.kind = "ConnectResponse" =>
            LET c == clients[m.addr]
                s == m.packet.secret
            IN  /\ s.client <= c.key
                /\ s.client = c.key =>
                      /\ c.variant # "Connecting"
                      /\ Holds(m.addr) => m.packet = ConnectResponse(c.secret, c.token)

ClientInv ==
    /\ ClientTypeOK
    /\ ToServerOK
    /\ SecretsAreOwn
    /\ ResponsesPinned
    /\ OneResponsePerProcess

\* What a client does, a packet at hand or not.
ClientDoes(addr, packet) ==
    \/ ClientRecv(addr, packet)
    \/ ClientSends(addr) \/ ClientTimers(addr) \/ ClientLife(addr) \/ ClientTake(addr)

\* A challenge carries numbers; nothing is asked of the other packets.
Readable(packet) ==
    packet.kind = "ConnectChallenge" => packet.key \in Nat /\ packet.token \in Nat

-----------------------------------------------------------------------------
(* The types of the clients.                                               *)

\* Where a client's event channel is left with room, its type is kept.
LEMMA TellKeepsType ==
  ASSUME ClientTypeOK, NEW a \in Addr, NEW what \in Seq(ClientEventWhat), Tell(a, what)
  PROVE  /\ clientEvents' \in [Addr -> Seq(ClientEventWhat)]
         /\ \A addr \in Addr : Len(clientEvents'[addr]) <= ClientEventBufferSize
<1>1. clientEvents[a] \o what \in Seq(ClientEventWhat)
  BY DEF ClientTypeOK
<1>2. Len(clientEvents[a] \o what) = Len(clientEvents[a]) + Len(what)
  BY DEF ClientTypeOK
<1> QED
  BY <1>1, <1>2 DEF Tell, ClientTypeOK

\* A client that changes and tells what it may tell keeps its type.
LEMMA ClientChangeKeepsType ==
  ASSUME ClientTypeOK, NEW a \in Addr,
         NEW c \in Client, clients' = [clients EXCEPT ![a] = c],
         NEW what \in Seq(ClientEventWhat), UNCHANGED clientEvents \/ Tell(a, what)
  PROVE  ClientTypeOK'
<1>1. clients' \in [Addr -> Client]
  BY DEF ClientTypeOK
<1>2. /\ clientEvents' \in [Addr -> Seq(ClientEventWhat)]
      /\ \A addr \in Addr : Len(clientEvents'[addr]) <= ClientEventBufferSize
  BY TellKeepsType DEF ClientTypeOK
<1> QED
  BY <1>1, <1>2 DEF ClientTypeOK

\* The client's handlers of received packets leave it well-typed.
LEMMA ClientRecvKeepsType ==
  ASSUME ClientTypeOK, NEW a \in Addr, NEW p, Readable(p), ClientRecv(a, p)
  PROVE  ClientTypeOK'
<1>1. clients \in [Addr -> Client] /\ clients[a] \in Client
  BY DEF ClientTypeOK
<1>2. NoSecret \in SharedSecret
  BY DEF NoSecret, SharedSecret
<1>3. CASE ClientHandleDisconnectPacket(a, p)
  <2> DEFINE c == [clients[a] EXCEPT !.variant = "Disconnected",
                                     !.secret = NoSecret, !.token = 0]
  <2>1. c \in Client
    BY <1>1, <1>2 DEF Client, ClientVariant
  <2>2. <<"Disconnected">> \in Seq(ClientEventWhat)
    BY DEF ClientEventWhat
  <2>3. clients' = [clients EXCEPT ![a] = c] /\ Tell(a, <<"Disconnected">>)
    BY <1>1, <1>3 DEF ClientHandleDisconnectPacket
  <2> HIDE DEF c
  <2> QED
    BY <2>1, <2>2, <2>3, ClientChangeKeepsType
<1>4. CASE HandleConnectChallengePacket(a, p)
  <2> DEFINE s == Exchange(clients[a].key, p.key)
             c == [clients[a] EXCEPT !.variant = "Responding",
                                     !.secret = s, !.token = p.token]
  <2>1. p.key \in Nat /\ p.token \in Nat
    BY <1>4 DEF HandleConnectChallengePacket, Readable
  <2>2. s \in SharedSecret
    BY <1>1, <2>1, ClientAssumption DEF Exchange, SharedSecret, Client
  <2>3. c \in Client
    BY <1>1, <2>1, <2>2 DEF Client, ClientVariant
  <2>4. <<"Responding">> \in Seq(ClientEventWhat)
    BY DEF ClientEventWhat
  <2>5. clients' = [clients EXCEPT ![a] = c] /\ Tell(a, <<"Responding">>)
    BY <1>1, <1>4 DEF HandleConnectChallengePacket
  <2> HIDE DEF c
  <2> QED
    BY <2>3, <2>4, <2>5, ClientChangeKeepsType
<1>5. ASSUME Confirm(a)
      PROVE  \E c \in Client : clients' = [clients EXCEPT ![a] = c]
  <2> DEFINE t == IF clients[a].timeout = "None" THEN "None" ELSE "Fresh"
             c == [clients[a] EXCEPT !.variant = "Connected", !.timeout = t]
  <2>1. t \in ClientTimer
    BY DEF ClientTimer
  <2>2. c \in Client
    BY <1>1, <2>1 DEF Client, ClientVariant
  <2>3. clients' = [clients EXCEPT ![a] = c]
    BY <1>1, <1>5 DEF Confirm, Client
  <2> HIDE DEF c
  <2> QED
    BY <2>2, <2>3
<1>6. /\ ConfirmEvent(a) \in Seq(ClientEventWhat)
      /\ Append(ConfirmEvent(a), "GameData") \in Seq(ClientEventWhat)
  <2>1. ConfirmEvent(a) \in Seq(ClientEventWhat)
    <3>1. "Connected" \in ClientEventWhat
      BY DEF ClientEventWhat
    <3>2. <<"Connected">> \in Seq(ClientEventWhat) /\ << >> \in Seq(ClientEventWhat)
      BY <3>1
    <3> QED
      BY <3>2 DEF ConfirmEvent
  <2>2. "GameData" \in ClientEventWhat
    BY DEF ClientEventWhat
  <2> QED
    BY <2>1, <2>2
<1>7. CASE ClientHandleKeepalivePacket(a, p)
  BY <1>5, <1>6, <1>7, ClientChangeKeepsType DEF ClientHandleKeepalivePacket
<1>8. CASE ClientHandleGameDataPacket(a, p)
  BY <1>5, <1>6, <1>8, ClientChangeKeepsType DEF ClientHandleGameDataPacket
<1> QED
  BY <1>3, <1>4, <1>7, <1>8 DEF ClientRecv

\* The client's timers, requests, shutdown and restart leave it well-typed.
LEMMA ClientActsKeepType ==
  ASSUME ClientTypeOK, NEW a \in Addr,
         ClientSends(a) \/ ClientTimers(a) \/ ClientLife(a) \/ ClientTake(a)
  PROVE  ClientTypeOK'
<1>1. /\ clients \in [Addr -> Client] /\ clients[a] \in Client
      /\ clientEvents[a] \in Seq(ClientEventWhat)
  BY DEF ClientTypeOK
<1>2. NoSecret \in SharedSecret
  BY DEF NoSecret, SharedSecret
<1>3. /\ <<"Disconnected">> \in Seq(ClientEventWhat)
      /\ <<"Dropped">> \in Seq(ClientEventWhat)
  BY DEF ClientEventWhat
<1>4. CASE ClientSends(a)
  BY <1>4
     DEF ClientSends, ClientHandleSendGameDataRequest, HandleSendIntervalElapsed,
         ClientHandleKeepaliveElapsed, clientVars, ClientTypeOK
<1>5. CASE ServerTimeoutExpires(a)
  <2> DEFINE c == [clients[a] EXCEPT !.timeout = "Due"]
  <2>1. c \in Client
    BY <1>1 DEF Client, ClientTimer
  <2>2. clients' = [clients EXCEPT ![a] = c] /\ UNCHANGED clientEvents
    BY <1>1, <1>5 DEF ServerTimeoutExpires
  <2> HIDE DEF c
  <2> QED
    BY <1>3, <2>1, <2>2, ClientChangeKeepsType
<1>6. CASE HandleServerTimeout(a)
  <2> DEFINE c == [clients[a] EXCEPT !.timeout = "None", !.variant = "Disconnected",
                                     !.secret = NoSecret, !.token = 0]
  <2>1. c \in Client
    BY <1>1, <1>2 DEF Client, ClientTimer, ClientVariant
  <2>2. clients' = [clients EXCEPT ![a] = c] /\ Tell(a, <<"Disconnected">>)
    BY <1>1, <1>6 DEF HandleServerTimeout
  <2> HIDE DEF c
  <2> QED
    BY <1>3, <2>1, <2>2, ClientChangeKeepsType
<1>7. CASE ClientCancel(a)
  <2> DEFINE c == [clients[a] EXCEPT !.phase = "Exiting"]
  <2>1. c \in Client
    BY <1>1 DEF Client, ClientPhase
  <2>2. /\ clients' = [clients EXCEPT ![a] = c]
        /\ UNCHANGED clientEvents \/ Tell(a, <<"Disconnected">>)
    BY <1>1, <1>7 DEF ClientCancel
  <2> HIDE DEF c
  <2> QED
    BY <1>3, <2>1, <2>2, ClientChangeKeepsType
<1>8. CASE ClientDrop(a)
  <2> DEFINE c == [clients[a] EXCEPT !.phase = "Stopped", !.variant = "Disconnected",
                                     !.secret = NoSecret, !.token = 0, !.timeout = "None"]
  <2>1. c \in Client
    BY <1>1, <1>2 DEF Client, ClientTimer, ClientVariant, ClientPhase
  <2>2. clients' = [clients EXCEPT ![a] = c] /\ Tell(a, <<"Dropped">>)
    BY <1>1, <1>8 DEF ClientDrop
  <2> HIDE DEF c
  <2> QED
    BY <1>3, <2>1, <2>2, ClientChangeKeepsType
<1>9. CASE Restart(a)
  <2>1. clients[a].key + 1 \in 1 .. MaxKey
    BY <1>1, <1>9, ClientAssumption DEF Client, Restart
  <2>2. NewClient(clients[a].key + 1) \in Client
    BY <1>2, <2>1 DEF NewClient, Client, ClientVariant, ClientTimer, ClientPhase
  <2>3. clientEvents' \in [Addr -> Seq(ClientEventWhat)]
    BY <1>9 DEF Restart, ClientTypeOK
  <2>4. \A addr \in Addr : Len(clientEvents'[addr]) <= ClientEventBufferSize
    BY <1>9, ClientAssumption DEF Restart, ClientTypeOK
  <2> QED
    BY <1>1, <1>9, <2>2, <2>3, <2>4 DEF Restart, ClientTypeOK
<1>10. CASE ClientTake(a)
  <2>1. /\ Tail(clientEvents[a]) \in Seq(ClientEventWhat)
        /\ Len(Tail(clientEvents[a])) <= ClientEventBufferSize
    BY <1>1, <1>10, ClientAssumption DEF ClientTake, ClientTypeOK
  <2> QED
    BY <1>10, <2>1 DEF ClientTake, ClientTypeOK
<1> QED
  BY <1>4, <1>5, <1>6, <1>7, <1>8, <1>9, <1>10 DEF ClientTimers, ClientLife

\* What a client sends: packets of their type, and a response only by a
\* Responding process, which stays as it is.
LEMMA SentToServer ==
  ASSUME ClientTypeOK, ToServerOK, NEW b \in Addr, NEW packet, ClientDoes(b, packet)
  PROVE  /\ ToServerOK'
         /\ toServer \subseteq toServer'
         /\ \A m \in toServer' \ toServer :
               m.packet.kind = "ConnectResponse" =>
                   /\ UNCHANGED clients
                   /\ clients[m.addr].variant = "Responding"
                   /\ m.packet = ConnectResponse(clients[m.addr].secret, clients[m.addr].token)
<1>1. CASE UNCHANGED toServer
  BY <1>1 DEF ToServerOK
<1>2. CASE ClientSends(b)
  <2> DEFINE c == clients[b]
  <2>1. /\ GameData(c.secret) \in ServerPacket
        /\ Keepalive(c.secret) \in ServerPacket
        /\ ConnectInit(c.key) \in ServerPacket
        /\ ConnectResponse(c.secret, c.token) \in ServerPacket
    BY ClientAssumption
       DEF ClientTypeOK, Client, ServerPacket, Sealed, SealedToken, GameData, Keepalive,
           ConnectInit, ConnectResponse
  <2>2. ToServerOK'
    BY <1>2, <2>1
       DEF ClientSends, ClientHandleSendGameDataRequest, HandleSendIntervalElapsed,
           ClientHandleKeepaliveElapsed, SendToServer, Datagram, ToServerOK
  <2> QED
    BY <1>2, <2>2
       DEF ClientSends, ClientHandleSendGameDataRequest, HandleSendIntervalElapsed,
           ClientHandleKeepaliveElapsed, SendToServer, Datagram, GameData, ConnectInit,
           ConnectResponse, Keepalive, clientVars
<1>3. CASE ClientRecv(b, packet)
  BY <1>1, <1>3
     DEF ClientRecv, ClientHandleDisconnectPacket, HandleConnectChallengePacket,
         ClientHandleKeepalivePacket, ClientHandleGameDataPacket
<1>4. CASE ClientTimers(b) \/ ClientLife(b) \/ ClientTake(b)
  BY <1>1, <1>4
     DEF ClientTimers, ClientLife, ClientTake, ServerTimeoutExpires, HandleServerTimeout,
         ClientCancel, ClientDrop, Restart
<1> QED
  BY <1>2, <1>3, <1>4 DEF ClientDoes

-----------------------------------------------------------------------------
(* What a client does, and what follows for the responses it sends.        *)

\* A client stays, is replaced by a process with the next key, or keeps its
\* key: then it holds no secret, the one it held, or one it was challenged with.
ClientStep(a) ==
    LET c == clients[a]
        d == clients'[a]
    IN  \/ d = c
        \/ d.key = c.key + 1 /\ d.variant = "Connecting"
        \/ /\ d.key = c.key
           /\ d.variant # "Connecting"
           /\ Holds(a)' =>
                \/ Holds(a) /\ d.secret = c.secret /\ d.token = c.token
                \/ c.variant = "Connecting" /\ d.secret.client = d.key
        \/ /\ d.key = c.key
           /\ d.variant = c.variant /\ d.secret = c.secret /\ d.token = c.token

\* Every step of a client is such a step of each client.
LEMMA ClientSteps ==
  ASSUME ClientTypeOK, NEW a \in Addr, NEW b \in Addr, NEW packet, ClientDoes(b, packet)
  PROVE  ClientStep(a)
<1>1. clients \in [Addr -> Client] /\ clients[a] \in Client
  BY DEF ClientTypeOK
<1>2. CASE ClientRecv(b, packet) /\ b # a
  BY <1>1, <1>2
     DEF ClientStep, ClientRecv, ClientHandleDisconnectPacket, HandleConnectChallengePacket,
         ClientHandleKeepalivePacket, ClientHandleGameDataPacket, Confirm
<1>3. CASE ClientRecv(b, packet) /\ b = a
  <2>1. CASE ClientHandleDisconnectPacket(a, packet)
    BY <1>1, <2>1 DEF ClientStep, ClientHandleDisconnectPacket, Client, Holds
  <2>2. CASE HandleConnectChallengePacket(a, packet)
    BY <1>1, <2>2 DEF ClientStep, HandleConnectChallengePacket, Client, Exchange
  <2>3. CASE Confirm(a) /\ HasSecret(a)
    BY <1>1, <2>3 DEF ClientStep, Confirm, HasSecret, Holds, Client
  <2> QED
    BY <1>3, <2>1, <2>2, <2>3
       DEF ClientRecv, ClientHandleKeepalivePacket, ClientHandleGameDataPacket
<1>4. CASE ClientSends(b) \/ ClientTake(b)
  BY <1>4
     DEF ClientStep, ClientSends, ClientTake, clientVars, ClientHandleSendGameDataRequest,
         HandleSendIntervalElapsed, ClientHandleKeepaliveElapsed
<1>5. CASE ClientTimers(b)
  BY <1>1, <1>5
     DEF ClientStep, ClientTimers, ServerTimeoutExpires, HandleServerTimeout, Holds, Client
<1>6. CASE ClientLife(b)
  <2>1. CASE ClientCancel(b)
    BY <1>1, <2>1 DEF ClientStep, ClientCancel, Client
  <2>2. CASE ClientDrop(b)
    BY <1>1, <2>2 DEF ClientStep, ClientDrop, Holds, Client
  <2>3. CASE Restart(b)
    BY <1>1, <2>3 DEF ClientStep, Restart, NewClient
  <2> QED
    BY <1>6, <2>1, <2>2, <2>3 DEF ClientLife
<1> QED
  BY <1>2, <1>3, <1>4, <1>5, <1>6 DEF ClientDoes

\* The secrets of the clients and their responses stay as the invariant says.
LEMMA ResponsesStep ==
  ASSUME ClientInv, NEW b \in Addr, NEW packet, ClientDoes(b, packet)
  PROVE  SecretsAreOwn' /\ ResponsesPinned' /\ OneResponsePerProcess'
<1>1. ClientTypeOK /\ ToServerOK /\ ToServerOK'
  BY SentToServer DEF ClientInv
<1>2. \A a \in Addr : ClientStep(a)
  BY <1>1, ClientSteps
<1>3. \A m \in toServer' : m.addr \in Addr /\ m.packet \in ServerPacket
  BY <1>1 DEF ToServerOK
<1>4. SecretsAreOwn'
  BY <1>2 DEF ClientInv, SecretsAreOwn, ClientStep, Holds
<1>5. ASSUME NEW r \in toServer', r \notin toServer, r.packet.kind = "ConnectResponse"
      PROVE  /\ UNCHANGED clients /\ Holds(r.addr)
             /\ clients[r.addr].variant = "Responding"
             /\ r.packet = ConnectResponse(clients[r.addr].secret, clients[r.addr].token)
             /\ r.packet.secret.client = clients[r.addr].key
  <2>1. /\ UNCHANGED clients /\ clients[r.addr].variant = "Responding"
        /\ r.packet = ConnectResponse(clients[r.addr].secret, clients[r.addr].token)
    BY <1>1, <1>5, SentToServer
  <2>2. Holds(r.addr)
    BY <2>1 DEF Holds
  <2>3. r.packet.secret = clients[r.addr].secret
    BY <2>1 DEF ConnectResponse
  <2> QED
    BY <1>3, <2>1, <2>2, <2>3 DEF ClientInv, SecretsAreOwn
<1>6. ResponsesPinned'
  <2> SUFFICES ASSUME NEW m \in toServer', m.packet.kind = "ConnectResponse"
               PROVE  LET c == clients'[m.addr]
                          s == m.packet.secret
                      IN  /\ s.client <= c.key
                          /\ s.client = c.key =>
                                /\ c.variant # "Connecting"
                                /\ Holds(m.addr)' =>
                                      m.packet = ConnectResponse(c.secret, c.token)
    BY DEF ResponsesPinned
  <2>1. clients[m.addr].key \in Nat /\ m.packet.secret.client \in Nat
    <3>1. clients[m.addr].key \in Nat
      BY <1>1, <1>3, ClientAssumption DEF ClientTypeOK, Client
    <3>2. m.packet.secret \in SharedSecret
      BY <1>3 DEF ServerPacket, Sealed, SealedToken
    <3> QED
      BY <3>1, <3>2 DEF SharedSecret
  <2>2. CASE m \in toServer
    BY <1>2, <1>3, <2>1, <2>2 DEF ClientInv, ResponsesPinned, ClientStep, Holds
  <2>3. CASE m \notin toServer
    BY <1>5, <2>1, <2>3
  <2> QED
    BY <2>2, <2>3
<1>7. OneResponsePerProcess'
  <2> SUFFICES ASSUME NEW m \in toServer', NEW n \in toServer', m.addr = n.addr,
                      m.packet.kind = "ConnectResponse", n.packet.kind = "ConnectResponse",
                      m.packet.secret.client = n.packet.secret.client
               PROVE  m.packet = n.packet
    BY DEF OneResponsePerProcess
  <2> DEFINE now == ConnectResponse(clients[m.addr].secret, clients[m.addr].token)
  <2>1. ASSUME NEW r \in toServer', r.addr = m.addr, r.packet.kind = "ConnectResponse",
               UNCHANGED clients, Holds(m.addr),
               r.packet.secret.client = clients[m.addr].key
        PROVE  r.packet = now
    BY <1>6, <2>1 DEF ResponsesPinned, Holds
  <2> HIDE DEF now
  <2>2. CASE m \in toServer /\ n \in toServer
    BY <2>2 DEF ClientInv, OneResponsePerProcess
  <2> QED
    BY <1>5, <2>1, <2>2
<1> QED
  BY <1>4, <1>6, <1>7

\* Every step of a client keeps the clients' invariant.
LEMMA ClientKeepsInv ==
  ASSUME ClientInv, NEW b \in Addr, NEW packet, Readable(packet), ClientDoes(b, packet)
  PROVE  ClientInv'
<1>1. ClientTypeOK /\ ToServerOK
  BY DEF ClientInv
<1>2. ClientTypeOK'
  BY <1>1, ClientRecvKeepsType, ClientActsKeepType DEF ClientDoes
<1>3. ToServerOK'
  BY <1>1, SentToServer
<1> QED
  BY <1>2, <1>3, ResponsesStep DEF ClientInv

\* The invariant holds at first, and a step that leaves the clients alone
\* keeps it.
LEMMA ClientInvInit == NetInit /\ ClientInit => ClientInv
<1> SUFFICES ASSUME NetInit, ClientInit PROVE ClientInv
  OBVIOUS
<1>1. toServer = {}
  BY DEF NetInit
<1>2. \A a \in Addr : clients[a].variant = "Connecting"
  BY DEF ClientInit, NewClient
<1>3. ClientTypeOK
  BY ClientAssumption
     DEF ClientInit, ClientTypeOK, Client, NewClient, NoSecret, SharedSecret,
         ClientVariant, ClientTimer, ClientPhase
<1> QED
  BY <1>1, <1>2, <1>3
     DEF ClientInv, ToServerOK, SecretsAreOwn, ResponsesPinned, OneResponsePerProcess, Holds

LEMMA ClientInvKept ==
  ASSUME ClientInv, UNCHANGED <<clientVars, toServer>>
  PROVE  ClientInv'
  BY DEF clientVars, ClientInv, ClientTypeOK, ToServerOK, SecretsAreOwn, ResponsesPinned,
         OneResponsePerProcess, Holds

-----------------------------------------------------------------------------
(* The events of a client are those ClientEventStream allows.  Nothing is  *)
(* used of the packets that arrive.                                        *)

\* What the stream sees of a client depends on the client and its channel.
LEMMA StreamOfOthers ==
  ASSUME NEW a \in Addr, UNCHANGED <<clients[a], clientEvents[a]>>
  PROVE  Stream(a)!StreamStep
  BY DEF Stream!StreamStep, Stream!streamVars

\* Tell puts announcements at the end of the channel, if there is room.
LEMMA TellAnnounces ==
  ASSUME ClientTypeOK, NEW a \in Addr, NEW what, Tell(a, what)
  PROVE  Stream(a)!Announce(what)
  BY DEF ClientTypeOK, Tell, Stream!Announce

\* A second announcement after the first.
LEMMA AppendToOne ==
  ASSUME NEW x, NEW y
  PROVE  Append(<<x>>, y) = <<x, y>>
<1> DEFINE S == {x, y}
           s == Append(<<x>>, y)
           t == <<x, y>>
<1>1. x \in S /\ y \in S
  OBVIOUS
<1> HIDE DEF S
<1>2. <<x>> \in Seq(S) /\ Len(<<x>>) = 1
  BY <1>1
<1>3. s \in Seq(S) /\ Len(s) = 2
  BY <1>1, <1>2
<1>4. s[1] = x /\ s[2] = y
  BY <1>1, <1>2
<1>5. t \in Seq(S) /\ Len(t) = 2
  BY <1>1
<1>6. t[1] = x /\ t[2] = y
  OBVIOUS
<1> HIDE DEF s, t
<1>7. s = t
  BY <1>3, <1>4, <1>5, <1>6
<1> QED
  BY <1>7 DEF s, t

\* Whatever packet arrives, the client announces what its stage allows.
LEMMA RecvStreams ==
  ASSUME ClientTypeOK, NEW a \in Addr, NEW packet, ClientRecv(a, packet)
  PROVE  Stream(a)!StreamStep
<1> DEFINE c == clients[a]
           d == clients'[a]
<1>1. clients \in [Addr -> Client] /\ c \in Client /\ c.phase = "Running"
  BY DEF ClientTypeOK, ClientRecv, Running
<1>2. CASE ClientHandleDisconnectPacket(a, packet)
  <2>1. Stream(a)!Announce(<<"Disconnected">>)
    BY <1>2, TellAnnounces DEF ClientHandleDisconnectPacket
  <2>2. /\ c.variant \in {"Responding", "Connected"} /\ d.variant = "Disconnected"
        /\ d.timeout = c.timeout /\ d.phase = c.phase
    BY <1>1, <1>2 DEF ClientHandleDisconnectPacket, HasSecret, Client
  <2>3. Stream(a)!Refused
    BY <1>1, <2>1, <2>2 DEF Stream!Refused
  <2> QED
    BY <2>3 DEF Stream!StreamStep, Stream!StreamNext
<1>3. CASE HandleConnectChallengePacket(a, packet)
  <2>1. Stream(a)!Announce(<<"Responding">>)
    BY <1>3, TellAnnounces DEF HandleConnectChallengePacket
  <2>2. /\ c.variant = "Connecting" /\ d.variant = "Responding"
        /\ d.timeout = c.timeout /\ d.phase = c.phase
    BY <1>1, <1>3 DEF HandleConnectChallengePacket, Client
  <2>3. Stream(a)!Challenged
    BY <1>1, <2>1, <2>2 DEF Stream!Challenged
  <2> QED
    BY <2>3 DEF Stream!StreamStep, Stream!StreamNext
<1>4. ASSUME HasSecret(a), Confirm(a)
      PROVE  /\ c.variant \in {"Responding", "Connected"} /\ d.variant = "Connected"
             /\ (d.timeout # "None") = (c.timeout # "None")
             /\ d.phase = c.phase
  BY <1>1, <1>4 DEF HasSecret, Confirm, Client
<1>5. CASE ClientHandleKeepalivePacket(a, packet)
  <2>1. HasSecret(a) /\ Confirm(a) /\ Tell(a, ConfirmEvent(a))
    BY <1>5 DEF ClientHandleKeepalivePacket
  <2>2. CASE c.variant = "Responding"
    <3>1. Stream(a)!Announce(<<"Connected">>)
      BY <2>1, <2>2, TellAnnounces DEF ConfirmEvent
    <3>2. Stream(a)!Confirmed
      BY <1>1, <1>4, <2>1, <2>2, <3>1 DEF Stream!Confirmed
    <3> QED
      BY <3>2 DEF Stream!StreamStep, Stream!StreamNext
  <2>3. CASE c.variant = "Connected"
    <3>1. clientEvents'[a] = clientEvents[a]
      BY <2>1, <2>3 DEF ClientTypeOK, Tell, ConfirmEvent
    <3> QED
      BY <1>4, <2>1, <2>3, <3>1 DEF Stream!StreamStep, Stream!streamVars
  <2> QED
    BY <1>4, <2>1, <2>2, <2>3
<1>6. CASE ClientHandleGameDataPacket(a, packet)
  <2>1. HasSecret(a) /\ Confirm(a) /\ Tell(a, Append(ConfirmEvent(a), "GameData"))
    BY <1>6 DEF ClientHandleGameDataPacket
  <2>2. CASE c.variant = "Responding"
    <3>1. Append(ConfirmEvent(a), "GameData") = <<"Connected", "GameData">>
      <4>1. ConfirmEvent(a) = <<"Connected">>
        BY <2>2 DEF ConfirmEvent
      <4>2. Append(<<"Connected">>, "GameData") = <<"Connected", "GameData">>
        BY AppendToOne
      <4> QED
        BY <4>1, <4>2
    <3>2. Stream(a)!Announce(<<"Connected", "GameData">>)
      BY <2>1, <3>1, TellAnnounces
    <3>3. Stream(a)!Confirmed
      BY <1>1, <1>4, <2>1, <2>2, <3>2 DEF Stream!Confirmed
    <3> QED
      BY <3>3 DEF Stream!StreamStep, Stream!StreamNext
  <2>3. CASE c.variant = "Connected"
    <3>1. Append(ConfirmEvent(a), "GameData") = <<"GameData">>
      BY <2>3 DEF ConfirmEvent
    <3>2. Stream(a)!Announce(<<"GameData">>)
      BY <2>1, <3>1, TellAnnounces
    <3>3. Stream(a)!Received
      BY <1>1, <1>4, <2>1, <2>3, <3>2 DEF Stream!Received
    <3> QED
      BY <3>3 DEF Stream!StreamStep, Stream!StreamNext
  <2> QED
    BY <1>4, <2>1, <2>2, <2>3
<1> QED
  BY <1>2, <1>3, <1>5, <1>6 DEF ClientRecv

\* So do its timers, its end and the process that follows it.
LEMMA LifeStreams ==
  ASSUME ClientTypeOK, NEW a \in Addr, ClientTimers(a) \/ ClientLife(a) \/ ClientTake(a)
  PROVE  Stream(a)!StreamStep
<1> DEFINE c == clients[a]
           d == clients'[a]
<1>1. clients \in [Addr -> Client] /\ c \in Client
  BY DEF ClientTypeOK
<1>2. CASE Running(a) /\ ServerTimeoutExpires(a)
  BY <1>1, <1>2 DEF ServerTimeoutExpires, Client, Stream!StreamStep, Stream!streamVars
<1>3. CASE Running(a) /\ HandleServerTimeout(a)
  <2>1. Stream(a)!Announce(<<"Disconnected">>)
    BY <1>3, TellAnnounces DEF HandleServerTimeout
  <2>2. /\ c.timeout = "Due" /\ d.timeout = "None" /\ d.variant = "Disconnected"
        /\ d.phase = c.phase /\ c.phase = "Running"
    BY <1>1, <1>3 DEF HandleServerTimeout, Client, Running
  <2>3. Stream(a)!TimedOut
    BY <2>1, <2>2 DEF Stream!TimedOut
  <2> QED
    BY <2>3 DEF Stream!StreamStep, Stream!StreamNext
<1>4. CASE ClientCancel(a)
  <2>1. /\ d.variant = c.variant /\ d.timeout = c.timeout
        /\ c.phase = "Running" /\ d.phase = "Exiting"
    BY <1>1, <1>4 DEF ClientCancel, Client, Running
  <2>2. \/ UNCHANGED clientEvents
        \/ c.variant # "Disconnected" /\ Stream(a)!Announce(<<"Disconnected">>)
    BY <1>4, TellAnnounces DEF ClientCancel
  <2>3. Stream(a)!Cancelled
    BY <2>1, <2>2 DEF Stream!Cancelled
  <2> QED
    BY <2>3 DEF Stream!StreamStep, Stream!StreamNext
<1>5. CASE ClientDrop(a)
  <2>1. Stream(a)!Announce(<<"Dropped">>)
    BY <1>5, TellAnnounces DEF ClientDrop
  <2>2. /\ c.phase = "Exiting" /\ d.phase = "Stopped"
        /\ d.variant = "Disconnected" /\ d.timeout = "None"
    BY <1>1, <1>5 DEF ClientDrop, Client
  <2>3. Stream(a)!Ended
    BY <2>1, <2>2 DEF Stream!Ended
  <2> QED
    BY <2>3 DEF Stream!StreamStep, Stream!StreamNext
<1>6. CASE Restart(a)
  <2>1. /\ d.variant = "Connecting" /\ d.timeout = "Fresh" /\ d.phase = "Running"
        /\ clientEvents'[a] = <<>>
    BY <1>1, <1>6 DEF Restart, NewClient, ClientTypeOK
  <2>2. Stream(a)!Restarted
    BY <2>1 DEF Stream!Restarted, Stream!Fresh
  <2> QED
    BY <2>2 DEF Stream!StreamStep, Stream!StreamNext
<1>7. CASE ClientTake(a)
  <2>1. /\ clientEvents[a] # <<>> /\ clientEvents'[a] = Tail(clientEvents[a])
        /\ d = c
    BY <1>7 DEF ClientTake, ClientTypeOK
  <2>2. Stream(a)!Taken
    BY <2>1 DEF Stream!Taken
  <2> QED
    BY <2>2 DEF Stream!StreamStep, Stream!StreamNext
<1> QED
  BY <1>2, <1>3, <1>4, <1>5, <1>6, <1>7 DEF ClientTimers, ClientLife

\* Every step of a client is one for the stream of every client.
LEMMA ClientsStream ==
  ASSUME ClientTypeOK, NEW a \in Addr, NEW b \in Addr, NEW packet, ClientDoes(b, packet)
  PROVE  Stream(a)!StreamStep
<1>1. CASE ClientSends(b)
  BY <1>1, StreamOfOthers
     DEF ClientSends, ClientHandleSendGameDataRequest, HandleSendIntervalElapsed,
         ClientHandleKeepaliveElapsed, clientVars
<1>2. CASE b # a /\ ~ClientSends(b)
  <2>1. UNCHANGED <<clients[a], clientEvents[a]>>
    BY <1>2
       DEF ClientDoes, ClientTypeOK, ClientRecv, ClientHandleDisconnectPacket,
           HandleConnectChallengePacket, ClientHandleKeepalivePacket,
           ClientHandleGameDataPacket, Confirm, Tell, ClientTimers, ServerTimeoutExpires,
           HandleServerTimeout, ClientLife, ClientCancel, ClientDrop, Restart, ClientTake
  <2> QED
    BY <2>1, StreamOfOthers
<1>3. CASE b = a /\ ~ClientSends(b)
  BY <1>3, RecvStreams, LifeStreams DEF ClientDoes
<1> QED
  BY <1>1, <1>2, <1>3

\* At first every stream is at its beginning.
LEMMA StreamsInit == ClientInit => \A addr \in Addr : Stream(addr)!StreamInit
<1> SUFFICES ASSUME ClientInit, NEW a \in Addr PROVE Stream(a)!StreamInit
  OBVIOUS
<1>1. /\ clients[a].variant = "Connecting" /\ clients[a].timeout = "Fresh"
      /\ clients[a].phase = "Running" /\ clientEvents[a] = <<>>
  BY DEF ClientInit, NewClient
<1>2. (clients[a].timeout # "None") = TRUE
  BY <1>1
<1> QED
  BY <1>1, <1>2 DEF Stream!StreamInit, Stream!Fresh

-----------------------------------------------------------------------------
(* The clients among arbitrary servers.                                    *)

\* A step of a client is one of its handlers, on a packet that carries
\* numbers when it is a challenge.
LEMMA OpenClientDoes ==
  ASSUME ClientTypeOK, NEW a \in Addr, OpenClientStep(a)
  PROVE  \E packet : Readable(packet) /\ ClientDoes(a, packet)
<1>1. ASSUME NEW p \in ServerSays(a), ClientRecv(a, p)
      PROVE  Readable(p) /\ ClientDoes(a, p)
  BY <1>1, ServerKeyAssumption
     DEF ServerSays, Exchange, ConnectChallenge, Readable, ClientDoes
<1>2. CASE ClientSends(a) \/ ClientTimers(a) \/ ClientLife(a) \/ ClientTake(a)
  <2> DEFINE p == Keepalive(NoSecret)
  <2>1. p.kind # "ConnectChallenge"
    BY DEF Keepalive
  <2>2. Readable(p)
    BY <2>1 DEF Readable
  <2> HIDE DEF p
  <2>3. ClientDoes(a, p)
    BY <1>2 DEF ClientDoes
  <2> QED
    BY <2>2, <2>3
<1> QED
  BY <1>1, <1>2 DEF OpenClientStep

\* Every step of the clients and of their servers keeps the clients' invariant.
LEMMA OpenClientKeepsInv == ClientInv /\ [OpenClientNext]_openClientVars => ClientInv'
<1>1. ASSUME ClientInv, OpenClientNext PROVE ClientInv'
  BY <1>1, OpenClientDoes, ClientKeepsInv DEF OpenClientNext, ClientInv
<1> QED
  BY <1>1, ClientInvKept DEF openClientVars, netVars

\* The inductive invariant of the clients among arbitrary servers.
THEOREM OpenClientInvariant == OpenClientSpec => []ClientInv
<1>1. OpenClientInit => ClientInv
  BY ClientInvInit DEF OpenClientInit
<1> QED
  BY <1>1, OpenClientKeepsInv, PTL DEF OpenClientSpec

\* The clients and their event channels keep their types, whatever servers
\* send, and no channel holds more than its buffer.
THEOREM OpenClientTypes == OpenClientSpec => []ClientTypeOK
<1>1. ClientInv => ClientTypeOK
  BY DEF ClientInv
<1> QED
  BY <1>1, OpenClientInvariant, PTL

\* A process answers one challenge, however many it is sent and by whom.
THEOREM OneChallengeIsAnswered == OpenClientSpec => []OneResponsePerProcess
<1>1. ClientInv => OneResponsePerProcess
  BY DEF ClientInv
<1> QED
  BY <1>1, OpenClientInvariant, PTL

\* The events of a client process are those ClientEventStream allows,
\* whatever servers send: the session client may rely on their order.
THEOREM OpenClientsAnnounce == OpenClientSpec => ImplementsClientEventStream
<1>1. OpenClientInit => \A addr \in Addr : Stream(addr)!StreamInit
  BY StreamsInit DEF OpenClientInit
<1>2. ASSUME ClientInv, OpenClientNext PROVE \A a \in Addr : Stream(a)!StreamStep
  BY <1>2, OpenClientDoes, ClientsStream DEF OpenClientNext, ClientInv
<1>3. ClientInv /\ [OpenClientNext]_openClientVars
        => [\A addr \in Addr : Stream(addr)!StreamStep]_clientVars
  BY <1>2 DEF openClientVars
<1> QED
  BY <1>1, <1>3, OpenClientInvariant, PTL DEF OpenClientSpec, ImplementsClientEventStream

-----------------------------------------------------------------------------
(* Both together.  A step is one of the server's, with its requests and    *)
(* its receiver, or one of a client's.                                     *)

ToClientOK == toClient \subseteq [addr : Addr, packet : ClientPacket]

Types ==
    /\ ServerInv
    /\ ClientInv
    /\ ToClientOK
    /\ seen \in [Addr -> EventWhat \cup {"None"}]
    /\ accepted \subseteq SharedSecret

\* Both sides and the network start as their invariants say.
LEMMA TypesInit == Init => Types
  BY ServerInvInit, ClientInvInit DEF Init, NetInit, Types, ToClientOK

\* The model's type invariant and the server's properties follow.
LEMMA TypesImply == Types => TypeOK /\ TimersMatchVariant /\ KeysApart
  BY ServerInvImplies DEF Types, ClientInv, ToServerOK, ToClientOK, TypeOK

\* A step of a client, with what it leaves alone.
ClientsDo == \E addr \in Addr : ClientRecvs(addr) \/ ClientActs(addr)

\* A step of the server, of its timers or of its receiver.
ServerDoes ==
    \/ ServerRecv
    \/ \E addr \in Addr : SessionRequest(addr) \/ ServerTimer(addr)
    \/ ServerEnds
    \/ SessionTake

LEMMA SidesTakeTurns == Next => ServerDoes \/ ClientsDo
  BY DEF Next, ServerDoes, ClientsDo

\* A step of a client is one of its handlers, on a packet that was sent to
\* it; the server stays as it is.
LEMMA ClientsDoSteps ==
  ASSUME Types, ClientsDo
  PROVE  /\ \E a \in Addr : \E packet : Readable(packet) /\ ClientDoes(a, packet)
         /\ UNCHANGED <<serverVars, toClient, seen, accepted>>
<1>1. ASSUME NEW a \in Addr, ClientRecvs(a)
      PROVE  \E packet : Readable(packet) /\ ClientDoes(a, packet)
  <2>1. PICK m \in toClient : m.addr = a /\ ClientRecv(a, m.packet)
    BY <1>1 DEF ClientRecvs
  <2>2. Readable(m.packet)
    BY DEF Types, ToClientOK, ClientPacket, Challenge, Sealed, Readable
  <2> QED
    BY <2>1, <2>2 DEF ClientDoes
<1>2. ASSUME NEW a \in Addr, ClientActs(a)
      PROVE  \E packet : Readable(packet) /\ ClientDoes(a, packet)
  <2> DEFINE p == Keepalive(NoSecret)
  <2>1. p.kind # "ConnectChallenge"
    BY DEF Keepalive
  <2>2. Readable(p)
    BY <2>1 DEF Readable
  <2> HIDE DEF p
  <2>3. ClientDoes(a, p)
    BY <1>2 DEF ClientActs, ClientDoes
  <2> QED
    BY <2>2, <2>3
<1> QED
  BY <1>1, <1>2 DEF ClientsDo, ClientRecvs, ClientActs

\* A step of the server leaves the clients and what they sent alone.
LEMMA ServerLeavesClients ==
  ASSUME ServerDoes
  PROVE  UNCHANGED <<clientVars, toServer>>
  BY DEF ServerDoes, ServerRecv, SessionRequest, ServerTimer, ServerEnds, SessionTake, netVars

\* A step of the server is one of its handlers: it keeps its invariant, and
\* announces what ConnectionEvents prescribes.
LEMMA ServerDoesSteps ==
  ASSUME Types, ServerDoes
  PROVE  ServerInv' /\ [Events!EventsNext]_(Events!eventVars)
<1>1. ServerInv
  BY DEF Types
<1>2. CASE ServerRecv
  <2>1. PICK m \in toServer : HandleSocketRecv(m.addr, m.packet)
    BY <1>2 DEF ServerRecv
  <2>2. m.addr \in Addr /\ (m.packet.kind = "ConnectInit" => m.packet.key \in Nat)
    BY DEF Types, ClientInv, ToServerOK, ServerPacket, SealedToken, Sealed
  <2>3. phase = "Running"
    BY <1>2 DEF ServerRecv
  <2> QED
    BY <1>1, <2>1, <2>2, <2>3, RecvKeepsInv, RecvAnnounces
<1>3. ASSUME NEW a \in Addr, SessionRequest(a) \/ ServerTimer(a)
      PROVE  ServerInv' /\ [Events!EventsNext]_(Events!eventVars)
  <2>1. phase = "Running" /\ (ServerTimers(a) \/ HandleSendGameDataRequest(a))
    BY <1>3 DEF SessionRequest, ServerTimer
  <2> QED
    BY <1>1, <2>1, TimersKeepInv, TimersAnnounce
<1>4. CASE ServerEnds
  BY <1>1, <1>4, ShutdownKeepsInv, ShutdownAnnounces DEF ServerEnds
<1>5. CASE SessionTake
  BY <1>1, <1>5, TakeKeepsInv, TakeAnnounces DEF SessionTake
<1> QED
  BY <1>2, <1>3, <1>4, <1>5 DEF ServerDoes

\* Every packet the server makes is one that clients can be sent.
LEMMA PacketsToClient ==
  ASSUME NEW c \in Connection
  PROVE  /\ ConnectChallenge(c.secret.server, c.secret, c.token) \in ClientPacket
         /\ Keepalive(c.secret) \in ClientPacket
         /\ GameData(c.secret) \in ClientPacket
         /\ Disconnect(c.secret) \in ClientPacket
  BY DEF Connection, SharedSecret, ClientPacket, Challenge, Sealed,
         ConnectChallenge, Keepalive, GameData, Disconnect

\* What the server sends: packets of their type, a challenge for a Pending
\* connection, a keepalive for a Connected one, and the connection stays as
\* it is.
LEMMA SentToClient ==
  ASSUME Types, Next
  PROVE  /\ ToClientOK'
         /\ toClient \subseteq toClient'
         /\ \A m \in toClient' \ toClient :
               /\ m.packet.kind = "ConnectChallenge" =>
                     /\ UNCHANGED <<conns, gen>>
                     /\ conns[m.addr].variant = "Pending"
                     /\ m.packet.secret = conns[m.addr].secret
               /\ m.packet.kind = "Keepalive" =>
                     /\ conns[m.addr].variant = "Connected"
                     /\ m.packet.secret = conns[m.addr].secret
<1> DEFINE Sent ==
         /\ toClient \subseteq toClient'
         /\ \A m \in toClient' \ toClient :
               /\ m.packet.kind = "ConnectChallenge" =>
                     /\ UNCHANGED <<conns, gen>>
                     /\ conns[m.addr].variant = "Pending"
                     /\ m.packet.secret = conns[m.addr].secret
               /\ m.packet.kind = "Keepalive" =>
                     /\ conns[m.addr].variant = "Connected"
                     /\ m.packet.secret = conns[m.addr].secret
<1>1. CASE UNCHANGED toClient
  BY <1>1 DEF Types, ToClientOK
<1>2. ASSUME NEW a \in Addr, NEW packet \in ClientPacket, SendToClient(a, packet)
      PROVE  ToClientOK'
  BY <1>2 DEF SendToClient, Datagram, Types, ToClientOK
<1>3. \A a \in Addr : conns[a] \in Connection
  BY DEF Types, ServerInv, TableOK, Entry
<1>4. ASSUME NEW a \in Addr, SessionRequest(a) PROVE ToClientOK' /\ Sent
  <2>1. ToClientOK'
    BY <1>2, <1>3, <1>4, PacketsToClient DEF SessionRequest, HandleSendGameDataRequest
  <2> QED
    BY <1>4, <2>1 DEF SessionRequest, HandleSendGameDataRequest, SendToClient, Datagram, GameData
<1>5. ASSUME NEW a \in Addr, ServerTimers(a) PROVE ToClientOK' /\ Sent
  <2>1. CASE TimeoutExpires(a) \/ HandleClientTimeout(a)
    BY <1>1, <2>1 DEF TimeoutExpires, HandleClientTimeout
  <2>2. CASE HandleDisconnectElapsed(a)
    <3>1. ToClientOK'
      BY <1>2, <1>3, <2>2, PacketsToClient DEF HandleDisconnectElapsed
    <3> QED
      BY <2>2, <3>1 DEF HandleDisconnectElapsed, SendToClient, Datagram, Disconnect
  <2>3. CASE HandlePendingConnectionSend(a)
    <3>1. ToClientOK'
      BY <1>2, <1>3, <2>3, PacketsToClient DEF HandlePendingConnectionSend
    <3> QED
      BY <2>3, <3>1 DEF HandlePendingConnectionSend, SendToClient, Datagram, ConnectChallenge
  <2>4. CASE HandleKeepaliveElapsed(a)
    <3>1. ToClientOK'
      BY <1>2, <1>3, <2>4, PacketsToClient DEF HandleKeepaliveElapsed
    <3> QED
      BY <2>4, <3>1 DEF HandleKeepaliveElapsed, SendToClient, Datagram, Keepalive
  <2> QED
    BY <1>5, <2>1, <2>2, <2>3, <2>4 DEF ServerTimers
<1>6. CASE ClientsDo
  BY <1>1, <1>6 DEF ClientsDo, ClientRecvs, ClientActs
<1>7. CASE ServerRecv \/ ServerEnds \/ SessionTake
  BY <1>1, <1>7
     DEF ServerRecv, ServerEnds, SessionTake, netVars, HandleSocketRecv,
         HandleDisconnectPacket, HandleConnectInitPacket, HandleConnectResponsePacket,
         HandleKeepalivePacket, HandleGameDataPacket, ServerShutdown, Cancel,
         HandleCancelled, Drained, Drop
<1> QED
  BY <1>4, <1>5, <1>6, <1>7, SidesTakeTurns DEF ServerDoes, ServerTimer

\* Every step of the server, of a client or of the network keeps the types.
LEMMA TypesStep == Types /\ [Next]_vars => Types'
<1>1. ASSUME Types, UNCHANGED vars PROVE Types'
  BY <1>1, ServerInvKept, ClientInvKept DEF Types, ToClientOK, vars, netVars
<1>2. ASSUME Types, ClientsDo PROVE Types'
  <2>1. ClientInv'
    BY <1>2, ClientsDoSteps, ClientKeepsInv DEF Types
  <2>2. ServerInv'
    BY <1>2, ClientsDoSteps, ServerInvKept DEF Types
  <2> QED
    BY <1>2, <2>1, <2>2, ClientsDoSteps DEF Types, ToClientOK
<1>3. ASSUME Types, Next, ServerDoes PROVE Types'
  <2>1. ServerInv' /\ ClientInv' /\ ToClientOK'
    BY <1>3, ServerDoesSteps, ServerLeavesClients, ClientInvKept, SentToClient DEF Types
  <2>2. accepted' \subseteq SharedSecret
    <3>1. \A a \in Addr : conns'[a].secret \in SharedSecret
      BY <2>1 DEF ServerInv, TableOK, Entry, Connection
    <3> QED
      BY <1>3, <3>1
         DEF Types, ServerDoes, ServerRecv, SessionRequest, ServerTimer, ServerEnds, SessionTake
  <2>3. seen' \in [Addr -> EventWhat \cup {"None"}]
    <3>1. CASE SessionTake
      <4>1. Head(events) \in ChannelEvent
        BY <1>3, <3>1 DEF SessionTake, Types, ServerInv, ChannelOK
      <4>2. Head(events) = Dropped \/ Head(events).what \in EventWhat
        BY <4>1 DEF ChannelEvent
      <4> QED
        BY <1>3, <3>1, <4>2 DEF SessionTake, Types
    <3> QED
      BY <1>3, <3>1 DEF Types, ServerDoes, ServerRecv, SessionRequest, ServerTimer, ServerEnds
  <2> QED
    BY <2>1, <2>2, <2>3 DEF Types
<1> QED
  BY <1>1, <1>2, <1>3, SidesTakeTurns

\* The inductive invariants of both sides hold when they run together.
LEMMA TypesInvariant == Spec => []Types
  BY TypesInit, TypesStep, PTL DEF Spec

\* In every reachable state the server's table, the clients, the event channels
\* and the datagrams in flight have their types, and no channel holds more than
\* its buffer.
THEOREM TypesCorrect == Spec => []TypeOK
  BY TypesImply, TypesInvariant, PTL

-----------------------------------------------------------------------------
(* What a step may do to an entry of the server and to a client's secret.  *)

\* How a step may change the entry of an address: it stays, it goes, it is
\* made with a new key, or it moves on with its secret and its token.
EntryStep(a) ==
    LET c == conns[a]
        d == conns'[a]
    IN  \/ d = c
        \/ d = NoConnection
        \/ /\ c.variant = "None" /\ d.variant = "Pending"
           /\ gen' = gen + 1 /\ d.secret.server = gen + 1
        \/ /\ c.variant # "None" /\ d.variant # "None"
           /\ d.secret = c.secret /\ d.token = c.token
           /\ d.variant = "Pending" => c.variant = "Pending"
           /\ d.variant = "Connected" =>
                \/ c.variant = "Connected"
                \/ /\ c.variant = "Pending"
                   /\ Datagram(a, ConnectResponse(c.secret, c.token)) \in toServer
                   /\ c.secret \in accepted'

\* What one step may do to an entry of the server's table.
LEMMA EntrySteps ==
  ASSUME Types, Next, NEW a \in Addr
  PROVE  EntryStep(a)
<1>1. conns \in [Addr -> Entry] /\ conns[a] \in Entry /\ conns[a] \in Connection
  BY DEF Types, ServerInv, TableOK, Entry
<1>2. ASSUME UNCHANGED conns PROVE EntryStep(a)
  BY <1>2 DEF EntryStep
<1>3. CASE ServerRecv
  <2>1. PICK m \in toServer : HandleSocketRecv(m.addr, m.packet)
    BY <1>3 DEF ServerRecv
  <2>2. m.addr \in Addr /\ m.packet \in ServerPacket /\ m = Datagram(m.addr, m.packet)
    BY DEF Types, ClientInv, ToServerOK, Datagram
  <2>3. CASE m.addr # a
    BY <1>1, <2>1, <2>2, <2>3
       DEF EntryStep, HandleSocketRecv, HandleDisconnectPacket, HandleConnectInitPacket,
           HandleConnectResponsePacket, HandleKeepalivePacket, HandleGameDataPacket
  <2>4. CASE m.addr = a
    <3>1. CASE HandleDisconnectPacket(a, m.packet)
      BY <1>1, <3>1 DEF EntryStep, HandleDisconnectPacket
    <3>2. CASE HandleConnectInitPacket(a, m.packet)
      BY <1>1, <3>2 DEF EntryStep, HandleConnectInitPacket, PendingConnection, Exchange
    <3>3. CASE HandleConnectResponsePacket(a, m.packet)
      <4>1. m.packet = ConnectResponse(conns[a].secret, conns[a].token)
        BY <2>2, <3>3
           DEF HandleConnectResponsePacket, ServerPacket, SealedToken, Sealed, Opens,
               ConnectResponse
      <4>2. /\ conns'[a].variant = "Connected"
            /\ conns'[a].secret = conns[a].secret /\ conns'[a].token = conns[a].token
        BY <1>1, <3>3 DEF HandleConnectResponsePacket, Connection
      <4>3. conns'[a].secret \in accepted'
        BY <1>3, <4>2 DEF ServerRecv
      <4>4. conns[a].variant = "Pending"
        BY <3>3 DEF HandleConnectResponsePacket
      <4> QED
        BY <2>2, <2>4, <4>1, <4>2, <4>3, <4>4 DEF EntryStep
    <3>4. CASE HandleKeepalivePacket(a, m.packet)
      BY <1>1, <3>4 DEF EntryStep, HandleKeepalivePacket, Connection
    <3>5. CASE HandleGameDataPacket(a, m.packet)
      BY <1>1, <3>5 DEF EntryStep, HandleGameDataPacket, Connection
    <3> QED
      BY <2>1, <2>4, <3>1, <3>2, <3>3, <3>4, <3>5 DEF HandleSocketRecv
  <2> QED
    BY <2>3, <2>4
<1>4. ASSUME NEW b \in Addr, ServerTimer(b) PROVE EntryStep(a)
  <2>1. CASE TimeoutExpires(b)
    <3>1. b = a => conns[a].variant # "None"
      BY <1>1, <2>1, EntryParts DEF TimeoutExpires
    <3> QED
      BY <1>1, <2>1, <3>1 DEF EntryStep, TimeoutExpires, Connection
  <2>2. CASE HandleClientTimeout(b)
    <3>1. b = a => conns[a].variant # "None"
      BY <1>1, <2>2, EntryParts DEF HandleClientTimeout
    <3> QED
      BY <1>1, <2>2, <3>1 DEF EntryStep, HandleClientTimeout, Connection
  <2>3. CASE HandleDisconnectElapsed(b)
    BY <1>1, <2>3 DEF EntryStep, HandleDisconnectElapsed, Connection
  <2>4. CASE HandlePendingConnectionSend(b) \/ HandleKeepaliveElapsed(b)
    BY <1>2, <2>4 DEF HandlePendingConnectionSend, HandleKeepaliveElapsed
  <2> QED
    BY <1>4, <2>1, <2>2, <2>3, <2>4 DEF ServerTimer, ServerTimers
<1>5. ASSUME NEW b \in Addr, SessionRequest(b) \/ ClientRecvs(b) \/ ClientActs(b)
      PROVE  EntryStep(a)
  BY <1>2, <1>5
     DEF SessionRequest, HandleSendGameDataRequest, ClientRecvs, ClientActs, serverVars
<1>6. CASE ServerEnds
  BY <1>1, <1>2, <1>6
     DEF EntryStep, ServerEnds, ServerShutdown, Cancel, HandleCancelled, Drained, Drop
<1>7. CASE SessionTake
  BY <1>2, <1>7 DEF SessionTake
<1> QED
  BY <1>3, <1>4, <1>5, <1>6, <1>7 DEF Next

\* A secret that a client takes came with a challenge for its address.
LEMMA SecretsAreChallenged ==
  ASSUME Types, Next, NEW a \in Addr, Holds(a)'
  PROVE  LET d == clients'[a]
         IN  \/ /\ Holds(a) /\ d.secret = clients[a].secret /\ d.token = clients[a].token
             \/ Datagram(a, ConnectChallenge(d.secret.server, d.secret, d.token)) \in toClient
<1> DEFINE d == clients'[a]
           Kept == Holds(a) /\ d.secret = clients[a].secret /\ d.token = clients[a].token
           m == ConnectChallenge(d.secret.server, d.secret, d.token)
<1>1. clients \in [Addr -> Client] /\ clients[a] \in Client /\ ClientTypeOK
  BY DEF Types, ClientInv, ClientTypeOK
<1>2. CASE ServerDoes
  BY <1>2, ServerLeavesClients DEF clientVars, Holds
<1>3. ASSUME NEW b \in Addr, ClientActs(b) PROVE Kept
  <2>1. CASE ClientSends(b) \/ ClientTake(b)
    BY <2>1
       DEF ClientSends, ClientHandleSendGameDataRequest, HandleSendIntervalElapsed,
           ClientHandleKeepaliveElapsed, clientVars, ClientTake, Holds
  <2>2. CASE ClientTimers(b)
    BY <1>1, <2>2
       DEF ClientTimers, ServerTimeoutExpires, HandleServerTimeout, Holds, Client
  <2>3. CASE ClientLife(b)
    <3>1. CASE ClientCancel(b)
      BY <1>1, <3>1 DEF ClientCancel, Holds, Client
    <3>2. CASE ClientDrop(b)
      BY <1>1, <3>2 DEF ClientDrop, Holds, Client
    <3>3. CASE Restart(b)
      BY <1>1, <3>3 DEF Restart, NewClient, Holds, Client
    <3> QED
      BY <2>3, <3>1, <3>2, <3>3 DEF ClientLife
  <2> QED
    BY <1>3, <2>1, <2>2, <2>3 DEF ClientActs
<1>4. ASSUME NEW b \in Addr, ClientRecvs(b) PROVE Kept \/ Datagram(a, m) \in toClient
  <2>1. PICK n \in toClient : n.addr = b /\ ClientRecv(b, n.packet)
    BY <1>4 DEF ClientRecvs
  <2>2. n.packet \in ClientPacket /\ n = Datagram(b, n.packet)
    BY <2>1 DEF Types, ToClientOK, Datagram
  <2>3. CASE b = a /\ HandleConnectChallengePacket(a, n.packet)
    <3> DEFINE s == Exchange(clients[a].key, n.packet.key)
    <3>1. n.packet = ConnectChallenge(s.server, s, n.packet.token)
      BY <2>2, <2>3
         DEF HandleConnectChallengePacket, ClientPacket, Challenge, Sealed, Opens,
             Exchange, ConnectChallenge
    <3>2. d.secret = s /\ d.token = n.packet.token
      BY <1>1, <2>3 DEF HandleConnectChallengePacket, Client
    <3> HIDE DEF s
    <3> QED
      BY <2>2, <2>3, <3>1, <3>2
  <2>4. CASE b # a
    BY <1>1, <2>1, <2>4
       DEF ClientRecv, ClientHandleDisconnectPacket, HandleConnectChallengePacket,
           ClientHandleKeepalivePacket, ClientHandleGameDataPacket, Confirm, Holds
  <2>5. CASE b = a /\ ~HandleConnectChallengePacket(a, n.packet)
    BY <1>1, <2>1, <2>5
       DEF ClientRecv, ClientHandleDisconnectPacket, ClientHandleKeepalivePacket,
           ClientHandleGameDataPacket, Confirm, HasSecret, Holds, Client
  <2> QED
    BY <2>3, <2>4, <2>5
<1> QED
  BY <1>2, <1>3, <1>4, SidesTakeTurns DEF ClientsDo

-----------------------------------------------------------------------------
(* The inductive invariant.                                                *)

\* A Connected connection is in the history.
ConnectedIsAccepted ==
    \A addr \in Addr :
        conns[addr].variant = "Connected" => conns[addr].secret \in accepted

\* Key pairs of the server are used once, in the challenges that were sent as
\* in the table.
ChallengesAreFresh ==
    \A m \in toClient :
        m.packet.kind = "ConnectChallenge" =>
            /\ m.packet.secret.server \in 0 .. gen
            /\ \A x \in Addr :
                  x # m.addr /\ conns[x].variant # "None"
                      => conns[x].secret.server # m.packet.secret.server

SafetyInv ==
    /\ Types
    /\ ServerHeardResponse
    /\ ConnectedIsAccepted
    /\ KeepaliveConfirms
    /\ ChallengeAnswered
    /\ ChallengesAreFresh

\* At first nothing was sent and nobody is connected.
LEMMA SafetyInit == Init => SafetyInv
<1> SUFFICES ASSUME Init PROVE SafetyInv
  OBVIOUS
<1>1. Types
  BY TypesInit
<1>2. \A addr \in Addr : conns[addr].variant = "None" /\ clients[addr].variant = "Connecting"
  BY DEF Init, ServerInit, ClientInit, NoConnection, NewClient
<1>3. toClient = {}
  BY DEF Init, NetInit
<1> QED
  BY <1>1, <1>2, <1>3
     DEF SafetyInv, ServerHeardResponse, ConnectedIsAccepted, KeepaliveConfirms,
         ChallengeAnswered, ChallengesAreFresh, Holds

\* What was sent and accepted is never forgotten.
LEMMA HistoryGrows ==
  ASSUME Types, Next
  PROVE  /\ toServer \subseteq toServer'
         /\ toClient \subseteq toClient'
         /\ accepted \subseteq accepted'
<1>1. accepted \subseteq accepted'
  BY DEF Next, ServerRecv, SessionRequest, ServerTimer, ServerEnds, SessionTake,
         ClientRecvs, ClientActs
<1>2. toServer \subseteq toServer'
  <2>1. CASE ClientsDo
    BY <2>1, ClientsDoSteps, SentToServer DEF Types, ClientInv
  <2> QED
    BY <2>1, SidesTakeTurns, ServerLeavesClients
<1> QED
  BY <1>1, <1>2, SentToClient

\* At most one key pair is generated in a step.
LEMMA KeysAreCounted ==
  ASSUME Next
  PROVE  gen' = gen \/ gen' = gen + 1
<1>1. ASSUME NEW a, NEW packet, HandleSocketRecv(a, packet)
      PROVE  gen' = gen \/ gen' = gen + 1
  BY <1>1
     DEF HandleSocketRecv, HandleDisconnectPacket, HandleConnectInitPacket,
         HandleConnectResponsePacket, HandleKeepalivePacket, HandleGameDataPacket
<1>2. ASSUME NEW a \in Addr, ServerTimer(a) \/ SessionRequest(a) PROVE gen' = gen
  BY <1>2
     DEF ServerTimer, ServerTimers, TimeoutExpires, HandleClientTimeout,
         HandleDisconnectElapsed, HandlePendingConnectionSend, HandleKeepaliveElapsed,
         SessionRequest, HandleSendGameDataRequest
<1>3. ASSUME NEW a \in Addr, ClientRecvs(a) \/ ClientActs(a) PROVE gen' = gen
  BY <1>3 DEF ClientRecvs, ClientActs, serverVars
<1>4. ASSUME ServerEnds \/ SessionTake PROVE gen' = gen
  BY <1>4
     DEF ServerEnds, ServerShutdown, Cancel, HandleCancelled, Drained, Drop, SessionTake
<1> QED
  BY <1>1, <1>2, <1>3, <1>4 DEF Next, ServerRecv

\* Every step keeps the invariant: one case per conjunct, each from what the
\* step may do to the entry, to the client's secret and to the network.
LEMMA SafetyStep == SafetyInv /\ [Next]_vars => SafetyInv'
<1>1. ASSUME SafetyInv, UNCHANGED vars PROVE SafetyInv'
  <2>1. Types'
    BY <1>1, TypesStep DEF SafetyInv
  <2> QED
    BY <1>1, <2>1
       DEF SafetyInv, ServerHeardResponse, ConnectedIsAccepted, KeepaliveConfirms,
           ChallengeAnswered, ChallengesAreFresh, Holds, vars, serverVars, clientVars, netVars
<1>2. ASSUME SafetyInv, Next PROVE SafetyInv'
  <2>1. Types /\ Types'
    BY <1>2, TypesStep DEF SafetyInv
  <2>2. \A a \in Addr : EntryStep(a)
    BY <1>2, <2>1, EntrySteps
  <2>3. accepted \subseteq accepted' /\ toServer \subseteq toServer' /\ toClient \subseteq toClient'
    BY <1>2, <2>1, HistoryGrows
  <2>4. \A m \in toClient' : m.addr \in Addr
    BY <2>1 DEF Types, ToClientOK
  <2>5. ServerHeardResponse'
    BY <1>2, <2>2, <2>3 DEF SafetyInv, ServerHeardResponse, EntryStep, NoConnection
  <2>6. ConnectedIsAccepted'
    BY <1>2, <2>2, <2>3 DEF SafetyInv, ConnectedIsAccepted, EntryStep, NoConnection
  <2>7. KeepaliveConfirms'
    BY <1>2, <2>1, <2>3, <2>4, SentToClient
       DEF SafetyInv, KeepaliveConfirms, ConnectedIsAccepted
  <2>8. ChallengeAnswered'
    <3> SUFFICES ASSUME NEW a \in Addr, Holds(a)'
                 PROVE  LET d == clients'[a]
                        IN  /\ d.secret.client = d.key
                            /\ Datagram(a, ConnectChallenge(d.secret.server, d.secret, d.token))
                                  \in toClient'
      BY DEF ChallengeAnswered
    <3>1. clients'[a].secret.client = clients'[a].key
      BY <2>1 DEF Types, ClientInv, SecretsAreOwn
    <3>2. \/ /\ Holds(a) /\ clients'[a].secret = clients[a].secret
             /\ clients'[a].token = clients[a].token
          \/ LET d == clients'[a]
             IN  Datagram(a, ConnectChallenge(d.secret.server, d.secret, d.token)) \in toClient
      BY <1>2, <2>1, SecretsAreChallenged
    <3> QED
      BY <1>2, <2>3, <3>1, <3>2 DEF SafetyInv, ChallengeAnswered
  <2>9. ChallengesAreFresh'
    <3> SUFFICES ASSUME NEW m \in toClient', m.packet.kind = "ConnectChallenge"
                 PROVE  /\ m.packet.secret.server \in 0 .. gen'
                        /\ \A x \in Addr :
                              x # m.addr /\ conns'[x].variant # "None"
                                  => conns'[x].secret.server # m.packet.secret.server
      BY DEF ChallengesAreFresh
    <3>1. gen \in Nat /\ (gen' = gen \/ gen' = gen + 1)
      BY <1>2, <2>1, KeysAreCounted, ServerAssumption DEF Types, ServerInv, TableOK
    <3>2. CASE m \in toClient
      <4>1. \A x \in Addr :
               conns'[x].variant # "None" =>
                   \/ conns'[x].secret.server = gen + 1
                   \/ conns[x].variant # "None" /\ conns'[x].secret = conns[x].secret
        BY <2>2 DEF EntryStep, NoConnection
      <4> QED
        BY <1>2, <3>1, <3>2, <4>1 DEF SafetyInv, ChallengesAreFresh
    <3>3. CASE m \notin toClient
      <4>1. /\ UNCHANGED <<conns, gen>>
            /\ conns[m.addr].variant # "None"
            /\ m.packet.secret = conns[m.addr].secret
        BY <1>2, <2>1, <3>3, SentToClient
      <4> QED
        BY <2>1, <2>4, <3>1, <4>1 DEF Types, ServerInv, KeysGenerated, KeysApart
    <3> QED
      BY <3>2, <3>3
  <2> QED
    BY <2>1, <2>5, <2>6, <2>7, <2>8, <2>9 DEF SafetyInv
<1> QED
  BY <1>1, <1>2

\* The invariant holds in every reachable state.
LEMMA SafetyInvariant == Spec => []SafetyInv
  BY SafetyInit, SafetyStep, PTL DEF Spec

-----------------------------------------------------------------------------
(* The theorems.                                                           *)

\* The server promotes a connection only on the answer to its own challenge.
THEOREM ServerHearsResponses == Spec => []ServerHeardResponse
<1>1. SafetyInv => ServerHeardResponse
  BY DEF SafetyInv
<1> QED
  BY <1>1, SafetyInvariant, PTL

\* A client holds only a secret that was made for it by a challenge.
THEOREM ClientsAnswerChallenges == Spec => []ChallengeAnswered
<1>1. SafetyInv => ChallengeAnswered
  BY DEF SafetyInv
<1> QED
  BY <1>1, SafetyInvariant, PTL

\* A keepalive is sent only under a secret whose response was accepted.
THEOREM KeepalivesTellTheTruth == Spec => []KeepaliveConfirms
<1>1. SafetyInv => KeepaliveConfirms
  BY DEF SafetyInv
<1> QED
  BY <1>1, SafetyInvariant, PTL

\* A server and the process it is connected to never hold different secrets:
\* the server heard a response under its secret, the response came from this
\* process, and a process answers one challenge.
THEOREM SidesAgree == Spec => []NoSplitBrain
<1>1. SafetyInv => NoSplitBrain
  <2> SUFFICES ASSUME SafetyInv, NEW a \in Addr,
                      conns[a].variant = "Connected", Holds(a),
                      conns[a].secret.client = clients[a].key
               PROVE  conns[a].secret = clients[a].secret
    BY DEF NoSplitBrain
  <2> DEFINE m == Datagram(a, ConnectResponse(conns[a].secret, conns[a].token))
  <2>1. m \in toServer
    BY DEF SafetyInv, ServerHeardResponse
  <2>2. /\ m.addr = a /\ m.packet.kind = "ConnectResponse"
        /\ m.packet.secret = conns[a].secret
    BY DEF Datagram, ConnectResponse
  <2> HIDE DEF m
  <2>3. m.packet = ConnectResponse(clients[a].secret, clients[a].token)
    BY <2>1, <2>2 DEF SafetyInv, Types, ClientInv, ResponsesPinned
  <2> QED
    BY <2>2, <2>3 DEF ConnectResponse
<1> QED
  BY <1>1, SafetyInvariant, PTL

\* A client process answers one challenge: its responses are all the same.
THEOREM ResponsesAgree == Spec => []OneResponsePerProcess
<1>1. Types => OneResponsePerProcess
  BY DEF Types, ClientInv
<1> QED
  BY <1>1, TypesInvariant, PTL

\* The server makes a key for every entry: no two entries share one.
THEOREM KeysStayApart == Spec => []KeysApart
  BY TypesImply, TypesInvariant, PTL

\* The timeout and the countdown of every entry match its state.
THEOREM TimersMatchInTheSystem == Spec => []TimersMatchVariant
  BY TypesImply, TypesInvariant, PTL

\* No key exchange serves two addresses: the server's keys are fresh, and the
\* secret a client holds came with a challenge sent to its own address.
THEOREM SecretsStayApart == Spec => []SecretsApart
<1>1. SafetyInv => SecretsApart
  <2> SUFFICES ASSUME SafetyInv, NEW x \in Addr, NEW y \in Addr, x # y,
                      conns[x].variant # "None", Holds(y)
               PROVE  conns[x].secret.server # clients[y].secret.server
    BY TypesImply DEF SecretsApart, SafetyInv
  <2> DEFINE s == clients[y].secret
             m == Datagram(y, ConnectChallenge(s.server, s, clients[y].token))
  <2>1. m \in toClient
    BY DEF SafetyInv, ChallengeAnswered
  <2>2. m.addr = y /\ m.packet.kind = "ConnectChallenge" /\ m.packet.secret = s
    BY DEF Datagram, ConnectChallenge
  <2> HIDE DEF m
  <2> QED
    BY <2>1, <2>2 DEF SafetyInv, ChallengesAreFresh
<1> QED
  BY <1>1, SafetyInvariant, PTL

\* An entry keeps its secret and its token for as long as it stays, and one
\* that is Disconnecting stays so.
THEOREM EntriesStay == Spec => EntriesAreStable
<1> DEFINE Stable ==
      \A addr \in Addr :
          conns[addr].variant # "None" /\ conns'[addr].variant # "None" =>
              /\ conns'[addr].secret = conns[addr].secret
              /\ conns'[addr].token = conns[addr].token
              /\ conns[addr].variant = "Disconnecting"
                    => conns'[addr].variant = "Disconnecting"
<1>1. ASSUME Types, Next PROVE Stable
  <2>1. \A a \in Addr : EntryStep(a)
    BY <1>1, EntrySteps
  <2>2. \A a \in Addr : conns'[a].variant \in Variant \cup {"None"}
    BY <1>1, TypesStep DEF Types, ServerInv, TableOK, Entry, Connection
  <2> QED
    BY <2>1, <2>2 DEF EntryStep, NoConnection, Variant, Open
<1>2. Types /\ [Next]_vars => [Stable]_vars
  BY <1>1
<1> QED
  BY <1>2, TypesInvariant, PTL DEF Spec, EntriesAreStable

\* The channel the session server takes its events from is the one that
\* ConnectionEvents describes also when its peers are clients over the
\* network: what the session server's model assumes, the system provides.
THEOREM SystemAnnounces == Spec => ImplementsConnectionEvents
<1>1. Init => Events!EventsInit
  BY AnnouncesInit DEF Init
<1>2. ASSUME Types, Next PROVE [Events!EventsNext]_(Events!eventVars)
  <2>1. CASE ClientsDo
    BY <1>2, <2>1, ClientsDoSteps, OthersAnnounceNothing
  <2> QED
    BY <1>2, <2>1, SidesTakeTurns, ServerDoesSteps
<1>3. Types /\ [Next]_vars => [Events!EventsNext]_(Events!eventVars)
  BY <1>2, OthersAnnounceNothing DEF vars
<1> QED
  BY <1>1, <1>3, TypesInvariant, PTL
     DEF Spec, ImplementsConnectionEvents, Events!EventsSpec

\* The events of every client process are those ClientEventStream allows: the
\* session client may rely on Connected before game data, and on Dropped last.
THEOREM ClientsAnnounce == Spec => ImplementsClientEventStream
<1>1. Init => \A addr \in Addr : Stream(addr)!StreamInit
  BY StreamsInit DEF Init
<1>2. ASSUME Types, Next PROVE [\A a \in Addr : Stream(a)!StreamStep]_clientVars
  <2>1. CASE ClientsDo
    BY <1>2, <2>1, ClientsDoSteps, ClientsStream DEF Types, ClientInv
  <2> QED
    BY <1>2, <2>1, SidesTakeTurns, ServerLeavesClients
<1>3. Types /\ [Next]_vars => [\A addr \in Addr : Stream(addr)!StreamStep]_clientVars
  BY <1>2 DEF vars
<1> QED
  BY <1>1, <1>3, TypesInvariant, PTL DEF Spec, ImplementsClientEventStream
=============================================================================
