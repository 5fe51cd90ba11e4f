--------------------------- MODULE SessionServer ---------------------------
(***************************************************************************)
(* dungeon-vr-session-server, fed by the event channel of the connection   *)
(* server: which clients are players, what the players hold, and the       *)
(* actions they have committed for ticks to come.                          *)
(*                                                                         *)
(* The connection server is what ConnectionEvents promises (OpenServer     *)
(* shows that it keeps the promise).  One action per branch of the event   *)
(* loop.  Requests to send game data leave this state alone and are the    *)
(* subject of ServerPipes.  A failing unwrap, assertion, index or todo!    *)
(* ends the task: `panic` says which, and nothing happens after it.        *)
(***************************************************************************)
EXTENDS ConnectionEvents, Actions

CONSTANTS
    MaxPlayers,     \* slots for players
    Vacant,         \* a slot with no player
    MaxTick,        \* bound: ticks in a run
    Lookahead,      \* bound: how far ahead of the last tick a commit reaches
    MaxActions      \* bound: actions committed for one tick

ASSUME SessionAssumption ==
    /\ MaxPlayers \in Nat \ {0}
    /\ Vacant \notin Addr
    /\ MaxTick \in Nat /\ Lookahead \in Nat /\ MaxActions \in Nat

VARIABLES
    known,          \* the keys of `clients`
    playerOf,       \* clients[addr].player_id; 0 is None
    players,        \* the slots
    committed,      \* committed_actions_by_tick_id, by slot
    world,          \* hands, and authority and grabbed flag of each item
    tick,           \* last_completed_tick_id
    panic           \* "None", or what ended the task

sessionVars == <<known, playerOf, players, committed, world, tick, panic>>
vars == <<eventVars, sessionVars>>

PlayerId == 1 .. MaxPlayers
ActionSeq == BoundedSeq(Action, MaxActions)

Init ==
    /\ EventsInit
    /\ known = {}
    /\ playerOf = [addr \in Addr |-> 0]
    /\ players = [p \in PlayerId |-> Vacant]
    /\ committed = [p \in PlayerId |-> <<>>]
    /\ world = NewWorld(PlayerId)
    /\ tick = 0
    /\ panic = "None"

-----------------------------------------------------------------------------
(* The connection's events.                                                *)

Alive == panic = "None"

Takes(what) == events # <<>> /\ Head(events).what = what /\ events' = Tail(events)

Panics(why) == panic' = why /\ UNCHANGED <<known, playerOf, players, committed, world, tick>>

\* Mutant of Leaves: the slot stays taken.
LeavesWorld(p) ==
    /\ world' = DespawnPlayer(world, p)
    /\ UNCHANGED <<players, committed>>

\* Frees the slot of a player, who leaves the world.
Leaves(p) ==
    /\ players' = [players EXCEPT ![p] = Vacant]
    /\ committed' = [committed EXCEPT ![p] = <<>>]
    /\ world' = DespawnPlayer(world, p)

StaysAsItIs == UNCHANGED <<players, committed, world>>

HandleDisconnected ==
    /\ Takes("Disconnected")
    /\ LET addr == Head(events).addr
       IN  IF addr \notin known
             THEN Panics("unreachable")
             ELSE /\ known' = known \ {addr}
                  /\ playerOf' = [playerOf EXCEPT ![addr] = 0]
                  /\ IF playerOf[addr] # 0 THEN Leaves(playerOf[addr]) ELSE StaysAsItIs
                  /\ UNCHANGED <<tick, panic>>

HandlePending ==
    /\ Takes("Pending")
    /\ LET addr == Head(events).addr
       IN  IF addr \in known
             THEN Panics("prev.is_none()")
             ELSE /\ known' = known \cup {addr}
                  /\ playerOf' = [playerOf EXCEPT ![addr] = 0]
                  /\ StaysAsItIs
                  /\ UNCHANGED <<tick, panic>>

\* The first vacant slot; a client that finds none stays without one.
HandleConnected ==
    /\ Takes("Connected")
    /\ LET addr == Head(events).addr
           vacant == {p \in PlayerId : players[p] = Vacant}
           first == Min(vacant)
       IN  IF addr \notin known
             THEN Panics("unwrap client")
             ELSE /\ IF vacant # {}
                       THEN /\ players' = [players EXCEPT ![first] = addr]
                            /\ committed' = [committed EXCEPT ![first] = <<>>]
                            /\ playerOf' = [playerOf EXCEPT ![addr] = first]
                            /\ world' = SpawnPlayer(world, first)
                       ELSE StaysAsItIs /\ UNCHANGED playerOf
                  /\ UNCHANGED <<known, tick, panic>>

\* Mutant of HandleDisconnecting: the client is forgotten at once.
DisconnectingForgets ==
    /\ Takes("Disconnecting")
    /\ LET addr == Head(events).addr
       IN  /\ known' = known \ {addr}
           /\ playerOf' = [playerOf EXCEPT ![addr] = 0]
           /\ IF playerOf[addr] # 0 THEN Leaves(playerOf[addr]) ELSE StaysAsItIs
           /\ UNCHANGED <<tick, panic>>

\* The client's own record of its player is left as it is.
HandleDisconnecting ==
    /\ Takes("Disconnecting")
    /\ LET addr == Head(events).addr
       IN  IF addr \notin known
             THEN Panics("index client")
             ELSE /\ IF playerOf[addr] # 0 THEN Leaves(playerOf[addr]) ELSE StaysAsItIs
                  /\ UNCHANGED <<known, playerOf, tick, panic>>

\* todo!()
HandleDropped == Takes("Dropped") /\ Panics("dropped")

-----------------------------------------------------------------------------
(* Game data.                                                              *)

\* Ping and voice packets, packets that do not decode and kinds a client
\* may not send: nothing but requests and log lines.
HandleOtherGameData ==
    Takes("GameData") /\ UNCHANGED sessionVars

\* What a player has committed, with the actions of one more tick.
WithTick(commits, t, actions) ==
    [u \in DOMAIN commits \cup {t} |-> IF u = t THEN actions ELSE commits[u]]

\* Mutant of Commits: the last commit wins.
CommitsOver(p, t, actions) ==
    IF t > tick THEN [committed EXCEPT ![p] = WithTick(@, t, actions)] ELSE committed

\* A commit for a future tick is kept unless that tick already has one.
Commits(p, t, actions) ==
    IF t > tick /\ t \notin DOMAIN committed[p]
      THEN [committed EXCEPT ![p] = WithTick(@, t, actions)]
      ELSE committed

\* A packet carries several ticks, each handled on its own: one tick a packet.
HandleCommitActionsPacket ==
    /\ Takes("GameData")
    /\ LET addr == Head(events).addr
           p == playerOf[addr]
       IN  IF addr \notin known
             THEN Panics("index client")
           ELSE IF p = 0
             THEN UNCHANGED sessionVars
           ELSE IF players[p] = Vacant
             THEN Panics("unwrap player")
           ELSE \E t \in 1 .. tick + Lookahead, actions \in ActionSeq :
                  /\ committed' = Commits(p, t, actions)
                  /\ UNCHANGED <<known, playerOf, players, world, tick, panic>>

\* Transforms are not modelled: what is left is the lookup of the client.
HandleUpdateOwnedTransformsPacket ==
    /\ Takes("GameData")
    /\ IF Head(events).addr \notin known
         THEN Panics("index client")
         ELSE UNCHANGED sessionVars

-----------------------------------------------------------------------------
\* What is due is applied player by player, in an order.
ApplyDue(w, due, order) == FoldLeft(LAMBDA x, p : ApplyAll(x, p, due[p]), w, order)

\* The actions of the players who committed some for this tick are applied,
\* in the order of a hash map; obsolete commits go.  The select is biased: a
\* tick comes only when no event is waiting.
HandleTick ==
    /\ events = <<>>
    /\ tick < MaxTick
    /\ LET now == tick + 1
           acting == {p \in PlayerId : players[p] # Vacant /\ now \in DOMAIN committed[p]}
           due == [p \in acting |-> committed[p][now]]
       IN  /\ \E order \in SetToSeqs(acting) : world' = ApplyDue(world, due, order)
           /\ committed' = [p \in PlayerId |->
                               [t \in {u \in DOMAIN committed[p] : u > now} |->
                                   committed[p][t]]]
           /\ tick' = now
    /\ panic' = IF world'.sound THEN panic ELSE "drop"
    /\ UNCHANGED <<events, known, playerOf, players>>

-----------------------------------------------------------------------------
Session ==
    /\ Alive
    /\ \/ HandleDisconnected \/ HandlePending \/ HandleConnected
       \/ HandleDisconnecting \/ HandleDropped
       \/ HandleOtherGameData \/ HandleCommitActionsPacket
       \/ HandleUpdateOwnedTransformsPacket
       \/ HandleTick
    /\ UNCHANGED <<stage, phase>>

Next == (Source /\ UNCHANGED sessionVars) \/ Session

Spec == Init /\ [][Next]_vars

-----------------------------------------------------------------------------
\* The lookups the event handlers make without a check succeed: of the many
\* unwraps, indexes and assertions of the session server only the two known
\* ones fail, for a client that comes back and for the end of the stream.
OnlyKnownPanics == panic \in {"None", "prev.is_none()", "dropped"}

\* A slot belongs to a client that is connected and knows it, so that no two
\* slots are one client's, and a slot has hands in the world exactly while
\* it is taken.
SlotsMatchClients ==
    \A p \in PlayerId :
        /\ players[p] # Vacant => players[p] \in known /\ playerOf[players[p]] = p
        /\ players[p] = Vacant <=> world.hands[p] = <<>>

\* What a hand holds belongs to the hand's player and is marked as grabbed,
\* and no other hand holds it, in whatever order the commits of a tick are
\* applied and whoever joins or leaves.
HeldItemsAreOwned ==
    \A p \in PlayerId : \A h \in DOMAIN world.hands[p] :
        LET i == world.hands[p][h]
        IN  i # Empty =>
              /\ world.authority[i] = p
              /\ world.grabbed[i]
              /\ \A q \in PlayerId : \A k \in DOMAIN world.hands[q] :
                    world.hands[q][k] = i => q = p /\ k = h

\* No item is left with a player who does not hold it: a player who leaves,
\* in whatever way, leaves nothing that only he could move.
AuthorityIsHeld ==
    \A i \in Item :
        world.authority[i] # Server =>
            \E h \in DOMAIN world.hands[world.authority[i]] :
                world.hands[world.authority[i]][h] = i

\* What a player committed for a tick stays committed, unchanged by later
\* packets, until that tick runs or the player leaves.
FirstCommitWins ==
    [][\A p \in PlayerId : \A t \in DOMAIN committed[p] :
          \/ t <= tick'
          \/ players'[p] = Vacant
          \/ t \in DOMAIN committed'[p] /\ committed'[p][t] = committed[p][t]]_vars

\* While the connection server runs, a player loses his slot only by an event
\* of his own connection.  A client that is Disconnecting has lost it and
\* still has its number, and the slot may be another's by now: what keeps the
\* other in it is that the connection's end is not announced again.  (At the
\* shutdown it is, and does vacate the slot of the other.)
OnlyOwnEventsVacate ==
    [][\A p \in PlayerId :
          phase = "Running" /\ players[p] # Vacant /\ players'[p] # players[p] =>
              /\ events # <<>>
              /\ Head(events).addr = players[p]
              /\ players'[p] = Vacant]_vars

-----------------------------------------------------------------------------
(* What the code's own assertions and comments say, and is not so.         *)

\* assert!(prev.is_none()) (handle_connection_state): a connection that
\* becomes Pending belongs to no known client.
PendingClientsAreNew == panic # "prev.is_none()"
=============================================================================
