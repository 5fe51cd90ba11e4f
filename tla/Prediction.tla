----------------------------- MODULE Prediction -----------------------------
(***************************************************************************)
(* The game of one player, who sees the effect of an action at once, and   *)
(* the server's simulation, which learns of it later and has the last      *)
(* word.  The player's game runs ahead of the server: it captures actions  *)
(* in every frame, applies them to its own world and commits them at the   *)
(* next tick; a snapshot of an earlier tick takes its world back to that   *)
(* tick, from where the ticks since are simulated again.                   *)
(*                                                                         *)
(* Between the two lie the session layer and the network: a commit and a   *)
(* snapshot may arrive any number of times, at any later time, or never.   *)
(* Another player acts on the server's world and may leave.  Where things  *)
(* are is left out: a hand may or may not be near an item, a trigger may   *)
(* or may not be pulled.                                                   *)
(***************************************************************************)
EXTENDS Actions

CONSTANTS
    MaxTick,        \* bound: ticks in a run
    MaxFrameTicks,  \* bound: ticks that are due in one frame
    MaxActions      \* bound: actions of a player between two ticks

ASSUME PredictionAssumption ==
    MaxTick \in Nat /\ MaxFrameTicks \in Nat /\ MaxActions \in Nat

VARIABLES
    online,         \* the session has started: net is Some
    world,          \* the world the player sees
    latest,         \* tick of the latest snapshot; 0 is None
    local_actions,  \* committed since, by tick
    action_accumulator,
    last,           \* last_completed_tick_id of the game
    overtaken,      \* the latest snapshot came while actions were accumulated
    sent,           \* commits ever sent to the server
    server,         \* the server's world
    committed,      \* committed_actions_by_tick_id of this player
    history         \* the snapshots sent so far: one a tick

gameVars == <<online, world, latest, local_actions, action_accumulator, last, overtaken>>
serverVars == <<server, committed, history>>
vars == <<gameVars, sent, serverVars>>

Me == 1
Other == 2
Player == {Me, Other}

tick == Len(history)         \* last_completed_tick_id of the server

Init ==
    /\ online = FALSE
    /\ world = NewWorld(Player)
    /\ latest = 0
    /\ local_actions = <<>>
    /\ action_accumulator = <<>>
    /\ last = 0
    /\ overtaken = FALSE
    /\ sent = {}
    /\ server = SpawnPlayer(SpawnPlayer(NewWorld(Player), Me), Other)
    /\ committed = <<>>
    /\ history = <<>>

-----------------------------------------------------------------------------
(* The game.                                                               *)

\* The first tick is an estimate of where the server is.
StartNetSession ==
    /\ ~ online
    /\ online' = TRUE
    /\ last' \in 0 .. MaxTick
    /\ UNCHANGED <<world, latest, local_actions, action_accumulator, overtaken>>
    /\ UNCHANGED <<sent, serverVars>>

\* What a hand in the world may make the player do: hands of other players
\* are not told apart from his own.
Offers(w, p, h) ==
    IF w.hands[p][h] = Empty
      THEN {[op |-> "Grab", hand |-> h, target |-> i] : i \in {j \in Item : ~ w.grabbed[j]}}
      ELSE {[op |-> "Drop", hand |-> h]}

\* emit_hand_actions: at most one action from every hand, in any order.
LocalActions(w) ==
    LET hands == {ph \in Player \X Hand : ph[2] \in DOMAIN w.hands[ph[1]]}
    IN  {actions \in BoundedSeq(Action, MaxActions) :
            \E from \in Injection(DOMAIN actions, hands) :
                \A n \in DOMAIN actions :
                    actions[n] \in Offers(w, from[n][1], from[n][2])}

CommitActionsPacket(t, actions) == [tick |-> t, actions |-> actions]

\* The ticks that are due are run: the first commits what was accumulated.
CommitTicks(actions, ticks) ==
    [t \in last + 1 .. last + ticks |-> IF t = last + 1 THEN actions ELSE <<>>]

\* BTreeMap::insert, of each of the new actions.
Insert(new, actions) ==
    [t \in DOMAIN new \cup DOMAIN actions |->
        IF t \in DOMAIN new THEN new[t] ELSE actions[t]]

\* update: the actions are applied when they are captured, and once.
Update ==
    /\ online
    /\ \E actions \in LocalActions(world), ticks \in 0 .. MaxFrameTicks :
          LET accumulated == action_accumulator \o actions
              commits == CommitTicks(accumulated, ticks)
          IN  /\ Len(accumulated) <= MaxActions
              /\ last + ticks <= MaxTick
              /\ world' = ApplyAll(world, Me, actions)
              /\ action_accumulator' = IF ticks = 0 THEN accumulated ELSE <<>>
              /\ local_actions' = Insert(commits, local_actions)
              /\ sent' = sent \cup {CommitActionsPacket(t, commits[t]) : t \in DOMAIN commits}
              /\ last' = last + ticks
    /\ UNCHANGED <<online, latest, overtaken, serverVars>>

\* write_snapshot: the entities and their components.
Snapshot(w) == [hands |-> w.hands, authority |-> w.authority, grabbed |-> w.grabbed]

\* Mutant of ApplySnapshot: authority is not updated.
ApplyWithoutAuthority(w, snapshot) ==
    [w EXCEPT !.hands = snapshot.hands, !.grabbed = snapshot.grabbed]

\* apply_snapshot: entities that the snapshot does not have are left alone.
ApplySnapshot(w, snapshot) ==
    [w EXCEPT !.hands = [p \in Player |->
                            IF snapshot.hands[p] = <<>> THEN @[p] ELSE snapshot.hands[p]],
              !.authority = snapshot.authority,
              !.grabbed = snapshot.grabbed]

\* What was committed for a tick, if anything was.
CommittedFor(actions, t) == IF t \in DOMAIN actions THEN actions[t] ELSE <<>>

\* The ticks after t are simulated again, up to the goal.
Replay(w, actions, t, goal) ==
    FoldLeft(LAMBDA x, u : ApplyAll(x, Me, CommittedFor(actions, u)), w,
             [n \in 1 .. goal - t |-> t + n])

\* Mutant of After: those of the tick itself are kept.
NotBefore(actions, t) == Restrict(actions, {u \in DOMAIN actions : u >= t})

\* Obsolete actions are discarded.
After(actions, t) == Restrict(actions, {u \in DOMAIN actions : u > t})

\* The packets with snapshots sent so far: any of them may come next.
GameStatePacket == {[tick |-> t, state |-> history[t]] : t \in DOMAIN history}

\* Mutant of HandleSnapshot: the ticks since are not simulated again.
HandleSnapshotAndStay ==
    /\ online
    /\ \E m \in GameStatePacket :
          /\ m.tick > latest
          /\ latest' = m.tick
          /\ local_actions' = After(local_actions, m.tick)
          /\ world' = ApplySnapshot(world, m.state)
          /\ last' = m.tick
          /\ overtaken' = (action_accumulator # <<>>)
    /\ UNCHANGED <<online, action_accumulator, sent, serverVars>>

\* Mutant of HandleSnapshot: snapshots that do not advance are accepted.
HandleAnySnapshot ==
    /\ online
    /\ \E m \in GameStatePacket :
          /\ latest' = m.tick
          /\ local_actions' = After(local_actions, m.tick)
          /\ world' = Replay(ApplySnapshot(world, m.state), local_actions', m.tick, last)
          /\ last' = IF m.tick > last THEN m.tick ELSE last
          /\ overtaken' = (action_accumulator # <<>>)
    /\ UNCHANGED <<online, action_accumulator, sent, serverVars>>

\* A snapshot that does not advance time is rejected.  What is accumulated
\* stays so, but its effect on the world is lost until the server has it.
HandleSnapshot ==
    /\ online
    /\ \E m \in GameStatePacket :
          /\ m.tick > latest
          /\ latest' = m.tick
          /\ local_actions' = After(local_actions, m.tick)
          /\ world' = Replay(ApplySnapshot(world, m.state), local_actions', m.tick, last)
          /\ last' = IF m.tick > last THEN m.tick ELSE last
          /\ overtaken' = (action_accumulator # <<>>)
    /\ UNCHANGED <<online, action_accumulator, sent, serverVars>>

-----------------------------------------------------------------------------
(* The server.                                                             *)

HandleCommitActionsPacket ==
    /\ \E m \in sent :
          /\ m.tick > tick
          /\ m.tick \notin DOMAIN committed
          /\ committed' = Insert([t \in {m.tick} |-> m.actions], committed)
    /\ UNCHANGED <<gameVars, sent, server, history>>

\* Both players' actions, in the order of a hash map; then everybody is sent
\* a snapshot.
HandleTick ==
    /\ tick < MaxTick
    /\ \E theirs \in BoundedSeq(Action, 1) :
          LET mine == CommittedFor(committed, tick + 1)
          IN  server' \in {ApplyAll(ApplyAll(server, Me, mine), Other, theirs),
                           ApplyAll(ApplyAll(server, Other, theirs), Me, mine)}
    /\ committed' = After(committed, tick + 1)
    /\ history' = Append(history, Snapshot(server'))
    /\ UNCHANGED <<gameVars, sent>>

OtherLeaves ==
    /\ server.hands[Other] # <<>>
    /\ server' = DespawnPlayer(server, Other)
    /\ UNCHANGED <<gameVars, sent, committed, history>>

-----------------------------------------------------------------------------
Next ==
    \/ StartNetSession \/ Update \/ HandleSnapshot
    \/ HandleCommitActionsPacket \/ HandleTick \/ OtherLeaves

Spec == Init /\ [][Next]_vars

-----------------------------------------------------------------------------
ActionSeq == BoundedSeq(Action, MaxActions)

State ==
    [hands : [Player -> {<<>>} \cup [Hand -> HandGrabState]],
     authority : [Item -> Player \cup {Server}],
     grabbed : [Item -> BOOLEAN]]

WorldOK(w) == Snapshot(w) \in State /\ w.sound \in BOOLEAN

\* Every variable has its type; actions are kept for ticks to come only.
TypeOK ==
    /\ online \in BOOLEAN /\ overtaken \in BOOLEAN
    /\ WorldOK(world) /\ WorldOK(server)
    /\ tick <= MaxTick /\ history \in Seq(State)
    /\ latest \in 0 .. tick /\ last \in latest .. MaxTick
    /\ \A t \in DOMAIN local_actions :
          t \in latest + 1 .. last /\ local_actions[t] \in ActionSeq
    /\ \A t \in DOMAIN committed : t \in tick + 1 .. MaxTick /\ committed[t] \in ActionSeq
    /\ action_accumulator \in ActionSeq
    /\ sent \subseteq [tick : 1 .. MaxTick, actions : ActionSeq]

\* No drop meets an item that is not its player's: neither on the server nor
\* in the player's world, which is put together from snapshots and replayed
\* actions that the server may have refused, the assertions of apply_action
\* fail.
DropsAreSound == world.sound /\ server.sound

\* What this player's hands and the items are in a world.
Seen(w) == <<w.hands[Me], w.authority, w.grabbed>>

\* Everything the player has ever committed for the ticks since t.
EverCommittedSince(t) ==
    LET commits == {m \in sent : m.tick > t}
    IN  [u \in {m.tick : m \in commits} |-> (CHOOSE m \in commits : m.tick = u).actions]

Predicted ==
    ApplyAll(Replay(ApplySnapshot(world, history[latest]), EverCommittedSince(latest),
                    latest, last),
             Me, action_accumulator)

\* The player sees the latest snapshot with every action he has ever done
\* since, once and in order, however snapshots are lost, delayed, repeated or
\* reordered and however far the game is ahead of the server or behind it:
\* no action that may still count is discarded, and none that the snapshot
\* has is applied again.  The exception is a snapshot that came between the
\* capture of an action and its commit.
PredictionIsReplay == latest > 0 /\ ~ overtaken => Seen(world) = Seen(Predicted)

\* No tick is committed twice with different actions: the game never goes
\* back to a tick it has completed.
TicksAreCommittedOnce ==
    \A m, n \in sent : m.tick = n.tick => m.actions = n.actions

=============================================================================
