------------------------ MODULE SessionServerProofs ------------------------
(***************************************************************************)
(* The session server, for every set of clients, of items and of hands,    *)
(* every number of slots and every size of the event channel: its lookups  *)
(* succeed, its slots match its clients, and what the players hold is      *)
(* theirs, whatever they commit and whoever joins or leaves.               *)
(*                                                                         *)
(* Three things make the invariant inductive.  Between what the session    *)
(* server knows of a client and the stage the client has reached lie the   *)
(* events that are still in the channel: there is a history of modes, one  *)
(* mode a client after every event, that begins with what the session      *)
(* server knows and ends with the stages.  A client that leaves after its  *)
(* connection gave up frees a slot it no longer has, which may be another  *)
(* client's by then: it can happen only when the connection server closes, *)
(* and nothing but Disconnected and Dropped follows.  And the drops of an  *)
(* item are sound because a hand's item is its player's, which each action *)
(* of a tick keeps, in whatever order the players' actions are applied.    *)
(***************************************************************************)
EXTENDS SessionServer, FiniteSetTheorems, TLAPS

\* Every step of the two folds of a tick, over the actions of a player and
\* over the players, is a step FoldInduction can take.
ActionStep(p, w, a) == ApplyAction(w, p, a)
PlayerStep(due, w, p) == ApplyAll(w, p, due[p])

OverActions == INSTANCE FoldInduction WITH Op <- ActionStep
OverPlayers == INSTANCE FoldInduction WITH Op <- PlayerStep

-----------------------------------------------------------------------------
(* Worlds.                                                                 *)

World ==
    [hands : [PlayerId -> {<<>>} \cup [Hand -> HandGrabState]],
     authority : [Item -> PlayerId \cup {Server}],
     grabbed : [Item -> BOOLEAN],
     sound : {TRUE}]

\* What a player's hands hold is the player's and is held once.
Owns(w, p) ==
    \A h \in DOMAIN w.hands[p] :
        w.hands[p][h] # Empty =>
            /\ w.authority[w.hands[p][h]] = p
            /\ w.grabbed[w.hands[p][h]]
            /\ \A k \in DOMAIN w.hands[p] : w.hands[p][k] = w.hands[p][h] => k = h

\* An item that is a player's is in one of the player's hands.
IsHeld(w, i) ==
    w.authority[i] # Server =>
        \E h \in DOMAIN w.hands[w.authority[i]] : w.hands[w.authority[i]][h] = i

GoodWorld ==
    {w \in World : (\A p \in PlayerId : Owns(w, p)) /\ (\A i \in Item : IsHeld(w, i))}

\* The good worlds with the same players as w.
SamePlayers(w) ==
    {v \in GoodWorld : \A p \in PlayerId : v.hands[p] = <<>> <=> w.hands[p] = <<>>}

\* The server is no player.
LEMMA ServerIsNoPlayer == PlayerId \subseteq Nat /\ Server \notin PlayerId
  BY SessionAssumption DEF PlayerId, Server

\* A player with hands is told from one without.
LEMMA HandsAreHands ==
  /\ DOMAIN <<>> = {}
  /\ \A f \in [Hand -> HandGrabState] : f # <<>> /\ DOMAIN f = Hand
<1>1. DOMAIN <<>> = {}
  OBVIOUS
<1>2. ASSUME NEW f \in [Hand -> HandGrabState] PROVE f # <<>> /\ DOMAIN f = Hand
  BY <1>1, ActionsAssumption
<1> QED
  BY <1>1, <1>2

\* The parts of a good world.
LEMMA WorldParts ==
  ASSUME NEW w \in GoodWorld, NEW p \in PlayerId
  PROVE  /\ w.hands \in [PlayerId -> {<<>>} \cup [Hand -> HandGrabState]]
         /\ w.authority \in [Item -> PlayerId \cup {Server}]
         /\ w.grabbed \in [Item -> BOOLEAN]
         /\ w.sound = TRUE
         /\ Owns(w, p)
         /\ \A i \in Item : IsHeld(w, i)
         /\ w.hands[p] = <<>> \/ w.hands[p] \in [Hand -> HandGrabState]
  BY DEF GoodWorld, World

\* A world without players is a good world.
LEMMA NewWorldIsGood == NewWorld(PlayerId) \in GoodWorld
  BY HandsAreHands DEF NewWorld, GoodWorld, World, Owns, IsHeld

\* A player who leaves takes nothing along, and leaves the others theirs.
LEMMA DespawnKeepsGood ==
  ASSUME NEW w \in GoodWorld, NEW p \in PlayerId
  PROVE  /\ DespawnPlayer(w, p) \in GoodWorld
         /\ DespawnPlayer(w, p).hands = [w.hands EXCEPT ![p] = <<>>]
<1> DEFINE v == DespawnPlayer(w, p)
<1>1. /\ w.hands \in [PlayerId -> {<<>>} \cup [Hand -> HandGrabState]]
      /\ w.authority \in [Item -> PlayerId \cup {Server}]
      /\ w \in World
  BY WorldParts DEF GoodWorld
<1>2. /\ v.hands = [w.hands EXCEPT ![p] = <<>>]
      /\ v.authority = [i \in Item |-> IF w.authority[i] = p THEN Server ELSE w.authority[i]]
      /\ v.grabbed = w.grabbed
      /\ v \in World
  BY <1>1, ServerIsNoPlayer DEF DespawnPlayer, World
<1> HIDE DEF v
<1>3. ASSUME NEW q \in PlayerId PROVE Owns(v, q)
  <2>1. CASE q = p
    BY <1>1, <1>2, <2>1, HandsAreHands DEF Owns
  <2>2. CASE q # p
    <3>0. v.hands[q] = w.hands[q]
      BY <1>1, <1>2, <2>2
    <3>1. Owns(w, q)
      BY WorldParts
    <3>2. ASSUME NEW h \in DOMAIN w.hands[q], w.hands[q][h] # Empty
          PROVE  w.hands[q][h] \in Item
      BY <1>1, <3>2, HandsAreHands DEF HandGrabState
    <3> QED
      BY <1>1, <1>2, <2>2, <3>0, <3>1, <3>2 DEF Owns
  <2> QED
    BY <2>1, <2>2
<1>4. ASSUME NEW i \in Item PROVE IsHeld(v, i)
  <2>1. IsHeld(w, i)
    BY WorldParts
  <2>2. CASE v.authority[i] # Server
    <3>1. v.authority[i] = w.authority[i] /\ w.authority[i] \in PlayerId \ {p}
      BY <1>1, <1>2, <2>2
    <3>2. v.hands[w.authority[i]] = w.hands[w.authority[i]]
      BY <1>1, <1>2, <3>1
    <3> QED
      BY <2>1, <2>2, <3>1, <3>2 DEF IsHeld
  <2> QED
    BY <2>2 DEF IsHeld
<1> QED
  BY <1>2, <1>3, <1>4 DEF GoodWorld, v

\* A player who joins has empty hands.
LEMMA SpawnKeepsGood ==
  ASSUME NEW w \in GoodWorld, NEW p \in PlayerId, w.hands[p] = <<>>
  PROVE  /\ SpawnPlayer(w, p) \in GoodWorld
         /\ SpawnPlayer(w, p).hands = [w.hands EXCEPT ![p] = [h \in Hand |-> Empty]]
<1> DEFINE v == SpawnPlayer(w, p)
<1>1. /\ w.hands \in [PlayerId -> {<<>>} \cup [Hand -> HandGrabState]]
      /\ w.authority \in [Item -> PlayerId \cup {Server}]
      /\ w \in World
  BY WorldParts DEF GoodWorld
<1>2. /\ v.hands = [w.hands EXCEPT ![p] = [h \in Hand |-> Empty]]
      /\ v.authority = w.authority
      /\ v.grabbed = w.grabbed
      /\ v \in World
  BY <1>1 DEF SpawnPlayer, World, HandGrabState
<1> HIDE DEF v
<1>3. ASSUME NEW q \in PlayerId PROVE Owns(v, q)
  <2>1. CASE q = p
    BY <1>1, <1>2, <2>1 DEF Owns
  <2>2. CASE q # p
    <3>1. v.hands[q] = w.hands[q] /\ v.authority = w.authority /\ v.grabbed = w.grabbed
      BY <1>1, <1>2, <2>2
    <3>2. Owns(w, q)
      BY WorldParts
    <3> QED
      BY <3>1, <3>2 DEF Owns
  <2> QED
    BY <2>1, <2>2
<1>4. ASSUME NEW i \in Item PROVE IsHeld(v, i)
  <2>1. IsHeld(w, i)
    BY WorldParts
  <2>2. w.authority[i] # p
    BY <2>1, HandsAreHands, ServerIsNoPlayer DEF IsHeld
  <2> QED
    BY <1>1, <1>2, <2>1, <2>2 DEF IsHeld
<1> QED
  BY <1>2, <1>3, <1>4 DEF GoodWorld, v

-----------------------------------------------------------------------------
(* Actions.                                                                *)

\* What one hand of p holds changes from w to v, and with it what is so of
\* one item: the item is in no other hand, and is the player's now exactly
\* if the hand holds it.
HandChange(w, v, p, hand, target, what) ==
    /\ w.hands[p] \in [Hand -> HandGrabState]
    /\ v.hands = [w.hands EXCEPT ![p] = [w.hands[p] EXCEPT ![hand] = what]]
    /\ \A i \in Item : i # target =>
           v.authority[i] = w.authority[i] /\ v.grabbed[i] = w.grabbed[i]
    /\ w.hands[p][hand] \in {Empty, target}
    /\ \A q \in PlayerId : \A k \in DOMAIN w.hands[q] :
           w.hands[q][k] = target => q = p /\ k = hand
    /\ \/ what = target /\ v.authority[target] = p /\ v.grabbed[target]
       \/ what = Empty /\ v.authority[target] = Server

\* Such a change keeps a good world good.
LEMMA HandChangeKeepsGood ==
  ASSUME NEW w \in GoodWorld, NEW v \in World, NEW p \in PlayerId, NEW hand \in Hand,
         NEW target \in Item, NEW what \in HandGrabState,
         HandChange(w, v, p, hand, target, what)
  PROVE  v \in SamePlayers(w)
<1> USE DEF HandChange
<1>1. /\ w.hands \in [PlayerId -> {<<>>} \cup [Hand -> HandGrabState]]
      /\ w.authority \in [Item -> PlayerId \cup {Server}]
  BY WorldParts
<1>2. \A q \in PlayerId : q # p => v.hands[q] = w.hands[q]
  BY <1>1
<1>3. v.hands[p] = [w.hands[p] EXCEPT ![hand] = what] /\ v.hands[p] \in [Hand -> HandGrabState]
  BY <1>1
<1>4. \A k \in Hand : v.hands[p][k] = IF k = hand THEN what ELSE w.hands[p][k]
  BY <1>3
<1>5. DOMAIN v.hands[p] = Hand /\ DOMAIN w.hands[p] = Hand
  BY <1>3, HandsAreHands
<1>6. ASSUME NEW q \in PlayerId, NEW h \in DOMAIN w.hands[q], w.hands[q][h] # Empty
      PROVE  w.hands[q][h] \in Item
  BY <1>1, <1>6, HandsAreHands DEF HandGrabState
<1>7. ASSUME NEW q \in PlayerId, q # p PROVE Owns(v, q)
  <2>1. Owns(w, q)
    BY WorldParts
  <2>2. \A h \in DOMAIN w.hands[q] : w.hands[q][h] # target
    BY <1>7
  <2>3. v.hands[q] = w.hands[q]
    BY <1>2, <1>7
  <2> QED
    BY <1>6, <2>1, <2>2, <2>3 DEF Owns
<1>8. Owns(v, p)
  <2>1. Owns(w, p)
    BY WorldParts
  <2>2. \A k \in Hand : k # hand => w.hands[p][k] # target
    BY <1>5
  <2> SUFFICES ASSUME NEW h \in Hand, v.hands[p][h] # Empty
               PROVE  /\ v.authority[v.hands[p][h]] = p
                      /\ v.grabbed[v.hands[p][h]]
                      /\ \A k \in Hand : v.hands[p][k] = v.hands[p][h] => k = h
    BY <1>5 DEF Owns
  <2>3. CASE h = hand
    <3>1. v.hands[p][h] = what /\ what = target
      BY <1>4, <2>3
    <3>2. v.authority[target] = p /\ v.grabbed[target]
      BY <3>1, ActionsAssumption
    <3> QED
      BY <1>4, <2>2, <2>3, <3>1, <3>2
  <2>4. CASE h # hand
    <3>1. v.hands[p][h] = w.hands[p][h] /\ w.hands[p][h] \in Item /\ w.hands[p][h] # target
      BY <1>4, <1>5, <1>6, <2>2, <2>4
    <3>2. v.authority[w.hands[p][h]] = p /\ v.grabbed[w.hands[p][h]]
      BY <1>5, <2>1, <3>1 DEF Owns
    <3>3. \A k \in Hand : w.hands[p][k] = w.hands[p][h] => k = h
      BY <1>5, <2>1, <3>1 DEF Owns
    <3>4. v.hands[p][hand] # v.hands[p][h]
      BY <1>4, <3>1
    <3> QED
      BY <1>4, <3>1, <3>2, <3>3, <3>4
  <2> QED
    BY <2>3, <2>4
<1>9. ASSUME NEW i \in Item PROVE IsHeld(v, i)
  <2>1. IsHeld(w, i)
    BY WorldParts
  <2>2. CASE i = target
    BY <1>4, <1>5, <2>2, ServerIsNoPlayer DEF IsHeld
  <2>3. CASE i # target /\ w.authority[i] = p
    <3>1. PICK h \in Hand : w.hands[p][h] = i
      BY <1>5, <2>1, <2>3, ServerIsNoPlayer DEF IsHeld
    <3>2. h # hand
      BY <2>3, <3>1, ActionsAssumption
    <3>3. v.authority[i] = p /\ v.hands[p][h] = i
      BY <1>4, <2>3, <3>1, <3>2
    <3> QED
      BY <1>5, <3>3 DEF IsHeld
  <2>4. CASE i # target /\ w.authority[i] # p
    <3>1. v.authority[i] = w.authority[i]
      BY <2>4
    <3>2. CASE w.authority[i] # Server
      <4>1. w.authority[i] \in PlayerId /\ w.authority[i] # p
        BY <1>1, <2>4, <3>2
      <4>2. v.hands[w.authority[i]] = w.hands[w.authority[i]]
        BY <1>2, <4>1
      <4> QED
        BY <2>1, <3>1, <4>2 DEF IsHeld
    <3> QED
      BY <3>1, <3>2 DEF IsHeld
  <2> QED
    BY <2>2, <2>3, <2>4
<1>10. \A q \in PlayerId : v.hands[q] = <<>> <=> w.hands[q] = <<>>
  BY <1>2, <1>3, HandsAreHands
<1> QED
  BY <1>7, <1>8, <1>9, <1>10 DEF GoodWorld, SamePlayers

\* apply_action keeps a good world good, and its assertions hold in it.
LEMMA ActionKeepsGood ==
  ASSUME NEW w \in GoodWorld, NEW p \in PlayerId, NEW a \in Action
  PROVE  ApplyAction(w, p, a) \in SamePlayers(w)
<1>1. /\ w.hands \in [PlayerId -> {<<>>} \cup [Hand -> HandGrabState]]
      /\ w.authority \in [Item -> PlayerId \cup {Server}]
      /\ w.grabbed \in [Item -> BOOLEAN]
      /\ w.sound = TRUE
      /\ w \in World
      /\ w.hands[p] = <<>> \/ w.hands[p] \in [Hand -> HandGrabState]
  BY WorldParts DEF GoodWorld
<1>2. a.op \in {"Grab", "Drop"} /\ a.hand \in Hand /\ (a.op = "Grab" => a.target \in Item)
  BY DEF Action
<1>3. w \in SamePlayers(w)
  BY DEF SamePlayers
<1>4. ASSUME NEW q \in PlayerId, NEW k \in DOMAIN w.hands[q], w.hands[q][k] \in Item
      PROVE  w.authority[w.hands[q][k]] = q /\ w.grabbed[w.hands[q][k]]
  <2>1. Owns(w, q)
    BY WorldParts
  <2> QED
    BY <1>4, <2>1, ActionsAssumption DEF Owns
<1>5. CASE a.op = "Grab" /\ CanGrab(w, p, a)
  <2> DEFINE v == Grab(w, p, a)
             t == a.target
  <2>1. w.hands[p] \in [Hand -> HandGrabState] /\ w.hands[p][a.hand] = Empty /\ ~ w.grabbed[t]
    BY <1>1, <1>5, HandsAreHands DEF CanGrab
  <2>2. t \in Item /\ t \in HandGrabState
    BY <1>2, <1>5 DEF HandGrabState
  <2>3. /\ v.hands = [w.hands EXCEPT ![p] = [w.hands[p] EXCEPT ![a.hand] = t]]
        /\ v.authority = [w.authority EXCEPT ![t] = p]
        /\ v.grabbed = [w.grabbed EXCEPT ![t] = TRUE]
        /\ v.sound = w.sound
    BY <1>1 DEF Grab, World
  <2>4. v \in World
    BY <1>1, <1>2, <2>1, <2>2 DEF Grab, World
  <2>5. \A q \in PlayerId : \A k \in DOMAIN w.hands[q] : w.hands[q][k] # t
    BY <1>4, <2>1, <2>2
  <2>6. v.authority[t] = p /\ v.grabbed[t]
    BY <1>1, <2>2, <2>3
  <2>7. \A i \in Item : i # t => v.authority[i] = w.authority[i] /\ v.grabbed[i] = w.grabbed[i]
    BY <1>1, <2>3
  <2> HIDE DEF v, t
  <2>8. HandChange(w, v, p, a.hand, t, t)
    BY <2>1, <2>3, <2>5, <2>6, <2>7 DEF HandChange
  <2>9. v \in SamePlayers(w)
    BY <1>2, <2>2, <2>4, <2>8, HandChangeKeepsGood
  <2> QED
    BY <1>5, <2>9 DEF ApplyAction, v
<1>6. CASE a.op = "Drop" /\ CanDrop(w, p, a)
  <2> DEFINE v == Drop(w, p, a)
             t == w.hands[p][a.hand]
  <2>1. w.hands[p] \in [Hand -> HandGrabState] /\ t # Empty
    BY <1>1, <1>6, HandsAreHands DEF CanDrop
  <2>2. t \in Item /\ Empty \in HandGrabState
    BY <1>2, <2>1 DEF HandGrabState
  <2>3. w.authority[t] = p /\ w.grabbed[t]
    BY <1>2, <1>4, <2>1, <2>2, HandsAreHands
  <2>4. /\ v.hands = [w.hands EXCEPT ![p] = [w.hands[p] EXCEPT ![a.hand] = Empty]]
        /\ v.authority = [w.authority EXCEPT ![t] = Server]
        /\ v.grabbed = [w.grabbed EXCEPT ![t] = FALSE]
        /\ v.sound = (w.sound /\ w.authority[t] = p /\ w.grabbed[t])
    BY <1>1 DEF Drop, World
  <2>5. v \in World
    <3>1. v = [w EXCEPT !.hands = v.hands, !.authority = v.authority,
                        !.grabbed = v.grabbed, !.sound = v.sound]
      BY <1>1 DEF Drop, World
    <3>2. v.hands \in [PlayerId -> {<<>>} \cup [Hand -> HandGrabState]]
      BY <1>1, <1>2, <2>1, <2>2, <2>4
    <3>3. v.authority \in [Item -> PlayerId \cup {Server}] /\ v.grabbed \in [Item -> BOOLEAN]
      BY <1>1, <2>2, <2>4
    <3>4. v.sound = TRUE
      BY <1>1, <2>3, <2>4
    <3> HIDE DEF v
    <3> QED
      BY <1>1, <3>1, <3>2, <3>3, <3>4 DEF World
  <2>6. ASSUME NEW q \in PlayerId, NEW k \in DOMAIN w.hands[q], w.hands[q][k] = t
        PROVE  q = p /\ k = a.hand
    <3>1. q = p
      BY <1>4, <2>2, <2>3, <2>6
    <3>2. Owns(w, p) /\ a.hand \in DOMAIN w.hands[p]
      BY <1>2, <2>1, WorldParts, HandsAreHands
    <3> QED
      BY <2>1, <2>6, <3>1, <3>2 DEF Owns
  <2>7. v.authority[t] = Server
    BY <1>1, <2>2, <2>4
  <2>8. \A i \in Item : i # t => v.authority[i] = w.authority[i] /\ v.grabbed[i] = w.grabbed[i]
    BY <1>1, <2>4
  <2> HIDE DEF v
  <2>9. v \in SamePlayers(w)
    <3> HIDE DEF t
    <3>1. HandChange(w, v, p, a.hand, t, Empty)
      <4>1. w.hands[p][a.hand] \in {Empty, t}
        BY DEF t
      <4> QED
        BY <2>1, <2>4, <2>6, <2>7, <2>8, <4>1 DEF HandChange
    <3> QED
      BY <1>2, <2>2, <2>5, <3>1, HandChangeKeepsGood
  <2> QED
    BY <1>6, <2>9 DEF ApplyAction, v
<1> QED
  BY <1>2, <1>3, <1>5, <1>6 DEF ApplyAction

\* All the actions a player committed for a tick keep a good world good.
LEMMA ApplyAllKeepsGood ==
  ASSUME NEW w \in GoodWorld, NEW p \in PlayerId, NEW actions \in ActionSeq
  PROVE  ApplyAll(w, p, actions) \in SamePlayers(w)
<1>1. ApplyAll(w, p, actions) = OverActions!Fold(p, w, actions)
  BY DEF ApplyAll, ActionStep, FoldLeft, MapThenFoldSet, Max,
         OverActions!Fold, OverActions!FoldLeft, OverActions!MapThenFoldSet, OverActions!Max
<1>2. PICK n \in Nat : actions \in [1 .. n -> Action]
  BY SessionAssumption DEF ActionSeq, BoundedSeq, SeqOf
<1>3. \A v \in SamePlayers(w) : \A i \in 1 .. n :
          ActionStep(p, v, actions[i]) \in SamePlayers(w)
  <2> SUFFICES ASSUME NEW v \in SamePlayers(w), NEW i \in 1 .. n
               PROVE  ApplyAction(v, p, actions[i]) \in SamePlayers(w)
    BY DEF ActionStep
  <2>1. v \in GoodWorld /\ actions[i] \in Action
    BY <1>2 DEF SamePlayers
  <2>2. ApplyAction(v, p, actions[i]) \in SamePlayers(v)
    BY <2>1, ActionKeepsGood
  <2> QED
    BY <2>2 DEF SamePlayers
<1>4. w \in SamePlayers(w) /\ DOMAIN actions = 1 .. n
  BY <1>2 DEF SamePlayers
<1>5. OverActions!Fold(p, w, actions) \in SamePlayers(w)
  BY <1>3, <1>4, OverActions!FoldKeeps
<1> QED
  BY <1>1, <1>5

\* What the players committed for a tick keeps a good world good, in
\* whatever order the players come.
LEMMA ApplyDueKeepsGood ==
  ASSUME NEW w \in GoodWorld, NEW acting \in SUBSET PlayerId,
         NEW due \in [acting -> ActionSeq], NEW order \in SetToSeqs(acting)
  PROVE  ApplyDue(w, due, order) \in SamePlayers(w)
<1>1. ApplyDue(w, due, order) = OverPlayers!Fold(due, w, order)
  BY DEF ApplyDue, PlayerStep, FoldLeft, MapThenFoldSet, Max,
         OverPlayers!Fold, OverPlayers!FoldLeft, OverPlayers!MapThenFoldSet, OverPlayers!Max
<1>2. Cardinality(acting) \in Nat
  <2>1. IsFiniteSet(PlayerId)
    BY SessionAssumption, FS_Interval DEF PlayerId
  <2> QED
    BY <2>1, FS_Subset, FS_CardinalityType
<1>3. PICK n \in Nat : order \in [1 .. n -> acting]
  BY <1>2 DEF SetToSeqs
<1>4. \A v \in SamePlayers(w) : \A i \in 1 .. n :
          PlayerStep(due, v, order[i]) \in SamePlayers(w)
  <2> SUFFICES ASSUME NEW v \in SamePlayers(w), NEW i \in 1 .. n
               PROVE  ApplyAll(v, order[i], due[order[i]]) \in SamePlayers(w)
    BY DEF PlayerStep
  <2>1. v \in GoodWorld /\ order[i] \in PlayerId /\ due[order[i]] \in ActionSeq
    BY <1>3 DEF SamePlayers
  <2>2. ApplyAll(v, order[i], due[order[i]]) \in SamePlayers(v)
    BY <2>1, ApplyAllKeepsGood
  <2> QED
    BY <2>2 DEF SamePlayers
<1>5. w \in SamePlayers(w) /\ DOMAIN order = 1 .. n
  BY <1>3 DEF SamePlayers
<1>6. OverPlayers!Fold(due, w, order) \in SamePlayers(w)
  BY <1>4, <1>5, OverPlayers!FoldKeeps
<1> QED
  BY <1>1, <1>6

-----------------------------------------------------------------------------
(* Between the session server and the stages: the events in the channel.   *)

ConnEvent ==
    [addr : Addr, what : {"Disconnected", "Pending", "Connected", "Disconnecting", "GameData"}]
        \cup {[what |-> "Dropped"]}

\* What the session server takes a client for, between two of its events.
Mode == {"Unknown", "Pending", "Connected", "Ended"}

Becomes(m, what) ==
    CASE what = "Disconnected" -> "Unknown"
      [] what = "Pending" -> "Pending"
      [] what = "Connected" -> "Connected"
      [] what = "Disconnecting" -> "Ended"
      [] OTHER -> m

MayFollow(m, what) ==
    \/ what = "Pending" /\ m \in {"Unknown", "Ended"}
    \/ what = "Connected" /\ m = "Pending"
    \/ what = "GameData" /\ m = "Connected"
    \/ what = "Disconnecting" /\ m \in {"Pending", "Connected"}
    \/ what = "Disconnected" /\ m # "Unknown"

\* An event leads from the modes before to the modes after.
Leads(before, event, after) ==
    IF event.what = "Dropped"
      THEN after = before
      ELSE /\ MayFollow(before[event.addr], event.what)
           /\ after = [before EXCEPT ![event.addr] = Becomes(@, event.what)]

\* A client that ends after it was already given up.
EndsTwice(before, event) == event.what = "Disconnected" /\ before[event.addr] = "Ended"

\* From the event i on, the connection server only says goodbye.
Winding(i) ==
    /\ phase # "Running"
    /\ \A j \in i .. Len(events) : events[j].what \in {"Disconnected", "Dropped"}

\* The modes before, between and after the events in the channel.
History(mode) ==
    /\ mode \in [0 .. Len(events) -> [Addr -> Mode]]
    /\ \A i \in 1 .. Len(events) :
          /\ Leads(mode[i - 1], events[i], mode[i])
          /\ EndsTwice(mode[i - 1], events[i]) => Winding(i)

\* The slot the client has been given is still the client's.
Seated(a) == playerOf[a] # 0 => players[playerOf[a]] = a

\* What the session server keeps of a client fits a mode.
SeesClient(a, m) ==
    /\ m = "Unknown" <=> a \notin known
    /\ m \in {"Unknown", "Pending"} => playerOf[a] = 0
    /\ m = "Connected" => Winding(1) \/ Seated(a)
    /\ m = "Ended" => \A p \in PlayerId : players[p] # a

\* The stage a client has reached fits a mode.
FitsStage(a, m) ==
    /\ stage[a] = "None" => m \in {"Unknown", "Ended"}
    /\ stage[a] \in {"Pending", "Connected"} => m = stage[a]
    /\ stage[a] = "Disconnecting" => m = "Ended"

Explains(mode) ==
    /\ History(mode)
    /\ \A a \in Addr : SeesClient(a, mode[0][a])
    /\ phase # "Stopped" => \A a \in Addr : FitsStage(a, mode[Len(events)][a])

EventsAreExplained == Alive => \E mode : Explains(mode)

ChannelOK ==
    /\ stage \in [Addr -> {"None", "Pending", "Connected", "Disconnecting"}]
    /\ events \in Seq(ConnEvent)
    /\ phase \in {"Running", "Closing", "Stopped"}

\* An event that is announced extends the history.
LEMMA HistoryGrows ==
  ASSUME ChannelOK, NEW mode, History(mode), NEW e \in ConnEvent,
         events' = Append(events, e), NEW after \in [Addr -> Mode],
         Leads(mode[Len(events)], e, after),
         phase # "Running" => phase' # "Running" /\ e.what \in {"Disconnected", "Dropped"},
         EndsTwice(mode[Len(events)], e) => phase' # "Running"
  PROVE  \E longer : /\ History(longer)'
                     /\ longer[0] = mode[0]
                     /\ longer[Len(events')] = after
<1>0. PICK n : n = Len(events)
  OBVIOUS
<1>1. n \in Nat /\ Len(events') = n + 1 /\ events'[n + 1] = e
  BY <1>0 DEF ChannelOK
<1>2. \A i \in 1 .. n : events'[i] = events[i]
  BY <1>0 DEF ChannelOK
<1>3. mode \in [0 .. n -> [Addr -> Mode]]
  BY <1>0 DEF History
<1> DEFINE longer == [i \in 0 .. n + 1 |-> IF i <= n THEN mode[i] ELSE after]
<1>4. longer \in [0 .. n + 1 -> [Addr -> Mode]]
  BY <1>1, <1>3
<1>5. \A i \in 0 .. n : longer[i] = mode[i]
  BY <1>1
<1>6. longer[n + 1] = after
  BY <1>1
<1> HIDE DEF longer
<1>7. ASSUME NEW i \in 1 .. n, Winding(i) PROVE Winding(i)'
  BY <1>0, <1>1, <1>2, <1>7 DEF Winding
<1>8. ASSUME NEW i \in 1 .. n
      PROVE  /\ Leads(longer[i - 1], events'[i], longer[i])
             /\ EndsTwice(longer[i - 1], events'[i]) => Winding(i)'
  <2>1. i - 1 \in 0 .. n /\ i \in 0 .. n
    BY <1>1
  <2>2. longer[i - 1] = mode[i - 1] /\ longer[i] = mode[i] /\ events'[i] = events[i]
    BY <1>2, <1>5, <2>1
  <2>3. Leads(mode[i - 1], events[i], mode[i]) /\ (EndsTwice(mode[i - 1], events[i]) => Winding(i))
    BY <1>0 DEF History
  <2> QED
    BY <1>7, <2>2, <2>3
<1>9. /\ Leads(longer[n], events'[n + 1], longer[n + 1])
      /\ EndsTwice(longer[n], events'[n + 1]) => Winding(n + 1)'
  <2>1. longer[n] = mode[n]
    BY <1>1, <1>5
  <2>2. e.what = "Disconnected" /\ phase' # "Running" => Winding(n + 1)'
    BY <1>1 DEF Winding
  <2> QED
    BY <1>0, <1>1, <1>6, <2>1, <2>2 DEF EndsTwice
<1>10. \A i \in 1 .. n + 1 :
           /\ Leads(longer[i - 1], events'[i], longer[i])
           /\ EndsTwice(longer[i - 1], events'[i]) => Winding(i)'
  <2> TAKE i \in 1 .. n + 1
  <2>1. CASE i = n + 1
    <3>1. i - 1 = n
      BY <1>1, <2>1
    <3> QED
      BY <1>9, <2>1, <3>1
  <2>2. CASE i # n + 1
    <3>1. i \in 1 .. n
      BY <1>1, <2>2
    <3> QED
      BY <1>8, <3>1
  <2> QED
    BY <2>1, <2>2
<1>11. History(longer)'
  BY <1>1, <1>4, <1>10 DEF History
<1> QED
  BY <1>1, <1>5, <1>6, <1>11

\* An event that is taken shortens the history.
LEMMA HistoryShrinks ==
  ASSUME ChannelOK, NEW mode, History(mode), events # <<>>,
         events' = Tail(events), phase' = phase
  PROVE  /\ Leads(mode[0], Head(events), mode[1])
         /\ EndsTwice(mode[0], Head(events)) => Winding(1)
         /\ mode[0] \in [Addr -> Mode] /\ mode[1] \in [Addr -> Mode]
         /\ \E shorter : /\ History(shorter)'
                         /\ shorter[0] = mode[1]
                         /\ shorter[Len(events')] = mode[Len(events)]
<1>0. PICK n : n = Len(events)
  OBVIOUS
<1>1. n \in Nat \ {0} /\ Len(events') = n - 1 /\ Head(events) = events[1]
  BY <1>0 DEF ChannelOK
<1>2. \A i \in 1 .. n - 1 : events'[i] = events[i + 1]
  BY <1>0 DEF ChannelOK
<1>3. mode \in [0 .. n -> [Addr -> Mode]]
  BY <1>0 DEF History
<1>4. \A i \in 1 .. n : /\ Leads(mode[i - 1], events[i], mode[i])
                        /\ EndsTwice(mode[i - 1], events[i]) => Winding(i)
  BY <1>0 DEF History
<1>5. /\ Leads(mode[0], Head(events), mode[1])
      /\ EndsTwice(mode[0], Head(events)) => Winding(1)
  <2>1. 1 \in 1 .. n /\ 1 - 1 = 0
    BY <1>1
  <2> QED
    BY <1>1, <1>4, <2>1
<1> DEFINE shorter == [i \in 0 .. n - 1 |-> mode[i + 1]]
<1>6. shorter \in [0 .. n - 1 -> [Addr -> Mode]]
  BY <1>1, <1>3
<1>7. \A i \in 0 .. n - 1 : shorter[i] = mode[i + 1]
  OBVIOUS
<1> HIDE DEF shorter
<1>8. ASSUME NEW i \in 1 .. n - 1, Winding(i + 1) PROVE Winding(i)'
  <2>1. \A j \in i .. n - 1 : events'[j].what \in {"Disconnected", "Dropped"}
    <3> TAKE j \in i .. n - 1
    <3>1. j \in 1 .. n - 1 /\ j + 1 \in i + 1 .. n
      BY <1>1
    <3> QED
      BY <1>0, <1>2, <1>8, <3>1 DEF Winding
  <2> QED
    BY <1>1, <1>8, <2>1 DEF Winding
<1>9. \A i \in 1 .. n - 1 :
          /\ Leads(shorter[i - 1], events'[i], shorter[i])
          /\ EndsTwice(shorter[i - 1], events'[i]) => Winding(i)'
  <2> TAKE i \in 1 .. n - 1
  <2>1. i - 1 \in 0 .. n - 1 /\ i \in 0 .. n - 1 /\ i + 1 \in 1 .. n /\ i - 1 + 1 = i
        /\ i + 1 - 1 = i
    BY <1>1
  <2>2. shorter[i - 1] = mode[i] /\ shorter[i] = mode[i + 1] /\ events'[i] = events[i + 1]
    BY <1>2, <1>7, <2>1
  <2>3. Leads(mode[i], events[i + 1], mode[i + 1])
        /\ (EndsTwice(mode[i], events[i + 1]) => Winding(i + 1))
    BY <1>4, <2>1
  <2> QED
    BY <1>8, <2>2, <2>3
<1>10. History(shorter)'
  BY <1>1, <1>6, <1>9 DEF History
<1>11. shorter[0] = mode[1] /\ shorter[n - 1] = mode[n]
  <2>1. 0 \in 0 .. n - 1 /\ n - 1 \in 0 .. n - 1 /\ 0 + 1 = 1 /\ n - 1 + 1 = n
    BY <1>1
  <2> QED
    BY <1>7, <2>1
<1>12. mode[0] \in [Addr -> Mode] /\ mode[1] \in [Addr -> Mode]
  BY <1>1, <1>3
<1> QED
  BY <1>0, <1>1, <1>5, <1>10, <1>11, <1>12

\* Once only goodbyes are left, only goodbyes come.
LEMMA GoodbyesComeLast ==
  ASSUME ChannelOK, Winding(1), events # <<>>, events' = Tail(events), phase' = phase
  PROVE  Winding(1)' /\ Head(events).what \in {"Disconnected", "Dropped"}
<1>0. PICK n : n = Len(events)
  OBVIOUS
<1>1. n \in Nat \ {0} /\ Len(events') = n - 1 /\ Head(events) = events[1]
  BY <1>0 DEF ChannelOK
<1>2. \A i \in 1 .. n - 1 : events'[i] = events[i + 1] /\ i + 1 \in 1 .. n
  BY <1>0, <1>1 DEF ChannelOK
<1> QED
  BY <1>0, <1>1, <1>2 DEF Winding

-----------------------------------------------------------------------------
(* The connection server's steps.                                          *)

\* What is announced is explained.
LEMMA AnnouncedIsExplained ==
  ASSUME ChannelOK, NEW mode, Explains(mode), UNCHANGED sessionVars, NEW e \in ConnEvent,
         events' = Append(events, e), NEW after \in [Addr -> Mode],
         Leads(mode[Len(events)], e, after),
         phase # "Running" => phase' # "Running" /\ e.what \in {"Disconnected", "Dropped"},
         EndsTwice(mode[Len(events)], e) => phase' # "Running",
         phase' # "Stopped" => \A a \in Addr : FitsStage(a, after[a])'
  PROVE  \E longer : Explains(longer)'
<1>1. History(mode) /\ \A a \in Addr : SeesClient(a, mode[0][a])
  BY DEF Explains
<1>2. PICK longer : History(longer)' /\ longer[0] = mode[0] /\ longer[Len(events')] = after
  BY <1>1, HistoryGrows
<1>3. Winding(1) => Winding(1)'
  <2> SUFFICES ASSUME Winding(1) PROVE Winding(1)'
    OBVIOUS
  <2>0. PICK n : n = Len(events)
    OBVIOUS
  <2>1. n \in Nat /\ Len(events') = n + 1 /\ events'[n + 1] = e
        /\ \A i \in 1 .. n : events'[i] = events[i]
    BY <2>0 DEF ChannelOK
  <2>2. \A i \in 1 .. n + 1 : i = n + 1 \/ i \in 1 .. n
    BY <2>1
  <2> QED
    BY <2>0, <2>1, <2>2 DEF Winding
<1>4. ASSUME NEW a \in Addr PROVE SeesClient(a, longer[0][a])'
  <2>1. SeesClient(a, mode[0][a])
    BY <1>1
  <2> QED
    BY <1>2, <1>3, <2>1 DEF SeesClient, Seated, sessionVars
<1>5. Explains(longer)'
  BY <1>2, <1>4 DEF Explains
<1> QED
  BY <1>5

\* An announcement of a client's new stage.  The modes that fit its old
\* stage allow the event, and become modes that fit the new one.
AnnouncesStage(addr, what, to) ==
    /\ what \in {"Disconnected", "Pending", "Connected", "Disconnecting", "GameData"}
    /\ phase \in {"Running", "Closing"} /\ phase' = phase
    /\ phase = "Closing" => what = "Disconnected"
    /\ events' = Append(events, StateEvent(addr, what))
    /\ stage' = [stage EXCEPT ![addr] = to]
    /\ \A m \in Mode : FitsStage(addr, m) =>
           /\ MayFollow(m, what)
           /\ what = "Disconnected" /\ m = "Ended" => phase = "Closing"
           /\ FitsStage(addr, Becomes(m, what))'

\* Such an announcement is explained.
LEMMA StageEventIsExplained ==
  ASSUME ChannelOK, NEW mode, Explains(mode), UNCHANGED sessionVars,
         NEW addr \in Addr, NEW what, NEW to, AnnouncesStage(addr, what, to)
  PROVE  \E longer : Explains(longer)'
<1> USE DEF AnnouncesStage
<1>0. PICK before : before = mode[Len(events)]
  OBVIOUS
<1>1. before \in [Addr -> Mode]
  <2>1. Len(events) \in Nat /\ mode \in [0 .. Len(events) -> [Addr -> Mode]]
    BY DEF ChannelOK, Explains, History
  <2> QED
    BY <1>0, <2>1
<1>2. \A a \in Addr : FitsStage(a, before[a])
  BY <1>0 DEF Explains
<1>3. /\ MayFollow(before[addr], what)
      /\ what = "Disconnected" /\ before[addr] = "Ended" => phase = "Closing"
      /\ FitsStage(addr, Becomes(before[addr], what))'
  BY <1>1, <1>2
<1>4. PICK e : e = StateEvent(addr, what)
  OBVIOUS
<1>5. e \in ConnEvent /\ e.what = what /\ e.addr = addr
  BY <1>4 DEF StateEvent, ConnEvent
<1>6. PICK after : after = [before EXCEPT ![addr] = Becomes(before[addr], what)]
  OBVIOUS
<1>7. Becomes(before[addr], what) \in Mode
  BY <1>1 DEF Becomes, Mode
<1>8. /\ after \in [Addr -> Mode]
      /\ \A a \in Addr : after[a] = IF a = addr THEN Becomes(before[addr], what) ELSE before[a]
  BY <1>1, <1>6, <1>7
<1>9. ASSUME NEW a \in Addr PROVE FitsStage(a, after[a])'
  <2>1. CASE a = addr
    BY <1>3, <1>8, <2>1
  <2>2. CASE a # addr
    <3>1. stage'[a] = stage[a] /\ after[a] = before[a]
      BY <1>8, <2>2 DEF ChannelOK
    <3> QED
      BY <1>2, <3>1 DEF FitsStage
  <2> QED
    BY <2>1, <2>2
<1>10. Leads(before, e, after)
  BY <1>3, <1>5, <1>6 DEF Leads
<1>11. /\ events' = Append(events, e)
       /\ Leads(mode[Len(events)], e, after)
       /\ phase # "Running" => phase' # "Running" /\ e.what \in {"Disconnected", "Dropped"}
       /\ EndsTwice(mode[Len(events)], e) => phase' # "Running"
  BY <1>0, <1>3, <1>4, <1>5, <1>10 DEF EndsTwice
<1> QED
  BY <1>5, <1>8, <1>9, <1>11, AnnouncedIsExplained

\* Whatever the connection server does, the events in the channel explain
\* what the session server does not know yet.
LEMMA SourceIsExplained ==
  ASSUME ChannelOK, NEW mode, Explains(mode), UNCHANGED sessionVars, Source
  PROVE  ChannelOK' /\ \E longer : Explains(longer)'
<1> USE DEF Moves, Announce
<1>1. ASSUME NEW addr \in Addr, Begin(addr)
      PROVE  ChannelOK' /\ \E longer : Explains(longer)'
  <2>1. stage' = [stage EXCEPT ![addr] = "Pending"] /\ stage'[addr] = "Pending"
    BY <1>1 DEF Begin, ChannelOK
  <2>2. ChannelOK'
    BY <1>1, <2>1 DEF Begin, ChannelOK, StateEvent, ConnEvent
  <2>3. AnnouncesStage(addr, "Pending", "Pending")
    BY <1>1, <2>1 DEF Begin, AnnouncesStage, Mode, MayFollow, Becomes, FitsStage
  <2> QED
    BY <2>2, <2>3, StageEventIsExplained
<1>2. ASSUME NEW addr \in Addr, Accept(addr)
      PROVE  ChannelOK' /\ \E longer : Explains(longer)'
  <2>1. stage' = [stage EXCEPT ![addr] = "Connected"] /\ stage'[addr] = "Connected"
    BY <1>2 DEF Accept, ChannelOK
  <2>2. ChannelOK'
    BY <1>2, <2>1 DEF Accept, ChannelOK, StateEvent, ConnEvent
  <2>3. AnnouncesStage(addr, "Connected", "Connected")
    BY <1>2, <2>1 DEF Accept, AnnouncesStage, Mode, MayFollow, Becomes, FitsStage
  <2> QED
    BY <2>2, <2>3, StageEventIsExplained
<1>3. ASSUME NEW addr \in Addr, Deliver(addr)
      PROVE  ChannelOK' /\ \E longer : Explains(longer)'
  <2>1. stage' = [stage EXCEPT ![addr] = "Connected"] /\ stage'[addr] = "Connected"
    BY <1>3 DEF Deliver, ChannelOK
  <2>2. ChannelOK'
    BY <1>3, <2>1 DEF Deliver, ChannelOK, StateEvent, ConnEvent
  <2>3. AnnouncesStage(addr, "GameData", "Connected")
    BY <1>3, <2>1 DEF Deliver, AnnouncesStage, Mode, MayFollow, Becomes, FitsStage
  <2> QED
    BY <2>2, <2>3, StageEventIsExplained
<1>4. ASSUME NEW addr \in Addr, GiveUp(addr)
      PROVE  ChannelOK' /\ \E longer : Explains(longer)'
  <2>1. stage' = [stage EXCEPT ![addr] = "Disconnecting"] /\ stage'[addr] = "Disconnecting"
    BY <1>4 DEF GiveUp, ChannelOK
  <2>2. ChannelOK'
    BY <1>4, <2>1 DEF GiveUp, ChannelOK, StateEvent, ConnEvent
  <2>3. AnnouncesStage(addr, "Disconnecting", "Disconnecting")
    BY <1>4, <2>1 DEF GiveUp, AnnouncesStage, Mode, MayFollow, Becomes, FitsStage
  <2> QED
    BY <2>2, <2>3, StageEventIsExplained
<1>5. ASSUME NEW addr \in Addr, Leave(addr)
      PROVE  ChannelOK' /\ \E longer : Explains(longer)'
  <2>1. stage' = [stage EXCEPT ![addr] = "None"] /\ stage'[addr] = "None"
    BY <1>5 DEF Leave, ChannelOK
  <2>2. ChannelOK'
    BY <1>5, <2>1 DEF Leave, ChannelOK, StateEvent, ConnEvent
  <2>3. AnnouncesStage(addr, "Disconnected", "None")
    BY <1>5, <2>1 DEF Leave, AnnouncesStage, Mode, MayFollow, Becomes, FitsStage
  <2> QED
    BY <2>2, <2>3, StageEventIsExplained
<1>6. ASSUME NEW addr \in Addr, LeaveAtClose(addr)
      PROVE  ChannelOK' /\ \E longer : Explains(longer)'
  <2>1. stage' = [stage EXCEPT ![addr] = "None"] /\ stage'[addr] = "None"
    BY <1>6 DEF LeaveAtClose, ChannelOK
  <2>2. ChannelOK'
    BY <1>6, <2>1 DEF LeaveAtClose, ChannelOK, StateEvent, ConnEvent
  <2>3. AnnouncesStage(addr, "Disconnected", "None")
    BY <1>6, <2>1 DEF LeaveAtClose, AnnouncesStage, Mode, MayFollow, Becomes, FitsStage
  <2> QED
    BY <2>2, <2>3, StageEventIsExplained
<1>7. ASSUME NEW addr \in Addr, LeaveSilently(addr)
      PROVE  ChannelOK' /\ \E longer : Explains(longer)'
  <2>1. ChannelOK'
    BY <1>7 DEF LeaveSilently, ChannelOK
  <2>2. History(mode)'
    BY <1>7 DEF LeaveSilently, Explains, History, Winding
  <2>3. \A a \in Addr : SeesClient(a, mode[0][a])'
    BY <1>7 DEF LeaveSilently, Explains, SeesClient, Seated, Winding, sessionVars
  <2>4. \A a \in Addr : FitsStage(a, mode[Len(events)][a])'
    BY <1>7 DEF LeaveSilently, ChannelOK, Explains, FitsStage
  <2> QED
    BY <2>1, <2>2, <2>3, <2>4 DEF Explains
<1>8. ASSUME Close PROVE ChannelOK' /\ \E longer : Explains(longer)'
  <2>1. ChannelOK'
    BY <1>8 DEF Close, ChannelOK
  <2>2. History(mode)'
    BY <1>8 DEF Close, Explains, History, Winding
  <2>3. \A a \in Addr : SeesClient(a, mode[0][a])'
    BY <1>8 DEF Close, Explains, SeesClient, Seated, Winding, sessionVars
  <2>4. \A a \in Addr : FitsStage(a, mode[Len(events)][a])'
    BY <1>8 DEF Close, Explains, FitsStage
  <2> QED
    BY <2>1, <2>2, <2>3, <2>4 DEF Explains
<1>9. ASSUME Stop PROVE ChannelOK' /\ \E longer : Explains(longer)'
  <2>0. PICK after : after = mode[Len(events)]
    OBVIOUS
  <2>1. after \in [Addr -> {"Unknown", "Pending", "Connected", "Ended"}]
    <3>1. Len(events) \in Nat /\ mode \in [0 .. Len(events) -> [Addr -> Mode]]
      BY DEF ChannelOK, Explains, History
    <3> QED
      BY <2>0, <3>1
  <2>2. PICK e : e = [what |-> "Dropped"]
    OBVIOUS
  <2>3. e \in ConnEvent /\ e.what = "Dropped"
    BY <2>2 DEF ConnEvent
  <2>4. ChannelOK' /\ events' = Append(events, e) /\ phase' = "Stopped"
    BY <1>9, <2>2, <2>3 DEF Stop, ChannelOK
  <2>5. after \in [Addr -> Mode] /\ Leads(mode[Len(events)], e, after)
        /\ ~ EndsTwice(mode[Len(events)], e)
    BY <2>0, <2>1, <2>3 DEF Leads, EndsTwice, Mode
  <2> QED
    BY <2>3, <2>4, <2>5, AnnouncedIsExplained
<1> QED
  BY <1>1, <1>2, <1>3, <1>4, <1>5, <1>6, <1>7, <1>8, <1>9 DEF Source

-----------------------------------------------------------------------------
(* The invariant.                                                          *)

CommitsOfAPlayer == UNION {[T -> ActionSeq] : T \in SUBSET Nat}

SessionTypeOK ==
    /\ known \subseteq Addr
    /\ playerOf \in [Addr -> {0} \cup PlayerId]
    /\ players \in [PlayerId -> Addr \cup {Vacant}]
    /\ committed \in [PlayerId -> CommitsOfAPlayer]
    /\ tick \in Nat
    /\ world \in GoodWorld

VacantCommitsNothing ==
    \A p \in PlayerId : players[p] = Vacant => DOMAIN committed[p] = {}

\* The slots, without the channel.
SlotsInv == SessionTypeOK /\ SlotsMatchClients /\ VacantCommitsNothing

SessionInv == ChannelOK /\ SlotsInv /\ OnlyKnownPanics /\ EventsAreExplained

\* What a step may not do to the commits and to the slots.
CommitsAreKept ==
    \A p \in PlayerId : \A t \in DOMAIN committed[p] :
        \/ t <= tick'
        \/ players'[p] = Vacant
        \/ t \in DOMAIN committed'[p] /\ committed'[p][t] = committed[p][t]

SlotsStep == SlotsInv' /\ CommitsAreKept

VacatedByOwn ==
    \A p \in PlayerId :
        phase = "Running" /\ players[p] # Vacant /\ players'[p] # players[p] =>
            /\ events # <<>>
            /\ Head(events).addr = players[p]
            /\ players'[p] = Vacant

\* Nothing has been committed, or a few ticks have.
LEMMA NothingCommitted == <<>> \in CommitsOfAPlayer /\ DOMAIN <<>> = {}
<1>1. DOMAIN <<>> = {}
  OBVIOUS
<1>2. <<>> \in [{} -> ActionSeq]
  OBVIOUS
<1> QED
  BY <1>1, <1>2 DEF CommitsOfAPlayer

\* A client with a slot is known and knows it, so it has one slot.
LEMMA OneSlotAClient ==
  ASSUME SlotsInv, NEW p \in PlayerId, players[p] # Vacant
  PROVE  players[p] \in known /\ players[p] \in Addr /\ playerOf[players[p]] = p
  BY DEF SlotsInv, SessionTypeOK, SlotsMatchClients

\* A step that does not touch the slots.
LEMMA SlotsAsTheyAre ==
  ASSUME SlotsInv, StaysAsItIs, tick' = tick, known' \subseteq Addr,
         playerOf' \in [Addr -> {0} \cup PlayerId],
         \A p \in PlayerId : players[p] # Vacant =>
             players[p] \in known' /\ playerOf'[players[p]] = playerOf[players[p]]
  PROVE  SlotsStep
<1>1. SlotsInv'
  BY DEF SlotsInv, SessionTypeOK, SlotsMatchClients, VacantCommitsNothing, StaysAsItIs
<1>2. CommitsAreKept
  BY DEF CommitsAreKept, StaysAsItIs
<1> QED
  BY <1>1, <1>2 DEF SlotsStep

\* A player leaves, and only the records of that player change.
LEMMA LeavingFreesASlot ==
  ASSUME SlotsInv, NEW p \in PlayerId, Leaves(p), tick' = tick, known' \subseteq Addr,
         playerOf' \in [Addr -> {0} \cup PlayerId],
         \A q \in PlayerId : q # p /\ players[q] # Vacant =>
             players[q] \in known' /\ playerOf'[players[q]] = playerOf[players[q]]
  PROVE  /\ SlotsStep
         /\ \A q \in PlayerId : players'[q] = IF q = p THEN Vacant ELSE players[q]
<1>1. \A q \in PlayerId : /\ players'[q] = IF q = p THEN Vacant ELSE players[q]
                          /\ committed'[q] = IF q = p THEN <<>> ELSE committed[q]
  BY DEF Leaves, SlotsInv, SessionTypeOK
<1>2. world' \in GoodWorld /\ world'.hands = [world.hands EXCEPT ![p] = <<>>]
  BY DespawnKeepsGood DEF Leaves, SlotsInv, SessionTypeOK
<1>3. \A q \in PlayerId : world'.hands[q] = IF q = p THEN <<>> ELSE world.hands[q]
  <2>1. world \in GoodWorld
    BY DEF SlotsInv, SessionTypeOK
  <2>2. world.hands \in [PlayerId -> {<<>>} \cup [Hand -> HandGrabState]]
    BY <2>1, WorldParts
  <2> QED
    BY <1>2, <2>2
<1>4. SessionTypeOK'
  BY <1>2, NothingCommitted DEF SlotsInv, SessionTypeOK, Leaves
<1>5. SlotsMatchClients'
  BY <1>1, <1>3, OneSlotAClient DEF SlotsInv, SlotsMatchClients
<1>6. VacantCommitsNothing'
  BY <1>1, NothingCommitted DEF SlotsInv, VacantCommitsNothing
<1>7. CommitsAreKept
  BY <1>1 DEF CommitsAreKept
<1> QED
  BY <1>1, <1>4, <1>5, <1>6, <1>7 DEF SlotsInv, SlotsStep

-----------------------------------------------------------------------------
(* The session server's steps.                                             *)

\* What is known of the first event in the channel.
Foretold(mode, what, addr) ==
    /\ addr \in Addr /\ addr = Head(events).addr
    /\ mode[0] \in [Addr -> Mode]
    /\ MayFollow(mode[0][addr], what)
    /\ \A b \in Addr : mode[1][b] = IF b = addr THEN Becomes(mode[0][addr], what) ELSE mode[0][b]
    /\ what = "Disconnected" /\ mode[0][addr] = "Ended" => Winding(1)
    /\ Winding(1) => Winding(1)' /\ what = "Disconnected"
    /\ \A b \in Addr : SeesClient(b, mode[0][b])

LEMMA FirstEvent ==
  ASSUME ChannelOK, NEW mode, Explains(mode), NEW what, what # "Dropped",
         Takes(what), UNCHANGED <<stage, phase>>
  PROVE  /\ ChannelOK'
         /\ \E addr : Foretold(mode, what, addr)
         /\ (\A b \in Addr : SeesClient(b, mode[1][b])') => \E shorter : Explains(shorter)'
<1>1. events # <<>> /\ Head(events).what = what /\ events' = Tail(events)
      /\ stage' = stage /\ phase' = phase
  BY DEF Takes
<1>2. ChannelOK' /\ Head(events) \in ConnEvent
  BY <1>1 DEF ChannelOK
<1>3. PICK addr : addr = Head(events).addr /\ addr \in Addr
  BY <1>1, <1>2 DEF ConnEvent
<1>4. History(mode) /\ \A a \in Addr : SeesClient(a, mode[0][a])
  BY DEF Explains
<1>5. /\ Leads(mode[0], Head(events), mode[1])
      /\ EndsTwice(mode[0], Head(events)) => Winding(1)
      /\ mode[0] \in [Addr -> Mode] /\ mode[1] \in [Addr -> Mode]
  BY <1>1, <1>4, HistoryShrinks
<1>6. PICK shorter : /\ History(shorter)'
                     /\ shorter[0] = mode[1]
                     /\ shorter[Len(events')] = mode[Len(events)]
  BY <1>1, <1>4, HistoryShrinks
<1>7. Foretold(mode, what, addr)
  <2>1. Winding(1) => Winding(1)' /\ what = "Disconnected"
    BY <1>1, GoodbyesComeLast
  <2> QED
    BY <1>1, <1>3, <1>4, <1>5, <2>1 DEF Foretold, Leads, EndsTwice
<1>8. ASSUME \A b \in Addr : SeesClient(b, mode[1][b])' PROVE Explains(shorter)'
  <2>1. \A b \in Addr : SeesClient(b, shorter[0][b])'
    BY <1>6, <1>8
  <2>2. phase' # "Stopped" => \A a \in Addr : FitsStage(a, shorter[Len(events)][a])'
    BY <1>1, <1>6 DEF Explains, FitsStage
  <2> QED
    BY <1>6, <2>1, <2>2 DEF Explains
<1> QED
  BY <1>2, <1>7, <1>8

SessionStep == SessionInv' /\ CommitsAreKept /\ VacatedByOwn

\* The task ends at one of the two lookups that may fail.
LEMMA KnownPanic ==
  ASSUME SlotsInv, ChannelOK', NEW why \in {"prev.is_none()", "dropped"}, Panics(why)
  PROVE  SessionStep
<1>1. SlotsStep
  BY SlotsAsTheyAre DEF Panics, SlotsInv, SessionTypeOK, SlotsMatchClients, StaysAsItIs
<1>2. OnlyKnownPanics' /\ EventsAreExplained'
  BY DEF Panics, OnlyKnownPanics, EventsAreExplained, Alive
<1>3. VacatedByOwn
  BY DEF Panics, VacatedByOwn
<1> QED
  BY <1>1, <1>2, <1>3 DEF SessionStep, SessionInv, SlotsStep

\* The task goes on.
LEMMA GoesOn ==
  ASSUME OnlyKnownPanics, ChannelOK', SlotsStep, VacatedByOwn, panic' = panic,
         \E longer : Explains(longer)'
  PROVE  SessionStep
  BY DEF SessionStep, SessionInv, SlotsStep, OnlyKnownPanics, EventsAreExplained

LEMMA DisconnectedKeeps ==
  ASSUME SessionInv, Alive, HandleDisconnected, UNCHANGED <<stage, phase>>
  PROVE  SessionStep
<1>1. PICK mode : Explains(mode)
  BY DEF SessionInv, EventsAreExplained
<1>2. ChannelOK /\ SlotsInv /\ OnlyKnownPanics /\ Takes("Disconnected")
  BY DEF SessionInv, HandleDisconnected
<1>3. /\ ChannelOK'
      /\ (\A b \in Addr : SeesClient(b, mode[1][b])') => \E shorter : Explains(shorter)'
  BY <1>1, <1>2, FirstEvent
<1>4. PICK addr : Foretold(mode, "Disconnected", addr)
  BY <1>1, <1>2, FirstEvent
<1>5. addr \in Addr /\ addr \in known
  BY <1>4 DEF Foretold, SeesClient, MayFollow
<1>6. /\ known' = known \ {addr}
      /\ playerOf' = [playerOf EXCEPT ![addr] = 0]
      /\ IF playerOf[addr] # 0 THEN Leaves(playerOf[addr]) ELSE StaysAsItIs
      /\ tick' = tick /\ panic' = panic
  BY <1>4, <1>5 DEF HandleDisconnected, Foretold
<1>7. /\ known' \subseteq Addr /\ playerOf' \in [Addr -> {0} \cup PlayerId]
      /\ \A b \in Addr : playerOf'[b] = IF b = addr THEN 0 ELSE playerOf[b]
      /\ playerOf[addr] \in {0} \cup PlayerId
  BY <1>2, <1>5, <1>6 DEF SlotsInv, SessionTypeOK
<1>8. \A q \in PlayerId : q # playerOf[addr] /\ players[q] # Vacant =>
          players[q] \in known' /\ playerOf'[players[q]] = playerOf[players[q]]
  BY <1>2, <1>6, <1>7, OneSlotAClient
<1>9. /\ SlotsStep
      /\ \A q \in PlayerId : players'[q] = IF q = playerOf[addr] THEN Vacant ELSE players[q]
  <2>1. CASE playerOf[addr] # 0
    BY <1>2, <1>6, <1>7, <1>8, <2>1, LeavingFreesASlot
  <2>2. CASE playerOf[addr] = 0
    BY <1>2, <1>6, <1>7, <1>8, <2>2, ServerIsNoPlayer, SlotsAsTheyAre DEF StaysAsItIs, Server
  <2> QED
    BY <2>1, <2>2
<1>10. ASSUME NEW b \in Addr PROVE SeesClient(b, mode[1][b])'
  <2>1. CASE b = addr
    BY <1>4, <1>6, <1>7, <2>1 DEF Foretold, SeesClient, Becomes
  <2>2. CASE b # addr
    <3>1. mode[1][b] = mode[0][b] /\ SeesClient(b, mode[0][b]) /\ SeesClient(addr, mode[0][addr])
      BY <1>4, <1>5, <2>2 DEF Foretold
    <3>2. playerOf'[b] = playerOf[b] /\ (b \in known' <=> b \in known)
      BY <1>6, <1>7, <2>2
    <3>3. Vacant # b
      BY SessionAssumption
    <3>4. \A q \in PlayerId : players'[q] = b => players[q] = b
      BY <1>9, <3>3
    <3>5. ASSUME mode[0][b] = "Connected", ~ Winding(1) PROVE Seated(b)'
      <4>1. Seated(b)
        BY <3>1, <3>5 DEF SeesClient
      <4>2. mode[0][addr] # "Ended" /\ mode[0][addr] \in Mode
        BY <1>4, <1>5, <3>5 DEF Foretold
      <4>3. playerOf[addr] = 0 \/ Seated(addr)
        BY <3>1, <3>5, <4>2 DEF SeesClient, Mode
      <4>4. playerOf[b] # 0 => playerOf[b] # playerOf[addr]
        BY <2>2, <4>1, <4>3 DEF Seated
      <4>5. playerOf[b] \in {0} \cup PlayerId
        BY <1>2 DEF SlotsInv, SessionTypeOK
      <4> QED
        BY <1>9, <3>2, <4>1, <4>4, <4>5 DEF Seated
    <3>6. Winding(1) => Winding(1)'
      BY <1>4 DEF Foretold
    <3> QED
      BY <3>1, <3>2, <3>4, <3>5, <3>6 DEF SeesClient
  <2> QED
    BY <2>1, <2>2
<1>11. VacatedByOwn
  <2> SUFFICES ASSUME NEW p \in PlayerId, phase = "Running", players[p] # Vacant,
                      players'[p] # players[p]
               PROVE  /\ events # <<>>
                      /\ Head(events).addr = players[p]
                      /\ players'[p] = Vacant
    BY DEF VacatedByOwn
  <2>1. p = playerOf[addr] /\ players'[p] = Vacant
    BY <1>9
  <2>2. p # 0
    BY ServerIsNoPlayer DEF Server
  <2>3. mode[0][addr] # "Ended" /\ mode[0][addr] \in Mode
    BY <1>4, <1>5 DEF Foretold, Winding
  <2>4. Seated(addr)
    BY <1>4, <1>5, <2>1, <2>2, <2>3 DEF Foretold, SeesClient, Mode, Winding
  <2> QED
    BY <1>2, <1>4, <2>1, <2>2, <2>4 DEF Seated, Foretold, Takes
<1> QED
  BY <1>2, <1>3, <1>6, <1>9, <1>10, <1>11, GoesOn

LEMMA PendingKeeps ==
  ASSUME SessionInv, Alive, HandlePending, UNCHANGED <<stage, phase>>
  PROVE  SessionStep
<1>1. PICK mode : Explains(mode)
  BY DEF SessionInv, EventsAreExplained
<1>2. ChannelOK /\ SlotsInv /\ OnlyKnownPanics /\ Takes("Pending")
  BY DEF SessionInv, HandlePending
<1>3. /\ ChannelOK'
      /\ (\A b \in Addr : SeesClient(b, mode[1][b])') => \E shorter : Explains(shorter)'
  BY <1>1, <1>2, FirstEvent
<1>4. PICK addr : Foretold(mode, "Pending", addr)
  BY <1>1, <1>2, FirstEvent
<1>5. CASE addr \in known
  <2>1. Panics("prev.is_none()")
    BY <1>4, <1>5 DEF HandlePending, Foretold
  <2> QED
    BY <1>2, <1>3, <2>1, KnownPanic
<1>6. CASE addr \notin known
  <2>1. /\ known' = known \cup {addr}
        /\ playerOf' = [playerOf EXCEPT ![addr] = 0]
        /\ StaysAsItIs /\ tick' = tick /\ panic' = panic
    BY <1>4, <1>6 DEF HandlePending, Foretold
  <2>2. /\ known' \subseteq Addr /\ playerOf' \in [Addr -> {0} \cup PlayerId]
        /\ \A b \in Addr : playerOf'[b] = IF b = addr THEN 0 ELSE playerOf[b]
    BY <1>2, <1>4, <2>1 DEF SlotsInv, SessionTypeOK, Foretold
  <2>3. SlotsStep
    BY <1>2, <1>6, <2>1, <2>2, OneSlotAClient, SlotsAsTheyAre
  <2>4. ASSUME NEW b \in Addr PROVE SeesClient(b, mode[1][b])'
    <3>1. CASE b = addr
      BY <1>4, <2>1, <2>2, <3>1 DEF Foretold, SeesClient, Becomes
    <3>2. CASE b # addr
      <4>1. mode[1][b] = mode[0][b] /\ SeesClient(b, mode[0][b])
        BY <1>4, <3>2 DEF Foretold
      <4>2. Winding(1) => Winding(1)'
        BY <1>4 DEF Foretold
      <4> QED
        BY <2>1, <2>2, <3>2, <4>1, <4>2 DEF SeesClient, Seated, StaysAsItIs
    <3> QED
      BY <3>1, <3>2
  <2>5. VacatedByOwn
    BY <2>1 DEF VacatedByOwn, StaysAsItIs
  <2> QED
    BY <1>2, <1>3, <2>1, <2>3, <2>4, <2>5, GoesOn
<1> QED
  BY <1>5, <1>6

\* A client that has no slot yet takes a free one.
LEMMA JoiningTakesASlot ==
  ASSUME SlotsInv, NEW p \in PlayerId, players[p] = Vacant,
         NEW addr \in known, playerOf[addr] = 0,
         players' = [players EXCEPT ![p] = addr],
         committed' = [committed EXCEPT ![p] = <<>>],
         playerOf' = [playerOf EXCEPT ![addr] = p],
         world' = SpawnPlayer(world, p), known' = known, tick' = tick
  PROVE  /\ SlotsStep
         /\ \A q \in PlayerId : players'[q] = IF q = p THEN addr ELSE players[q]
         /\ \A b \in Addr : playerOf'[b] = IF b = addr THEN p ELSE playerOf[b]
<1>1. addr \in Addr /\ addr # Vacant /\ p # 0
  BY SessionAssumption, ServerIsNoPlayer DEF SlotsInv, SessionTypeOK, Server
<1>2. \A q \in PlayerId : players[q] # addr
  BY <1>1, OneSlotAClient, ServerIsNoPlayer DEF Server
<1>3. \A q \in PlayerId : /\ players'[q] = IF q = p THEN addr ELSE players[q]
                          /\ committed'[q] = IF q = p THEN <<>> ELSE committed[q]
  BY DEF SlotsInv, SessionTypeOK
<1>4. \A b \in Addr : playerOf'[b] = IF b = addr THEN p ELSE playerOf[b]
  BY DEF SlotsInv, SessionTypeOK
<1>5. world \in GoodWorld /\ world.hands[p] = <<>>
  BY DEF SlotsInv, SessionTypeOK, SlotsMatchClients
<1>6. world' \in GoodWorld /\ world'.hands = [world.hands EXCEPT ![p] = [h \in Hand |-> Empty]]
  BY <1>5, SpawnKeepsGood
<1>7. \A q \in PlayerId : world'.hands[q] = <<>> <=> q # p /\ world.hands[q] = <<>>
  <2>1. world.hands \in [PlayerId -> {<<>>} \cup [Hand -> HandGrabState]]
    BY <1>5, WorldParts
  <2>2. [h \in Hand |-> Empty] # <<>>
    BY HandsAreHands DEF HandGrabState
  <2> QED
    BY <1>6, <2>1, <2>2
<1>8. SessionTypeOK'
  BY <1>1, <1>6, NothingCommitted DEF SlotsInv, SessionTypeOK
<1>9. SlotsMatchClients'
  <2> SUFFICES ASSUME NEW q \in PlayerId
               PROVE  /\ players'[q] # Vacant =>
                            players'[q] \in known' /\ playerOf'[players'[q]] = q
                      /\ players'[q] = Vacant <=> world'.hands[q] = <<>>
    BY DEF SlotsMatchClients
  <2>1. CASE q = p
    BY <1>1, <1>3, <1>4, <1>7, <2>1
  <2>2. CASE q # p
    BY <1>2, <1>3, <1>4, <1>7, <2>2, OneSlotAClient DEF SlotsInv, SlotsMatchClients
  <2> QED
    BY <2>1, <2>2
<1>10. VacantCommitsNothing'
  BY <1>1, <1>3 DEF SlotsInv, VacantCommitsNothing
<1>11. CommitsAreKept
  BY <1>3 DEF CommitsAreKept, SlotsInv, VacantCommitsNothing
<1> QED
  BY <1>3, <1>4, <1>8, <1>9, <1>10, <1>11 DEF SlotsInv, SlotsStep

\* The first vacant slot is one of the vacant slots.
LEMMA FirstVacant ==
  ASSUME NEW vacant, vacant \subseteq PlayerId, vacant # {}
  PROVE  Min(vacant) \in vacant
<1>1. vacant \subseteq Nat
  BY ServerIsNoPlayer
<1>2. \E x \in vacant : \A y \in vacant : x <= y
  BY <1>1, OverActions!LeastNatural
<1> QED
  BY <1>2 DEF Min

LEMMA ConnectedKeeps ==
  ASSUME SessionInv, Alive, HandleConnected, UNCHANGED <<stage, phase>>
  PROVE  SessionStep
<1>1. PICK mode : Explains(mode)
  BY DEF SessionInv, EventsAreExplained
<1>2. ChannelOK /\ SlotsInv /\ OnlyKnownPanics /\ Takes("Connected")
  BY DEF SessionInv, HandleConnected
<1>3. /\ ChannelOK'
      /\ (\A b \in Addr : SeesClient(b, mode[1][b])') => \E shorter : Explains(shorter)'
  BY <1>1, <1>2, FirstEvent
<1>4. PICK addr : Foretold(mode, "Connected", addr)
  BY <1>1, <1>2, FirstEvent
<1>5. addr \in Addr /\ addr \in known /\ playerOf[addr] = 0
  BY <1>4 DEF Foretold, SeesClient, MayFollow
<1>6. PICK vacant : vacant = {p \in PlayerId : players[p] = Vacant}
  OBVIOUS
<1>7. /\ IF vacant # {}
           THEN /\ players' = [players EXCEPT ![Min(vacant)] = addr]
                /\ committed' = [committed EXCEPT ![Min(vacant)] = <<>>]
                /\ playerOf' = [playerOf EXCEPT ![addr] = Min(vacant)]
                /\ world' = SpawnPlayer(world, Min(vacant))
           ELSE StaysAsItIs /\ playerOf' = playerOf
      /\ known' = known /\ tick' = tick /\ panic' = panic
  BY <1>4, <1>5, <1>6 DEF HandleConnected, Foretold
<1>8. ~ Winding(1) /\ \A b \in Addr :
          /\ SeesClient(b, mode[0][b])
          /\ mode[1][b] = IF b = addr THEN "Connected" ELSE mode[0][b]
  BY <1>4 DEF Foretold, Becomes
<1>9. CASE vacant # {}
  <2>1. PICK p \in PlayerId : p = Min(vacant) /\ players[p] = Vacant
    BY <1>6, <1>9, FirstVacant
  <2>2. /\ SlotsStep
        /\ \A q \in PlayerId : players'[q] = IF q = p THEN addr ELSE players[q]
        /\ \A b \in Addr : playerOf'[b] = IF b = addr THEN p ELSE playerOf[b]
    BY <1>2, <1>5, <1>7, <1>9, <2>1, JoiningTakesASlot
  <2>3. ASSUME NEW b \in Addr PROVE SeesClient(b, mode[1][b])'
    <3>1. CASE b = addr
      BY <1>5, <1>7, <1>8, <2>2, <3>1 DEF SeesClient, Seated
    <3>2. CASE b # addr
      <4>1. mode[1][b] = mode[0][b] /\ SeesClient(b, mode[0][b])
        BY <1>8, <3>2
      <4>2. Vacant # b
        BY SessionAssumption
      <4>3. playerOf[b] \in {0} \cup PlayerId /\ playerOf'[b] = playerOf[b]
        BY <1>2, <2>2, <3>2 DEF SlotsInv, SessionTypeOK
      <4>4. Seated(b) => Seated(b)'
        BY <2>1, <2>2, <4>2, <4>3 DEF Seated
      <4> QED
        BY <1>7, <1>8, <2>2, <3>2, <4>1, <4>3, <4>4 DEF SeesClient
    <3> QED
      BY <3>1, <3>2
  <2>4. VacatedByOwn
    BY <2>1, <2>2 DEF VacatedByOwn
  <2> QED
    BY <1>2, <1>3, <1>7, <2>2, <2>3, <2>4, GoesOn
<1>10. CASE vacant = {}
  <2>1. StaysAsItIs /\ playerOf' = playerOf
    BY <1>7, <1>10
  <2>2. SlotsStep
    BY <1>2, <1>7, <2>1, OneSlotAClient, SlotsAsTheyAre DEF SlotsInv, SessionTypeOK
  <2>3. ASSUME NEW b \in Addr PROVE SeesClient(b, mode[1][b])'
    BY <1>5, <1>7, <1>8, <2>1 DEF SeesClient, Seated, StaysAsItIs
  <2>4. VacatedByOwn
    BY <2>1 DEF VacatedByOwn, StaysAsItIs
  <2> QED
    BY <1>2, <1>3, <1>7, <2>2, <2>3, <2>4, GoesOn
<1> QED
  BY <1>9, <1>10

LEMMA DisconnectingKeeps ==
  ASSUME SessionInv, Alive, HandleDisconnecting, UNCHANGED <<stage, phase>>
  PROVE  SessionStep
<1>1. PICK mode : Explains(mode)
  BY DEF SessionInv, EventsAreExplained
<1>2. ChannelOK /\ SlotsInv /\ OnlyKnownPanics /\ Takes("Disconnecting")
  BY DEF SessionInv, HandleDisconnecting
<1>3. /\ ChannelOK'
      /\ (\A b \in Addr : SeesClient(b, mode[1][b])') => \E shorter : Explains(shorter)'
  BY <1>1, <1>2, FirstEvent
<1>4. PICK addr : Foretold(mode, "Disconnecting", addr)
  BY <1>1, <1>2, FirstEvent
<1>5. /\ addr \in Addr /\ addr \in known
      /\ mode[0][addr] \in {"Pending", "Connected"}
      /\ ~ Winding(1)
      /\ \A b \in Addr :
            /\ SeesClient(b, mode[0][b])
            /\ mode[1][b] = IF b = addr THEN "Ended" ELSE mode[0][b]
  BY <1>4 DEF Foretold, SeesClient, MayFollow, Becomes
<1>6. /\ IF playerOf[addr] # 0 THEN Leaves(playerOf[addr]) ELSE StaysAsItIs
      /\ known' = known /\ playerOf' = playerOf /\ tick' = tick /\ panic' = panic
  BY <1>4, <1>5 DEF HandleDisconnecting, Foretold
<1>7. /\ known' \subseteq Addr /\ playerOf' \in [Addr -> {0} \cup PlayerId]
      /\ playerOf[addr] \in {0} \cup PlayerId
  BY <1>2, <1>5, <1>6 DEF SlotsInv, SessionTypeOK
<1>8. \A q \in PlayerId : players[q] # Vacant =>
          players[q] \in known' /\ playerOf'[players[q]] = playerOf[players[q]]
  BY <1>2, <1>6, OneSlotAClient
<1>9. /\ SlotsStep
      /\ \A q \in PlayerId : players'[q] = IF q = playerOf[addr] THEN Vacant ELSE players[q]
  <2>1. CASE playerOf[addr] # 0
    BY <1>2, <1>6, <1>7, <1>8, <2>1, LeavingFreesASlot
  <2>2. CASE playerOf[addr] = 0
    BY <1>2, <1>6, <1>7, <1>8, <2>2, ServerIsNoPlayer, SlotsAsTheyAre DEF StaysAsItIs, Server
  <2> QED
    BY <2>1, <2>2
<1>10. playerOf[addr] = 0 \/ players[playerOf[addr]] = addr
  BY <1>5 DEF SeesClient, Seated
<1>11. ASSUME NEW b \in Addr PROVE SeesClient(b, mode[1][b])'
  <2>1. Vacant # b
    BY SessionAssumption
  <2>2. CASE b = addr
    <3>1. \A q \in PlayerId : players'[q] # b
      BY <1>2, <1>9, <2>1, <2>2, OneSlotAClient
    <3> QED
      BY <1>5, <1>6, <2>2, <3>1 DEF SeesClient
  <2>3. CASE b # addr
    <3>1. mode[1][b] = mode[0][b] /\ SeesClient(b, mode[0][b])
      BY <1>5, <2>3
    <3>2. \A q \in PlayerId : players'[q] = b => players[q] = b
      BY <1>9, <2>1
    <3>3. Seated(b) => Seated(b)'
      <4>1. playerOf[b] \in {0} \cup PlayerId /\ playerOf'[b] = playerOf[b]
        BY <1>2, <1>6 DEF SlotsInv, SessionTypeOK
      <4> QED
        BY <1>9, <1>10, <2>3, <4>1 DEF Seated
    <3> QED
      BY <1>5, <1>6, <3>1, <3>2, <3>3 DEF SeesClient
  <2> QED
    BY <2>2, <2>3
<1>12. VacatedByOwn
  BY <1>2, <1>4, <1>9, <1>10, ServerIsNoPlayer DEF VacatedByOwn, Foretold, Takes, Server
<1> QED
  BY <1>2, <1>3, <1>6, <1>9, <1>11, <1>12, GoesOn

LEMMA DroppedKeeps ==
  ASSUME SessionInv, Alive, HandleDropped, UNCHANGED <<stage, phase>>
  PROVE  SessionStep
<1>1. SlotsInv /\ ChannelOK'
  BY DEF SessionInv, HandleDropped, Takes, ChannelOK
<1>2. Panics("dropped")
  BY DEF HandleDropped
<1> QED
  BY <1>1, <1>2, KnownPanic

\* Game data comes only from a client that is known and has its slot, and
\* changes neither.
LEMMA GameDataIsExplained ==
  ASSUME ChannelOK, SlotsInv, NEW mode, Explains(mode), Takes("GameData"),
         UNCHANGED <<stage, phase, known, playerOf, players>>
  PROVE  /\ ChannelOK' /\ \E shorter : Explains(shorter)'
         /\ \E addr \in known : addr = Head(events).addr /\ Seated(addr)
<1>1. /\ ChannelOK'
      /\ (\A b \in Addr : SeesClient(b, mode[1][b])') => \E shorter : Explains(shorter)'
  BY FirstEvent
<1>2. PICK addr : Foretold(mode, "GameData", addr)
  BY FirstEvent
<1>3. /\ addr \in Addr /\ addr = Head(events).addr
      /\ mode[0][addr] = "Connected"
      /\ ~ Winding(1)
      /\ \A b \in Addr : SeesClient(b, mode[0][b]) /\ mode[1][b] = mode[0][b]
  BY <1>2 DEF Foretold, MayFollow, Becomes
<1>4. addr \in known /\ Seated(addr)
  BY <1>3 DEF SeesClient
<1>5. ASSUME NEW b \in Addr PROVE SeesClient(b, mode[1][b])'
  <2>1. mode[1][b] = mode[0][b] /\ SeesClient(b, mode[0][b])
    BY <1>3
  <2> QED
    BY <1>3, <2>1 DEF SeesClient, Seated
<1> QED
  BY <1>1, <1>3, <1>4, <1>5

LEMMA UnusedGameDataKeeps ==
  ASSUME SessionInv, Alive, Takes("GameData"), UNCHANGED sessionVars, UNCHANGED <<stage, phase>>
  PROVE  SessionStep
<1>1. PICK mode : Explains(mode)
  BY DEF SessionInv, EventsAreExplained
<1>2. ChannelOK /\ SlotsInv /\ OnlyKnownPanics
  BY DEF SessionInv
<1>3. ChannelOK' /\ \E shorter : Explains(shorter)'
  BY <1>1, <1>2, GameDataIsExplained DEF sessionVars
<1>4. SlotsStep
  BY <1>2, OneSlotAClient, SlotsAsTheyAre
     DEF sessionVars, StaysAsItIs, SlotsInv, SessionTypeOK
<1>5. VacatedByOwn
  BY DEF sessionVars, VacatedByOwn
<1> QED
  BY <1>2, <1>3, <1>4, <1>5, GoesOn DEF sessionVars

\* A commit adds at most one tick to what one player has committed.
LEMMA CommitAddsATick ==
  ASSUME SlotsInv, NEW p \in PlayerId, players[p] # Vacant, NEW t \in Nat,
         NEW actions \in ActionSeq, committed' = Commits(p, t, actions),
         UNCHANGED <<known, playerOf, players, world, tick>>
  PROVE  SlotsStep
<1>1. committed \in [PlayerId -> CommitsOfAPlayer]
  BY DEF SlotsInv, SessionTypeOK
<1>2. CASE t > tick /\ t \notin DOMAIN committed[p]
  <2>1. PICK T \in SUBSET Nat : committed[p] \in [T -> ActionSeq]
    BY <1>1 DEF CommitsOfAPlayer
  <2>2. PICK more : more = WithTick(committed[p], t, actions)
    OBVIOUS
  <2>3. /\ DOMAIN more = T \cup {t}
        /\ \A u \in T : u # t /\ more[u] = committed[p][u]
    BY <1>2, <2>1, <2>2 DEF WithTick
  <2>4. more \in [T \cup {t} -> ActionSeq]
    BY <1>2, <2>1, <2>2 DEF WithTick
  <2>5. more \in CommitsOfAPlayer
    BY <2>4 DEF CommitsOfAPlayer
  <2>6. committed' = [committed EXCEPT ![p] = more]
    BY <1>2, <2>2 DEF Commits
  <2>7. \A q \in PlayerId : committed'[q] = IF q = p THEN more ELSE committed[q]
    BY <1>1, <2>6
  <2>8. SlotsInv'
    BY <2>5, <2>6, <2>7
       DEF SlotsInv, SessionTypeOK, SlotsMatchClients, VacantCommitsNothing
  <2>9. CommitsAreKept
    BY <2>1, <2>3, <2>7 DEF CommitsAreKept
  <2> QED
    BY <2>8, <2>9 DEF SlotsStep
<1>3. CASE ~ (t > tick /\ t \notin DOMAIN committed[p])
  <2>1. committed' = committed
    BY <1>3 DEF Commits
  <2> QED
    BY <2>1, OneSlotAClient, SlotsAsTheyAre DEF StaysAsItIs, SlotsInv, SessionTypeOK
<1> QED
  BY <1>2, <1>3

LEMMA CommitKeeps ==
  ASSUME SessionInv, Alive, HandleCommitActionsPacket, UNCHANGED <<stage, phase>>
  PROVE  SessionStep
<1>1. PICK mode : Explains(mode)
  BY DEF SessionInv, EventsAreExplained
<1>2. ChannelOK /\ SlotsInv /\ OnlyKnownPanics /\ Takes("GameData")
  BY DEF SessionInv, HandleCommitActionsPacket
<1>3. PICK addr \in known : addr = Head(events).addr /\ Seated(addr)
  <2>1. UNCHANGED <<known, playerOf, players>>
    BY DEF HandleCommitActionsPacket, Panics, sessionVars
  <2> QED
    BY <1>1, <1>2, <2>1, GameDataIsExplained
<1>4. CASE playerOf[addr] = 0
  <2>1. UNCHANGED sessionVars
    BY <1>3, <1>4 DEF HandleCommitActionsPacket
  <2> QED
    BY <1>2, <2>1, UnusedGameDataKeeps
<1>5. CASE playerOf[addr] # 0
  <2>1. PICK p \in PlayerId : p = playerOf[addr] /\ players[p] = addr /\ addr # Vacant
    BY <1>2, <1>3, <1>5, SessionAssumption DEF SlotsInv, SessionTypeOK, Seated
  <2>2. PICK t \in 1 .. tick + Lookahead, actions \in ActionSeq :
            /\ committed' = Commits(p, t, actions)
            /\ UNCHANGED <<known, playerOf, players, world, tick, panic>>
    BY <1>3, <1>5, <2>1 DEF HandleCommitActionsPacket
  <2>3. t \in Nat
    OBVIOUS
  <2>4. SlotsStep
    BY <1>2, <2>1, <2>2, <2>3, CommitAddsATick
  <2>5. ChannelOK' /\ \E shorter : Explains(shorter)'
    BY <1>1, <1>2, <2>2, GameDataIsExplained
  <2>6. VacatedByOwn
    BY <2>2 DEF VacatedByOwn
  <2> QED
    BY <1>2, <2>2, <2>4, <2>5, <2>6, GoesOn
<1> QED
  BY <1>4, <1>5

LEMMA UpdateKeeps ==
  ASSUME SessionInv, Alive, HandleUpdateOwnedTransformsPacket, UNCHANGED <<stage, phase>>
  PROVE  SessionStep
<1>1. PICK mode : Explains(mode)
  BY DEF SessionInv, EventsAreExplained
<1>2. ChannelOK /\ SlotsInv /\ OnlyKnownPanics /\ Takes("GameData")
  BY DEF SessionInv, HandleUpdateOwnedTransformsPacket
<1>3. UNCHANGED <<known, playerOf, players>>
  BY DEF HandleUpdateOwnedTransformsPacket, Panics, sessionVars
<1>4. Head(events).addr \in known
  BY <1>1, <1>2, <1>3, GameDataIsExplained
<1>5. UNCHANGED sessionVars
  BY <1>4 DEF HandleUpdateOwnedTransformsPacket
<1> QED
  BY <1>2, <1>5, UnusedGameDataKeeps

\* A tick applies what is due to a good world, and forgets what is past.
LEMMA TickKeeps ==
  ASSUME SessionInv, Alive, HandleTick, UNCHANGED <<stage, phase>>
  PROVE  SessionStep
<1>1. ChannelOK /\ SlotsInv /\ OnlyKnownPanics
  BY DEF SessionInv
<1>2. PICK now : now = tick + 1
  OBVIOUS
<1>3. PICK acting : acting = {p \in PlayerId : players[p] # Vacant /\ now \in DOMAIN committed[p]}
  OBVIOUS
<1>4. PICK due : due = [p \in acting |-> committed[p][now]]
  OBVIOUS
<1>5. /\ \E order \in SetToSeqs(acting) : world' = ApplyDue(world, due, order)
      /\ committed' = [p \in PlayerId |->
                          [t \in {u \in DOMAIN committed[p] : u > now} |-> committed[p][t]]]
      /\ tick' = now
      /\ panic' = IF world'.sound THEN panic ELSE "drop"
      /\ UNCHANGED <<events, known, playerOf, players>>
  BY <1>2, <1>3, <1>4 DEF HandleTick
<1>6. /\ committed \in [PlayerId -> CommitsOfAPlayer] /\ tick \in Nat /\ now \in Nat
      /\ world \in GoodWorld
  BY <1>1, <1>2 DEF SlotsInv, SessionTypeOK
<1>7. world' \in SamePlayers(world)
  <2>1. due \in [acting -> ActionSeq]
    BY <1>3, <1>4, <1>6 DEF CommitsOfAPlayer
  <2>2. acting \in SUBSET PlayerId
    BY <1>3
  <2> QED
    BY <1>5, <1>6, <2>1, <2>2, ApplyDueKeepsGood
<1>8. world' \in GoodWorld /\ \A p \in PlayerId : world'.hands[p] = <<>> <=> world.hands[p] = <<>>
  BY <1>7 DEF SamePlayers
<1>9. panic' = panic
  BY <1>5, <1>8 DEF GoodWorld, World
<1>10. ASSUME NEW p \in PlayerId
       PROVE  /\ committed'[p] \in CommitsOfAPlayer
              /\ \A t \in DOMAIN committed[p] :
                    \/ t <= now
                    \/ t \in DOMAIN committed'[p] /\ committed'[p][t] = committed[p][t]
              /\ DOMAIN committed'[p] \subseteq DOMAIN committed[p]
  <2>1. PICK T \in SUBSET Nat : committed[p] \in [T -> ActionSeq]
    BY <1>6 DEF CommitsOfAPlayer
  <2>2. PICK U : U = {u \in T : u > now}
    OBVIOUS
  <2>3. committed'[p] = [t \in U |-> committed[p][t]]
    BY <1>5, <2>1, <2>2
  <2>4. committed'[p] \in [U -> ActionSeq] /\ U \in SUBSET Nat
    BY <2>1, <2>2, <2>3
  <2>5. \A t \in T : t <= now \/ t \in U
    BY <1>6, <2>2
  <2> QED
    BY <2>1, <2>2, <2>3, <2>4, <2>5 DEF CommitsOfAPlayer
<1>11. committed' \in [PlayerId -> CommitsOfAPlayer]
  BY <1>5, <1>10
<1>12. SlotsInv'
  BY <1>1, <1>5, <1>6, <1>8, <1>10, <1>11
     DEF SlotsInv, SessionTypeOK, SlotsMatchClients, VacantCommitsNothing
<1>13. CommitsAreKept /\ VacatedByOwn
  BY <1>5, <1>10 DEF CommitsAreKept, VacatedByOwn
<1>14. ChannelOK' /\ \E shorter : Explains(shorter)'
  <2>1. PICK mode : Explains(mode)
    BY DEF SessionInv, EventsAreExplained
  <2>2. Explains(mode)'
    BY <1>5, <2>1 DEF Explains, History, SeesClient, FitsStage, Seated, Winding
  <2> QED
    BY <1>1, <1>5, <2>2 DEF ChannelOK
<1> QED
  BY <1>1, <1>9, <1>12, <1>13, <1>14, GoesOn DEF SlotsStep

-----------------------------------------------------------------------------
(* The theorems.                                                           *)

LEMMA SourceKeeps ==
  ASSUME SessionInv, Source, UNCHANGED sessionVars
  PROVE  SessionStep
<1>1. ChannelOK /\ SlotsInv /\ OnlyKnownPanics
  BY DEF SessionInv
<1>2. SlotsStep
  BY <1>1, OneSlotAClient, SlotsAsTheyAre
     DEF sessionVars, StaysAsItIs, SlotsInv, SessionTypeOK
<1>5. VacatedByOwn
  BY DEF sessionVars, VacatedByOwn
<1>3. CASE Alive
  <2>1. PICK mode : Explains(mode)
    BY <1>3 DEF SessionInv, EventsAreExplained
  <2>2. ChannelOK' /\ \E longer : Explains(longer)'
    BY <1>1, <2>1, SourceIsExplained
  <2> QED
    BY <1>1, <1>2, <1>5, <2>2, GoesOn DEF sessionVars
<1>4. CASE ~ Alive
  <2>1. ~ Alive' /\ OnlyKnownPanics'
    BY <1>1, <1>4 DEF sessionVars, Alive, OnlyKnownPanics
  <2>2. ASSUME NEW addr \in Addr, NEW what,
               what \in {"Disconnected", "Pending", "Connected", "Disconnecting", "GameData"},
               events' = Append(events, StateEvent(addr, what))
        PROVE  events' \in Seq(ConnEvent)
    <3>1. StateEvent(addr, what) \in ConnEvent
      BY <2>2 DEF StateEvent, ConnEvent
    <3> QED
      BY <1>1, <2>2, <3>1 DEF ChannelOK
  <2>3. events' = Append(events, [what |-> "Dropped"]) => events' \in Seq(ConnEvent)
    BY <1>1 DEF ChannelOK, ConnEvent
  <2>4. events' \in Seq(ConnEvent)
    BY <1>1, <2>2, <2>3
       DEF ChannelOK, Source, Begin, Accept, Deliver, GiveUp, Leave, LeaveSilently, Close,
           LeaveAtClose, Stop, Announce
  <2>5. /\ stage' \in [Addr -> {"None", "Pending", "Connected", "Disconnecting"}]
        /\ phase' \in {"Running", "Closing", "Stopped"}
    BY <1>1
       DEF ChannelOK, Source, Begin, Accept, Deliver, GiveUp, Leave, LeaveSilently, Close,
           LeaveAtClose, Stop, Moves
  <2>6. ChannelOK'
    BY <2>4, <2>5 DEF ChannelOK
  <2> QED
    BY <1>2, <1>5, <2>1, <2>6 DEF SessionStep, SessionInv, SlotsStep, EventsAreExplained
<1> QED
  BY <1>3, <1>4

LEMMA InitHolds == Init => SessionInv
<1> SUFFICES ASSUME Init PROVE SessionInv
  OBVIOUS
<1> USE DEF Init, EventsInit
<1>1. ChannelOK
  BY DEF ChannelOK
<1>2. SlotsInv
  <2>1. world \in GoodWorld
    BY NewWorldIsGood
  <2>2. \A p \in PlayerId : players[p] = Vacant /\ world.hands[p] = <<>> /\ committed[p] = <<>>
    BY DEF NewWorld
  <2> QED
    BY <2>1, <2>2, NothingCommitted
       DEF SlotsInv, SessionTypeOK, SlotsMatchClients, VacantCommitsNothing
<1>3. OnlyKnownPanics
  BY DEF OnlyKnownPanics
<1>4. EventsAreExplained
  <2>1. PICK mode : mode = [i \in {0} |-> [a \in Addr |-> "Unknown"]]
    OBVIOUS
  <2>2. mode \in [0 .. 0 -> [Addr -> Mode]] /\ \A a \in Addr : mode[0][a] = "Unknown"
    BY <2>1 DEF Mode
  <2>3. Len(events) = 0
    OBVIOUS
  <2>4. History(mode)
    BY <2>2, <2>3 DEF History
  <2>5. \A a \in Addr : SeesClient(a, mode[0][a]) /\ FitsStage(a, mode[0][a])
    BY <2>2 DEF SeesClient, FitsStage
  <2> QED
    BY <2>3, <2>4, <2>5 DEF EventsAreExplained, Explains
<1> QED
  BY <1>1, <1>2, <1>3, <1>4 DEF SessionInv

LEMMA NextKeeps == SessionInv /\ Next => SessionStep
<1> SUFFICES ASSUME SessionInv, Next PROVE SessionStep
  OBVIOUS
<1>1. CASE Source /\ UNCHANGED sessionVars
  BY <1>1, SourceKeeps
<1>2. CASE Session
  <2>1. Alive /\ UNCHANGED <<stage, phase>>
    BY <1>2 DEF Session
  <2>2. CASE HandleDisconnected
    BY <2>1, <2>2, DisconnectedKeeps
  <2>3. CASE HandlePending
    BY <2>1, <2>3, PendingKeeps
  <2>4. CASE HandleConnected
    BY <2>1, <2>4, ConnectedKeeps
  <2>5. CASE HandleDisconnecting
    BY <2>1, <2>5, DisconnectingKeeps
  <2>6. CASE HandleDropped
    BY <2>1, <2>6, DroppedKeeps
  <2>7. CASE HandleOtherGameData
    BY <2>1, <2>7, UnusedGameDataKeeps DEF HandleOtherGameData
  <2>8. CASE HandleCommitActionsPacket
    BY <2>1, <2>8, CommitKeeps
  <2>9. CASE HandleUpdateOwnedTransformsPacket
    BY <2>1, <2>9, UpdateKeeps
  <2>10. CASE HandleTick
    BY <2>1, <2>10, TickKeeps
  <2> QED
    BY <1>2, <2>2, <2>3, <2>4, <2>5, <2>6, <2>7, <2>8, <2>9, <2>10 DEF Session
<1> QED
  BY <1>1, <1>2 DEF Next

LEMMA StutterKeeps == SessionInv /\ UNCHANGED vars => SessionInv'
<1> SUFFICES ASSUME SessionInv, UNCHANGED vars PROVE SessionInv'
  OBVIOUS
<1> USE DEF vars, eventVars, sessionVars
<1>1. ChannelOK' /\ OnlyKnownPanics'
  BY DEF SessionInv, ChannelOK, OnlyKnownPanics
<1>2. SlotsInv'
  BY DEF SessionInv, SlotsInv, SessionTypeOK, SlotsMatchClients, VacantCommitsNothing
<1>3. ASSUME NEW mode, Explains(mode) PROVE Explains(mode)'
  BY <1>3 DEF Explains, History, SeesClient, FitsStage, Seated, Winding
<1>4. EventsAreExplained'
  BY <1>3 DEF SessionInv, EventsAreExplained, Alive
<1> QED
  BY <1>1, <1>2, <1>4 DEF SessionInv

\* The strengthened invariant of the session server: what it knows and the
\* events it has not taken yet agree with the connection server.
THEOREM SessionServerInvariant == Spec => []SessionInv
<1>1. SessionInv /\ [Next]_vars => SessionInv'
  BY NextKeeps, StutterKeeps DEF SessionStep
<1> QED
  BY InitHolds, <1>1, PTL DEF Spec

\* Of the unwraps, indexes and assertions of the session server only two
\* fail, the one for a client that comes back before it was forgotten and
\* the one for the end of the event stream.
THEOREM LookupsSucceed == Spec => []OnlyKnownPanics
<1>1. SessionInv => OnlyKnownPanics
  BY DEF SessionInv
<1> QED
  BY SessionServerInvariant, <1>1, PTL

\* Every slot that is taken is taken by one known client that knows it, and
\* has hands in the world; no slot that is free has any.
THEOREM SlotsAreTheirClients == Spec => []SlotsMatchClients
<1>1. SessionInv => SlotsMatchClients
  BY DEF SessionInv, SlotsInv
<1> QED
  BY SessionServerInvariant, <1>1, PTL

\* What a hand holds is its player's, is grabbed, and is in no other hand.
THEOREM HandsHoldTheirOwn == Spec => []HeldItemsAreOwned
<1>1. ASSUME NEW w \in GoodWorld, NEW p \in PlayerId, NEW h \in DOMAIN w.hands[p],
             w.hands[p][h] # Empty
      PROVE  /\ w.authority[w.hands[p][h]] = p
             /\ w.grabbed[w.hands[p][h]]
             /\ \A q \in PlayerId : \A k \in DOMAIN w.hands[q] :
                   w.hands[q][k] = w.hands[p][h] => q = p /\ k = h
  <2>1. Owns(w, p)
    BY WorldParts
  <2>2. ASSUME NEW q \in PlayerId, NEW k \in DOMAIN w.hands[q], w.hands[q][k] = w.hands[p][h]
        PROVE  q = p /\ k = h
    <3>1. Owns(w, q)
      BY WorldParts
    <3> QED
      BY <1>1, <2>1, <2>2, <3>1 DEF Owns
  <2> QED
    BY <1>1, <2>1, <2>2 DEF Owns
<1>2. SessionInv => HeldItemsAreOwned
  BY <1>1 DEF SessionInv, SlotsInv, SessionTypeOK, HeldItemsAreOwned
<1> QED
  BY SessionServerInvariant, <1>2, PTL

\* No item is left with a player who does not hold it.
THEOREM NoItemIsStranded == Spec => []AuthorityIsHeld
<1>1. SessionInv => AuthorityIsHeld
  BY DEF SessionInv, SlotsInv, SessionTypeOK, GoodWorld, IsHeld, AuthorityIsHeld
<1> QED
  BY SessionServerInvariant, <1>1, PTL

\* The first actions committed for a tick are the ones that count.
THEOREM FirstCommitStands == Spec => FirstCommitWins
<1>1. SessionInv /\ [Next]_vars => [CommitsAreKept]_vars
  BY NextKeeps DEF SessionStep
<1>2. Spec => [][CommitsAreKept]_vars
  BY SessionServerInvariant, <1>1, PTL DEF Spec
<1> QED
  BY <1>2 DEF FirstCommitWins, CommitsAreKept

\* While the connection server runs, a player loses his slot only by an event
\* of his own connection, although the client of a connection that is ending
\* keeps the number of a slot that may be another's.
THEOREM NobodyElseVacates == Spec => OnlyOwnEventsVacate
<1>1. SessionInv /\ [Next]_vars => [VacatedByOwn]_vars
  BY NextKeeps DEF SessionStep
<1>2. Spec => [][VacatedByOwn]_vars
  BY SessionServerInvariant, <1>1, PTL DEF Spec
<1> QED
  BY <1>2 DEF OnlyOwnEventsVacate, VacatedByOwn
=============================================================================
