-------------------------- MODULE PredictionProofs --------------------------
(***************************************************************************)
(* Prediction, for every set of items and of hands, every number of ticks, *)
(* of actions and of ticks in a frame: what the player sees is the latest  *)
(* snapshot with every action since, and no drop fails its assertions.     *)
(*                                                                         *)
(* The player's world is never compared with the server's: it comes from   *)
(* snapshots of one and from his own actions, some of which the server may *)
(* refuse.  What a drop needs is that the player's hands hold what is his; *)
(* a snapshot has it, since the server's world does, and an action of his  *)
(* keeps it, whatever the hands of the others hold.                        *)
(*                                                                         *)
(* That the replay is what the player has done since the snapshot follows  *)
(* from what he keeps: for a tick that the latest snapshot does not cover, *)
(* local_actions is what was sent.  A fold over the actions of one tick    *)
(* after another is a fold over them all, and a fold from two worlds in    *)
(* which the player sees the same ends in two such worlds.                 *)
(***************************************************************************)
EXTENDS Prediction, SequenceTheorems, TLAPS

\* The steps of the two folds, over actions and over ticks.
ActionStep(p, w, a) == ApplyAction(w, p, a)
TickStep(actions, w, u) == ApplyAll(w, Me, CommittedFor(actions, u))

OverActions == INSTANCE FoldInduction WITH Op <- ActionStep
OverTicks == INSTANCE FoldInduction WITH Op <- TickStep

-----------------------------------------------------------------------------
(* Worlds.                                                                 *)

World ==
    [hands : [Player -> {<<>>} \cup [Hand -> HandGrabState]],
     authority : [Item -> Player \cup {Server}],
     grabbed : [Item -> BOOLEAN],
     sound : BOOLEAN]

\* What a player's hands hold is the player's and is held once.
Owns(w, p) ==
    \A h \in DOMAIN w.hands[p] :
        w.hands[p][h] # Empty =>
            /\ w.authority[w.hands[p][h]] = p
            /\ w.grabbed[w.hands[p][h]]
            /\ \A k \in DOMAIN w.hands[p] : w.hands[p][k] = w.hands[p][h] => k = h

\* The worlds in which this is so of the players Q, and every drop was sound.
Good(Q) == {w \in World : w.sound = TRUE /\ \A q \in Q : Owns(w, q)}

SameHands(w, v) == \A p \in Player : v.hands[p] = <<>> <=> w.hands[p] = <<>>

\* A player with hands is told from one without.
LEMMA HandsAreHands ==
  /\ DOMAIN <<>> = {}
  /\ \A f \in [Hand -> HandGrabState] : f # <<>> /\ DOMAIN f = Hand
<1>1. DOMAIN <<>> = {}
  OBVIOUS
<1>2. ASSUME NEW f \in [Hand -> HandGrabState] PROVE f # <<>> /\ DOMAIN f = Hand
  BY <1>1, ActionsAssumption
<1> QED
  BY <1>1, <1>2

LEMMA Players == Player = {Me, Other} /\ Me # Other /\ Server \notin Player
  BY DEF Player, Me, Other, Server

\* The parts of a world, of an action and of a hand that is not empty.
LEMMA WorldParts ==
  ASSUME NEW w \in World
  PROVE  /\ w.hands \in [Player -> {<<>>} \cup [Hand -> HandGrabState]]
         /\ w.authority \in [Item -> Player \cup {Server}]
         /\ w.grabbed \in [Item -> BOOLEAN]
         /\ w.sound \in BOOLEAN
         /\ \A p \in Player : w.hands[p] = <<>> \/ w.hands[p] \in [Hand -> HandGrabState]
         /\ \A p \in Player : \A h \in DOMAIN w.hands[p] :
               h \in Hand /\ (w.hands[p][h] # Empty => w.hands[p][h] \in Item)
<1>1. /\ w.hands \in [Player -> {<<>>} \cup [Hand -> HandGrabState]]
      /\ w.authority \in [Item -> Player \cup {Server}]
      /\ w.grabbed \in [Item -> BOOLEAN]
      /\ w.sound \in BOOLEAN
      /\ \A p \in Player : w.hands[p] = <<>> \/ w.hands[p] \in [Hand -> HandGrabState]
  BY DEF World
<1>2. ASSUME NEW p \in Player, NEW h \in DOMAIN w.hands[p]
      PROVE  h \in Hand /\ (w.hands[p][h] # Empty => w.hands[p][h] \in Item)
  BY <1>1, <1>2, HandsAreHands DEF HandGrabState
<1> QED
  BY <1>1, <1>2

\* A hand of the player p takes the item t, or lets go of it.
HandChange(w, v, p, hand, t, what) ==
    /\ v \in World /\ t \in Item /\ t # Empty /\ hand \in Hand
    /\ w.hands[p] \in [Hand -> HandGrabState]
    /\ v.hands = [w.hands EXCEPT ![p] = [w.hands[p] EXCEPT ![hand] = what]]
    /\ what \in {t, Empty}
    /\ v.authority = [w.authority EXCEPT ![t] = IF what = Empty THEN Server ELSE p]
    /\ v.grabbed = [w.grabbed EXCEPT ![t] = (what # Empty)]

\* What a grab that may be made changes.
LEMMA GrabParts ==
  ASSUME NEW w \in World, NEW p \in Player, NEW a \in Action, a.op = "Grab", CanGrab(w, p, a)
  PROVE  /\ HandChange(w, Grab(w, p, a), p, a.hand, a.target, a.target)
         /\ Grab(w, p, a).sound = w.sound /\ ~ w.grabbed[a.target]
<1> DEFINE v == Grab(w, p, a)
           t == a.target
<1>1. /\ w.hands \in [Player -> {<<>>} \cup [Hand -> HandGrabState]]
      /\ w.authority \in [Item -> Player \cup {Server}]
      /\ w.grabbed \in [Item -> BOOLEAN]
      /\ w.hands[p] = <<>> \/ w.hands[p] \in [Hand -> HandGrabState]
  BY WorldParts
<1>2. a.hand \in Hand /\ t \in Item /\ t # Empty /\ t \in HandGrabState
  BY ActionsAssumption DEF Action, HandGrabState
<1>3. w.hands[p] \in [Hand -> HandGrabState] /\ ~ w.grabbed[t]
  BY <1>1, HandsAreHands DEF CanGrab
<1>4. /\ v.hands = [w.hands EXCEPT ![p] = [w.hands[p] EXCEPT ![a.hand] = t]]
      /\ v.authority = [w.authority EXCEPT ![t] = p]
      /\ v.grabbed = [w.grabbed EXCEPT ![t] = TRUE]
      /\ v.sound = w.sound
  BY <1>1 DEF Grab, World
<1>5. v \in World
  BY <1>1, <1>2, <1>3 DEF Grab, World
<1> QED
  BY <1>2, <1>3, <1>4, <1>5 DEF HandChange

\* What a drop that may be made changes.
LEMMA DropParts ==
  ASSUME NEW w \in World, NEW p \in Player, NEW a \in Action, CanDrop(w, p, a),
         NEW t, t = w.hands[p][a.hand]
  PROVE  /\ HandChange(w, Drop(w, p, a), p, a.hand, t, Empty)
         /\ Drop(w, p, a).sound = (w.sound /\ w.authority[t] = p /\ w.grabbed[t])
<1> DEFINE v == Drop(w, p, a)
<1>1. /\ w.hands \in [Player -> {<<>>} \cup [Hand -> HandGrabState]]
      /\ w.authority \in [Item -> Player \cup {Server}]
      /\ w.grabbed \in [Item -> BOOLEAN]
      /\ w.sound \in BOOLEAN
      /\ w.hands[p] = <<>> \/ w.hands[p] \in [Hand -> HandGrabState]
  BY WorldParts
<1>2. w.hands[p] \in [Hand -> HandGrabState] /\ t # Empty /\ a.hand \in Hand
  BY <1>1, HandsAreHands DEF CanDrop
<1>3. t \in Item /\ Empty \in HandGrabState
  BY <1>2 DEF HandGrabState
<1>4. /\ v.hands = [w.hands EXCEPT ![p] = [w.hands[p] EXCEPT ![a.hand] = Empty]]
      /\ v.authority = [w.authority EXCEPT ![t] = Server]
      /\ v.grabbed = [w.grabbed EXCEPT ![t] = FALSE]
      /\ v.sound = (w.sound /\ w.authority[t] = p /\ w.grabbed[t])
  BY <1>1 DEF Drop, World
<1>5. v \in World
  <2>1. v = [w EXCEPT !.hands = v.hands, !.authority = v.authority,
                      !.grabbed = v.grabbed, !.sound = v.sound]
    BY <1>1 DEF Drop, World
  <2>2. v.hands \in [Player -> {<<>>} \cup [Hand -> HandGrabState]]
    BY <1>1, <1>2, <1>3, <1>4
  <2>3. v.authority \in [Item -> Player \cup {Server}] /\ v.grabbed \in [Item -> BOOLEAN]
    BY <1>1, <1>3, <1>4
  <2>4. v.sound \in BOOLEAN
    BY <1>4
  <2> HIDE DEF v
  <2> QED
    BY <1>1, <2>1, <2>2, <2>3, <2>4 DEF World
<1> QED
  BY <1>2, <1>3, <1>4, <1>5 DEF HandChange

\* Such a change leaves the hands of the others, and hands are still hands.
LEMMA HandChangeParts ==
  ASSUME NEW w \in World, NEW v, NEW p \in Player, NEW hand, NEW t, NEW what,
         HandChange(w, v, p, hand, t, what)
  PROVE  /\ v.hands[p] \in [Hand -> HandGrabState]
         /\ \A k \in Hand : v.hands[p][k] = IF k = hand THEN what ELSE w.hands[p][k]
         /\ \A q \in Player : q # p => v.hands[q] = w.hands[q]
         /\ SameHands(w, v)
         /\ what # Empty => v.authority[t] = p /\ v.grabbed[t]
         /\ \A i \in Item : i # t =>
               v.authority[i] = w.authority[i] /\ v.grabbed[i] = w.grabbed[i]
<1>1. /\ w.hands \in [Player -> {<<>>} \cup [Hand -> HandGrabState]]
      /\ w.authority \in [Item -> Player \cup {Server}]
      /\ w.grabbed \in [Item -> BOOLEAN]
  BY WorldParts
<1>2. v.hands[p] = [w.hands[p] EXCEPT ![hand] = what] /\ v.hands[p] \in [Hand -> HandGrabState]
  <2>1. what \in HandGrabState
    BY DEF HandChange, HandGrabState
  <2> QED
    BY <1>1, <2>1 DEF HandChange
<1>3. \A k \in Hand : v.hands[p][k] = IF k = hand THEN what ELSE w.hands[p][k]
  BY <1>2 DEF HandChange
<1>4. \A q \in Player : q # p => v.hands[q] = w.hands[q]
  BY <1>1 DEF HandChange
<1>5. SameHands(w, v)
  BY <1>2, <1>4, HandsAreHands DEF SameHands, HandChange
<1>6. what # Empty => v.authority[t] = p /\ v.grabbed[t]
  BY <1>1 DEF HandChange
<1>7. \A i \in Item : i # t => v.authority[i] = w.authority[i] /\ v.grabbed[i] = w.grabbed[i]
  BY <1>1 DEF HandChange
<1> QED
  BY <1>2, <1>3, <1>4, <1>5, <1>6, <1>7

\* An action leads from a world to a world.
LEMMA ActionInWorld ==
  ASSUME NEW w \in World, NEW p \in Player, NEW a \in Action
  PROVE  ApplyAction(w, p, a) \in World /\ SameHands(w, ApplyAction(w, p, a))
<1>1. CASE a.op = "Grab" /\ CanGrab(w, p, a)
  <2> DEFINE v == Grab(w, p, a)
  <2>1. HandChange(w, v, p, a.hand, a.target, a.target)
    BY <1>1, GrabParts
  <2> HIDE DEF v
  <2>2. v \in World /\ a.target \in HandGrabState
    BY <2>1 DEF HandChange, HandGrabState
  <2> QED
    BY <1>1, <2>1, <2>2, HandChangeParts DEF ApplyAction, v
<1>2. CASE a.op # "Grab" /\ CanDrop(w, p, a)
  <2> DEFINE v == Drop(w, p, a)
             t == w.hands[p][a.hand]
  <2>1. HandChange(w, v, p, a.hand, t, Empty)
    BY <1>2, DropParts
  <2> HIDE DEF v, t
  <2>2. v \in World /\ Empty \in HandGrabState
    BY <2>1 DEF HandChange, HandGrabState
  <2> QED
    BY <1>2, <2>1, <2>2, HandChangeParts DEF ApplyAction, v
<1> QED
  BY <1>1, <1>2 DEF ApplyAction, SameHands

\* Of the players Q, nobody holds the item t but p in this hand.
HeldByNone(w, Q, p, hand, t) ==
    \A q \in Q : \A k \in DOMAIN w.hands[q] : w.hands[q][k] = t => q = p /\ k = hand

\* Such a change leaves every player of Q what is his, if p is one of them.
LEMMA HandChangeKeepsGood ==
  ASSUME NEW Q \in SUBSET Player, NEW p \in Q, NEW w \in Good(Q),
         NEW v, NEW hand, NEW t, NEW what, HandChange(w, v, p, hand, t, what),
         HeldByNone(w, Q, p, hand, t), v.sound = TRUE
  PROVE  v \in Good(Q)
<1>1. w \in World /\ p \in Player
  BY DEF Good
<1>2. ASSUME NEW q \in Q, NEW k \in DOMAIN w.hands[q], w.hands[q][k] # Empty
      PROVE  /\ w.authority[w.hands[q][k]] = q
             /\ w.grabbed[w.hands[q][k]]
             /\ \A h \in DOMAIN w.hands[q] : w.hands[q][h] = w.hands[q][k] => h = k
  BY <1>2 DEF Good, Owns
<1>3. /\ v \in World /\ t \in Item /\ t # Empty /\ hand \in Hand
      /\ w.hands[p] \in [Hand -> HandGrabState] /\ what \in {t, Empty}
  BY DEF HandChange
<1>4. /\ v.hands[p] \in [Hand -> HandGrabState]
      /\ \A k \in Hand : v.hands[p][k] = IF k = hand THEN what ELSE w.hands[p][k]
      /\ \A q \in Player : q # p => v.hands[q] = w.hands[q]
      /\ what # Empty => v.authority[t] = p /\ v.grabbed[t]
      /\ \A i \in Item : i # t =>
            v.authority[i] = w.authority[i] /\ v.grabbed[i] = w.grabbed[i]
  BY <1>1, HandChangeParts
<1>5. DOMAIN v.hands[p] = Hand /\ DOMAIN w.hands[p] = Hand
  BY <1>3, <1>4, HandsAreHands
<1>6. \A q \in Q : \A k \in DOMAIN w.hands[q] :
         w.hands[q][k] # Empty => w.hands[q][k] \in Item
  BY <1>1, WorldParts
<1>7. ASSUME NEW q \in Q, q # p PROVE Owns(v, q)
  <2>1. v.hands[q] = w.hands[q]
    BY <1>4, <1>7
  <2>2. \A k \in DOMAIN w.hands[q] : w.hands[q][k] # t
    BY <1>7 DEF HeldByNone
  <2> QED
    BY <1>2, <1>4, <1>6, <2>1, <2>2 DEF Owns
<1>8. Owns(v, p)
  <2> SUFFICES ASSUME NEW h \in Hand, v.hands[p][h] # Empty
               PROVE  /\ v.authority[v.hands[p][h]] = p
                      /\ v.grabbed[v.hands[p][h]]
                      /\ \A k \in Hand : v.hands[p][k] = v.hands[p][h] => k = h
    BY <1>5 DEF Owns
  <2>1. \A k \in Hand : k # hand => w.hands[p][k] # t
    BY <1>5 DEF HeldByNone
  <2>2. CASE h = hand
    <3>1. v.hands[p][h] = t /\ what = t /\ what # Empty
      BY <1>3, <1>4, <2>2
    <3> QED
      BY <1>4, <2>1, <2>2, <3>1
  <2>3. CASE h # hand
    <3>1. /\ v.hands[p][h] = w.hands[p][h] /\ w.hands[p][h] \in Item
          /\ w.hands[p][h] # t
      BY <1>4, <1>5, <1>6, <2>1, <2>3
    <3>2. /\ w.authority[w.hands[p][h]] = p /\ w.grabbed[w.hands[p][h]]
          /\ \A k \in Hand : w.hands[p][k] = w.hands[p][h] => k = h
      BY <1>2, <1>4, <1>5, <2>3
    <3>3. v.hands[p][hand] # v.hands[p][h]
      BY <1>3, <1>4, <3>1
    <3> QED
      BY <1>4, <3>1, <3>2, <3>3
  <2> QED
    BY <2>2, <2>3
<1> QED
  BY <1>3, <1>7, <1>8 DEF Good

\* An action of p leaves every player of Q what is his, if p is one of them,
\* and a drop finds what it needs.
LEMMA ActionKeepsGood ==
  ASSUME NEW Q \in SUBSET Player, NEW p \in Q, NEW w \in Good(Q), NEW a \in Action
  PROVE  ApplyAction(w, p, a) \in Good(Q)
<1>1. w \in World /\ w.sound = TRUE /\ p \in Player
  BY DEF Good
<1>2. ASSUME NEW q \in Q, NEW k \in DOMAIN w.hands[q], w.hands[q][k] # Empty
      PROVE  /\ w.authority[w.hands[q][k]] = q
             /\ w.grabbed[w.hands[q][k]]
             /\ \A h \in DOMAIN w.hands[q] : w.hands[q][h] = w.hands[q][k] => h = k
  BY <1>2 DEF Good, Owns
<1>4. CASE a.op = "Grab" /\ CanGrab(w, p, a)
  <2> DEFINE v == Grab(w, p, a)
  <2>1. /\ HandChange(w, v, p, a.hand, a.target, a.target)
        /\ v.sound = w.sound /\ ~ w.grabbed[a.target]
    BY <1>1, <1>4, GrabParts
  <2> HIDE DEF v
  <2>2. a.target # Empty
    BY <2>1 DEF HandChange
  <2>3. HeldByNone(w, Q, p, a.hand, a.target)
    BY <1>2, <2>1, <2>2 DEF HeldByNone
  <2>4. v.sound = TRUE
    BY <1>1, <2>1
  <2>5. v \in Good(Q)
    BY <2>1, <2>3, <2>4, HandChangeKeepsGood
  <2> QED
    BY <1>4, <2>5 DEF ApplyAction, v
<1>5. CASE a.op # "Grab" /\ CanDrop(w, p, a)
  <2> DEFINE v == Drop(w, p, a)
             t == w.hands[p][a.hand]
  <2>1. /\ HandChange(w, v, p, a.hand, t, Empty)
        /\ v.sound = (w.sound /\ w.authority[t] = p /\ w.grabbed[t])
    BY <1>1, <1>5, DropParts
  <2>2. a.hand \in DOMAIN w.hands[p]
    BY <1>5 DEF CanDrop
  <2>3. w.authority[t] = p /\ w.grabbed[t]
    BY <1>2, <1>5 DEF CanDrop
  <2>4. HeldByNone(w, Q, p, a.hand, t)
    <3> SUFFICES ASSUME NEW q \in Q, NEW k \in DOMAIN w.hands[q], w.hands[q][k] = t
                 PROVE  q = p /\ k = a.hand
      BY DEF HeldByNone
    <3>1. t # Empty
      BY <1>5 DEF CanDrop
    <3>2. q = p
      BY <1>2, <2>3, <3>1
    <3> QED
      BY <1>2, <2>2, <3>1, <3>2
  <2>5. v.sound = TRUE
    BY <1>1, <2>1, <2>3
  <2> HIDE DEF v, t
  <2>6. v \in Good(Q)
    BY <2>1, <2>4, <2>5, HandChangeKeepsGood
  <2> QED
    BY <1>5, <2>6 DEF ApplyAction, v
<1> QED
  BY <1>4, <1>5 DEF ApplyAction

-----------------------------------------------------------------------------
(* What the player sees.                                                   *)

\* Pairs of worlds in which the player sees the same.
Alike == {wv \in World \X World : Seen(wv[1]) = Seen(wv[2])}

LEMMA AlikeParts ==
  ASSUME NEW w, NEW v
  PROVE  <<w, v>> \in Alike <=>
             /\ w \in World /\ v \in World
             /\ w.hands[Me] = v.hands[Me]
             /\ w.authority = v.authority
             /\ w.grabbed = v.grabbed
  BY DEF Alike, Seen

\* The same change in both worlds looks the same.
LEMMA HandChangeAlike ==
  ASSUME NEW w, NEW v, <<w, v>> \in Alike, NEW x, NEW y, NEW hand, NEW t, NEW what,
         HandChange(w, x, Me, hand, t, what), HandChange(v, y, Me, hand, t, what)
  PROVE  <<x, y>> \in Alike
<1>1. /\ w \in World /\ v \in World /\ Me \in Player
      /\ w.hands[Me] = v.hands[Me] /\ w.authority = v.authority /\ w.grabbed = v.grabbed
  BY AlikeParts, Players
<1>2. /\ w.hands \in [Player -> {<<>>} \cup [Hand -> HandGrabState]]
      /\ v.hands \in [Player -> {<<>>} \cup [Hand -> HandGrabState]]
  BY <1>1, WorldParts
<1>3. x.hands[Me] = y.hands[Me]
  BY <1>1, <1>2 DEF HandChange
<1>4. x.authority = y.authority /\ x.grabbed = y.grabbed /\ x \in World /\ y \in World
  BY <1>1 DEF HandChange
<1> QED
  BY <1>3, <1>4, AlikeParts

\* An action of his looks the same in both.
LEMMA ActionAlike ==
  ASSUME NEW w, NEW v, <<w, v>> \in Alike, NEW a \in Action
  PROVE  <<ApplyAction(w, Me, a), ApplyAction(v, Me, a)>> \in Alike
<1>1. /\ w \in World /\ v \in World /\ Me \in Player
      /\ w.hands[Me] = v.hands[Me] /\ w.authority = v.authority /\ w.grabbed = v.grabbed
  BY AlikeParts, Players
<1>2. /\ CanGrab(w, Me, a) <=> CanGrab(v, Me, a)
      /\ CanDrop(w, Me, a) <=> CanDrop(v, Me, a)
  BY <1>1 DEF CanGrab, CanDrop
<1>4. CASE a.op = "Grab" /\ CanGrab(w, Me, a)
  <2>1. <<Grab(w, Me, a), Grab(v, Me, a)>> \in Alike
    <3> DEFINE t == a.target
    <3>1. /\ HandChange(w, Grab(w, Me, a), Me, a.hand, t, t)
          /\ HandChange(v, Grab(v, Me, a), Me, a.hand, t, t)
      BY <1>1, <1>2, <1>4, GrabParts
    <3> QED
      BY <3>1, HandChangeAlike
  <2> QED
    BY <1>2, <1>4, <2>1 DEF ApplyAction
<1>5. CASE a.op # "Grab" /\ CanDrop(w, Me, a)
  <2>1. <<Drop(w, Me, a), Drop(v, Me, a)>> \in Alike
    <3> DEFINE t == w.hands[Me][a.hand]
    <3>1. /\ HandChange(w, Drop(w, Me, a), Me, a.hand, t, Empty)
          /\ HandChange(v, Drop(v, Me, a), Me, a.hand, t, Empty)
      BY <1>1, <1>2, <1>5, DropParts
    <3> QED
      BY <3>1, HandChangeAlike
  <2> QED
    BY <1>2, <1>5, <2>1 DEF ApplyAction
<1> QED
  BY <1>2, <1>4, <1>5 DEF ApplyAction

-----------------------------------------------------------------------------
(* Sequences of actions.                                                   *)

LEMMA ActionSeqs ==
  /\ \A s : s \in ActionSeq <=> s \in Seq(Action) /\ Len(s) <= MaxActions
  /\ <<>> \in ActionSeq
<1>1. ASSUME NEW s \in ActionSeq PROVE s \in Seq(Action) /\ Len(s) <= MaxActions
  <2>1. PICK n \in 0 .. MaxActions : s \in [1 .. n -> Action]
    BY DEF ActionSeq, BoundedSeq, SeqOf
  <2>2. s \in Seq(Action)
    BY <2>1, SeqDef
  <2>3. DOMAIN s = 1 .. n /\ DOMAIN s = 1 .. Len(s) /\ Len(s) \in Nat
    BY <2>1, <2>2
  <2> QED
    BY <2>1, <2>2, <2>3
<1>2. ASSUME NEW s \in Seq(Action), Len(s) <= MaxActions PROVE s \in ActionSeq
  <2>1. Len(s) \in 0 .. MaxActions /\ s \in [1 .. Len(s) -> Action]
    BY <1>2, PredictionAssumption
  <2> QED
    BY <2>1 DEF ActionSeq, BoundedSeq, SeqOf
<1>3. <<>> \in ActionSeq
  <2>1. <<>> \in Seq(Action) /\ Len(<<>>) = 0 /\ 0 <= MaxActions
    BY PredictionAssumption
  <2> QED
    BY <1>2, <2>1
<1> QED
  BY <1>1, <1>2, <1>3

LEMMA ApplyAllIsFold ==
  ASSUME NEW w, NEW p, NEW actions
  PROVE  ApplyAll(w, p, actions) = OverActions!Fold(p, w, actions)
BY DEF ApplyAll, ActionStep, FoldLeft, MapThenFoldSet, Max,
       OverActions!Fold, OverActions!FoldLeft, OverActions!MapThenFoldSet, OverActions!Max

\* Actions of one of them leave the players Q what is theirs.
LEMMA ApplyAllKeepsGood ==
  ASSUME NEW Q \in SUBSET Player, NEW p \in Q, NEW w \in Good(Q), NEW actions \in Seq(Action)
  PROVE  ApplyAll(w, p, actions) \in Good(Q) /\ SameHands(w, ApplyAll(w, p, actions))
<1> DEFINE Rest == {v \in Good(Q) : SameHands(w, v)}
<1>1. w \in Rest /\ DOMAIN actions = 1 .. Len(actions) /\ Len(actions) \in Nat
  BY DEF SameHands
<1>2. ASSUME NEW v \in Rest, NEW i \in 1 .. Len(actions)
      PROVE  ActionStep(p, v, actions[i]) \in Rest
  <2>1. v \in World /\ v \in Good(Q) /\ p \in Player /\ actions[i] \in Action
    BY DEF Good
  <2>2. /\ ApplyAction(v, p, actions[i]) \in Good(Q)
        /\ SameHands(v, ApplyAction(v, p, actions[i]))
    BY <2>1, ActionKeepsGood, ActionInWorld
  <2> QED
    BY <2>2 DEF ActionStep, SameHands
<1> HIDE DEF Rest
<1>3. OverActions!Fold(p, w, actions) \in Rest
  BY <1>1, <1>2, OverActions!FoldKeeps
<1> QED
  BY <1>3, ApplyAllIsFold DEF Rest

\* The player sees the same after his actions if he did so before.
LEMMA ApplyAllAlike ==
  ASSUME NEW w, NEW v, <<w, v>> \in Alike, NEW actions \in Seq(Action)
  PROVE  <<ApplyAll(w, Me, actions), ApplyAll(v, Me, actions)>> \in Alike
<1>1. DOMAIN actions = 1 .. Len(actions) /\ Len(actions) \in Nat
  OBVIOUS
<1>2. ASSUME NEW x, NEW y, NEW i \in 1 .. Len(actions), <<x, y>> \in Alike
      PROVE  <<ActionStep(Me, x, actions[i]), ActionStep(Me, y, actions[i])>> \in Alike
  BY <1>2, ActionAlike DEF ActionStep
<1>3. <<OverActions!Fold(Me, w, actions), OverActions!Fold(Me, v, actions)>> \in Alike
  BY <1>1, <1>2, OverActions!FoldRelates
<1> QED
  BY <1>3, ApplyAllIsFold

\* What is accumulated is done after what was.
LEMMA ApplyAllConcatenated ==
  ASSUME NEW w, NEW p, NEW s \in Seq(Action), NEW t \in Seq(Action)
  PROVE  ApplyAll(w, p, s \o t) = ApplyAll(ApplyAll(w, p, s), p, t)
BY OverActions!FoldConcatenated, ApplyAllIsFold

LEMMA ApplyNone ==
  ASSUME NEW w, NEW p
  PROVE  ApplyAll(w, p, <<>>) = w
BY OverActions!FoldNone, ApplyAllIsFold, HandsAreHands

-----------------------------------------------------------------------------
(* Actions that are kept by tick, and simulated again.                     *)

IsCommits(c) == \A t \in DOMAIN c : c[t] \in ActionSeq

LEMMA CommittedForIsSeq ==
  ASSUME NEW c, IsCommits(c), NEW t
  PROVE  CommittedFor(c, t) \in ActionSeq /\ CommittedFor(c, t) \in Seq(Action)
BY ActionSeqs DEF CommittedFor, IsCommits

Ticks(t, goal) == [n \in 1 .. goal - t |-> t + n]

LEMMA ReplayIsFold ==
  ASSUME NEW w, NEW c, NEW t, NEW goal
  PROVE  Replay(w, c, t, goal) = OverTicks!Fold(c, w, Ticks(t, goal))
BY DEF Replay, Ticks, TickStep, FoldLeft, MapThenFoldSet, Max,
       OverTicks!Fold, OverTicks!FoldLeft, OverTicks!MapThenFoldSet, OverTicks!Max

\* Nothing is simulated up to a tick that has passed.
LEMMA ReplayNone ==
  ASSUME NEW w, NEW c, NEW t \in Nat, NEW goal \in Nat, goal <= t
  PROVE  Replay(w, c, t, goal) = w
<1>1. DOMAIN Ticks(t, goal) = {}
  BY DEF Ticks
<1> QED
  BY <1>1, ReplayIsFold, OverTicks!FoldNone

LEMMA ReplayKeepsGood ==
  ASSUME NEW w \in Good({Me}), NEW c, IsCommits(c), NEW t \in Nat, NEW goal \in Nat
  PROVE  Replay(w, c, t, goal) \in Good({Me})
<1>1. CASE goal <= t
  BY <1>1, ReplayNone
<1>2. CASE ~ (goal <= t)
  <2>1. goal - t \in Nat /\ DOMAIN Ticks(t, goal) = 1 .. goal - t
    BY <1>2 DEF Ticks
  <2>2. ASSUME NEW x \in Good({Me}), NEW u PROVE TickStep(c, x, u) \in Good({Me})
    <3>1. {Me} \in SUBSET Player /\ Me \in {Me}
      BY Players
    <3> QED
      BY <3>1, CommittedForIsSeq, ApplyAllKeepsGood DEF TickStep
  <2>3. OverTicks!Fold(c, w, Ticks(t, goal)) \in Good({Me})
    BY <2>1, <2>2, OverTicks!FoldKeeps
  <2> QED
    BY <2>3, ReplayIsFold
<1> QED
  BY <1>1, <1>2

\* The player sees the same after the same actions.
LEMMA ReplayAlike ==
  ASSUME NEW w, NEW v, <<w, v>> \in Alike, NEW c, IsCommits(c), NEW d, IsCommits(d),
         NEW t \in Nat, NEW goal \in Nat,
         \A u \in t + 1 .. goal : CommittedFor(c, u) = CommittedFor(d, u)
  PROVE  <<Replay(w, c, t, goal), Replay(v, d, t, goal)>> \in Alike
<1>1. CASE goal <= t
  BY <1>1, ReplayNone
<1>2. CASE ~ (goal <= t)
  <2> DEFINE s == Ticks(t, goal)
             n == goal - t
  <2>1. n \in Nat /\ DOMAIN s = 1 .. n /\ \A i \in 1 .. n : s[i] \in t + 1 .. goal
    BY <1>2 DEF Ticks
  <2> HIDE DEF s, n
  <2>2. ASSUME NEW x, NEW y, NEW i \in 1 .. n, <<x, y>> \in Alike
        PROVE  <<TickStep(c, x, s[i]), TickStep(d, y, s[i])>> \in Alike
    <3>1. CommittedFor(c, s[i]) = CommittedFor(d, s[i])
      BY <2>1
    <3> QED
      BY <2>2, <3>1, CommittedForIsSeq, ApplyAllAlike DEF TickStep
  <2>3. <<OverTicks!Fold(c, w, s), OverTicks!Fold(d, v, s)>> \in Alike
    BY <2>1, <2>2, OverTicks!FoldRelates
  <2> QED
    BY <2>3, ReplayIsFold DEF s
<1> QED
  BY <1>1, <1>2

\* Simulated up to one tick and from there to another.
LEMMA ReplayConcatenated ==
  ASSUME NEW w, NEW c, NEW t \in Nat, NEW mid \in Nat, NEW goal \in Nat, t <= mid, mid <= goal
  PROVE  Replay(w, c, t, goal) = Replay(Replay(w, c, t, mid), c, mid, goal)
<1>1. Ticks(t, mid) \in Seq(Nat) /\ Ticks(mid, goal) \in Seq(Nat)
  <2>1. mid - t \in Nat /\ goal - mid \in Nat
    OBVIOUS
  <2>2. Ticks(t, mid) \in [1 .. mid - t -> Nat] /\ Ticks(mid, goal) \in [1 .. goal - mid -> Nat]
    BY DEF Ticks
  <2> QED
    BY <2>1, <2>2, SeqDef
<1>2. Ticks(t, goal) = Ticks(t, mid) \o Ticks(mid, goal)
  <2>1. Len(Ticks(t, mid)) = mid - t /\ Len(Ticks(mid, goal)) = goal - mid
    BY DEF Ticks
  <2>2. goal - t \in Nat /\ Ticks(t, goal) \in [1 .. goal - t -> Nat]
    BY DEF Ticks
  <2>3. Ticks(t, goal) \in Seq(Nat) /\ Len(Ticks(t, goal)) = goal - t
    BY <2>2, SeqDef DEF Ticks
  <2>4. /\ Ticks(t, mid) \o Ticks(mid, goal) \in Seq(Nat)
        /\ Len(Ticks(t, mid) \o Ticks(mid, goal)) = goal - t
    <3> DEFINE a == Ticks(t, mid)
               b == Ticks(mid, goal)
    <3>1. a \in Seq(Nat) /\ b \in Seq(Nat) /\ Len(a) = mid - t /\ Len(b) = goal - mid
      BY <1>1, <2>1
    <3> HIDE DEF a, b
    <3>2. a \o b \in Seq(Nat) /\ Len(a \o b) = Len(a) + Len(b)
      BY <3>1
    <3>3. (mid - t) + (goal - mid) = goal - t
      OBVIOUS
    <3> QED
      BY <3>1, <3>2, <3>3 DEF a, b
  <2>5. ASSUME NEW n \in 1 .. goal - t
        PROVE  Ticks(t, goal)[n] = (Ticks(t, mid) \o Ticks(mid, goal))[n]
    BY <1>1, <2>1 DEF Ticks
  <2> QED
    BY <2>3, <2>4, <2>5, SeqEqual
<1> QED
  <2> DEFINE a == Ticks(t, mid)
             b == Ticks(mid, goal)
  <2>1. a \in Seq(Nat) /\ b \in Seq(Nat) /\ Ticks(t, goal) = a \o b
    BY <1>1, <1>2
  <2>2. OverTicks!Fold(c, w, a) = Replay(w, c, t, mid)
    BY ReplayIsFold
  <2>3. OverTicks!Fold(c, Replay(w, c, t, mid), b) = Replay(Replay(w, c, t, mid), c, mid, goal)
    BY ReplayIsFold
  <2> HIDE DEF a, b
  <2>4. OverTicks!Fold(c, w, a \o b) = OverTicks!Fold(c, OverTicks!Fold(c, w, a), b)
    BY <2>1, OverTicks!FoldConcatenated
  <2> QED
    BY <2>1, <2>2, <2>3, <2>4, ReplayIsFold

\* Ticks for which nothing was committed change nothing.
LEMMA ReplayNothing ==
  ASSUME NEW w, NEW c, NEW t \in Nat, NEW goal \in Nat,
         \A u \in t + 1 .. goal : CommittedFor(c, u) = <<>>
  PROVE  Replay(w, c, t, goal) = w
<1>1. CASE goal <= t
  BY <1>1, ReplayNone
<1>2. CASE ~ (goal <= t)
  <2> DEFINE s == Ticks(t, goal)
             n == goal - t
  <2>1. n \in Nat /\ DOMAIN s = 1 .. n /\ \A i \in 1 .. n : s[i] \in t + 1 .. goal
    BY <1>2 DEF Ticks
  <2> HIDE DEF s, n
  <2>2. ASSUME NEW x \in {w}, NEW i \in 1 .. n PROVE TickStep(c, x, s[i]) \in {w}
    <3>1. CommittedFor(c, s[i]) = <<>>
      BY <2>1
    <3> QED
      BY <3>1, ApplyNone DEF TickStep
  <2>3. OverTicks!Fold(c, w, s) \in {w}
    BY <2>1, <2>2, OverTicks!FoldKeeps
  <2> QED
    BY <2>3, ReplayIsFold DEF s
<1> QED
  BY <1>1, <1>2

\* If all that was committed after a tick was committed for the next one, it
\* is done after what was simulated up to that tick.
LEMMA ReplayCommits ==
  ASSUME NEW w, NEW c, NEW t \in Nat, NEW mid \in Nat, NEW goal \in Nat, t <= mid, mid < goal,
         \A u \in mid + 2 .. goal : CommittedFor(c, u) = <<>>
  PROVE  Replay(w, c, t, goal) =
            ApplyAll(Replay(w, c, t, mid), Me, CommittedFor(c, mid + 1))
<1> DEFINE x == Replay(w, c, t, mid)
           y == Replay(x, c, mid, mid + 1)
<1>1. Replay(w, c, t, goal) = Replay(y, c, mid + 1, goal)
  <2>1. Replay(w, c, t, goal) = Replay(x, c, mid, goal)
    BY ReplayConcatenated
  <2> HIDE DEF x
  <2>2. Replay(x, c, mid, goal) = Replay(y, c, mid + 1, goal)
    BY ReplayConcatenated
  <2> QED
    BY <2>1, <2>2
<1>2. y = ApplyAll(x, Me, CommittedFor(c, mid + 1))
  <2>1. DOMAIN Ticks(mid, mid + 1) = 1 .. 1 /\ Ticks(mid, mid + 1)[1] = mid + 1
    BY DEF Ticks
  <2>2. y = OverTicks!Fold(c, x, Ticks(mid, mid + 1))
    BY ReplayIsFold
  <2> HIDE DEF x, y
  <2> QED
    BY <2>1, <2>2, OverTicks!FoldOne DEF TickStep
<1> HIDE DEF y
<1>3. Replay(y, c, mid + 1, goal) = y
  <2>1. mid + 1 \in Nat /\ \A u \in (mid + 1) + 1 .. goal : u \in mid + 2 .. goal
    OBVIOUS
  <2> QED
    BY <2>1, ReplayNothing
<1> QED
  BY <1>1, <1>2, <1>3

-----------------------------------------------------------------------------
(* The inductive invariant.                                                *)

\* The player's world and the server's are good ones, and so is every
\* snapshot; in the server's, and so in every snapshot, the player has hands.
Worlds ==
    /\ world \in Good({Me}) /\ server \in Good(Player)
    /\ server.hands[Me] # <<>>
    /\ \A t \in DOMAIN history : Owns(history[t], Me) /\ history[t].hands[Me] # <<>>

\* Nothing has been received or sent before the session.
Offline == ~ online => latest = 0 /\ DOMAIN local_actions = {} /\ sent = {}

\* What the game keeps for the ticks since the latest snapshot is what it has
\* sent for them.
Kept ==
    /\ TicksAreCommittedOnce
    /\ \A m \in sent : m.tick <= last
    /\ \A t \in DOMAIN local_actions : CommitActionsPacket(t, local_actions[t]) \in sent
    /\ \A m \in sent : m.tick > latest => m.tick \in DOMAIN local_actions

\* The world is what the latest snapshot becomes.
Rebuilt(w) ==
    ApplyAll(Replay(ApplySnapshot(w, history[latest]), local_actions, latest, last),
             Me, action_accumulator)

Replayed == latest > 0 /\ ~ overtaken => <<world, Rebuilt(world)>> \in Alike

Inv == TypeOK /\ Worlds /\ Offline /\ Kept /\ Replayed

\* What the invariant says of the types.
LEMMA InvTypes ==
  ASSUME Inv
  PROVE  /\ online \in BOOLEAN /\ overtaken \in BOOLEAN
         /\ world \in World /\ server \in World
         /\ tick \in Nat /\ tick <= MaxTick /\ history \in Seq(State) /\ DOMAIN history = 1 .. tick
         /\ latest \in Nat /\ latest <= tick /\ latest <= last
         /\ last \in Nat /\ last <= MaxTick
         /\ IsCommits(local_actions) /\ \A t \in DOMAIN local_actions : t \in latest + 1 .. last
         /\ IsCommits(committed) /\ \A t \in DOMAIN committed : t \in tick + 1 .. MaxTick
         /\ action_accumulator \in ActionSeq
         /\ sent \subseteq [tick : 1 .. MaxTick, actions : ActionSeq]
<1>1. history \in Seq(State) /\ tick \in Nat /\ DOMAIN history = 1 .. tick
  BY DEF Inv, TypeOK, tick
<1>2. latest \in 0 .. tick /\ last \in latest .. MaxTick
  BY DEF Inv, TypeOK
<1> QED
  BY <1>1, <1>2, PredictionAssumption DEF Inv, TypeOK, Worlds, Good, IsCommits

\* A world has the type that the runs check.
LEMMA WorldsAreOK == \A w \in World : WorldOK(w) /\ Snapshot(w) \in State
BY WorldParts DEF WorldOK, Snapshot, State

LEMMA SnapshotOwns ==
  ASSUME NEW w, NEW p
  PROVE  /\ Owns(Snapshot(w), p) <=> Owns(w, p)
         /\ Snapshot(w).hands = w.hands
BY DEF Snapshot, Owns

\* What the player sees of a snapshot is what is in it, if he has hands.
LEMMA SnapshotParts ==
  ASSUME NEW w \in World, NEW s \in State, s.hands[Me] # <<>>
  PROVE  /\ ApplySnapshot(w, s) \in World
         /\ ApplySnapshot(w, s).hands[Me] = s.hands[Me]
         /\ ApplySnapshot(w, s).authority = s.authority
         /\ ApplySnapshot(w, s).grabbed = s.grabbed
         /\ ApplySnapshot(w, s).sound = w.sound
<1>1. /\ s.hands \in [Player -> {<<>>} \cup [Hand -> HandGrabState]]
      /\ s.authority \in [Item -> Player \cup {Server}]
      /\ s.grabbed \in [Item -> BOOLEAN]
  BY DEF State
<1>2. /\ w.hands \in [Player -> {<<>>} \cup [Hand -> HandGrabState]]
      /\ w.sound \in BOOLEAN
  BY WorldParts
<1> DEFINE hands == [p \in Player |-> IF s.hands[p] = <<>> THEN w.hands[p] ELSE s.hands[p]]
           v == ApplySnapshot(w, s)
<1>3. hands \in [Player -> {<<>>} \cup [Hand -> HandGrabState]] /\ hands[Me] = s.hands[Me]
  BY <1>1, <1>2, Players
<1> HIDE DEF hands
<1>4. v = [w EXCEPT !.hands = hands, !.authority = s.authority, !.grabbed = s.grabbed]
  BY DEF World, ApplySnapshot, hands
<1> HIDE DEF v
<1>5. /\ v \in World /\ v.hands = hands /\ v.authority = s.authority
      /\ v.grabbed = s.grabbed /\ v.sound = w.sound
  BY <1>1, <1>2, <1>3, <1>4 DEF World
<1> QED
  BY <1>3, <1>5 DEF v

LEMMA SnapshotIsGood ==
  ASSUME NEW w \in Good({Me}), NEW s \in State, s.hands[Me] # <<>>, Owns(s, Me)
  PROVE  ApplySnapshot(w, s) \in Good({Me})
<1>1. w \in World /\ w.sound = TRUE
  BY DEF Good
<1> QED
  BY <1>1, SnapshotParts DEF Good, Owns

LEMMA SnapshotAlike ==
  ASSUME NEW w \in World, NEW v \in World, NEW s \in State, s.hands[Me] # <<>>
  PROVE  <<ApplySnapshot(w, s), ApplySnapshot(v, s)>> \in Alike
BY SnapshotParts, AlikeParts

LEMMA InitInv == Init => Inv
<1> SUFFICES ASSUME Init PROVE Inv
  OBVIOUS
<1> DEFINE spawned == SpawnPlayer(NewWorld(Player), Me)
<1>1. NewWorld(Player) \in World /\ NewWorld(Player).sound = TRUE
      /\ \A p \in Player : NewWorld(Player).hands[p] = <<>>
  BY DEF NewWorld, World
<1>2. ASSUME NEW w \in World, NEW p \in Player
      PROVE  /\ SpawnPlayer(w, p) \in World
             /\ SpawnPlayer(w, p).sound = w.sound
             /\ SpawnPlayer(w, p).hands[p] = [h \in Hand |-> Empty]
             /\ \A q \in Player : q # p => SpawnPlayer(w, p).hands[q] = w.hands[q]
  <2> DEFINE hands == [h \in Hand |-> Empty]
  <2>1. hands \in [Hand -> HandGrabState]
    BY DEF HandGrabState
  <2> HIDE DEF hands
  <2>2. w.hands \in [Player -> {<<>>} \cup [Hand -> HandGrabState]]
    BY WorldParts
  <2>3. SpawnPlayer(w, p) = [w EXCEPT !.hands = [w.hands EXCEPT ![p] = hands]]
    BY <2>2 DEF SpawnPlayer, World, hands
  <2>4. /\ SpawnPlayer(w, p) \in World
        /\ SpawnPlayer(w, p).sound = w.sound
        /\ SpawnPlayer(w, p).hands[p] = hands
        /\ \A q \in Player : q # p => SpawnPlayer(w, p).hands[q] = w.hands[q]
    BY <2>1, <2>2, <2>3 DEF World
  <2> QED
    BY <2>4 DEF hands
<1>3. spawned \in World /\ spawned.sound = TRUE /\ spawned.hands[Me] = [h \in Hand |-> Empty]
  BY <1>1, <1>2, Players
<1> HIDE DEF spawned
<1>4. /\ server \in World /\ server.sound = TRUE
      /\ \A p \in Player : server.hands[p] = [h \in Hand |-> Empty]
  <2>1. server = SpawnPlayer(spawned, Other)
    BY DEF Init, spawned
  <2> QED
    BY <1>2, <1>3, <2>1, Players
<1>5. server \in Good(Player) /\ world \in Good({Me})
  <2>1. ASSUME NEW p \in Player PROVE Owns(server, p)
    BY <1>4 DEF Owns
  <2>2. world \in World /\ world.sound = TRUE /\ Owns(world, Me)
    BY <1>1, HandsAreHands, Players DEF Owns, Init
  <2> QED
    BY <1>4, <2>1, <2>2 DEF Good
<1>6. server.hands[Me] # <<>>
  <2>1. [h \in Hand |-> Empty] \in [Hand -> HandGrabState]
    BY DEF HandGrabState
  <2> QED
    BY <1>4, <2>1, HandsAreHands, Players
<1>7. history = <<>> /\ history \in Seq(State) /\ tick = 0 /\ DOMAIN history = {}
  BY HandsAreHands DEF Init, tick
<1>8. TypeOK
  <2>1. WorldOK(world) /\ WorldOK(server)
    BY <1>1, <1>4, WorldsAreOK DEF Init
  <2>2. tick <= MaxTick /\ latest \in 0 .. tick /\ last \in latest .. MaxTick
    BY <1>7, PredictionAssumption DEF Init
  <2>3. DOMAIN local_actions = {} /\ DOMAIN committed = {} /\ sent = {}
    BY HandsAreHands DEF Init
  <2>4. online \in BOOLEAN /\ overtaken \in BOOLEAN /\ action_accumulator \in ActionSeq
    BY ActionSeqs DEF Init
  <2> QED
    BY <1>7, <2>1, <2>2, <2>3, <2>4 DEF TypeOK
<1> QED
  BY <1>5, <1>6, <1>7, <1>8, HandsAreHands
     DEF Inv, Worlds, Offline, Kept, TicksAreCommittedOnce, Replayed, Init

-----------------------------------------------------------------------------
(* Steps of the server.                                                    *)

\* They leave what the game keeps, and the snapshot it has.
LEMMA GameIsLeft ==
  ASSUME Inv, UNCHANGED <<gameVars, sent>>, latest > 0 => history'[latest] = history[latest]
  PROVE  Offline' /\ Kept' /\ Replayed'
<1>1. /\ online' = online /\ world' = world /\ latest' = latest
      /\ local_actions' = local_actions /\ action_accumulator' = action_accumulator
      /\ last' = last /\ overtaken' = overtaken /\ sent' = sent
  BY DEF gameVars
<1>2. Offline' /\ Kept'
  BY <1>1 DEF Inv, Offline, Kept, TicksAreCommittedOnce
<1>3. Replayed'
  BY <1>1 DEF Inv, Replayed, Rebuilt
<1> QED
  BY <1>2, <1>3

LEMMA HandleCommitKeepsInv == Inv /\ HandleCommitActionsPacket => Inv'
<1> SUFFICES ASSUME Inv, HandleCommitActionsPacket PROVE Inv'
  OBVIOUS
<1>1. UNCHANGED <<gameVars, sent>> /\ server' = server /\ history' = history
  BY DEF HandleCommitActionsPacket
<1>2. PICK m \in sent : /\ m.tick > tick
                        /\ committed' = Insert([t \in {m.tick} |-> m.actions], committed)
  BY DEF HandleCommitActionsPacket
<1>3. m.tick \in 1 .. MaxTick /\ m.actions \in ActionSeq
  BY InvTypes
<1>4. \A t \in DOMAIN committed' : t \in tick + 1 .. MaxTick /\ committed'[t] \in ActionSeq
  BY <1>2, <1>3, InvTypes, PredictionAssumption DEF Insert, IsCommits
<1>5. TypeOK' /\ Worlds'
  BY <1>1, <1>4 DEF Inv, TypeOK, Worlds, gameVars, tick
<1> QED
  BY <1>1, <1>5, GameIsLeft DEF Inv

LEMMA OtherLeavesKeepsInv == Inv /\ OtherLeaves => Inv'
<1> SUFFICES ASSUME Inv, OtherLeaves PROVE Inv'
  OBVIOUS
<1>1. /\ UNCHANGED <<gameVars, sent>> /\ committed' = committed /\ history' = history
      /\ server' = DespawnPlayer(server, Other)
  BY DEF OtherLeaves
<1>2. /\ server \in World /\ server.sound = TRUE /\ \A p \in Player : Owns(server, p)
      /\ server.hands[Me] # <<>>
  BY DEF Inv, Worlds, Good
<1>3. /\ server.hands \in [Player -> {<<>>} \cup [Hand -> HandGrabState]]
      /\ server.authority \in [Item -> Player \cup {Server}]
  BY <1>2, WorldParts
<1> DEFINE hands == [server.hands EXCEPT ![Other] = <<>>]
           authority == [i \in Item |-> IF server.authority[i] = Other THEN Server
                                                                      ELSE server.authority[i]]
<1>4. server' = [server EXCEPT !.hands = hands, !.authority = authority]
  BY <1>1, <1>2, <1>3 DEF DespawnPlayer, World
<1>5. /\ hands \in [Player -> {<<>>} \cup [Hand -> HandGrabState]]
      /\ hands[Me] = server.hands[Me] /\ hands[Other] = <<>>
      /\ authority \in [Item -> Player \cup {Server}]
      /\ \A i \in Item : server.authority[i] = Me => authority[i] = Me
  BY <1>3, Players
<1> HIDE DEF hands, authority
<1>6. /\ server' \in World /\ server'.sound = TRUE
      /\ server'.hands = hands /\ server'.authority = authority
      /\ server'.grabbed = server.grabbed
  BY <1>2, <1>4, <1>5 DEF World
<1>7. Owns(server, Me)' /\ Owns(server, Other)'
  <2>1. \A h \in DOMAIN server.hands[Me] :
            server.hands[Me][h] # Empty => server.hands[Me][h] \in Item
    BY <1>2, WorldParts, Players
  <2>2. Owns(server, Me)'
    BY <1>2, <1>5, <1>6, <2>1, Players DEF Owns
  <2>3. Owns(server, Other)'
    BY <1>5, <1>6, HandsAreHands DEF Owns
  <2> QED
    BY <2>2, <2>3
<1>8. server' \in Good(Player)
  BY <1>6, <1>7, Players DEF Good, Owns
<1>9. TypeOK' /\ Worlds'
  <2>1. WorldOK(server')
    BY <1>6, WorldsAreOK
  <2> QED
    BY <1>1, <1>2, <1>5, <1>6, <1>8, <2>1 DEF Inv, TypeOK, Worlds, gameVars, tick, WorldOK, Snapshot
<1> QED
  BY <1>1, <1>9, GameIsLeft DEF Inv

LEMMA HandleTickKeepsInv == Inv /\ HandleTick => Inv'
<1> SUFFICES ASSUME Inv, HandleTick PROVE Inv'
  OBVIOUS
<1>1. /\ UNCHANGED <<gameVars, sent>> /\ tick < MaxTick
      /\ committed' = After(committed, tick + 1)
      /\ history' = Append(history, Snapshot(server'))
  BY DEF HandleTick
<1>2. server' \in Good(Player) /\ SameHands(server, server')
  <2> DEFINE mine == CommittedFor(committed, tick + 1)
  <2>1. mine \in Seq(Action)
    BY InvTypes, CommittedForIsSeq
  <2>2. PICK theirs \in BoundedSeq(Action, 1) :
            \/ server' = ApplyAll(ApplyAll(server, Me, mine), Other, theirs)
            \/ server' = ApplyAll(ApplyAll(server, Other, theirs), Me, mine)
    BY DEF HandleTick
  <2>3. theirs \in Seq(Action)
    <3>1. PICK n \in 0 .. 1 : theirs \in [1 .. n -> Action]
      BY DEF BoundedSeq, SeqOf
    <3> QED
      BY <3>1, SeqDef
  <2> HIDE DEF mine
  <2>4. server \in Good(Player) /\ Player \in SUBSET Player /\ Me \in Player /\ Other \in Player
    BY Players DEF Inv, Worlds
  <2>5. ASSUME NEW p \in Player, NEW q \in Player, NEW s \in Seq(Action), NEW t \in Seq(Action),
               server' = ApplyAll(ApplyAll(server, p, s), q, t)
        PROVE  server' \in Good(Player) /\ SameHands(server, server')
    <3> DEFINE v == ApplyAll(server, p, s)
    <3>1. v \in Good(Player) /\ SameHands(server, v)
      BY <2>4, ApplyAllKeepsGood
    <3> HIDE DEF v
    <3>2. ApplyAll(v, q, t) \in Good(Player) /\ SameHands(v, ApplyAll(v, q, t))
      BY <2>4, <3>1, ApplyAllKeepsGood
    <3> QED
      BY <2>5, <3>1, <3>2 DEF SameHands, v
  <2> QED
    BY <2>1, <2>2, <2>3, <2>4, <2>5
<1>3. server' \in World /\ Owns(server', Me) /\ server'.hands[Me] # <<>>
  BY <1>2, Players DEF Good, SameHands, Inv, Worlds
<1>4. WorldOK(server') /\ Snapshot(server') \in State
  BY <1>3, WorldsAreOK
<1>5. Owns(Snapshot(server'), Me) /\ Snapshot(server').hands[Me] # <<>>
  BY <1>3, SnapshotOwns
<1>6. /\ history' \in Seq(State) /\ Len(history') = tick + 1 /\ tick' = tick + 1
      /\ DOMAIN history' = 1 .. tick + 1
      /\ \A t \in 1 .. tick : history'[t] = history[t]
      /\ history'[tick + 1] = Snapshot(server')
  BY <1>1, <1>4, InvTypes DEF tick
<1>7. \A t \in DOMAIN history' : Owns(history'[t], Me) /\ history'[t].hands[Me] # <<>>
  <2> SUFFICES ASSUME NEW t \in DOMAIN history'
               PROVE  Owns(history'[t], Me) /\ history'[t].hands[Me] # <<>>
    OBVIOUS
  <2>1. CASE t = tick + 1
    BY <1>5, <1>6, <2>1
  <2>2. CASE t # tick + 1
    <3>1. t \in 1 .. tick /\ history'[t] = history[t]
      BY <1>6, <2>2, InvTypes
    <3>2. Owns(history[t], Me) /\ history[t].hands[Me] # <<>>
      BY <3>1, InvTypes DEF Inv, Worlds
    <3> QED
      BY <3>1, <3>2
  <2> QED
    BY <2>1, <2>2
<1>8. \A t \in DOMAIN committed' : t \in (tick + 1) + 1 .. MaxTick /\ committed'[t] \in ActionSeq
  BY <1>1, InvTypes, PredictionAssumption DEF After, Restrict, IsCommits
<1>9. TypeOK'
  <2>1. WorldOK(world)' /\ WorldOK(server)'
    BY <1>1, <1>4 DEF Inv, TypeOK, gameVars, WorldOK, Snapshot
  <2>2. tick' <= MaxTick /\ latest' \in 0 .. tick'
    BY <1>1, <1>6, InvTypes, PredictionAssumption DEF gameVars
  <2> QED
    BY <1>1, <1>6, <1>8, <2>1, <2>2 DEF Inv, TypeOK, gameVars
<1>10. Worlds'
  BY <1>1, <1>2, <1>3, <1>7 DEF Inv, Worlds, gameVars, Owns
<1>11. latest > 0 => history'[latest] = history[latest]
  BY <1>6, InvTypes
<1> QED
  BY <1>1, <1>9, <1>10, <1>11, GameIsLeft DEF Inv

-----------------------------------------------------------------------------
(* Steps of the game.                                                      *)

LEMMA StartKeepsInv == Inv /\ StartNetSession => Inv'
<1> SUFFICES ASSUME Inv, StartNetSession PROVE Inv'
  OBVIOUS
<1>1. /\ ~ online /\ online' = TRUE /\ last' \in 0 .. MaxTick
      /\ UNCHANGED <<world, latest, local_actions, action_accumulator, overtaken>>
      /\ UNCHANGED <<sent, server, committed, history>>
  BY DEF StartNetSession, serverVars
<1>2. latest = 0 /\ DOMAIN local_actions = {} /\ sent = {}
  BY <1>1 DEF Inv, Offline
<1>3. TypeOK'
  BY <1>1, <1>2 DEF Inv, TypeOK, WorldOK, Snapshot, tick
<1>4. Worlds' /\ Offline' /\ Kept' /\ Replayed'
  BY <1>1, <1>2 DEF Inv, Worlds, Offline, Kept, TicksAreCommittedOnce, Replayed, Owns
<1> QED
  BY <1>3, <1>4 DEF Inv

\* What a snapshot leaves of what was kept.
LEMMA AfterParts ==
  ASSUME NEW c, NEW t
  PROVE  /\ DOMAIN After(c, t) = {u \in DOMAIN c : u > t}
         /\ \A u \in DOMAIN After(c, t) : After(c, t)[u] = c[u]
BY DEF After, Restrict

LEMMA HandleSnapshotKeepsInv == Inv /\ HandleSnapshot => Inv'
<1> SUFFICES ASSUME Inv, HandleSnapshot PROVE Inv'
  OBVIOUS
<1>1. /\ online /\ online' = online /\ action_accumulator' = action_accumulator
      /\ UNCHANGED <<sent, server, committed, history>>
      /\ overtaken' = (action_accumulator # <<>>)
  BY DEF HandleSnapshot, serverVars
<1>2. PICK t \in DOMAIN history :
          /\ t > latest
          /\ latest' = t
          /\ local_actions' = After(local_actions, t)
          /\ world' = Replay(ApplySnapshot(world, history[t]), local_actions', t, last)
          /\ last' = IF t > last THEN t ELSE last
  BY DEF HandleSnapshot, GameStatePacket
<1> DEFINE s == history[t]
           x == ApplySnapshot(world, s)
           y == ApplySnapshot(world', s)
<1>3. t \in 1 .. tick /\ t \in Nat /\ s \in State /\ s.hands[Me] # <<>> /\ Owns(s, Me)
  BY InvTypes DEF Inv, Worlds
<1>4. last' \in Nat /\ t <= last' /\ last <= last' /\ last' <= MaxTick
  BY <1>2, <1>3, InvTypes, PredictionAssumption
<1>5. /\ IsCommits(local_actions')
      /\ \A u \in DOMAIN local_actions' :
            u \in DOMAIN local_actions /\ u > t /\ local_actions'[u] = local_actions[u]
      /\ \A u \in DOMAIN local_actions : u > t => u \in DOMAIN local_actions'
  <2> DEFINE c == After(local_actions, t)
  <2>1. /\ DOMAIN c = {u \in DOMAIN local_actions : u > t}
        /\ \A u \in DOMAIN c : c[u] = local_actions[u]
    BY AfterParts
  <2>2. local_actions' = c /\ IsCommits(local_actions)
    BY <1>2, InvTypes
  <2> HIDE DEF c
  <2>3. IsCommits(c)
    BY <2>1, <2>2 DEF IsCommits
  <2> QED
    BY <2>1, <2>2, <2>3
<1>6. world' \in Good({Me})
  <2>1. x \in Good({Me})
    BY <1>3, SnapshotIsGood DEF Inv, Worlds
  <2> HIDE DEF s, x
  <2> QED
    BY <1>2, <1>3, <1>5, <2>1, InvTypes, ReplayKeepsGood DEF s, x
<1>7. world' \in World /\ WorldOK(world')
  BY <1>6, WorldsAreOK DEF Good
<1>8. TypeOK'
  <2>1. latest' \in 0 .. tick /\ last' \in latest' .. MaxTick
    BY <1>2, <1>3, <1>4, PredictionAssumption
  <2>2. \A u \in DOMAIN local_actions' :
           u \in latest' + 1 .. last' /\ local_actions'[u] \in ActionSeq
    <3> SUFFICES ASSUME NEW u \in DOMAIN local_actions'
                 PROVE  u \in latest' + 1 .. last' /\ local_actions'[u] \in ActionSeq
      OBVIOUS
    <3>1. u \in latest + 1 .. last /\ u > t
      BY <1>5, InvTypes
    <3> QED
      BY <1>2, <1>3, <1>4, <1>5, <3>1, InvTypes DEF IsCommits
  <2> QED
    BY <1>1, <1>7, <2>1, <2>2 DEF Inv, TypeOK, WorldOK, Snapshot, tick
<1>9. Worlds'
  BY <1>1, <1>6 DEF Inv, Worlds, Owns
<1>10. Offline' /\ Kept'
  <2>1. TicksAreCommittedOnce' /\ Offline'
    BY <1>1 DEF Inv, Kept, TicksAreCommittedOnce, Offline
  <2>2. \A m \in sent' : m.tick <= last'
    BY <1>1, <1>4, InvTypes DEF Inv, Kept
  <2>3. \A u \in DOMAIN local_actions' : CommitActionsPacket(u, local_actions'[u]) \in sent'
    BY <1>1, <1>5 DEF Inv, Kept
  <2>4. \A m \in sent' : m.tick > latest' => m.tick \in DOMAIN local_actions'
    BY <1>1, <1>2, <1>3, <1>5, InvTypes DEF Inv, Kept
  <2> QED
    BY <2>1, <2>2, <2>3, <2>4 DEF Kept
<1>11. Replayed'
  <2> SUFFICES ASSUME action_accumulator = <<>>
               PROVE  <<world', Rebuilt(world)'>> \in Alike
    BY <1>1 DEF Replayed
  <2>1. Rebuilt(world)' = Replay(y, local_actions', t, last')
    BY <1>1, <1>2, ApplyNone DEF Rebuilt
  <2>2. <<x, y>> \in Alike
    BY <1>3, <1>7, InvTypes, SnapshotAlike
  <2> HIDE DEF s, x, y
  <2>3. world' = Replay(x, local_actions', t, last')
    <3>1. CASE t > last
      <4>1. last' = t
        BY <1>2, <3>1
      <4> QED
        BY <1>2, <1>3, <3>1, <4>1, InvTypes, ReplayNone DEF s, x
    <3>2. CASE ~ (t > last)
      BY <1>2, <3>2 DEF s, x
    <3> QED
      BY <3>1, <3>2
  <2> QED
    BY <1>3, <1>4, <1>5, <2>1, <2>2, <2>3, ReplayAlike
<1> QED
  BY <1>8, <1>9, <1>10, <1>11 DEF Inv

LEMMA InsertParts ==
  ASSUME NEW new, NEW old
  PROVE  /\ DOMAIN Insert(new, old) = DOMAIN new \cup DOMAIN old
         /\ \A t \in DOMAIN new : Insert(new, old)[t] = new[t]
         /\ \A t \in DOMAIN old : t \notin DOMAIN new => Insert(new, old)[t] = old[t]
BY DEF Insert

LEMMA AlikeChains ==
  ASSUME NEW w, NEW v, NEW x, <<w, v>> \in Alike, <<v, x>> \in Alike
  PROVE  <<w, x>> \in Alike
BY AlikeParts

LEMMA UpdateKeepsInv == Inv /\ Update => Inv'
<1> SUFFICES ASSUME Inv, Update PROVE Inv'
  OBVIOUS
<1>1. /\ online /\ online' = online /\ latest' = latest /\ overtaken' = overtaken
      /\ UNCHANGED <<server, committed, history>>
  BY DEF Update, serverVars
<1>2. PICK actions \in LocalActions(world), ticks \in 0 .. MaxFrameTicks :
          LET accumulated == action_accumulator \o actions
              commits == CommitTicks(accumulated, ticks)
          IN  /\ Len(accumulated) <= MaxActions
              /\ last + ticks <= MaxTick
              /\ world' = ApplyAll(world, Me, actions)
              /\ action_accumulator' = IF ticks = 0 THEN accumulated ELSE <<>>
              /\ local_actions' = Insert(commits, local_actions)
              /\ sent' = sent \cup {CommitActionsPacket(t, commits[t]) : t \in DOMAIN commits}
              /\ last' = last + ticks
  BY DEF Update
<1> DEFINE accumulated == action_accumulator \o actions
           commits == CommitTicks(accumulated, ticks)
<1>3. ticks \in Nat /\ last' = last + ticks /\ last' \in Nat /\ last' <= MaxTick /\ last <= last'
  BY <1>2, InvTypes, PredictionAssumption
<1>4. /\ actions \in Seq(Action) /\ action_accumulator \in Seq(Action)
      /\ accumulated \in Seq(Action) /\ accumulated \in ActionSeq
  <2>1. actions \in ActionSeq
    BY DEF LocalActions, ActionSeq
  <2>2. actions \in Seq(Action) /\ action_accumulator \in Seq(Action)
    BY <2>1, InvTypes, ActionSeqs
  <2>3. accumulated \in Seq(Action)
    BY <2>2
  <2> QED
    BY <1>2, <2>2, <2>3, ActionSeqs
<1>5. /\ world' = ApplyAll(world, Me, actions)
      /\ action_accumulator' = IF ticks = 0 THEN accumulated ELSE <<>>
      /\ local_actions' = Insert(commits, local_actions)
      /\ sent' = sent \cup {CommitActionsPacket(t, commits[t]) : t \in DOMAIN commits}
  BY <1>2
<1> HIDE DEF accumulated
<1>6. /\ DOMAIN commits = last + 1 .. last'
      /\ \A t \in DOMAIN commits : commits[t] = IF t = last + 1 THEN accumulated ELSE <<>>
      /\ \A t \in DOMAIN commits : commits[t] \in ActionSeq
  BY <1>3, <1>4, ActionSeqs DEF CommitTicks
<1> HIDE DEF commits
<1>7. /\ DOMAIN local_actions' = DOMAIN commits \cup DOMAIN local_actions
      /\ \A t \in DOMAIN commits : local_actions'[t] = commits[t]
      /\ \A t \in DOMAIN local_actions : t \notin DOMAIN commits /\ local_actions'[t] = local_actions[t]
  <2>1. \A t \in DOMAIN local_actions : t \notin DOMAIN commits
    BY <1>3, <1>6, InvTypes
  <2> DEFINE c == Insert(commits, local_actions)
  <2>2. /\ DOMAIN c = DOMAIN commits \cup DOMAIN local_actions
        /\ \A t \in DOMAIN commits : c[t] = commits[t]
        /\ \A t \in DOMAIN local_actions : t \notin DOMAIN commits => c[t] = local_actions[t]
    BY InsertParts
  <2>3. local_actions' = c
    BY <1>5
  <2> HIDE DEF c
  <2> QED
    BY <2>1, <2>2, <2>3
<1>8. IsCommits(local_actions')
  BY <1>6, <1>7, InvTypes DEF IsCommits
<1>9. \A m \in sent' \ sent :
          m.tick \in DOMAIN commits /\ m.actions = commits[m.tick]
             /\ m \in [tick : 1 .. MaxTick, actions : ActionSeq]
  <2> SUFFICES ASSUME NEW t \in DOMAIN commits
               PROVE  /\ CommitActionsPacket(t, commits[t]).tick = t
                      /\ CommitActionsPacket(t, commits[t]).actions = commits[t]
                      /\ CommitActionsPacket(t, commits[t])
                            \in [tick : 1 .. MaxTick, actions : ActionSeq]
    BY <1>5
  <2>1. t \in 1 .. MaxTick
    BY <1>3, <1>6, InvTypes, PredictionAssumption
  <2> QED
    BY <1>6, <2>1 DEF CommitActionsPacket
<1>10. world' \in Good({Me}) /\ world' \in World /\ WorldOK(world')
  <2>1. {Me} \in SUBSET Player /\ Me \in {Me}
    BY Players
  <2>2. world' \in Good({Me})
    BY <1>4, <1>5, <2>1, ApplyAllKeepsGood DEF Inv, Worlds
  <2> QED
    BY <2>2, WorldsAreOK DEF Good
<1>11. TypeOK'
  <2>1. latest' \in 0 .. tick /\ last' \in latest' .. MaxTick
    BY <1>1, <1>3, InvTypes, PredictionAssumption
  <2>2. \A t \in DOMAIN local_actions' :
           t \in latest' + 1 .. last' /\ local_actions'[t] \in ActionSeq
    <3> SUFFICES ASSUME NEW t \in DOMAIN local_actions'
                 PROVE  t \in latest' + 1 .. last' /\ local_actions'[t] \in ActionSeq
      OBVIOUS
    <3>1. CASE t \in DOMAIN commits
      BY <1>1, <1>3, <1>6, <1>8, <3>1, InvTypes DEF IsCommits
    <3>2. CASE t \in DOMAIN local_actions
      <4>1. t \in latest + 1 .. last
        BY <3>2, InvTypes
      <4> QED
        BY <1>1, <1>3, <1>8, <4>1, InvTypes DEF IsCommits
    <3> QED
      BY <1>7, <3>1, <3>2
  <2>3. action_accumulator' \in ActionSeq
    BY <1>4, <1>5, ActionSeqs
  <2>4. sent' \subseteq [tick : 1 .. MaxTick, actions : ActionSeq]
    BY <1>9, InvTypes
  <2> QED
    BY <1>1, <1>10, <2>1, <2>2, <2>3, <2>4 DEF Inv, TypeOK, WorldOK, Snapshot, tick
<1>12. Worlds'
  BY <1>1, <1>10 DEF Inv, Worlds, Owns
<1>13. Offline' /\ Kept'
  <2>1. \A m \in sent : m.tick \in Nat /\ m.tick <= last /\ m.tick \notin DOMAIN commits
    <3> TAKE m \in sent
    <3>1. m.tick \in 1 .. MaxTick /\ m.tick <= last
      BY InvTypes DEF Inv, Kept
    <3> QED
      BY <1>3, <1>6, <3>1, InvTypes, PredictionAssumption
  <2>2. TicksAreCommittedOnce'
    <3> SUFFICES ASSUME NEW m \in sent', NEW n \in sent', m.tick = n.tick
                 PROVE  m.actions = n.actions
      BY DEF TicksAreCommittedOnce
    <3>1. CASE m \in sent /\ n \in sent
      BY <3>1 DEF Inv, Kept, TicksAreCommittedOnce
    <3> QED
      BY <1>9, <2>1, <3>1
  <2>3. \A m \in sent' : m.tick <= last'
    <3> SUFFICES ASSUME NEW m \in sent' PROVE m.tick <= last'
      OBVIOUS
    <3>1. CASE m \in sent
      BY <1>3, <2>1, <3>1, InvTypes
    <3>2. CASE m \notin sent
      BY <1>3, <1>6, <1>9, <3>2, InvTypes
    <3> QED
      BY <3>1, <3>2
  <2>4. \A t \in DOMAIN local_actions' : CommitActionsPacket(t, local_actions'[t]) \in sent'
    BY <1>5, <1>7 DEF Inv, Kept
  <2>5. \A m \in sent' : m.tick > latest' => m.tick \in DOMAIN local_actions'
    BY <1>1, <1>7, <1>9 DEF Inv, Kept
  <2> QED
    BY <1>1, <2>2, <2>3, <2>4, <2>5 DEF Kept, Offline
<1>14. Replayed'
  <2> SUFFICES ASSUME latest > 0, ~ overtaken PROVE <<world', Rebuilt(world)'>> \in Alike
    BY <1>1 DEF Replayed
  <2> DEFINE s == history[latest]
             R == Replay(ApplySnapshot(world, s), local_actions, latest, last)
             T == Replay(ApplySnapshot(world', s), local_actions', latest, last)
  <2>1. s \in State /\ s.hands[Me] # <<>>
    BY InvTypes DEF Inv, Worlds
  <2>2. <<world, ApplyAll(R, Me, action_accumulator)>> \in Alike
    BY DEF Inv, Replayed, Rebuilt
  <2>3. Rebuilt(world)' =
           ApplyAll(Replay(ApplySnapshot(world', s), local_actions', latest, last'),
                    Me, action_accumulator')
    BY <1>1 DEF Rebuilt
  <2>4. <<R, T>> \in Alike
    <3> DEFINE x == ApplySnapshot(world, s)
               y == ApplySnapshot(world', s)
    <3>1. <<x, y>> \in Alike
      BY <1>10, <2>1, InvTypes, SnapshotAlike
    <3>2. \A u \in latest + 1 .. last :
             CommittedFor(local_actions, u) = CommittedFor(local_actions', u)
      <4> TAKE u \in latest + 1 .. last
      <4>1. u \notin DOMAIN commits
        BY <1>3, <1>6, InvTypes
      <4> QED
        BY <1>7, <4>1 DEF CommittedFor
    <3> HIDE DEF s, x, y
    <3> QED
      BY <1>8, <3>1, <3>2, InvTypes, ReplayAlike DEF x, y
  <2> HIDE DEF R
  <2>5. <<world', ApplyAll(R, Me, accumulated)>> \in Alike
    <3>1. <<ApplyAll(world, Me, actions),
            ApplyAll(ApplyAll(R, Me, action_accumulator), Me, actions)>> \in Alike
      BY <1>4, <2>2, ApplyAllAlike
    <3>2. ApplyAll(ApplyAll(R, Me, action_accumulator), Me, actions) = ApplyAll(R, Me, accumulated)
      BY <1>4, ApplyAllConcatenated DEF accumulated
    <3> QED
      BY <1>5, <3>1, <3>2
  <2>6. ApplyAll(T, Me, accumulated) = Rebuilt(world)'
    <3> DEFINE x == ApplySnapshot(world', s)
    <3> HIDE DEF s, x
    <3>1. CASE ticks = 0
      <4>1. last' = last /\ action_accumulator' = accumulated
        BY <1>3, <1>5, <3>1, InvTypes
      <4> QED
        BY <2>3, <4>1
    <3>2. CASE ticks # 0
      <4>1. last + 1 \in DOMAIN commits /\ last < last' /\ action_accumulator' = <<>>
        BY <1>3, <1>5, <1>6, <3>2, InvTypes
      <4>2. CommittedFor(local_actions', last + 1) = accumulated
        BY <1>6, <1>7, <4>1 DEF CommittedFor
      <4>3. \A u \in last + 2 .. last' : CommittedFor(local_actions', u) = <<>>
        <5> TAKE u \in last + 2 .. last'
        <5>1. u \in DOMAIN commits /\ u # last + 1
          BY <1>3, <1>6, InvTypes
        <5> QED
          BY <1>6, <1>7, <5>1 DEF CommittedFor
      <4>4. Replay(x, local_actions', latest, last') = ApplyAll(T, Me, accumulated)
        BY <1>3, <4>1, <4>2, <4>3, InvTypes, ReplayCommits DEF x
      <4> QED
        BY <2>3, <4>1, <4>4, ApplyNone DEF x
    <3> QED
      BY <3>1, <3>2
  <2> HIDE DEF T
  <2>7. <<ApplyAll(R, Me, accumulated), ApplyAll(T, Me, accumulated)>> \in Alike
    BY <1>4, <2>4, ApplyAllAlike
  <2> QED
    BY <2>5, <2>6, <2>7, AlikeChains
<1> QED
  BY <1>11, <1>12, <1>13, <1>14 DEF Inv

-----------------------------------------------------------------------------
(* The theorems.                                                           *)

LEMMA NextInv == Inv /\ [Next]_vars => Inv'
<1> SUFFICES ASSUME Inv, [Next]_vars PROVE Inv'
  OBVIOUS
<1>1. CASE UNCHANGED vars
  <2>1. UNCHANGED <<gameVars, sent>> /\ UNCHANGED <<server, committed, history>>
    BY <1>1 DEF vars, serverVars
  <2>2. TypeOK' /\ Worlds'
    BY <2>1 DEF Inv, TypeOK, Worlds, gameVars, WorldOK, Snapshot, tick, Owns
  <2> QED
    BY <2>1, <2>2, GameIsLeft DEF Inv
<1> QED
  BY <1>1, StartKeepsInv, UpdateKeepsInv, HandleSnapshotKeepsInv, HandleCommitKeepsInv,
     HandleTickKeepsInv, OtherLeavesKeepsInv DEF Next

\* The invariant holds in every state of a run.
THEOREM PredictionInv == Spec => []Inv
BY InitInv, NextInv, PTL DEF Spec

\* Every variable has its type, and actions are kept for ticks to come only:
\* neither the game nor the server keeps any for a tick that it has passed.
THEOREM PredictionTypes == Spec => []TypeOK
<1>1. Inv => TypeOK
  BY DEF Inv
<1> QED
  BY <1>1, PredictionInv, PTL

\* No assertion of apply_action fails, on the server or in the player's own
\* world, whatever snapshots that is put together from and whichever of his
\* actions the server refused.
THEOREM DropsSound == Spec => []DropsAreSound
<1>1. Inv => DropsAreSound
  BY DEF Inv, Worlds, Good, DropsAreSound
<1> QED
  BY <1>1, PredictionInv, PTL

\* The game commits every tick once: it never goes back to one it has
\* completed, also when a snapshot takes its world back.
THEOREM CommittedOnce == Spec => []TicksAreCommittedOnce
<1>1. Inv => TicksAreCommittedOnce
  BY DEF Inv, Kept
<1> QED
  BY <1>1, PredictionInv, PTL

\* What the player sees is the latest snapshot with every action since, once
\* and in order: update and handle_snapshot agree on what is kept.
THEOREM PredictionReplays == Spec => []PredictionIsReplay
<1>1. Inv => PredictionIsReplay
  <2> SUFFICES ASSUME Inv, latest > 0, ~ overtaken PROVE Seen(world) = Seen(Predicted)
    BY DEF PredictionIsReplay
  <2> DEFINE s == history[latest]
             x == ApplySnapshot(world, s)
             d == EverCommittedSince(latest)
  <2>1. \A t \in DOMAIN d : t \in DOMAIN local_actions /\ d[t] = local_actions[t]
    <3> SUFFICES ASSUME NEW t \in DOMAIN d
                 PROVE  t \in DOMAIN local_actions /\ d[t] = local_actions[t]
      OBVIOUS
    <3> DEFINE commits == {m \in sent : m.tick > latest}
               n == CHOOSE m \in commits : m.tick = t
    <3>1. (\E m \in commits : m.tick = t) /\ d[t] = n.actions
      BY DEF EverCommittedSince
    <3>2. n \in commits /\ n.tick = t
      BY <3>1
    <3> HIDE DEF n
    <3>3. t \in DOMAIN local_actions
      BY <3>2 DEF Inv, Kept
    <3>4. CommitActionsPacket(t, local_actions[t]) \in sent
      BY <3>3 DEF Inv, Kept
    <3> QED
      BY <3>1, <3>2, <3>3, <3>4 DEF Inv, Kept, TicksAreCommittedOnce, CommitActionsPacket
  <2>2. \A t \in DOMAIN local_actions : t \in DOMAIN d
    <3> TAKE t \in DOMAIN local_actions
    <3>1. CommitActionsPacket(t, local_actions[t]) \in sent /\ t > latest
      BY InvTypes DEF Inv, Kept
    <3> QED
      BY <3>1 DEF EverCommittedSince, CommitActionsPacket
  <2> HIDE DEF d
  <2>3. IsCommits(d) /\ IsCommits(local_actions)
    BY <2>1, InvTypes DEF IsCommits
  <2>4. \A u : CommittedFor(local_actions, u) = CommittedFor(d, u)
    BY <2>1, <2>2 DEF CommittedFor
  <2>5. <<x, x>> \in Alike
    BY InvTypes, SnapshotAlike DEF Inv, Worlds
  <2> HIDE DEF x
  <2>6. <<Replay(x, local_actions, latest, last), Replay(x, d, latest, last)>> \in Alike
    BY <2>3, <2>4, <2>5, InvTypes, ReplayAlike
  <2>7. <<Rebuilt(world), Predicted>> \in Alike
    BY <2>6, InvTypes, ActionSeqs, ApplyAllAlike DEF Rebuilt, Predicted, x, d
  <2>8. <<world, Predicted>> \in Alike
    BY <2>7, AlikeChains DEF Inv, Replayed
  <2> QED
    BY <2>8 DEF Alike
<1> QED
  BY <1>1, PredictionInv, PTL
=============================================================================
