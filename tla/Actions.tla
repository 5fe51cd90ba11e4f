------------------------------ MODULE Actions ------------------------------
(***************************************************************************)
(* What players can do to the world, on the server and in the prediction   *)
(* of a client (action.rs of dungeon-vr-session-shared): a world has the   *)
(* hands of its players, and for each grabbable item the authority over it *)
(* and whether it is grabbed.  Transforms are left out: whether a hand is  *)
(* near enough to an item is not decided by the action.                    *)
(***************************************************************************)
EXTENDS Naturals, SequencesExt

CONSTANTS
    Item,           \* the grabbable entities
    Hand,           \* the hands of a player
    Empty           \* a hand that holds nothing

ASSUME ActionsAssumption == Empty \notin Item /\ Hand # {}

Server == 0         \* Authority::Server; Authority::Player(p) is p

Action ==
    [op : {"Grab"}, hand : Hand, target : Item] \cup [op : {"Drop"}, hand : Hand]

HandGrabState == Item \cup {Empty}

\* A world with no player in it.  sound: no assertion of apply_action has
\* failed in it.
NewWorld(players) ==
    [hands |-> [p \in players |-> <<>>],
     authority |-> [i \in Item |-> Server],
     grabbed |-> [i \in Item |-> FALSE],
     sound |-> TRUE]

-----------------------------------------------------------------------------
SpawnPlayer(w, p) == [w EXCEPT !.hands[p] = [h \in Hand |-> Empty]]

\* Mutant of DespawnPlayer: the player keeps authority.
DespawnHands(w, p) == [w EXCEPT !.hands[p] = <<>>]

\* The hands go; everything else the player had authority over returns to
\* the server, as it is.
DespawnPlayer(w, p) ==
    [w EXCEPT !.hands[p] = <<>>,
              !.authority = [i \in Item |-> IF @[i] = p THEN Server ELSE @[i]]]

-----------------------------------------------------------------------------
\* Mutant of CanGrab: what the player holds in the other hand is not refused.
CanRegrab(w, p, a) ==
    /\ a.hand \in DOMAIN w.hands[p]
    /\ w.hands[p][a.hand] = Empty
    /\ w.authority[a.target] \in {Server, p}

CanGrab(w, p, a) ==
    /\ a.hand \in DOMAIN w.hands[p]
    /\ w.hands[p][a.hand] = Empty
    /\ w.authority[a.target] \in {Server, p}
    /\ ~ w.grabbed[a.target]

CanDrop(w, p, a) ==
    /\ a.hand \in DOMAIN w.hands[p]
    /\ w.hands[p][a.hand] # Empty

Grab(w, p, a) ==
    [w EXCEPT !.hands[p][a.hand] = a.target,
              !.authority[a.target] = p,
              !.grabbed[a.target] = TRUE]

\* A drop whose target is not the player's, or not grabbed, panics.
Drop(w, p, a) ==
    LET target == w.hands[p][a.hand]
    IN  [w EXCEPT !.hands[p][a.hand] = Empty,
                  !.authority[target] = Server,
                  !.grabbed[target] = FALSE,
                  !.sound = @ /\ w.authority[target] = p /\ w.grabbed[target]]

\* apply_action: an action that may not be applied is skipped.
ApplyAction(w, p, a) ==
    IF a.op = "Grab"
      THEN IF CanGrab(w, p, a) THEN Grab(w, p, a) ELSE w
      ELSE IF CanDrop(w, p, a) THEN Drop(w, p, a) ELSE w

ApplyAll(w, p, actions) == FoldLeft(LAMBDA x, a : ApplyAction(x, p, a), w, actions)
=============================================================================
