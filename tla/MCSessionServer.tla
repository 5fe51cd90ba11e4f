-------------------------- MODULE MCSessionServer --------------------------
(* Instances of SessionServer for TLC.                                     *)
EXTENDS SessionServer

Symmetry == Permutations(Addr) \cup Permutations(Item) \cup Permutations(Hand)
=============================================================================
