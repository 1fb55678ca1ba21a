----------------------------- MODULE MCWalking ------------------------------
(* Instances of Walking for TLC. *)
EXTENDS Walking

(* A building and, in the corner, a wall drawn as a line. *)
Town == {<<2, 2, 4, 4>>, <<6, 0, 6, 1>>}
TownSize == <<8, 6>>
LessWithDistance(square) == 40 - square
=============================================================================
