----------------------------- MODULE MCNetwork ------------------------------
(* Instances of Network for TLC. *)
EXTENDS Network, TLC

CONSTANTS a, b, c, d1, d2, d3, d4

(* Nodes a and b send to c, and may relay for each other. *)
Relayed == {<<a, c, 2>>, <<b, c, 1>>}

(* What the packets carry makes no difference to the network layer. *)
AnyData == Permutations(Data)
=============================================================================
