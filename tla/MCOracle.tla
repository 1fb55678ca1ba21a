------------------------------ MODULE MCOracle ------------------------------
(* Instances of Oracle for TLC. *)
EXTENDS Oracle, TLC

(* Three nodes in a row; node 2 may walk from the one end to the other. *)
Row == {0 :> <<0, 0>> @@ 1 :> <<3, 0>> @@ 2 :> <<6, 0>>}
Walker == 0 :> {} @@ 1 :> {} @@ 2 :> {<<<<6, 0>>, <<1, 2>>>>}

(* Node 1 has no room at first, node 2 has none later. *)
InTurn == [n \in Node |-> [t \in 1 .. MaxTime |->
             IF (n = 1 /\ t = 1) \/ (n = 2 /\ t > 1) THEN {0} ELSE {1}]]
=============================================================================
