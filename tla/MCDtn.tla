------------------------------- MODULE MCDtn --------------------------------
(* Instances of Dtn for TLC. *)
EXTENDS Dtn, TLC

(* Three nodes in a row: node 1 is in reach of both ends. *)
Row     == 0 :> <<0, 0>> @@ 1 :> <<3, 0>> @@ 2 :> <<6, 0>>
OneRow  == {Row}
NoMoves == [n \in Node |-> {}]

(* Node 2 walks from the one end of the row to the other. *)
Walker == 0 :> {} @@ 1 :> {} @@ 2 :> {<<<<6, 0>>, <<1, 2>>>>}

Message == {<<0, 2, 2>>}

(* The first message of two fragments at a node is never put together. *)
TwoSenders == {<<0, 2, 2>>, <<1, 2, 2>>}
=============================================================================
