---------------------------- MODULE MCTransport -----------------------------
(* Instances of Transport for TLC. *)
EXTENDS Transport

(* One sender, messages of one, two and three fragments. *)
Lengths == {<<0, 1, 2>>, <<0, 1, 3>>, <<0, 1, 5>>}
=============================================================================
