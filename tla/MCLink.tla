------------------------------- MODULE MCLink ------------------------------
(* Instances of Link for TLC. *)
EXTENDS Link

CONSTANTS a, b, c

(* Two neighbours that send to each other. *)
PairRoutes == {<<a, b>>, <<b, a>>}
OneRoute   == {<<a, b>>}

(* A chain a - b - c: a and c both send to b and cannot hear each other. *)
ChainRange  == {<<a, b>>, <<b, a>>, <<b, c>>, <<c, b>>}
\* c's frames never reach a, and a's never reach b: fewer states to search.
LopsidedRange == {<<b, a>>, <<b, c>>, <<c, b>>}
ChainRoutes == {<<a, b>>, <<c, b>>}
=============================================================================
