--------------------------- MODULE DatagramService --------------------------
(***************************************************************************)
(* What the transport layer promises to the application: a message that is *)
(* handed over is delivered whole, to the node it was meant for, with the  *)
(* name of its sender, at most once, in any order, and possibly never.     *)
(***************************************************************************)
EXTENDS Sequences, Functions

CONSTANTS
  Node,      \* the nodes
  Message    \* what can be sent: [src, dest, data], the data all different

VARIABLES
  sent,      \* the messages handed over so far
  delivered  \* [n] what the application at n got, in order

service == <<sent, delivered>>

Init ==
  /\ sent = {}
  /\ delivered = [n \in Node |-> <<>>]

Accept(m) ==
  /\ m \notin sent
  /\ sent' = sent \cup {m}
  /\ UNCHANGED delivered

Deliver(m) ==
  LET d == [from |-> m.src, data |-> m.data] IN
  /\ d \notin Range(delivered[m.dest])
  /\ delivered' = [delivered EXCEPT ![m.dest] = Append(@, d)]
  /\ UNCHANGED sent

Next ==
  \/ \E m \in Message : Accept(m)
  \/ \E m \in sent : Deliver(m)

Spec == Init /\ [][Next]_service
=============================================================================
