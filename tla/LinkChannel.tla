---------------------------- MODULE LinkChannel -----------------------------
(***************************************************************************)
(* What the data link layer promises to the network layer above it: for    *)
(* each pair of nodes a channel that may lose frames, but that delivers    *)
(* those it does not lose once, in the order they were accepted, and to    *)
(* the node they were meant for.                                           *)
(***************************************************************************)
EXTENDS Naturals, Sequences

CONSTANTS Node, Route

VARIABLES
  accepted,   \* the frames accepted so far; a frame is a position in it
  pending,    \* the accepted frames neither delivered nor lost
  delivered   \* [n] the frames delivered to n, in order

channel == <<accepted, pending, delivered>>

Init ==
  /\ accepted = <<>>
  /\ pending = {}
  /\ delivered = [n \in Node |-> <<>>]

(* A frame is accepted; kept are the other frames that stay pending. *)
Accept(kept) ==
  \E r \in Route :
    /\ accepted' = Append(accepted, [src |-> r[1], dest |-> r[2]])
    /\ pending' = kept \cup {Len(accepted) + 1}

(* No frame accepted earlier for the same pair of nodes is pending. *)
Oldest(i) == \A j \in pending : accepted[j] = accepted[i] => i <= j

Lose(i) ==
  /\ pending' = pending \ {i}
  /\ UNCHANGED <<accepted, delivered>>

(* A delivery lets the receiver send a frame in the same step. *)
Deliver(i) ==
  /\ Oldest(i)
  /\ delivered' = [delivered EXCEPT ![accepted[i].dest] = Append(@, i)]
  /\ \/ pending' = pending \ {i} /\ UNCHANGED accepted
     \/ Accept(pending \ {i})

Next ==
  \/ Accept(pending) /\ UNCHANGED delivered
  \/ \E i \in pending : Lose(i) \/ Deliver(i)

Spec == Init /\ [][Next]_channel

-----------------------------------------------------------------------------
(* What a receiver relies on: the frames it gets from one sender arrive in *)
(* the order that sender's link_send_data calls were made, none of them    *)
(* twice, and each is addressed to it.                                     *)
InOrderOnce ==
  \A r \in Node :
    /\ \A k \in DOMAIN delivered[r] :
         /\ delivered[r][k] \in DOMAIN accepted
         /\ accepted[delivered[r][k]].dest = r
    /\ \A k, l \in DOMAIN delivered[r] :
         /\ k < l
         /\ accepted[delivered[r][k]].src = accepted[delivered[r][l]].src
         => delivered[r][k] < delivered[r][l]
=============================================================================
