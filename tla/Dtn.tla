-------------------------------- MODULE Dtn ----------------------------------
(***************************************************************************)
(* The stack that reboot_node (src/dtn.c) builds at every node: Transport  *)
(* over Network, with the next nodes that Oracle chooses.  The link layer  *)
(* may lose packets but does not copy them, as LinkChannel says.           *)
(* The packets of Network carry the datagrams of Transport as their id.    *)
(***************************************************************************)
EXTENDS Integers, Sequences, SequencesExt, FiniteSets

CONSTANTS
  Node, None, Traffic,
  Starts, Moves, Reach, FreeBytes, ORACLEINTERVAL, ORACLEWAIT, MINDIST,
  MaxRecords, MaxTime,
  StackElBytes, PACKET_HEADER_SIZE, NETWORK_BUFF_SIZE,
  DATAGRAM_HEADER_SIZE,
  MAX_FRAGMENT_SIZE, TRANSPORT_BUFF_SIZE, QueueBytes, ElementBytes,
  DatagramBytes, MaxMessages

VARIABLES
  positionDB, due, info, air, clock, path, heard,    \* as in Oracle
  stack, stack_free, link, packets, dropped, lost,   \* as in Network: buff,
  handed,                    \* free_bytes, link, sent, evicted, lost, delivered
  msg_num_counter, queue, queue_free, messages,      \* as in Transport
  arrived, evicted, delivered,
  forwards     \* history: [n] the packets n's link layer got, in order

oracle    == <<positionDB, due, info, air, clock, path, heard>>
network   == <<stack, stack_free, link, packets, dropped, lost, handed>>
transport == <<msg_num_counter, queue, queue_free, messages, arrived, evicted,
               delivered>>
vars == <<oracle, network, transport, forwards>>

(* What the packets carry: the datagrams, whose bytes are named as in      *)
(* Transport.                                                              *)
Datagrams == [src : Node, num : Nat, frag : Nat, count : Nat,
              data : Seq((Node \X Nat) \X Nat)]
Length(d) == DATAGRAM_HEADER_SIZE + Len(d)
Queries == {<<t[2], DATAGRAM_HEADER_SIZE + k>> :
              t \in Traffic, k \in 1 .. MAX_FRAGMENT_SIZE}

O == INSTANCE Oracle WITH
       Announced <- [n \in Node |->
                       [t \in 1 .. MaxTime |-> 0 .. NETWORK_BUFF_SIZE]]

N == INSTANCE Network WITH
       buff <- stack, free_bytes <- stack_free, sent <- packets,
       evicted <- dropped, delivered <- handed,
       Traffic <- {<<t[1], t[2], q[2]>> : t \in Traffic, q \in Queries},
       Data <- Datagrams

(* To Transport, every packet that has not arrived is on its way. *)
OnTheWay == {[to |-> p.dest, dat |-> p.id] : p \in packets \ N!Arrived}

T == INSTANCE Transport WITH
       buff <- queue, free_bytes <- queue_free, sent <- messages,
       network <- OnTheWay

(* As in the modules: no node sends to itself, any two packets fit into    *)
(* the buffer of the network layer, any two messages into that of the      *)
(* transport layer.                                                        *)
ASSUME DtnAssumption ==
  /\ Node \subseteq Nat /\ IsFiniteSet(Node) /\ None \notin Node
  /\ Traffic \subseteq {t \in Node \X Node \X (Nat \ {0}) : t[1] # t[2]}
  /\ Starts \subseteq [Node -> Int \X Int]
  /\ Moves \in [Node -> SUBSET ((Int \X Int) \X (Int \X Int))]
  /\ FreeBytes \subseteq Nat
  /\ {ORACLEINTERVAL, MaxRecords, MaxTime, StackElBytes, MAX_FRAGMENT_SIZE}
       \subseteq Nat \ {0}
  /\ {Reach, ORACLEWAIT, MINDIST, PACKET_HEADER_SIZE, NETWORK_BUFF_SIZE,
      DATAGRAM_HEADER_SIZE, TRANSPORT_BUFF_SIZE, QueueBytes, ElementBytes,
      DatagramBytes, MaxMessages} \subseteq Nat
  /\ 2 * (StackElBytes + PACKET_HEADER_SIZE + DATAGRAM_HEADER_SIZE
          + MAX_FRAGMENT_SIZE) <= NETWORK_BUFF_SIZE
  /\ QueueBytes <= TRANSPORT_BUFF_SIZE
  /\ \A t \in Traffic : 2 * T!Bytes(T!FragCount(t[3]))
                         <= TRANSPORT_BUFF_SIZE - QueueBytes
  /\ MaxMessages < 100000

Init == O!Init /\ N!Init /\ T!Init /\ forwards = [n \in Node |-> <<>>]

(* What get_nth_best_node answers to try_to_send at node n. *)
Route(n) == [q \in Queries |->
               O!GetNthBestNode(n, q[1], PACKET_HEADER_SIZE + q[2])]

NoteForwards(n) ==
  forwards' = [forwards EXCEPT
                 ![n] = @ \o SetToSeq({h.pack : h \in link' \ link})]

-----------------------------------------------------------------------------
(* app_rdy: the application of t[1] has a message. *)
AppRdy(t) ==
  LET m == T!NewMessage(t)
      packet(d) == [source |-> m.src, dest |-> m.dest,
                    len |-> Length(d.data), id |-> d]
      packs == [i \in 1 .. T!FragCount(m.len) |->
                  packet(T!Fragment(m, i - 1))]
  IN  /\ O!Quiet
      /\ N!NetSend(m.src, packs, Route(m.src))
      /\ T!Cut(m.src, t)
      /\ NoteForwards(m.src)
      /\ UNCHANGED oracle

(* The link layer calls net_recv, which calls transport_recv at the        *)
(* destination, which calls message_receive.                               *)
Deliver(h) ==
  /\ O!Quiet
  /\ N!PassUp(h.to, h)
  /\ T!Collect(h.to, h.pack.id)
  /\ UNCHANGED <<oracle, forwards>>

Forward(h) ==
  /\ O!Quiet
  /\ N!Forward(h.to, h, Route(h.to))
  /\ NoteForwards(h.to)
  /\ UNCHANGED <<oracle, transport>>

LinkLoses(h) ==
  /\ O!Quiet
  /\ N!LinkLoses(h)
  /\ UNCHANGED <<oracle, transport, forwards>>

SendOracleBeacon(n) ==
  /\ O!SendOracleBeacon(n, stack_free[n])
  /\ UNCHANGED <<network, transport, forwards>>

LinkSends(n) ==
  /\ O!LinkSends(n)
  /\ UNCHANGED <<network, transport, forwards>>

FlushFirst(n, garbage) ==                              \* a faulty variant
  /\ O!OracleRecv(n, garbage)
  /\ N!NetSendBuffered(n, Route(n))
  /\ NoteForwards(n)
  /\ UNCHANGED transport

(* oracle_recv: with the new database, the buffer is flushed. *)
OracleRecv(n, garbage) ==
  /\ O!OracleRecv(n, garbage)
  /\ N!NetSendBuffered(n, Route(n)')
  /\ NoteForwards(n)
  /\ UNCHANGED transport

Tick ==
  /\ O!Tick
  /\ UNCHANGED <<network, transport, forwards>>

Next ==
  \/ \E t \in Traffic : AppRdy(t)
  \/ \E h \in link : Deliver(h) \/ Forward(h) \/ LinkLoses(h)
  \/ \E n \in Node : SendOracleBeacon(n) \/ LinkSends(n)
  \/ \E n \in air.to : \E garbage \in O!Garbage(n) : OracleRecv(n, garbage)
  \/ Tick

Spec == Init /\ [][Next]_vars

-----------------------------------------------------------------------------
(* Properties *)

(* "Routing is non-flooding, packets are forwarded only once"              *)
(* (oracle.c:11): no node hands a packet to its link layer twice.  Holds   *)
(* while no node moves, since each next node is closer to the destination  *)
(* (isCloser, oracle.c:278-288); violated when nodes move, because nodes   *)
(* know different positions of the destination.                            *)
ForwardedOnce == \A n \in Node : IsInjective(forwards[n])

(* On the stack of a node that does not move no packet waits for which the *)
(* oracle would name a next node, however the others move: the buffer is   *)
(* flushed with each beacon, and without one the oracle only forgets       *)
(* (net_send_buffered in oracle_recv, oracle.c:361-365).                   *)
NoneWaitsInVain ==
  \A n \in Node : Moves[n] = {} =>
    \A p \in Range(stack[n]) : Route(n)[N!Query(p)] = None

(* The transport layer gets from the network layer what its own module     *)
(* assumes: datagrams that may be lost and reordered, never copied, and    *)
(* only at their destination (net_recv, network.c:304-312).                *)
ImplementsTransport == T!Spec

(* From application to application: over several hops, with beacons that   *)
(* are missed, packets that are lost, evicted and wait, a message is       *)
(* delivered whole, to its destination, with the name of its sender, and   *)
(* at most once (net_recv, network.c:292; transport_recv,                  *)
(* transport.c:291-342).                                                   *)
EndToEnd == T!ImplementsService
=============================================================================
