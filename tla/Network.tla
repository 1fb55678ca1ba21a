------------------------------ MODULE Network -------------------------------
(***************************************************************************)
(* The network layer of every node (src/network.c): packets that cannot be *)
(* forwarded now wait on a stack until a beacon changes the routes.        *)
(*   NetSend - a call from the transport layer                             *)
(*   NetRecv - a call from the link layer                                  *)
(*   NetSendBuffered - a call from the oracle, after each beacon           *)
(* Below it is the link layer, which may lose packets and reorder those of *)
(* different neighbours, but does not copy them (LinkChannel).             *)
(***************************************************************************)
EXTENDS Integers, Sequences, SequencesExt, FiniteSets

CONSTANTS
  Node,               \* the nodes
  None,               \* the oracle knows no good node
  Traffic,            \* the triples <<source, destination, length>> sent
  Data,               \* what packets carry, by which they are told apart
  StackElBytes,       \* sizeof(struct STACK_EL)
  PACKET_HEADER_SIZE, \* bytes of a packet beside its message
  NETWORK_BUFF_SIZE   \* initial value of free_bytes

Mem(p) == StackElBytes + PACKET_HEADER_SIZE + p.len

(* Any two packets fit into the buffer together: a packet is smaller than  *)
(* WLAN_MAXDATA, and the buffer has 1000000 bytes.                         *)
ASSUME NetworkAssumption ==
  /\ None \notin Node
  /\ Traffic \subseteq {t \in Node \X Node \X Nat : t[1] # t[2]}
  /\ StackElBytes \in Nat \ {0}
  /\ PACKET_HEADER_SIZE \in Nat
  /\ NETWORK_BUFF_SIZE \in Nat
  /\ \A t, u \in Traffic :
       2 * (StackElBytes + PACKET_HEADER_SIZE) + t[3] + u[3]
         <= NETWORK_BUFF_SIZE

VARIABLES
  buff,        \* [n] the stack of waiting packets, bottom first
  free_bytes,  \* [n] what is left of the buffer
  link,        \* packets handed to the link layer, with the next node
  sent,        \* history: the packets that net_send built
  evicted,     \* history: the packets that push deleted
  lost,        \* history: the packets that the link layer lost
  delivered    \* history: [n] what n's transport layer got, in order

vars == <<buff, free_bytes, link, sent, evicted, lost, delivered>>

(* What a packet asks of get_nth_best_node: its destination and length. *)
Query(p) == <<p.dest, p.len>>

(* The answers of get_nth_best_node during one handler, by query.  They    *)
(* depend on what the oracle knows, which is left open here, and never     *)
(* name the node itself.                                                   *)
Routes(n) == [{<<t[2], t[3]>> : t \in Traffic} -> (Node \ {n}) \cup {None}]

Init ==
  /\ buff = [n \in Node |-> <<>>]
  /\ free_bytes = [n \in Node |-> NETWORK_BUFF_SIZE]
  /\ link = {}
  /\ sent = {}
  /\ evicted = {}
  /\ lost = {}
  /\ delivered = [n \in Node |-> <<>>]

-----------------------------------------------------------------------------
(* The stack.  A handler works on a record of a stack, the free bytes, and *)
(* the packets it has evicted and passed to the link layer so far.         *)

Load(n, s) == [stack |-> s, free |-> free_bytes[n], gone |-> {}, out |-> {}]

Released(s, k) == FoldLeft(LAMBDA sum, p : sum + Mem(p), 0, SubSeq(s, 1, k))

ShedToo(w, p) ==                                       \* a faulty variant
  CHOOSE k \in 0 .. Len(w.stack) :
    /\ w.free + Released(w.stack, k) > Mem(p)
    /\ \A j \in 0 .. k - 1 : w.free + Released(w.stack, j) <= Mem(p)

(* The packets that push deletes at the bottom: as few as it takes. *)
Shed(w, p) ==
  CHOOSE k \in 0 .. Len(w.stack) :
    /\ w.free + Released(w.stack, k) >= Mem(p)
    /\ \A j \in 0 .. k - 1 : w.free + Released(w.stack, j) < Mem(p)

Push(w, p) ==
  LET k == Shed(w, p) IN
  [w EXCEPT !.stack = Append(SubSeq(@, k + 1, Len(@)), p),
            !.free = @ + Released(w.stack, k) - Mem(p),
            !.gone = @ \cup {w.stack[i] : i \in 1 .. k}]

PopKeeps(w, p) == [w EXCEPT !.free = @ + p.len]        \* a faulty variant

(* The bytes that pop gives back for p. *)
Pop(w, p) == [w EXCEPT !.free = @ + Mem(p)]

TryToSendBoth(w, p, best) ==                           \* a faulty variant
  LET kept == Push(w, p) IN
  IF best[Query(p)] # None
  THEN [kept EXCEPT !.out = @ \cup {[to |-> best[Query(p)], pack |-> p]}]
  ELSE kept

(* No packet of the transport layer is larger than MAX_PACKET_SIZE, so the *)
(* test of network.c:206 is left out.                                      *)
TryToSend(w, p, best) ==
  IF best[Query(p)] # None
  THEN [w EXCEPT !.out = @ \cup {[to |-> best[Query(p)], pack |-> p]}]
  ELSE Push(w, p)

Store(n, w) ==
  /\ buff' = [buff EXCEPT ![n] = w.stack]
  /\ free_bytes' = [free_bytes EXCEPT ![n] = w.free]
  /\ evicted' = evicted \cup w.gone

-----------------------------------------------------------------------------
(* The handlers *)

(* Calls of net_send for the packets of a sequence, one after the other. *)
NetSend(n, packs, best) ==
  LET w == FoldLeft(LAMBDA v, p : TryToSend(v, p, best),
                    Load(n, buff[n]), packs)
  IN  /\ sent' = sent \cup Range(packs)
      /\ link' = link \cup w.out
      /\ Store(n, w)
      /\ UNCHANGED <<lost, delivered>>

PassUp(n, h) ==
  /\ h.pack.dest = n
  /\ delivered' = [delivered EXCEPT ![n] =
                     Append(@, [from |-> h.pack.source,
                                data |-> h.pack.id])]
  /\ link' = link \ {h}
  /\ UNCHANGED <<buff, free_bytes, sent, evicted, lost>>

Forward(n, h, best) ==
  LET w == TryToSend(Load(n, buff[n]), h.pack, best) IN
  /\ h.pack.dest # n
  /\ link' = (link \ {h}) \cup w.out
  /\ Store(n, w)
  /\ UNCHANGED <<sent, lost, delivered>>

NetRecv(n, h, best) ==
  /\ h.to = n
  /\ PassUp(n, h) \/ Forward(n, h, best)

PutBackAsPopped(w) ==                                  \* a faulty variant
  FoldLeft(LAMBDA v, p : Push(Pop(v, p), p),
           [w EXCEPT !.stack = <<>>], w.stack)

(* The second loop of net_send_buffered: from temp_stack back to buff. *)
PutBack(w) ==
  FoldLeft(LAMBDA v, p : Push(Pop(v, p), p),
           [w EXCEPT !.stack = <<>>], Reverse(w.stack))

(* Its first loop: from buff to the link layer or temp_stack. *)
TryAll(n, best) ==
  FoldLeft(LAMBDA v, p : TryToSend(Pop(v, p), p, best),
           Load(n, <<>>), Reverse(buff[n]))

NetSendBuffered(n, best) ==
  LET w == PutBack(TryAll(n, best)) IN
  /\ link' = link \cup w.out
  /\ Store(n, w)
  /\ UNCHANGED <<sent, lost, delivered>>

LinkLoses(h) ==
  /\ link' = link \ {h}
  /\ lost' = lost \cup {h.pack}
  /\ UNCHANGED <<buff, free_bytes, sent, evicted, delivered>>

(* A packet for what the transport layer hands over. *)
NewPacket(t, d) == [source |-> t[1], dest |-> t[2], len |-> t[3], id |-> d]
Unsent == Data \ {p.id : p \in sent}

Next ==
  \/ \E t \in Traffic, d \in Unsent : \E best \in Routes(t[1]) :
       NetSend(t[1], <<NewPacket(t, d)>>, best)
  \/ \E n \in Node : \E best \in Routes(n) : NetSendBuffered(n, best)
  \/ \E h \in link : \E best \in Routes(h.to) : NetRecv(h.to, h, best)
  \/ \E h \in link : LinkLoses(h)

Spec == Init /\ [][Next]_vars

-----------------------------------------------------------------------------
(* Properties *)

Buffered == UNION {Range(buff[n]) : n \in Node}
OnLink   == {h.pack : h \in link}
Arrived  == {p \in sent : [from |-> p.source, data |-> p.id]
                            \in Range(delivered[p.dest])}

(* Types, and the accounting of the buffer (free_bytes, network.c:56):     *)
(* what is free and what the waiting packets take add up to its size.      *)
TypeOK ==
  /\ link \subseteq [to : Node, pack : sent]
  /\ Buffered \cup evicted \cup lost \subseteq sent
  /\ \A n \in Node :
       /\ free_bytes[n] \in 0 .. NETWORK_BUFF_SIZE
       /\ free_bytes[n] + Released(buff[n], Len(buff[n]))
            = NETWORK_BUFF_SIZE

(* A packet has one copy: it waits on one stack, is with one link layer,   *)
(* was delivered, or was evicted or lost (network.c:195-321).              *)
OneCopy ==
  /\ sent = Buffered \cup OnLink \cup Arrived \cup evicted \cup lost
  /\ \A p \in sent :
       Cardinality({h \in link : h.pack = p}) +
       Cardinality({x \in UNION {{n} \X DOMAIN buff[n] : n \in Node} :
                      buff[x[1]][x[2]] = p}) +
       Cardinality({s \in {Arrived, evicted, lost} : p \in s}) <= 1

(* Over many hops each packet gets to the transport layer of its           *)
(* destination at most once, with the name of its source (net_recv,        *)
(* network.c:292-321).                                                     *)
Service ==
  INSTANCE DatagramService WITH
    Message <- {[src |-> t[1], dest |-> t[2], data |-> d] :
                  t \in Traffic, d \in Data},
    sent <- {[src |-> p.source, dest |-> p.dest, data |-> p.id] :
               p \in sent}
ImplementsService == Service!Spec

(* The pairs of elements of s, the lower one first. *)
Order(s) ==
  {x \in Range(s) \X Range(s) :
     \E i, j \in DOMAIN s : i < j /\ s[i] = x[1] /\ s[j] = x[2]}

(* net_send_buffered (network.c:224-249) pops every packet to a second     *)
(* stack and back: those it does not forward stay, in their order, and     *)
(* none is evicted on the way.                                             *)
FlushKeepsTheRest ==
  [][\A n \in Node :
       (sent' = sent /\ buff'[n] # buff[n] /\ link \subseteq link') =>
         /\ Range(buff'[n]) = Range(buff[n]) \ OnLink'
         /\ Order(buff'[n]) \subseteq Order(buff[n])
         /\ evicted' = evicted]_vars

(* push empties no stack that had packets on it: dequeue                   *)
(* (network.c:105-125) then leaves top pointing to the freed element, and  *)
(* pop would follow it.                                                    *)
EvictionLeavesOne ==
  [][\A n \in Node : evicted' # evicted =>
       \/ buff'[n] = buff[n]
       \/ \E p \in Range(buff[n]) : p \in Range(buff'[n])]_vars
=============================================================================
