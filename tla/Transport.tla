----------------------------- MODULE Transport ------------------------------
(***************************************************************************)
(* The transport layer of every node (src/transport.c) over the network    *)
(* layer, which may lose, damage and reorder datagrams but not copy them.  *)
(*   TransportDatagram - a call from the application layer: cut a message  *)
(*                       into fragments and hand them to the network layer *)
(*   TransportRecv     - a call from the network layer: collect fragments  *)
(*                       in buff until their message is complete           *)
(* A byte of a message is the pair of the message's name and its position. *)
(***************************************************************************)
EXTENDS Integers, Sequences, SequencesExt, FiniteSets

CONSTANTS
  Node,                  \* the node numbers
  Traffic,               \* the triples <<source, destination, length>> sent
  MAX_FRAGMENT_SIZE,     \* bytes of a message that fit into a datagram
  TRANSPORT_BUFF_SIZE,   \* initial value of free_bytes
  QueueBytes,            \* sizeof(TRANSQUEUE)
  ElementBytes,          \* sizeof(struct QUEUE_EL)
  DatagramBytes,         \* sizeof(DATAGRAM)
  MaxMessages            \* bound: messages sent by a node

FragCount(len) ==
  LET extra == IF len % MAX_FRAGMENT_SIZE = 0 THEN 0 ELSE 1
  IN  len \div MAX_FRAGMENT_SIZE + extra

(* What an element with room for count fragments takes of the buffer. *)
Bytes(count) == ElementBytes + count * DatagramBytes

(* No message takes more than half of the buffer: otherwise the loop that  *)
(* evicts elements would not end.  The topologies send at most 10000 bytes *)
(* and the buffer has 1000000, the few bytes of TRANSQUEUE included.       *)
ASSUME TransportAssumption ==
  /\ Node \subseteq Nat
  /\ Traffic \subseteq Node \X Node \X (Nat \ {0})
  /\ MAX_FRAGMENT_SIZE \in Nat \ {0}
  /\ {TRANSPORT_BUFF_SIZE, QueueBytes, ElementBytes, DatagramBytes}
       \subseteq Nat
  /\ QueueBytes <= TRANSPORT_BUFF_SIZE
  /\ MaxMessages \in Nat
  /\ \A t \in Traffic :
       2 * Bytes(FragCount(t[3])) <= TRANSPORT_BUFF_SIZE - QueueBytes

(* The numbers of messages have up to five digits: beyond, make_key gives  *)
(* messages of different nodes the same key.                               *)
ASSUME KeyAssumption == MaxMessages < 100000

VARIABLES
  msg_num_counter,  \* [n] messages sent by n
  free_bytes,       \* [n] what is left of the buffer
  buff,             \* [n] the queue of incomplete messages, bottom first
  network,          \* datagrams on their way, with their destination
  sent,             \* history: the messages sent
  arrived,          \* history: the datagrams that arrived undamaged
  evicted,          \* history: names of the messages that lost an element
  delivered         \* history: [n] what n's application got, in order

history == <<sent, arrived, evicted>>
vars == <<msg_num_counter, free_bytes, buff, network, history, delivered>>

-----------------------------------------------------------------------------
(* Messages and datagrams *)

Name(m) == <<m.src, m.num>>     \* m is a message or a datagram
Content(m) == [i \in 1 .. m.len |-> <<Name(m), i>>]

(* Fragment i of message m, i counted from 0.  The last one has the rest. *)
Fragment(m, i) ==
  [src   |-> m.src,
   num   |-> m.num,
   frag  |-> i,
   count |-> FragCount(m.len),
   data  |-> SubSeq(Content(m), i * MAX_FRAGMENT_SIZE + 1,
                    IF i = FragCount(m.len) - 1
                    THEN m.len ELSE (i + 1) * MAX_FRAGMENT_SIZE)]

Fragments(m) == {Fragment(m, i) : i \in 0 .. FragCount(m.len) - 1}

(* The decimal digits of src * 10000 followed by those of num < 100000. *)
MakeKey(src, num) ==
  LET shift == CHOOSE p \in {10, 100, 1000, 10000, 100000} :
                 num < p /\ p <= 10 * num
  IN  src * 10000 * shift + num

Init ==
  /\ msg_num_counter = [n \in Node |-> 0]
  /\ free_bytes = [n \in Node |-> TRANSPORT_BUFF_SIZE - QueueBytes]
  /\ buff = [n \in Node |-> <<>>]
  /\ network = {}
  /\ sent = {}
  /\ arrived = {}
  /\ evicted = {}
  /\ delivered = [n \in Node |-> <<>>]

-----------------------------------------------------------------------------
(* Sending *)

(* The next message that the application hands over for t. *)
NewMessage(t) == [src |-> t[1], num |-> msg_num_counter[t[1]] + 1,
                  dest |-> t[2], len |-> t[3]]

(* What the transport layer does itself, and with the network layer below. *)
Cut(n, t) ==
  /\ t[1] = n
  /\ msg_num_counter[n] < MaxMessages
  /\ msg_num_counter' = [msg_num_counter EXCEPT ![n] = @ + 1]
  /\ sent' = sent \cup {NewMessage(t)}
  /\ UNCHANGED <<free_bytes, buff, arrived, evicted, delivered>>

TransportDatagram(n, t) ==
  LET m == NewMessage(t) IN
  /\ Cut(n, t)
  /\ network' = network \cup
                  {[to |-> m.dest, dat |-> d] : d \in Fragments(m)}

(* A datagram is lost below, or transport_recv finds its checksum wrong. *)
Lose(p) ==
  /\ network' = network \ {p}
  /\ UNCHANGED <<msg_num_counter, free_bytes, buff, history, delivered>>

-----------------------------------------------------------------------------
(* Reassembly *)

CandidatesTooFew(q, key) ==                            \* a faulty variant
  {i \in 3 .. Len(q) : q[i].key = key}

(* The elements that queue_get looks at: it starts above the bottom. *)
Candidates(q, key) == {i \in 2 .. Len(q) : q[i].key = key}
QueueGet(q, key) == CHOOSE i \in Candidates(q, key) :
                      \A j \in Candidates(q, key) : i <= j

ReleasedElements(q, k) == k * ElementBytes             \* a faulty variant

(* What dequeue gives back for the k elements at the bottom of q. *)
Released(q, k) ==
  FoldLeft(LAMBDA sum, el : sum + Bytes(el.frags[1].count), 0,
           SubSeq(q, 1, k))

(* enqueue takes the bytes first and then evicts the k oldest elements     *)
(* until as many bytes again are free.                                     *)
Enough(n, k, bytes) ==
  free_bytes[n] - bytes + Released(buff[n], k) >= bytes
Evictions(n, bytes) ==
  {k \in 0 .. Len(buff[n]) :
     /\ Enough(n, k, bytes)
     /\ \A j \in 0 .. k - 1 : ~Enough(n, j, bytes)}

NewElement(n, d) ==
  /\ Candidates(buff[n], MakeKey(d.src, d.num)) = {}
  /\ \E k \in Evictions(n, Bytes(d.count)) :
       /\ free_bytes' = [free_bytes EXCEPT
                           ![n] = @ - Bytes(d.count) + Released(buff[n], k)]
       /\ buff' = [buff EXCEPT ![n] =
                     Append(SubSeq(@, k + 1, Len(@)),
                            [key |-> MakeKey(d.src, d.num),
                             needed |-> d.count, frags |-> <<d>>])]
       /\ evicted' = evicted \cup
                       {Name(buff[n][i].frags[1]) : i \in 1 .. k}
  /\ UNCHANGED delivered

StoreComplete(n, d, i) ==                              \* a faulty variant
  /\ buff' = [buff EXCEPT ![n][i].frags = Append(@, d)]
  /\ UNCHANGED <<free_bytes, evicted, delivered>>

StoreAt(n, d, i) ==
  /\ Len(buff[n][i].frags) + 1 < buff[n][i].needed
  /\ buff' = [buff EXCEPT ![n][i].frags = Append(@, d)]
  /\ UNCHANGED <<free_bytes, evicted, delivered>>

Unsorted(frags) == frags                               \* a faulty variant

(* What qsort makes of fragments that are all different. *)
Sorted(frags) ==
  CHOOSE s \in [DOMAIN frags -> Range(frags)] :
    /\ Range(s) = Range(frags)
    /\ \A i, j \in DOMAIN s : i < j => s[i].frag < s[j].frag

(* Fragment i goes to offset i * MAX_FRAGMENT_SIZE of the built message. *)
Built(frags) ==
  LET size == FoldLeft(LAMBDA sum, d : sum + Len(d.data), 0, frags)
      part(p) == frags[((p - 1) \div MAX_FRAGMENT_SIZE) + 1].data
      offset(p) == ((p - 1) % MAX_FRAGMENT_SIZE) + 1
  IN  [p \in 1 .. size |->
         IF offset(p) \in DOMAIN part(p) THEN part(p)[offset(p)]
                                         ELSE <<>>]     \* never written

CompleteAt(n, d, i) ==
  LET el == buff[n][i]
      msg == Built(Sorted(Append(el.frags, d)))
  IN  /\ Len(el.frags) + 1 = el.needed
      /\ buff' = [buff EXCEPT ![n] = RemoveAt(@, i)]
      /\ free_bytes' = [free_bytes EXCEPT ![n] = @ + Bytes(el.needed)]
      /\ delivered' = [delivered EXCEPT
                         ![n] = Append(@, [from |-> d.src, data |-> msg])]
      /\ UNCHANGED evicted

(* A message of one fragment is not buffered. *)
PassUp(n, d) ==
  /\ delivered' = [delivered EXCEPT
                     ![n] = Append(@, [from |-> d.src, data |-> d.data])]
  /\ UNCHANGED <<free_bytes, buff, evicted>>

Collect(n, d) ==
  LET c == Candidates(buff[n], MakeKey(d.src, d.num))
      i == QueueGet(buff[n], MakeKey(d.src, d.num))
  IN  /\ arrived' = arrived \cup {d}
      /\ \/ d.count = 1 /\ PassUp(n, d)
         \/ d.count # 1 /\ NewElement(n, d)
         \/ d.count # 1 /\ c # {} /\ StoreAt(n, d, i)
         \/ d.count # 1 /\ c # {} /\ CompleteAt(n, d, i)
      /\ UNCHANGED <<msg_num_counter, sent>>

TransportRecv(n, p) ==
  /\ p.to = n
  /\ network' = network \ {p}
  /\ Collect(n, p.dat)

Next ==
  \/ \E t \in Traffic : TransportDatagram(t[1], t)
  \/ \E p \in network : Lose(p) \/ TransportRecv(p.to, p)

Spec == Init /\ [][Next]_vars

-----------------------------------------------------------------------------
(* Properties *)

IsMessage(m) ==
  /\ <<m.src, m.dest, m.len>> \in Traffic
  /\ m.num \in 1 .. msg_num_counter[m.src]
Datagram == UNION {Fragments(m) : m \in sent}
IsElement(el) ==
  /\ Len(el.frags) \in 1 .. el.needed - 1
  /\ \A k \in DOMAIN el.frags :
       /\ el.frags[k] \in arrived
       /\ el.frags[k].count = el.needed
       /\ MakeKey(el.frags[k].src, el.frags[k].num) = el.key

(* Types, and the accounting of the buffer (free_bytes, transport.c:67):   *)
(* what is free and what the elements of buff take add up to its size, and *)
(* elements hold at least one fragment and miss at least one.              *)
TypeOK ==
  /\ msg_num_counter \in [Node -> 0 .. MaxMessages]
  /\ \A m \in sent : IsMessage(m)
  /\ \A p \in network : p.to \in Node
  /\ {p.dat : p \in network} \cup arrived \subseteq Datagram
  /\ \A n \in Node :
       /\ \A i \in DOMAIN buff[n] : IsElement(buff[n][i])
       /\ free_bytes[n] + Released(buff[n], Len(buff[n]))
            = TRANSPORT_BUFF_SIZE - QueueBytes
       /\ free_bytes[n] >= 0

(* The messages as the applications see them. *)
ServiceMessage ==
  {[src |-> t[1], dest |-> t[2],
    data |-> Content([src |-> t[1], num |-> k, len |-> t[3]])] :
     t \in Traffic, k \in 1 .. MaxMessages}

(* Each message is delivered whole, to its destination, with the name of   *)
(* its sender, and at most once, however its fragments are reordered, lost *)
(* and evicted (transport_recv, transport.c:291-342).                      *)
Service ==
  INSTANCE DatagramService WITH
    Message <- ServiceMessage,
    sent <- {[src |-> m.src, dest |-> m.dest, data |-> Content(m)] :
               m \in sent}
ImplementsService == Service!Spec

AllArrived(m) == Fragments(m) \subseteq arrived
IsDelivered(m) ==
  \E k \in DOMAIN delivered[m.dest] :
    delivered[m.dest][k] = [from |-> m.src, data |-> Content(m)]
AtBottom(m) ==
  /\ buff[m.dest] # <<>>
  /\ Name(Head(buff[m.dest]).frags[1]) = Name(m)

(* A message all of whose fragments arrived is delivered, unless one of    *)
(* its elements was evicted or it has the element at the bottom of buff,   *)
(* which queue_get (transport.c:103) never finds.                          *)
OnlyBottomStuck ==
  \A m \in sent :
    AllArrived(m) => \/ IsDelivered(m)
                     \/ Name(m) \in evicted
                     \/ AtBottom(m)

(* The eviction loop of enqueue (transport.c:189-192) ends: whatever       *)
(* datagram arrives, emptying the queue gives enough room.                 *)
EvictionEnds ==
  \A p \in network : Evictions(p.to, Bytes(p.dat.count)) # {}

(* "Buffer datagrams until all fragments have arrived, then rebuild the    *)
(* message and pass it to the application layer" (transport.c:284-285).    *)
(* Violated: the message whose element is at the bottom never completes.   *)
CompleteIsDelivered ==
  \A m \in sent :
    AllArrived(m) => IsDelivered(m) \/ Name(m) \in evicted
=============================================================================
