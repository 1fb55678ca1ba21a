----------------------------- MODULE DtnProofs ------------------------------
(***************************************************************************)
(* Theorems about the stack, for any nodes, movements, messages, losses    *)
(* and sizes that DtnAssumption allows: it implements Transport, and with  *)
(* it the service between applications; no packet waits in vain; and while *)
(* no node moves, no packet is forwarded twice by a node.                  *)
(***************************************************************************)
EXTENDS Dtn, SequenceTheorems, FiniteSetTheorems, TLAPS

(* The theorems about the parts, for the constants and variables here. *)
NP == INSTANCE NetworkProofs WITH
       buff <- stack, free_bytes <- stack_free, sent <- packets,
       evicted <- dropped, delivered <- handed,
       Traffic <- {<<t[1], t[2], q[2]>> : t \in Traffic, q \in Queries},
       Data <- Datagrams

TP == INSTANCE TransportProofs WITH
       buff <- queue, free_bytes <- queue_free, sent <- messages,
       network <- OnTheWay

OP == INSTANCE OracleProofs WITH
       Announced <- [n \in Node |->
                       [t \in 1 .. MaxTime |-> 0 .. NETWORK_BUFF_SIZE]]

-----------------------------------------------------------------------------
(* NP has the operators of Network once more, TP those of Transport and OP *)
(* those of Oracle: they are the same as those of N, T and O.              *)

LEMMA ReleasedSame ==
  ASSUME NEW s, NEW k
  PROVE  N!Released(s, k) = NP!Released(s, k)
BY DEF N!Released, NP!Released, N!Mem, NP!Mem,
       N!FoldLeft, N!MapThenFoldSet, N!Max,
       NP!FoldLeft, NP!MapThenFoldSet, NP!Max

LEMMA ShedSame ==
  ASSUME NEW w, NEW p
  PROVE  N!Shed(w, p) = NP!Shed(w, p)
BY DEF N!Shed, NP!Shed, N!Released, NP!Released, N!Mem, NP!Mem,
       N!FoldLeft, N!MapThenFoldSet, N!Max,
       NP!FoldLeft, NP!MapThenFoldSet, NP!Max

LEMMA PushSame ==
  ASSUME NEW w, NEW p
  PROVE  N!Push(w, p) = NP!Push(w, p)
BY ReleasedSame, ShedSame DEF N!Push, NP!Push, N!Mem, NP!Mem

LEMMA TrySame ==
  ASSUME NEW w, NEW p, NEW best
  PROVE  N!TryToSend(w, p, best) = NP!TryToSend(w, p, best)
BY PushSame DEF N!TryToSend, NP!TryToSend, N!Query, NP!Query

LEMMA PopSame ==
  ASSUME NEW w, NEW p
  PROVE  N!Pop(w, p) = NP!Pop(w, p)
BY DEF N!Pop, NP!Pop, N!Mem, NP!Mem

LEMMA TryAllSame ==
  ASSUME NEW n, NEW best
  PROVE  N!TryAll(n, best) = NP!TryAll(n, best)
BY TrySame, PopSame
   DEF N!TryAll, NP!TryAll, N!Load, NP!Load, N!Reverse, NP!Reverse,
       N!FoldLeft, N!MapThenFoldSet, N!Max,
       NP!FoldLeft, NP!MapThenFoldSet, NP!Max

LEMMA PutBackSame ==
  ASSUME NEW w
  PROVE  N!PutBack(w) = NP!PutBack(w)
BY PushSame, PopSame
   DEF N!PutBack, NP!PutBack, N!Reverse, NP!Reverse,
       N!FoldLeft, N!MapThenFoldSet, N!Max,
       NP!FoldLeft, NP!MapThenFoldSet, NP!Max

LEMMA FlushSame ==
  ASSUME NEW n, NEW best, N!NetSendBuffered(n, best)
  PROVE  NP!NetSendBuffered(n, best)
BY TryAllSame, PutBackSame
   DEF N!NetSendBuffered, NP!NetSendBuffered, N!Store, NP!Store

LEMMA ForwardSame ==
  ASSUME NEW n, NEW h, NEW best, N!Forward(n, h, best)
  PROVE  NP!Forward(n, h, best)
BY TrySame DEF N!Forward, NP!Forward, N!Store, NP!Store, N!Load, NP!Load

SendsN(w, s, best) == N!FoldLeft(LAMBDA v, p : N!TryToSend(v, p, best), w, s)
SendsNP(w, s, best) ==
  NP!FoldLeft(LAMBDA v, p : NP!TryToSend(v, p, best), w, s)

LEMMA SendsSame ==
  ASSUME NEW w, NEW s, NEW best
  PROVE  SendsN(w, s, best) = SendsNP(w, s, best)
BY TrySame DEF SendsN, SendsNP, N!FoldLeft, N!MapThenFoldSet, N!Max,
       NP!FoldLeft, NP!MapThenFoldSet, NP!Max

LEMMA SendSame ==
  ASSUME NEW n, NEW s, NEW best, N!NetSend(n, s, best)
  PROVE  NP!NetSend(n, s, best)
<1>1. SendsN(N!Load(n, stack[n]), s, best)
        = SendsNP(N!Load(n, stack[n]), s, best)
  BY SendsSame
<1>2. N!Load(n, stack[n]) = NP!Load(n, stack[n])
  BY DEF N!Load, NP!Load
<1> QED
  BY <1>1, <1>2 DEF N!NetSend, NP!NetSend, N!Store, NP!Store, N!Range,
                    NP!Range, SendsN, SendsNP

LEMMA InitSame == N!Init => NP!Init
BY DEF N!Init, NP!Init

-----------------------------------------------------------------------------
LEMMA FragmentSame ==
  ASSUME NEW m, NEW i
  PROVE  /\ T!FragCount(m.len) = TP!FragCount(m.len)
         /\ T!Fragment(m, i) = TP!Fragment(m, i)
         /\ T!Fragments(m) = TP!Fragments(m)
BY DEF T!FragCount, TP!FragCount, T!Fragment, TP!Fragment, T!Fragments,
       TP!Fragments, T!Content, TP!Content, T!Name, TP!Name

LEMMA NewMessageSame ==
  ASSUME NEW t
  PROVE  T!NewMessage(t) = TP!NewMessage(t)
BY DEF T!NewMessage, TP!NewMessage

LEMMA CutSame ==
  ASSUME NEW n, NEW t, T!Cut(n, t)
  PROVE  TP!Cut(n, t)
BY NewMessageSame DEF T!Cut, TP!Cut

LEMMA ElementsSame ==
  ASSUME NEW q, NEW k
  PROVE  T!Released(q, k) = TP!Released(q, k)
BY DEF T!Released, TP!Released, T!Bytes, TP!Bytes,
       T!FoldLeft, T!MapThenFoldSet, T!Max,
       TP!FoldLeft, TP!MapThenFoldSet, TP!Max

LEMMA KeySame ==
  ASSUME NEW src, NEW num
  PROVE  T!MakeKey(src, num) = TP!MakeKey(src, num)
BY DEF T!MakeKey, TP!MakeKey

LEMMA CandidatesSame ==
  ASSUME NEW q, NEW key
  PROVE  /\ T!Candidates(q, key) = TP!Candidates(q, key)
         /\ T!QueueGet(q, key) = TP!QueueGet(q, key)
BY DEF T!Candidates, TP!Candidates, T!QueueGet, TP!QueueGet

LEMMA SortedSame ==
  ASSUME NEW s
  PROVE  T!Sorted(s) = TP!Sorted(s)
BY DEF T!Sorted, TP!Sorted, T!Range, TP!Range

LEMMA BuiltSame ==
  ASSUME NEW s
  PROVE  T!Built(s) = TP!Built(s)
BY DEF T!Built, TP!Built,
       T!FoldLeft, T!MapThenFoldSet, T!Max,
       TP!FoldLeft, TP!MapThenFoldSet, TP!Max

LEMMA PassUpSame ==
  ASSUME NEW n, NEW d, T!PassUp(n, d)
  PROVE  TP!PassUp(n, d)
BY DEF T!PassUp, TP!PassUp

LEMMA NewElementSame ==
  ASSUME NEW n, NEW d, T!NewElement(n, d)
  PROVE  TP!NewElement(n, d)
<1>1. ASSUME NEW bytes
      PROVE  T!Evictions(n, bytes) = TP!Evictions(n, bytes)
  BY ElementsSame DEF T!Evictions, TP!Evictions, T!Enough, TP!Enough
<1> QED
  BY <1>1, ElementsSame, KeySame, CandidatesSame
     DEF T!NewElement, TP!NewElement, T!Bytes, TP!Bytes, T!Name, TP!Name

LEMMA StoreSame ==
  ASSUME NEW n, NEW d, NEW i, T!StoreAt(n, d, i)
  PROVE  TP!StoreAt(n, d, i)
BY DEF T!StoreAt, TP!StoreAt, T!history, TP!history

LEMMA CompleteSame ==
  ASSUME NEW n, NEW d, NEW i, T!CompleteAt(n, d, i)
  PROVE  TP!CompleteAt(n, d, i)
BY BuiltSame, SortedSame
   DEF T!CompleteAt, TP!CompleteAt, T!Bytes, TP!Bytes,
       T!RemoveAt, TP!RemoveAt

LEMMA CollectSame ==
  ASSUME NEW n, NEW d, T!Collect(n, d)
  PROVE  TP!Collect(n, d)
BY KeySame, CandidatesSame, PassUpSame, NewElementSame, StoreSame,
   CompleteSame DEF T!Collect, TP!Collect

LEMMA TransportInitSame == T!Init => TP!Init
BY DEF T!Init, TP!Init

-----------------------------------------------------------------------------
LEMMA PosSame ==
  ASSUME NEW n
  PROVE  O!Pos(n) = OP!Pos(n)
BY DEF O!Pos, OP!Pos

LEMMA PrunedSame ==
  ASSUME NEW db
  PROVE  O!Pruned(db) = OP!Pruned(db)
BY DEF O!Pruned, OP!Pruned, O!StaysLonger, OP!StaysLonger,
       O!Restrict, OP!Restrict, O!Cardinality, OP!Cardinality

LEMMA SaveSame ==
  ASSUME NEW db, NEW m, NEW nl, NEW garbage
  PROVE  O!SavePosition(db, m, nl, garbage)
           = OP!SavePosition(db, m, nl, garbage)
BY DEF O!SavePosition, OP!SavePosition, O!Appended, OP!Appended,
       O!IsNewer, OP!IsNewer, O!Updated, OP!Updated

LEMMA BeaconSame ==
  ASSUME NEW n, NEW free, O!SendOracleBeacon(n, free)
  PROVE  OP!SendOracleBeacon(n, free)
BY PosSame, PrunedSame
   DEF O!SendOracleBeacon, OP!SendOracleBeacon, O!OraclePacket,
       OP!OraclePacket, O!Due, OP!Due, O!Min, OP!Min

LEMMA LinkSendsSame ==
  ASSUME NEW n, O!LinkSends(n)
  PROVE  OP!LinkSends(n)
BY PosSame
   DEF O!LinkSends, OP!LinkSends, O!Quiet, OP!Quiet, O!Due, OP!Due,
       O!InReach, OP!InReach, O!Square, OP!Square

LEMMA ProcessSame ==
  ASSUME NEW n, NEW p, NEW garbage, O!ProcessBeacon(n, p, garbage)
  PROVE  OP!ProcessBeacon(n, p, garbage)
BY SaveSame DEF O!ProcessBeacon, OP!ProcessBeacon, O!Saved, OP!Saved

LEMMA RecvSame ==
  ASSUME NEW n, NEW garbage, O!OracleRecv(n, garbage)
  PROVE  OP!OracleRecv(n, garbage)
BY ProcessSame DEF O!OracleRecv, OP!OracleRecv, O!Min, OP!Min

LEMMA TickSame == O!Tick => OP!Tick
BY PosSame
   DEF O!Tick, OP!Tick, O!Quiet, OP!Quiet, O!Due, OP!Due,
       O!Range, OP!Range

LEMMA OracleInitSame == O!Init => OP!Init
BY DEF O!Init, OP!Init, O!Empty, OP!Empty

-----------------------------------------------------------------------------
(* What the modules assume follows from what Dtn assumes. *)

Journeys == {<<t[1], t[2], q[2]>> : t \in Traffic, q \in Queries}

LEMMA Queried ==
  ASSUME NEW q \in Queries
  PROVE  \E t \in Traffic, k \in 1 .. MAX_FRAGMENT_SIZE :
           q = <<t[2], DATAGRAM_HEADER_SIZE + k>>
BY DEF Queries

LEMMA Journey ==
  ASSUME NEW t \in Journeys
  PROVE  /\ t \in Node \X Node \X Nat /\ t[1] # t[2]
         /\ t[3] <= DATAGRAM_HEADER_SIZE + MAX_FRAGMENT_SIZE
<1>1. PICK u \in Traffic, q \in Queries : t = <<u[1], u[2], q[2]>>
  BY DEF Journeys
<1>2. PICK v \in Traffic, k \in 1 .. MAX_FRAGMENT_SIZE :
        q = <<v[2], DATAGRAM_HEADER_SIZE + k>>
  BY Queried
<1>3. u \in Node \X Node \X (Nat \ {0}) /\ u[1] # u[2]
  BY DtnAssumption
<1>4. /\ DATAGRAM_HEADER_SIZE \in Nat /\ MAX_FRAGMENT_SIZE \in Nat
      /\ k \in Nat /\ k <= MAX_FRAGMENT_SIZE
  BY <1>2, DtnAssumption
<1>5. q[2] \in Nat /\ q[2] <= DATAGRAM_HEADER_SIZE + MAX_FRAGMENT_SIZE
  BY <1>2, <1>4
<1>6. t[1] = u[1] /\ t[2] = u[2] /\ t[3] = q[2]
  BY <1>1
<1>7. u[1] \in Node /\ u[2] \in Node
  BY <1>3
<1> QED
  BY <1>1, <1>3, <1>5, <1>6, <1>7

LEMMA NetworkConstants ==
  /\ None \notin Node
  /\ {<<t[1], t[2], q[2]>> : t \in Traffic, q \in Queries}
       \subseteq {t \in Node \X Node \X Nat : t[1] # t[2]}
  /\ StackElBytes \in Nat \ {0}
  /\ PACKET_HEADER_SIZE \in Nat
  /\ NETWORK_BUFF_SIZE \in Nat
  /\ \A t, u \in {<<t[1], t[2], q[2]>> : t \in Traffic, q \in Queries} :
       2 * (StackElBytes + PACKET_HEADER_SIZE) + t[3] + u[3]
         <= NETWORK_BUFF_SIZE
<1>1. /\ None \notin Node /\ StackElBytes \in Nat \ {0}
      /\ PACKET_HEADER_SIZE \in Nat /\ NETWORK_BUFF_SIZE \in Nat
      /\ DATAGRAM_HEADER_SIZE \in Nat /\ MAX_FRAGMENT_SIZE \in Nat
      /\ 2 * (StackElBytes + PACKET_HEADER_SIZE + DATAGRAM_HEADER_SIZE
              + MAX_FRAGMENT_SIZE) <= NETWORK_BUFF_SIZE
  BY DtnAssumption
<1>2. Journeys \subseteq {t \in Node \X Node \X Nat : t[1] # t[2]}
  BY Journey
<1>3. ASSUME NEW t \in Journeys, NEW u \in Journeys
      PROVE  2 * (StackElBytes + PACKET_HEADER_SIZE) + t[3] + u[3]
               <= NETWORK_BUFF_SIZE
  <2>1. /\ t[3] \in Nat /\ t[3] <= DATAGRAM_HEADER_SIZE + MAX_FRAGMENT_SIZE
        /\ u[3] \in Nat /\ u[3] <= DATAGRAM_HEADER_SIZE + MAX_FRAGMENT_SIZE
    BY Journey
  <2> QED
    BY <1>1, <2>1
<1> QED
  BY <1>1, <1>2, <1>3 DEF Journeys

LEMMA TransportConstants ==
  /\ Node \subseteq Nat
  /\ Traffic \subseteq Node \X Node \X (Nat \ {0})
  /\ MAX_FRAGMENT_SIZE \in Nat \ {0}
  /\ {TRANSPORT_BUFF_SIZE, QueueBytes, ElementBytes, DatagramBytes}
       \subseteq Nat
  /\ QueueBytes <= TRANSPORT_BUFF_SIZE
  /\ MaxMessages \in Nat
  /\ \A t \in Traffic :
       2 * TP!Bytes(TP!FragCount(t[3])) <= TRANSPORT_BUFF_SIZE - QueueBytes
  /\ MaxMessages < 100000
<1>1. ASSUME NEW t \in Traffic
      PROVE  2 * TP!Bytes(TP!FragCount(t[3]))
               <= TRANSPORT_BUFF_SIZE - QueueBytes
  <2>1. T!Bytes(T!FragCount(t[3])) = TP!Bytes(TP!FragCount(t[3]))
    BY DEF T!Bytes, T!FragCount, TP!Bytes, TP!FragCount
  <2> QED
    BY <2>1, DtnAssumption
<1> QED
  BY <1>1, DtnAssumption

LEMMA OracleConstants ==
  /\ Node \subseteq Nat /\ OP!IsFiniteSet(Node) /\ None \notin Node
  /\ Starts \subseteq [Node -> Int \X Int]
  /\ Moves \in [Node -> SUBSET ((Int \X Int) \X (Int \X Int))]
  /\ FreeBytes \subseteq Nat
  /\ [n \in Node |-> [t \in 1 .. MaxTime |-> 0 .. NETWORK_BUFF_SIZE]]
       \in [Node -> [1 .. MaxTime -> SUBSET Nat]]
  /\ {ORACLEINTERVAL, MaxRecords, MaxTime} \subseteq Nat \ {0}
  /\ {Reach, ORACLEWAIT, MINDIST} \subseteq Nat
<1>1. OP!IsFiniteSet(Node)
  <2>1. IsFiniteSet(Node)
    BY DtnAssumption
  <2> QED
    BY <2>1 DEF IsFiniteSet, OP!IsFiniteSet
<1>2. 0 .. NETWORK_BUFF_SIZE \subseteq Nat
  BY DtnAssumption
<1> QED
  BY <1>1, <1>2, DtnAssumption

-----------------------------------------------------------------------------
(* Routes *)

(* A next node that get_nth_best_node names is one whose record is good. *)
LEMMA RouteFacts ==
  ASSUME OP!IInv, NEW n \in Node, NEW dest, NEW size
  PROVE  LET m == O!GetNthBestNode(n, dest, size) IN
         /\ m \in (Node \ {n}) \cup {None}
         /\ m # None => O!Knows(n, dest) /\ m \in O!GoodNodes(n, dest, size)
         /\ m = None <=> \/ ~O!Knows(n, dest)
                        \/ O!GoodNodes(n, dest, size) = {}
<1> DEFINE S == O!GoodNodes(n, dest, size)
<1>1. S \subseteq DOMAIN positionDB[n]
  BY DEF O!GoodNodes
<1>2. DOMAIN positionDB[n] \subseteq Node \ {n} /\ Node \subseteq Nat
      /\ None \notin Node
  BY OracleConstants DEF OP!IInv, OP!Types, OP!IsPositionDB
<1>3. S \in SUBSET Nat
  BY <1>1, <1>2
<1>4. S # {} => O!Min(S) \in S
  <2>1. S # {} => OP!Min(S) \in S
    <3> HIDE DEF S
    <3> QED
      BY <1>3, OP!MinInSet, OracleConstants
  <2> QED
    BY <2>1 DEF O!Min, OP!Min
<1> HIDE DEF S
<1>5. S # {} => O!Min(S) \in Node \ {n} /\ O!Min(S) # None /\ O!Min(S) # n
  BY <1>1, <1>2, <1>4
<1>6. O!GetNthBestNode(n, dest, size) =
        IF ~O!Knows(n, dest) \/ S = {} THEN None
        ELSE IF O!Min(S) # n THEN O!Min(S) ELSE None
  BY DEF O!GetNthBestNode, S
<1>7. CASE ~O!Knows(n, dest) \/ S = {}
  BY <1>6, <1>7 DEF S
<1>8. CASE O!Knows(n, dest) /\ S # {}
  BY <1>4, <1>5, <1>6, <1>8 DEF S
<1> QED
  BY <1>7, <1>8

LEMMA RouteType ==
  OP!IInv => \A n \in Node : Route(n) \in NP!Routes(n)
<1> SUFFICES ASSUME OP!IInv, NEW n \in Node
             PROVE  Route(n) \in NP!Routes(n)
  OBVIOUS
<1>1. ASSUME NEW q \in Queries
      PROVE  Route(n)[q] \in (Node \ {n}) \cup {None}
  <2>1. Route(n)[q] = O!GetNthBestNode(n, q[1], PACKET_HEADER_SIZE + q[2])
    BY DEF Route
  <2> QED
    BY <2>1, RouteFacts
<1>2. Queries = {<<t[2], t[3]>> : t \in Journeys}
  <2>1. ASSUME NEW q \in Queries
        PROVE  q \in {<<t[2], t[3]>> : t \in Journeys}
    <3>1. PICK t \in Traffic, k \in 1 .. MAX_FRAGMENT_SIZE :
            q = <<t[2], DATAGRAM_HEADER_SIZE + k>>
      BY Queried
    <3>2. <<t[1], t[2], q[2]>> \in Journeys
      BY DEF Journeys
    <3>3. q = <<t[2], q[2]>>
      BY <3>1
    <3> QED
      BY <3>2, <3>3
  <2>2. ASSUME NEW t \in Journeys
        PROVE  <<t[2], t[3]>> \in Queries
    <3>1. PICK u \in Traffic, q \in Queries : t = <<u[1], u[2], q[2]>>
      BY DEF Journeys
    <3>2. PICK v \in Traffic, k \in 1 .. MAX_FRAGMENT_SIZE :
            q = <<v[2], DATAGRAM_HEADER_SIZE + k>>
      BY Queried
    <3>3. <<t[2], t[3]>> = <<u[2], DATAGRAM_HEADER_SIZE + k>>
      BY <3>1, <3>2
    <3> QED
      BY <3>3 DEF Queries
  <2> QED
    BY <2>1, <2>2
<1>3. Route(n) = [q \in Queries |-> Route(n)[q]]
  BY DEF Route
<1>4. Route(n) \in [Queries -> (Node \ {n}) \cup {None}]
  BY <1>1, <1>3
<1> QED
  BY <1>2, <1>4 DEF NP!Routes, Journeys

(* The routes after a step, which oracle_recv uses. *)
LEMMA NextRouteType ==
  OP!IInv' => (\A n \in Node : Route(n) \in NP!Routes(n))'
BY RouteType, PTL

-----------------------------------------------------------------------------
(* Fragments in packets *)

(* What AppRdy builds of a fragment. *)
PacketOf(m, d) == [source |-> m.src, dest |-> m.dest,
                   len |-> Length(d.data), id |-> d]

(* The network layer can carry every fragment of every message. *)
LEMMA FragmentTravels ==
  ASSUME NEW m \in TP!Message, NEW d \in TP!Fragments(m)
  PROVE  d \in Datagrams /\ PacketOf(m, d) \in NP!Packet
<1> DEFINE count == TP!FragCount(m.len)
           S == (Node \X Nat) \X Nat
<1>1. /\ m.src \in Node /\ m.dest \in Node /\ m.src \in Nat
      /\ m.num \in Nat /\ m.len \in Nat \ {0}
      /\ <<m.src, m.dest, m.len>> \in Traffic
  BY TransportConstants, TP!MessageFacts
<1>2. PICK i \in 0 .. count - 1 : d = TP!Fragment(m, i)
  BY DEF TP!Fragments
<1>3. count \in Nat \ {0} /\ MAX_FRAGMENT_SIZE \in Nat \ {0} /\ i \in Nat
  BY <1>1, <1>2, TP!CountFacts, TransportConstants
<1> DEFINE a == i * MAX_FRAGMENT_SIZE + 1
           b == IF i = count - 1 THEN m.len
                                 ELSE (i + 1) * MAX_FRAGMENT_SIZE
<1>4. a \in 1 .. m.len /\ b \in a .. m.len /\ b <= (i + 1) * MAX_FRAGMENT_SIZE
  <2>1. /\ TP!FirstByte(i) \in 1 .. m.len
        /\ TP!LastByte(m, i) \in TP!FirstByte(i) .. m.len
        /\ TP!LastByte(m, i) <= TP!M * (i + 1)
    BY TP!FragmentFacts, TransportConstants
  <2>2. TP!FirstByte(i) = a /\ TP!M * (i + 1) = (i + 1) * MAX_FRAGMENT_SIZE
    BY <1>3 DEF TP!FirstByte, TP!M
  <2>3. TP!LastByte(m, i) = b
    BY <2>2 DEF TP!LastByte
  <2> HIDE DEF a, b
  <2> QED
    BY <2>1, <2>2, <2>3
<1>5. d = [src |-> m.src, num |-> m.num, frag |-> i, count |-> count,
           data |-> SubSeq(TP!Content(m), a, b)]
  BY <1>2 DEF TP!Fragment
<1>6. (i + 1) * MAX_FRAGMENT_SIZE = i * MAX_FRAGMENT_SIZE + MAX_FRAGMENT_SIZE
      /\ i * MAX_FRAGMENT_SIZE \in Nat
  BY <1>3
<1>7. a \in Int /\ b \in Int /\ b - a + 1 \in 1 .. MAX_FRAGMENT_SIZE /\ a <= b
  <2>1. a = i * MAX_FRAGMENT_SIZE + 1
    OBVIOUS
  <2> HIDE DEF a, b
  <2> QED
    BY <1>1, <1>3, <1>4, <1>6, <2>1
<1> HIDE DEF a, b, count
<1>8. \A j \in a .. b : TP!Content(m)[j] \in S
  <2>1. ASSUME NEW j \in 1 .. m.len
        PROVE  TP!Content(m)[j] \in S
    <3>1. TP!Content(m)[j] = <<<<m.src, m.num>>, j>>
      BY DEF TP!Content, TP!Name
    <3>2. j \in Nat
      BY <1>1
    <3> QED
      BY <1>1, <3>1, <3>2
  <2>2. a .. b \subseteq 1 .. m.len
    BY <1>1, <1>4
  <2> QED
    BY <2>1, <2>2
<1> HIDE DEF S
<1>9. /\ SubSeq(TP!Content(m), a, b) \in Seq(S)
      /\ Len(SubSeq(TP!Content(m), a, b)) = b - a + 1
  BY <1>7, <1>8, SubSeqProperties
<1>10. d.data \in Seq(S) /\ Len(d.data) \in 1 .. MAX_FRAGMENT_SIZE
  BY <1>5, <1>7, <1>9
<1>11. d \in Datagrams
  BY <1>1, <1>3, <1>5, <1>10 DEF Datagrams, S
<1>12. <<m.src, m.dest, Length(d.data)>> \in Journeys
  <2>1. <<m.dest, Length(d.data)>> \in Queries
    BY <1>1, <1>10 DEF Queries, Length
  <2> QED
    BY <1>1, <2>1 DEF Journeys
<1>13. Length(d.data) \in Nat
  <2>1. DATAGRAM_HEADER_SIZE \in Nat
    BY DtnAssumption
  <2> QED
    BY <1>3, <1>10, <2>1 DEF Length
<1> QED
  BY <1>1, <1>11, <1>12, <1>13 DEF PacketOf, NP!Packet, Journeys

-----------------------------------------------------------------------------
(* The invariant *)

(* Every packet carries a fragment of a message to its destination.  This  *)
(* and the invariants of the parts are inductive together: Transport needs *)
(* of Network that a packet arrives once, Network needs of Transport that  *)
(* no two messages have the same fragments, and Network gets its routes    *)
(* from Oracle.                                                            *)
Carried ==
  \A p \in packets : \E m \in messages :
    /\ p.source = m.src /\ p.dest = m.dest
    /\ p.id \in TP!Fragments(m)

StackInv == NP!IInv /\ TP!IInv /\ OP!IInv /\ Carried

LEMMA InitStack == Init => StackInv
<1> SUFFICES ASSUME Init
             PROVE  StackInv
  OBVIOUS
<1>1. NP!IInv
  BY NP!InitInv, InitSame, NetworkConstants DEF Init
<1>2. TP!IInv
  BY TP!InitInv, TransportInitSame, TransportConstants DEF Init
<1>3. OP!IInv
  BY OP!InitInv, OracleInitSame, OracleConstants DEF Init
<1>4. Carried
  BY DEF Init, N!Init, Carried
<1> QED
  BY <1>1, <1>2, <1>3, <1>4 DEF StackInv

(* The packets that app_rdy has built of message m. *)
Packs(m) == [i \in 1 .. TP!FragCount(m.len) |->
               PacketOf(m, TP!Fragment(m, i - 1))]

LEMMA PacksFacts ==
  ASSUME StackInv, NEW t \in Traffic, msg_num_counter[t[1]] < MaxMessages
  PROVE  LET m == TP!NewMessage(t) IN
         /\ m \in TP!Message /\ m.src = t[1] /\ m.dest = t[2]
         /\ Packs(m) \in Seq(NP!Packet)
         /\ NP!IsInjective(Packs(m))
         /\ NP!Range(Packs(m)) = {PacketOf(m, d) : d \in TP!Fragments(m)}
         /\ \A p, q \in NP!Range(Packs(m)) : p.id = q.id => p = q
         /\ \A p \in NP!Range(Packs(m)), q \in packets : p.id # q.id
<1> DEFINE m == TP!NewMessage(t)
           count == TP!FragCount(m.len)
           s == Packs(m)
<1>1. /\ m \in TP!Message /\ m.src = t[1] /\ m.dest = t[2]
      /\ \A k \in messages : TP!Name(k) # TP!Name(m)
  BY TP!NewMessageFacts, TransportConstants DEF StackInv
<1> HIDE DEF m
<1>2. count \in Nat \ {0}
  <2>1. m.len \in Nat \ {0}
    <3>1. m \in TP!Message
      BY <1>1
    <3> QED
      BY <3>1 DEF TP!Message
  <2> QED
    BY <2>1, TP!CountFacts, TransportConstants
<1>3. DOMAIN s = 1 .. count
      /\ \A i \in 1 .. count : s[i] = PacketOf(m, TP!Fragment(m, i - 1))
  BY DEF Packs
<1>4. \A i \in 1 .. count : i - 1 \in 0 .. count - 1
  BY <1>2
<1>5. \A i \in 1 .. count : TP!Fragment(m, i - 1) \in TP!Fragments(m)
  BY <1>4 DEF TP!Fragments
<1>6. \A i \in 1 .. count : s[i] \in NP!Packet
  BY <1>1, <1>3, <1>5, FragmentTravels
<1>7. \A d \in TP!Fragments(m) :
        \E i \in 1 .. count : d = TP!Fragment(m, i - 1)
  <2> SUFFICES ASSUME NEW d \in TP!Fragments(m)
               PROVE  \E i \in 1 .. count : d = TP!Fragment(m, i - 1)
    OBVIOUS
  <2>1. PICK j \in 0 .. count - 1 : d = TP!Fragment(m, j)
    BY DEF TP!Fragments
  <2>2. j + 1 \in 1 .. count /\ (j + 1) - 1 = j
    BY <1>2
  <2> QED
    BY <2>1, <2>2
<1> HIDE DEF s, count
<1>8. s \in Seq(NP!Packet)
  <2>1. s = [i \in 1 .. count |-> s[i]]
    BY <1>3 DEF s, Packs
  <2>2. s \in [1 .. count -> NP!Packet]
    BY <1>6, <2>1
  <2> QED
    BY <1>2, <2>2
<1>9. ASSUME NEW i \in 1 .. count, NEW j \in 1 .. count,
             s[i].id = s[j].id
      PROVE  i = j
  <2>1. TP!Fragment(m, i - 1) = TP!Fragment(m, j - 1)
    BY <1>3, <1>9 DEF PacketOf
  <2>2. i - 1 = j - 1
    <3>1. i - 1 \in 0 .. TP!FragCount(m.len) - 1
          /\ j - 1 \in 0 .. TP!FragCount(m.len) - 1
      BY <1>4 DEF count
    <3> QED
      BY <1>1, <2>1, <3>1, TP!DistinctFragments, TransportConstants
  <2> QED
    BY <1>2, <2>2
<1>10. NP!IsInjective(s)
  BY <1>3, <1>9 DEF NP!IsInjective
<1>11. NP!Range(s) = {s[i] : i \in 1 .. count}
  BY <1>3 DEF NP!Range
<1>12. NP!Range(s) = {PacketOf(m, d) : d \in TP!Fragments(m)}
  BY <1>3, <1>5, <1>7, <1>11
<1>13. \A p, q \in NP!Range(s) : p.id = q.id => p = q
  BY <1>9, <1>11
<1>14. ASSUME NEW p \in NP!Range(s), NEW q \in packets, p.id = q.id
       PROVE  FALSE
  <2>1. p.id \in TP!Fragments(m)
    BY <1>12 DEF PacketOf
  <2>2. PICK k \in messages : q.id \in TP!Fragments(k)
    BY DEF StackInv, Carried
  <2>3. k \in TP!Message
    BY DEF StackInv, TP!IInv, TP!Distinct
  <2>4. TP!Name(p.id) = TP!Name(m)
    BY <1>1, <2>1, TP!NameOfFragment, TransportConstants
  <2>5. TP!Name(q.id) = TP!Name(k)
    BY <2>2, <2>3, TP!NameOfFragment, TransportConstants
  <2> QED
    BY <1>1, <1>14, <2>4, <2>5
<1> QED
  BY <1>1, <1>8, <1>10, <1>12, <1>13, <1>14 DEF m, s

-----------------------------------------------------------------------------
(* The handlers *)

LEMMA ArrivedSame == N!Arrived = NP!Arrived
BY DEF N!Arrived, NP!Arrived, N!Range, NP!Range

(* What was handed up stays the same, and new packets have new ids: the    *)
(* same packets have arrived.                                              *)
LEMMA NoneArrives ==
  ASSUME StackInv, handed' = handed, NEW E, packets' = packets \cup E,
         \A p \in E, q \in packets : p.id # q.id,
         \A p \in E : p.dest \in Node
  PROVE  N!Arrived' = N!Arrived /\ E \cap N!Arrived = {}
<1>1. ASSUME NEW p \in E,
             [from |-> p.source, data |-> p.id] \in N!Range(handed[p.dest])
      PROVE  FALSE
  <2>1. NP!DeliveredWasSent
    BY DEF StackInv, NP!IInv
  <2>2. [from |-> p.source, data |-> p.id] \in NP!Range(handed[p.dest])
    BY <1>1 DEF N!Range, NP!Range
  <2>3. PICK q \in packets : [from |-> p.source, data |-> p.id]
                               = [from |-> q.source, data |-> q.id]
    BY <2>1, <2>2 DEF NP!DeliveredWasSent
  <2> QED
    BY <2>3
<1> QED
  BY <1>1 DEF N!Arrived

(* net_send for the fragments of a new message. *)
Fresh(t) == NP!Range(Packs(TP!NewMessage(t)))

LEMMA AppRdyFacts ==
  ASSUME StackInv, NEW t \in Traffic, AppRdy(t)
  PROVE  /\ NP!IInv' /\ TP!IInv' /\ Carried'
         /\ t[1] \in Node
         /\ T!TransportDatagram(t[1], t)
         /\ NP!Effect(t[1], Fresh(t), Route(t[1]), link)
         /\ packets' = packets \cup Fresh(t)
         /\ Fresh(t) \cap packets = {}
         /\ \A p \in Fresh(t) : p.dest # t[1]
<1> DEFINE m == TP!NewMessage(t)
           best == Route(t[1])
<1>1. /\ m \in TP!Message /\ m.src = t[1] /\ m.dest = t[2]
      /\ Packs(m) \in Seq(NP!Packet)
      /\ NP!IsInjective(Packs(m))
      /\ NP!Range(Packs(m)) = {PacketOf(m, d) : d \in TP!Fragments(m)}
      /\ \A p, q \in NP!Range(Packs(m)) : p.id = q.id => p = q
      /\ \A p \in NP!Range(Packs(m)), q \in packets : p.id # q.id
  <2>1. msg_num_counter[t[1]] < MaxMessages
    BY DEF AppRdy, T!Cut
  <2> QED
    BY <2>1, PacksFacts
<1>2. t[1] \in Node /\ t[1] # t[2]
  BY DtnAssumption
<1>3. T!NewMessage(t) = m
  BY NewMessageSame
<1>4. N!NetSend(t[1], Packs(m), best)
  <2>1. Packs(m) = [i \in 1 .. T!FragCount(m.len) |->
                     [source |-> m.src, dest |-> m.dest,
                      len |-> Length(T!Fragment(m, i - 1).data),
                      id |-> T!Fragment(m, i - 1)]]
    BY FragmentSame DEF Packs, PacketOf
  <2>2. N!NetSend(T!NewMessage(t).src,
                  [i \in 1 .. T!FragCount(T!NewMessage(t).len) |->
                     [source |-> T!NewMessage(t).src,
                      dest |-> T!NewMessage(t).dest,
                      len |-> Length(T!Fragment(T!NewMessage(t), i - 1).data),
                      id |-> T!Fragment(T!NewMessage(t), i - 1)]],
                  Route(T!NewMessage(t).src))
    BY DEF AppRdy
  <2> HIDE DEF m
  <2> QED
    BY <1>1, <1>3, <2>1, <2>2
<1>5. best \in NP!Routes(t[1])
  BY <1>2, RouteType DEF StackInv
<1> HIDE DEF m, best
<1>6. NP!NetSend(t[1], Packs(m), best)
  BY <1>4, SendSame
<1>7. NP!IInv' /\ NP!Effect(t[1], NP!Range(Packs(m)), best, link)
  <2> DEFINE n == t[1]
             s == Packs(m)
  <2>1. /\ NP!IInv /\ n \in Node /\ best \in NP!Routes(n)
        /\ s \in Seq(NP!Packet) /\ NP!IsInjective(s)
        /\ \A p, q \in NP!Range(s) : p.id = q.id => p = q
        /\ \A p \in NP!Range(s), q \in packets : p.id # q.id
        /\ NP!NetSend(n, s, best)
    BY <1>1, <1>2, <1>5, <1>6 DEF StackInv
  <2> HIDE DEF n, s
  <2>2. NP!IInv' /\ NP!Effect(n, NP!Range(s), best, link)
    BY <2>1, NP!SendStep, NetworkConstants
  <2> QED
    BY <2>2 DEF n, s
<1>8. packets' = packets \cup Fresh(t) /\ handed' = handed
  BY <1>6 DEF NP!NetSend, Fresh, m
<1>9. Fresh(t) = {PacketOf(m, d) : d \in TP!Fragments(m)}
      /\ \A p \in Fresh(t), q \in packets : p.id # q.id
  BY <1>1 DEF Fresh, m
<1>10. \A p \in Fresh(t) : p.dest = t[2] /\ p.source = t[1]
                           /\ p.id \in TP!Fragments(m)
  BY <1>1, <1>9 DEF PacketOf
<1>11. N!Arrived' = N!Arrived /\ Fresh(t) \cap N!Arrived = {}
  <2>1. \A p \in Fresh(t) : p.dest \in Node
    <3>1. t[2] \in Node
      BY DtnAssumption
    <3> QED
      BY <3>1, <1>10
  <2> QED
    BY <1>8, <1>9, <2>1, NoneArrives
<1>12. OnTheWay' = OnTheWay \cup
                     {[to |-> m.dest, dat |-> d] : d \in TP!Fragments(m)}
  <2>1. packets' \ N!Arrived' = (packets \ N!Arrived) \cup Fresh(t)
    BY <1>8, <1>11
  <2>2. {[to |-> p.dest, dat |-> p.id] : p \in Fresh(t)}
          = {[to |-> m.dest, dat |-> d] : d \in TP!Fragments(m)}
    <3>1. \A d : PacketOf(m, d).dest = m.dest /\ PacketOf(m, d).id = d
      BY DEF PacketOf
    <3> QED
      BY <1>9, <3>1
  <2> QED
    BY <2>1, <2>2 DEF OnTheWay
<1>13. T!TransportDatagram(t[1], t)
  <2>1. T!Cut(t[1], t)
    BY <1>1, <1>3 DEF AppRdy
  <2>2. T!Fragments(m) = TP!Fragments(m)
    BY FragmentSame
  <2> QED
    BY <1>3, <1>12, <2>1, <2>2 DEF T!TransportDatagram
<1>14. TP!TransportDatagram(t[1], t)
  BY <1>12, <1>13, CutSame DEF TP!TransportDatagram, T!TransportDatagram, m
<1>15. TP!IInv'
  BY <1>14, TP!SendStep, TransportConstants DEF StackInv
<1>16. Carried'
  <2>1. messages' = messages \cup {m}
    BY <1>14 DEF TP!TransportDatagram, TP!Cut, m
  <2> QED
    BY <1>1, <1>8, <1>10, <2>1 DEF StackInv, Carried
<1> QED
  BY <1>2, <1>7, <1>8, <1>9, <1>10, <1>13, <1>15, <1>16 DEF Fresh, m, best

(* A packet gets to its destination: to the transport layer, the datagram  *)
(* that it carries has arrived, and no other.                              *)
LEMMA DeliverFacts ==
  ASSUME StackInv, NEW h \in link, Deliver(h)
  PROVE  /\ NP!IInv' /\ TP!IInv' /\ Carried'
         /\ \E p \in OnTheWay : T!TransportRecv(p.to, p)
<1> DEFINE x == [to |-> h.to, dat |-> h.pack.id]
           p == h.pack
<1>1. NP!PassUp(h.to, h) /\ T!Collect(h.to, p.id)
  BY DEF Deliver, N!PassUp, NP!PassUp
<1>2. /\ NP!IInv' /\ p \in packets
      /\ [from |-> p.source, data |-> p.id] \notin NP!Range(handed[h.to])
  BY <1>1, NP!PassUpStep, NetworkConstants DEF StackInv
<1>3. /\ p.dest = h.to /\ packets' = packets
      /\ handed' = [handed EXCEPT ![h.to] =
                      Append(@, [from |-> p.source, data |-> p.id])]
  BY <1>1 DEF NP!PassUp
<1>4. /\ h.to \in Node /\ DOMAIN handed = Node
      /\ \A n \in Node :
           handed[n] \in Seq([from : Node, data : Datagrams])
  BY DEF StackInv, NP!IInv, NP!Types
<1>5. \A q \in packets : q.id = p.id => q = p
  BY <1>2 DEF StackInv, NP!IInv, NP!IdsDiffer
<1> HIDE DEF p
<1>6. N!Arrived' = N!Arrived \cup {p}
  <2> DEFINE d == [from |-> p.source, data |-> p.id]
  <2>1. /\ NP!Range(handed'[h.to]) = NP!Range(handed[h.to]) \cup {d}
        /\ \A n \in Node \ {h.to} : handed'[n] = handed[n]
    <3> DEFINE s == handed[h.to]
    <3>1. handed'[h.to] = Append(s, d)
      BY <1>3, <1>4
    <3>2. s \in Seq([from : Node, data : Datagrams])
      BY <1>4
    <3>3. NP!Range(Append(s, d)) = NP!Range(s) \cup {d}
      <4> HIDE DEF s, d
      <4>1. /\ Len(Append(s, d)) = Len(s) + 1
            /\ \A i \in 1 .. Len(s) : Append(s, d)[i] = s[i]
            /\ Append(s, d)[Len(s) + 1] = d
            /\ DOMAIN Append(s, d) = 1 .. Len(s) + 1
            /\ DOMAIN s = 1 .. Len(s) /\ Len(s) \in Nat
        BY <3>2
      <4>2. 1 .. Len(s) + 1 = 1 .. Len(s) \cup {Len(s) + 1}
        BY <4>1
      <4> QED
        BY <4>1, <4>2 DEF NP!Range
    <3> HIDE DEF d
    <3>4. \A n \in Node \ {h.to} : handed'[n] = handed[n]
      BY <1>3, <1>4
    <3> QED
      BY <3>1, <3>3, <3>4
  <2>2. \A q \in packets : q.dest \in Node
    BY DEF StackInv, NP!IInv, NP!Types, NP!Packet
  <2>3. \A q \in packets : [from |-> q.source, data |-> q.id] = d => q = p
    BY <1>5
  <2>4. ASSUME NEW q \in packets
        PROVE  [from |-> q.source, data |-> q.id] \in NP!Range(handed'[q.dest])
                 <=> \/ [from |-> q.source, data |-> q.id]
                          \in NP!Range(handed[q.dest])
                     \/ q = p
    <3> DEFINE e == [from |-> q.source, data |-> q.id]
    <3>1. CASE q.dest = h.to
      <4>1. e = d <=> q = p
        BY <2>3
      <4> HIDE DEF e, d
      <4>2. e \in NP!Range(handed'[q.dest])
              <=> e \in NP!Range(handed[q.dest]) \/ q = p
        BY <2>1, <3>1, <4>1
      <4> QED
        BY <4>2 DEF e
    <3>2. CASE q.dest # h.to
      BY <1>3, <2>1, <2>2, <3>2
    <3> QED
      BY <3>1, <3>2
  <2> HIDE DEF d
  <2>5. NP!Arrived' = NP!Arrived \cup {p}
    BY <1>2, <1>3, <2>4 DEF NP!Arrived
  <2>6. NP!Arrived' = N!Arrived' /\ NP!Arrived = N!Arrived
    BY DEF N!Arrived, NP!Arrived, N!Range, NP!Range
  <2> QED
    BY <2>5, <2>6
<1>7. p \notin N!Arrived
  BY <1>2, <1>3, ArrivedSame DEF NP!Arrived, p
<1>8. OnTheWay' = OnTheWay \ {x} /\ x \in OnTheWay
  <2> DEFINE S == packets \ N!Arrived
             f(q) == [to |-> q.dest, dat |-> q.id]
  <2>1. packets' \ N!Arrived' = S \ {p} /\ p \in S
    BY <1>2, <1>3, <1>6, <1>7 DEF p
  <2>2. x = f(p)
    BY <1>3 DEF p
  <2>3. \A q \in S : f(q) = f(p) => q = p
    BY <1>5
  <2>4. OnTheWay = {f(q) : q \in S} /\ OnTheWay' = {f(q) : q \in S \ {p}}
    BY <2>1 DEF OnTheWay
  <2> HIDE DEF S, f, x
  <2> QED
    BY <2>1, <2>2, <2>3, <2>4
<1>9. T!TransportRecv(x.to, x)
  BY <1>1, <1>8 DEF T!TransportRecv, p
<1>10. TP!TransportRecv(x.to, x)
  BY <1>9, CollectSame DEF T!TransportRecv, TP!TransportRecv
<1>11. TP!IInv'
  <2> HIDE DEF x
  <2> QED
    BY <1>8, <1>10, TP!RecvStep, TransportConstants DEF StackInv
<1>12. Carried'
  <2>1. messages' = messages
    BY <1>1 DEF T!Collect
  <2> QED
    BY <1>3, <2>1 DEF StackInv, Carried
<1> QED
  BY <1>2, <1>8, <1>9, <1>11, <1>12

(* To the transport layer, nothing happens.                                *)
LEMMA NothingAbove ==
  ASSUME StackInv, UNCHANGED <<transport, packets, handed>>
  PROVE  TP!IInv' /\ Carried' /\ UNCHANGED T!vars
<1>1. OnTheWay' = OnTheWay
  BY DEF OnTheWay, N!Arrived
<1>2. UNCHANGED T!vars
  BY <1>1 DEF T!vars, T!history, transport
<1>3. UNCHANGED TP!vars
  BY <1>1 DEF TP!vars, TP!history, transport
<1>4. TP!IInv'
  BY <1>3, TP!StepKeepsInv, TransportConstants DEF StackInv
<1>5. Carried'
  BY DEF StackInv, Carried, transport
<1> QED
  BY <1>2, <1>4, <1>5

(* A packet at a node on its way.                                          *)
LEMMA ForwardFacts ==
  ASSUME StackInv, NEW h \in link, Forward(h)
  PROVE  /\ NP!IInv' /\ TP!IInv' /\ Carried' /\ UNCHANGED T!vars
         /\ h.to \in Node /\ h.pack \in packets /\ h.pack.dest # h.to
         /\ NP!Effect(h.to, {h.pack}, Route(h.to), link \ {h})
         /\ packets' = packets
<1>1. h.to \in Node
  BY DEF StackInv, NP!IInv, NP!Types
<1>2. Route(h.to) \in NP!Routes(h.to)
  BY <1>1, RouteType DEF StackInv
<1>3. NP!Forward(h.to, h, Route(h.to))
  BY ForwardSame DEF Forward
<1>4. NP!IInv' /\ NP!Effect(h.to, {h.pack}, Route(h.to), link \ {h})
  <2> DEFINE n == h.to
             best == Route(n)
  <2>1. /\ NP!IInv /\ best \in NP!Routes(n) /\ NP!Forward(n, h, best)
        /\ h.to = n
    BY <1>2, <1>3 DEF StackInv
  <2> HIDE DEF n, best
  <2>2. NP!IInv' /\ NP!ForwardEffect(h, best)
    BY <2>1, NP!ForwardStep, NetworkConstants
  <2> QED
    BY <2>2 DEF n, best, NP!ForwardEffect
<1>5. packets' = packets /\ handed' = handed /\ h.pack.dest # h.to
  BY <1>3 DEF NP!Forward
<1>6. UNCHANGED transport
  BY DEF Forward
<1>7. h.pack \in packets
  BY DEF StackInv, NP!IInv, NP!NoneMissing, NP!OnLink
<1> QED
  BY <1>1, <1>4, <1>5, <1>6, <1>7, NothingAbove

LEMMA LinkLosesFacts ==
  ASSUME StackInv, NEW h \in link, LinkLoses(h)
  PROVE  NP!IInv' /\ TP!IInv' /\ Carried' /\ UNCHANGED T!vars
<1>1. NP!LinkLoses(h)
  BY DEF LinkLoses, N!LinkLoses, NP!LinkLoses
<1>2. NP!IInv'
  BY <1>1, NP!LoseStep, NetworkConstants DEF StackInv
<1>3. UNCHANGED <<transport, packets, handed>>
  BY <1>1 DEF LinkLoses, NP!LinkLoses
<1> QED
  BY <1>2, <1>3, NothingAbove

(* A beacon: the flush uses the routes of the new database, and leaves     *)
(* only packets for which these have no next node.                         *)
LEMMA OracleRecvFacts ==
  ASSUME StackInv, OP!IInv', NEW n \in Node, NEW garbage,
         OracleRecv(n, garbage)
  PROVE  /\ NP!IInv' /\ TP!IInv' /\ Carried' /\ UNCHANGED T!vars
         /\ \E best \in NP!Routes(n) :
              /\ best = Route(n)'
              /\ NP!Effect(n, {}, best, link)
              /\ \A p \in NP!Range(stack'[n]) : ~NP!Routed(best, p)
         /\ packets' = packets
<1>1. PICK best \in NP!Routes(n) : best = Route(n)'
  BY NextRouteType
<1>2. NP!NetSendBuffered(n, best)
  <2>1. N!NetSendBuffered(n, best)
    BY <1>1 DEF OracleRecv
  <2> QED
    BY <2>1, FlushSame
<1>3. /\ NP!IInv' /\ NP!Effect(n, {}, best, link)
      /\ \A p \in NP!Range(stack'[n]) : ~NP!Routed(best, p)
  BY <1>2, NP!FlushStep, NetworkConstants DEF StackInv
<1>4. UNCHANGED <<transport, packets, handed>>
  BY <1>2 DEF OracleRecv, NP!NetSendBuffered
<1> QED
  BY <1>1, <1>3, <1>4, NothingAbove

(* The network layer does nothing either. *)
LEMMA NothingBelow ==
  ASSUME StackInv, UNCHANGED <<network, transport>>
  PROVE  NP!IInv' /\ TP!IInv' /\ Carried' /\ UNCHANGED T!vars
<1>1. UNCHANGED NP!vars
  BY DEF NP!vars, network
<1>2. NP!IInv'
  BY <1>1, NP!StepKeepsInv, NetworkConstants DEF StackInv
<1>3. UNCHANGED <<transport, packets, handed>>
  BY DEF network
<1> QED
  BY <1>2, <1>3, NothingAbove

-----------------------------------------------------------------------------
(* The steps *)

(* A beacon announces the bytes that are free on the stack.                *)
LEMMA OracleStep == StackInv /\ [Next]_vars => [O!Next]_(O!vars)
<1> SUFFICES ASSUME StackInv, [Next]_vars
             PROVE  [O!Next]_(O!vars)
  OBVIOUS
<1>1. ASSUME UNCHANGED oracle
      PROVE  UNCHANGED O!vars
  BY <1>1 DEF oracle, O!vars
<1>2. ASSUME NEW t \in Traffic, AppRdy(t)
      PROVE  UNCHANGED oracle
  BY <1>2 DEF AppRdy
<1>3. ASSUME NEW h \in link, Deliver(h) \/ Forward(h) \/ LinkLoses(h)
      PROVE  UNCHANGED oracle
  BY <1>3 DEF Deliver, Forward, LinkLoses
<1>4. ASSUME NEW n \in Node, SendOracleBeacon(n)
      PROVE  O!Next
  <2>1. O!SendOracleBeacon(n, stack_free[n])
    BY <1>4 DEF SendOracleBeacon
  <2>2. stack_free[n] \in 0 .. NETWORK_BUFF_SIZE
    BY NP!TypesHold, NetworkConstants DEF StackInv, NP!TypeOK
  <2>3. clock \in 1 .. MaxTime
    BY DEF StackInv, OP!IInv, OP!Types
  <2> QED
    BY <2>1, <2>2, <2>3 DEF O!Next
<1>5. ASSUME NEW n \in Node, LinkSends(n)
      PROVE  O!Next
  BY <1>5 DEF LinkSends, O!Next
<1>6. ASSUME NEW n \in air.to, NEW garbage \in O!Garbage(n),
             OracleRecv(n, garbage)
      PROVE  O!Next
  BY <1>6 DEF OracleRecv, O!Next
<1>7. ASSUME Tick
      PROVE  O!Next
  BY <1>7 DEF Tick, O!Next
<1>8. ASSUME UNCHANGED vars
      PROVE  UNCHANGED oracle
  BY <1>8 DEF vars
<1> QED
  BY <1>1, <1>2, <1>3, <1>4, <1>5, <1>6, <1>7, <1>8 DEF Next

LEMMA OracleStepToo == [O!Next]_(O!vars) => [OP!Next]_(OP!vars)
<1>1. ASSUME UNCHANGED O!vars
      PROVE  UNCHANGED OP!vars
  BY <1>1 DEF O!vars, OP!vars
<1>2. ASSUME O!Next
      PROVE  OP!Next
  <2>1. \A n : O!Garbage(n) = OP!Garbage(n)
    BY DEF O!Garbage, OP!Garbage
  <2> QED
    BY <1>2, <2>1, BeaconSame, LinkSendsSame, RecvSame, TickSame
       DEF O!Next, OP!Next
<1> QED
  BY <1>1, <1>2

LEMMA OracleKeepsInv == StackInv /\ [Next]_vars => OP!IInv'
BY OracleStep, OracleStepToo, OP!StepKeepsInv, OracleConstants DEF StackInv

(* StackInv is inductive, and each step is one of Transport or none.       *)
LEMMA StackStep ==
  StackInv /\ [Next]_vars => StackInv' /\ [T!Next]_(T!vars)
<1> SUFFICES ASSUME StackInv, [Next]_vars
             PROVE  NP!IInv' /\ TP!IInv' /\ Carried' /\ [T!Next]_(T!vars)
  BY OracleKeepsInv DEF StackInv
<1>1. ASSUME NEW t \in Traffic, AppRdy(t)
      PROVE  NP!IInv' /\ TP!IInv' /\ Carried' /\ T!Next
  BY <1>1, AppRdyFacts DEF T!Next
<1>2. ASSUME NEW h \in link, Deliver(h)
      PROVE  NP!IInv' /\ TP!IInv' /\ Carried' /\ T!Next
  BY <1>2, DeliverFacts DEF T!Next
<1>3. ASSUME NEW h \in link, Forward(h) \/ LinkLoses(h)
      PROVE  NP!IInv' /\ TP!IInv' /\ Carried' /\ UNCHANGED T!vars
  BY <1>3, ForwardFacts, LinkLosesFacts
<1>4. ASSUME UNCHANGED <<network, transport>>
      PROVE  NP!IInv' /\ TP!IInv' /\ Carried' /\ UNCHANGED T!vars
  BY <1>4, NothingBelow
<1>5. ASSUME NEW n \in Node, SendOracleBeacon(n) \/ LinkSends(n)
      PROVE  UNCHANGED <<network, transport>>
  BY <1>5 DEF SendOracleBeacon, LinkSends
<1>6. ASSUME NEW n \in air.to, NEW garbage \in O!Garbage(n),
             OracleRecv(n, garbage)
      PROVE  NP!IInv' /\ TP!IInv' /\ Carried' /\ UNCHANGED T!vars
  <2>1. n \in Node
    BY DEF StackInv, OP!IInv, OP!Types
  <2>2. OP!IInv'
    BY OracleKeepsInv
  <2> QED
    BY <1>6, <2>1, <2>2, OracleRecvFacts
<1>7. ASSUME Tick \/ UNCHANGED vars
      PROVE  UNCHANGED <<network, transport>>
  BY <1>7 DEF Tick, vars
<1> QED
  BY <1>1, <1>2, <1>3, <1>4, <1>5, <1>6, <1>7 DEF Next

LEMMA TransportInit == Init => T!Init
<1> SUFFICES ASSUME Init
             PROVE  T!Init
  OBVIOUS
<1> QED
  BY DEF Init

(* Between the application and the links, the stack is a transport layer   *)
(* over a network that loses and reorders datagrams, but does not copy     *)
(* them and hands them up at their destination only (net_recv,             *)
(* network.c:304-312).                                                     *)
THEOREM StackImplementsTransport == Spec => ImplementsTransport
<1>1. Init => StackInv /\ T!Init
  BY InitStack, TransportInit
<1>2. StackInv /\ [Next]_vars => StackInv' /\ [T!Next]_(T!vars)
  BY StackStep
<1> QED
  BY <1>1, <1>2, PTL DEF Spec, ImplementsTransport, T!Spec

(* With nodes that announce the free bytes of their stacks                 *)
(* (get_public_nbytes_free, oracle.c:210), the oracle of the stack is that *)
(* of its own module, and all that is proved there holds here.             *)
THEOREM OracleInStack == Spec => O!Spec
<1>1. Init => StackInv /\ O!Init
  BY InitStack DEF Init
<1>2. StackInv /\ [Next]_vars => StackInv' /\ [O!Next]_(O!vars)
  BY StackStep, OracleStep
<1> QED
  BY <1>1, <1>2, PTL DEF Spec, O!Spec

LEMMA StackInvHolds == Spec => []StackInv
<1>1. Init => StackInv
  BY InitStack
<1>2. StackInv /\ [Next]_vars => StackInv'
  BY StackStep
<1> QED
  BY <1>1, <1>2, PTL DEF Spec

LEMMA NetworkTypes == StackInv => N!TypeOK
<1> SUFFICES ASSUME StackInv
             PROVE  N!TypeOK
  OBVIOUS
<1>1. NP!TypeOK
  BY NP!TypesHold, NetworkConstants DEF StackInv
<1>2. N!Buffered = NP!Buffered
  BY DEF N!Buffered, NP!Buffered, N!Range, NP!Range
<1> QED
  BY <1>1, <1>2, ReleasedSame DEF N!TypeOK, NP!TypeOK

LEMMA OneCopySame == StackInv => N!OneCopy
<1> SUFFICES ASSUME StackInv
             PROVE  N!OneCopy
  OBVIOUS
<1>1. NP!OneCopy
  BY NP!OneCopyOfAll, NetworkConstants DEF StackInv
<1>2. N!Buffered = NP!Buffered /\ N!OnLink = NP!OnLink
  BY DEF N!Buffered, NP!Buffered, N!Range, NP!Range, N!OnLink, NP!OnLink
<1>3. \A S : N!Cardinality(S) = NP!Cardinality(S)
  BY DEF N!Cardinality, NP!Cardinality
<1> QED
  BY <1>1, <1>2, <1>3, ArrivedSame DEF N!OneCopy, NP!OneCopy

(* Also when net_send gets all fragments of a message at once and the      *)
(* routes are those of the oracle, the bytes of each stack add up and no   *)
(* packet is copied or forgotten (network.c:195-321).                      *)
THEOREM PacketsInStack == Spec => [](N!TypeOK /\ N!OneCopy)
<1>1. StackInv => N!TypeOK /\ N!OneCopy
  BY NetworkTypes, OneCopySame
<1> QED
  BY <1>1, StackInvHolds, PTL

-----------------------------------------------------------------------------
(* From application to application *)

LEMMA TransportStepToo == [T!Next]_(T!vars) => [TP!Next]_(TP!vars)
<1>1. ASSUME UNCHANGED T!vars
      PROVE  UNCHANGED TP!vars
  BY <1>1 DEF T!vars, TP!vars, T!history, TP!history
<1>2. ASSUME NEW t \in Traffic, T!TransportDatagram(t[1], t)
      PROVE  TP!Next
  <2>1. T!Fragments(T!NewMessage(t)) = TP!Fragments(TP!NewMessage(t))
        /\ T!NewMessage(t) = TP!NewMessage(t)
    BY FragmentSame, NewMessageSame
  <2>2. TP!Cut(t[1], t)
    BY <1>2, CutSame DEF T!TransportDatagram
  <2>3. TP!TransportDatagram(t[1], t)
    BY <1>2, <2>1, <2>2 DEF T!TransportDatagram, TP!TransportDatagram
  <2> QED
    BY <2>3 DEF TP!Next
<1>3. ASSUME NEW p \in OnTheWay, T!Lose(p)
      PROVE  TP!Next
  BY <1>3 DEF T!Lose, TP!Lose, TP!Next, T!history, TP!history
<1>4. ASSUME NEW p \in OnTheWay, T!TransportRecv(p.to, p)
      PROVE  TP!Next
  BY <1>4, CollectSame DEF T!TransportRecv, TP!TransportRecv, TP!Next
<1> QED
  BY <1>1, <1>2, <1>3, <1>4 DEF T!Next

LEMMA ContentSame ==
  /\ \A m : T!Content(m) = TP!Content(m)
  /\ T!ServiceMessage = TP!ServiceMessage
<1>1. \A m : T!Content(m) = TP!Content(m)
  BY DEF T!Content, TP!Content, T!Name, TP!Name
<1> QED
  BY <1>1 DEF T!ServiceMessage, TP!ServiceMessage

LEMMA ServiceSame ==
  [TP!Service!Next]_(TP!Service!service) =>
    [T!Service!Next]_(T!Service!service)
<1> DEFINE S == {[src |-> m.src, dest |-> m.dest, data |-> T!Content(m)] :
                   m \in messages}
<1>1. S = {[src |-> m.src, dest |-> m.dest, data |-> TP!Content(m)] :
             m \in messages}
  BY ContentSame
<1>2. S' = {[src |-> m.src, dest |-> m.dest, data |-> TP!Content(m)] :
              m \in messages}'
  BY ContentSame
<1>3. ASSUME UNCHANGED TP!Service!service
      PROVE  UNCHANGED T!Service!service
  BY <1>1, <1>2, <1>3 DEF TP!Service!service, T!Service!service
<1>4. ASSUME NEW m, TP!Service!Accept(m)
      PROVE  T!Service!Accept(m)
  BY <1>1, <1>2, <1>4 DEF TP!Service!Accept, T!Service!Accept
<1>5. ASSUME NEW m, TP!Service!Deliver(m)
      PROVE  T!Service!Deliver(m)
  BY <1>1, <1>2, <1>5 DEF TP!Service!Deliver, T!Service!Deliver,
                          TP!Service!Range, T!Service!Range
<1> QED
  BY <1>1, <1>3, <1>4, <1>5, ContentSame DEF TP!Service!Next, T!Service!Next

LEMMA ServiceInitSame == T!Init => T!Service!Init
<1> SUFFICES ASSUME T!Init
             PROVE  T!Service!Init
  OBVIOUS
<1> QED
  BY DEF T!Init, T!Service!Init

(* For any nodes, movements, messages and losses, what one application     *)
(* hands over the other gets whole, from the right sender, at most once    *)
(* (app_rdy and message_receive, dtn.c:24-37).                             *)
THEOREM EndToEndHolds == Spec => EndToEnd
<1>1. Init => StackInv /\ T!Service!Init
  BY InitStack, TransportInit, ServiceInitSame
<1>2. StackInv /\ [Next]_vars =>
        StackInv' /\ [T!Service!Next]_(T!Service!service)
  <2> SUFFICES ASSUME StackInv, [Next]_vars
               PROVE  StackInv' /\ [T!Service!Next]_(T!Service!service)
    OBVIOUS
  <2>1. StackInv' /\ [T!Next]_(T!vars)
    BY StackStep
  <2>2. [TP!Next]_(TP!vars)
    BY <2>1, TransportStepToo
  <2>3. [TP!Service!Next]_(TP!Service!service)
    BY <2>2, TP!ServiceStep, TransportConstants DEF StackInv
  <2> QED
    BY <2>1, <2>3, ServiceSame
<1> QED
  BY <1>1, <1>2, PTL DEF Spec, EndToEnd, T!ImplementsService, T!Service!Spec

-----------------------------------------------------------------------------
(* Packets that wait *)

(* Between beacons, the oracle of a node that does not move only forgets.  *)
Forgets(n) ==
  /\ DOMAIN positionDB'[n] \subseteq DOMAIN positionDB[n]
  /\ \A m \in DOMAIN positionDB'[n] : positionDB'[n][m] = positionDB[n][m]
  /\ clock' \in Nat /\ clock' >= clock
  /\ O!Pos(n)' = O!Pos(n)

(* Node n receives a beacon. *)
Hears(n) == \E garbage : OracleRecv(n, garbage)

LEMMA OthersForget ==
  ASSUME StackInv, [Next]_vars, NEW n \in Node, Moves[n] = {}, ~Hears(n)
  PROVE  Forgets(n)
<1>1. /\ clock \in 1 .. MaxTime /\ DOMAIN positionDB = Node
      /\ MaxTime \in Nat /\ clock \in Nat
      /\ path \in [Node -> [1 .. clock -> OP!Place]]
  <2>1. /\ clock \in 1 .. MaxTime /\ DOMAIN positionDB = Node
        /\ path \in [Node -> [1 .. clock -> OP!Place]]
    BY DEF StackInv, OP!IInv, OP!Types
  <2>2. MaxTime \in Nat
    BY DtnAssumption
  <2> QED
    BY <2>1, <2>2
<1>2. ASSUME positionDB'[n] = positionDB[n], UNCHANGED <<clock, path>>
      PROVE  Forgets(n)
  BY <1>1, <1>2 DEF Forgets, O!Pos
<1>3. ASSUME UNCHANGED oracle
      PROVE  Forgets(n)
  BY <1>2, <1>3 DEF oracle
<1>4. ASSUME NEW t \in Traffic, AppRdy(t)
      PROVE  Forgets(n)
  BY <1>3, <1>4 DEF AppRdy
<1>5. ASSUME NEW h \in link, Deliver(h) \/ Forward(h) \/ LinkLoses(h)
      PROVE  Forgets(n)
  BY <1>3, <1>5 DEF Deliver, Forward, LinkLoses
<1>6. ASSUME NEW k \in Node, SendOracleBeacon(k)
      PROVE  Forgets(n)
  <2>1. /\ positionDB' = [positionDB EXCEPT ![k] = OP!Pruned(@)]
        /\ UNCHANGED <<clock, path>>
    BY <1>6, PrunedSame DEF SendOracleBeacon, O!SendOracleBeacon
  <2>2. CASE k = n
    <3>1. positionDB'[n] = OP!Pruned(positionDB[n])
      BY <1>1, <2>1, <2>2
    <3>2. LET db == positionDB[n] IN
          /\ DOMAIN OP!Pruned(db)
               = {m \in DOMAIN db : OP!Rank(db, m) < MaxRecords}
          /\ \A m \in DOMAIN OP!Pruned(db) : OP!Pruned(db)[m] = db[m]
      BY OP!PrunedDomain, OracleConstants
    <3> QED
      BY <1>1, <2>1, <3>1, <3>2 DEF Forgets, O!Pos
  <2>3. CASE k # n
    BY <1>1, <1>2, <2>1, <2>3
  <2> QED
    BY <2>2, <2>3
<1>7. ASSUME NEW k \in Node, LinkSends(k)
      PROVE  Forgets(n)
  BY <1>2, <1>7 DEF LinkSends, O!LinkSends
<1>8. ASSUME NEW k \in air.to, NEW garbage \in O!Garbage(k),
             OracleRecv(k, garbage)
      PROVE  Forgets(n)
  <2>1. k # n
    BY <1>8 DEF Hears
  <2>2. /\ \E db : positionDB' = [positionDB EXCEPT ![k] = db]
        /\ UNCHANGED <<clock, path>>
    BY <1>8 DEF OracleRecv, O!OracleRecv, O!ProcessBeacon
  <2> QED
    BY <1>1, <1>2, <2>1, <2>2
<1>9. ASSUME Tick
      PROVE  Forgets(n)
  <2>1. clock' = clock + 1 /\ UNCHANGED positionDB
    BY <1>9 DEF Tick, O!Tick
  <2>2. PICK to : /\ to[n] = O!Pos(n) \/ <<O!Pos(n), to[n]>> \in Moves[n]
                  /\ path' = [k \in Node |->
                                [u \in 1 .. clock' |->
                                   IF u = clock' THEN to[k] ELSE path[k][u]]]
    BY <1>9 DEF Tick, O!Tick
  <2>3. path'[n][clock'] = to[n]
    <3>1. clock' \in 1 .. clock'
      BY <1>1, <2>1
    <3> QED
      BY <2>2, <3>1
  <2> QED
    BY <1>1, <2>1, <2>2, <2>3 DEF Forgets, O!Pos
<1>10. ASSUME UNCHANGED vars
       PROVE  Forgets(n)
  BY <1>3, <1>10 DEF vars
<1> QED
  BY <1>4, <1>5, <1>6, <1>7, <1>8, <1>9, <1>10 DEF Next

(* A node that only forgets finds no next node that it did not know.       *)
LEMMA NoRouteStays ==
  ASSUME StackInv, NEW n \in Node, Forgets(n), NEW dest, NEW size,
         O!GetNthBestNode(n, dest, size) = None
  PROVE  O!GetNthBestNode(n, dest, size)' = None
<1>1. CASE ~O!Knows(n, dest)'
  BY <1>1 DEF O!GetNthBestNode
<1>2. CASE O!Knows(n, dest)'
  <2>1. O!Knows(n, dest) /\ positionDB'[n][dest] = positionDB[n][dest]
    BY <1>2 DEF O!Knows, Forgets
  <2>2. O!GoodNodes(n, dest, size) = {}
    BY <2>1, RouteFacts DEF StackInv
  <2>3. ASSUME NEW m \in DOMAIN positionDB'[n], O!Live(positionDB[n][m])'
        PROVE  O!Live(positionDB[n][m])
    <3> DEFINE last == positionDB[n][m].lastBeacon
    <3>1. last \in Nat
      <4>1. positionDB[n] \in [DOMAIN positionDB[n] -> OP!Neighbour]
        BY DEF StackInv, OP!IInv, OP!Types, OP!IsPositionDB
      <4>2. m \in DOMAIN positionDB[n]
        BY DEF Forgets
      <4>3. positionDB[n][m] \in OP!Neighbour
        BY <4>1, <4>2
      <4> QED
        BY <4>3 DEF OP!Neighbour
    <3>2. clock' \in Nat /\ clock' >= clock /\ clock' <= last + ORACLEWAIT
      BY <2>3 DEF Forgets, O!Live
    <3>3. clock \in Nat
      BY DEF StackInv, OP!IInv, OP!Types
    <3>4. ORACLEWAIT \in Nat
      BY DtnAssumption
    <3>5. clock <= last + ORACLEWAIT
      <4> HIDE DEF last
      <4> QED
        BY <3>1, <3>2, <3>3, <3>4
    <3> QED
      BY <3>5 DEF O!Live
  <2>4. O!Pos(n)' = O!Pos(n)
    BY DEF Forgets
  <2>5. ASSUME NEW m \in O!GoodNodes(n, dest, size)'
        PROVE  m \in O!GoodNodes(n, dest, size)
    <3>1. m \in DOMAIN positionDB'[n] /\ O!Live(positionDB[n][m])'
          /\ positionDB'[n][m].free >= size
          /\ (m = dest \/ O!IsCloser(O!Pos(n)', positionDB'[n][m].loc,
                                     positionDB'[n][dest].loc, MINDIST))
      BY <2>5 DEF O!GoodNodes, O!IsCloser, O!Square
    <3>2. m \in DOMAIN positionDB[n] /\ positionDB'[n][m] = positionDB[n][m]
      BY <3>1 DEF Forgets
    <3>3. O!Live(positionDB[n][m])
      BY <2>3, <3>1
    <3> QED
      BY <2>1, <2>4, <3>1, <3>2, <3>3 DEF O!GoodNodes
  <2> QED
    BY <2>2, <2>5 DEF O!GetNthBestNode
<1> QED
  BY <1>1, <1>2

LEMMA PacketQuery ==
  ASSUME NEW p \in NP!Packet, NEW n
  PROVE  /\ NP!Query(p) \in Queries
         /\ NP!Query(p) = <<p.dest, p.len>>
         /\ Route(n)[NP!Query(p)]
              = O!GetNthBestNode(n, p.dest, PACKET_HEADER_SIZE + p.len)
         /\ (Route(n)[NP!Query(p)])'
              = O!GetNthBestNode(n, p.dest, PACKET_HEADER_SIZE + p.len)'
<1>1. NP!Query(p) = <<p.dest, p.len>>
  BY DEF NP!Query
<1>2. <<p.dest, p.len>> \in Queries
  <2>1. <<p.source, p.dest, p.len>> \in Journeys
    BY DEF NP!Packet, Journeys
  <2>2. PICK t \in Traffic, q \in Queries :
          <<p.source, p.dest, p.len>> = <<t[1], t[2], q[2]>>
    BY <2>1 DEF Journeys
  <2>3. PICK u \in Traffic, k \in 1 .. MAX_FRAGMENT_SIZE :
          q = <<u[2], DATAGRAM_HEADER_SIZE + k>>
    BY Queried
  <2>4. <<p.dest, p.len>> = <<t[2], DATAGRAM_HEADER_SIZE + k>>
    BY <2>2, <2>3
  <2> QED
    BY <2>4 DEF Queries
<1> QED
  BY <1>1, <1>2 DEF Route

(* For p, n has no next node. *)
Waits(n, p) == ~NP!Routed(Route(n), p)

LEMMA WaitsStill ==
  ASSUME StackInv, NEW n \in Node, Forgets(n), NEW p \in NP!Packet, Waits(n, p)
  PROVE  Waits(n, p)'
<1>1. O!GetNthBestNode(n, p.dest, PACKET_HEADER_SIZE + p.len) = None
  BY PacketQuery DEF Waits, NP!Routed
<1>2. O!GetNthBestNode(n, p.dest, PACKET_HEADER_SIZE + p.len)' = None
  <2> DEFINE dest == p.dest
             size == PACKET_HEADER_SIZE + p.len
  <2>1. O!GetNthBestNode(n, dest, size) = None
    BY <1>1
  <2> HIDE DEF dest, size
  <2>2. O!GetNthBestNode(n, dest, size)' = None
    BY <2>1, NoRouteStays
  <2> QED
    BY <2>2 DEF dest, size
<1>3. (Route(n)[NP!Query(p)])' = None
  BY <1>2, PacketQuery
<1> QED
  BY <1>3 DEF Waits, NP!Routed

(* What a handler of node k puts on a stack. *)
LEMMA EffectOnStack ==
  ASSUME NP!IInv, NEW k \in Node, NEW E, NEW best, NEW kept,
         NP!Effect(k, E, best, kept), NEW n \in Node
  PROVE  /\ n # k => stack'[n] = stack[n]
         /\ n = k => \A p \in NP!Range(stack'[n]) \ NP!Range(stack[n]) :
                       ~NP!Routed(best, p)
<1>1. PICK w : NP!Guided(k, best, w) /\ NP!Store(k, w)
  BY DEF NP!Effect
<1>2. DOMAIN stack = Node
  BY DEF NP!IInv, NP!Types
<1>3. stack' = [stack EXCEPT ![k] = w.stack]
  BY <1>1 DEF NP!Store
<1> QED
  BY <1>1, <1>2, <1>3 DEF NP!Guided

(* Without a beacon, only packets without a next node come to a stack.     *)
LEMMA StackGrows ==
  ASSUME StackInv, [Next]_vars, NEW n \in Node, ~Hears(n),
         NEW p \in NP!Range(stack'[n]), p \notin NP!Range(stack[n])
  PROVE  Waits(n, p)
<1>1. ASSUME NEW k \in Node, NEW E, NEW kept,
             NP!Effect(k, E, Route(k), kept)
      PROVE  Waits(n, p)
  <2> DEFINE best == Route(k)
  <2>1. NP!Effect(k, E, best, kept)
    BY <1>1
  <2> HIDE DEF best
  <2>2. /\ n # k => stack'[n] = stack[n]
        /\ n = k => \A q \in NP!Range(stack'[n]) \ NP!Range(stack[n]) :
                      ~NP!Routed(best, q)
    BY <2>1, EffectOnStack DEF StackInv
  <2> QED
    BY <2>2 DEF Waits, best
<1>2. ASSUME stack'[n] = stack[n]
      PROVE  FALSE
  BY <1>2
<1>3. ASSUME NEW t \in Traffic, AppRdy(t)
      PROVE  Waits(n, p)
  <2>1. t[1] \in Node /\ NP!Effect(t[1], Fresh(t), Route(t[1]), link)
    BY <1>3, AppRdyFacts
  <2> QED
    BY <1>1, <2>1
<1>4. ASSUME NEW h \in link, Forward(h)
      PROVE  Waits(n, p)
  <2>1. /\ h.to \in Node
        /\ NP!Effect(h.to, {h.pack}, Route(h.to), link \ {h})
    BY <1>4, ForwardFacts
  <2> QED
    BY <1>1, <2>1
<1>5. ASSUME NEW h \in link, Deliver(h) \/ LinkLoses(h)
      PROVE  FALSE
  BY <1>2, <1>5 DEF Deliver, LinkLoses, N!PassUp, N!LinkLoses
<1>6. ASSUME NEW k \in Node, SendOracleBeacon(k) \/ LinkSends(k)
      PROVE  FALSE
  BY <1>2, <1>6 DEF SendOracleBeacon, LinkSends, network
<1>7. ASSUME NEW k \in air.to, NEW garbage \in O!Garbage(k),
             OracleRecv(k, garbage)
      PROVE  FALSE
  <2>1. k # n /\ k \in Node
    BY <1>7 DEF Hears, StackInv, OP!IInv, OP!Types
  <2>2. OP!IInv'
    BY OracleKeepsInv
  <2>3. PICK best : NP!Effect(k, {}, best, link)
    BY <1>7, <2>1, <2>2, OracleRecvFacts
  <2>4. stack'[n] = stack[n]
    BY <2>1, <2>3, EffectOnStack DEF StackInv
  <2> QED
    BY <1>2, <2>4
<1>8. ASSUME Tick \/ UNCHANGED vars
      PROVE  FALSE
  BY <1>2, <1>8 DEF Tick, vars, network
<1> QED
  BY <1>3, <1>4, <1>5, <1>6, <1>7, <1>8 DEF Next

Waiting ==
  \A n \in Node : Moves[n] = {} =>
    \A p \in NP!Range(stack[n]) : Waits(n, p)

LEMMA WaitingStep ==
  ASSUME StackInv, StackInv', Waiting, [Next]_vars, NEW n \in Node,
         Moves[n] = {}, NEW p \in NP!Range(stack'[n])
  PROVE  Waits(n, p)'
<1>1. CASE Hears(n)
  <2>1. PICK garbage : OracleRecv(n, garbage)
    BY <1>1 DEF Hears
  <2>2. PICK best : /\ best = Route(n)'
                    /\ \A q \in NP!Range(stack'[n]) : ~NP!Routed(best, q)
    BY <2>1, OracleRecvFacts DEF StackInv
  <2> QED
    BY <2>2 DEF Waits, NP!Routed
<1>2. CASE ~Hears(n)
  <2>1. Forgets(n)
    BY <1>2, OthersForget
  <2>2. Waits(n, p)
    BY <1>2, StackGrows DEF Waiting
  <2>3. p \in NP!Packet
    <3>1. stack'[n] \in Seq(NP!Packet)
      BY DEF StackInv, NP!IInv, NP!Types
    <3> QED
      BY <3>1 DEF NP!Range
  <2> QED
    BY <2>1, <2>2, <2>3, WaitsStill
<1> QED
  BY <1>1, <1>2

LEMMA WaitingIsInvariant == Spec => [](StackInv /\ Waiting)
<1>1. Init => StackInv /\ Waiting
  <2> SUFFICES ASSUME Init
               PROVE  Waiting
    BY InitStack
  <2>1. \A n \in Node : stack[n] = <<>>
    BY DEF Init, N!Init
  <2> QED
    BY <2>1 DEF Waiting, NP!Range
<1>2. StackInv /\ Waiting /\ [Next]_vars => StackInv' /\ Waiting'
  <2> SUFFICES ASSUME StackInv, Waiting, [Next]_vars
               PROVE  StackInv' /\ Waiting'
    OBVIOUS
  <2>1. StackInv'
    BY StackStep
  <2> QED
    BY <2>1, WaitingStep DEF Waiting
<1> QED
  BY <1>1, <1>2, PTL DEF Spec

(* In any world, whatever the other nodes do, a node that does not move    *)
(* holds back no packet for which its oracle names a next node             *)
(* (oracle_recv, oracle.c:361-365).                                        *)
THEOREM NoneWaitsInVainHolds == Spec => []NoneWaitsInVain
<1>1. StackInv /\ Waiting => NoneWaitsInVain
  BY DEF Waiting, Waits, NP!Routed, NoneWaitsInVain, Range, NP!Range,
         NP!Query, N!Query
<1> QED
  BY <1>1, WaitingIsInvariant, PTL

-----------------------------------------------------------------------------
(* Nodes that do not move *)

(* No node has moved, and none will. *)
AllStill == \A n \in Node : \A t \in 1 .. clock : path[n][t] = path[n][1]

Still == \A n \in Node : Moves[n] = {}

LEMMA PathFacts ==
  ASSUME StackInv
  PROVE  /\ clock \in Nat /\ 1 \in 1 .. clock /\ clock \in 1 .. clock
         /\ path \in [Node -> [1 .. clock -> Int \X Int]]
<1>1. clock \in 1 .. MaxTime /\ path \in [Node -> [1 .. clock -> Int \X Int]]
  BY DEF StackInv, OP!IInv, OP!Types, OP!Place
<1>2. MaxTime \in Nat
  BY DtnAssumption
<1> QED
  BY <1>1, <1>2

LEMMA StartsStay ==
  ASSUME StackInv, [Next]_vars
  PROVE  \A n \in Node : path'[n][1] = path[n][1]
<1>1. CASE Tick
  <2>1. PICK to : path' = [k \in Node |->
                            [u \in 1 .. clock' |->
                               IF u = clock' THEN to[k] ELSE path[k][u]]]
    BY <1>1 DEF Tick, O!Tick
  <2>2. clock' = clock + 1
    BY <1>1 DEF Tick, O!Tick
  <2>3. 1 \in 1 .. clock' /\ 1 # clock'
    BY <2>2, PathFacts
  <2> QED
    BY <2>1, <2>3
<1>2. CASE ~Tick
  <2>1. path' = path
    BY <1>2 DEF Next, AppRdy, Deliver, Forward, LinkLoses, SendOracleBeacon,
                LinkSends, OracleRecv, oracle, O!SendOracleBeacon,
                O!LinkSends, O!OracleRecv, vars
  <2> QED
    BY <2>1
<1> QED
  BY <1>1, <1>2

LEMMA StillStep ==
  ASSUME Still, StackInv, AllStill, [Next]_vars
  PROVE  AllStill'
<1>1. CASE Tick
  <2>1. PICK to : /\ \A n \in Node : to[n] = O!Pos(n)
                                    \/ <<O!Pos(n), to[n]>> \in Moves[n]
                  /\ path' = [k \in Node |->
                                [u \in 1 .. clock' |->
                                   IF u = clock' THEN to[k] ELSE path[k][u]]]
    BY <1>1 DEF Tick, O!Tick
  <2>2. clock' = clock + 1
    BY <1>1 DEF Tick, O!Tick
  <2>3. ASSUME NEW n \in Node, NEW t \in 1 .. clock'
        PROVE  path'[n][t] = path'[n][1]
    <3>1. path'[n][1] = path[n][1]
      BY StartsStay
    <3>2. path'[n][t] = IF t = clock' THEN to[n] ELSE path[n][t]
      BY <2>1
    <3>3. to[n] = path[n][clock]
      BY <2>1 DEF O!Pos, Still
    <3>4. to[n] = path[n][1]
      BY <3>3, PathFacts DEF AllStill
    <3>5. t # clock' => t \in 1 .. clock
      BY <2>2, PathFacts
    <3> QED
      BY <3>1, <3>2, <3>4, <3>5 DEF AllStill
  <2> QED
    BY <2>3 DEF AllStill
<1>2. CASE ~Tick
  <2>1. path' = path /\ clock' = clock
    BY <1>2 DEF Next, AppRdy, Deliver, Forward, LinkLoses, SendOracleBeacon,
                LinkSends, OracleRecv, oracle, O!SendOracleBeacon,
                O!LinkSends, O!OracleRecv, vars
  <2> QED
    BY <2>1 DEF AllStill
<1> QED
  BY <1>1, <1>2

-----------------------------------------------------------------------------
(* Ways to a destination *)

Dist(n, d) == O!Square(path[n][1], path[d][1])

(* A packet for d that is at n may go on to m. *)
Nearer(m, n, d) == n # d /\ (m = d \/ Dist(m, d) < Dist(n, d))

(* Nearer is a strict order. *)
LEMMA NearerOrder ==
  ASSUME StackInv, NEW k \in Node, NEW m \in Node, NEW n \in Node,
         NEW d \in Node
  PROVE  /\ ~Nearer(n, n, d)
         /\ Nearer(k, m, d) /\ Nearer(m, n, d) => Nearer(k, n, d)
<1>1. ASSUME NEW a \in Node
      PROVE  Dist(a, d) \in Int
  <2>1. /\ path[a][1] \in Int \X Int
        /\ path[d][1] \in Int \X Int
    BY PathFacts
  <2>2. \A u, v \in Int \X Int : O!Square(u, v) \in Int
    BY DEF O!Square
  <2> QED
    BY <2>1, <2>2 DEF Dist
<1>2. Dist(k, d) \in Int /\ Dist(m, d) \in Int /\ Dist(n, d) \in Int
  BY <1>1
<1> QED
  BY <1>2 DEF Nearer

(* The distances are those of the start. *)
LEMMA NearerStays ==
  ASSUME StackInv, [Next]_vars, NEW m \in Node, NEW n \in Node, NEW d \in Node
  PROVE  Nearer(m, n, d)' <=> Nearer(m, n, d)
BY StartsStay DEF Nearer, Dist

(* Each next node is nearer: every position in a database is the true one, *)
(* and isCloser asks for MINDIST at least.                                 *)
RoutesAreNearer ==
  \A n \in Node : \A p \in NP!Packet :
    p.dest # n /\ NP!Routed(Route(n), p) =>
      Nearer(Route(n)[NP!Query(p)], n, p.dest)

LEMMA NextIsNearer == StackInv /\ AllStill => RoutesAreNearer
<1> SUFFICES ASSUME StackInv, AllStill, NEW n \in Node, NEW p \in NP!Packet,
                    p.dest # n, NP!Routed(Route(n), p)
             PROVE  Nearer(Route(n)[NP!Query(p)], n, p.dest)
  BY DEF RoutesAreNearer
<1> DEFINE d == p.dest
           size == PACKET_HEADER_SIZE + p.len
           m == O!GetNthBestNode(n, d, size)
           db == positionDB[n]
<1>1. Route(n)[NP!Query(p)] = m /\ m # None
  BY PacketQuery DEF NP!Routed
<1>2. O!Knows(n, d) /\ m \in O!GoodNodes(n, d, size)
  <2> HIDE DEF d, size
  <2> QED
    BY <1>1, RouteFacts DEF StackInv
<1> HIDE DEF m, d, size
<1>3. /\ m \in DOMAIN db /\ d \in DOMAIN db
      /\ m = d \/ O!IsCloser(O!Pos(n), db[m].loc, db[d].loc, MINDIST)
  BY <1>2 DEF O!Knows, O!GoodNodes
<1>4. DOMAIN db \subseteq Node
  BY DEF StackInv, OP!IInv, OP!Types, OP!IsPositionDB
<1>5. ASSUME NEW k \in DOMAIN db
      PROVE  db[k].loc = path[k][1]
  <2>1. db[k].timestamp \in 1 .. clock /\ path[k][db[k].timestamp] = db[k].loc
    BY DEF StackInv, OP!IInv, OP!Truth, OP!AllWereThere, OP!WasThere
  <2> QED
    BY <1>4, <2>1 DEF AllStill
<1>6. O!Pos(n) = path[n][1]
  BY PathFacts DEF AllStill, O!Pos
<1>7. ASSUME m # d
      PROVE  Dist(m, d) < Dist(n, d)
  <2> DEFINE a == path[n][1]
             b == path[m][1]
             c == path[d][1]
  <2>1. O!Square(b, c) + MINDIST * MINDIST < O!Square(a, c)
    BY <1>3, <1>5, <1>6, <1>7 DEF O!IsCloser
  <2>2. a \in Int \X Int /\ b \in Int \X Int /\ c \in Int \X Int
    BY <1>3, <1>4, PathFacts
  <2>3. \A u, v \in Int \X Int : O!Square(u, v) \in Int
    BY DEF O!Square
  <2>4. MINDIST \in Nat
    BY DtnAssumption
  <2>5. MINDIST * MINDIST \in Nat
    BY <2>4
  <2>6. O!Square(b, c) < O!Square(a, c)
    <3> HIDE DEF a, b, c
    <3> QED
      BY <2>1, <2>2, <2>3, <2>5
  <2> QED
    BY <2>6 DEF Dist
<1> QED
  BY <1>1, <1>7 DEF Nearer, d

(* The same for the routes after a step. *)
LEMMA NextIsNearerAfter == StackInv' /\ AllStill' => RoutesAreNearer'
BY NextIsNearer, PTL

(* Sequences of different elements *)

LEMMA SetToSeqFacts ==
  ASSUME NEW S, IsFiniteSet(S)
  PROVE  SetToSeq(S) \in Seq(S) /\ IsInjective(SetToSeq(S))
<1> DEFINE D == 1 .. Cardinality(S)
<1>1. Cardinality(S) \in Nat /\ ExistsBijection(D, S)
  BY FS_CardinalityType
<1>2. \E f \in [D -> S] : IsInjective(f)
  BY <1>1 DEF ExistsBijection, Bijection, Injection, IsInjective
<1>3. SetToSeq(S) \in [D -> S] /\ IsInjective(SetToSeq(S))
  BY <1>2 DEF SetToSeq
<1> QED
  BY <1>1, <1>3

LEMMA RangeIsFinite ==
  ASSUME NEW S, NEW s \in Seq(S)
  PROVE  IsFiniteSet(NP!Range(s))
<1>1. s \in Seq(NP!Range(s)) /\ DOMAIN s = 1 .. Len(s)
  BY DEF NP!Range
<1>2. \A x \in NP!Range(s) : \E i \in 1 .. Len(s) : s[i] = x
  BY <1>1 DEF NP!Range
<1> QED
  BY <1>1, <1>2 DEF IsFiniteSet

LEMMA ConcatInjective ==
  ASSUME NEW S, NEW s \in Seq(S), NEW t \in Seq(S),
         IsInjective(s), IsInjective(t), Range(s) \cap Range(t) = {}
  PROVE  IsInjective(s \o t) /\ Range(s \o t) = Range(s) \cup Range(t)
<1>1. /\ s \o t \in Seq(S) /\ Len(s) \in Nat /\ Len(t) \in Nat
      /\ Len(s \o t) = Len(s) + Len(t)
      /\ DOMAIN s = 1 .. Len(s) /\ DOMAIN t = 1 .. Len(t)
      /\ DOMAIN (s \o t) = 1 .. Len(s) + Len(t)
      /\ \A i \in 1 .. Len(s) : (s \o t)[i] = s[i]
      /\ \A i \in 1 .. Len(t) : (s \o t)[Len(s) + i] = t[i]
  OBVIOUS
<1> DEFINE q == s \o t
           m == Len(s)
           n == Len(t)
<1> HIDE DEF q
<1>2. \A i \in 1 .. m + n : i \in 1 .. m \/ \E j \in 1 .. n : i = m + j
  <2> SUFFICES ASSUME NEW i \in 1 .. m + n, i \notin 1 .. m
               PROVE  \E j \in 1 .. n : i = m + j
    OBVIOUS
  <2>1. i - m \in 1 .. n /\ i = m + (i - m)
    BY <1>1
  <2> QED
    BY <2>1
<1>3. /\ DOMAIN q = 1 .. m + n
      /\ \A i \in 1 .. m : q[i] = s[i]
      /\ \A i \in 1 .. n : q[m + i] = t[i]
      /\ \A i \in 1 .. m : i \in 1 .. m + n
      /\ \A i \in 1 .. n : m + i \in 1 .. m + n
  BY <1>1 DEF q
<1>4. Range(q) = Range(s) \cup Range(t)
  <2>1. ASSUME NEW x \in Range(q)
        PROVE  x \in Range(s) \cup Range(t)
    <3>1. PICK i \in 1 .. m + n : x = q[i]
      BY <1>3 DEF Range
    <3>2. CASE i \in 1 .. m
      <4>1. x = s[i] /\ i \in DOMAIN s
        BY <1>1, <1>3, <3>1, <3>2
      <4> QED
        BY <4>1 DEF Range
    <3>3. CASE \E j \in 1 .. n : i = m + j
      <4>1. PICK j \in 1 .. n : i = m + j
        BY <3>3
      <4>2. x = t[j] /\ j \in DOMAIN t
        BY <1>1, <1>3, <3>1, <4>1
      <4> QED
        BY <4>2 DEF Range
    <3> QED
      BY <1>2, <3>2, <3>3
  <2>2. ASSUME NEW x \in Range(s)
        PROVE  x \in Range(q)
    <3>1. PICK i \in 1 .. m : x = s[i]
      BY <1>1 DEF Range
    <3>2. i \in DOMAIN q /\ x = q[i]
      BY <1>3, <3>1
    <3> QED
      BY <3>2 DEF Range
  <2>3. ASSUME NEW x \in Range(t)
        PROVE  x \in Range(q)
    <3>1. PICK i \in 1 .. n : x = t[i]
      BY <1>1 DEF Range
    <3>2. m + i \in DOMAIN q /\ x = q[m + i]
      BY <1>3, <3>1
    <3> QED
      BY <3>2 DEF Range
  <2> QED
    BY <2>1, <2>2, <2>3
<1>5. ASSUME NEW i \in 1 .. m + n, NEW j \in 1 .. m + n, q[i] = q[j]
      PROVE  i = j
  <2>1. \A a \in 1 .. m, b \in 1 .. n : s[a] # t[b]
    BY <1>1 DEF Range
  <2>2. CASE i \in 1 .. m /\ j \in 1 .. m
    BY <1>1, <1>3, <1>5, <2>2 DEF IsInjective
  <2>3. CASE \E a \in 1 .. n : i = m + a /\ \E b \in 1 .. n : j = m + b
    <3>1. PICK a \in 1 .. n, b \in 1 .. n : i = m + a /\ j = m + b
      BY <2>3
    <3>2. t[a] = t[b]
      BY <1>3, <1>5, <3>1
    <3> QED
      BY <1>1, <3>1, <3>2 DEF IsInjective
  <2>4. CASE i \in 1 .. m /\ \E b \in 1 .. n : j = m + b
    BY <1>3, <1>5, <2>1, <2>4
  <2>5. CASE j \in 1 .. m /\ \E b \in 1 .. n : i = m + b
    BY <1>3, <1>5, <2>1, <2>5
  <2> QED
    BY <1>2, <2>2, <2>3, <2>4, <2>5
<1> QED
  BY <1>3, <1>4, <1>5 DEF IsInjective, q

(* Once a node has handed a packet to its link layer, the packet is only   *)
(* ever at nodes that are nearer to the destination.                       *)
NotAtHome == \A n \in Node : \A p \in NP!Range(stack[n]) : p.dest # n
Noted == forwards \in [Node -> Seq(packets)]
Onward ==
  \A k \in Node : \A p \in Range(forwards[k]) :
    /\ \A n \in Node : p \in NP!Range(stack[n]) => Nearer(n, k, p.dest)
    /\ \A h \in link : h.pack = p => Nearer(h.to, k, p.dest)

Progress == NotAtHome /\ Noted /\ ForwardedOnce /\ Onward

(* A packet that goes on from n was not there before. *)
LEMMA NotTwice ==
  ASSUME StackInv, Progress, NEW n \in Node, NEW p \in NP!Packet,
         p.dest # n, p \in Range(forwards[n])
  PROVE  ~ Nearer(n, n, p.dest)
<1>1. p.dest \in Node
  BY DEF NP!Packet
<1> QED
  BY <1>1, NearerOrder

(* What a handler of node n needs of its packets and routes. *)
Guides(n, E, best, kept) ==
  /\ IsFiniteSet(E) /\ E \subseteq NP!Packet /\ kept \subseteq link
  /\ best \in NP!Routes(n)
  /\ \A p \in E : p.dest # n
  /\ \A p \in NP!Packet : p.dest # n /\ NP!Routed(best, p) =>
       Nearer(best[NP!Query(p)], n, p.dest)
  /\ \A k \in Node : \A p \in E \cap Range(forwards[k]) : Nearer(n, k, p.dest)
  /\ packets' = packets \cup E

(* A handler that lets packets go on to nearer nodes only, preserves       *)
(* Progress.                                                               *)
LEMMA HandlerProgress ==
  ASSUME StackInv, NP!IInv', [Next]_vars, Progress, NEW n \in Node, NEW E,
         NEW best, NEW kept, Guides(n, E, best, kept),
         NP!Effect(n, E, best, kept), NoteForwards(n)
  PROVE  Progress'
<1>1. PICK w : /\ NP!Handles(n, E, w) /\ NP!Guided(n, best, w)
               /\ NP!Store(n, w) /\ link' = kept \cup w.out
  BY DEF NP!Effect
<1> DEFINE S == {h.pack : h \in link' \ link}
           here == NP!Range(stack[n]) \cup E
<1>2. /\ DOMAIN stack = Node /\ stack[n] \in Seq(NP!Packet)
      /\ packets \subseteq NP!Packet
      /\ \A h \in link' : h.to \in Node
  BY DEF StackInv, NP!IInv, NP!Types
<1>3. stack' = [stack EXCEPT ![n] = w.stack]
  BY <1>1 DEF NP!Store
<1>4. stack'[n] = w.stack /\ \A m \in Node \ {n} : stack'[m] = stack[m]
  BY <1>2, <1>3
<1>5. NP!Range(w.stack) \subseteq here /\ \A h \in w.out : h.pack \in here
  BY <1>1 DEF NP!Handles, NP!OutPacks
<1>6. E \subseteq NP!Packet /\ kept \subseteq link /\ packets' = packets \cup E
  BY DEF Guides
<1>7. here \subseteq NP!Packet /\ NP!Range(stack[n]) \subseteq packets
  <2>1. NP!Range(stack[n]) \subseteq packets
    BY DEF StackInv, NP!IInv, NP!NoneMissing, NP!Buffered
  <2> QED
    BY <1>2, <1>6, <2>1
<1>8. \A p \in here : p.dest # n /\ p.dest \in Node
  <2>1. \A p \in here : p.dest # n
    BY DEF Progress, NotAtHome, Guides
  <2>2. \A p \in NP!Packet : p.dest \in Node
    BY DEF NP!Packet
  <2> QED
    BY <1>7, <2>1, <2>2
<1>9. ASSUME NEW p \in here, NEW k \in Node, p \in Range(forwards[k])
      PROVE  Nearer(n, k, p.dest)
  <2>1. CASE p \in E
    BY <1>9, <2>1 DEF Guides
  <2>2. CASE p \in NP!Range(stack[n])
    BY <1>9, <2>2 DEF Progress, Onward
  <2> QED
    BY <2>1, <2>2
<1>10. ASSUME NEW h \in w.out
       PROVE  /\ Nearer(h.to, n, h.pack.dest) /\ h.pack \in here
              /\ h.to \in Node
  <2>1. /\ NP!Routed(best, h.pack) /\ h = NP!Hop(best, h.pack)
        /\ h.pack \in here
    BY <1>1, <1>5 DEF NP!Guided
  <2>2. h.to = best[NP!Query(h.pack)]
    BY <2>1 DEF NP!Hop
  <2>3. h.pack \in NP!Packet /\ h.pack.dest # n
    BY <1>7, <1>8, <2>1
  <2>4. Nearer(best[NP!Query(h.pack)], n, h.pack.dest)
    BY <2>1, <2>3 DEF Guides
  <2> QED
    BY <1>1, <1>2, <2>1, <2>2, <2>4
<1> HIDE DEF here
<1>11. \A p \in S : \E h \in w.out : h \in link' /\ h.pack = p
  BY <1>1, <1>6
<1>12. S \subseteq here /\ S \subseteq packets'
  <2>1. S \subseteq here
    BY <1>5, <1>11
  <2> QED
    BY <1>6, <1>7, <2>1 DEF here
<1>13. IsFiniteSet(S)
  <2>1. IsFiniteSet(NP!Range(stack[n]))
    BY <1>2, RangeIsFinite
  <2>2. IsFiniteSet(E)
    BY DEF Guides
  <2>3. IsFiniteSet(here)
    BY <2>1, <2>2, FS_Union DEF here
  <2> HIDE DEF S
  <2> QED
    BY <1>12, <2>3, FS_Subset
<1> DEFINE t == SetToSeq(S)
<1>14. forwards' = [forwards EXCEPT ![n] = @ \o t]
  BY DEF NoteForwards
<1> HIDE DEF S
<1>15. t \in Seq(S) /\ IsInjective(t)
  BY <1>13, SetToSeqFacts
<1>16. Range(t) \subseteq S
  BY <1>15 DEF Range
<1> HIDE DEF t
<1>17. forwards \in [Node -> Seq(packets)]
  BY DEF Progress, Noted
<1>18. /\ forwards'[n] = forwards[n] \o t
       /\ \A k \in Node \ {n} : forwards'[k] = forwards[k]
  BY <1>14, <1>17
<1>19. Range(forwards[n]) \cap Range(t) = {}
  <2> SUFFICES ASSUME NEW p \in Range(forwards[n]), p \in S
               PROVE  FALSE
    BY <1>16
  <2>1. p \in here
    BY <1>12
  <2>2. Nearer(n, n, p.dest) /\ p.dest \in Node
    BY <1>8, <1>9, <2>1
  <2> QED
    BY <2>2, NearerOrder
<1>20. /\ IsInjective(forwards'[n])
       /\ Range(forwards'[n]) = Range(forwards[n]) \cup Range(t)
       /\ forwards'[n] \in Seq(packets')
  <2>1. forwards[n] \in Seq(packets') /\ t \in Seq(packets')
    BY <1>6, <1>12, <1>15, <1>17
  <2>2. IsInjective(forwards[n])
    BY DEF Progress, ForwardedOnce
  <2>3. /\ IsInjective(forwards[n] \o t)
        /\ Range(forwards[n] \o t) = Range(forwards[n]) \cup Range(t)
    BY <1>15, <1>19, <2>1, <2>2, ConcatInjective
  <2> QED
    BY <1>18, <2>1, <2>3
<1>21. Noted'
  <2>1. ASSUME NEW k \in Node
        PROVE  forwards'[k] \in Seq(packets')
    <3>1. forwards[k] \in Seq(packets')
      BY <1>6, <1>17
    <3>2. CASE k = n
      BY <1>20, <3>2
    <3>3. CASE k # n
      BY <1>18, <3>1, <3>3
    <3> QED
      BY <3>2, <3>3
  <2>2. forwards' = [k \in Node |-> forwards'[k]]
    BY <1>14, <1>17
  <2> QED
    BY <2>1, <2>2 DEF Noted
<1>22. ForwardedOnce'
  BY <1>18, <1>20 DEF Progress, ForwardedOnce
<1>23. NotAtHome'
  BY <1>4, <1>5, <1>8 DEF Progress, NotAtHome
<1>24. ASSUME NEW k \in Node, NEW p \in Range(forwards'[k])
       PROVE  /\ \A m \in Node : p \in NP!Range(stack'[m]) =>
                                   Nearer(m, k, p.dest)
              /\ \A h \in link' : h.pack = p => Nearer(h.to, k, p.dest)
  <2>1. p \in Range(forwards[k]) \/ (k = n /\ p \in S)
    BY <1>16, <1>18, <1>20
  <2>2. CASE p \in Range(forwards[k])
    <3>1. ASSUME NEW m \in Node, p \in NP!Range(stack'[m])
          PROVE  Nearer(m, k, p.dest)
      <4>1. CASE m = n
        BY <1>4, <1>5, <1>9, <2>2, <3>1, <4>1
      <4>2. CASE m # n
        BY <1>4, <2>2, <3>1, <4>2 DEF Progress, Onward
      <4> QED
        BY <4>1, <4>2
    <3>2. ASSUME NEW h \in link', h.pack = p
          PROVE  Nearer(h.to, k, p.dest)
      <4>1. CASE h \in link
        BY <2>2, <3>2, <4>1 DEF Progress, Onward
      <4>2. CASE h \in w.out
        <5>1. /\ Nearer(h.to, n, p.dest) /\ p \in here /\ h.to \in Node
          BY <1>10, <3>2, <4>2
        <5>2. Nearer(n, k, p.dest) /\ p.dest \in Node
          BY <1>8, <1>9, <2>2, <5>1
        <5> DEFINE m == h.to
                   d == p.dest
        <5>3. m \in Node /\ d \in Node /\ Nearer(m, n, d) /\ Nearer(n, k, d)
          BY <5>1, <5>2
        <5> HIDE DEF m, d
        <5>4. Nearer(m, k, d)
          BY <5>3, NearerOrder
        <5> QED
          BY <5>4 DEF m, d
      <4> QED
        BY <1>1, <1>6, <4>1, <4>2
    <3> QED
      BY <3>1, <3>2
  <2>3. CASE k = n /\ p \in S
    <3>1. PICK g \in w.out : g \in link' /\ g.pack = p
      BY <1>11, <2>3
    <3>2. \A h \in link' : h.pack = p => h = g
      BY <3>1 DEF NP!IInv, NP!OnePlace
    <3>3. Nearer(g.to, n, p.dest)
      BY <1>10, <3>1
    <3>4. \A m \in Node : p \notin NP!Range(stack'[m])
      BY <3>1 DEF NP!IInv, NP!OnePlace, NP!Buffered, NP!OnLink
    <3> QED
      BY <2>3, <3>2, <3>3, <3>4
  <2> QED
    BY <2>1, <2>2, <2>3
<1>25. Onward'
  <2> SUFFICES ASSUME NEW k \in Node, NEW p \in Range(forwards'[k])
               PROVE  /\ \A m \in Node : p \in NP!Range(stack'[m]) =>
                                           Nearer(m, k, p.dest)'
                      /\ \A h \in link' : h.pack = p =>
                                            Nearer(h.to, k, p.dest)'
    BY DEF Onward
  <2> DEFINE d == p.dest
  <2>1. d \in Node
    <3>1. forwards'[k] \in Seq(packets')
      BY <1>21 DEF Noted
    <3>2. p \in NP!Packet
      BY <1>2, <1>6, <3>1 DEF Range
    <3> QED
      BY <3>2 DEF NP!Packet
  <2>2. /\ \A m \in Node : p \in NP!Range(stack'[m]) => Nearer(m, k, d)
        /\ \A h \in link' : h.pack = p => Nearer(h.to, k, d)
    BY <1>24
  <2> HIDE DEF d
  <2>3. \A m \in Node : Nearer(m, k, d)' <=> Nearer(m, k, d)
    BY <2>1, NearerStays
  <2>4. ASSUME NEW h \in link', h.pack = p
        PROVE  Nearer(h.to, k, d)'
    <3>1. PICK m \in Node : m = h.to
      BY <1>2
    <3> QED
      BY <2>2, <2>3, <2>4, <3>1
  <2> QED
    BY <2>2, <2>3, <2>4 DEF d
<1> QED
  BY <1>21, <1>22, <1>23, <1>25 DEF Progress

(* Nothing is forwarded: a packet can only leave the links. *)
LEMMA ProgressStays ==
  ASSUME StackInv, [Next]_vars, Progress,
         UNCHANGED <<stack, forwards, packets>>, link' \subseteq link
  PROVE  Progress'
<1>1. NotAtHome' /\ Noted' /\ ForwardedOnce'
  BY DEF Progress, NotAtHome, Noted, ForwardedOnce
<1>2. Onward'
  <2> SUFFICES ASSUME NEW k \in Node, NEW p \in Range(forwards[k])
               PROVE  /\ \A m \in Node : p \in NP!Range(stack[m]) =>
                                           Nearer(m, k, p.dest)'
                      /\ \A h \in link' : h.pack = p =>
                                            Nearer(h.to, k, p.dest)'
    BY DEF Onward
  <2> DEFINE d == p.dest
  <2>1. d \in Node
    <3>1. p \in packets
      BY DEF Progress, Noted, Range
    <3> QED
      BY <3>1 DEF StackInv, NP!IInv, NP!Types, NP!Packet
  <2>2. /\ \A m \in Node : p \in NP!Range(stack[m]) => Nearer(m, k, d)
        /\ \A h \in link' : h.pack = p => Nearer(h.to, k, d)
    BY DEF Progress, Onward
  <2> HIDE DEF d
  <2>3. \A m \in Node : Nearer(m, k, d)' <=> Nearer(m, k, d)
    BY <2>1, NearerStays
  <2>4. ASSUME NEW h \in link', h.pack = p
        PROVE  Nearer(h.to, k, d)'
    <3>1. PICK m \in Node : m = h.to
      BY DEF StackInv, NP!IInv, NP!Types
    <3> QED
      BY <2>2, <2>3, <2>4, <3>1
  <2> QED
    BY <2>2, <2>3, <2>4 DEF d
<1> QED
  BY <1>1, <1>2 DEF Progress

LEMMA RoutedNearer ==
  ASSUME StackInv, AllStill, NEW n \in Node, NEW p \in NP!Packet,
         p.dest # n, NP!Routed(Route(n), p)
  PROVE  Nearer(Route(n)[NP!Query(p)], n, p.dest)
BY NextIsNearer DEF RoutesAreNearer

LEMMA SendProgress ==
  ASSUME StackInv, AllStill, Progress, [Next]_vars, NEW t \in Traffic,
         AppRdy(t)
  PROVE  Progress'
<1> DEFINE n == t[1]
           E == Fresh(t)
           best == Route(n)
<1>1. /\ NP!IInv' /\ n \in Node
      /\ NP!Effect(n, E, best, link)
      /\ packets' = packets \cup E /\ E \cap packets = {}
      /\ \A p \in E : p.dest # n
  BY AppRdyFacts
<1>2. IsFiniteSet(E) /\ E \subseteq NP!Packet
  <2>1. msg_num_counter[t[1]] < MaxMessages
    BY DEF AppRdy, T!Cut
  <2>2. Packs(TP!NewMessage(t)) \in Seq(NP!Packet)
    BY <2>1, PacksFacts
  <2> QED
    BY <2>2, RangeIsFinite DEF Fresh, NP!Range
<1>3. NoteForwards(n)
  <2>1. NoteForwards(T!NewMessage(t).src)
    BY DEF AppRdy
  <2> QED
    BY <2>1 DEF T!NewMessage
<1>4. best \in NP!Routes(n)
  BY <1>1, RouteType DEF StackInv
<1>5. \A k \in Node : E \cap Range(forwards[k]) = {}
  <2>1. \A k \in Node : Range(forwards[k]) \subseteq packets
    BY DEF Progress, Noted, Range
  <2> QED
    BY <1>1, <2>1
<1>6. \A p \in NP!Packet : p.dest # n /\ NP!Routed(best, p) =>
        Nearer(best[NP!Query(p)], n, p.dest)
  BY <1>1, RoutedNearer
<1> HIDE DEF n, E, best
<1>7. Guides(n, E, best, link)
  BY <1>1, <1>2, <1>4, <1>5, <1>6 DEF Guides
<1> QED
  BY <1>1, <1>3, <1>7, HandlerProgress

LEMMA ForwardProgress ==
  ASSUME StackInv, AllStill, Progress, [Next]_vars, NEW h \in link, Forward(h)
  PROVE  Progress'
<1> DEFINE n == h.to
           E == {h.pack}
           best == Route(n)
           kept == link \ {h}
<1>1. /\ NP!IInv' /\ n \in Node
      /\ NP!Effect(n, E, best, kept)
      /\ packets' = packets /\ h.pack \in packets /\ h.pack.dest # n
  BY ForwardFacts
<1>2. E \subseteq NP!Packet /\ IsFiniteSet(E) /\ kept \subseteq link
  <2>1. h.pack \in NP!Packet
    BY <1>1 DEF StackInv, NP!IInv, NP!Types
  <2> QED
    BY <2>1, FS_Singleton
<1>3. NoteForwards(n)
  BY DEF Forward
<1>4. best \in NP!Routes(n)
  BY <1>1, RouteType DEF StackInv
<1>5. \A k \in Node : \A p \in E \cap Range(forwards[k]) : Nearer(n, k, p.dest)
  BY DEF Progress, Onward
<1>6. \A p \in NP!Packet : p.dest # n /\ NP!Routed(best, p) =>
        Nearer(best[NP!Query(p)], n, p.dest)
  BY <1>1, RoutedNearer
<1>7. packets' = packets \cup E /\ \A p \in E : p.dest # n
  BY <1>1
<1> HIDE DEF n, E, best, kept
<1>8. Guides(n, E, best, kept)
  BY <1>2, <1>4, <1>5, <1>6, <1>7 DEF Guides
<1> QED
  BY <1>1, <1>3, <1>8, HandlerProgress

LEMMA FlushProgress ==
  ASSUME StackInv, StackInv', AllStill', Progress, [Next]_vars,
         NEW n \in Node, NEW garbage, OracleRecv(n, garbage)
  PROVE  Progress'
<1>1. PICK best \in NP!Routes(n) : /\ best = Route(n)'
                                   /\ NP!Effect(n, {}, best, link)
  BY OracleRecvFacts DEF StackInv
<1>2. packets' = packets \cup {}
  BY OracleRecvFacts DEF StackInv
<1>3. NoteForwards(n)
  BY DEF OracleRecv
<1>4. ASSUME NEW p \in NP!Packet, p.dest # n, NP!Routed(best, p)
      PROVE  Nearer(best[NP!Query(p)], n, p.dest)
  <2> DEFINE m == best[NP!Query(p)]
             d == p.dest
  <2>1. Nearer(m, n, d)'
    <3>1. RoutesAreNearer'
      BY NextIsNearerAfter
    <3>2. NP!Routed(Route(n), p)'
      BY <1>1, <1>4 DEF NP!Routed
    <3> QED
      BY <1>1, <1>4, <3>1, <3>2 DEF RoutesAreNearer
  <2>2. m \in Node /\ d \in Node
    <3>1. d \in Node /\ NP!Query(p) \in DOMAIN best /\ m # None
      <4>1. d \in Node
        BY DEF NP!Packet
      <4>2. NP!Query(p) \in Queries
        BY PacketQuery
      <4>3. DOMAIN best = Queries
        BY <1>1 DEF Route
      <4> QED
        BY <1>4, <4>1, <4>2, <4>3 DEF NP!Routed
    <3> QED
      BY <3>1 DEF NP!Routes
  <2> HIDE DEF m, d
  <2>3. Nearer(m, n, d)
    BY <2>1, <2>2, NearerStays
  <2> QED
    BY <2>3 DEF m, d
<1>5. Guides(n, {}, best, link)
  <2>1. IsFiniteSet({})
    BY FS_EmptySet
  <2> QED
    BY <1>1, <1>2, <1>4, <2>1 DEF Guides
<1> QED
  BY <1>1, <1>3, <1>5, HandlerProgress DEF StackInv

LEMMA ProgressStep ==
  ASSUME StackInv, StackInv', AllStill, AllStill', Progress, [Next]_vars
  PROVE  Progress'
<1>1. ASSUME NEW t \in Traffic, AppRdy(t)
      PROVE  Progress'
  BY <1>1, SendProgress
<1>2. ASSUME NEW h \in link, Forward(h)
      PROVE  Progress'
  BY <1>2, ForwardProgress
<1>3. ASSUME NEW h \in link, Deliver(h) \/ LinkLoses(h)
      PROVE  Progress'
  BY <1>3, ProgressStays DEF Deliver, LinkLoses, N!PassUp, N!LinkLoses
<1>4. ASSUME NEW n \in Node, SendOracleBeacon(n) \/ LinkSends(n)
      PROVE  Progress'
  BY <1>4, ProgressStays DEF SendOracleBeacon, LinkSends, network
<1>5. ASSUME NEW n \in air.to, NEW garbage \in O!Garbage(n),
             OracleRecv(n, garbage)
      PROVE  Progress'
  <2>1. n \in Node
    BY DEF StackInv, OP!IInv, OP!Types
  <2> QED
    BY <1>5, <2>1, FlushProgress
<1>6. ASSUME Tick \/ UNCHANGED vars
      PROVE  Progress'
  BY <1>6, ProgressStays DEF Tick, vars, network
<1> QED
  BY <1>1, <1>2, <1>3, <1>4, <1>5, <1>6 DEF Next

LEMMA InitProgress == Init => AllStill /\ Progress
<1> SUFFICES ASSUME Init
             PROVE  AllStill /\ Progress
  OBVIOUS
<1>1. /\ \A n \in Node : stack[n] = <<>> /\ forwards[n] = <<>>
      /\ forwards = [n \in Node |-> <<>>] /\ clock = 1
  BY DEF Init, N!Init, O!Init
<1>2. AllStill
  BY <1>1 DEF AllStill
<1>3. NotAtHome /\ Noted /\ ForwardedOnce /\ Onward
  BY <1>1 DEF NotAtHome, Noted, ForwardedOnce, Onward, NP!Range, Range,
              IsInjective
<1> QED
  BY <1>2, <1>3 DEF Progress

(* In any world in which no node moves, no node hands a packet to its link *)
(* layer twice, as oracle.c:11 says.  dtn_moving shows that this           *)
(* assumption is needed.                                                   *)
THEOREM ForwardedOnceHolds == Still => (Spec => []ForwardedOnce)
<1> SUFFICES ASSUME Still
             PROVE  Spec => []ForwardedOnce
  OBVIOUS
<1> DEFINE Inv == StackInv /\ AllStill /\ Progress
<1>1. Init => Inv
  BY InitStack, InitProgress
<1>2. Inv /\ [Next]_vars => Inv'
  <2> SUFFICES ASSUME StackInv, AllStill, Progress, [Next]_vars
               PROVE  StackInv' /\ AllStill' /\ Progress'
    OBVIOUS
  <2>1. StackInv' /\ AllStill'
    BY StackStep, StillStep
  <2> QED
    BY <2>1, ProgressStep
<1>3. Inv => ForwardedOnce
  BY DEF Progress
<1> QED
  BY <1>1, <1>2, <1>3, PTL DEF Spec
=============================================================================
