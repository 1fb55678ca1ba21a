------------------------------- MODULE Oracle --------------------------------
(***************************************************************************)
(* The oracle of every node (src/oracle.c): each node broadcasts where it  *)
(* is and where it last knew the others, and chooses the next node for a   *)
(* packet from what it has heard.                                          *)
(*   SendOracleBeacon - the timer EV_TIMER7                                *)
(*   LinkSends        - the link layer transmits the beacon that waits     *)
(*   OracleRecv       - a call from the link layer                         *)
(*   Tick             - time passes; a node may move (src/walking.c)       *)
(* A beacon waits in the link layer until it is sent or the next replaces  *)
(* it, and any of the nodes in range may miss it.  It reaches the others   *)
(* at the same moment: they receive it one after the other, before         *)
(* anything else happens.  All nodes start together and their timers are   *)
(* exact, so that all beacons of a round are built before any is sent; the *)
(* order in which that is done makes no difference.                        *)
(***************************************************************************)
EXTENDS Integers, FiniteSets, Functions, FiniteSetsExt

CONSTANTS
  Node,            \* the node numbers
  None,            \* there is no good node
  Starts,          \* the possible places <<x, y>> of all nodes at the start
  Moves,           \* [n] the moves <<from, to>> that n may make in a tick
  Reach,           \* nodes hear each other up to this distance
  FreeBytes,       \* what free may hold before it is set, and sizes
  Announced,       \* [n][t] those that n may announce at time t
  ORACLEINTERVAL,  \* ticks from beacon to beacon
  ORACLEWAIT,      \* ticks that a node stays live after its beacon
  MINDIST,         \* by how much the next node must be closer
  MaxRecords,      \* MAX_ORACLE_PAYLOAD / sizeof(NODELOCATION)
  MaxTime          \* bound: ticks

ASSUME OracleAssumption ==
  /\ Node \subseteq Nat /\ IsFiniteSet(Node) /\ None \notin Node
  /\ Starts \subseteq [Node -> Int \X Int]
  /\ Moves \in [Node -> SUBSET ((Int \X Int) \X (Int \X Int))]
  /\ FreeBytes \subseteq Nat
  /\ Announced \in [Node -> [1 .. MaxTime -> SUBSET Nat]]
  /\ {ORACLEINTERVAL, MaxRecords, MaxTime} \subseteq Nat \ {0}
  /\ {Reach, ORACLEWAIT, MINDIST} \subseteq Nat

VARIABLES
  positionDB,  \* [n] by address: [loc, timestamp, lastBeacon, free]
  due,         \* [n] when EV_TIMER7 fires
  info,        \* [n] the beacon that waits in n's link layer
  air,         \* the beacon on the air, and the nodes it has yet to reach
  clock,       \* time, the same for all nodes
  path,        \* [n] where n was, at each time up to the clock
  heard        \* history: [n] by address: the last beacon heard from there

vars == <<positionDB, due, info, air, clock, path, heard>>

Empty == [m \in {} |-> None]

(* The first beacons go 1000 microseconds after the start: at time 1, so   *)
(* that lastBeacon = 0 is before any of them.                              *)
Init ==
  /\ positionDB = [n \in Node |-> Empty]
  /\ due = [n \in Node |-> 1]
  /\ info = [n \in Node |-> None]
  /\ air = [beacon |-> None, to |-> {}]
  /\ clock = 1
  /\ \E places \in Starts : path = [n \in Node |-> [t \in {1} |-> places[n]]]
  /\ heard = [n \in Node |-> Empty]

Pos(n) == path[n][clock]
Square(a, b) == (a[1] - b[1]) * (a[1] - b[1]) + (a[2] - b[2]) * (a[2] - b[2])

-----------------------------------------------------------------------------
(* The database.  The array sorted by address is a function of it. *)

AsIfHeard(nl, garbage) ==                              \* a faulty variant
  [loc |-> nl.loc, timestamp |-> nl.timestamp,
   lastBeacon |-> clock, free |-> garbage]

(* A record that is appended.  Its free space is not initialised. *)
Appended(nl, garbage) ==
  [loc |-> nl.loc, timestamp |-> nl.timestamp,
   lastBeacon |-> 0, free |-> garbage]

LocationOnly(r, nl) == [r EXCEPT !.loc = nl.loc]       \* a faulty variant

Updated(r, nl) == [r EXCEPT !.loc = nl.loc, !.timestamp = nl.timestamp]

Differs(r, nl) == r.timestamp # nl.timestamp           \* a faulty variant

IsNewer(r, nl) == r.timestamp < nl.timestamp

(* The record of m after savePosition. *)
SavePosition(db, m, nl, garbage) ==
  IF m \notin DOMAIN db THEN Appended(nl, garbage)
  ELSE IF IsNewer(db[m], nl) THEN Updated(db[m], nl) ELSE db[m]

StaysNewest(db, k, m) ==                               \* a faulty variant
  \/ db[k].lastBeacon < db[m].lastBeacon
  \/ db[k].lastBeacon = db[m].lastBeacon /\ k > m

(* pruneOldestRecord removes m before k. *)
StaysLonger(db, k, m) ==
  \/ db[k].lastBeacon > db[m].lastBeacon
  \/ db[k].lastBeacon = db[m].lastBeacon /\ k > m

Pruned(db) ==
  Restrict(db, {m \in DOMAIN db :
    Cardinality({k \in DOMAIN db : StaysLonger(db, k, m)}) < MaxRecords})

-----------------------------------------------------------------------------
(* The handlers *)

(* The beacon of node n, with all that the database db knows. *)
OraclePacket(n, db, free) ==
  [sender |-> n,
   senderLocation |-> [loc |-> Pos(n), timestamp |-> clock],
   free |-> free,
   locations |-> [m \in DOMAIN db |-> [loc |-> db[m].loc,
                                       timestamp |-> db[m].timestamp]]]

Due == {n \in Node : due[n] = clock}

SendOracleBeacon(n, free) ==
  /\ air.to = {}
  /\ n \in Due /\ n = Min(Due)
  /\ positionDB' = [positionDB EXCEPT ![n] = Pruned(@)]
  /\ info' = [info EXCEPT ![n] = OraclePacket(n, positionDB'[n], free)]
  /\ due' = [due EXCEPT ![n] = clock + ORACLEINTERVAL]
  /\ UNCHANGED <<air, clock, path, heard>>

InReach(n, m) == Square(Pos(n), Pos(m)) <= Reach * Reach

(* No event of this moment is left. *)
Quiet == air.to = {} /\ Due = {}

LinkSends(m) ==
  /\ info[m] # None
  /\ Quiet
  /\ \E to \in SUBSET {n \in Node \ {m} : InReach(n, m)} :
       air' = [beacon |-> IF to = {} THEN None ELSE info[m], to |-> to]
  /\ info' = [info EXCEPT ![m] = None]
  /\ UNCHANGED <<positionDB, due, clock, path, heard>>

SavedAll(n, p) == DOMAIN p.locations                   \* a faulty variant

(* The positions in p that node n saves. *)
Saved(n, p) == DOMAIN p.locations \ {n}

(* What may be in the records that n appends for positions in the beacon.  *)
Garbage(n) == [DOMAIN air.beacon.locations \ DOMAIN positionDB[n] -> FreeBytes]

(* processBeacon at node n: the positions of others, then the sender's.    *)
ProcessBeacon(n, p, garbage) ==
  LET db == positionDB[n]
      db2 == [m \in DOMAIN db \cup Saved(n, p) |->
                IF m \in Saved(n, p)
                THEN SavePosition(db, m, p.locations[m], garbage[m])
                ELSE db[m]]
      s == p.sender
      r == SavePosition(db2, s, p.senderLocation, p.free)
      db3 == [m \in DOMAIN db2 \cup {s} |->
                IF m = s THEN [r EXCEPT !.lastBeacon = clock, !.free = p.free]
                         ELSE db2[m]]
  IN  positionDB' = [positionDB EXCEPT ![n] = db3]

(* The flush of the network layer's buffer is added in module Dtn. *)
OracleRecv(n, garbage) ==
  LET p == air.beacon
      rest == air.to \ {n}
  IN  /\ n = Min(air.to)
      /\ ProcessBeacon(n, p, garbage)
      /\ air' = [beacon |-> IF rest = {} THEN None ELSE p, to |-> rest]
      /\ heard' = [heard EXCEPT ![n] =
           [k \in DOMAIN @ \cup {p.sender} |->
              IF k = p.sender THEN [at |-> clock, free |-> p.free] ELSE @[k]]]
      /\ UNCHANGED <<due, info, clock, path>>

Tick ==
  /\ clock < MaxTime
  /\ Quiet
  /\ clock' = clock + 1
  /\ \E to \in [Node -> {move[2] : move \in UNION Range(Moves)}
                        \cup {Pos(n) : n \in Node}] :
       /\ \A n \in Node : to[n] = Pos(n) \/ <<Pos(n), to[n]>> \in Moves[n]
       /\ path' = [n \in Node |->
                     [t \in 1 .. clock' |->
                        IF t = clock' THEN to[n] ELSE path[n][t]]]
  /\ UNCHANGED <<positionDB, due, info, air, heard>>

-----------------------------------------------------------------------------
(* The choice *)

Knows(n, a) == a \in DOMAIN positionDB[n]

(* r's node is taken for a neighbour. *)
Live(r) == clock <= r.lastBeacon + ORACLEWAIT

IsInReach(a, b, c, interval) ==       \* a faulty variant
  Square(a, b) <= Reach * Reach

(* By interval at least, b is closer to c than a is. *)
IsCloser(a, b, c, interval) ==
  Square(b, c) + interval * interval < Square(a, c)

GoodNodes(n, dest, size) ==
  LET db == positionDB[n] IN
  {m \in DOMAIN db :
     /\ Live(db[m])
     /\ db[m].free >= size
     /\ m = dest \/ IsCloser(Pos(n), db[m].loc, db[dest].loc, MINDIST)}

(* The first good node in the order of addresses, which is the next node   *)
(* for a packet of that size.                                              *)
GetNthBestNode(n, dest, size) ==
  IF ~Knows(n, dest) \/ GoodNodes(n, dest, size) = {}
  THEN None
  ELSE LET m == Min(GoodNodes(n, dest, size)) IN IF m # n THEN m ELSE None

Next ==
  \/ \E n \in Node : \E free \in Announced[n][clock] : SendOracleBeacon(n, free)
  \/ \E n \in Node : LinkSends(n)
  \/ \E n \in air.to : \E garbage \in Garbage(n) : OracleRecv(n, garbage)
  \/ Tick

Spec == Init /\ [][Next]_vars

-----------------------------------------------------------------------------
(* Properties *)

(* Types; a node has no record of itself (processBeacon, oracle.c:239),    *)
(* and a beacon has no more positions than fit (the assertion              *)
(* oracle.c:220).                                                          *)
TypeOK ==
  /\ clock \in 1 .. MaxTime
  /\ \A n \in Node :
       /\ DOMAIN positionDB[n] \subseteq Node \ {n}
       /\ DOMAIN heard[n] \subseteq Node \ {n}
       /\ DOMAIN path[n] = 1 .. clock
       /\ due[n] \in clock .. clock + ORACLEINTERVAL
       /\ info[n] # None =>
            /\ info[n].sender = n
            /\ Cardinality(DOMAIN info[n].locations) <= MaxRecords
       /\ \A m \in DOMAIN positionDB[n] :
            positionDB[n][m].lastBeacon \in 0 .. clock

(* However a position travelled, the node was there at the time that goes  *)
(* with it (savePosition, oracle.c:119-123).                               *)
EntriesAreTrue ==
  \A n \in Node : \A m \in DOMAIN positionDB[n] :
    LET r == positionDB[n][m] IN
    /\ r.timestamp \in DOMAIN path[m]
    /\ path[m][r.timestamp] = r.loc

(* "This function will only 'recommend' a node which is in range and has   *)
(* buffer space to transmit" (oracle.c:298-299).  Once ORACLEWAIT has      *)
(* passed, a recommended node was heard no longer ago than that, and said  *)
(* the last time that it has room.  Before, it can be one that was never   *)
(* heard: its lastBeacon of 0 counts as recent (oracle.c:323).             *)
RecommendedWasHeard ==
  \A n \in Node, dest \in Node, size \in FreeBytes :
    LET m == GetNthBestNode(n, dest, size) IN
    clock > ORACLEWAIT /\ m # None =>
      /\ m \in DOMAIN heard[n]
      /\ heard[n][m].at >= clock - ORACLEWAIT
      /\ heard[n][m].free >= size

(* The position of a node that was heard is at most one interval older     *)
(* than the beacon, whatever others said of it before and after            *)
(* (savePosition, oracle.c:119; a beacon waits no longer in link.c).       *)
HeardIsFresh ==
  \A n \in Node : \A m \in DOMAIN positionDB[n] :
    LET r == positionDB[n][m] IN
    r.lastBeacon > 0 => r.timestamp >= r.lastBeacon - ORACLEINTERVAL

(* Pruning (oracle.c:161-187) forgets a node that was heard only if those  *)
(* it keeps were all heard as recently.                                    *)
PruneSparesNeighbours ==
  [][\A n \in Node :
       \A m \in DOMAIN heard[n], k \in DOMAIN positionDB'[n] :
         m \in DOMAIN positionDB[n] \ DOMAIN positionDB'[n] =>
           /\ k \in DOMAIN heard[n]
           /\ heard[n][k].at >= heard[n][m].at]_vars
=============================================================================
