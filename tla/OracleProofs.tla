---------------------------- MODULE OracleProofs ----------------------------
(***************************************************************************)
(* Theorems about the oracle, for any nodes, places and movements, and any *)
(* size of a beacon.                                                       *)
(***************************************************************************)
EXTENDS Oracle, FiniteSetTheorems, TLAPS

-----------------------------------------------------------------------------
(* The inductive invariant *)

Place == Int \X Int
NodeLocation == [loc : Place, timestamp : Nat]
Neighbour == [loc : Place, timestamp : Nat, lastBeacon : Nat, free : Nat]

IsPositionDB(n, db) ==
  /\ DOMAIN db \subseteq Node \ {n}
  /\ db \in [DOMAIN db -> Neighbour]

IsBeacon(n, p) ==
  /\ p.sender = n
  /\ p.senderLocation \in NodeLocation
  /\ p.free \in Nat
  /\ DOMAIN p.locations \subseteq Node \ {n}
  /\ p.locations \in [DOMAIN p.locations -> NodeLocation]

Types ==
  /\ clock \in 1 .. MaxTime
  /\ path \in [Node -> [1 .. clock -> Place]]
  /\ due \in [Node -> clock .. clock + ORACLEINTERVAL]
  /\ DOMAIN positionDB = Node
  /\ \A n \in Node : IsPositionDB(n, positionDB[n])
  /\ DOMAIN info = Node
  /\ \A n \in Node : info[n] # None => IsBeacon(n, info[n])
  /\ air.to # {} => /\ air.to \subseteq Node \ {air.beacon.sender}
                    /\ air.beacon.sender \in Node
                    /\ IsBeacon(air.beacon.sender, air.beacon)
  /\ DOMAIN heard = Node
  /\ \A n \in Node :
       /\ DOMAIN heard[n] \subseteq Node \ {n}
       /\ heard[n] \in [DOMAIN heard[n] -> [at : 1 .. clock, free : Nat]]

(* Node m was at the place of nl at the time of nl. *)
WasThere(m, nl) ==
  /\ nl.timestamp \in 1 .. clock
  /\ path[m][nl.timestamp] = nl.loc

AllWereThere(nls) == \A m \in DOMAIN nls : WasThere(m, nls[m])

BeaconIsTrue(p) ==
  /\ WasThere(p.sender, p.senderLocation)
  /\ AllWereThere(p.locations)

Truth ==
  /\ \A n \in Node : AllWereThere(positionDB[n])
  /\ \A n \in Node : info[n] # None => BeaconIsTrue(info[n])
  /\ air.to # {} => BeaconIsTrue(air.beacon)

(* A beacon that waits was built with the last timer, and one on the air   *)
(* was sent before the next.                                               *)
BeaconsAreFresh ==
  /\ \A n \in Node :
       info[n] # None =>
         info[n].senderLocation.timestamp + ORACLEINTERVAL = due[n]
  /\ air.to # {} =>
       clock <= air.beacon.senderLocation.timestamp + ORACLEINTERVAL

(* lastBeacon is 0 or tells of the last beacon that was heard. *)
LastBeaconWasHeard ==
  \A n \in Node : \A m \in DOMAIN positionDB[n] :
    LET r == positionDB[n][m] IN
    r.lastBeacon > 0 =>
      /\ m \in DOMAIN heard[n]
      /\ heard[n][m] = [at |-> r.lastBeacon, free |-> r.free]

HeardSince(db, t) == {k \in DOMAIN db : db[k].lastBeacon >= t}

(* If a node that was heard is forgotten, or known second hand only, then  *)
(* a full beacon of others was heard as recently.                          *)
ForgottenForOthers ==
  \A n \in Node : \A m \in DOMAIN heard[n] :
    LET db == positionDB[n] IN
    \/ m \in DOMAIN db /\ db[m].lastBeacon = heard[n][m].at
    \/ Cardinality(HeardSince(db, heard[n][m].at)) >= MaxRecords

BeaconsFit ==
  \A n \in Node : info[n] # None =>
    Cardinality(DOMAIN info[n].locations) <= MaxRecords

LastBeaconIsPast ==
  \A n \in Node : \A m \in DOMAIN positionDB[n] :
    positionDB[n][m].lastBeacon \in 0 .. clock

IInv ==
  /\ Types /\ Truth /\ BeaconsAreFresh /\ HeardIsFresh
  /\ LastBeaconWasHeard /\ ForgottenForOthers /\ BeaconsFit
  /\ LastBeaconIsPast

-----------------------------------------------------------------------------
(* Minima of sets of numbers *)

LEMMA LeastNumber ==
  ASSUME NEW S \in SUBSET Nat, S # {}
  PROVE  \E x \in S : \A y \in S : x <= y
<1>1. PICK x \in S : \A y \in S : ~ (<<y, x>> \in OpToRel(<, Nat))
  <2> HIDE DEF OpToRel
  <2> QED
    BY NatLessThanWellFounded, WFMin
<1>2. ASSUME NEW y \in S, y < x
      PROVE  FALSE
  <2>1. <<y, x>> \in Nat \X Nat /\ <<y, x>>[1] < <<y, x>>[2]
    BY <1>2
  <2>2. <<y, x>> \in OpToRel(<, Nat)
    BY <2>1 DEF OpToRel
  <2> QED
    BY <1>1, <2>2
<1>3. \A y \in S : x <= y
  BY <1>2
<1> QED
  BY <1>3

LEMMA MinInSet ==
  ASSUME NEW S \in SUBSET Nat, S # {}
  PROVE  Min(S) \in S /\ \A y \in S : Min(S) <= y
BY LeastNumber DEF Min

-----------------------------------------------------------------------------
(* Pruning *)

IsDB(db) ==
  /\ IsFiniteSet(DOMAIN db)
  /\ DOMAIN db \subseteq Nat
  /\ \A m \in DOMAIN db : db[m].lastBeacon \in Nat

Longer(db, m) == {k \in DOMAIN db : StaysLonger(db, k, m)}
Rank(db, m) == Cardinality(Longer(db, m))

LEMMA LongerOrder ==
  ASSUME NEW db, IsDB(db), NEW k \in DOMAIN db, NEW m \in DOMAIN db
  PROVE  /\ k = m \/ k \in Longer(db, m) \/ m \in Longer(db, k)
         /\ k \in Longer(db, m) =>
              /\ k # m
              /\ db[k].lastBeacon >= db[m].lastBeacon
              /\ Longer(db, k) \subseteq Longer(db, m) \ {k}
BY DEF IsDB, Longer, StaysLonger

LEMMA RankOrder ==
  ASSUME NEW db, IsDB(db), NEW m \in DOMAIN db
  PROVE  /\ IsFiniteSet(Longer(db, m))
         /\ Rank(db, m) \in Nat
         /\ \A k \in Longer(db, m) : Rank(db, k) < Rank(db, m)
<1>1. IsFiniteSet(Longer(db, m)) /\ Rank(db, m) \in Nat
  BY FS_Subset, FS_CardinalityType DEF IsDB, Longer, Rank
<1>2. ASSUME NEW k \in Longer(db, m)
      PROVE  Rank(db, k) < Rank(db, m)
  <2>1. k \in DOMAIN db
    BY DEF Longer
  <2>2. Longer(db, k) \subseteq Longer(db, m) \ {k}
    BY <2>1, LongerOrder
  <2>3. /\ IsFiniteSet(Longer(db, m) \ {k})
        /\ Cardinality(Longer(db, m) \ {k}) = Rank(db, m) - 1
    BY <1>1, FS_RemoveElement DEF Rank
  <2>4. Rank(db, k) <= Rank(db, m) - 1
    BY <2>2, <2>3, FS_Subset DEF Rank
  <2>5. Rank(db, k) \in Nat
    BY <2>1, FS_Subset, FS_CardinalityType DEF IsDB, Longer, Rank
  <2> QED
    BY <1>1, <2>4, <2>5
<1> QED
  BY <1>1, <1>2

LEMMA PrunedDomain ==
  ASSUME NEW db
  PROVE  /\ DOMAIN Pruned(db) = {m \in DOMAIN db : Rank(db, m) < MaxRecords}
         /\ \A m \in DOMAIN Pruned(db) : Pruned(db)[m] = db[m]
BY DEF Pruned, Restrict, Rank, Longer

(* What pruneDB leaves fits into a beacon. *)
LEMMA PrunedFits ==
  ASSUME NEW db, IsDB(db)
  PROVE  /\ IsFiniteSet(DOMAIN Pruned(db))
         /\ Cardinality(DOMAIN Pruned(db)) <= MaxRecords
<1> DEFINE K == DOMAIN Pruned(db)
           f == [m \in K |-> Rank(db, m)]
<1>1. K \subseteq DOMAIN db /\ \A m \in K : Rank(db, m) < MaxRecords
  BY PrunedDomain
<1>2. MaxRecords \in Nat \ {0}
  BY OracleAssumption
<1>3. f \in [K -> 0 .. MaxRecords - 1]
  BY <1>1, <1>2, RankOrder
<1>4. ASSUME NEW k \in K, NEW m \in K, f[k] = f[m]
      PROVE  k = m
  <2>1. k \in DOMAIN db /\ m \in DOMAIN db /\ Rank(db, k) = Rank(db, m)
    BY <1>1, <1>4
  <2>2. ~(k \in Longer(db, m)) /\ ~(m \in Longer(db, k))
    BY <2>1, RankOrder
  <2> QED
    BY <2>1, <2>2, LongerOrder
<1>5. f \in Injection(K, 0 .. MaxRecords - 1)
  BY <1>3, <1>4 DEF Injection, IsInjective
<1>6. /\ IsFiniteSet(0 .. MaxRecords - 1)
      /\ Cardinality(0 .. MaxRecords - 1) = MaxRecords
  BY <1>2, FS_Interval
<1> QED
  BY <1>5, <1>6, FS_Injection

(* If there is a full beacon of records as recent as t, it is left. *)
LEMMA PrunedKeepsRecent ==
  ASSUME NEW db, IsDB(db), NEW t \in Nat,
         Cardinality(HeardSince(db, t)) >= MaxRecords
  PROVE  Cardinality(HeardSince(Pruned(db), t)) >= MaxRecords
<1> DEFINE S == HeardSince(db, t)
           K == DOMAIN Pruned(db)
           P == HeardSince(Pruned(db), t)
           Gone == {r \in Nat : \E m \in S \ K : r = Rank(db, m)}
<1>1. /\ S \subseteq DOMAIN db
      /\ P = S \cap K
      /\ K = {m \in DOMAIN db : Rank(db, m) < MaxRecords}
  BY PrunedDomain DEF HeardSince
<1>2. MaxRecords \in Nat \ {0}
  BY OracleAssumption
<1>3. IsFiniteSet(P)
  BY <1>1, FS_Subset DEF IsDB
<1>4. CASE S \subseteq K
  BY <1>1, <1>4
<1>5. CASE ~(S \subseteq K)
  <2>1. Gone # {} /\ Gone \subseteq Nat
    BY <1>1, <1>5, RankOrder
  <2>2. PICK r \in Gone : \A q \in Gone : r <= q
    BY <2>1, LeastNumber
  <2>3. PICK m \in S \ K : r = Rank(db, m)
    BY <2>2
  <2>4. m \in DOMAIN db /\ Rank(db, m) \in Nat /\ Rank(db, m) >= MaxRecords
    BY <1>1, <1>2, <2>3, RankOrder
  <2>5. Longer(db, m) \subseteq S
    BY <2>4, <2>3, LongerOrder DEF HeardSince, Longer, IsDB
  <2>6. ASSUME NEW k \in Longer(db, m)
        PROVE  k \in K
    <3>1. k \in DOMAIN db /\ Rank(db, k) \in Nat /\ Rank(db, k) < r
      BY <1>1, <2>3, <2>4, <2>5, RankOrder
    <3>2. SUFFICES ASSUME k \notin K
                   PROVE  FALSE
      OBVIOUS
    <3>3. Rank(db, k) \in Gone
      BY <2>5, <3>1, <3>2
    <3> QED
      BY <2>2, <3>1, <3>3
  <2>7. Longer(db, m) \subseteq P
    BY <1>1, <2>5, <2>6
  <2>8. Rank(db, m) <= Cardinality(P)
    BY <1>3, <2>7, FS_Subset DEF Rank
  <2>9. Cardinality(P) \in Nat
    BY <1>3, FS_CardinalityType
  <2> QED
    BY <1>2, <2>4, <2>8, <2>9
<1> QED
  BY <1>4, <1>5

-----------------------------------------------------------------------------
(* Beacons *)

SameLocation(r, nl) == r.loc = nl.loc /\ r.timestamp = nl.timestamp

LEMMA ConstantTypes ==
  /\ Node \subseteq Nat /\ IsFiniteSet(Node) /\ FreeBytes \subseteq Nat
  /\ ORACLEINTERVAL \in Nat \ {0} /\ MaxRecords \in Nat \ {0}
  /\ MaxTime \in Nat \ {0} /\ ORACLEWAIT \in Nat
BY OracleAssumption

(* What savePosition makes of the record of m. *)
SavedAs(r, db, m, nl) ==
  /\ r \in Neighbour
  /\ r.timestamp >= nl.timestamp
  /\ SameLocation(r, nl) \/ (m \in DOMAIN db /\ SameLocation(r, db[m]))
  /\ m \in DOMAIN db => /\ r.lastBeacon = db[m].lastBeacon
                        /\ r.free = db[m].free
                        /\ r.timestamp >= db[m].timestamp
  /\ m \notin DOMAIN db => r.lastBeacon = 0

LEMMA SavePositionFacts ==
  ASSUME NEW db, NEW m, m \in DOMAIN db => db[m] \in Neighbour,
         NEW nl \in NodeLocation, NEW garbage \in Nat
  PROVE  SavedAs(SavePosition(db, m, nl, garbage), db, m, nl)
<1> DEFINE r == SavePosition(db, m, nl, garbage)
<1>1. CASE m \notin DOMAIN db
  BY <1>1 DEF SavePosition, Appended, SameLocation, Neighbour, NodeLocation,
              SavedAs
<1>2. CASE m \in DOMAIN db /\ IsNewer(db[m], nl)
  <2>1. r = [db[m] EXCEPT !.loc = nl.loc, !.timestamp = nl.timestamp]
    BY <1>2 DEF SavePosition, Updated
  <2>2. /\ db[m].loc \in Place /\ db[m].timestamp \in Nat
        /\ db[m].lastBeacon \in Nat /\ db[m].free \in Nat
        /\ nl.loc \in Place /\ nl.timestamp \in Nat
    BY <1>2 DEF Neighbour, NodeLocation
  <2>3. db[m] = [loc |-> db[m].loc, timestamp |-> db[m].timestamp,
                 lastBeacon |-> db[m].lastBeacon, free |-> db[m].free]
    BY <1>2 DEF Neighbour
  <2>4. r = [loc |-> nl.loc, timestamp |-> nl.timestamp,
             lastBeacon |-> db[m].lastBeacon, free |-> db[m].free]
    BY <2>1, <2>3
  <2>5. r \in Neighbour
    BY <2>2, <2>4 DEF Neighbour
  <2> QED
    BY <1>2, <2>2, <2>4, <2>5 DEF IsNewer, SameLocation, SavedAs
<1>3. CASE m \in DOMAIN db /\ ~IsNewer(db[m], nl)
  <2>1. r = db[m]
    BY <1>3 DEF SavePosition
  <2> QED
    BY <1>3, <2>1 DEF IsNewer, SameLocation, Neighbour, NodeLocation, SavedAs
<1> QED
  BY <1>1, <1>2, <1>3

(* What processBeacon does to the database of node n, where s is the       *)
(* sender of the beacon p.                                                 *)
Processed(n, s, p, db, after) ==
  /\ DOMAIN after = DOMAIN db \cup Saved(n, p) \cup {s}
  /\ IsPositionDB(n, after)
  /\ \A m \in DOMAIN after :
       \/ m \in DOMAIN db /\ SameLocation(after[m], db[m])
       \/ m \in Saved(n, p) /\ SameLocation(after[m], p.locations[m])
       \/ m = s /\ SameLocation(after[m], p.senderLocation)
  /\ after[s].lastBeacon = clock
  /\ after[s].free = p.free
  /\ after[s].timestamp >= p.senderLocation.timestamp
  /\ \A m \in DOMAIN db \ {s} :
       /\ after[m].lastBeacon = db[m].lastBeacon
       /\ after[m].free = db[m].free
       /\ after[m].timestamp >= db[m].timestamp
  /\ \A m \in DOMAIN after \ (DOMAIN db \cup {s}) : after[m].lastBeacon = 0

LEMMA ProcessBeaconFacts ==
  ASSUME Types, NEW n \in Node, NEW p, p.sender \in Node \ {n},
         IsBeacon(p.sender, p),
         NEW garbage \in [DOMAIN p.locations \ DOMAIN positionDB[n] -> FreeBytes],
         ProcessBeacon(n, p, garbage)
  PROVE  \E after : /\ positionDB' = [positionDB EXCEPT ![n] = after]
                    /\ Processed(n, p.sender, p, positionDB[n], after)
<1> DEFINE db == positionDB[n]
           s == p.sender
           db2 == [m \in DOMAIN db \cup Saved(n, p) |->
                     IF m \in Saved(n, p)
                     THEN SavePosition(db, m, p.locations[m], garbage[m])
                     ELSE db[m]]
           r == SavePosition(db2, s, p.senderLocation, p.free)
           new == [r EXCEPT !.lastBeacon = clock, !.free = p.free]
           after == [m \in DOMAIN db2 \cup {s} |-> IF m = s THEN new ELSE db2[m]]
<1>1. positionDB' = [positionDB EXCEPT ![n] = after]
  BY DEF ProcessBeacon
<1>2. /\ DOMAIN db \subseteq Node \ {n}
      /\ \A m \in DOMAIN db : db[m] \in Neighbour
      /\ clock \in Nat
  BY ConstantTypes DEF Types, IsPositionDB
<1>3. /\ Saved(n, p) \subseteq Node \ {n, s}
      /\ p.senderLocation \in NodeLocation /\ p.free \in Nat
      /\ \A m \in Saved(n, p) : p.locations[m] \in NodeLocation
  BY ConstantTypes DEF IsBeacon, Saved
<1>4. ASSUME NEW m \in Saved(n, p)
      PROVE  SavedAs(db2[m], db, m, p.locations[m])
  <2>1. CASE m \in DOMAIN db
    <3>1. db2[m] = SavePosition(db, m, p.locations[m], 0)
      BY <2>1 DEF SavePosition
    <3> HIDE DEF db2
    <3> QED
      BY <1>2, <1>3, <2>1, <3>1, SavePositionFacts
  <2>2. CASE m \notin DOMAIN db
    <3>1. garbage[m] \in Nat
      BY <2>2, ConstantTypes DEF Saved
    <3>2. db2[m] = SavePosition(db, m, p.locations[m], garbage[m])
      OBVIOUS
    <3> HIDE DEF db2
    <3> QED
      BY <1>3, <2>2, <3>1, <3>2, SavePositionFacts
  <2> QED
    BY <2>1, <2>2
<1>5. ASSUME NEW m \in DOMAIN db \ Saved(n, p)
      PROVE  db2[m] = db[m]
  OBVIOUS
<1>6. SavedAs(r, db2, s, p.senderLocation)
  <2>1. s \in DOMAIN db2 => s \in DOMAIN db /\ db2[s] = db[s]
    BY <1>3
  <2> HIDE DEF db2
  <2> QED
    BY <1>2, <1>3, <2>1, SavePositionFacts
<1>7. /\ new \in Neighbour
      /\ new.lastBeacon = clock /\ new.free = p.free
      /\ new.loc = r.loc /\ new.timestamp = r.timestamp
  <2> HIDE DEF r
  <2> QED
    BY <1>2, <1>3, <1>6 DEF Neighbour, SavedAs
<1>8. Processed(n, s, p, db, after)
  <2>1. /\ DOMAIN after = DOMAIN db \cup Saved(n, p) \cup {s}
        /\ after[s] = new
        /\ \A m \in DOMAIN after \ {s} : after[m] = db2[m]
    OBVIOUS
  <2>2. s \in DOMAIN db2 => s \in DOMAIN db /\ db2[s] = db[s]
    BY <1>3
  <2> HIDE DEF after, new, r, db2, db
  <2>3. IsPositionDB(n, after)
    <3>1. \A m \in DOMAIN after : after[m] \in Neighbour
      BY <1>2, <1>4, <1>5, <1>7, <2>1 DEF SavedAs
    <3>2. DOMAIN after \subseteq Node \ {n}
      BY <1>2, <1>3, <2>1
    <3>3. after \in [DOMAIN after -> Neighbour]
      BY <3>1, <2>1 DEF after
    <3> QED
      BY <3>2, <3>3 DEF IsPositionDB
  <2>4. ASSUME NEW m \in DOMAIN after
        PROVE  \/ m \in DOMAIN db /\ SameLocation(after[m], db[m])
               \/ m \in Saved(n, p) /\ SameLocation(after[m], p.locations[m])
               \/ m = s /\ SameLocation(after[m], p.senderLocation)
    <3>1. CASE m = s
      BY <1>6, <1>7, <2>1, <2>2, <3>1 DEF SameLocation, SavedAs
    <3>2. CASE m # s /\ m \in Saved(n, p)
      BY <1>4, <2>1, <3>2 DEF SavedAs
    <3>3. CASE m # s /\ m \notin Saved(n, p)
      BY <1>5, <2>1, <3>3 DEF SameLocation
    <3> QED
      BY <3>1, <3>2, <3>3
  <2>5. ASSUME NEW m \in DOMAIN db \ {s}
        PROVE  /\ after[m].lastBeacon = db[m].lastBeacon
               /\ after[m].free = db[m].free
               /\ after[m].timestamp >= db[m].timestamp
    <3>1. after[m] = db2[m] /\ db[m].timestamp \in Nat
      BY <1>2, <2>1 DEF Neighbour
    <3> QED
      BY <1>4, <1>5, <3>1 DEF SavedAs
  <2>6. \A m \in DOMAIN after \ (DOMAIN db \cup {s}) : after[m].lastBeacon = 0
    BY <1>4, <2>1 DEF SavedAs
  <2> QED
    BY <1>6, <1>7, <2>1, <2>3, <2>4, <2>5, <2>6 DEF Processed, SavedAs
<1> QED
  BY <1>1, <1>8

-----------------------------------------------------------------------------
(* Every step keeps the invariant *)

LEMMA InitInv == Init => IInv
<1> SUFFICES ASSUME Init
             PROVE  IInv
  OBVIOUS
<1>1. /\ \A n \in Node : positionDB[n] = Empty /\ heard[n] = Empty
      /\ \A n \in Node : info[n] = None /\ due[n] = 1
      /\ clock = 1 /\ air.to = {}
      /\ DOMAIN Empty = {}
  BY DEF Init, Empty
<1>2. Types
  <2>1. path \in [Node -> [1 .. clock -> Place]]
    BY <1>1, OracleAssumption DEF Init, Place
  <2>2. due \in [Node -> clock .. clock + ORACLEINTERVAL] /\ clock \in 1 .. MaxTime
    BY <1>1, ConstantTypes DEF Init
  <2>3. \A S : Empty \in [DOMAIN Empty -> S]
    BY <1>1 DEF Empty
  <2> QED
    BY <1>1, <2>1, <2>2, <2>3 DEF Init, Types, IsPositionDB
<1>3. Truth /\ BeaconsAreFresh /\ HeardIsFresh /\ LastBeaconWasHeard
      /\ ForgottenForOthers /\ BeaconsFit /\ LastBeaconIsPast
  BY <1>1 DEF Truth, AllWereThere, BeaconsAreFresh, HeardIsFresh,
              LastBeaconWasHeard, ForgottenForOthers, BeaconsFit,
              LastBeaconIsPast
<1> QED
  BY <1>2, <1>3 DEF IInv

LEMMA DatabaseIsDB ==
  ASSUME Types, NEW n \in Node
  PROVE  IsDB(positionDB[n])
<1>1. DOMAIN positionDB[n] \subseteq Node
      /\ \A m \in DOMAIN positionDB[n] : positionDB[n][m] \in Neighbour
  BY DEF Types, IsPositionDB
<1>2. IsFiniteSet(DOMAIN positionDB[n])
  BY <1>1, ConstantTypes, FS_Subset
<1> QED
  BY <1>1, <1>2, ConstantTypes DEF IsDB, Neighbour

LEMMA SendKeepsInv ==
  ASSUME IInv, NEW n \in Node, NEW free \in Announced[n][clock],
         SendOracleBeacon(n, free)
  PROVE  IInv'
<1> DEFINE db == positionDB[n]
           after == Pruned(db)
           p == OraclePacket(n, after, free)
<1>1. /\ positionDB' = [positionDB EXCEPT ![n] = after]
      /\ positionDB'[n] = after
      /\ info' = [info EXCEPT ![n] = p]
      /\ due[n] = clock
      /\ due' = [due EXCEPT ![n] = clock + ORACLEINTERVAL]
      /\ air.to = {} /\ UNCHANGED <<air, clock, path, heard>>
  BY DEF SendOracleBeacon, Due, IInv, Types
<1>2. /\ DOMAIN after \subseteq DOMAIN db
      /\ \A m \in DOMAIN after : after[m] = db[m]
  BY PrunedDomain
<1>3. IsPositionDB(n, db) /\ IsDB(db)
  BY DatabaseIsDB DEF IInv, Types
<1>4. IsPositionDB(n, after)
  <2>1. after = [m \in DOMAIN after |-> after[m]]
    BY DEF Pruned, Restrict
  <2> HIDE DEF after
  <2> QED
    BY <1>2, <1>3, <2>1 DEF IsPositionDB
<1>5. /\ p.sender = n /\ p.free = free
      /\ p.senderLocation = [loc |-> path[n][clock], timestamp |-> clock]
      /\ DOMAIN p.locations = DOMAIN after
      /\ p.locations = [m \in DOMAIN after |-> [loc |-> after[m].loc,
                                       timestamp |-> after[m].timestamp]]
  BY DEF OraclePacket, Pos
<1>6. clock \in Nat /\ clock \in 1 .. MaxTime /\ path[n][clock] \in Place
      /\ free \in Nat
  BY ConstantTypes, OracleAssumption DEF IInv, Types
<1> HIDE DEF p, after, db
<1>7. IsBeacon(n, p)
  <2>1. \A m \in DOMAIN after : after[m].loc \in Place /\ after[m].timestamp \in Nat
    BY <1>4 DEF IsPositionDB, Neighbour
  <2>2. p.locations \in [DOMAIN p.locations -> NodeLocation]
    BY <1>5, <2>1 DEF NodeLocation
  <2> QED
    BY <1>4, <1>5, <1>6, <2>2 DEF IsBeacon, IsPositionDB, NodeLocation
<1>8. Types'
  <2>1. due' \in [Node -> clock' .. clock' + ORACLEINTERVAL]
    BY <1>1, <1>6, ConstantTypes DEF IInv, Types
  <2>2. DOMAIN positionDB' = Node /\ DOMAIN info' = Node
        /\ DOMAIN heard' = Node
    BY <1>1 DEF IInv, Types
  <2>3. ASSUME NEW m \in Node
        PROVE  IsPositionDB(m, positionDB'[m])
    BY <1>1, <1>4 DEF IInv, Types
  <2>4. ASSUME NEW m \in Node, info'[m] # None
        PROVE  IsBeacon(m, info'[m])
    BY <1>1, <1>7, <2>4 DEF IInv, Types
  <2>5. path' \in [Node -> [1 .. clock' -> Place]]
    BY <1>1 DEF IInv, Types
  <2>6. ASSUME NEW m \in Node
        PROVE  /\ DOMAIN heard'[m] \subseteq Node \ {m}
               /\ heard'[m] \in [DOMAIN heard'[m] -> [at : 1 .. clock', free : Nat]]
    BY <1>1 DEF IInv, Types
  <2> QED
    BY <1>1, <1>6, <2>1, <2>2, <2>3, <2>4, <2>5, <2>6 DEF Types, IsPositionDB, IsBeacon
<1>9. Truth'
  <2>1. AllWereThere(after)
    BY <1>2 DEF AllWereThere, IInv, Truth, db
  <2>2. AllWereThere(p.locations)
    BY <1>5, <2>1 DEF AllWereThere, WasThere
  <2>3. WasThere(p.sender, p.senderLocation)
    BY <1>5, <1>6 DEF WasThere, IInv, Types
  <2>4. ASSUME NEW m \in Node
        PROVE  AllWereThere(positionDB'[m])
    BY <1>1, <2>1 DEF IInv, Types, Truth
  <2>5. ASSUME NEW m \in Node, info'[m] # None
        PROVE  BeaconIsTrue(info'[m])
    BY <1>1, <2>2, <2>3, <2>5 DEF BeaconIsTrue, IInv, Types, Truth
  <2>6. \A m \in Node : AllWereThere(positionDB[m])'
    BY <1>1, <2>4 DEF AllWereThere, WasThere
  <2>7. \A m \in Node : info'[m] # None => BeaconIsTrue(info[m])'
    BY <1>1, <2>5 DEF BeaconIsTrue, AllWereThere, WasThere
  <2>8. air'.to = {}
    BY <1>1
  <2> QED
    BY <2>6, <2>7, <2>8 DEF Truth
<1>10. BeaconsAreFresh'
  BY <1>1, <1>5, <1>6, ConstantTypes DEF IInv, Types, BeaconsAreFresh
<1>11. HeardIsFresh' /\ LastBeaconWasHeard' /\ LastBeaconIsPast'
  <2>1. ASSUME NEW i \in Node, NEW m \in DOMAIN positionDB'[i]
        PROVE  m \in DOMAIN positionDB[i] /\ positionDB'[i][m] = positionDB[i][m]
    BY <1>1, <1>2 DEF IInv, Types, db
  <2> QED
    BY <1>1, <2>1 DEF IInv, HeardIsFresh, LastBeaconWasHeard, LastBeaconIsPast
<1>12. ForgottenForOthers'
  <2> SUFFICES ASSUME NEW i \in Node, NEW m \in DOMAIN heard[i]
               PROVE  LET d == positionDB'[i] t == heard[i][m].at IN
                      \/ m \in DOMAIN d /\ d[m].lastBeacon = t
                      \/ Cardinality(HeardSince(d, t)) >= MaxRecords
    <3>1. heard' = heard
      BY <1>1
    <3> QED
      BY <3>1 DEF ForgottenForOthers
  <2> DEFINE t == heard[i][m].at
  <2>1. t \in Nat
    BY <1>6 DEF IInv, Types
  <2>2. \/ m \in DOMAIN positionDB[i] /\ positionDB[i][m].lastBeacon = t
        \/ Cardinality(HeardSince(positionDB[i], t)) >= MaxRecords
    BY DEF IInv, ForgottenForOthers
  <2>3. CASE i # n
    BY <1>1, <2>2, <2>3 DEF IInv, Types
  <2>4. CASE i = n /\ Cardinality(HeardSince(db, t)) >= MaxRecords
    BY <1>1, <1>3, <2>1, <2>4, PrunedKeepsRecent DEF after
  <2>5. CASE i = n /\ m \in DOMAIN after /\ db[m].lastBeacon = t
    BY <1>1, <1>2, <2>5
  <2>6. CASE i = n /\ m \in DOMAIN db \ DOMAIN after /\ db[m].lastBeacon = t
    <3>1. Rank(db, m) >= MaxRecords
      <4>1. Rank(db, m) \in Nat /\ ~(Rank(db, m) < MaxRecords)
        BY <1>3, <2>6, PrunedDomain, RankOrder DEF after
      <4> QED
        BY <4>1, ConstantTypes
    <3>2. Longer(db, m) \subseteq HeardSince(db, t)
      BY <1>3, <2>6, LongerOrder DEF Longer, HeardSince
    <3>3. IsFiniteSet(HeardSince(db, t))
      BY <1>3, FS_Subset DEF HeardSince, IsDB
    <3>4. /\ Rank(db, m) <= Cardinality(HeardSince(db, t))
          /\ Rank(db, m) \in Nat /\ Cardinality(HeardSince(db, t)) \in Nat
      BY <1>3, <2>6, <3>2, <3>3, FS_Subset, FS_CardinalityType, RankOrder DEF Rank
    <3>5. Cardinality(HeardSince(db, t)) >= MaxRecords
      BY <3>1, <3>4, ConstantTypes
    <3> QED
      BY <1>1, <1>3, <2>1, <2>6, <3>5, PrunedKeepsRecent DEF after
  <2> QED
    BY <2>2, <2>3, <2>4, <2>5, <2>6 DEF db
<1>13. BeaconsFit'
  <2>1. Cardinality(DOMAIN p.locations) <= MaxRecords
    BY <1>3, <1>5, PrunedFits DEF after
  <2> QED
    BY <1>1, <2>1 DEF BeaconsFit, IInv, Types
<1> QED
  BY <1>8, <1>9, <1>10, <1>11, <1>12, <1>13 DEF IInv

LEMMA LinkSendsKeepsInv ==
  ASSUME IInv, NEW m \in Node, LinkSends(m)
  PROVE  IInv'
<1>1. PICK to \in SUBSET {n \in Node \ {m} : InReach(n, m)} :
         air' = [beacon |-> IF to = {} THEN None ELSE info[m], to |-> to]
  BY DEF LinkSends
<1>2. /\ info[m] # None /\ info' = [info EXCEPT ![m] = None]
      /\ \A n \in Node : due[n] # clock
      /\ UNCHANGED <<positionDB, due, clock, path, heard>>
  BY DEF LinkSends, Quiet, Due
<1>3. /\ air'.to \subseteq Node \ {m}
      /\ air'.to # {} => air'.beacon = info[m]
      /\ IsBeacon(m, info[m])
  BY <1>1, <1>2 DEF IInv, Types
<1>4. Types'
  <2>1. \A n \in Node : info'[n] # None => info'[n] = info[n]
    BY <1>2 DEF IInv, Types
  <2>2. air'.to # {} => /\ air'.to \subseteq Node \ {air'.beacon.sender}
                        /\ air'.beacon.sender \in Node
                        /\ IsBeacon(air'.beacon.sender, air'.beacon)
    BY <1>3 DEF IsBeacon
  <2> QED
    BY <1>2, <2>1, <2>2 DEF IInv, Types, IsPositionDB, IsBeacon
<1>5. Truth'
  <2>1. \A n \in Node : AllWereThere(positionDB[n])'
    BY <1>2 DEF IInv, Truth, AllWereThere, WasThere
  <2>2. \A n \in Node : info'[n] # None => info'[n] = info[n]
    BY <1>2 DEF IInv, Types
  <2>3. \A n \in Node : info[n] # None => BeaconIsTrue(info[n])
    BY DEF IInv, Truth
  <2>4. \A n \in Node : info'[n] # None => BeaconIsTrue(info[n])'
    BY <1>2, <2>2, <2>3 DEF BeaconIsTrue, AllWereThere, WasThere
  <2>5. air'.to # {} => BeaconIsTrue(air.beacon)'
    BY <1>2, <1>3, <2>3 DEF BeaconIsTrue, AllWereThere, WasThere
  <2> QED
    BY <2>1, <2>4, <2>5 DEF Truth
<1>6. BeaconsAreFresh'
  <2>1. \A n \in Node : info'[n] # None => info'[n] = info[n]
    BY <1>2 DEF IInv, Types
  <2>2. clock <= info[m].senderLocation.timestamp + ORACLEINTERVAL
    BY <1>2, ConstantTypes DEF IInv, Types, BeaconsAreFresh
  <2> QED
    BY <1>2, <1>3, <2>1, <2>2 DEF IInv, BeaconsAreFresh
<1>7. HeardIsFresh' /\ LastBeaconWasHeard' /\ ForgottenForOthers'
      /\ LastBeaconIsPast'
  <2>1. HeardIsFresh'
    BY <1>2 DEF IInv, HeardIsFresh
  <2>2. LastBeaconWasHeard' /\ LastBeaconIsPast'
    BY <1>2 DEF IInv, LastBeaconWasHeard, LastBeaconIsPast
  <2>3. ForgottenForOthers'
    BY <1>2 DEF IInv, ForgottenForOthers
  <2> QED
    BY <2>1, <2>2, <2>3
<1>8. BeaconsFit'
  BY <1>2 DEF IInv, Types, BeaconsFit
<1> QED
  BY <1>4, <1>5, <1>6, <1>7, <1>8 DEF IInv

LEMMA RecvKeepsInv ==
  ASSUME IInv, NEW n \in air.to, NEW garbage \in Garbage(n),
         OracleRecv(n, garbage)
  PROVE  IInv'
<1> DEFINE p == air.beacon
           s == p.sender
           db == positionDB[n]
<1>1. /\ n \in Node /\ s \in Node \ {n} /\ IsBeacon(s, p)
      /\ clock \in Nat /\ clock \in 1 .. MaxTime
  BY ConstantTypes DEF IInv, Types
<1>2. /\ ProcessBeacon(n, p, garbage)
      /\ air'.to \subseteq air.to
      /\ air'.to # {} => air'.beacon = air.beacon
      /\ heard' = [heard EXCEPT ![n] =
           [k \in DOMAIN heard[n] \cup {s} |->
              IF k = s THEN [at |-> clock, free |-> p.free] ELSE heard[n][k]]]
      /\ UNCHANGED <<due, info, clock, path>>
  BY DEF OracleRecv, IInv, Types
<1>3. PICK after : /\ positionDB' = [positionDB EXCEPT ![n] = after]
                   /\ Processed(n, s, p, db, after)
  BY <1>1, <1>2, ProcessBeaconFacts DEF IInv, Garbage
<1>4. /\ positionDB'[n] = after
      /\ \A i \in Node \ {n} : positionDB'[i] = positionDB[i]
      /\ DOMAIN positionDB' = Node
  BY <1>1, <1>3 DEF IInv, Types
<1>5. /\ DOMAIN heard' = Node
      /\ DOMAIN heard'[n] = DOMAIN heard[n] \cup {s}
      /\ heard'[n][s] = [at |-> clock, free |-> p.free]
      /\ \A k \in DOMAIN heard[n] \ {s} : heard'[n][k] = heard[n][k]
      /\ \A i \in Node \ {n} : heard'[i] = heard[i]
  BY <1>1, <1>2 DEF IInv, Types
<1>6. /\ DOMAIN after = DOMAIN db \cup Saved(n, p) \cup {s}
      /\ after[s].lastBeacon = clock /\ after[s].free = p.free
      /\ \A m \in DOMAIN after :
           \/ m = s
           \/ /\ m \in DOMAIN db
              /\ after[m].lastBeacon = db[m].lastBeacon
              /\ after[m].free = db[m].free
           \/ m \notin DOMAIN db /\ after[m].lastBeacon = 0
  BY <1>3 DEF Processed
<1>7. Types'
  <2>1. \A i \in Node : IsPositionDB(i, positionDB'[i])
    BY <1>3, <1>4 DEF IInv, Types, Processed
  <2>2. air'.to # {} => /\ air'.to \subseteq Node \ {air'.beacon.sender}
                        /\ air'.beacon.sender \in Node
                        /\ IsBeacon(air'.beacon.sender, air'.beacon)
    BY <1>1, <1>2 DEF IInv, Types
  <2>3. ASSUME NEW i \in Node
        PROVE  /\ DOMAIN heard'[i] \subseteq Node \ {i}
               /\ heard'[i] \in [DOMAIN heard'[i] -> [at : 1 .. clock, free : Nat]]
    <3>1. CASE i = n
      <4>1. heard'[n] = [k \in DOMAIN heard[n] \cup {s} |->
              IF k = s THEN [at |-> clock, free |-> p.free] ELSE heard[n][k]]
        BY <1>1, <1>2 DEF IInv, Types
      <4>2. /\ [at |-> clock, free |-> p.free] \in [at : 1 .. clock, free : Nat]
            /\ DOMAIN heard[n] \subseteq Node \ {n}
            /\ \A k \in DOMAIN heard[n] : heard[n][k] \in [at : 1 .. clock, free : Nat]
        BY <1>1 DEF IInv, Types, IsBeacon
      <4> QED
        BY <1>1, <3>1, <4>1, <4>2
    <3>2. CASE i # n
      BY <1>5, <3>2 DEF IInv, Types
    <3> QED
      BY <3>1, <3>2
  <2> QED
    BY <1>2, <1>4, <1>5, <2>1, <2>2, <2>3 DEF IInv, Types, IsPositionDB, IsBeacon
<1>8. Truth'
  <2>1. ASSUME NEW m \in DOMAIN after
        PROVE  WasThere(m, after[m])
    <3>1. CASE m \in DOMAIN db /\ SameLocation(after[m], db[m])
      BY <1>1, <3>1 DEF IInv, Truth, AllWereThere, WasThere, SameLocation
    <3>2. CASE m \in Saved(n, p) /\ SameLocation(after[m], p.locations[m])
      BY <3>2 DEF IInv, Truth, BeaconIsTrue, AllWereThere, WasThere,
                  SameLocation, Saved
    <3>3. CASE m = s /\ SameLocation(after[m], p.senderLocation)
      BY <3>3 DEF IInv, Truth, BeaconIsTrue, WasThere, SameLocation
    <3> QED
      BY <1>3, <3>1, <3>2, <3>3 DEF Processed
  <2>2. \A i \in Node : AllWereThere(positionDB'[i])
    BY <1>4, <2>1 DEF IInv, Truth, AllWereThere
  <2>3. air'.to # {} => BeaconIsTrue(air'.beacon)
    BY <1>2 DEF IInv, Truth
  <2> QED
    BY <1>2, <2>2, <2>3 DEF IInv, Truth, BeaconIsTrue, AllWereThere, WasThere
<1>9. BeaconsAreFresh'
  BY <1>2 DEF IInv, BeaconsAreFresh
<1>10. HeardIsFresh'
  <2>1. ASSUME NEW m \in DOMAIN after, after[m].lastBeacon > 0
        PROVE  after[m].timestamp >= after[m].lastBeacon - ORACLEINTERVAL
    <3>1. CASE m = s
      <4>1. /\ after[s].timestamp >= p.senderLocation.timestamp
            /\ clock <= p.senderLocation.timestamp + ORACLEINTERVAL
        BY <1>3 DEF Processed, IInv, BeaconsAreFresh
      <4>2. after[s].timestamp \in Nat /\ p.senderLocation.timestamp \in Nat
        BY <1>1, <1>3, <1>6 DEF Processed, IsPositionDB, Neighbour, IsBeacon, NodeLocation
      <4> QED
        BY <1>1, <1>6, <3>1, <4>1, <4>2, ConstantTypes
    <3>2. CASE m # s
      <4>1. /\ m \in DOMAIN db /\ after[m].lastBeacon = db[m].lastBeacon
            /\ after[m].timestamp >= db[m].timestamp
        BY <1>6, <1>3, <2>1, <3>2 DEF Processed
      <4>2. db[m].timestamp >= db[m].lastBeacon - ORACLEINTERVAL
        BY <1>1, <2>1, <4>1 DEF IInv, HeardIsFresh
      <4>3. /\ db[m].timestamp \in Nat /\ db[m].lastBeacon \in Nat
            /\ after[m].timestamp \in Nat
        BY <1>1, <1>3, <4>1 DEF IInv, Types, Processed, IsPositionDB, Neighbour
      <4> QED
        BY <4>1, <4>2, <4>3, ConstantTypes
    <3> QED
      BY <3>1, <3>2
  <2> QED
    BY <1>4, <2>1 DEF IInv, HeardIsFresh
<1>11. LastBeaconWasHeard'
  <2>1. ASSUME NEW m \in DOMAIN after, after[m].lastBeacon > 0
        PROVE  /\ m \in DOMAIN heard'[n]
               /\ heard'[n][m] = [at |-> after[m].lastBeacon, free |-> after[m].free]
    <3>1. CASE m = s
      BY <1>5, <1>6, <3>1
    <3>2. CASE m # s
      <4>1. /\ m \in DOMAIN db /\ after[m].lastBeacon = db[m].lastBeacon
            /\ after[m].free = db[m].free
        BY <1>6, <2>1, <3>2
      <4> QED
        BY <1>1, <1>5, <2>1, <3>2, <4>1 DEF IInv, LastBeaconWasHeard
    <3> QED
      BY <3>1, <3>2
  <2> QED
    BY <1>4, <1>5, <2>1 DEF IInv, LastBeaconWasHeard
<1>12. ForgottenForOthers'
  <2> SUFFICES ASSUME NEW i \in Node, NEW m \in DOMAIN heard'[i]
               PROVE  LET d == positionDB'[i] t == heard'[i][m].at IN
                      \/ m \in DOMAIN d /\ d[m].lastBeacon = t
                      \/ Cardinality(HeardSince(d, t)) >= MaxRecords
    BY DEF ForgottenForOthers, HeardSince
  <2>1. CASE i # n
    BY <1>4, <1>5, <2>1 DEF IInv, ForgottenForOthers
  <2>2. CASE i = n /\ m = s
    BY <1>4, <1>5, <1>6, <2>2
  <2>3. CASE i = n /\ m # s
    <3> DEFINE t == heard[n][m].at
    <3>1. m \in DOMAIN heard[n] /\ heard'[n][m] = heard[n][m]
      BY <1>5, <2>3
    <3>2. CASE m \in DOMAIN db /\ db[m].lastBeacon = t
      BY <1>4, <1>6, <2>3, <3>1, <3>2
    <3>3. CASE Cardinality(HeardSince(db, t)) >= MaxRecords
      <4>1. t \in 1 .. clock
        BY <1>1, <3>1 DEF IInv, Types
      <4>2. HeardSince(db, t) \subseteq HeardSince(after, t)
        BY <1>1, <1>6, <4>1 DEF HeardSince
      <4>3. DOMAIN after \subseteq Node
        BY <1>3 DEF Processed, IsPositionDB
      <4>4. IsFiniteSet(HeardSince(after, t))
        BY <4>3, ConstantTypes, FS_Subset DEF HeardSince
      <4>5. Cardinality(HeardSince(db, t)) <= Cardinality(HeardSince(after, t))
        BY <4>2, <4>4, FS_Subset
      <4>6. /\ Cardinality(HeardSince(db, t)) \in Nat
            /\ Cardinality(HeardSince(after, t)) \in Nat
        BY <4>2, <4>4, FS_Subset, FS_CardinalityType
      <4>7. Cardinality(HeardSince(after, t)) >= MaxRecords
        BY <3>3, <4>5, <4>6, ConstantTypes
      <4> QED
        BY <1>4, <2>3, <3>1, <4>7
    <3> QED
      BY <1>1, <3>1, <3>2, <3>3 DEF IInv, ForgottenForOthers
  <2> QED
    BY <2>1, <2>2, <2>3
<1>13. BeaconsFit' /\ LastBeaconIsPast'
  <2>1. \A m \in DOMAIN after : after[m].lastBeacon \in 0 .. clock
    BY <1>1, <1>6 DEF IInv, LastBeaconIsPast
  <2> QED
    BY <1>2, <1>4, <2>1 DEF IInv, BeaconsFit, LastBeaconIsPast
<1> QED
  BY <1>7, <1>8, <1>9, <1>10, <1>11, <1>12, <1>13 DEF IInv

LEMMA TickKeepsInv ==
  ASSUME IInv, Tick
  PROVE  IInv'
<1>1. /\ clock \in Nat /\ clock < MaxTime /\ clock' = clock + 1
      /\ air.to = {} /\ \A n \in Node : due[n] # clock
      /\ UNCHANGED <<positionDB, due, info, air, heard>>
  BY ConstantTypes DEF Tick, Quiet, Due, IInv, Types
<1>2. PICK to \in [Node -> {move[2] : move \in UNION Range(Moves)}
                           \cup {Pos(n) : n \in Node}] :
        path' = [n \in Node |->
                  [t \in 1 .. clock' |-> IF t = clock' THEN to[n] ELSE path[n][t]]]
  BY DEF Tick
<1>3. \A n \in Node : to[n] \in Place
  <2>1. ASSUME NEW move \in UNION Range(Moves)
        PROVE  move[2] \in Place
    BY OracleAssumption DEF Range, Place
  <2>2. \A n \in Node : Pos(n) \in Place
    BY <1>1 DEF Pos, IInv, Types
  <2> QED
    BY <2>1, <2>2
<1>4. \A n \in Node : \A t \in 1 .. clock : path'[n][t] = path[n][t]
  BY <1>1, <1>2
<1>5. Types'
  <2>1. path' \in [Node -> [1 .. clock' -> Place]]
    <3>1. \A n \in Node : path[n] \in [1 .. clock -> Place]
      BY DEF IInv, Types
    <3>2. \A n \in Node : \A t \in 1 .. clock' :
            (IF t = clock' THEN to[n] ELSE path[n][t]) \in Place
      BY <1>1, <1>3, <3>1
    <3> QED
      BY <1>2, <3>2
  <2>2. due' \in [Node -> clock' .. clock' + ORACLEINTERVAL] /\ clock' \in 1 .. MaxTime
    BY <1>1, ConstantTypes DEF IInv, Types
  <2>3. ASSUME NEW n \in Node
        PROVE  heard'[n] \in [DOMAIN heard'[n] -> [at : 1 .. clock', free : Nat]]
    BY <1>1 DEF IInv, Types
  <2> QED
    BY <1>1, <2>1, <2>2, <2>3 DEF IInv, Types, IsPositionDB, IsBeacon
<1>6. Truth'
  <2>1. ASSUME NEW m \in Node, NEW nl, WasThere(m, nl)
        PROVE  nl.timestamp \in 1 .. clock' /\ path'[m][nl.timestamp] = nl.loc
    BY <1>1, <1>4, <2>1 DEF WasThere
  <2>2. ASSUME NEW n \in Node, NEW m \in DOMAIN positionDB[n]
        PROVE  m \in Node /\ WasThere(m, positionDB[n][m])
    BY DEF IInv, Types, IsPositionDB, Truth, AllWereThere
  <2>3. ASSUME NEW n \in Node, info[n] # None
        PROVE  /\ info[n].sender \in Node
               /\ WasThere(info[n].sender, info[n].senderLocation)
               /\ \A m \in DOMAIN info[n].locations :
                    m \in Node /\ WasThere(m, info[n].locations[m])
    BY <2>3 DEF IInv, Types, IsBeacon, Truth, BeaconIsTrue, AllWereThere
  <2>4. \A n \in Node : AllWereThere(positionDB[n])'
    BY <1>1, <2>1, <2>2 DEF AllWereThere, WasThere
  <2>5. ASSUME NEW n \in Node, info[n] # None
        PROVE  BeaconIsTrue(info[n])'
    <3>1. WasThere(info[n].sender, info[n].senderLocation)'
      BY <1>1, <2>1, <2>3, <2>5 DEF WasThere
    <3>2. AllWereThere(info[n].locations)'
      BY <1>1, <2>1, <2>3, <2>5 DEF AllWereThere, WasThere
    <3> QED
      BY <3>1, <3>2 DEF BeaconIsTrue
  <2> QED
    BY <1>1, <2>4, <2>5 DEF Truth
<1>7. BeaconsAreFresh' /\ HeardIsFresh' /\ LastBeaconWasHeard'
      /\ ForgottenForOthers' /\ BeaconsFit'
  <2>1. BeaconsAreFresh' /\ BeaconsFit'
    BY <1>1 DEF IInv, BeaconsAreFresh, BeaconsFit
  <2>2. HeardIsFresh' /\ LastBeaconWasHeard'
    BY <1>1 DEF IInv, HeardIsFresh, LastBeaconWasHeard
  <2>3. ForgottenForOthers'
    BY <1>1 DEF IInv, ForgottenForOthers
  <2> QED
    BY <2>1, <2>2, <2>3
<1>8. LastBeaconIsPast'
  BY <1>1 DEF IInv, LastBeaconIsPast
<1> QED
  BY <1>5, <1>6, <1>7, <1>8 DEF IInv

(* What happens in one step. *)
LEMMA StepKeepsInv == IInv /\ [Next]_vars => IInv'
<1> SUFFICES ASSUME IInv, [Next]_vars
             PROVE  IInv'
  OBVIOUS
<1>1. CASE \E n \in Node : \E free \in Announced[n][clock] :
             SendOracleBeacon(n, free)
  BY <1>1, SendKeepsInv
<1>2. CASE \E n \in Node : LinkSends(n)
  BY <1>2, LinkSendsKeepsInv
<1>3. CASE \E n \in air.to : \E garbage \in Garbage(n) : OracleRecv(n, garbage)
  BY <1>3, RecvKeepsInv
<1>4. CASE Tick
  BY <1>4, TickKeepsInv
<1>5. CASE UNCHANGED vars
  <2>1. UNCHANGED <<positionDB, due, info, air, clock, path, heard>>
    BY <1>5 DEF vars
  <2>2. Types'
    BY <2>1 DEF IInv, Types
  <2>3. Truth'
    BY <2>1 DEF IInv, Truth, BeaconIsTrue, AllWereThere, WasThere
  <2>4. BeaconsAreFresh' /\ BeaconsFit' /\ LastBeaconIsPast'
    BY <2>1 DEF IInv, BeaconsAreFresh, BeaconsFit, LastBeaconIsPast
  <2>5. HeardIsFresh' /\ LastBeaconWasHeard' /\ ForgottenForOthers'
    BY <2>1 DEF IInv, HeardIsFresh, LastBeaconWasHeard, ForgottenForOthers
  <2> QED
    BY <2>2, <2>3, <2>4, <2>5 DEF IInv
<1> QED
  BY <1>1, <1>2, <1>3, <1>4, <1>5 DEF Next

(* IInv is inductive (every handler of oracle.c), hence an invariant.      *)
THEOREM InvariantHolds == Spec => []IInv
BY InitInv, StepKeepsInv, PTL DEF Spec

-----------------------------------------------------------------------------
(* The properties of Oracle *)

(* No node keeps a record of itself (processBeacon, oracle.c:239), and the *)
(* database that pruneDB (oracle.c:178-187) leaves fits into a beacon.     *)
THEOREM TypeCorrect == Spec => []TypeOK
<1>1. IInv => TypeOK
  BY DEF IInv, Types, BeaconsFit, LastBeaconIsPast, TypeOK, IsPositionDB,
         IsBeacon
<1> QED
  BY <1>1, InvariantHolds, PTL

(* In any world, positions that pass from node to node keep the time at    *)
(* which they were true (savePosition, oracle.c:119-123).                  *)
THEOREM PositionsAreTrue == Spec => []EntriesAreTrue
<1>1. IInv => EntriesAreTrue
  <2> SUFFICES ASSUME IInv, NEW n \in Node, NEW m \in DOMAIN positionDB[n]
               PROVE  LET r == positionDB[n][m] IN
                      /\ r.timestamp \in DOMAIN path[m]
                      /\ path[m][r.timestamp] = r.loc
    BY DEF EntriesAreTrue
  <2>1. WasThere(m, positionDB[n][m])
    BY DEF IInv, Truth, AllWereThere
  <2>2. m \in Node /\ DOMAIN path[m] = 1 .. clock
    BY DEF IInv, Types, IsPositionDB
  <2> QED
    BY <2>1, <2>2 DEF WasThere
<1> QED
  BY <1>1, InvariantHolds, PTL

(* What others say of a neighbour never makes its position older than one  *)
(* beacon interval before it was heard (savePosition, oracle.c:119).       *)
THEOREM NeighboursAreFresh == Spec => []HeardIsFresh
<1>1. IInv => HeardIsFresh
  BY DEF IInv
<1> QED
  BY <1>1, InvariantHolds, PTL

(* From ORACLEWAIT on, get_nth_best_node (oracle.c:306-344) names only     *)
(* nodes that were heard within ORACLEWAIT and said that they have room.   *)
THEOREM RecommendationsAreSound == Spec => []RecommendedWasHeard
<1>1. IInv => RecommendedWasHeard
  <2> SUFFICES ASSUME IInv, NEW n \in Node, NEW dest \in Node,
                      NEW size \in FreeBytes, clock > ORACLEWAIT,
                      GetNthBestNode(n, dest, size) # None
               PROVE  LET m == GetNthBestNode(n, dest, size) IN
                      /\ m \in DOMAIN heard[n]
                      /\ heard[n][m].at >= clock - ORACLEWAIT
                      /\ heard[n][m].free >= size
    BY DEF RecommendedWasHeard
  <2> DEFINE m == GetNthBestNode(n, dest, size)
             good == GoodNodes(n, dest, size)
  <2>1. good # {} /\ m = Min(good)
    BY DEF GetNthBestNode
  <2>2. good \subseteq DOMAIN positionDB[n] /\ DOMAIN positionDB[n] \subseteq Nat
    BY ConstantTypes DEF GoodNodes, IInv, Types, IsPositionDB
  <2>3. m \in good
    BY <2>1, <2>2, MinInSet
  <2>4. /\ m \in DOMAIN positionDB[n]
        /\ clock <= positionDB[n][m].lastBeacon + ORACLEWAIT
        /\ positionDB[n][m].free >= size
    BY <2>3 DEF GoodNodes, Live
  <2>5. positionDB[n][m].lastBeacon \in Nat /\ clock \in Nat
    BY <2>4, ConstantTypes DEF IInv, Types, IsPositionDB, Neighbour
  <2>6. positionDB[n][m].lastBeacon > 0
    BY <2>4, <2>5, ConstantTypes
  <2>7. /\ m \in DOMAIN heard[n]
        /\ heard[n][m] = [at |-> positionDB[n][m].lastBeacon,
                          free |-> positionDB[n][m].free]
    BY <2>4, <2>6 DEF IInv, LastBeaconWasHeard
  <2> QED
    BY <2>4, <2>5, <2>7, ConstantTypes
<1> QED
  BY <1>1, InvariantHolds, PTL

(* pruneDB (oracle.c:178-187) forgets a node that was heard only for nodes *)
(* that were all heard as recently.                                        *)
THEOREM PruningSparesNeighbours == Spec => PruneSparesNeighbours
<1> DEFINE Spared ==
      \A n \in Node :
        \A m \in DOMAIN heard[n], k \in DOMAIN positionDB'[n] :
          m \in DOMAIN positionDB[n] \ DOMAIN positionDB'[n] =>
            /\ k \in DOMAIN heard[n]
            /\ heard[n][k].at >= heard[n][m].at
<1>1. IInv /\ IInv' /\ [Next]_vars => [Spared]_vars
  <2> SUFFICES ASSUME IInv, IInv', Next,
                      NEW n \in Node, NEW m \in DOMAIN heard[n],
                      NEW k \in DOMAIN positionDB'[n],
                      m \in DOMAIN positionDB[n] \ DOMAIN positionDB'[n]
               PROVE  /\ k \in DOMAIN heard[n]
                      /\ heard[n][k].at >= heard[n][m].at
    OBVIOUS
  <2>1. CASE \E i \in Node : \E free \in Announced[i][clock] :
               SendOracleBeacon(i, free)
    <3>1. PICK i \in Node : \E free \in Announced[i][clock] :
                              SendOracleBeacon(i, free)
      BY <2>1
    <3>2. /\ positionDB' = [positionDB EXCEPT ![i] = Pruned(positionDB[i])]
          /\ heard' = heard
      BY <3>1 DEF SendOracleBeacon
    <3>3. i = n
      BY <3>2 DEF IInv, Types
    <3> DEFINE after == Pruned(positionDB[n])
               t == heard[n][m].at
    <3>4. positionDB'[n] = after
      BY <3>2, <3>3 DEF IInv, Types
    <3>5. /\ IsFiniteSet(DOMAIN after)
          /\ Cardinality(DOMAIN after) <= MaxRecords
      BY DatabaseIsDB, PrunedFits DEF IInv
    <3>6. Cardinality(HeardSince(after, t)) >= MaxRecords
      BY <3>2, <3>4 DEF IInv, ForgottenForOthers, HeardSince
    <3>7. HeardSince(after, t) = DOMAIN after
      <4>1. HeardSince(after, t) \in SUBSET DOMAIN after
        BY DEF HeardSince
      <4>2. /\ Cardinality(HeardSince(after, t)) <= Cardinality(DOMAIN after)
            /\ Cardinality(DOMAIN after) = Cardinality(HeardSince(after, t)) =>
                 DOMAIN after = HeardSince(after, t)
        BY <3>5, <4>1, FS_Subset
      <4>3. /\ Cardinality(HeardSince(after, t)) \in Nat
            /\ Cardinality(DOMAIN after) \in Nat
        BY <3>5, <4>1, FS_Subset, FS_CardinalityType
      <4> QED
        BY <3>5, <3>6, <4>2, <4>3, ConstantTypes
    <3>8. t \in 1 .. clock /\ clock \in Nat
      BY ConstantTypes DEF IInv, Types
    <3>9. k \in DOMAIN after /\ after[k].lastBeacon >= t
          /\ after[k].lastBeacon \in Nat
      BY <3>4, <3>7 DEF HeardSince, IInv, Types, IsPositionDB, Neighbour
    <3>10. /\ k \in DOMAIN heard'[n]
           /\ heard'[n][k].at = after[k].lastBeacon
      <4>1. \A j \in DOMAIN positionDB'[n] :
              positionDB'[n][j].lastBeacon > 0 =>
                /\ j \in DOMAIN heard'[n]
                /\ heard'[n][j] = [at |-> positionDB'[n][j].lastBeacon,
                                  free |-> positionDB'[n][j].free]
        BY DEF IInv, LastBeaconWasHeard
      <4>2. after[k].lastBeacon > 0
        BY <3>8, <3>9
      <4>3. positionDB'[n][k].lastBeacon > 0
        BY <3>4, <4>2
      <4>4. /\ k \in DOMAIN heard'[n]
            /\ heard'[n][k] = [at |-> positionDB'[n][k].lastBeacon,
                              free |-> positionDB'[n][k].free]
        BY <4>1, <4>3
      <4>5. heard'[n][k].at = positionDB'[n][k].lastBeacon
        BY <4>4
      <4> HIDE DEF after
      <4> QED
        BY <3>4, <4>4, <4>5
    <3> QED
      BY <3>2, <3>9, <3>10
  <2>2. CASE \E i \in Node : LinkSends(i)
    BY <2>2 DEF LinkSends
  <2>3. CASE \E i \in air.to : \E garbage \in Garbage(i) : OracleRecv(i, garbage)
    <3>1. PICK i \in air.to : \E garbage \in Garbage(i) : OracleRecv(i, garbage)
      BY <2>3
    <3>1b. PICK garbage \in Garbage(i) : OracleRecv(i, garbage)
      BY <3>1
    <3> DEFINE p == air.beacon
    <3>2. /\ i \in Node /\ p.sender \in Node \ {i} /\ IsBeacon(p.sender, p)
          /\ ProcessBeacon(i, p, garbage)
      BY <3>1b DEF OracleRecv, IInv, Types
    <3>3. PICK after : /\ positionDB' = [positionDB EXCEPT ![i] = after]
                       /\ Processed(i, p.sender, p, positionDB[i], after)
      BY <3>2, ProcessBeaconFacts DEF IInv, Garbage
    <3>4. DOMAIN positionDB[i] \subseteq DOMAIN after
      BY <3>3 DEF Processed
    <3>5. DOMAIN positionDB[n] \subseteq DOMAIN positionDB'[n]
      BY <3>2, <3>3, <3>4 DEF IInv, Types
    <3> QED
      BY <3>5
  <2>4. CASE Tick
    BY <2>4 DEF Tick
  <2> QED
    BY <2>1, <2>2, <2>3, <2>4 DEF Next
<1> QED
  BY <1>1, InvariantHolds, PTL DEF Spec, PruneSparesNeighbours

=============================================================================
