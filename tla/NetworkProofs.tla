--------------------------- MODULE NetworkProofs ------------------------------
(***************************************************************************)
(* Theorems about the network layer, for any nodes, routes, packets and    *)
(* size of the buffer.                                                     *)
(***************************************************************************)
EXTENDS Network, SeqOrder, FoldTraces

(* The packets that net_send may build. *)
Packet == {p \in [source : Node, dest : Node, len : Nat, id : Data] :
             <<p.source, p.dest, p.len>> \in Traffic}

-----------------------------------------------------------------------------
(* Bytes *)

LEMMA PacketBytes ==
  /\ NETWORK_BUFF_SIZE \in Nat
  /\ \A p \in Packet : Mem(p) \in Nat \ {0} /\ Mem(p) <= NETWORK_BUFF_SIZE
  /\ \A p, q \in Packet : Mem(p) + Mem(q) <= NETWORK_BUFF_SIZE
<1>1. NETWORK_BUFF_SIZE \in Nat
  BY NetworkAssumption
<1>2. ASSUME NEW p \in Packet
      PROVE  Mem(p) \in Nat \ {0}
  BY NetworkAssumption DEF Mem, Packet
<1>3. ASSUME NEW p \in Packet, NEW q \in Packet
      PROVE  Mem(p) + Mem(q) <= NETWORK_BUFF_SIZE
  <2> DEFINE t == <<p.source, p.dest, p.len>>
             u == <<q.source, q.dest, q.len>>
  <2>1. t \in Traffic /\ u \in Traffic /\ t[3] = p.len /\ u[3] = q.len
    BY DEF Packet
  <2>2. 2 * (StackElBytes + PACKET_HEADER_SIZE) + t[3] + u[3]
          <= NETWORK_BUFF_SIZE
    <3> HIDE DEF t, u
    <3> QED
      BY <2>1, NetworkAssumption
  <2>3. /\ StackElBytes \in Nat /\ PACKET_HEADER_SIZE \in Nat
        /\ p.len \in Nat /\ q.len \in Nat
    BY NetworkAssumption DEF Packet
  <2> HIDE DEF t, u
  <2> QED
    BY <2>1, <2>2, <2>3, <1>1 DEF Mem
<1>4. ASSUME NEW p \in Packet
      PROVE  Mem(p) <= NETWORK_BUFF_SIZE
  BY <1>1, <1>2, <1>3
<1> QED
  BY <1>1, <1>2, <1>3, <1>4

(* Released is the last of the sums of a sequence. *)
LEMMA ReleasedTrace ==
  ASSUME NEW s \in Seq(Packet), NEW k \in 0 .. Len(s)
  PROVE  \E h \in [0 .. k -> Nat] :
           /\ h[0] = 0
           /\ \A i \in 1 .. k : h[i] = h[i - 1] + Mem(s[i])
           /\ Released(s, k) = h[k]
<1> DEFINE q == SubSeq(s, 1, k)
           G == [x \in Nat \X (1 .. k) |-> x[1] + Mem(s[x[2]])]
           Rec(g) == g = [t \in SUBSET (1 .. k) |->
                            IF t = {} THEN 0
                            ELSE g[t \ {Max(t)}] + Mem(q[Max(t)])]
           sum == CHOOSE g : Rec(g)
<1>1. /\ DOMAIN q = 1 .. k /\ k \in Nat /\ 0 \in Nat
      /\ \A i \in 1 .. k : q[i] = s[i] /\ Mem(s[i]) \in Nat
  <2>1. k \in Nat /\ \A i \in 1 .. k : s[i] \in Packet
    BY LenProperties, ElementOfSeq
  <2>2. /\ q \in Seq(Packet) /\ Len(q) = IF 1 <= k THEN k - 1 + 1 ELSE 0
        /\ \A i \in 1 .. k - 1 + 1 : q[i] = s[1 + i - 1]
    BY <2>1, SubSeqProperties
  <2> HIDE DEF q
  <2>3. Len(q) = k /\ DOMAIN q = 1 .. k
    BY <2>1, <2>2, LenProperties
  <2>4. \A i \in 1 .. k : Mem(s[i]) \in Nat
    BY <2>1, PacketBytes
  <2> QED
    BY <2>1, <2>2, <2>3, <2>4
<1>2. G \in [Nat \X (1 .. k) -> Nat]
  BY <1>1
<1>3. PICK g \in [SUBSET (1 .. k) -> Nat] : IsFold(g, k, 0, G)
  <2> HIDE DEF G
  <2> QED
    BY <1>1, <1>2, SubsetRecursion
<1>4. ASSUME NEW t \in SUBSET (1 .. k), t # {}
      PROVE  \A x \in Nat : G[<<x, Max(t)>>] = x + Mem(q[Max(t)])
  <2>1. Max(t) \in 1 .. k
    BY <1>1, <1>4, MaxOf
  <2> QED
    BY <1>1, <2>1
<1>5. Rec(g)
  <2> HIDE DEF G, q
  <2> QED
    BY <1>3, <1>4 DEF IsFold
<1>6. Rec(sum)
  <2> HIDE DEF Rec
  <2> QED
    BY <1>5
<1>7. Released(s, k) = sum[1 .. k]
  BY <1>1 DEF Released, FoldLeft, MapThenFoldSet
<1> HIDE DEF q, sum
<1>8. sum[{}] = 0
  BY <1>6
<1>9. Follows(sum, k, Nat, 0, G)
  <2> HIDE DEF G
  <2> QED
    BY <1>2, <1>4, <1>6, <1>8 DEF Follows
<1>10. PICK h \in [0 .. k -> Nat] : IsTrace(h, k, 0, G) /\ h[k] = sum[1 .. k]
  <2> DEFINE X == Nat
  <2>1. k \in Nat /\ 0 \in X /\ Follows(sum, k, X, 0, G)
    BY <1>1, <1>9
  <2> HIDE DEF X, G, Rec
  <2>2. \E h \in [0 .. k -> X] : IsTrace(h, k, 0, G) /\ h[k] = sum[1 .. k]
    BY <2>1, FoldTrace
  <2> QED
    BY <2>2 DEF X
<1>11. \A i \in 1 .. k : h[i] = h[i - 1] + Mem(s[i])
  <2>1. \A i \in 1 .. k : i - 1 \in 0 .. k
    BY <1>1
  <2>2. \A i \in 1 .. k : h[i - 1] \in Nat
    BY <2>1
  <2> QED
    BY <1>1, <1>10, <2>2 DEF IsTrace
<1> QED
  BY <1>7, <1>10, <1>11 DEF IsTrace

LEMMA ReleasedStep ==
  ASSUME NEW s \in Seq(Packet)
  PROVE  /\ Released(s, 0) = 0
         /\ \A k \in 1 .. Len(s) :
              Released(s, k) = Released(s, k - 1) + Mem(s[k])
         /\ \A k \in 0 .. Len(s) : Released(s, k) \in Nat
<1>1. Len(s) \in Nat
  BY LenProperties
<1>2. ASSUME NEW k \in 0 .. Len(s)
      PROVE  Released(s, k) \in Nat
  <2>1. PICK h \in [0 .. k -> Nat] : Released(s, k) = h[k]
    BY ReleasedTrace
  <2> QED
    BY <1>1, <2>1
<1>3. Released(s, 0) = 0
  BY ReleasedTrace, <1>1
<1>4. ASSUME NEW k \in 1 .. Len(s)
      PROVE  Released(s, k) = Released(s, k - 1) + Mem(s[k])
  <2>1. k \in 0 .. Len(s) /\ k - 1 \in 0 .. Len(s) /\ k \in Nat
    BY <1>1
  <2>2. PICK h \in [0 .. k -> Nat] :
          /\ h[0] = 0
          /\ \A i \in 1 .. k : h[i] = h[i - 1] + Mem(s[i])
          /\ Released(s, k) = h[k]
    BY <2>1, ReleasedTrace
  <2>3. PICK g \in [0 .. k - 1 -> Nat] :
          /\ g[0] = 0
          /\ \A i \in 1 .. k - 1 : g[i] = g[i - 1] + Mem(s[i])
          /\ Released(s, k - 1) = g[k - 1]
    BY <2>1, ReleasedTrace
  <2> DEFINE T == {i \in 0 .. k - 1 : g[i] = h[i]}
  <2>4. 0 \in T
    BY <2>1, <2>2, <2>3
  <2>5. \A i \in 1 .. k - 1 : i - 1 \in T => i \in T
    BY <2>1, <2>2, <2>3
  <2>6. k - 1 \in T
    <3>1. k - 1 \in Nat
      BY <2>1
    <3> HIDE DEF T
    <3>2. \A i \in 0 .. k - 1 : i \in T
      BY <2>4, <2>5, <3>1, UpTo
    <3> QED
      BY <3>1, <3>2
  <2> QED
    BY <2>1, <2>2, <2>3, <2>6
<1> QED
  BY <1>2, <1>3, <1>4

LEMMA ReleasedGrows ==
  ASSUME NEW s \in Seq(Packet), NEW k \in 0 .. Len(s), NEW j \in 0 .. k
  PROVE  Released(s, j) <= Released(s, k)
<1> DEFINE T == {i \in 0 .. k : i >= j => Released(s, j) <= Released(s, i)}
<1>1. Len(s) \in Nat /\ k \in Nat /\ j \in Nat
  BY LenProperties
<1>2. 0 \in T
  BY <1>1, ReleasedStep
<1>3. ASSUME NEW i \in 1 .. k, i - 1 \in T
      PROVE  i \in T
  <2>1. /\ Released(s, i) = Released(s, i - 1) + Mem(s[i])
        /\ Released(s, i) \in Nat /\ Released(s, i - 1) \in Nat
        /\ Released(s, j) \in Nat
    BY <1>1, ReleasedStep
  <2>2. Mem(s[i]) \in Nat
    <3>1. i \in 1 .. Len(s)
      BY <1>1
    <3> QED
      BY <3>1, PacketBytes, ElementOfSeq
  <2> QED
    BY <1>1, <1>3, <2>1, <2>2
<1>4. \A i \in 0 .. k : i \in T
  <2> HIDE DEF T
  <2> QED
    BY <1>1, <1>2, <1>3, UpTo
<1> QED
  BY <1>1, <1>4

LEMMA ReleasedAppend ==
  ASSUME NEW s \in Seq(Packet), NEW p \in Packet
  PROVE  /\ \A k \in 0 .. Len(s) : Released(Append(s, p), k) = Released(s, k)
         /\ Released(Append(s, p), Len(s) + 1)
              = Released(s, Len(s)) + Mem(p)
<1> DEFINE a == Append(s, p)
           T == {k \in 0 .. Len(s) : Released(a, k) = Released(s, k)}
<1>1. /\ Len(s) \in Nat
      /\ a \in Seq(Packet) /\ Len(a) = Len(s) + 1
      /\ \A i \in 1 .. Len(s) : a[i] = s[i]
      /\ a[Len(s) + 1] = p
  BY LenProperties, AppendProperties
<1> HIDE DEF a
<1>2. 0 \in T
  BY <1>1, ReleasedStep
<1>3. ASSUME NEW i \in 1 .. Len(s), i - 1 \in T
      PROVE  i \in T
  <2>1. Released(s, i) = Released(s, i - 1) + Mem(s[i])
    BY ReleasedStep
  <2>2. i \in 1 .. Len(a) /\ i \in 0 .. Len(s)
    BY <1>1
  <2>3. Released(a, i) = Released(a, i - 1) + Mem(a[i])
    BY <1>1, <2>2, ReleasedStep
  <2> QED
    BY <1>1, <1>3, <2>1, <2>2, <2>3
<1>4. \A i \in 0 .. Len(s) : i \in T
  <2> HIDE DEF T
  <2> QED
    BY <1>1, <1>2, <1>3, UpTo
<1>5. Released(a, Len(s) + 1) = Released(a, Len(s)) + Mem(p)
  BY <1>1, ReleasedStep
<1> QED
  BY <1>1, <1>4, <1>5 DEF a

(* What is left after the k elements at the bottom were taken. *)
LEMMA ReleasedRest ==
  ASSUME NEW s \in Seq(Packet), NEW k \in 0 .. Len(s)
  PROVE  LET rest == SubSeq(s, k + 1, Len(s)) IN
         /\ rest \in Seq(Packet)
         /\ Len(rest) = Len(s) - k
         /\ \A i \in 1 .. Len(s) - k : rest[i] = s[k + i]
         /\ Released(rest, Len(s) - k) = Released(s, Len(s)) - Released(s, k)
<1> DEFINE rest == SubSeq(s, k + 1, Len(s))
           n == Len(s) - k
           T == {j \in 0 .. n :
                   Released(rest, j) = Released(s, k + j) - Released(s, k)}
<1>1. Len(s) \in Nat /\ k \in Nat /\ n \in Nat
  BY LenProperties
<1>2. /\ rest \in Seq(Packet) /\ Len(rest) = n
      /\ \A i \in 1 .. n : rest[i] = s[k + i]
  <2>1. \A i \in k + 1 .. Len(s) : s[i] \in Packet
    BY <1>1, ElementOfSeq
  <2>2. /\ rest \in Seq(Packet)
        /\ Len(rest) = IF k + 1 <= Len(s) THEN Len(s) - (k + 1) + 1 ELSE 0
        /\ \A i \in 1 .. Len(s) - (k + 1) + 1 : rest[i] = s[k + 1 + i - 1]
    BY <1>1, <2>1, SubSeqProperties
  <2> HIDE DEF rest
  <2> QED
    BY <1>1, <2>2
<1> HIDE DEF rest
<1>3. 0 \in T
  BY <1>1, <1>2, ReleasedStep
<1>4. ASSUME NEW j \in 1 .. n, j - 1 \in T
      PROVE  j \in T
  <2>1. /\ Released(rest, j) = Released(rest, j - 1) + Mem(rest[j])
        /\ Released(s, k + j) = Released(s, k + j - 1) + Mem(s[k + j])
        /\ rest[j] = s[k + j]
    <3>1. j \in 1 .. Len(rest) /\ k + j \in 1 .. Len(s)
      BY <1>1, <1>2
    <3>2. Released(rest, j) = Released(rest, j - 1) + Mem(rest[j])
      BY <1>2, <3>1, ReleasedStep
    <3>3. Released(s, k + j) = Released(s, k + j - 1) + Mem(s[k + j])
      BY <3>1, ReleasedStep
    <3> QED
      BY <1>2, <3>2, <3>3
  <2>2. /\ Released(s, k + j - 1) \in Nat /\ Released(s, k) \in Nat
        /\ Released(rest, j - 1) = Released(s, k + j - 1) - Released(s, k)
    <3>1. k + j - 1 \in 0 .. Len(s) /\ k + (j - 1) = k + j - 1
      BY <1>1
    <3>2. Released(s, k + j - 1) \in Nat /\ Released(s, k) \in Nat
      BY <3>1, ReleasedStep
    <3> QED
      BY <1>4, <3>1, <3>2
  <2>3. Mem(s[k + j]) \in Nat
    BY <1>1, ElementOfSeq, PacketBytes
  <2> QED
    BY <1>1, <2>1, <2>2, <2>3
<1>5. \A i \in 0 .. n : i \in T
  <2> HIDE DEF T, n
  <2> QED
    BY <1>1, <1>3, <1>4, UpTo
<1> QED
  BY <1>1, <1>2, <1>5 DEF rest

-----------------------------------------------------------------------------
(* The stack *)

(* What a handler works on. *)
Work == [stack : Seq(Packet), free : Nat, gone : SUBSET Packet,
         out : SUBSET [to : Node, pack : Packet]]

LEMMA ShedFacts ==
  ASSUME NEW w \in Work, NEW p \in Packet,
         w.free + Released(w.stack, Len(w.stack)) >= Mem(p)
  PROVE  /\ Shed(w, p) \in 0 .. Len(w.stack)
         /\ w.free + Released(w.stack, Shed(w, p)) >= Mem(p)
         /\ \A j \in 0 .. Shed(w, p) - 1 :
              w.free + Released(w.stack, j) < Mem(p)
<1> DEFINE S == {k \in 0 .. Len(w.stack) :
                   w.free + Released(w.stack, k) >= Mem(p)}
<1>1. /\ w.stack \in Seq(Packet) /\ Len(w.stack) \in Nat /\ w.free \in Nat
      /\ Mem(p) \in Nat
  BY LenProperties, PacketBytes DEF Work
<1>2. S \in SUBSET Nat /\ S # {}
  <2>1. Len(w.stack) \in S
    BY <1>1
  <2> QED
    BY <1>1, <2>1
<1>3. PICK k \in S : \A j \in S : k <= j
  <2> HIDE DEF S
  <2> QED
    BY <1>2, LeastOf
<1>4. ASSUME NEW j \in 0 .. k - 1
      PROVE  w.free + Released(w.stack, j) < Mem(p)
  <2>1. j \in 0 .. Len(w.stack) /\ j < k /\ j \in Nat /\ k \in Nat
    BY <1>1, <1>3
  <2>2. j \notin S
    <3> HIDE DEF S
    <3> QED
      BY <1>2, <1>3, <2>1
  <2>3. Released(w.stack, j) \in Nat
    BY <1>1, <2>1, ReleasedStep
  <2> QED
    BY <1>1, <2>1, <2>2, <2>3
<1>5. \E i \in 0 .. Len(w.stack) :
        /\ w.free + Released(w.stack, i) >= Mem(p)
        /\ \A j \in 0 .. i - 1 : w.free + Released(w.stack, j) < Mem(p)
  BY <1>3, <1>4
<1> QED
  BY <1>5 DEF Shed

(* The elements that push deletes and keeps, and its accounting. *)
LEMMA PushFacts ==
  ASSUME NEW w \in Work, NEW p \in Packet,
         w.free + Released(w.stack, Len(w.stack)) >= Mem(p)
  PROVE  LET v == Push(w, p)
             k == Shed(w, p)
         IN  /\ v \in Work
             /\ v.out = w.out
             /\ v.gone = w.gone \cup {w.stack[i] : i \in 1 .. k}
             /\ Len(v.stack) = Len(w.stack) - k + 1
             /\ \A i \in 1 .. Len(w.stack) - k : v.stack[i] = w.stack[k + i]
             /\ v.stack[Len(w.stack) - k + 1] = p
             /\ v.free + Released(v.stack, Len(v.stack))
                  = w.free + Released(w.stack, Len(w.stack))
<1> DEFINE s == w.stack
           k == Shed(w, p)
           rest == SubSeq(s, k + 1, Len(s))
           v == Push(w, p)
<1>1. /\ s \in Seq(Packet) /\ Len(s) \in Nat /\ w.free \in Nat
      /\ Mem(p) \in Nat /\ w.gone \in SUBSET Packet
      /\ w.out \in SUBSET [to : Node, pack : Packet]
  BY LenProperties, PacketBytes DEF Work
<1>2. k \in 0 .. Len(s) /\ w.free + Released(s, k) >= Mem(p)
  BY ShedFacts
<1>3. v = [stack |-> Append(rest, p),
           free |-> w.free + Released(s, k) - Mem(p),
           gone |-> w.gone \cup {s[i] : i \in 1 .. k},
           out |-> w.out]
  <2>1. v = [w EXCEPT !.stack = Append(rest, p),
                      !.free = w.free + Released(s, k) - Mem(p),
                      !.gone = w.gone \cup {s[i] : i \in 1 .. k}]
    BY DEF Push
  <2> HIDE DEF k, v, rest
  <2> QED
    BY <2>1 DEF Work
<1> HIDE DEF k, v
<1>4. /\ rest \in Seq(Packet) /\ Len(rest) = Len(s) - k
      /\ \A i \in 1 .. Len(s) - k : rest[i] = s[k + i]
      /\ Released(rest, Len(s) - k) = Released(s, Len(s)) - Released(s, k)
  BY <1>1, <1>2, ReleasedRest
<1> HIDE DEF rest
<1>5. /\ Append(rest, p) \in Seq(Packet)
      /\ Len(Append(rest, p)) = Len(s) - k + 1
      /\ \A i \in 1 .. Len(s) - k : Append(rest, p)[i] = s[k + i]
      /\ Append(rest, p)[Len(s) - k + 1] = p
  BY <1>4, AppendProperties
<1>6. Released(Append(rest, p), Len(s) - k + 1)
        = Released(s, Len(s)) - Released(s, k) + Mem(p)
  BY <1>4, ReleasedAppend
<1>7. Released(s, k) \in Nat /\ Released(s, Len(s)) \in Nat
  BY <1>1, <1>2, ReleasedStep
<1>8. w.free + Released(s, k) - Mem(p) \in Nat
  BY <1>1, <1>2, <1>7
<1>9. {s[i] : i \in 1 .. k} \in SUBSET Packet
  BY <1>1, <1>2, ElementOfSeq
<1>10. v \in Work
  BY <1>1, <1>3, <1>5, <1>8, <1>9 DEF Work
<1>11. v.free + Released(v.stack, Len(v.stack))
         = w.free + Released(s, Len(s))
  BY <1>1, <1>3, <1>5, <1>6, <1>7
<1>12. /\ v.out = w.out
       /\ v.gone = w.gone \cup {s[i] : i \in 1 .. k}
       /\ v.stack = Append(rest, p)
  BY <1>3
<1>13. /\ Len(v.stack) = Len(s) - k + 1
       /\ \A i \in 1 .. Len(s) - k : v.stack[i] = s[k + i]
       /\ v.stack[Len(s) - k + 1] = p
  BY <1>5, <1>12
<1> HIDE DEF s
<1> QED
  BY <1>10, <1>11, <1>12, <1>13 DEF k, v, s

(* With room for p, push deletes nothing. *)
LEMMA PushFits ==
  ASSUME NEW w \in Work, NEW p \in Packet, w.free >= Mem(p)
  PROVE  Push(w, p) = [w EXCEPT !.stack = Append(@, p), !.free = @ - Mem(p)]
<1> DEFINE s == w.stack
           k == Shed(w, p)
<1>1. /\ s \in Seq(Packet) /\ Len(s) \in Nat /\ w.free \in Nat
      /\ Mem(p) \in Nat
  BY LenProperties, PacketBytes DEF Work
<1>2. Released(s, 0) = 0 /\ Released(s, Len(s)) \in Nat
  BY <1>1, ReleasedStep
<1>3. k = 0
  <2>1. /\ k \in 0 .. Len(s)
        /\ \A j \in 0 .. k - 1 : w.free + Released(s, j) < Mem(p)
    BY <1>1, <1>2, ShedFacts
  <2> HIDE DEF k
  <2> QED
    BY <1>1, <1>2, <2>1
<1>4. SubSeq(s, 1, Len(s)) = s
  BY <1>1, SubSeqFull
<1>5. {s[i] : i \in 1 .. 0} = {}
  OBVIOUS
<1>6. Push(w, p) = [w EXCEPT !.stack = Append(SubSeq(@, 0 + 1, Len(@)), p),
                             !.free = @ + Released(w.stack, 0) - Mem(p),
                             !.gone = @ \cup {w.stack[i] : i \in 1 .. 0}]
  BY <1>3 DEF Push
<1>7. w.free + 0 - Mem(p) = w.free - Mem(p)
  BY <1>1
<1>8. Append(SubSeq(s, 0 + 1, Len(s)), p) = Append(s, p)
  BY <1>4
<1>9. w.free + Released(w.stack, 0) - Mem(p) = w.free - Mem(p)
  BY <1>2, <1>7
<1>10. Push(w, p) = [w EXCEPT !.stack = Append(s, p),
                              !.free = w.free - Mem(p),
                              !.gone = w.gone]
  BY <1>5, <1>6, <1>8, <1>9
<1> QED
  BY <1>10 DEF Work

LEMMA RouteOf ==
  ASSUME NEW n \in Node, NEW best \in Routes(n), NEW p \in Packet
  PROVE  best[Query(p)] \in (Node \ {n}) \cup {None}
<1> DEFINE Q == {<<t[2], t[3]>> : t \in Traffic}
<1>1. Query(p) \in Q
  <2> DEFINE t == <<p.source, p.dest, p.len>>
  <2>1. t \in Traffic /\ <<t[2], t[3]>> = Query(p)
    BY DEF Packet, Query
  <2> HIDE DEF t
  <2> QED
    BY <2>1
<1>2. best \in [Q -> (Node \ {n}) \cup {None}]
  BY DEF Routes
<1> HIDE DEF Q
<1> QED
  BY <1>1, <1>2

Routed(best, p) == best[Query(p)] # None
Hop(best, p) == [to |-> best[Query(p)], pack |-> p]

(* From w to v, p was put on the stack, or passed to the link layer.       *)
Kept(w, p, v) ==
  /\ v \in Work
  /\ v.stack = Append(w.stack, p) /\ v.free = w.free
  /\ v.gone = w.gone /\ v.out = w.out

Passed(w, p, best, v) ==
  /\ v \in Work
  /\ v.stack = w.stack /\ v.free = w.free + Mem(p)
  /\ v.gone = w.gone /\ v.out = w.out \cup {Hop(best, p)}

(* One turn of the first loop of net_send_buffered. *)
LEMMA TryStep ==
  ASSUME NEW n \in Node, NEW best \in Routes(n), NEW w \in Work,
         NEW p \in Packet
  PROVE  IF Routed(best, p)
         THEN Passed(w, p, best, TryToSend(Pop(w, p), p, best))
         ELSE Kept(w, p, TryToSend(Pop(w, p), p, best))
<1> DEFINE u == Pop(w, p)
<1>1. /\ w.stack \in Seq(Packet) /\ w.free \in Nat /\ Mem(p) \in Nat
      /\ w.gone \in SUBSET Packet
      /\ w.out \in SUBSET [to : Node, pack : Packet]
  BY PacketBytes DEF Work
<1>2. u = [w EXCEPT !.free = w.free + Mem(p)]
  BY DEF Pop, Work
<1>3. u \in Work /\ u.free = w.free + Mem(p)
  BY <1>1, <1>2 DEF Work
<1>4. CASE ~Routed(best, p)
  <2>1. TryToSend(u, p, best) = Push(u, p)
    BY <1>4 DEF TryToSend, Routed
  <2>2. u.free >= Mem(p)
    BY <1>1, <1>3
  <2>3. Push(u, p) = [u EXCEPT !.stack = Append(@, p), !.free = @ - Mem(p)]
    BY <1>3, <2>2, PushFits
  <2>4. Append(w.stack, p) \in Seq(Packet)
    BY <1>1, AppendProperties
  <2> HIDE DEF u
  <2>5. u.stack = w.stack /\ u.gone = w.gone /\ u.out = w.out
    BY <1>2 DEF Work
  <2>6. u.free - Mem(p) = w.free
    BY <1>1, <1>3
  <2>7. Push(u, p) = [u EXCEPT !.stack = Append(w.stack, p), !.free = w.free]
    BY <2>3, <2>5, <2>6
  <2>8. Kept(w, p, Push(u, p))
    BY <1>1, <1>3, <2>4, <2>5, <2>7 DEF Kept, Work
  <2> QED
    BY <1>4, <2>1, <2>8 DEF u
<1>5. CASE Routed(best, p)
  <2>1. TryToSend(u, p, best) = [u EXCEPT !.out = @ \cup {Hop(best, p)}]
    BY <1>5 DEF TryToSend, Hop, Routed
  <2>2. Hop(best, p) \in [to : Node, pack : Packet]
    BY <1>5, RouteOf DEF Hop, Routed
  <2> HIDE DEF u
  <2>3. u.stack = w.stack /\ u.gone = w.gone /\ u.out = w.out
    BY <1>2 DEF Work
  <2>4. w.out \cup {Hop(best, p)} \in SUBSET [to : Node, pack : Packet]
    BY <1>1, <2>2
  <2>5. TryToSend(u, p, best) = [u EXCEPT !.out = w.out \cup {Hop(best, p)}]
    BY <2>1, <2>3
  <2>6. Passed(w, p, best, TryToSend(u, p, best))
    BY <1>1, <1>3, <2>3, <2>4, <2>5 DEF Passed, Work
  <2> QED
    BY <1>5, <2>6 DEF u
<1> QED
  BY <1>4, <1>5

(* One turn of the second loop. *)
LEMMA PutStep ==
  ASSUME NEW w \in Work, NEW p \in Packet
  PROVE  Kept(w, p, Push(Pop(w, p), p))
<1> DEFINE u == Pop(w, p)
<1>1. w.stack \in Seq(Packet) /\ w.free \in Nat /\ Mem(p) \in Nat
  BY PacketBytes DEF Work
<1>2. u = [w EXCEPT !.free = w.free + Mem(p)]
  BY DEF Pop, Work
<1>3. u \in Work /\ u.free = w.free + Mem(p)
  BY <1>1, <1>2 DEF Work
<1>4. Push(u, p) = [u EXCEPT !.stack = Append(@, p), !.free = @ - Mem(p)]
  <2>1. u.free >= Mem(p)
    BY <1>1, <1>3
  <2> HIDE DEF u
  <2> QED
    BY <1>3, <2>1, PushFits
<1>5. Append(w.stack, p) \in Seq(Packet)
  BY <1>1, AppendProperties
<1> HIDE DEF u
<1>6. u.stack = w.stack /\ u.gone = w.gone /\ u.out = w.out
  BY <1>2 DEF Work
<1>7. u.free - Mem(p) = w.free
  BY <1>1, <1>3
<1>8. Push(u, p) = [u EXCEPT !.stack = Append(w.stack, p), !.free = w.free]
  BY <1>4, <1>6, <1>7
<1>9. Kept(w, p, Push(u, p))
  BY <1>1, <1>3, <1>5, <1>6, <1>8 DEF Kept, Work
<1> QED
  BY <1>9 DEF u

(* try_to_send for every packet of s. *)
Attempts(w, s, best) ==
  FoldLeft(LAMBDA v, p : TryToSend(Pop(v, p), p, best), w, s)

LEMMA TryTrace ==
  ASSUME NEW n \in Node, NEW best \in Routes(n), NEW w \in Work,
         NEW s \in Seq(Packet)
  PROVE  \E h \in [0 .. Len(s) -> Work] :
           /\ h[0] = w
           /\ \A i \in 1 .. Len(s) :
                h[i] = TryToSend(Pop(h[i - 1], s[i]), s[i], best)
           /\ Attempts(w, s, best) = h[Len(s)]
<1> DEFINE k == Len(s)
           step(v, p) == TryToSend(Pop(v, p), p, best)
           G == [x \in Work \X (1 .. k) |-> step(x[1], s[x[2]])]
           Rec(g) == g = [t \in SUBSET (1 .. k) |->
                            IF t = {} THEN w
                            ELSE step(g[t \ {Max(t)}], s[Max(t)])]
           sum == CHOOSE g : Rec(g)
           last == Attempts(w, s, best)
<1>1. DOMAIN s = 1 .. k /\ k \in Nat /\ \A i \in 1 .. k : s[i] \in Packet
  BY LenProperties, ElementOfSeq
<1>2. last = sum[1 .. k]
  BY <1>1 DEF Attempts, FoldLeft, MapThenFoldSet
<1> HIDE DEF k, last
<1>3. \A v \in Work, i \in 1 .. k : step(v, s[i]) \in Work
  BY <1>1, TryStep DEF Kept, Passed
<1> HIDE DEF step
<1>4. G \in [Work \X (1 .. k) -> Work]
  BY <1>3
<1>5. PICK g \in [SUBSET (1 .. k) -> Work] : IsFold(g, k, w, G)
  <2> HIDE DEF G
  <2> QED
    BY <1>1, <1>4, SubsetRecursion
<1>6. ASSUME NEW t \in SUBSET (1 .. k), t # {}
      PROVE  \A x \in Work : G[<<x, Max(t)>>] = step(x, s[Max(t)])
  <2>1. Max(t) \in 1 .. k
    BY <1>1, <1>6, MaxOf
  <2> QED
    BY <1>1, <2>1
<1>7. Rec(g)
  <2> HIDE DEF G
  <2> QED
    BY <1>5, <1>6 DEF IsFold
<1>8. Rec(sum)
  <2> HIDE DEF Rec
  <2> QED
    BY <1>7
<1> HIDE DEF sum
<1>9. Follows(sum, k, Work, w, G)
  <2>1. sum[{}] = w
    BY <1>8
  <2> HIDE DEF G
  <2> QED
    BY <1>4, <1>6, <1>8, <2>1 DEF Follows
<1>10. PICK h \in [0 .. k -> Work] : IsTrace(h, k, w, G) /\ h[k] = sum[1 .. k]
  <2> HIDE DEF G, Rec
  <2> QED
    BY <1>1, <1>9, FoldTrace
<1>11. \A i \in 1 .. k : h[i] = step(h[i - 1], s[i])
  <2>1. \A i \in 1 .. k : h[i - 1] \in Work
    BY <1>1
  <2> QED
    BY <1>1, <1>10, <2>1 DEF IsTrace
<1>12. h[0] = w /\ last = h[k]
  BY <1>2, <1>10 DEF IsTrace
<1> QED
  BY <1>11, <1>12 DEF k, step, last

LEMMA PutTrace ==
  ASSUME NEW w \in Work, NEW s \in Seq(Packet)
  PROVE  \E h \in [0 .. Len(s) -> Work] :
           /\ h[0] = w
           /\ \A i \in 1 .. Len(s) : h[i] = Push(Pop(h[i - 1], s[i]), s[i])
           /\ FoldLeft(LAMBDA v, p : Push(Pop(v, p), p), w, s) = h[Len(s)]
<1> DEFINE k == Len(s)
           step(v, p) == Push(Pop(v, p), p)
           G == [x \in Work \X (1 .. k) |-> step(x[1], s[x[2]])]
           Rec(g) == g = [t \in SUBSET (1 .. k) |->
                            IF t = {} THEN w
                            ELSE step(g[t \ {Max(t)}], s[Max(t)])]
           sum == CHOOSE g : Rec(g)
           last == FoldLeft(LAMBDA v, p : Push(Pop(v, p), p), w, s)
<1>1. DOMAIN s = 1 .. k /\ k \in Nat /\ \A i \in 1 .. k : s[i] \in Packet
  BY LenProperties, ElementOfSeq
<1>2. last = sum[1 .. k]
  BY <1>1 DEF FoldLeft, MapThenFoldSet
<1> HIDE DEF k, last
<1>3. \A v \in Work, i \in 1 .. k : step(v, s[i]) \in Work
  BY <1>1, PutStep DEF Kept
<1> HIDE DEF step
<1>4. G \in [Work \X (1 .. k) -> Work]
  BY <1>3
<1>5. PICK g \in [SUBSET (1 .. k) -> Work] : IsFold(g, k, w, G)
  <2> HIDE DEF G
  <2> QED
    BY <1>1, <1>4, SubsetRecursion
<1>6. ASSUME NEW t \in SUBSET (1 .. k), t # {}
      PROVE  \A x \in Work : G[<<x, Max(t)>>] = step(x, s[Max(t)])
  <2>1. Max(t) \in 1 .. k
    BY <1>1, <1>6, MaxOf
  <2> QED
    BY <1>1, <2>1
<1>7. Rec(g)
  <2> HIDE DEF G
  <2> QED
    BY <1>5, <1>6 DEF IsFold
<1>8. Rec(sum)
  <2> HIDE DEF Rec
  <2> QED
    BY <1>7
<1> HIDE DEF sum
<1>9. Follows(sum, k, Work, w, G)
  <2>1. sum[{}] = w
    BY <1>8
  <2> HIDE DEF G
  <2> QED
    BY <1>4, <1>6, <1>8, <2>1 DEF Follows
<1>10. PICK h \in [0 .. k -> Work] : IsTrace(h, k, w, G) /\ h[k] = sum[1 .. k]
  <2> HIDE DEF G, Rec
  <2> QED
    BY <1>1, <1>9, FoldTrace
<1>11. \A i \in 1 .. k : h[i] = step(h[i - 1], s[i])
  <2>1. \A i \in 1 .. k : h[i - 1] \in Work
    BY <1>1
  <2> QED
    BY <1>1, <1>10, <2>1 DEF IsTrace
<1>12. h[0] = w /\ last = h[k]
  BY <1>2, <1>10 DEF IsTrace
<1> QED
  BY <1>11, <1>12 DEF k, step, last

-----------------------------------------------------------------------------
(* A flush *)

LEMMA ReverseFacts ==
  ASSUME NEW S, NEW s \in Seq(S)
  PROVE  /\ Reverse(s) \in Seq(S)
         /\ Len(Reverse(s)) = Len(s)
         /\ \A i \in 1 .. Len(s) : Reverse(s)[i] = s[Len(s) - i + 1]
         /\ Range(Reverse(s)) = Range(s)
         /\ IsInjective(s) => IsInjective(Reverse(s))
<1> DEFINE k == Len(s)
           r == Reverse(s)
<1>1. k \in Nat /\ DOMAIN s = 1 .. k /\ \A i \in 1 .. k : s[i] \in S
  BY LenProperties, ElementOfSeq
<1>2. r = [i \in 1 .. k |-> s[k - i + 1]]
  BY DEF Reverse
<1>3. \A i \in 1 .. k : k - i + 1 \in 1 .. k
  BY <1>1
<1> HIDE DEF k, r
<1>4. r \in Seq(S) /\ Len(r) = k
  <2>1. r \in [1 .. k -> S]
    BY <1>1, <1>2, <1>3
  <2> QED
    BY <1>1, <2>1
<1>5. \A i \in 1 .. k : r[i] = s[k - i + 1]
  BY <1>2
<1>6. Range(r) = Range(s)
  <2>1. ASSUME NEW i \in 1 .. k
        PROVE  s[i] = r[k - i + 1]
    BY <1>1, <1>3, <1>5
  <2>2. DOMAIN r = 1 .. k
    BY <1>2
  <2> QED
    BY <1>1, <1>3, <1>5, <2>1, <2>2 DEF Range
<1>7. ASSUME IsInjective(s)
      PROVE  IsInjective(r)
  <2>1. ASSUME NEW i \in 1 .. k, NEW j \in 1 .. k, r[i] = r[j]
        PROVE  i = j
    <3>1. k - i + 1 = k - j + 1
      BY <1>1, <1>3, <1>5, <1>7, <2>1 DEF IsInjective
    <3> QED
      BY <1>1, <3>1
  <2> QED
    BY <1>2, <2>1 DEF IsInjective
<1> QED
  BY <1>4, <1>5, <1>6, <1>7 DEF k, r

LEMMA ReleasedReverse ==
  ASSUME NEW s \in Seq(Packet)
  PROVE  Released(Reverse(s), Len(s)) = Released(s, Len(s))
<1> DEFINE r == Reverse(s)
           k == Len(s)
           T == {i \in 0 .. k :
                   Released(r, i) = Released(s, k) - Released(s, k - i)}
<1>1. /\ k \in Nat /\ r \in Seq(Packet) /\ Len(r) = k
      /\ \A i \in 1 .. k : r[i] = s[k - i + 1]
  BY LenProperties, ReverseFacts
<1>2. /\ Released(s, 0) = 0 /\ Released(r, 0) = 0
      /\ \A i \in 1 .. k : Released(s, i) = Released(s, i - 1) + Mem(s[i])
      /\ \A i \in 1 .. k : Released(r, i) = Released(r, i - 1) + Mem(r[i])
      /\ \A i \in 0 .. k : Released(s, i) \in Nat /\ Released(r, i) \in Nat
      /\ \A i \in 1 .. k : Mem(s[i]) \in Nat
  BY <1>1, ReleasedStep, ElementOfSeq, PacketBytes
<1> HIDE DEF k, r
<1>3. 0 \in T
  <2>1. k - 0 = k /\ 0 \in 0 .. k /\ k \in 0 .. k
    BY <1>1
  <2> QED
    BY <1>2, <2>1
<1>4. ASSUME NEW i \in 1 .. k, i - 1 \in T
      PROVE  i \in T
  <2>1. /\ i - 1 \in 0 .. k /\ k - i + 1 \in 1 .. k /\ k - i \in 0 .. k
        /\ k - (i - 1) = k - i + 1 /\ k - i + 1 - 1 = k - i /\ i \in 0 .. k
    BY <1>1
  <2>2. Released(s, k - i + 1) = Released(s, k - i) + Mem(s[k - i + 1])
    <3>1. PICK j \in 1 .. k : j = k - i + 1 /\ j - 1 = k - i
      BY <2>1
    <3>2. Released(s, j) = Released(s, j - 1) + Mem(s[j])
      BY <1>2
    <3> QED
      BY <3>1, <3>2
  <2>3. Released(r, i) = Released(r, i - 1) + Mem(s[k - i + 1])
    BY <1>1, <1>2
  <2>4. Released(r, i - 1) = Released(s, k) - Released(s, k - i + 1)
    BY <1>4, <2>1
  <2>5. /\ Released(s, k) \in Nat /\ Released(s, k - i) \in Nat
        /\ Mem(s[k - i + 1]) \in Nat
    BY <1>1, <1>2, <2>1
  <2> DEFINE x == Released(s, k)  y == Released(s, k - i)
             z == Mem(s[k - i + 1])  v == Released(s, k - i + 1)
             u == Released(r, i - 1)  t == Released(r, i)
  <2>6. t = x - y
    <3>1. v = y + z /\ t = u + z /\ u = x - v
      BY <2>2, <2>3, <2>4
    <3>2. x \in Nat /\ y \in Nat /\ z \in Nat
      BY <2>5
    <3> HIDE DEF x, y, z, v, u, t
    <3> QED
      BY <3>1, <3>2
  <2> QED
    BY <2>1, <2>6
<1>5. k \in T
  <2> HIDE DEF T
  <2>1. \A i \in 0 .. k : i \in T
    BY <1>1, <1>3, <1>4, UpTo
  <2> QED
    BY <1>1, <2>1
<1>6. k - k = 0 /\ Released(s, k) \in Nat
  BY <1>1, <1>2
<1>7. Released(r, k) = Released(s, k) - Released(s, k - k)
  BY <1>5
<1>8. Released(r, k) = Released(s, k)
  BY <1>2, <1>6, <1>7
<1> QED
  BY <1>8 DEF r, k

LEMMA OrderAppend ==
  ASSUME NEW S, NEW s \in Seq(S), NEW x \in S
  PROVE  Order(Append(s, x)) = Order(s) \cup (Range(s) \X {x})
<1> DEFINE a == Append(s, x)
<1>1. /\ Len(s) \in Nat /\ DOMAIN s = 1 .. Len(s)
      /\ DOMAIN a = 1 .. Len(s) + 1
      /\ \A i \in 1 .. Len(s) : a[i] = s[i]
      /\ a[Len(s) + 1] = x
      /\ Range(a) = Range(s) \cup {x}
  BY LenProperties, AppendProperties, RangeAppend
<1> HIDE DEF a
<1>2. ASSUME NEW y \in Order(a)
      PROVE  y \in Order(s) \cup (Range(s) \X {x})
  <2>1. y \in Range(a) \X Range(a)
    BY <1>2 DEF Order
  <2>2. PICK i \in DOMAIN a, j \in DOMAIN a :
          i < j /\ a[i] = y[1] /\ a[j] = y[2]
    BY <1>2 DEF Order
  <2>3. i \in 1 .. Len(s) /\ y[1] = s[i] /\ y[1] \in Range(s)
    BY <1>1, <2>2 DEF Range
  <2>4. CASE j \in 1 .. Len(s)
    <3>1. y[2] = s[j] /\ y[2] \in Range(s)
      BY <1>1, <2>2, <2>4 DEF Range
    <3>2. y \in Range(s) \X Range(s)
      BY <2>1, <2>3, <3>1
    <3> QED
      BY <1>1, <2>2, <2>3, <2>4, <3>1, <3>2 DEF Order
  <2>5. CASE j = Len(s) + 1
    BY <1>1, <2>1, <2>2, <2>3, <2>5
  <2> QED
    BY <1>1, <2>4, <2>5
<1>3. ASSUME NEW y \in Order(s)
      PROVE  y \in Order(a)
  <2>1. PICK i \in DOMAIN s, j \in DOMAIN s :
          i < j /\ s[i] = y[1] /\ s[j] = y[2]
    BY <1>3 DEF Order
  <2>2. y \in Range(a) \X Range(a)
    BY <1>1, <1>3 DEF Order
  <2>3. i \in DOMAIN a /\ j \in DOMAIN a /\ a[i] = y[1] /\ a[j] = y[2]
    BY <1>1, <2>1
  <2> QED
    BY <2>1, <2>2, <2>3 DEF Order
<1>4. ASSUME NEW y \in Range(s) \X {x}
      PROVE  y \in Order(a)
  <2>1. PICK i \in DOMAIN s : s[i] = y[1]
    BY <1>4 DEF Range
  <2>2. y \in Range(a) \X Range(a) /\ y[2] = x
    BY <1>1, <1>4
  <2>3. /\ i \in DOMAIN a /\ Len(s) + 1 \in DOMAIN a /\ i < Len(s) + 1
        /\ a[i] = y[1] /\ a[Len(s) + 1] = y[2]
    BY <1>1, <2>1, <2>2
  <2> QED
    BY <2>2, <2>3 DEF Order
<1> QED
  BY <1>2, <1>3, <1>4 DEF a

LEMMA OrderReverse ==
  ASSUME NEW S, NEW s \in Seq(S)
  PROVE  \A x, y : <<x, y>> \in Order(Reverse(s)) <=> <<y, x>> \in Order(s)
<1> DEFINE r == Reverse(s)
           k == Len(s)
<1>1. /\ k \in Nat /\ DOMAIN s = 1 .. k /\ DOMAIN r = 1 .. k
      /\ Range(r) = Range(s)
      /\ \A i \in 1 .. k : r[i] = s[k - i + 1]
  BY LenProperties, ReverseFacts
<1> HIDE DEF k, r
<1>2. \A i \in 1 .. k : k - i + 1 \in 1 .. k /\ s[i] = r[k - i + 1]
  <2>1. \A i \in 1 .. k : k - i + 1 \in 1 .. k /\ k - (k - i + 1) + 1 = i
    BY <1>1
  <2> QED
    BY <1>1, <2>1
<1>3. \A i, j \in 1 .. k : i < j => k - j + 1 < k - i + 1
  BY <1>1
<1>4. ASSUME NEW x, NEW y, <<x, y>> \in Order(r)
      PROVE  <<y, x>> \in Order(s)
  <2>1. PICK i \in 1 .. k, j \in 1 .. k : i < j /\ r[i] = x /\ r[j] = y
    BY <1>1, <1>4 DEF Order
  <2>2. <<y, x>> \in Range(s) \X Range(s)
    BY <1>1, <1>4 DEF Order
  <2>3. /\ k - j + 1 \in DOMAIN s /\ k - i + 1 \in DOMAIN s
        /\ k - j + 1 < k - i + 1
        /\ s[k - j + 1] = y /\ s[k - i + 1] = x
    BY <1>1, <1>2, <1>3, <2>1
  <2>4. \E l, m \in DOMAIN s : l < m /\ s[l] = y /\ s[m] = x
    BY <2>3
  <2> QED
    BY <2>2, <2>4 DEF Order
<1>5. ASSUME NEW x, NEW y, <<y, x>> \in Order(s)
      PROVE  <<x, y>> \in Order(r)
  <2>1. PICK i \in 1 .. k, j \in 1 .. k : i < j /\ s[i] = y /\ s[j] = x
    BY <1>1, <1>5 DEF Order
  <2>2. <<x, y>> \in Range(r) \X Range(r)
    BY <1>1, <1>5 DEF Order
  <2>3. /\ k - j + 1 \in DOMAIN r /\ k - i + 1 \in DOMAIN r
        /\ k - j + 1 < k - i + 1
        /\ r[k - j + 1] = x /\ r[k - i + 1] = y
    BY <1>1, <1>2, <1>3, <2>1
  <2>4. \E l, m \in DOMAIN r : l < m /\ r[l] = x /\ r[m] = y
    BY <2>3
  <2> QED
    BY <2>2, <2>4 DEF Order
<1> QED
  BY <1>4, <1>5 DEF r

(* What the first loop leaves, if no packet is on the stack twice.         *)
Tried(w, s, best, free) ==
  /\ w \in Work /\ w.gone = {}
  /\ IsInjective(w.stack)
  /\ Range(w.stack) = {p \in Range(s) : ~Routed(best, p)}
  /\ Order(w.stack) \subseteq Order(s)
  /\ w.out = {Hop(best, p) : p \in {q \in Range(s) : Routed(best, q)}}
  /\ w.free + Released(w.stack, Len(w.stack)) = free + Released(s, Len(s))

LEMMA TriedStep ==
  ASSUME NEW n \in Node, NEW best \in Routes(n), NEW free \in Nat,
         NEW s \in Seq(Packet), NEW p \in Packet, p \notin Range(s),
         NEW w, Tried(w, s, best, free)
  PROVE  Tried(TryToSend(Pop(w, p), p, best), Append(s, p), best, free)
<1> DEFINE u == TryToSend(Pop(w, p), p, best)
           a == Append(s, p)
<1>1. /\ w \in Work /\ w.stack \in Seq(Packet) /\ Len(w.stack) \in Nat
      /\ w.free \in Nat /\ Mem(p) \in Nat
      /\ Released(w.stack, Len(w.stack)) \in Nat
      /\ Released(s, Len(s)) \in Nat /\ Len(s) \in Nat
  BY LenProperties, PacketBytes, ReleasedStep DEF Tried, Work
<1>2. /\ Range(a) = Range(s) \cup {p} /\ Len(a) = Len(s) + 1
      /\ Released(a, Len(a)) = Released(s, Len(s)) + Mem(p)
      /\ Order(a) = Order(s) \cup (Range(s) \X {p})
  BY RangeAppend, AppendProperties, ReleasedAppend, OrderAppend
<1>3. u \in Work
  BY <1>1, TryStep DEF Kept, Passed
<1> HIDE DEF a
<1>4. CASE ~Routed(best, p)
  <2>1. Kept(w, p, u)
    BY <1>1, <1>4, TryStep
  <2>2. /\ u.stack = Append(w.stack, p) /\ u.free = w.free
        /\ u.gone = w.gone /\ u.out = w.out
    BY <2>1 DEF Kept
  <2> HIDE DEF u
  <2>3. p \notin Range(w.stack)
    BY DEF Tried
  <2>4. /\ Range(u.stack) = Range(w.stack) \cup {p}
        /\ IsInjective(u.stack)
        /\ Len(u.stack) = Len(w.stack) + 1
        /\ Released(u.stack, Len(u.stack))
             = Released(w.stack, Len(w.stack)) + Mem(p)
    <3>1. IsInjective(w.stack)
      BY DEF Tried
    <3> DEFINE v == w.stack
    <3>2. v \in Seq(Packet) /\ IsInjective(v) /\ p \notin Range(v)
          /\ u.stack = Append(v, p)
      BY <1>1, <2>2, <2>3, <3>1
    <3> HIDE DEF v
    <3>3. /\ Range(u.stack) = Range(v) \cup {p}
          /\ Len(u.stack) = Len(v) + 1
      BY <3>2, RangeAppend, AppendProperties
    <3>4. IsInjective(u.stack)
      BY <3>2, InjectiveAppend
    <3>5. Released(u.stack, Len(v) + 1) = Released(v, Len(v)) + Mem(p)
      BY <3>2, ReleasedAppend
    <3> QED
      BY <3>3, <3>4, <3>5 DEF v
  <2>5. Range(u.stack) = {q \in Range(a) : ~Routed(best, q)}
    BY <1>2, <1>4, <2>4 DEF Tried
  <2>6. u.out = {Hop(best, q) : q \in {r \in Range(a) : Routed(best, r)}}
    <3>1. {r \in Range(a) : Routed(best, r)}
            = {r \in Range(s) : Routed(best, r)}
      BY <1>2, <1>4
    <3> QED
      BY <2>2, <3>1 DEF Tried
  <2>7. u.free + Released(u.stack, Len(u.stack)) = free + Released(a, Len(a))
    <3>1. w.free + Released(w.stack, Len(w.stack)) = free + Released(s, Len(s))
      BY DEF Tried
    <3>2. u.free + Released(u.stack, Len(u.stack))
            = w.free + (Released(w.stack, Len(w.stack)) + Mem(p))
      BY <2>2, <2>4
    <3>3. free + Released(a, Len(a)) = free + (Released(s, Len(s)) + Mem(p))
      BY <1>2
    <3>4. w.free + (Released(w.stack, Len(w.stack)) + Mem(p))
            = free + (Released(s, Len(s)) + Mem(p))
      <4>1. /\ w.free \in Nat /\ Mem(p) \in Nat
            /\ Released(w.stack, Len(w.stack)) \in Nat
            /\ Released(s, Len(s)) \in Nat
        BY <1>1
      <4> QED
        BY <3>1, <4>1
    <3> QED
      BY <3>2, <3>3, <3>4
  <2>8. u.gone = {}
    BY <2>2 DEF Tried
  <2>9. Order(u.stack) \subseteq Order(a)
    <3>1. Order(u.stack) = Order(w.stack) \cup (Range(w.stack) \X {p})
      BY <1>1, <2>2, OrderAppend
    <3>2. /\ Order(w.stack) \subseteq Order(s)
          /\ Range(w.stack) \subseteq Range(s)
      BY DEF Tried
    <3> QED
      BY <1>2, <3>1, <3>2
  <2> QED
    BY <1>3, <2>4, <2>5, <2>6, <2>7, <2>8, <2>9 DEF Tried, u, a
<1>5. CASE Routed(best, p)
  <2>1. Passed(w, p, best, u)
    BY <1>1, <1>5, TryStep
  <2>2. /\ u.stack = w.stack /\ u.free = w.free + Mem(p)
        /\ u.gone = w.gone /\ u.out = w.out \cup {Hop(best, p)}
    BY <2>1 DEF Passed
  <2> HIDE DEF u
  <2>3. Range(u.stack) = {q \in Range(a) : ~Routed(best, q)}
    BY <1>2, <1>5, <2>2 DEF Tried
  <2>4. u.out = {Hop(best, q) : q \in {r \in Range(a) : Routed(best, r)}}
    <3>1. {r \in Range(a) : Routed(best, r)}
            = {r \in Range(s) : Routed(best, r)} \cup {p}
      BY <1>2, <1>5
    <3>2. w.out = {Hop(best, q) : q \in {r \in Range(s) : Routed(best, r)}}
      BY DEF Tried
    <3> QED
      BY <2>2, <3>1, <3>2
  <2>5. u.free + Released(u.stack, Len(u.stack)) = free + Released(a, Len(a))
    <3>1. w.free + Released(w.stack, Len(w.stack)) = free + Released(s, Len(s))
      BY DEF Tried
    <3>2. u.free + Released(u.stack, Len(u.stack))
            = w.free + (Released(w.stack, Len(w.stack)) + Mem(p))
      BY <1>1, <2>2
    <3>3. free + Released(a, Len(a)) = free + (Released(s, Len(s)) + Mem(p))
      BY <1>2
    <3>4. w.free + (Released(w.stack, Len(w.stack)) + Mem(p))
            = free + (Released(s, Len(s)) + Mem(p))
      <4>1. /\ w.free \in Nat /\ Mem(p) \in Nat
            /\ Released(w.stack, Len(w.stack)) \in Nat
            /\ Released(s, Len(s)) \in Nat
        BY <1>1
      <4> QED
        BY <3>1, <4>1
    <3> QED
      BY <3>2, <3>3, <3>4
  <2>6. /\ u.gone = {} /\ IsInjective(u.stack)
        /\ Order(u.stack) \subseteq Order(a)
    BY <1>2, <2>2 DEF Tried
  <2> QED
    BY <1>3, <2>3, <2>4, <2>5, <2>6 DEF Tried, u, a
<1> QED
  BY <1>4, <1>5

LEMMA PrefixAppend ==
  ASSUME NEW S, NEW s \in Seq(S), NEW i \in 1 .. Len(s)
  PROVE  /\ SubSeq(s, 1, i - 1) \in Seq(S)
         /\ Len(SubSeq(s, 1, i - 1)) = i - 1
         /\ \A j \in 1 .. i - 1 : SubSeq(s, 1, i - 1)[j] = s[j]
         /\ SubSeq(s, 1, i) = Append(SubSeq(s, 1, i - 1), s[i])
<1> DEFINE q == SubSeq(s, 1, i - 1)
           r == SubSeq(s, 1, i)
<1>1. i \in Nat \ {0} /\ i - 1 \in Nat /\ \A j \in 1 .. i : s[j] \in S
  BY LenProperties, ElementOfSeq
<1>2. /\ q \in Seq(S) /\ Len(q) = i - 1
      /\ \A j \in 1 .. i - 1 : q[j] = s[j]
  BY <1>1, SubSeqProperties
<1>3. r \in Seq(S) /\ Len(r) = i /\ \A j \in 1 .. i : r[j] = s[j]
  BY <1>1, SubSeqProperties
<1> HIDE DEF q, r
<1>4. /\ Append(q, s[i]) \in Seq(S) /\ Len(Append(q, s[i])) = i
      /\ \A j \in 1 .. i - 1 : Append(q, s[i])[j] = q[j]
      /\ Append(q, s[i])[i] = s[i]
  BY <1>1, <1>2, AppendProperties
<1>5. \A j \in 1 .. i : Append(q, s[i])[j] = r[j]
  BY <1>1, <1>2, <1>3, <1>4
<1>6. r = Append(q, s[i])
  BY <1>3, <1>4, <1>5, SeqEqual
<1> QED
  BY <1>2, <1>6 DEF q, r

(* The first loop takes the packets in the order of s. *)
LEMMA TryFacts ==
  ASSUME NEW n \in Node, NEW best \in Routes(n), NEW free \in Nat,
         NEW s \in Seq(Packet), IsInjective(s)
  PROVE  Tried(Attempts([stack |-> <<>>, free |-> free, gone |-> {},
                         out |-> {}], s, best),
               s, best, free)
<1> DEFINE w == [stack |-> <<>>, free |-> free, gone |-> {}, out |-> {}]
           last == Attempts(w, s, best)
           k == Len(s)
<1>1. w \in Work
  BY EmptySeq DEF Work
<1>2. PICK h \in [0 .. k -> Work] :
        /\ h[0] = w
        /\ \A i \in 1 .. k : h[i] = TryToSend(Pop(h[i - 1], s[i]), s[i], best)
        /\ last = h[k]
  <2> HIDE DEF w
  <2> QED
    BY <1>1, TryTrace
<1> HIDE DEF last
<1> DEFINE pre(i) == SubSeq(s, 1, i)
           T == {i \in 0 .. k : Tried(h[i], pre(i), best, free)}
<1>3. k \in Nat /\ \A i \in 1 .. k : s[i] \in Packet
  BY LenProperties, ElementOfSeq
<1>4. ASSUME NEW i \in 1 .. k
      PROVE  /\ pre(i - 1) \in Seq(Packet)
             /\ pre(i) = Append(pre(i - 1), s[i])
             /\ s[i] \notin Range(pre(i - 1))
  <2>1. /\ pre(i - 1) \in Seq(Packet)
        /\ Len(pre(i - 1)) = i - 1
        /\ \A j \in 1 .. i - 1 : pre(i - 1)[j] = s[j]
        /\ pre(i) = Append(pre(i - 1), s[i])
    BY PrefixAppend
  <2>2. DOMAIN s = 1 .. k
    BY LenProperties
  <2> HIDE DEF pre
  <2>3. DOMAIN pre(i - 1) = 1 .. i - 1
    BY <2>1, LenProperties
  <2>4. \A j \in 1 .. i - 1 : s[j] # s[i]
    BY <1>3, <2>2 DEF IsInjective
  <2> QED
    BY <2>1, <2>3, <2>4 DEF Range
<1>5. 0 \in T
  <2>1. pre(0) = <<>>
    BY SubSeqEmpty
  <2>2. Released(<<>>, 0) = 0 /\ Len(<<>>) = 0
    BY EmptySeq, ReleasedStep
  <2>3. /\ Range(<<>>) = {} /\ IsInjective(<<>>)
        /\ Order(<<>>) \subseteq Order(<<>>)
    BY DEF Range, IsInjective
  <2>4. /\ w.stack = <<>> /\ w.free = free /\ w.gone = {} /\ w.out = {}
        /\ 0 \in 0 .. k
    BY <1>3
  <2> HIDE DEF w, pre
  <2>5. Tried(w, <<>>, best, free)
    BY <1>1, <2>2, <2>3, <2>4 DEF Tried
  <2> QED
    BY <1>2, <2>1, <2>4, <2>5
<1>6. ASSUME NEW i \in 1 .. k, i - 1 \in T
      PROVE  i \in T
  <2>1. i - 1 \in 0 .. k /\ i \in 0 .. k
    BY <1>3
  <2> HIDE DEF pre
  <2>2. Tried(TryToSend(Pop(h[i - 1], s[i]), s[i], best),
              Append(pre(i - 1), s[i]), best, free)
    BY <1>3, <1>4, <1>6, <2>1, TriedStep
  <2> QED
    BY <1>2, <1>4, <2>1, <2>2
<1>7. k \in T
  <2> HIDE DEF T
  <2>1. \A i \in 0 .. k : i \in T
    BY <1>3, <1>5, <1>6, UpTo
  <2> QED
    BY <1>3, <2>1
<1>8. pre(k) = s
  BY SubSeqFull
<1>9. Tried(last, s, best, free)
  <2> HIDE DEF pre
  <2> QED
    BY <1>2, <1>7, <1>8
<1> QED
  BY <1>9 DEF last

(* The second loop: a packet per element of s. *)
LEMMA PutFacts ==
  ASSUME NEW w \in Work, w.stack = <<>>, NEW s \in Seq(Packet)
  PROVE  LET v == FoldLeft(LAMBDA u, p : Push(Pop(u, p), p), w, s)
         IN  /\ v \in Work
             /\ v.stack = s /\ v.free = w.free
             /\ v.gone = w.gone /\ v.out = w.out
<1> DEFINE k == Len(s)
           last == FoldLeft(LAMBDA u, p : Push(Pop(u, p), p), w, s)
<1>1. k \in Nat /\ \A i \in 1 .. k : s[i] \in Packet
  BY LenProperties, ElementOfSeq
<1>2. PICK h \in [0 .. k -> Work] :
        /\ h[0] = w
        /\ \A i \in 1 .. k : h[i] = Push(Pop(h[i - 1], s[i]), s[i])
        /\ last = h[k]
  BY PutTrace
<1> HIDE DEF last
<1> DEFINE pre(i) == SubSeq(s, 1, i)
           Done(v, i) == /\ v.stack = pre(i) /\ v.free = w.free
                         /\ v.gone = w.gone /\ v.out = w.out
           T == {i \in 0 .. k : Done(h[i], i)}
<1>3. 0 \in T
  <2>1. pre(0) = <<>>
    BY SubSeqEmpty
  <2> HIDE DEF pre
  <2>2. Done(h[0], 0)
    BY <1>2, <2>1
  <2> HIDE DEF Done
  <2> QED
    BY <1>1, <2>2
<1>4. ASSUME NEW i \in 1 .. k, i - 1 \in T
      PROVE  i \in T
  <2>1. pre(i) = Append(pre(i - 1), s[i])
    BY PrefixAppend
  <2> HIDE DEF pre
  <2>2. h[i - 1] \in Work /\ i \in 0 .. k
    BY <1>1
  <2>3. Kept(h[i - 1], s[i], h[i])
    BY <1>1, <1>2, <2>2, PutStep
  <2>4. Done(h[i - 1], i - 1)
    BY <1>4
  <2>5. Done(h[i], i)
    BY <2>1, <2>3, <2>4 DEF Kept
  <2> QED
    BY <2>2, <2>5
<1>5. Done(h[k], k)
  <2> HIDE DEF T
  <2>1. \A i \in 0 .. k : i \in T
    BY <1>1, <1>3, <1>4, UpTo
  <2>2. k \in T
    BY <1>1, <2>1
  <2> HIDE DEF Done
  <2> QED
    BY <2>2 DEF T
<1>6. pre(k) = s /\ h[k] \in Work
  BY <1>1, SubSeqFull
<1> HIDE DEF pre
<1>7. /\ last \in Work
      /\ last.stack = s /\ last.free = w.free
      /\ last.gone = w.gone /\ last.out = w.out
  BY <1>2, <1>5, <1>6
<1> QED
  BY <1>7 DEF last

LEMMA FlushFacts ==
  ASSUME NEW n \in Node, NEW best \in Routes(n),
         buff[n] \in Seq(Packet), IsInjective(buff[n]), free_bytes[n] \in Nat
  PROVE  /\ Tried(TryAll(n, best), Reverse(buff[n]), best, free_bytes[n])
         /\ PutBack(TryAll(n, best)).stack = Reverse(TryAll(n, best).stack)
         /\ Tried(PutBack(TryAll(n, best)), buff[n], best, free_bytes[n])
<1> DEFINE s == buff[n]
           r == Reverse(s)
           t == TryAll(n, best)
           w == PutBack(t)
<1>1. /\ r \in Seq(Packet) /\ Len(r) = Len(s) /\ Range(r) = Range(s)
      /\ IsInjective(r) /\ Released(r, Len(r)) = Released(s, Len(s))
  BY ReverseFacts, ReleasedReverse
<1> HIDE DEF r
<1>2. Tried(t, r, best, free_bytes[n])
  <2>1. Tried(Attempts([stack |-> <<>>, free |-> free_bytes[n], gone |-> {},
                        out |-> {}], r, best),
              r, best, free_bytes[n])
    BY <1>1, TryFacts
  <2> QED
    BY <2>1 DEF TryAll, Attempts, Load, r
<1> HIDE DEF t
<1>3. t \in Work /\ t.stack \in Seq(Packet)
  BY <1>2 DEF Tried, Work
<1> DEFINE e == [t EXCEPT !.stack = <<>>]
           rt == Reverse(t.stack)
<1>4. /\ e \in Work /\ e.stack = <<>> /\ e.free = t.free
      /\ e.gone = t.gone /\ e.out = t.out
  BY <1>3, EmptySeq DEF Work
<1>5. /\ rt \in Seq(Packet) /\ Len(rt) = Len(t.stack)
      /\ Range(rt) = Range(t.stack)
      /\ IsInjective(t.stack) => IsInjective(rt)
      /\ Released(rt, Len(rt)) = Released(t.stack, Len(t.stack))
  BY <1>3, ReverseFacts, ReleasedReverse
<1>6. /\ w \in Work /\ w.stack = rt /\ w.free = t.free
      /\ w.gone = t.gone /\ w.out = t.out
  <2> DEFINE f == FoldLeft(LAMBDA v, p : Push(Pop(v, p), p), e, rt)
  <2>1. /\ f \in Work /\ f.stack = rt /\ f.free = e.free
        /\ f.gone = e.gone /\ f.out = e.out
    <3> HIDE DEF e, rt
    <3> QED
      BY <1>4, <1>5, PutFacts
  <2>2. w = f
    BY DEF PutBack
  <2> HIDE DEF f, e, w
  <2> QED
    BY <1>4, <2>1, <2>2
<1> HIDE DEF w, s, rt
<1>7. Order(w.stack) \subseteq Order(s)
  <2>1. Order(t.stack) \subseteq Order(r)
    BY <1>2 DEF Tried
  <2>2. ASSUME NEW z \in Order(w.stack)
        PROVE  z \in Order(s)
    <3>1. PICK x, y : z = <<x, y>>
      BY <2>2 DEF Order
    <3>2. <<y, x>> \in Order(t.stack)
      BY <1>3, <1>6, <2>2, <3>1, OrderReverse DEF rt
    <3> QED
      BY <1>1, <2>1, <3>1, <3>2, OrderReverse DEF r, s
  <2> QED
    BY <2>2
<1>8. Tried(w, s, best, free_bytes[n])
  BY <1>1, <1>2, <1>5, <1>6, <1>7 DEF Tried
<1> QED
  BY <1>2, <1>6, <1>8 DEF r, s, t, w, rt

-----------------------------------------------------------------------------
(* The inductive invariant *)

Types ==
  /\ sent \subseteq Packet
  /\ buff \in [Node -> Seq(Packet)]
  /\ free_bytes \in [Node -> Nat]
  /\ link \subseteq [to : Node, pack : Packet]
  /\ evicted \subseteq Packet /\ lost \subseteq Packet
  /\ delivered \in [Node -> Seq([from : Node, data : Data])]

(* No two packets carry the same. *)
IdsDiffer == \A p, q \in sent : p.id = q.id => p = q

Accounts ==
  \A n \in Node :
    free_bytes[n] + Released(buff[n], Len(buff[n])) = NETWORK_BUFF_SIZE

(* What was delivered was sent, to that node. *)
DeliveredWasSent ==
  \A n \in Node : \A d \in Range(delivered[n]) :
    \E p \in sent : p.dest = n /\ d = [from |-> p.source, data |-> p.id]

(* Each packet is at one place, and there once. *)
OnePlace ==
  /\ \A n \in Node : IsInjective(buff[n])
  /\ \A m, n \in Node : m # n => Range(buff[m]) \cap Range(buff[n]) = {}
  /\ \A g, h \in link : g.pack = h.pack => g = h
  /\ Buffered \cap (OnLink \cup Arrived \cup evicted \cup lost) = {}
  /\ OnLink \cap (Arrived \cup evicted \cup lost) = {}
  /\ Arrived \cap (evicted \cup lost) = {}
  /\ evicted \cap lost = {}

NoneMissing == sent = Buffered \cup OnLink \cup Arrived \cup evicted \cup lost

IInv ==
  /\ Types /\ IdsDiffer /\ Accounts /\ DeliveredWasSent /\ OnePlace
  /\ NoneMissing

-----------------------------------------------------------------------------
(* Handlers *)

OutPacks(w) == {h.pack : h \in w.out}

(* The packets of n's stack and the extra ones are on the stack of w,      *)
(* deleted, or passed down: each once.                                     *)
Handles(n, extra, w) ==
  /\ w \in Work
  /\ IsInjective(w.stack)
  /\ Range(w.stack) \cup w.gone \cup OutPacks(w) = Range(buff[n]) \cup extra
  /\ Range(w.stack) \cap w.gone = {}
  /\ Range(w.stack) \cap OutPacks(w) = {}
  /\ w.gone \cap OutPacks(w) = {}
  /\ \A g, h \in w.out : g.pack = h.pack => g = h
  /\ w.free + Released(w.stack, Len(w.stack)) = NETWORK_BUFF_SIZE

(* The packets passed down go to the next nodes that the oracle named, and *)
(* it named none for those that the handler added to the stack.            *)
Guided(n, best, w) ==
  /\ \A h \in w.out : Routed(best, h.pack) /\ h = Hop(best, h.pack)
  /\ \A p \in Range(w.stack) \ Range(buff[n]) : ~Routed(best, p)

LEMMA FlushHandles ==
  ASSUME Types, OnePlace, Accounts, NEW n \in Node, NEW best \in Routes(n)
  PROVE  /\ Handles(n, {}, PutBack(TryAll(n, best)))
         /\ Guided(n, best, PutBack(TryAll(n, best)))
         /\ PutBack(TryAll(n, best)).gone = {}
         /\ \A p \in Range(PutBack(TryAll(n, best)).stack) : ~Routed(best, p)
<1> DEFINE w == PutBack(TryAll(n, best))
           s == buff[n]
           routed == {q \in Range(s) : Routed(best, q)}
<1>1. /\ s \in Seq(Packet) /\ IsInjective(s) /\ free_bytes[n] \in Nat
      /\ free_bytes[n] + Released(s, Len(s)) = NETWORK_BUFF_SIZE
  BY DEF Types, OnePlace, Accounts
<1>2. Tried(w, s, best, free_bytes[n])
  BY <1>1, FlushFacts
<1> HIDE DEF w, s
<1>3. /\ w \in Work /\ w.gone = {} /\ IsInjective(w.stack)
      /\ Range(w.stack) = Range(s) \ routed
      /\ w.out = {Hop(best, p) : p \in routed}
      /\ w.free + Released(w.stack, Len(w.stack)) = NETWORK_BUFF_SIZE
  BY <1>1, <1>2 DEF Tried
<1>4. \A p \in Range(w.stack) : ~Routed(best, p)
  BY <1>3
<1>5. \A p \in routed : Routed(best, p)
  OBVIOUS
<1> HIDE DEF routed
<1>6. \A p : Hop(best, p).pack = p
  BY DEF Hop
<1>7. OutPacks(w) = routed
  BY <1>3, <1>6 DEF OutPacks
<1>8. \A g, h \in w.out : g.pack = h.pack => g = h
  BY <1>3, <1>6
<1>9. routed \subseteq Range(s)
  BY DEF routed
<1>10. Handles(n, {}, w)
  BY <1>3, <1>7, <1>8, <1>9 DEF Handles, s
<1>11. Guided(n, best, w)
  BY <1>3, <1>4, <1>5, <1>6 DEF Guided
<1> QED
  BY <1>3, <1>4, <1>10, <1>11 DEF w

LEMMA LoadHandles ==
  ASSUME Types, OnePlace, Accounts, NEW n \in Node, NEW best
  PROVE  /\ Handles(n, {}, Load(n, buff[n]))
         /\ Guided(n, best, Load(n, buff[n]))
<1> DEFINE s == buff[n]
           l == Load(n, s)
<1>1. /\ s \in Seq(Packet) /\ IsInjective(s) /\ free_bytes[n] \in Nat
      /\ free_bytes[n] + Released(s, Len(s)) = NETWORK_BUFF_SIZE
  BY DEF Types, OnePlace, Accounts
<1>2. /\ l \in Work /\ l.stack = s /\ l.free = free_bytes[n]
      /\ l.gone = {} /\ l.out = {}
  BY <1>1 DEF Load, Work
<1> HIDE DEF l
<1>3. OutPacks(l) = {}
  BY <1>2 DEF OutPacks
<1>4. Handles(n, {}, l)
  BY <1>1, <1>2, <1>3 DEF Handles
<1>5. Guided(n, best, l)
  BY <1>2 DEF Guided
<1> QED
  BY <1>4, <1>5 DEF l

(* try_to_send takes one packet more. *)
LEMMA TryHandles ==
  ASSUME NEW n \in Node, NEW best \in Routes(n), NEW E, NEW l,
         Handles(n, E, l), Guided(n, best, l),
         NEW p \in Packet, p \notin Range(buff[n]) \cup E
  PROVE  /\ Handles(n, E \cup {p}, TryToSend(l, p, best))
         /\ Guided(n, best, TryToSend(l, p, best))
<1> DEFINE s == l.stack
           w == TryToSend(l, p, best)
           old == Range(buff[n])
<1>1. /\ l \in Work /\ s \in Seq(Packet) /\ IsInjective(s) /\ l.free \in Nat
      /\ l.free + Released(s, Len(s)) = NETWORK_BUFF_SIZE
      /\ Len(s) \in Nat /\ DOMAIN s = 1 .. Len(s)
  BY LenProperties DEF Handles, Work
<1>2. /\ Range(s) \cup l.gone \cup OutPacks(l) = old \cup E
      /\ Range(s) \cap l.gone = {}
      /\ Range(s) \cap OutPacks(l) = {}
      /\ l.gone \cap OutPacks(l) = {}
      /\ \A g, h \in l.out : g.pack = h.pack => g = h
  BY DEF Handles
<1>3. p \notin Range(s) /\ p \notin l.gone /\ p \notin OutPacks(l)
  BY <1>2
<1>4. \A h \in l.out : Routed(best, h.pack) /\ h = Hop(best, h.pack)
  BY DEF Guided
<1>5. \A q \in Range(s) \ old : ~Routed(best, q)
  BY DEF Guided
<1> HIDE DEF s, old
<1>6. CASE Routed(best, p)
  <2>1. w = [l EXCEPT !.out = @ \cup {Hop(best, p)}]
    BY <1>6 DEF TryToSend, Routed, Hop
  <2>2. Hop(best, p) \in [to : Node, pack : Packet] /\ Hop(best, p).pack = p
    BY <1>6, RouteOf DEF Hop, Routed
  <2> HIDE DEF w
  <2>3. /\ w \in Work /\ w.stack = s /\ w.free = l.free
        /\ w.gone = l.gone /\ w.out = l.out \cup {Hop(best, p)}
    BY <1>1, <2>1, <2>2 DEF Work, s
  <2>4. OutPacks(w) = OutPacks(l) \cup {p}
    BY <2>2, <2>3 DEF OutPacks
  <2>5. \A g, h \in w.out : g.pack = h.pack => g = h
    <3>1. \A g \in l.out : g.pack \in OutPacks(l)
      BY DEF OutPacks
    <3> QED
      BY <1>2, <1>3, <2>2, <2>3, <3>1
  <2>6. /\ Range(w.stack) \cup w.gone \cup OutPacks(w) = old \cup (E \cup {p})
        /\ Range(w.stack) \cap w.gone = {}
        /\ Range(w.stack) \cap OutPacks(w) = {}
        /\ w.gone \cap OutPacks(w) = {}
    BY <1>2, <1>3, <2>3, <2>4
  <2>7. Handles(n, E \cup {p}, w)
    BY <1>1, <2>3, <2>5, <2>6 DEF Handles, old
  <2>8. Guided(n, best, w)
    BY <1>4, <1>5, <1>6, <2>2, <2>3 DEF Guided, old
  <2> QED
    BY <2>7, <2>8 DEF w
<1>7. CASE ~Routed(best, p)
  <2>1. w = Push(l, p)
    BY <1>7 DEF TryToSend, Routed
  <2> DEFINE k == Shed(l, p)
  <2>2. l.free + Released(l.stack, Len(l.stack)) >= Mem(p)
    BY <1>1, PacketBytes DEF s
  <2>3. k \in 0 .. Len(s)
    BY <1>1, <2>2, ShedFacts DEF s
  <2> HIDE DEF k, w
  <2>4. /\ w \in Work /\ w.out = l.out
        /\ w.gone = l.gone \cup {s[i] : i \in 1 .. k}
        /\ Len(w.stack) = Len(s) - k + 1
        /\ \A i \in 1 .. Len(s) - k : w.stack[i] = s[k + i]
        /\ w.stack[Len(s) - k + 1] = p
        /\ w.free + Released(w.stack, Len(w.stack))
             = l.free + Released(s, Len(s))
    <3>1. w = Push(l, p) /\ k = Shed(l, p) /\ l \in Work
      BY <1>1, <2>1 DEF k
    <3> QED
      BY <2>2, <3>1, PushFacts DEF s
  <2> DEFINE m == Len(s) - k
             below == {s[i] : i \in 1 .. k}
             above == {s[k + i] : i \in 1 .. m}
  <2>5. m \in Nat /\ k \in Nat
    BY <1>1, <2>3
  <2>6. /\ w.stack \in Seq(Packet)
        /\ DOMAIN w.stack = 1 .. m + 1
        /\ \A i \in 1 .. m : w.stack[i] = s[k + i]
        /\ w.stack[m + 1] = p
    BY <2>4, LenProperties DEF Work
  <2>7. \A i \in 1 .. Len(s) : s[i] # p
    BY <1>1, <1>3 DEF Range
  <2>8. \A i \in 1 .. m : s[k + i] # p
    BY <1>1, <2>3, <2>7
  <2>9. IsInjective(w.stack)
    <3>1. ASSUME NEW i \in 1 .. m + 1, NEW j \in 1 .. m + 1,
                 w.stack[i] = w.stack[j]
          PROVE  i = j
      <4>1. CASE i \in 1 .. m /\ j \in 1 .. m
        <5>1. k + i \in 1 .. Len(s) /\ k + j \in 1 .. Len(s)
              /\ s[k + i] = s[k + j]
          BY <1>1, <2>3, <2>6, <3>1, <4>1
        <5>2. k + i = k + j
          BY <1>1, <5>1 DEF IsInjective
        <5> QED
          BY <2>5, <5>2
      <4>2. \A a \in 1 .. m : w.stack[a] # w.stack[m + 1]
        BY <2>6, <2>8
      <4>3. CASE ~ (i \in 1 .. m /\ j \in 1 .. m)
        BY <2>5, <3>1, <4>2, <4>3
      <4> QED
        BY <4>1, <4>3
    <3> QED
      BY <2>6, <3>1 DEF IsInjective
  <2>10. Range(w.stack) = above \cup {p}
    <3>1. 1 .. m + 1 = (1 .. m) \cup {m + 1}
      BY <2>5
    <3> QED
      BY <2>6, <3>1 DEF Range
  <2>11. Range(s) = below \cup above
    <3>1. \A i \in 1 .. m : k + i \in 1 .. Len(s)
      BY <1>1, <2>3
    <3>2. \A i \in 1 .. k : i \in 1 .. Len(s)
      BY <1>1, <2>3
    <3>3. ASSUME NEW i \in 1 .. Len(s)
          PROVE  i \in 1 .. k \/ (i - k \in 1 .. m /\ k + (i - k) = i)
      BY <1>1, <2>3
    <3>4. \A i \in 1 .. Len(s) : s[i] \in below \cup above
      BY <3>3
    <3> QED
      BY <1>1, <3>1, <3>2, <3>4 DEF Range
  <2>12. below \cap above = {}
    <3>1. ASSUME NEW i \in 1 .. k, NEW j \in 1 .. m, s[i] = s[k + j]
          PROVE  FALSE
      <4>1. i \in 1 .. Len(s) /\ k + j \in 1 .. Len(s) /\ i # k + j
        BY <1>1, <2>3
      <4> QED
        BY <1>1, <3>1, <4>1 DEF IsInjective
    <3> QED
      BY <3>1
  <2>13. OutPacks(w) = OutPacks(l)
    BY <2>4 DEF OutPacks
  <2>14. w.free + Released(w.stack, Len(w.stack)) = NETWORK_BUFF_SIZE
    BY <1>1, <2>4
  <2>15. w.gone = l.gone \cup below
    BY <2>4
  <2> HIDE DEF below, above
  <2>16. /\ Range(w.stack) \cup w.gone \cup OutPacks(w) = old \cup (E \cup {p})
         /\ Range(w.stack) \cap w.gone = {}
         /\ Range(w.stack) \cap OutPacks(w) = {}
         /\ w.gone \cap OutPacks(w) = {}
    BY <1>2, <1>3, <2>10, <2>11, <2>12, <2>13, <2>15
  <2>17. Handles(n, E \cup {p}, w)
    BY <1>2, <2>4, <2>9, <2>14, <2>16 DEF Handles, old
  <2>18. Guided(n, best, w)
    BY <1>4, <1>5, <1>7, <2>4, <2>10, <2>11 DEF Guided, old
  <2> QED
    BY <2>17, <2>18 DEF w
<1> QED
  BY <1>6, <1>7

(* net_send for every packet of s. *)
Sends(w, s, best) == FoldLeft(LAMBDA v, p : TryToSend(v, p, best), w, s)

(* The work at which the accounts of the buffer are right. *)
Balanced == {w \in Work : w.free + Released(w.stack, Len(w.stack))
                            = NETWORK_BUFF_SIZE}

LEMMA SendBalanced ==
  ASSUME NEW n \in Node, NEW best \in Routes(n), NEW w \in Balanced,
         NEW p \in Packet
  PROVE  TryToSend(w, p, best) \in Balanced
<1> DEFINE v == TryToSend(w, p, best)
<1>1. /\ w \in Work
      /\ w.free + Released(w.stack, Len(w.stack)) = NETWORK_BUFF_SIZE
  BY DEF Balanced
<1>2. CASE Routed(best, p)
  <2>1. v = [w EXCEPT !.out = @ \cup {Hop(best, p)}]
    BY <1>2 DEF TryToSend, Routed, Hop
  <2>2. Hop(best, p) \in [to : Node, pack : Packet]
    BY <1>2, RouteOf DEF Hop, Routed
  <2> HIDE DEF v
  <2>3. v \in Work /\ v.stack = w.stack /\ v.free = w.free
    BY <1>1, <2>1, <2>2 DEF Work
  <2> QED
    BY <1>1, <2>3 DEF Balanced, v
<1>3. CASE ~Routed(best, p)
  <2>1. v = Push(w, p)
    BY <1>3 DEF TryToSend, Routed
  <2>2. w.free + Released(w.stack, Len(w.stack)) >= Mem(p)
    BY <1>1, PacketBytes
  <2>3. v \in Work /\ v.free + Released(v.stack, Len(v.stack))
                        = w.free + Released(w.stack, Len(w.stack))
    BY <1>1, <2>1, <2>2, PushFacts
  <2> QED
    BY <1>1, <2>3 DEF Balanced
<1> QED
  BY <1>2, <1>3

LEMMA SendTrace ==
  ASSUME NEW n \in Node, NEW best \in Routes(n), NEW w \in Balanced,
         NEW s \in Seq(Packet)
  PROVE  \E h \in [0 .. Len(s) -> Balanced] :
           /\ h[0] = w
           /\ \A i \in 1 .. Len(s) : h[i] = TryToSend(h[i - 1], s[i], best)
           /\ Sends(w, s, best) = h[Len(s)]
<1> DEFINE k == Len(s)
           step(v, p) == TryToSend(v, p, best)
           G == [x \in Balanced \X (1 .. k) |-> step(x[1], s[x[2]])]
           Rec(g) == g = [t \in SUBSET (1 .. k) |->
                            IF t = {} THEN w
                            ELSE step(g[t \ {Max(t)}], s[Max(t)])]
           sum == CHOOSE g : Rec(g)
           last == Sends(w, s, best)
<1>1. DOMAIN s = 1 .. k /\ k \in Nat /\ \A i \in 1 .. k : s[i] \in Packet
  BY LenProperties, ElementOfSeq
<1>2. last = sum[1 .. k]
  BY <1>1 DEF Sends, FoldLeft, MapThenFoldSet
<1> HIDE DEF k, last
<1>3. \A v \in Balanced, i \in 1 .. k : step(v, s[i]) \in Balanced
  BY <1>1, SendBalanced
<1> HIDE DEF step
<1>4. G \in [Balanced \X (1 .. k) -> Balanced]
  BY <1>3
<1>5. PICK g \in [SUBSET (1 .. k) -> Balanced] : IsFold(g, k, w, G)
  <2> HIDE DEF G
  <2> QED
    BY <1>1, <1>4, SubsetRecursion
<1>6. ASSUME NEW t \in SUBSET (1 .. k), t # {}
      PROVE  \A x \in Balanced : G[<<x, Max(t)>>] = step(x, s[Max(t)])
  <2>1. Max(t) \in 1 .. k
    BY <1>1, <1>6, MaxOf
  <2> QED
    BY <1>1, <2>1
<1>7. Rec(g)
  <2> HIDE DEF G
  <2> QED
    BY <1>5, <1>6 DEF IsFold
<1>8. Rec(sum)
  <2> HIDE DEF Rec
  <2> QED
    BY <1>7
<1> HIDE DEF sum
<1>9. Follows(sum, k, Balanced, w, G)
  <2>1. sum[{}] = w
    BY <1>8
  <2> HIDE DEF G
  <2> QED
    BY <1>4, <1>6, <1>8, <2>1 DEF Follows
<1>10. PICK h \in [0 .. k -> Balanced] :
         IsTrace(h, k, w, G) /\ h[k] = sum[1 .. k]
  <2> HIDE DEF G, Rec
  <2> QED
    BY <1>1, <1>9, FoldTrace
<1>11. \A i \in 1 .. k : h[i] = step(h[i - 1], s[i])
  <2>1. \A i \in 1 .. k : h[i - 1] \in Balanced
    BY <1>1
  <2> QED
    BY <1>1, <1>10, <2>1 DEF IsTrace
<1>12. h[0] = w /\ last = h[k]
  BY <1>2, <1>10 DEF IsTrace
<1> QED
  BY <1>11, <1>12 DEF k, step, last

(* The packets before the i-th of s. *)
LEMMA PrefixRange ==
  ASSUME NEW S, NEW s \in Seq(S), IsInjective(s), NEW i \in 1 .. Len(s)
  PROVE  /\ Range(SubSeq(s, 1, i)) = Range(SubSeq(s, 1, i - 1)) \cup {s[i]}
         /\ s[i] \notin Range(SubSeq(s, 1, i - 1))
         /\ s[i] \in Range(s)
<1> DEFINE q == SubSeq(s, 1, i - 1)
<1>1. /\ q \in Seq(S) /\ Len(q) = i - 1
      /\ \A j \in 1 .. i - 1 : q[j] = s[j]
      /\ SubSeq(s, 1, i) = Append(q, s[i])
  BY PrefixAppend
<1>2. DOMAIN s = 1 .. Len(s) /\ Len(s) \in Nat /\ s[i] \in S
  BY LenProperties, ElementOfSeq
<1> HIDE DEF q
<1>3. DOMAIN q = 1 .. i - 1
  BY <1>1, LenProperties
<1>4. \A j \in 1 .. i - 1 : s[j] # s[i]
  BY <1>2 DEF IsInjective
<1>5. s[i] \notin Range(q)
  BY <1>1, <1>3, <1>4 DEF Range
<1>6. Range(Append(q, s[i])) = Range(q) \cup {s[i]}
  BY <1>1, <1>2, RangeAppend
<1>7. s[i] \in Range(s)
  BY <1>2 DEF Range
<1> QED
  BY <1>1, <1>5, <1>6, <1>7 DEF q

LEMMA SendsHandle ==
  ASSUME Types, OnePlace, Accounts, NEW n \in Node, NEW best \in Routes(n),
         NEW s \in Seq(Packet), IsInjective(s),
         Range(s) \cap Range(buff[n]) = {}
  PROVE  /\ Handles(n, Range(s), Sends(Load(n, buff[n]), s, best))
         /\ Guided(n, best, Sends(Load(n, buff[n]), s, best))
<1> DEFINE w == Load(n, buff[n])
           last == Sends(w, s, best)
           k == Len(s)
<1>1. Handles(n, {}, w) /\ Guided(n, best, w)
  BY LoadHandles
<1> HIDE DEF w
<1>2. w \in Balanced
  BY <1>1 DEF Handles, Balanced
<1>3. PICK h \in [0 .. k -> Balanced] :
        /\ h[0] = w
        /\ \A i \in 1 .. k : h[i] = TryToSend(h[i - 1], s[i], best)
        /\ last = h[k]
  BY <1>2, SendTrace
<1> HIDE DEF last
<1> DEFINE R(i) == Range(SubSeq(s, 1, i))
           T == {i \in 0 .. k : Handles(n, R(i), h[i]) /\ Guided(n, best, h[i])}
<1>4. k \in Nat /\ \A i \in 1 .. k : s[i] \in Packet
  BY LenProperties, ElementOfSeq
<1>5. ASSUME NEW i \in 1 .. k
      PROVE  R(i) = R(i - 1) \cup {s[i]} /\ s[i] \notin R(i - 1)
             /\ s[i] \notin Range(buff[n])
  BY PrefixRange
<1>6. R(0) = {} /\ R(k) = Range(s)
  <2>1. SubSeq(s, 1, 0) = <<>> /\ SubSeq(s, 1, k) = s
    BY SubSeqEmpty, SubSeqFull
  <2>2. Range(<<>>) = {}
    BY DEF Range
  <2> QED
    BY <2>1, <2>2
<1> HIDE DEF R
<1>7. 0 \in T
  <2>1. h[0] = w /\ R(0) = {}
    BY <1>3, <1>6
  <2>2. Handles(n, R(0), h[0]) /\ Guided(n, best, h[0])
    BY <1>1, <2>1
  <2>3. 0 \in 0 .. k
    BY <1>4
  <2> QED
    BY <2>2, <2>3
<1>8. ASSUME NEW i \in 1 .. k, i - 1 \in T
      PROVE  i \in T
  <2>1. i - 1 \in 0 .. k /\ i \in 0 .. k
    BY <1>4
  <2>2. Handles(n, R(i - 1), h[i - 1]) /\ Guided(n, best, h[i - 1])
    BY <1>8
  <2>3. s[i] \in Packet /\ s[i] \notin Range(buff[n]) \cup R(i - 1)
    BY <1>4, <1>5
  <2>4. /\ Handles(n, R(i - 1) \cup {s[i]}, TryToSend(h[i - 1], s[i], best))
        /\ Guided(n, best, TryToSend(h[i - 1], s[i], best))
    BY <2>2, <2>3, TryHandles
  <2>5. Handles(n, R(i), h[i]) /\ Guided(n, best, h[i])
    BY <1>3, <1>5, <2>4
  <2> QED
    BY <2>1, <2>5
<1>9. k \in T
  <2> HIDE DEF T
  <2>1. \A i \in 0 .. k : i \in T
    BY <1>4, <1>7, <1>8, UpTo
  <2> QED
    BY <1>4, <2>1
<1>10. Handles(n, Range(s), last) /\ Guided(n, best, last)
  BY <1>3, <1>6, <1>9
<1> QED
  BY <1>10 DEF last, w

LEMMA TryOneHandles ==
  ASSUME Types, OnePlace, Accounts, NEW n \in Node, NEW best \in Routes(n),
         NEW p \in Packet, p \notin Range(buff[n])
  PROVE  /\ Handles(n, {p}, TryToSend(Load(n, buff[n]), p, best))
         /\ Guided(n, best, TryToSend(Load(n, buff[n]), p, best))
<1> DEFINE l == Load(n, buff[n])
<1>1. Handles(n, {}, l) /\ Guided(n, best, l)
  BY LoadHandles
<1> HIDE DEF l
<1>2. p \notin Range(buff[n]) \cup {} /\ {} \cup {p} = {p}
  OBVIOUS
<1>3. /\ Handles(n, {} \cup {p}, TryToSend(l, p, best))
      /\ Guided(n, best, TryToSend(l, p, best))
  BY <1>1, <1>2, TryHandles
<1> QED
  BY <1>2, <1>3 DEF l

(* A handler that has the extra packets beside n's stack, and links' other *)
(* packets stay.                                                           *)
LEMMA HandlerStep ==
  ASSUME IInv, NEW n \in Node, NEW extra \in SUBSET Packet,
         NEW w, Handles(n, extra, w), Store(n, w),
         NEW kept \in SUBSET link, link' = kept \cup w.out,
         {h.pack : h \in kept} = OnLink \ extra,
         extra \cap (Buffered \cup Arrived \cup evicted \cup lost) = {},
         sent' = sent \cup extra, IdsDiffer',
         Arrived' = Arrived, UNCHANGED <<lost, delivered>>
  PROVE  IInv'
<1> DEFINE old == Range(buff[n])
           new == Range(w.stack)
           others == UNION {Range(buff[m]) : m \in Node \ {n}}
           passed == OutPacks(w)
<1>1. /\ buff' = [buff EXCEPT ![n] = w.stack]
      /\ free_bytes' = [free_bytes EXCEPT ![n] = w.free]
      /\ evicted' = evicted \cup w.gone
  BY DEF Store
<1>2. /\ w.stack \in Seq(Packet) /\ w.free \in Nat /\ w.gone \in SUBSET Packet
      /\ w.out \in SUBSET [to : Node, pack : Packet]
  BY DEF Handles, Work
<1>3. Types /\ Accounts /\ DeliveredWasSent /\ OnePlace /\ NoneMissing
  BY DEF IInv
<1>4. /\ buff \in [Node -> Seq(Packet)] /\ free_bytes \in [Node -> Nat]
  BY <1>3 DEF Types
<1>5. Types'
  <2>1. buff' \in [Node -> Seq(Packet)] /\ free_bytes' \in [Node -> Nat]
    BY <1>1, <1>2, <1>4
  <2>2. sent' \subseteq Packet /\ link' \subseteq [to : Node, pack : Packet]
    BY <1>2, <1>3 DEF Types
  <2>3. evicted' \subseteq Packet /\ lost' \subseteq Packet
    BY <1>1, <1>2, <1>3 DEF Types
  <2> QED
    BY <1>3, <2>1, <2>2, <2>3 DEF Types
<1>6. Accounts'
  <2>1. w.free + Released(w.stack, Len(w.stack)) = NETWORK_BUFF_SIZE
    BY DEF Handles
  <2> QED
    BY <1>1, <1>3, <1>4, <2>1 DEF Accounts
<1>7. DeliveredWasSent'
  BY <1>3 DEF DeliveredWasSent
<1>8. Buffered = old \cup others /\ Buffered' = new \cup others
  <2>1. /\ buff'[n] = w.stack
        /\ \A m \in Node \ {n} : buff'[m] = buff[m]
    BY <1>1, <1>4
  <2> QED
    BY <2>1 DEF Buffered
<1>9. OnLink' = (OnLink \ extra) \cup passed
  BY DEF OnLink, OutPacks
<1>10. /\ new \cup w.gone \cup passed = old \cup extra
       /\ new \cap w.gone = {} /\ new \cap passed = {}
       /\ w.gone \cap passed = {}
  BY DEF Handles
<1>11. old \cap others = {}
  BY <1>3 DEF OnePlace
<1>12. /\ Buffered \cap (OnLink \cup Arrived \cup evicted \cup lost) = {}
       /\ OnLink \cap (Arrived \cup evicted \cup lost) = {}
       /\ Arrived \cap (evicted \cup lost) = {}
       /\ evicted \cap lost = {}
  BY <1>3 DEF OnePlace
<1>13. sent = Buffered \cup OnLink \cup Arrived \cup evicted \cup lost
  BY <1>3 DEF NoneMissing
<1>14. \A m \in Node : IsInjective(buff'[m])
  <2>1. IsInjective(w.stack)
    BY DEF Handles
  <2> QED
    BY <1>1, <1>3, <1>4, <2>1 DEF OnePlace
<1>15. \A g, h \in link' : g.pack = h.pack => g = h
  <2>1. \A g, h \in kept : g.pack = h.pack => g = h
    BY <1>3 DEF OnePlace
  <2>2. \A g, h \in w.out : g.pack = h.pack => g = h
    BY DEF Handles
  <2>3. \A g \in kept : g.pack \in OnLink \ extra
    OBVIOUS
  <2>4. \A h \in w.out : h.pack \in old \cup extra
    BY <1>10 DEF OutPacks
  <2>5. (OnLink \ extra) \cap (old \cup extra) = {}
    BY <1>8, <1>12
  <2> QED
    BY <2>1, <2>2, <2>3, <2>4, <2>5
<1>16. \A l, m \in Node : l # m => Range(buff'[l]) \cap Range(buff'[m]) = {}
  <2>1. \A l, m \in Node : l # m => Range(buff[l]) \cap Range(buff[m]) = {}
    BY <1>3 DEF OnePlace
  <2>2. new \cap others = {}
    <3> HIDE DEF new, old, others, passed
    <3> QED
      BY <1>8, <1>10, <1>11
  <2>3. \A m \in Node \ {n} : new \cap Range(buff[m]) = {}
    <3> HIDE DEF new
    <3> QED
      BY <2>2
  <2>4. /\ buff'[n] = w.stack
        /\ \A m \in Node \ {n} : buff'[m] = buff[m]
    BY <1>1, <1>4
  <2> QED
    BY <2>1, <2>3, <2>4
<1> HIDE DEF new, old, others, passed
<1>17. /\ Buffered' \cap (OnLink' \cup Arrived' \cup evicted' \cup lost') = {}
       /\ OnLink' \cap (Arrived' \cup evicted' \cup lost') = {}
       /\ Arrived' \cap (evicted' \cup lost') = {}
       /\ evicted' \cap lost' = {}
  BY <1>1, <1>8, <1>9, <1>10, <1>11, <1>12
<1>18. sent' = Buffered' \cup OnLink' \cup Arrived' \cup evicted' \cup lost'
  BY <1>1, <1>8, <1>9, <1>10, <1>13
<1>19. OnePlace' /\ NoneMissing'
  BY <1>14, <1>15, <1>16, <1>17, <1>18 DEF OnePlace, NoneMissing
<1> QED
  BY <1>5, <1>6, <1>7, <1>19 DEF IInv

-----------------------------------------------------------------------------
(* The invariant is inductive *)

LEMMA InitInv == Init => IInv
<1> SUFFICES ASSUME Init PROVE IInv
  OBVIOUS
<1>1. Range(<<>>) = {} /\ IsInjective(<<>>) /\ Len(<<>>) = 0
      /\ Released(<<>>, 0) = 0 /\ <<>> \in Seq(Packet)
      /\ <<>> \in Seq([from : Node, data : Data])
  <2>1. Range(<<>>) = {} /\ IsInjective(<<>>)
    BY DEF Range, IsInjective
  <2>2. <<>> \in Seq(Packet) /\ <<>> \in Seq([from : Node, data : Data])
    BY EmptySeq
  <2>3. Len(<<>>) = 0
    OBVIOUS
  <2>4. Released(<<>>, 0) = 0
    BY <2>2, ReleasedStep
  <2> QED
    BY <2>1, <2>2, <2>3, <2>4
<1>2. Buffered = {} /\ OnLink = {} /\ Arrived = {}
  BY <1>1 DEF Init, Buffered, OnLink, Arrived
<1>4. Types
  BY <1>1, NetworkAssumption DEF Init, Types
<1>5. IdsDiffer
  BY DEF Init, IdsDiffer
<1>6. Accounts
  <2>1. NETWORK_BUFF_SIZE + 0 = NETWORK_BUFF_SIZE
    BY NetworkAssumption
  <2> QED
    BY <1>1, <2>1 DEF Init, Accounts
<1>7. DeliveredWasSent
  BY <1>1 DEF Init, DeliveredWasSent
<1>8. OnePlace
  BY <1>1, <1>2 DEF Init, OnePlace
<1>9. NoneMissing
  BY <1>2 DEF Init, NoneMissing
<1> QED
  BY <1>4, <1>5, <1>6, <1>7, <1>8, <1>9 DEF IInv

(* The packet that net_send builds is new. *)
LEMMA NewPacketFacts ==
  ASSUME NEW t \in Traffic, NEW d \in Unsent
  PROVE  LET p == NewPacket(t, d) IN
         /\ p \in Packet
         /\ p \notin sent
         /\ p.id = d /\ d \in Data
         /\ \A q \in sent : q.id # d
         /\ p.source = t[1] /\ p.dest = t[2] /\ p.len = t[3]
<1> DEFINE p == NewPacket(t, d)
<1>1. t \in Node \X Node \X Nat
  BY NetworkAssumption
<1>2. d \in Data /\ \A q \in sent : q.id # d
  BY DEF Unsent
<1>3. /\ p.id = d
      /\ p.source = t[1] /\ p.dest = t[2] /\ p.len = t[3]
      /\ p \in [source : Node, dest : Node, len : Nat, id : Data]
  BY <1>1, <1>2 DEF NewPacket
<1>4. <<p.source, p.dest, p.len>> = t
  BY <1>1, <1>3
<1> HIDE DEF p
<1>5. p \in Packet
  BY <1>3, <1>4 DEF Packet
<1>6. p \notin sent
  BY <1>2, <1>3
<1> QED
  BY <1>2, <1>3, <1>5, <1>6 DEF p

(* What a handler of node n with the next nodes best does to the stack of  *)
(* n and to the packets that are below.                                    *)
Effect(n, extra, best, kept) ==
  \E w : /\ Handles(n, extra, w) /\ Guided(n, best, w)
         /\ Store(n, w) /\ link' = kept \cup w.out

(* net_send for packets that carry what none carried before. *)
LEMMA SendStep ==
  ASSUME IInv, NEW n \in Node, NEW best \in Routes(n),
         NEW packs \in Seq(Packet), IsInjective(packs),
         \A p, q \in Range(packs) : p.id = q.id => p = q,
         \A p \in Range(packs), q \in sent : p.id # q.id,
         NetSend(n, packs, best)
  PROVE  IInv' /\ Effect(n, Range(packs), best, link)
<1> DEFINE extra == Range(packs)
           w == Sends(Load(n, buff[n]), packs, best)
<1>1. Types /\ IdsDiffer /\ Accounts /\ DeliveredWasSent /\ OnePlace
      /\ NoneMissing
  BY DEF IInv
<1>2. extra \in SUBSET Packet /\ extra \cap sent = {}
  <2>1. Range(packs) \subseteq Packet
    BY LenProperties, ElementOfSeq DEF Range
  <2>2. \A p \in extra : p \notin sent
    OBVIOUS
  <2> QED
    BY <2>1, <2>2
<1>3. /\ sent' = sent \cup extra /\ link' = link \cup w.out
      /\ Store(n, w) /\ lost' = lost /\ delivered' = delivered
  BY DEF NetSend, Sends
<1> HIDE DEF extra
<1>4. extra \cap (Buffered \cup OnLink \cup Arrived \cup evicted \cup lost) = {}
  BY <1>1, <1>2 DEF NoneMissing
<1>5. extra \cap Range(buff[n]) = {}
  BY <1>4 DEF Buffered
<1>6. Handles(n, extra, w) /\ Guided(n, best, w)
  BY <1>1, <1>5, SendsHandle DEF extra
<1> HIDE DEF w
<1>7. IdsDiffer'
  <2>1. \A p \in extra, q \in sent : p.id # q.id
    BY DEF extra
  <2>2. \A p, q \in extra : p.id = q.id => p = q
    BY DEF extra
  <2>3. \A p, q \in sent' : p.id = q.id => p = q
    BY <1>1, <1>3, <2>1, <2>2 DEF IdsDiffer
  <2> QED
    BY <2>3 DEF IdsDiffer
<1>8. Arrived' = Arrived
  <2>1. ASSUME NEW p \in extra,
               [from |-> p.source, data |-> p.id] \in Range(delivered[p.dest])
        PROVE  FALSE
    <3>1. p.dest \in Node
      BY <1>2 DEF Packet
    <3>2. PICK q \in sent :
            [from |-> p.source, data |-> p.id]
              = [from |-> q.source, data |-> q.id]
      BY <1>1, <2>1, <3>1 DEF DeliveredWasSent
    <3>3. p.id = q.id
      BY <3>2
    <3> QED
      BY <3>3 DEF extra
  <2>2. Arrived' = {p \in sent \cup extra : [from |-> p.source, data |-> p.id]
                                              \in Range(delivered[p.dest])}
    BY <1>3 DEF Arrived
  <2> QED
    BY <2>1, <2>2 DEF Arrived
<1>9. {h.pack : h \in link} = OnLink \ extra
  BY <1>4 DEF OnLink
<1>10. link \in SUBSET link
       /\ extra \cap (Buffered \cup Arrived \cup evicted \cup lost) = {}
  BY <1>4
<1>11. UNCHANGED <<lost, delivered>>
  BY <1>3
<1>12. IInv'
  BY <1>2, <1>3, <1>6, <1>7, <1>8, <1>9, <1>10, <1>11, HandlerStep
<1>13. Effect(n, extra, best, link)
  BY <1>3, <1>6 DEF Effect
<1> QED
  BY <1>12, <1>13 DEF extra

LEMMA SendOneStep ==
  ASSUME IInv, NEW t \in Traffic, NEW d \in Unsent, NEW best \in Routes(t[1]),
         NetSend(t[1], <<NewPacket(t, d)>>, best)
  PROVE  /\ IInv'
         /\ Effect(t[1], {NewPacket(t, d)}, best, link)
         /\ sent' = sent \cup {NewPacket(t, d)} /\ delivered' = delivered
<1> DEFINE p == NewPacket(t, d)
           packs == <<p>>
<1>1. /\ p \in Packet /\ p.id = d /\ \A q \in sent : q.id # d
  BY NewPacketFacts
<1>2. t[1] \in Node /\ NetSend(t[1], packs, best)
  BY NetworkAssumption
<1> HIDE DEF p
<1>3. packs \in Seq(Packet) /\ DOMAIN packs = {1} /\ packs[1] = p
  BY <1>1
<1>4. Range(packs) = {p} /\ IsInjective(packs)
  <2> HIDE DEF packs
  <2> QED
    BY <1>3 DEF Range, IsInjective
<1> HIDE DEF packs
<1>5. /\ \A r, q \in Range(packs) : r.id = q.id => r = q
      /\ \A r \in Range(packs), q \in sent : r.id # q.id
  BY <1>1, <1>4
<1>6. IInv' /\ Effect(t[1], Range(packs), best, link)
  BY <1>2, <1>3, <1>4, <1>5, SendStep
<1>7. sent' = sent \cup Range(packs) /\ delivered' = delivered
  BY <1>2 DEF NetSend
<1> QED
  BY <1>4, <1>6, <1>7 DEF p

LEMMA FlushStep ==
  ASSUME IInv, NEW n \in Node, NEW best \in Routes(n),
         NetSendBuffered(n, best)
  PROVE  /\ IInv' /\ Effect(n, {}, best, link)
         /\ \A p \in Range(buff'[n]) : ~Routed(best, p)
<1> DEFINE w == PutBack(TryAll(n, best))
<1>1. Types /\ IdsDiffer /\ Accounts /\ OnePlace
  BY DEF IInv
<1>2. /\ Handles(n, {}, w) /\ Guided(n, best, w)
      /\ \A p \in Range(w.stack) : ~Routed(best, p)
  BY <1>1, FlushHandles
<1>3. /\ link' = link \cup w.out /\ Store(n, w)
      /\ sent' = sent /\ UNCHANGED <<lost, delivered>>
  BY DEF NetSendBuffered
<1> HIDE DEF w
<1>4. IdsDiffer' /\ Arrived' = Arrived /\ sent' = sent \cup {}
  BY <1>1, <1>3 DEF Types, IdsDiffer, Arrived
<1>5. {h.pack : h \in link} = OnLink \ {} /\ link \in SUBSET link
      /\ {} \in SUBSET Packet
      /\ {} \cap (Buffered \cup Arrived \cup evicted \cup lost) = {}
  BY DEF OnLink
<1>6. IInv'
  BY <1>2, <1>3, <1>4, <1>5, HandlerStep
<1>7. Effect(n, {}, best, link)
  BY <1>2, <1>3 DEF Effect
<1>8. buff'[n] = w.stack
  BY <1>1, <1>3 DEF Types, Store
<1> QED
  BY <1>2, <1>6, <1>7, <1>8

(* The effect of net_recv at a node on h's way. *)
ForwardEffect(h, best) == Effect(h.to, {h.pack}, best, link \ {h})

LEMMA ForwardStep ==
  ASSUME IInv, NEW h \in link, NEW n, h.to = n,
         NEW best \in Routes(n), Forward(n, h, best)
  PROVE  IInv' /\ ForwardEffect(h, best)
<1> DEFINE p == h.pack
           w == TryToSend(Load(n, buff[n]), p, best)
<1>1. Types /\ IdsDiffer /\ Accounts /\ OnePlace
  BY DEF IInv
<1>2. n \in Node /\ p \in Packet
  BY <1>1 DEF Types
<1>3. p \in OnLink /\ p \notin Buffered \cup Arrived \cup evicted \cup lost
  <2>1. p \in OnLink
    BY DEF OnLink
  <2> QED
    BY <1>1, <2>1 DEF OnePlace
<1>4. p \notin Range(buff[n])
  BY <1>2, <1>3 DEF Buffered
<1>5. Handles(n, {p}, w) /\ Guided(n, best, w)
  BY <1>1, <1>2, <1>4, TryOneHandles
<1>6. /\ link' = (link \ {h}) \cup w.out /\ Store(n, w)
      /\ sent' = sent /\ UNCHANGED <<lost, delivered>>
  BY DEF Forward
<1> HIDE DEF w
<1>7. IdsDiffer' /\ Arrived' = Arrived
  BY <1>1, <1>6 DEF Types, IdsDiffer, Arrived
<1>8. sent' = sent \cup {p}
  BY <1>3, <1>6 DEF IInv, NoneMissing
<1>9. {g.pack : g \in link \ {h}} = OnLink \ {p}
  BY <1>1 DEF OnLink, OnePlace
<1>10. {p} \in SUBSET Packet /\ link \ {h} \in SUBSET link
       /\ {p} \cap (Buffered \cup Arrived \cup evicted \cup lost) = {}
  BY <1>2, <1>3
<1>11. IInv'
  BY <1>2, <1>5, <1>6, <1>7, <1>8, <1>9, <1>10, HandlerStep
<1>12. ForwardEffect(h, best)
  BY <1>5, <1>6 DEF Effect, ForwardEffect
<1> QED
  BY <1>11, <1>12

LEMMA PassUpStep ==
  ASSUME IInv, NEW h \in link, PassUp(h.to, h)
  PROVE  /\ IInv'
         /\ h.pack \in sent
         /\ [from |-> h.pack.source, data |-> h.pack.id]
              \notin Range(delivered[h.to])
<1> DEFINE n == h.to
           p == h.pack
           d == [from |-> p.source, data |-> p.id]
<1>1. Types /\ IdsDiffer /\ Accounts /\ DeliveredWasSent /\ OnePlace
      /\ NoneMissing
  BY DEF IInv
<1>2. n \in Node /\ p \in Packet
  BY <1>1 DEF Types
<1>3. /\ p.dest = n /\ delivered' = [delivered EXCEPT ![n] = Append(@, d)]
      /\ link' = link \ {h}
      /\ buff' = buff /\ free_bytes' = free_bytes /\ sent' = sent
      /\ evicted' = evicted /\ lost' = lost
  BY DEF PassUp
<1>4. p \in OnLink /\ p \in sent
      /\ p \notin Buffered \cup Arrived \cup evicted \cup lost
  <2>1. p \in OnLink
    BY DEF OnLink
  <2> QED
    BY <1>1, <2>1 DEF OnePlace, NoneMissing
<1>5. d \in [from : Node, data : Data]
  BY <1>2 DEF Packet
<1>6. d \notin Range(delivered[n])
  BY <1>3, <1>4 DEF Arrived
<1> HIDE DEF n, p, d
<1>7. delivered \in [Node -> Seq([from : Node, data : Data])]
  BY <1>1 DEF Types
<1>8. /\ delivered' \in [Node -> Seq([from : Node, data : Data])]
      /\ Range(delivered'[n]) = Range(delivered[n]) \cup {d}
      /\ \A m \in Node \ {n} : delivered'[m] = delivered[m]
  <2>1. delivered[n] \in Seq([from : Node, data : Data])
    BY <1>2, <1>7
  <2> DEFINE D == [from : Node, data : Data]
             s == delivered[n]
  <2>2. s \in Seq(D) /\ d \in D
    BY <1>5, <2>1
  <2> HIDE DEF D, s
  <2>3. Append(s, d) \in Seq(D)
    BY <2>2, AppendProperties
  <2>4. Range(Append(s, d)) = Range(s) \cup {d}
    BY <2>2, RangeAppend
  <2> USE DEF D, s
  <2> QED
    BY <1>2, <1>3, <1>7, <2>3, <2>4
<1>9. Types'
  <2>1. link' \subseteq [to : Node, pack : Packet]
    BY <1>1, <1>3 DEF Types
  <2> QED
    BY <1>1, <1>3, <1>8, <2>1 DEF Types
<1>10. IdsDiffer' /\ Accounts'
  BY <1>1, <1>3 DEF IdsDiffer, Accounts
<1>11. DeliveredWasSent'
  <2>1. ASSUME NEW m \in Node, NEW e \in Range(delivered'[m])
        PROVE  \E q \in sent : q.dest = m /\ e = [from |-> q.source,
                                                  data |-> q.id]
    <3>1. CASE e \in Range(delivered[m])
      BY <1>1, <3>1 DEF DeliveredWasSent
    <3>2. CASE e \notin Range(delivered[m])
      <4>1. m = n /\ e = d
        BY <1>8, <2>1, <3>2
      <4> QED
        BY <1>3, <1>4, <4>1 DEF d
    <3> QED
      BY <3>1, <3>2
  <2> QED
    BY <1>3, <2>1 DEF DeliveredWasSent
<1>12. Arrived' = Arrived \cup {p}
  <2>1. ASSUME NEW q \in sent
        PROVE  [from |-> q.source, data |-> q.id] \in Range(delivered'[q.dest])
                 <=> q \in Arrived \/ q = p
    <3>1. q.dest \in Node
      BY <1>1, <2>1 DEF Types, Packet
    <3>2. CASE q.dest # n
      BY <1>3, <1>8, <3>1, <3>2 DEF Arrived
    <3>3. CASE q.dest = n
      <4>1. [from |-> q.source, data |-> q.id] = d => q.id = p.id
        BY DEF d
      <4>2. [from |-> q.source, data |-> q.id] = d => q = p
        BY <1>1, <1>4, <4>1 DEF IdsDiffer
      <4>3. [from |-> p.source, data |-> p.id] = d
        BY DEF d
      <4> QED
        BY <1>8, <3>3, <4>2, <4>3 DEF Arrived
    <3> QED
      BY <3>2, <3>3
  <2>2. Arrived' = {q \in sent : [from |-> q.source, data |-> q.id]
                                    \in Range(delivered'[q.dest])}
    BY <1>3 DEF Arrived
  <2>3. Arrived \subseteq sent
    BY DEF Arrived
  <2> QED
    BY <1>4, <2>1, <2>2, <2>3
<1>13. Buffered' = Buffered /\ OnLink' = OnLink \ {p}
  <2>1. OnLink' = {g.pack : g \in link \ {h}}
    BY <1>3 DEF OnLink
  <2>2. {g.pack : g \in link \ {h}} = OnLink \ {p}
    BY <1>1 DEF OnLink, OnePlace, p
  <2> QED
    BY <1>3, <2>1, <2>2 DEF Buffered
<1>14. OnePlace'
  <2>1. /\ \A m \in Node : IsInjective(buff'[m])
        /\ \A l, m \in Node :
             l # m => Range(buff'[l]) \cap Range(buff'[m]) = {}
        /\ \A f, g \in link' : f.pack = g.pack => f = g
    BY <1>1, <1>3 DEF OnePlace
  <2>2. /\ Buffered' \cap (OnLink' \cup Arrived' \cup evicted' \cup lost') = {}
        /\ OnLink' \cap (Arrived' \cup evicted' \cup lost') = {}
        /\ Arrived' \cap (evicted' \cup lost') = {}
        /\ evicted' \cap lost' = {}
    BY <1>1, <1>3, <1>4, <1>12, <1>13 DEF OnePlace
  <2> QED
    BY <2>1, <2>2 DEF OnePlace
<1>15. NoneMissing'
  BY <1>1, <1>3, <1>4, <1>12, <1>13 DEF NoneMissing
<1>16. IInv'
  BY <1>9, <1>10, <1>11, <1>14, <1>15 DEF IInv
<1> QED
  BY <1>4, <1>6, <1>16 DEF n, p, d

LEMMA LoseStep ==
  ASSUME IInv, NEW h \in link, LinkLoses(h)
  PROVE  IInv'
<1> DEFINE p == h.pack
<1>1. Types /\ IdsDiffer /\ Accounts /\ DeliveredWasSent /\ OnePlace
      /\ NoneMissing
  BY DEF IInv
<1>2. p \in Packet /\ p \in OnLink
  BY <1>1 DEF Types, OnLink
<1>3. p \notin Buffered \cup Arrived \cup evicted \cup lost
  BY <1>1, <1>2 DEF OnePlace
<1>4. /\ link' = link \ {h} /\ lost' = lost \cup {p}
      /\ buff' = buff /\ free_bytes' = free_bytes /\ sent' = sent
      /\ evicted' = evicted /\ delivered' = delivered
  BY DEF LinkLoses
<1>5. OnLink' = OnLink \ {p}
  BY <1>1, <1>4 DEF OnLink, OnePlace
<1>6. Buffered' = Buffered /\ Arrived' = Arrived
  BY <1>4 DEF Buffered, Arrived
<1> HIDE DEF p
<1>7. Types' /\ IdsDiffer' /\ Accounts' /\ DeliveredWasSent'
  BY <1>1, <1>2, <1>4 DEF Types, IdsDiffer, Accounts, DeliveredWasSent
<1>8. OnePlace'
  <2>1. /\ \A m \in Node : IsInjective(buff'[m])
        /\ \A l, m \in Node :
             l # m => Range(buff'[l]) \cap Range(buff'[m]) = {}
        /\ \A f, g \in link' : f.pack = g.pack => f = g
    BY <1>1, <1>4 DEF OnePlace
  <2>2. /\ Buffered' \cap (OnLink' \cup Arrived' \cup evicted' \cup lost') = {}
        /\ OnLink' \cap (Arrived' \cup evicted' \cup lost') = {}
        /\ Arrived' \cap (evicted' \cup lost') = {}
        /\ evicted' \cap lost' = {}
    BY <1>1, <1>3, <1>4, <1>5, <1>6 DEF OnePlace
  <2> QED
    BY <2>1, <2>2 DEF OnePlace
<1>9. NoneMissing'
  BY <1>1, <1>2, <1>4, <1>5, <1>6 DEF NoneMissing
<1> QED
  BY <1>7, <1>8, <1>9 DEF IInv

LEMMA StepKeepsInv == IInv /\ [Next]_vars => IInv'
<1> SUFFICES ASSUME IInv, [Next]_vars PROVE IInv'
  OBVIOUS
<1>1. CASE UNCHANGED vars
  <2>1. /\ buff' = buff /\ free_bytes' = free_bytes /\ link' = link
        /\ sent' = sent /\ evicted' = evicted /\ lost' = lost
        /\ delivered' = delivered
    BY <1>1 DEF vars
  <2>2. Buffered' = Buffered /\ OnLink' = OnLink /\ Arrived' = Arrived
    BY <2>1 DEF Buffered, OnLink, Arrived
  <2>3. Types' /\ IdsDiffer' /\ Accounts'
    BY <2>1 DEF IInv, Types, IdsDiffer, Accounts
  <2>4. DeliveredWasSent'
    BY <2>1 DEF IInv, DeliveredWasSent
  <2>5. OnePlace' /\ NoneMissing'
    BY <2>1, <2>2 DEF IInv, OnePlace, NoneMissing
  <2> QED
    BY <2>3, <2>4, <2>5 DEF IInv
<1>2. ASSUME NEW t \in Traffic, NEW d \in Unsent, NEW best \in Routes(t[1]),
             NetSend(t[1], <<NewPacket(t, d)>>, best)
      PROVE  IInv'
  BY <1>2, SendOneStep
<1>3. ASSUME NEW n \in Node, NEW best \in Routes(n), NetSendBuffered(n, best)
      PROVE  IInv'
  BY <1>3, FlushStep
<1>4. ASSUME NEW h \in link, NEW best \in Routes(h.to),
             NetRecv(h.to, h, best)
      PROVE  IInv'
  <2>1. CASE PassUp(h.to, h)
    BY <2>1, PassUpStep
  <2>2. CASE Forward(h.to, h, best)
    BY <2>2, ForwardStep
  <2> QED
    BY <1>4, <2>1, <2>2 DEF NetRecv
<1>5. ASSUME NEW h \in link, LinkLoses(h)
      PROVE  IInv'
  BY <1>5, LoseStep
<1> QED
  BY <1>1, <1>2, <1>3, <1>4, <1>5 DEF Next

(* The inductive invariant of the network layer.                           *)
THEOREM InvariantHolds == Spec => []IInv
<1>1. Init => IInv
  BY InitInv
<1>2. IInv /\ [Next]_vars => IInv'
  BY StepKeepsInv
<1> QED
  BY <1>1, <1>2, PTL DEF Spec

-----------------------------------------------------------------------------
(* Types, the accounting of the buffer, and the copies of a packet *)

LEMMA TypesHold == IInv => TypeOK
<1> SUFFICES ASSUME IInv PROVE TypeOK
  OBVIOUS
<1>1. Types /\ Accounts /\ NoneMissing
  BY DEF IInv
<1>2. link \subseteq [to : Node, pack : sent]
  <2>1. \A h \in link : h.pack \in sent
    BY <1>1 DEF OnLink, NoneMissing
  <2> QED
    BY <1>1, <2>1 DEF Types
<1>3. Buffered \cup evicted \cup lost \subseteq sent
  BY <1>1 DEF NoneMissing
<1>4. ASSUME NEW n \in Node
      PROVE  /\ free_bytes[n] \in 0 .. NETWORK_BUFF_SIZE
             /\ free_bytes[n] + Released(buff[n], Len(buff[n]))
                  = NETWORK_BUFF_SIZE
  <2>1. buff[n] \in Seq(Packet) /\ free_bytes[n] \in Nat
    BY <1>1 DEF Types
  <2>2. Released(buff[n], Len(buff[n])) \in Nat
    <3> DEFINE s == buff[n]
    <3>1. Len(s) \in 0 .. Len(s)
      BY <2>1, LenProperties
    <3> QED
      BY <2>1, <3>1, ReleasedStep
  <2>3. free_bytes[n] + Released(buff[n], Len(buff[n])) = NETWORK_BUFF_SIZE
    BY <1>1 DEF Accounts
  <2> QED
    BY <2>1, <2>2, <2>3, PacketBytes
<1> QED
  BY <1>2, <1>3, <1>4 DEF TypeOK

(* Types, and the accounting of free_bytes (network.c:56): at each node    *)
(* the free bytes and those of the waiting packets add up to the size of   *)
(* the buffer, whatever was pushed, popped and evicted.                    *)
THEOREM TypeCorrect == Spec => []TypeOK
<1>1. IInv => TypeOK
  BY TypesHold
<1> QED
  BY <1>1, InvariantHolds, PTL

LEMMA AtMostOne ==
  ASSUME NEW S, \A x, y \in S : x = y
  PROVE  /\ Cardinality(S) \in {0, 1}
         /\ S = {} => Cardinality(S) = 0
<1>1. CASE S = {}
  BY <1>1, FS_EmptySet
<1>2. ASSUME NEW x \in S
      PROVE  Cardinality(S) = 1
  <2>1. S = {x}
    OBVIOUS
  <2> QED
    BY <2>1, FS_Singleton
<1> QED
  BY <1>1, <1>2

LEMMA OneCopyOf ==
  ASSUME IInv, NEW p \in sent
  PROVE  Cardinality({h \in link : h.pack = p}) +
         Cardinality({x \in UNION {{n} \X DOMAIN buff[n] : n \in Node} :
                        buff[x[1]][x[2]] = p}) +
         Cardinality({s \in {Arrived, evicted, lost} : p \in s}) <= 1
<1> DEFINE L == {h \in link : h.pack = p}
           B == {x \in UNION {{n} \X DOMAIN buff[n] : n \in Node} :
                   buff[x[1]][x[2]] = p}
           E == {s \in {Arrived, evicted, lost} : p \in s}
<1>1. OnePlace
  BY DEF IInv
<1>2. Cardinality(L) \in {0, 1} /\ (p \notin OnLink => Cardinality(L) = 0)
  <2>1. \A x, y \in L : x = y
    BY <1>1 DEF OnePlace
  <2>2. p \notin OnLink => L = {}
    BY DEF OnLink
  <2> HIDE DEF L
  <2> QED
    BY <2>1, <2>2, AtMostOne
<1>3. /\ Cardinality(B) \in {0, 1}
      /\ p \notin Buffered => Cardinality(B) = 0
  <2>1. ASSUME NEW x \in B, NEW y \in B
        PROVE  x = y
    <3>1. /\ x[1] \in Node /\ x[2] \in DOMAIN buff[x[1]]
          /\ buff[x[1]][x[2]] = p /\ x = <<x[1], x[2]>>
          /\ y[1] \in Node /\ y[2] \in DOMAIN buff[y[1]]
          /\ buff[y[1]][y[2]] = p /\ y = <<y[1], y[2]>>
      OBVIOUS
    <3> HIDE DEF B
    <3>2. p \in Range(buff[x[1]]) /\ p \in Range(buff[y[1]])
      BY <3>1 DEF Range
    <3>3. x[1] = y[1]
      BY <1>1, <3>1, <3>2 DEF OnePlace
    <3>4. x[2] = y[2]
      BY <1>1, <3>1, <3>3 DEF OnePlace, IsInjective
    <3> QED
      BY <3>1, <3>3, <3>4
  <2>2. p \notin Buffered => B = {}
    BY DEF Buffered, Range
  <2> HIDE DEF B
  <2> QED
    BY <2>1, <2>2, AtMostOne
<1>4. /\ Cardinality(E) \in {0, 1}
      /\ p \notin Arrived \cup evicted \cup lost => Cardinality(E) = 0
  <2>1. \A x, y \in E : x = y
    BY <1>1 DEF OnePlace
  <2>2. p \notin Arrived \cup evicted \cup lost => E = {}
    OBVIOUS
  <2> HIDE DEF E
  <2> QED
    BY <2>1, <2>2, AtMostOne
<1>5. /\ ~ (p \in Buffered /\ p \in OnLink \cup Arrived \cup evicted \cup lost)
      /\ ~ (p \in OnLink /\ p \in Arrived \cup evicted \cup lost)
  BY <1>1 DEF OnePlace
<1> HIDE DEF L, B, E
<1>6. Cardinality(L) + Cardinality(B) + Cardinality(E) <= 1
  BY <1>2, <1>3, <1>4, <1>5
<1> QED
  BY <1>6 DEF L, B, E

LEMMA OneCopyOfAll == IInv => OneCopy
<1> SUFFICES ASSUME IInv PROVE OneCopy
  OBVIOUS
<1>1. NoneMissing
  BY DEF IInv
<1>2. ASSUME NEW p \in sent
      PROVE  Cardinality({h \in link : h.pack = p}) +
             Cardinality({x \in UNION {{n} \X DOMAIN buff[n] : n \in Node} :
                            buff[x[1]][x[2]] = p}) +
             Cardinality({s \in {Arrived, evicted, lost} : p \in s}) <= 1
  BY OneCopyOf
<1> QED
  BY <1>1, <1>2 DEF OneCopy, NoneMissing

(* No packet is copied or forgotten by the network layer of any node: it   *)
(* waits on one stack, is with one link layer, was delivered, or was       *)
(* evicted or lost (network.c:195-321).                                    *)
THEOREM OneCopyHolds == Spec => []OneCopy
BY OneCopyOfAll, InvariantHolds, PTL

-----------------------------------------------------------------------------
(* The service of the transport layer's packets *)

(* What the service calls p. *)
AsMessage(p) == [src |-> p.source, dest |-> p.dest, data |-> p.id]

LEMMA ServiceInit == Init => Service!Init
<1> SUFFICES ASSUME Init PROVE Service!Init
  OBVIOUS
<1> QED
  BY DEF Init, Service!Init

LEMMA ServiceStep == IInv /\ [Next]_vars => [Service!Next]_(Service!service)
<1> SUFFICES ASSUME IInv, [Next]_vars
             PROVE  [Service!Next]_(Service!service)
  OBVIOUS
<1>1. ASSUME sent' = sent, delivered' = delivered
      PROVE  UNCHANGED Service!service
  BY <1>1 DEF Service!service
<1>2. ASSUME NEW t \in Traffic, NEW d \in Unsent, NEW best \in Routes(t[1]),
             NetSend(t[1], <<NewPacket(t, d)>>, best)
      PROVE  Service!Next
  <2> DEFINE p == NewPacket(t, d)
             m == AsMessage(p)
             out == {AsMessage(q) : q \in sent}
             Messages == {[src |-> u[1], dest |-> u[2], data |-> e] :
                            u \in Traffic, e \in Data}
  <2>1. /\ p.source = t[1] /\ p.dest = t[2]
        /\ p.id = d /\ d \in Data
        /\ \A q \in sent : q.id # d
    BY NewPacketFacts
  <2>2. sent' = sent \cup {p} /\ delivered' = delivered
    BY <1>2, SendOneStep
  <2> HIDE DEF p
  <2>3. m \in Messages
    BY <2>1 DEF AsMessage
  <2>4. m \notin out
    BY <2>1 DEF AsMessage
  <2>5. {AsMessage(q) : q \in sent'} = out \cup {m}
    BY <2>2
  <2> HIDE DEF m, out, Messages
  <2>6. /\ m \notin out /\ delivered' = delivered
        /\ {AsMessage(q) : q \in sent'} = out \cup {m}
    BY <2>2, <2>4, <2>5
  <2>7. \E x \in Messages : /\ x \notin out /\ delivered' = delivered
                           /\ {AsMessage(q) : q \in sent'} = out \cup {x}
    BY <2>3, <2>6
  <2> QED
    BY <2>7, SMTT(30)
       DEF Service!Next, Service!Accept, Messages, AsMessage, out
<1>3. ASSUME NEW h \in link, PassUp(h.to, h)
      PROVE  Service!Next
  <2> DEFINE p == h.pack
             m == AsMessage(p)
             d == [from |-> m.src, data |-> m.data]
  <2>1. p \in sent /\ [from |-> p.source, data |-> p.id]
                         \notin Range(delivered[h.to])
    BY <1>3, PassUpStep
  <2>2. /\ p.dest = h.to
        /\ delivered' = [delivered EXCEPT ![h.to] =
                           Append(@, [from |-> p.source, data |-> p.id])]
        /\ sent' = sent
    BY <1>3 DEF PassUp
  <2>3. m.src = p.source /\ m.dest = h.to /\ m.data = p.id
    BY <2>2 DEF AsMessage
  <2> HIDE DEF p
  <2>4. m \in {AsMessage(q) : q \in sent}
    BY <2>1
  <2> HIDE DEF m
  <2>5. [from |-> m.src, data |-> m.data]
          = [from |-> p.source, data |-> p.id]
    BY <2>3
  <2>6. \E x \in {AsMessage(q) : q \in sent} :
          /\ [from |-> x.src, data |-> x.data]
               \notin Service!Range(delivered[x.dest])
          /\ delivered' = [delivered EXCEPT ![x.dest] =
                             Append(@, [from |-> x.src, data |-> x.data])]
    <3>1. [from |-> m.src, data |-> m.data]
            \notin Service!Range(delivered[m.dest])
      BY <2>1, <2>3, <2>5 DEF Range, Service!Range
    <3>2. delivered' = [delivered EXCEPT ![m.dest] =
                          Append(@, [from |-> m.src, data |-> m.data])]
      BY <2>2, <2>3, <2>5
    <3> QED
      BY <2>4, <3>1, <3>2, Zenon
  <2>7. UNCHANGED {AsMessage(q) : q \in sent}
    BY <2>2
  <2>8. PICK x \in {AsMessage(q) : q \in sent} :
          /\ [from |-> x.src, data |-> x.data]
               \notin Service!Range(delivered[x.dest])
          /\ delivered' = [delivered EXCEPT ![x.dest] =
                             Append(@, [from |-> x.src, data |-> x.data])]
    BY <2>6
  <2>9. Service!Deliver(x)
    BY <2>7, <2>8 DEF Service!Deliver, AsMessage
  <2>10. x \in {[src |-> q.source, dest |-> q.dest, data |-> q.id] :
                  q \in sent}
    BY <2>8 DEF AsMessage
  <2> QED
    BY <2>9, <2>10 DEF Service!Next
<1>4. ASSUME NEW n \in Node, NEW best \in Routes(n), NetSendBuffered(n, best)
      PROVE  UNCHANGED Service!service
  BY <1>1, <1>4 DEF NetSendBuffered
<1>5. ASSUME NEW h \in link, NEW best \in Routes(h.to),
             Forward(h.to, h, best)
      PROVE  UNCHANGED Service!service
  BY <1>1, <1>5 DEF Forward
<1>6. ASSUME NEW h \in link, LinkLoses(h)
      PROVE  UNCHANGED Service!service
  BY <1>1, <1>6 DEF LinkLoses
<1>7. CASE UNCHANGED vars
  BY <1>1, <1>7 DEF vars
<1> QED
  BY <1>2, <1>3, <1>4, <1>5, <1>6, <1>7 DEF Next, NetRecv

(* Over many hops, with losses, evictions and packets that overtake each   *)
(* other, each packet gets to the transport layer of its destination at    *)
(* most once, with the name of its source (net_recv, network.c:292-321).   *)
THEOREM NetworkImplementsService == Spec => ImplementsService
<1>1. Init => Service!Init
  BY ServiceInit
<1>2. IInv /\ [Next]_vars => [Service!Next]_(Service!service)
  BY ServiceStep
<1> QED
  BY <1>1, <1>2, InvariantHolds, PTL DEF Spec, ImplementsService, Service!Spec

-----------------------------------------------------------------------------
(* What push and net_send_buffered do to a stack *)

(* net_send builds one packet. *)
LEMMA SendFold ==
  ASSUME NEW w, NEW p, NEW best
  PROVE  FoldLeft(LAMBDA v, q : TryToSend(v, q, best), w, <<p>>)
           = TryToSend(w, p, best)
<1> DEFINE s == <<p>>
           step(v, q) == TryToSend(v, q, best)
           Rec(g) == g = [t \in SUBSET (1 .. 1) |->
                            IF t = {} THEN w
                            ELSE step(g[t \ {Max(t)}], s[Max(t)])]
           sum == CHOOSE g : Rec(g)
           last == FoldLeft(LAMBDA v, q : TryToSend(v, q, best), w, s)
<1>1. DOMAIN s = 1 .. 1 /\ Len(s) = 1 /\ s[1] = p
  OBVIOUS
<1>2. last = sum[1 .. 1]
  BY <1>1 DEF FoldLeft, MapThenFoldSet
<1> HIDE DEF last, step
<1> DEFINE f == [t \in SUBSET (1 .. 1) |-> IF t = {} THEN w ELSE step(w, p)]
<1>3. Max(1 .. 1) = 1 /\ (1 .. 1) \ {Max(1 .. 1)} = {} /\ 1 .. 1 # {}
  <2>1. 1 .. 1 - 1 = {} /\ 1 \in Nat \ {0}
    OBVIOUS
  <2> QED
    BY <2>1, MaxInterval
<1>4. ASSUME NEW t \in SUBSET (1 .. 1), t # {}
      PROVE  t = 1 .. 1
  <2>1. 1 .. 1 = {1}
    OBVIOUS
  <2> QED
    BY <1>4, <2>1
<1>5. f[{}] = w /\ {} \in SUBSET (1 .. 1) /\ 1 .. 1 \in SUBSET (1 .. 1)
  OBVIOUS
<1> HIDE DEF s
<1>6. \A t \in SUBSET (1 .. 1) :
        t # {} => step(f[t \ {Max(t)}], s[Max(t)]) = step(w, p)
  <2> HIDE DEF f
  <2> QED
    BY <1>1, <1>3, <1>4, <1>5
<1>7. Rec(f)
  BY <1>6
<1> HIDE DEF f
<1>8. Rec(sum)
  <2> HIDE DEF Rec
  <2> QED
    BY <1>7
<1> HIDE DEF sum
<1>9. sum[{}] = w
  BY <1>5, <1>8
<1>10. sum[1 .. 1] = step(sum[{}], s[1])
  BY <1>3, <1>5, <1>8
<1> QED
  BY <1>1, <1>2, <1>9, <1>10 DEF step, last, s

(* A packet that does not fit does not push out all others. *)
LEMMA TryLeaves ==
  ASSUME Types, Accounts, NEW n \in Node, NEW best \in Routes(n),
         NEW p \in Packet
  PROVE  LET w == TryToSend(Load(n, buff[n]), p, best) IN
         w.gone # {} => \E q \in Range(buff[n]) : q \in Range(w.stack)
<1> DEFINE s == buff[n]
           l == Load(n, s)
           w == TryToSend(l, p, best)
<1>1. /\ s \in Seq(Packet) /\ free_bytes[n] \in Nat
      /\ free_bytes[n] + Released(s, Len(s)) = NETWORK_BUFF_SIZE
      /\ Len(s) \in Nat /\ DOMAIN s = 1 .. Len(s)
  BY LenProperties DEF Types, Accounts
<1>2. /\ l \in Work /\ l.stack = s /\ l.free = free_bytes[n]
      /\ l.gone = {} /\ l.out = {}
  BY <1>1 DEF Load, Work
<1> HIDE DEF s, l
<1>3. CASE Routed(best, p)
  <2>1. w = [l EXCEPT !.out = @ \cup {Hop(best, p)}]
    BY <1>3 DEF TryToSend, Routed, Hop
  <2> HIDE DEF w
  <2>2. w.gone = {}
    BY <1>2, <2>1 DEF Work
  <2> QED
    BY <2>2 DEF w, l, s
<1>4. CASE ~Routed(best, p)
  <2>1. w = Push(l, p)
    BY <1>4 DEF TryToSend, Routed
  <2> DEFINE k == Shed(l, p)
  <2>2. l.free + Released(l.stack, Len(l.stack)) >= Mem(p)
    BY <1>1, <1>2, PacketBytes
  <2>3. /\ k \in 0 .. Len(s)
        /\ \A j \in 0 .. k - 1 : free_bytes[n] + Released(s, j) < Mem(p)
    BY <1>2, <2>2, ShedFacts
  <2>4. /\ w \in Work
        /\ w.gone = {s[i] : i \in 1 .. k}
        /\ Len(w.stack) = Len(s) - k + 1
        /\ \A i \in 1 .. Len(s) - k : w.stack[i] = s[k + i]
    BY <1>2, <2>1, <2>2, PushFacts
  <2> HIDE DEF k, w
  <2>5. ASSUME w.gone # {}
        PROVE  \E q \in Range(s) : q \in Range(w.stack)
    <3>1. k \in Nat \ {0}
      BY <1>1, <2>3, <2>4, <2>5
    <3>2. k # Len(s)
      <4>1. SUFFICES ASSUME k = Len(s) PROVE FALSE
        OBVIOUS
      <4>2. Released(s, k) = Released(s, k - 1) + Mem(s[k])
        BY <1>1, <3>1, <4>1, ReleasedStep
      <4>3. free_bytes[n] + Released(s, k - 1) < Mem(p)
        BY <2>3, <3>1
      <4>4. Mem(p) + Mem(s[k]) <= NETWORK_BUFF_SIZE
        BY <1>1, <3>1, <4>1, ElementOfSeq, PacketBytes
      <4>5. Released(s, k - 1) \in Nat /\ Mem(s[k]) \in Nat /\ Mem(p) \in Nat
        BY <1>1, <3>1, <4>1, ReleasedStep, ElementOfSeq, PacketBytes
      <4>6. free_bytes[n] + Released(s, k) = NETWORK_BUFF_SIZE
        BY <1>1, <4>1
      <4> QED
        BY <1>1, <4>2, <4>3, <4>4, <4>5, <4>6, PacketBytes
    <3>3. 1 \in 1 .. Len(s) - k /\ k + 1 \in 1 .. Len(s)
          /\ 1 \in 1 .. Len(s) - k + 1
      <4>1. Len(s) \in Nat /\ k \in 0 .. Len(s) /\ k \in Nat \ {0}
        BY <1>1, <2>3, <3>1
      <4> QED
        BY <3>2, <4>1
    <3>4. w.stack[1] = s[k + 1]
      BY <2>4, <3>3
    <3>5. DOMAIN w.stack = 1 .. Len(s) - k + 1
      BY <2>4, LenProperties DEF Work
    <3> QED
      BY <1>1, <3>3, <3>4, <3>5 DEF Range
  <2> QED
    BY <2>5 DEF w, l, s
<1> QED
  BY <1>3, <1>4

LEMMA EvictionStep ==
  ASSUME IInv, [Next]_vars, NEW m \in Node, evicted' # evicted
  PROVE  \/ buff'[m] = buff[m]
         \/ \E p \in Range(buff[m]) : p \in Range(buff'[m])
<1>1. Types /\ Accounts /\ OnePlace
  BY DEF IInv
<1>2. ASSUME NEW n \in Node, NEW best \in Routes(n), NEW p \in Packet,
             Store(n, TryToSend(Load(n, buff[n]), p, best))
      PROVE  \/ buff'[m] = buff[m]
             \/ \E q \in Range(buff[m]) : q \in Range(buff'[m])
  <2> DEFINE w == TryToSend(Load(n, buff[n]), p, best)
  <2>1. /\ buff' = [buff EXCEPT ![n] = w.stack]
        /\ evicted' = evicted \cup w.gone
    BY <1>2 DEF Store
  <2>2. w.gone # {} => \E q \in Range(buff[n]) : q \in Range(w.stack)
    BY <1>1, TryLeaves
  <2> HIDE DEF w
  <2>3. buff \in [Node -> Seq(Packet)]
    BY <1>1 DEF Types
  <2> QED
    BY <2>1, <2>2, <2>3
<1>3. ASSUME NEW t \in Traffic, NEW d \in Unsent, NEW best \in Routes(t[1]),
             NetSend(t[1], <<NewPacket(t, d)>>, best)
      PROVE  Store(t[1], TryToSend(Load(t[1], buff[t[1]]), NewPacket(t, d),
                                   best))
  BY <1>3, SendFold DEF NetSend
<1>4. \A t \in Traffic, d \in Unsent :
        t[1] \in Node /\ NewPacket(t, d) \in Packet
  BY NewPacketFacts, NetworkAssumption
<1>5. ASSUME NEW n \in Node, NEW best \in Routes(n), NetSendBuffered(n, best)
      PROVE  FALSE
  BY <1>1, <1>5, FlushHandles DEF NetSendBuffered, Store
<1>6. ASSUME NEW h \in link, NEW best \in Routes(h.to), Forward(h.to, h, best)
      PROVE  /\ Store(h.to, TryToSend(Load(h.to, buff[h.to]), h.pack, best))
             /\ h.to \in Node /\ h.pack \in Packet
  BY <1>1, <1>6 DEF Forward, Types
<1>7. ASSUME NEW h \in link, PassUp(h.to, h) \/ LinkLoses(h)
      PROVE  FALSE
  BY <1>7 DEF PassUp, LinkLoses
<1>8. ~ UNCHANGED vars
  BY DEF vars
<1> QED
  BY <1>2, <1>3, <1>4, <1>5, <1>6, <1>7, <1>8 DEF Next, NetRecv

(* push empties no stack that had packets on it, so that dequeue           *)
(* (network.c:105-125) never leaves top pointing to the freed element.     *)
THEOREM EvictionLeavesOneHolds == Spec => EvictionLeavesOne
<1>1. IInv /\ [Next]_vars =>
        [\A n \in Node : evicted' # evicted =>
           \/ buff'[n] = buff[n]
           \/ \E p \in Range(buff[n]) : p \in Range(buff'[n])]_vars
  BY EvictionStep
<1> QED
  BY <1>1, InvariantHolds, PTL DEF Spec, EvictionLeavesOne

LEMMA FlushKeepsStep ==
  ASSUME IInv, [Next]_vars, NEW m \in Node,
         sent' = sent, buff'[m] # buff[m], link \subseteq link'
  PROVE  /\ Range(buff'[m]) = Range(buff[m]) \ OnLink'
         /\ Order(buff'[m]) \subseteq Order(buff[m])
         /\ evicted' = evicted
<1>1. Types /\ Accounts /\ OnePlace
  BY DEF IInv
<1>2. ASSUME NEW t \in Traffic, NEW d \in Unsent, NEW best \in Routes(t[1]),
             NetSend(t[1], <<NewPacket(t, d)>>, best)
      PROVE  FALSE
  <2>1. sent' = sent \cup {NewPacket(t, d)}
    BY <1>2, SendOneStep
  <2>2. NewPacket(t, d) \notin sent
    BY NewPacketFacts
  <2> QED
    BY <2>1, <2>2
<1>3. ASSUME NEW h \in link, NEW best \in Routes(h.to), Forward(h.to, h, best)
      PROVE  FALSE
  <2> DEFINE w == TryToSend(Load(h.to, buff[h.to]), h.pack, best)
  <2>1. h.to \in Node /\ h.pack \in Packet
    BY <1>1 DEF Types
  <2>2. w.out \subseteq {g \in [to : Node \ {h.to}, pack : Packet] : TRUE}
    PROOF
    <3>1. Load(h.to, buff[h.to]) \in Work
      BY <1>1, <2>1 DEF Types, Load, Work
    <3>2. Load(h.to, buff[h.to]).out = {}
      BY DEF Load
    <3>3. CASE Routed(best, h.pack)
      <4> DEFINE l == Load(h.to, buff[h.to])
      <4>1. w = [l EXCEPT !.out = @ \cup {Hop(best, h.pack)}]
        BY <3>3 DEF TryToSend, Routed, Hop
      <4> HIDE DEF l, w
      <4>2. w.out = {Hop(best, h.pack)}
        BY <3>1, <3>2, <4>1 DEF Work, l
      <4>3. Hop(best, h.pack) \in [to : Node \ {h.to}, pack : Packet]
        BY <2>1, <3>3, RouteOf DEF Hop, Routed
      <4> QED
        BY <4>2, <4>3
    <3>4. CASE ~Routed(best, h.pack)
      <4> DEFINE l == Load(h.to, buff[h.to])
      <4>1. w = Push(l, h.pack)
        BY <3>4 DEF TryToSend, Routed
      <4>2. w.out = {}
        <5> HIDE DEF l
        <5> QED
          BY <3>1, <3>2, <4>1 DEF Push, Work, l
      <4> QED
        BY <4>2
    <3> QED
      BY <3>3, <3>4
  <2>3. link' = (link \ {h}) \cup w.out
    BY <1>3 DEF Forward
  <2> HIDE DEF w
  <2>4. h \notin w.out
    BY <2>2
  <2> QED
    BY <2>3, <2>4
<1>4. ASSUME NEW n \in Node, NEW best \in Routes(n), NetSendBuffered(n, best)
      PROVE  /\ Range(buff'[m]) = Range(buff[m]) \ OnLink'
             /\ Order(buff'[m]) \subseteq Order(buff[m])
             /\ evicted' = evicted
  <2> DEFINE w == PutBack(TryAll(n, best))
             s == buff[n]
             routed == {q \in Range(s) : Routed(best, q)}
  <2>1. /\ link' = link \cup w.out
        /\ buff' = [buff EXCEPT ![n] = w.stack]
        /\ evicted' = evicted \cup w.gone
    BY <1>4 DEF NetSendBuffered, Store
  <2>2. Tried(w, s, best, free_bytes[n])
    BY <1>1, FlushFacts DEF Types, OnePlace
  <2> HIDE DEF w
  <2>3. m = n /\ buff'[n] = w.stack
    BY <1>1, <2>1 DEF Types
  <2>4. /\ w.gone = {} /\ Range(w.stack) = Range(s) \ routed
        /\ w.out = {Hop(best, p) : p \in routed}
        /\ Order(w.stack) \subseteq Order(s)
    BY <2>2 DEF Tried
  <2> HIDE DEF routed
  <2>5. OnLink' = OnLink \cup routed
    <3>1. \A p : Hop(best, p).pack = p
      BY DEF Hop
    <3> QED
      BY <2>1, <2>4, <3>1 DEF OnLink
  <2>6. Range(s) \cap OnLink = {}
    BY <1>1 DEF OnePlace, Buffered
  <2> QED
    BY <2>1, <2>3, <2>4, <2>5, <2>6 DEF s
<1>5. ASSUME NEW h \in link, PassUp(h.to, h) \/ LinkLoses(h)
      PROVE  FALSE
  BY <1>5 DEF PassUp, LinkLoses
<1>6. ~ UNCHANGED vars
  BY DEF vars
<1> QED
  BY <1>2, <1>3, <1>4, <1>5, <1>6 DEF Next, NetRecv

(* net_send_buffered (network.c:224-249) takes from a stack exactly the    *)
(* packets that it passes to the link layer, keeps the others in their     *)
(* order and deletes none, however many there are.                         *)
THEOREM FlushKeepsTheRestHolds == Spec => FlushKeepsTheRest
<1>1. IInv /\ [Next]_vars =>
        [\A n \in Node :
           (sent' = sent /\ buff'[n] # buff[n] /\ link \subseteq link') =>
             /\ Range(buff'[n]) = Range(buff[n]) \ OnLink'
             /\ Order(buff'[n]) \subseteq Order(buff[n])
             /\ evicted' = evicted]_vars
  BY FlushKeepsStep
<1> QED
  BY <1>1, InvariantHolds, PTL DEF Spec, FlushKeepsTheRest
=============================================================================
