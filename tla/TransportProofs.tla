--------------------------- MODULE TransportProofs ----------------------------
(***************************************************************************)
(* Theorems about the transport layer, for any nodes, messages, sizes of   *)
(* fragments and of the buffer.                                            *)
(***************************************************************************)
EXTENDS Transport, SeqOrder, FoldTraces

M == MAX_FRAGMENT_SIZE

(* The messages that transport_datagram may send. *)
Message == {m \in [src : Node, num : Nat \ {0}, dest : Node, len : Nat \ {0}] :
              <<m.src, m.dest, m.len>> \in Traffic /\ m.num <= MaxMessages}

-----------------------------------------------------------------------------
(* Fragments *)

LEMMA ConstantTypes ==
  /\ M \in Nat \ {0}
  /\ TRANSPORT_BUFF_SIZE \in Nat /\ QueueBytes \in Nat
  /\ ElementBytes \in Nat /\ DatagramBytes \in Nat
  /\ MaxMessages \in Nat
  /\ Node \subseteq Nat
<1>1. {TRANSPORT_BUFF_SIZE, QueueBytes, ElementBytes, DatagramBytes} \subseteq Nat
  BY TransportAssumption
<1>2. M \in Nat \ {0} /\ Node \subseteq Nat
  BY TransportAssumption DEF M
<1>3. MaxMessages \in Nat
  BY TransportAssumption
<1> QED
  BY <1>1, <1>2, <1>3

LEMMA Division ==
  ASSUME NEW x \in Nat, NEW d \in Nat \ {0}
  PROVE  /\ x \div d \in Nat /\ x % d \in 0 .. d - 1
         /\ x = d * (x \div d) + (x % d)
OBVIOUS

LEMMA MulMonotone ==
  ASSUME NEW a \in Nat, NEW b \in Nat, NEW d \in Nat, a <= b
  PROVE  d * a <= d * b /\ d * a \in Nat /\ d * b \in Nat
OBVIOUS

LEMMA CountFacts ==
  ASSUME NEW len \in Nat \ {0}
  PROVE  /\ FragCount(len) \in Nat \ {0}
         /\ M * (FragCount(len) - 1) < len
         /\ len <= M * FragCount(len)
<1> DEFINE q == len \div M
           r == len % M
<1>1. M \in Nat \ {0}
  BY ConstantTypes
<1>2. q \in Nat /\ r \in 0 .. M - 1 /\ len = M * q + r
  BY <1>1, Division
<1> HIDE DEF q, r
<1>3. CASE r = 0
  <2>1. FragCount(len) = q + 0
    BY <1>3 DEF FragCount, q, r, M
  <2>2. q # 0
    BY <1>1, <1>2, <1>3
  <2>3. M * (q - 1) = M * q - M
    BY <1>1, <1>2
  <2> QED
    BY <1>1, <1>2, <1>3, <2>1, <2>2, <2>3
<1>4. CASE r # 0
  <2>1. FragCount(len) = q + 1
    BY <1>4 DEF FragCount, q, r, M
  <2>2. M * (q + 1) = M * q + M
    BY <1>1, <1>2
  <2> QED
    BY <1>1, <1>2, <1>4, <2>1, <2>2
<1> QED
  BY <1>3, <1>4

(* The fragment in which byte p of a message is, and its place in it. *)
LEMMA PlaceOf ==
  ASSUME NEW len \in Nat \ {0}, NEW p \in 1 .. len
  PROVE  /\ (p - 1) \div M \in 0 .. FragCount(len) - 1
         /\ (p - 1) % M \in 0 .. M - 1
         /\ p = M * ((p - 1) \div M) + ((p - 1) % M) + 1
<1> DEFINE q == (p - 1) \div M
           r == (p - 1) % M
           c == FragCount(len)
<1>1. M \in Nat \ {0} /\ p - 1 \in Nat
  BY ConstantTypes
<1>2. q \in Nat /\ r \in 0 .. M - 1 /\ p - 1 = M * q + r
  BY <1>1, Division
<1>3. c \in Nat \ {0} /\ len <= M * c
  BY CountFacts
<1> HIDE DEF q, r, c
<1>4. q < c
  <2>1. SUFFICES ASSUME c <= q PROVE FALSE
    BY <1>2, <1>3
  <2>2. M * c <= M * q /\ M * q \in Nat /\ M * c \in Nat
    BY <1>1, <1>2, <1>3, <2>1, MulMonotone
  <2> QED
    BY <1>1, <1>2, <1>3, <2>2
<1>5. p = M * q + r + 1
  BY <1>1, <1>2
<1> QED
  BY <1>2, <1>3, <1>4, <1>5 DEF q, r, c

(* The first and the last byte of fragment i. *)
FirstByte(i) == M * i + 1
LastByte(m, i) == IF i = FragCount(m.len) - 1 THEN m.len ELSE M * (i + 1)

LEMMA FragmentFacts ==
  ASSUME NEW m \in Message, NEW i \in 0 .. FragCount(m.len) - 1
  PROVE  LET d == Fragment(m, i) IN
         /\ d.src = m.src /\ d.num = m.num /\ d.frag = i
         /\ d.count = FragCount(m.len)
         /\ FirstByte(i) \in 1 .. m.len /\ LastByte(m, i) \in FirstByte(i) .. m.len
         /\ LastByte(m, i) <= M * (i + 1)
         /\ Len(d.data) = LastByte(m, i) - FirstByte(i) + 1
         /\ DOMAIN d.data = 1 .. LastByte(m, i) - FirstByte(i) + 1
         /\ \A j \in 1 .. LastByte(m, i) - FirstByte(i) + 1 :
              d.data[j] = <<Name(m), FirstByte(i) + j - 1>>
<1> DEFINE d == Fragment(m, i)
           c == FragCount(m.len)
           s == Content(m)
           a == FirstByte(i)
           b == LastByte(m, i)
<1>1. m.len \in Nat \ {0} /\ M \in Nat \ {0}
  BY ConstantTypes DEF Message
<1>2. c \in Nat \ {0} /\ M * (c - 1) < m.len /\ m.len <= M * c
  BY <1>1, CountFacts
<1>3. M * i \in Nat /\ M * (i + 1) = M * i + M
  BY <1>1, <1>2
<1>4. /\ M * i <= M * (c - 1) /\ M * (c - 1) \in Nat
  BY <1>1, <1>2, MulMonotone
<1>5. a \in 1 .. m.len
  BY <1>1, <1>2, <1>3, <1>4 DEF FirstByte
<1>6. b \in a .. m.len /\ b <= M * (i + 1)
  <2>1. CASE i = c - 1
    <3>1. b = m.len /\ i + 1 = c
      BY <1>2, <2>1 DEF LastByte
    <3> QED
      BY <1>1, <1>2, <1>5, <3>1
  <2>2. CASE i # c - 1
    <3>1. b = M * (i + 1)
      BY <2>2 DEF LastByte
    <3>2. i + 1 \in Nat /\ c - 1 \in Nat /\ i + 1 <= c - 1
      BY <1>2, <2>2
    <3>3. M * (i + 1) <= M * (c - 1) /\ M * (i + 1) \in Nat
      BY <1>1, <3>2, MulMonotone
    <3> QED
      BY <1>1, <1>2, <1>3, <1>4, <1>5, <3>1, <3>3 DEF FirstByte
  <2> QED
    BY <2>1, <2>2
<1> DEFINE S == {<<Name(m), j>> : j \in 1 .. m.len}
<1>7. s \in Seq(S) /\ Len(s) = m.len /\ \A j \in 1 .. m.len : s[j] = <<Name(m), j>>
  <2>1. s \in [1 .. m.len -> S]
    BY DEF Content
  <2>2. s \in Seq(S) /\ Len(s) = m.len
    <3> HIDE DEF s, S
    <3>1. m.len \in Nat
      BY <1>1
    <3> QED
      BY <2>1, <3>1
  <2> QED
    BY <2>2 DEF Content
<1>8. d = [src |-> m.src, num |-> m.num, frag |-> i, count |-> c,
           data |-> SubSeq(s, a, b)]
  <2>1. i * MAX_FRAGMENT_SIZE = M * i
        /\ (i + 1) * MAX_FRAGMENT_SIZE = M * (i + 1)
    BY <1>1 DEF M
  <2> QED
    BY <2>1 DEF Fragment, FirstByte, LastByte
<1> HIDE DEF d, c, s, a, b, S
<1>9. /\ Len(SubSeq(s, a, b)) = b - a + 1
      /\ DOMAIN SubSeq(s, a, b) = 1 .. b - a + 1
      /\ \A j \in 1 .. b - a + 1 : SubSeq(s, a, b)[j] = s[a + j - 1]
  <2>1. a \in Int /\ b \in Int /\ \A j \in a .. b : s[j] \in S
    BY <1>1, <1>5, <1>6, <1>7, ElementOfSeq
  <2>2. /\ SubSeq(s, a, b) \in Seq(S)
        /\ Len(SubSeq(s, a, b)) = b - a + 1
        /\ \A j \in 1 .. b - a + 1 : SubSeq(s, a, b)[j] = s[a + j - 1]
    BY <1>1, <1>5, <1>6, <2>1, SubSeqProperties
  <2> QED
    BY <2>2, LenProperties
<1>10. \A j \in 1 .. b - a + 1 : a + j - 1 \in 1 .. m.len
  BY <1>1, <1>5, <1>6
<1>11. /\ d.src = m.src /\ d.num = m.num /\ d.frag = i /\ d.count = c
       /\ d.data = SubSeq(s, a, b)
  BY <1>8
<1> QED
  BY <1>5, <1>6, <1>7, <1>9, <1>10, <1>11 DEF d, c, a, b

LEMMA DistinctFragments ==
  ASSUME NEW m \in Message,
         NEW i \in 0 .. FragCount(m.len) - 1, NEW j \in 0 .. FragCount(m.len) - 1,
         Fragment(m, i) = Fragment(m, j)
  PROVE  i = j
BY FragmentFacts

(* Fragments of m, as many as m has and all different, are all of them.    *)
LEMMA AllFragments ==
  ASSUME NEW m \in Message, NEW s \in Seq(Fragments(m)), IsInjective(s),
         Len(s) >= FragCount(m.len)
  PROVE  Len(s) = FragCount(m.len) /\ Range(s) = Fragments(m)
<1> DEFINE c == FragCount(m.len)
           k == Len(s)
           f == [i \in 1 .. k |-> s[i].frag + 1]
<1>1. c \in Nat \ {0} /\ k \in Nat /\ DOMAIN s = 1 .. k
  BY CountFacts, LenProperties DEF Message
<1>2. ASSUME NEW i \in 1 .. k
      PROVE  s[i] \in Fragments(m) /\ s[i].frag \in 0 .. c - 1
             /\ s[i] = Fragment(m, s[i].frag)
  <2>1. s[i] \in Fragments(m)
    BY ElementOfSeq
  <2>2. PICK j \in 0 .. c - 1 : s[i] = Fragment(m, j)
    BY <2>1 DEF Fragments
  <2>3. s[i].frag = j
    BY <2>2, FragmentFacts
  <2> QED
    BY <2>1, <2>2, <2>3
<1>3. f \in Injection(1 .. k, 1 .. c)
  <2> HIDE DEF c, k
  <2>1. f \in [1 .. k -> 1 .. c]
    BY <1>1, <1>2
  <2>2. ASSUME NEW i \in 1 .. k, NEW j \in 1 .. k, f[i] = f[j]
        PROVE  i = j
    <3>1. s[i].frag = s[j].frag
      BY <1>1, <1>2, <2>2
    <3>2. s[i] = s[j]
      BY <1>2, <3>1
    <3> QED
      BY <1>1, <3>2 DEF IsInjective
  <2> HIDE DEF f
  <2> QED
    BY <2>1, <2>2 DEF Injection, IsInjective
<1> HIDE DEF c, k
<1>4. /\ IsFiniteSet(1 .. c) /\ Cardinality(1 .. c) = c
      /\ IsFiniteSet(1 .. k) /\ Cardinality(1 .. k) = k
  <2>1. 1 \in Int /\ c \in Int /\ k \in Int
    BY <1>1
  <2>2. /\ IsFiniteSet(1 .. c)
        /\ Cardinality(1 .. c) = IF 1 > c THEN 0 ELSE c - 1 + 1
    BY <2>1, FS_Interval
  <2>3. /\ IsFiniteSet(1 .. k)
        /\ Cardinality(1 .. k) = IF 1 > k THEN 0 ELSE k - 1 + 1
    BY <2>1, FS_Interval
  <2> QED
    BY <1>1, <2>2, <2>3
<1>5. k <= c /\ (k = c <=> f \in Surjection(1 .. k, 1 .. c))
  <2> HIDE DEF f
  <2>1. /\ Cardinality(1 .. k) <= Cardinality(1 .. c)
        /\ Cardinality(1 .. k) = Cardinality(1 .. c)
             <=> f \in Surjection(1 .. k, 1 .. c)
    BY <1>3, <1>4, FS_Injection
  <2> QED
    BY <1>4, <2>1
<1>6. k >= c
  BY DEF c, k
<1>7. k = c /\ \A j \in 1 .. c : \E i \in 1 .. k : f[i] = j
  <2>1. k = c
    BY <1>1, <1>5, <1>6
  <2> HIDE DEF f
  <2> QED
    BY <1>5, <2>1 DEF Surjection
<1>8. ASSUME NEW d \in Fragments(m)
      PROVE  d \in Range(s)
  <2>1. PICK j \in 0 .. c - 1 : d = Fragment(m, j)
    BY DEF Fragments, c
  <2>2. j + 1 \in 1 .. c
    BY <1>1
  <2>3. PICK i \in 1 .. k : f[i] = j + 1
    BY <1>7, <2>2
  <2>4. s[i].frag = j
    BY <1>1, <1>2, <2>3
  <2>5. s[i] = d
    BY <1>2, <2>1, <2>4
  <2> QED
    BY <1>1, <2>5 DEF Range
<1>9. Range(s) \subseteq Fragments(m)
  BY <1>1, <1>2 DEF Range
<1> QED
  BY <1>7, <1>8, <1>9 DEF c, k

(* The only way to sort all fragments of a message. *)
LEMMA SortedFacts ==
  ASSUME NEW m \in Message, NEW s \in Seq(Fragments(m)), IsInjective(s),
         Len(s) = FragCount(m.len)
  PROVE  Sorted(s) = [i \in 1 .. FragCount(m.len) |-> Fragment(m, i - 1)]
<1> DEFINE c == FragCount(m.len)
           g == [i \in 1 .. c |-> Fragment(m, i - 1)]
           InFragmentOrder(t) == /\ Range(t) = Range(s)
                          /\ \A i, j \in DOMAIN t : i < j => t[i].frag < t[j].frag
<1>1. c \in Nat \ {0} /\ DOMAIN s = 1 .. c /\ Range(s) = Fragments(m)
  <2>1. c \in Nat \ {0}
    BY CountFacts DEF Message
  <2>2. Len(s) >= c
    BY <2>1
  <2> QED
    BY <2>1, <2>2, LenProperties, AllFragments
<1>2. \A i \in 0 .. c - 1 : Fragment(m, i).frag = i
  BY FragmentFacts
<1>3. \A i \in 1 .. c : i - 1 \in 0 .. c - 1
  BY <1>1
<1>4. g \in [1 .. c -> Fragments(m)]
  BY <1>3 DEF Fragments
<1> HIDE DEF c
<1>5. InFragmentOrder(g)
  <2>1. ASSUME NEW d \in Fragments(m)
        PROVE  d \in Range(g)
    <3>1. PICK i \in 0 .. c - 1 : d = Fragment(m, i)
      BY DEF Fragments, c
    <3>2. i + 1 \in 1 .. c /\ i + 1 - 1 = i
      BY <1>1
    <3> QED
      BY <3>1, <3>2 DEF Range
  <2>2. Range(g) \subseteq Fragments(m)
    BY <1>4 DEF Range
  <2>3. \A i \in 1 .. c : g[i].frag = i - 1
    BY <1>2, <1>3
  <2> HIDE DEF g
  <2>4. DOMAIN g = 1 .. c
    BY <1>4
  <2>5. \A i, j \in DOMAIN g : i < j => g[i].frag < g[j].frag
    BY <1>1, <2>3, <2>4
  <2> QED
    BY <1>1, <2>1, <2>2, <2>5
<1>6. ASSUME NEW t \in [1 .. c -> Fragments(m)], InFragmentOrder(t)
      PROVE  t = g
  <2>1. ASSUME NEW i \in 1 .. c
        PROVE  t[i].frag \in 0 .. c - 1 /\ t[i] = Fragment(m, t[i].frag)
    <3>1. PICK j \in 0 .. c - 1 : t[i] = Fragment(m, j)
      BY DEF Fragments, c
    <3> QED
      BY <1>2, <3>1
  <2>2. \A i, j \in 1 .. c : i < j => t[i].frag < t[j].frag
    BY <1>6
  <2> HIDE DEF g, InFragmentOrder
  <2> DEFINE Low == {i \in 0 .. c - 1 : t[i + 1].frag >= i}
             High == {i \in 0 .. c - 1 : t[c - i].frag <= c - 1 - i}
  <2>3. \A i \in 0 .. c - 1 : i \in Low
    <3>1. 0 \in Low
      <4>1. 0 \in 0 .. c - 1 /\ 0 + 1 \in 1 .. c
        BY <1>1
      <4>2. t[0 + 1].frag >= 0
        BY <2>1, <4>1
      <4> QED
        BY <4>1, <4>2
    <3>2. ASSUME NEW i \in 1 .. c - 1, i - 1 \in Low
          PROVE  i \in Low
      <4>1. i \in 1 .. c /\ i + 1 \in 1 .. c /\ i < i + 1 /\ i - 1 + 1 = i
            /\ i \in 0 .. c - 1
        BY <1>1
      <4>2. t[i].frag >= i - 1
        BY <3>2, <4>1
      <4>3. t[i].frag < t[i + 1].frag
        BY <2>2, <4>1
      <4>4. t[i].frag \in Int /\ t[i + 1].frag \in Int
        BY <2>1, <4>1
      <4> QED
        BY <4>1, <4>2, <4>3, <4>4
    <3> HIDE DEF Low
    <3>3. c - 1 \in Nat
      BY <1>1
    <3> QED
      BY <3>1, <3>2, <3>3, UpTo
  <2>4. \A i \in 0 .. c - 1 : i \in High
    <3>1. 0 \in High
      <4>1. 0 \in 0 .. c - 1 /\ c - 0 = c /\ c \in 1 .. c /\ c - 1 - 0 = c - 1
        BY <1>1
      <4>2. t[c].frag <= c - 1
        BY <2>1, <4>1
      <4> QED
        BY <4>1, <4>2
    <3>2. ASSUME NEW i \in 1 .. c - 1, i - 1 \in High
          PROVE  i \in High
      <4>1. /\ c - i \in 1 .. c /\ c - i + 1 \in 1 .. c /\ c - i < c - i + 1
            /\ c - (i - 1) = c - i + 1 /\ i \in 0 .. c - 1
        BY <1>1
      <4>2. t[c - i + 1].frag <= c - 1 - (i - 1)
        BY <3>2, <4>1
      <4>3. t[c - i].frag < t[c - i + 1].frag
        BY <2>2, <4>1
      <4>4. t[c - i].frag \in Int /\ t[c - i + 1].frag \in Int
        BY <2>1, <4>1
      <4>5. t[c - i].frag <= c - 1 - i
        BY <1>1, <4>2, <4>3, <4>4
      <4> QED
        BY <4>1, <4>5
    <3> HIDE DEF High
    <3>3. c - 1 \in Nat
      BY <1>1
    <3> QED
      BY <3>1, <3>2, <3>3, UpTo
  <2>5. ASSUME NEW i \in 1 .. c
        PROVE  t[i] = Fragment(m, i - 1)
    <3>1. /\ i - 1 \in 0 .. c - 1 /\ i - 1 + 1 = i
          /\ c - i \in 0 .. c - 1 /\ c - (c - i) = i /\ c - 1 - (c - i) = i - 1
      BY <1>1
    <3>2. t[i].frag >= i - 1
      BY <2>3, <3>1
    <3>3. t[i].frag <= i - 1
      BY <2>4, <3>1
    <3>4. t[i].frag = i - 1
      BY <2>1, <3>1, <3>2, <3>3
    <3> QED
      BY <2>1, <3>4
  <2> QED
    BY <1>4, <2>5 DEF g
<1>7. Sorted(s) = CHOOSE t \in [1 .. c -> Fragments(m)] : InFragmentOrder(t)
  BY <1>1 DEF Sorted
<1> HIDE DEF g, InFragmentOrder
<1>8. Sorted(s) = g
  BY <1>4, <1>5, <1>6, <1>7
<1> QED
  BY <1>8 DEF g, c

(* The size of the built message is the last of the sums of the sizes of   *)
(* its fragments.                                                          *)
LEMMA SizeTrace ==
  ASSUME NEW k \in Nat, NEW s, DOMAIN s = 1 .. k,
         \A i \in 1 .. k : Len(s[i].data) \in Nat
  PROVE  \E h \in [0 .. k -> Nat] :
           /\ h[0] = 0
           /\ \A i \in 1 .. k : h[i] = h[i - 1] + Len(s[i].data)
           /\ FoldLeft(LAMBDA sum, d : sum + Len(d.data), 0, s) = h[k]
<1> DEFINE X == Nat
           size(i) == Len(s[i].data)
           G == [x \in X \X (1 .. k) |-> x[1] + size(x[2])]
           Rec(g) == g = [t \in SUBSET (1 .. k) |->
                            IF t = {} THEN 0
                            ELSE g[t \ {Max(t)}] + size(Max(t))]
           sum == CHOOSE g : Rec(g)
           last == FoldLeft(LAMBDA v, d : v + Len(d.data), 0, s)
<1>1. 0 \in X /\ \A i \in 1 .. k : size(i) \in Nat
  OBVIOUS
<1>2. last = sum[1 .. k]
  BY DEF FoldLeft, MapThenFoldSet
<1> HIDE DEF last, size
<1>3. G \in [X \X (1 .. k) -> X]
  BY <1>1
<1>4. ASSUME NEW t \in SUBSET (1 .. k), t # {}
      PROVE  \A x \in X : G[<<x, Max(t)>>] = x + size(Max(t))
  <2>1. Max(t) \in 1 .. k
    BY <1>4, MaxOf
  <2> QED
    BY <2>1
<1> HIDE DEF G
<1>5. PICK g \in [SUBSET (1 .. k) -> X] : IsFold(g, k, 0, G)
  <2> HIDE DEF X
  <2> QED
    BY <1>1, <1>3, SubsetRecursion
<1>6. Rec(g)
  BY <1>4, <1>5 DEF IsFold
<1>7. Rec(sum)
  <2> HIDE DEF Rec
  <2> QED
    BY <1>6
<1> HIDE DEF sum
<1>8. Follows(sum, k, X, 0, G)
  <2>1. sum[{}] = 0
    BY <1>7
  <2> HIDE DEF X
  <2> QED
    BY <1>3, <1>4, <1>7, <2>1 DEF Follows
<1>9. PICK h \in [0 .. k -> X] : IsTrace(h, k, 0, G) /\ h[k] = sum[1 .. k]
  <2> HIDE DEF Rec, X
  <2> QED
    BY <1>1, <1>8, FoldTrace
<1>10. \A i \in 1 .. k : h[i] = h[i - 1] + size(i)
  <2>1. \A i \in 1 .. k : h[i - 1] \in Nat
    OBVIOUS
  <2> QED
    BY <1>9, <2>1 DEF IsTrace, G
<1>11. h[0] = 0 /\ last = h[k]
  BY <1>2, <1>9 DEF IsTrace
<1> QED
  BY <1>10, <1>11 DEF size, last

(* The fragments of a message, put together, are its content.              *)
LEMMA Reassembled ==
  ASSUME NEW m \in Message
  PROVE  Built([i \in 1 .. FragCount(m.len) |-> Fragment(m, i - 1)])
           = Content(m)
<1> DEFINE c == FragCount(m.len)
           s == [i \in 1 .. c |-> Fragment(m, i - 1)]
           len == m.len
           size == FoldLeft(LAMBDA sum, d : sum + Len(d.data), 0, s)
<1>1. /\ len \in Nat \ {0} /\ c \in Nat \ {0} /\ M \in Nat \ {0}
      /\ M * (c - 1) < len /\ len <= M * c
  BY CountFacts, ConstantTypes DEF Message
<1>2. ASSUME NEW i \in 1 .. c
      PROVE  /\ s[i] = Fragment(m, i - 1)
             /\ FirstByte(i - 1) = M * (i - 1) + 1
             /\ FirstByte(i - 1) \in 1 .. len
             /\ LastByte(m, i - 1) \in FirstByte(i - 1) .. len
             /\ LastByte(m, i - 1) = IF i = c THEN len ELSE M * i
             /\ DOMAIN s[i].data = 1 .. LastByte(m, i - 1) - FirstByte(i - 1) + 1
             /\ Len(s[i].data) = LastByte(m, i - 1) - FirstByte(i - 1) + 1
             /\ \A j \in 1 .. LastByte(m, i - 1) - FirstByte(i - 1) + 1 :
                  s[i].data[j] = <<Name(m), FirstByte(i - 1) + j - 1>>
  <2>1. i - 1 \in 0 .. c - 1 /\ i - 1 + 1 = i /\ (i - 1 = c - 1 <=> i = c)
    BY <1>1
  <2>2. s[i] = Fragment(m, i - 1)
    OBVIOUS
  <2> HIDE DEF s
  <2>3. LastByte(m, i - 1) = IF i = c THEN len ELSE M * i
    BY <2>1 DEF LastByte
  <2> HIDE DEF c, len
  <2> QED
    BY <2>1, <2>2, <2>3, FragmentFacts DEF c, len, FirstByte
<1>3. DOMAIN s = 1 .. c
  OBVIOUS
<1> HIDE DEF s, c
<1>4. \A i \in 1 .. c : Len(s[i].data) \in Nat
  BY <1>1, <1>2
<1>5. PICK h \in [0 .. c -> Nat] :
        /\ h[0] = 0
        /\ \A i \in 1 .. c : h[i] = h[i - 1] + Len(s[i].data)
        /\ size = h[c]
  BY <1>1, <1>3, <1>4, SizeTrace
<1> HIDE DEF size
<1>6. size = len
  <2> DEFINE T == {i \in 0 .. c - 1 : h[i] = M * i}
  <2>1. 0 \in T
    BY <1>1, <1>5
  <2>2. ASSUME NEW i \in 1 .. c - 1, i - 1 \in T
        PROVE  i \in T
    <3>1. i \in 1 .. c /\ i # c /\ i \in 0 .. c - 1
      BY <1>1
    <3>2. h[i] = h[i - 1] + Len(s[i].data) /\ h[i - 1] = M * (i - 1)
      BY <1>5, <2>2, <3>1
    <3>3. Len(s[i].data) = M * i - (M * (i - 1) + 1) + 1
      BY <1>2, <3>1
    <3>4. M * i \in Int /\ M * (i - 1) \in Int
      BY <1>1
    <3>5. h[i] = M * i
      BY <3>2, <3>3, <3>4
    <3> QED
      BY <3>1, <3>5
  <2>3. c - 1 \in T
    <3> HIDE DEF T
    <3>1. c - 1 \in Nat
      BY <1>1
    <3>2. \A i \in 0 .. c - 1 : i \in T
      BY <2>1, <2>2, <3>1, UpTo
    <3> QED
      BY <3>1, <3>2
  <2>4. c \in 1 .. c
    BY <1>1
  <2>5. h[c] = h[c - 1] + Len(s[c].data) /\ h[c - 1] = M * (c - 1)
    BY <1>5, <2>3, <2>4
  <2>6. Len(s[c].data) = len - (M * (c - 1) + 1) + 1
    BY <1>2, <2>4
  <2>7. M * (c - 1) \in Int
    BY <1>1
  <2> QED
    BY <1>1, <1>5, <2>5, <2>6, <2>7
<1> DEFINE q(p) == (p - 1) \div M
           r(p) == (p - 1) % M
           data(p) == s[q(p) + 1].data
           byte(p) == IF r(p) + 1 \in DOMAIN data(p) THEN data(p)[r(p) + 1]
                                                      ELSE <<>>
<1>7. Built(s) = [p \in 1 .. len |-> byte(p)]
  BY <1>6 DEF Built, M, size
<1>8. ASSUME NEW p \in 1 .. len
      PROVE  byte(p) = <<Name(m), p>>
  <2>1. PICK t \in 0 .. c - 1, u \in 0 .. M - 1 :
          q(p) = t /\ r(p) = u /\ p = M * t + u + 1
    BY <1>1, PlaceOf DEF c
  <2> DEFINE i == t + 1
             a == FirstByte(i - 1)
             b == LastByte(m, i - 1)
             d == s[i].data
  <2>2. byte(p) = IF u + 1 \in DOMAIN d THEN d[u + 1] ELSE <<>>
    <3> HIDE DEF q, r
    <3> QED
      BY <2>1
  <2>3. c \in Nat /\ M \in Nat /\ t \in Nat /\ u \in Nat /\ len \in Nat
    BY <1>1
  <2>4. i \in 1 .. c /\ i - 1 = t
    BY <2>3
  <2>5. /\ a = M * t + 1 /\ a \in 1 .. len /\ b \in a .. len
        /\ b = IF i = c THEN len ELSE M * i
        /\ DOMAIN d = 1 .. b - a + 1
        /\ \A j \in 1 .. b - a + 1 : d[j] = <<Name(m), a + j - 1>>
    BY <1>2, <2>4
  <2>6. M * t \in Int /\ M * i = M * t + M
    BY <2>3
  <2> HIDE DEF byte, i, a, b, d
  <2>7. u + 1 \in 1 .. b - a + 1
    <3>1. p <= len /\ u + 1 <= M /\ b \in Int /\ a \in Int
      BY <2>3, <2>5
    <3>2. CASE i = c
      BY <2>1, <2>3, <2>5, <2>6, <3>1, <3>2
    <3>3. CASE i # c
      <4>1. b = M * t + M
        BY <2>5, <2>6, <3>3
      <4> QED
        BY <2>3, <2>5, <2>6, <3>1, <4>1
    <3> QED
      BY <3>2, <3>3
  <2>8. a + (u + 1) - 1 = p
    BY <2>1, <2>3, <2>5, <2>6
  <2> QED
    BY <2>2, <2>5, <2>7, <2>8
<1>9. Content(m) = [p \in 1 .. len |-> <<Name(m), p>>]
  BY DEF Content
<1>10. Built(s) = Content(m)
  <2> HIDE DEF byte
  <2> QED
    BY <1>7, <1>8, <1>9
<1> QED
  BY <1>10 DEF s, c

(* When as many fragments as m has are there, all different, then whatever *)
(* the order in which they came, the message that is passed up is m's.     *)
LEMMA CompleteIsContent ==
  ASSUME NEW m \in Message, NEW s \in Seq(Fragments(m)), IsInjective(s),
         Len(s) = FragCount(m.len)
  PROVE  Built(Sorted(s)) = Content(m)
BY SortedFacts, Reassembled

-----------------------------------------------------------------------------
(* Keys *)

LEMMA Same ==
  ASSUME NEW a, NEW b, NEW x, NEW y, a = x, b = y
  PROVE  a = b => x = y
OBVIOUS

LEMMA KeyOf ==
  ASSUME NEW src \in Nat, NEW num \in Nat \ {0}, num < 100000
  PROVE  \E p \in {10, 100, 1000, 10000, 100000} :
           /\ num < p /\ p <= 10 * num
           /\ MakeKey(src, num) = src * 10000 * p + num
<1> DEFINE Shift(p) == /\ p \in {10, 100, 1000, 10000, 100000}
                       /\ num < p /\ p <= 10 * num
<1>1. \E p : Shift(p)
  <2>1. CASE num < 10
    <3>1. Shift(10)
      BY <2>1, SMT
    <3> QED
      BY <3>1, SMT
  <2>2. CASE 10 <= num /\ num < 100
    <3>1. Shift(100)
      BY <2>2, SMT
    <3> QED
      BY <3>1, SMT
  <2>3. CASE 100 <= num /\ num < 1000
    <3>1. Shift(1000)
      BY <2>3, SMT
    <3> QED
      BY <3>1, SMT
  <2>4. CASE 1000 <= num /\ num < 10000
    <3>1. Shift(10000)
      BY <2>4, SMT
    <3> HIDE DEF Shift
    <3> QED
      BY <3>1, SMT
  <2>5. CASE 10000 <= num
    <3>1. Shift(100000)
      BY <2>5, SMT
    <3> HIDE DEF Shift
    <3> QED
      BY <3>1, SMT
  <2> QED
    BY <2>1, <2>2, <2>3, <2>4, <2>5, SMT
<1> DEFINE shift == CHOOSE p \in {10, 100, 1000, 10000, 100000} :
                      num < p /\ p <= 10 * num
<1>2. Shift(shift)
  <2>1. \E p \in {10, 100, 1000, 10000, 100000} : num < p /\ p <= 10 * num
    BY <1>1, SMT
  <2> DEFINE S == {10, 100, 1000, 10000, 100000}
             P(p) == num < p /\ p <= 10 * num
  <2>2. \E p \in S : P(p)
    BY <2>1, SMT
  <2>3. shift = CHOOSE p \in S : P(p)
    OBVIOUS
  <2>4. shift \in S /\ P(shift)
    <3> HIDE DEF S, P, shift
    <3> QED
      BY <2>2, <2>3
  <2> QED
    BY <2>4, SMT
<1>3. MakeKey(src, num) = src * 10000 * shift + num
  BY SMT DEF MakeKey
<1> HIDE DEF shift
<1> QED
  BY <1>2, <1>3, SMT

(* Up to five digits of a number, make_key (transport.c:91-97) gives no    *)
(* two messages the same key, whatever the numbers of their nodes.         *)
THEOREM KeysDiffer ==
  ASSUME NEW src1 \in Nat, NEW num1 \in Nat \ {0}, num1 < 100000,
         NEW src2 \in Nat, NEW num2 \in Nat \ {0}, num2 < 100000
  PROVE  MakeKey(src1, num1) = MakeKey(src2, num2)
           => src1 = src2 /\ num1 = num2
<1>1. PICK p \in {10, 100, 1000, 10000, 100000} :
        /\ num1 < p /\ p <= 10 * num1
        /\ MakeKey(src1, num1) = src1 * 10000 * p + num1
  BY KeyOf, SMT
<1>2. PICK q \in {10, 100, 1000, 10000, 100000} :
        /\ num2 < q /\ q <= 10 * num2
        /\ MakeKey(src2, num2) = src2 * 10000 * q + num2
  BY KeyOf, SMT
<1> DEFINE x == src1 * 10000 * p + num1
           y == src2 * 10000 * q + num2
<1>3. MakeKey(src1, num1) = x
  BY <1>1, SMT
<1>4. MakeKey(src2, num2) = y
  BY <1>2, SMT
<1>5. x = y => src1 = src2 /\ num1 = num2
  <2>1. SUFFICES ASSUME x = y PROVE src1 = src2 /\ num1 = num2
    OBVIOUS
  <2>2. CASE p = 10
    BY <1>1, <1>2, <2>1, <2>2, SMTT(30)
  <2>3. CASE p = 100
    BY <1>1, <1>2, <2>1, <2>3, SMTT(30)
  <2>4. CASE p = 1000
    BY <1>1, <1>2, <2>1, <2>4, SMTT(30)
  <2>5. CASE p = 10000
    BY <1>1, <1>2, <2>1, <2>5, SMTT(30)
  <2>6. CASE p = 100000
    BY <1>1, <1>2, <2>1, <2>6, SMTT(30)
  <2> QED
    BY <2>2, <2>3, <2>4, <2>5, <2>6, SMT
<1> HIDE DEF x, y
<1>6. MakeKey(src1, num1) = MakeKey(src2, num2) => x = y
  BY <1>3, <1>4, Same
<1> QED
  BY <1>5, <1>6, SMT

-----------------------------------------------------------------------------
(* Names *)

LEMMA MessageFacts ==
  ASSUME NEW m \in Message
  PROVE  /\ m.src \in Nat /\ m.num \in Nat \ {0} /\ m.num <= MaxMessages
         /\ m.src \in Node /\ m.dest \in Node
         /\ <<m.src, m.dest, m.len>> \in Traffic /\ m.len \in Nat \ {0}
<1>1. /\ m.num \in Nat \ {0} /\ m.num <= MaxMessages
      /\ m.src \in Node /\ m.dest \in Node
      /\ <<m.src, m.dest, m.len>> \in Traffic /\ m.len \in Nat \ {0}
  BY DEF Message
<1> QED
  BY <1>1, ConstantTypes

LEMMA NameOfFragment ==
  ASSUME NEW m \in Message, NEW d \in Fragments(m)
  PROVE  /\ Name(d) = Name(m) /\ d.src = m.src /\ d.num = m.num
         /\ d.count = FragCount(m.len)
         /\ d.count \in Nat \ {0}
<1>1. PICK i \in 0 .. FragCount(m.len) - 1 : d = Fragment(m, i)
  BY DEF Fragments
<1>2. d.src = m.src /\ d.num = m.num /\ d.count = FragCount(m.len)
  BY <1>1, FragmentFacts
<1>3. FragCount(m.len) \in Nat \ {0}
  BY CountFacts DEF Message
<1> QED
  BY <1>2, <1>3 DEF Name

LEMMA ContentFacts ==
  ASSUME NEW m \in Message
  PROVE  /\ Content(m) \in Seq({Name(m)} \X (1 .. m.len))
         /\ Len(Content(m)) = m.len
         /\ Content(m)[1] = <<Name(m), 1>>
<1>1. m.len \in Nat \ {0}
  BY DEF Message
<1>2. Content(m) \in [1 .. m.len -> {Name(m)} \X (1 .. m.len)]
  BY DEF Content
<1>3. 1 \in 1 .. m.len
  BY <1>1
<1> QED
  BY <1>1, <1>2, <1>3 DEF Content

LEMMA ContentNames ==
  ASSUME NEW m \in Message, NEW k \in Message, Content(m) = Content(k)
  PROVE  Name(m) = Name(k)
<1>1. Content(m)[1] = <<Name(m), 1>> /\ Content(k)[1] = <<Name(k), 1>>
  BY ContentFacts
<1> QED
  BY <1>1

LEMMA KeyNames ==
  ASSUME NEW m \in Message, NEW k \in Message
  PROVE  MakeKey(m.src, m.num) = MakeKey(k.src, k.num) => Name(m) = Name(k)
<1>1. ASSUME NEW x \in Message
      PROVE  x.src \in Nat /\ x.num \in Nat \ {0} /\ x.num < 100000
  <2>1. x.num \in Nat \ {0} /\ x.num <= MaxMessages /\ x.src \in Nat
    BY MessageFacts
  <2> QED
    BY <2>1, ConstantTypes, KeyAssumption, SMT
<1>2. MakeKey(m.src, m.num) = MakeKey(k.src, k.num)
        => m.src = k.src /\ m.num = k.num
  BY <1>1, KeysDiffer, SMT
<1> QED
  BY <1>2 DEF Name

(* A message of one fragment is its fragment. *)
LEMMA OneFragment ==
  ASSUME NEW m \in Message, NEW d \in Fragments(m), d.count = 1
  PROVE  Fragments(m) = {d} /\ d.data = Content(m)
<1>1. FragCount(m.len) = 1
  BY NameOfFragment
<1>2. \A i \in 0 .. FragCount(m.len) - 1 : i = 0
  BY <1>1
<1>3. d = Fragment(m, 0) /\ Fragments(m) = {Fragment(m, 0)}
  BY <1>1, <1>2 DEF Fragments
<1>4. Fragment(m, 0).data = SubSeq(Content(m), 1, m.len)
  <2>1. M \in Nat
    BY ConstantTypes
  <2>2. 0 * MAX_FRAGMENT_SIZE + 1 = 1
    BY <2>1 DEF M
  <2>3. Fragment(m, 0).data
          = SubSeq(Content(m), 0 * MAX_FRAGMENT_SIZE + 1,
                   IF 0 = FragCount(m.len) - 1
                   THEN m.len ELSE (0 + 1) * MAX_FRAGMENT_SIZE)
    BY DEF Fragment
  <2>4. 0 = FragCount(m.len) - 1
    BY <1>1
  <2> QED
    BY <2>2, <2>3, <2>4
<1>5. SubSeq(Content(m), 1, m.len) = Content(m)
  BY ContentFacts, SubSeqFull
<1> QED
  BY <1>3, <1>4, <1>5

-----------------------------------------------------------------------------
(* The bytes of the buffer *)

AnyFragment == UNION {Fragments(m) : m \in Message}

(* The elements of buff, with at least one fragment. *)
Element ==
  {el \in [key : {MakeKey(m.src, m.num) : m \in Message}, needed : Nat \ {0},
           frags : Seq(AnyFragment)] :
     /\ Len(el.frags) >= 1
     /\ \A i \in 1 .. Len(el.frags) : el.frags[i].count = el.needed}

LEMMA BytesFacts ==
  /\ \A c \in Nat : Bytes(c) \in Nat
  /\ \A el \in Element : /\ Bytes(el.frags[1].count) = Bytes(el.needed)
                         /\ Bytes(el.needed) \in Nat
<1>1. ASSUME NEW c \in Nat
      PROVE  Bytes(c) \in Nat
  BY ConstantTypes DEF Bytes
<1>2. ASSUME NEW el \in Element
      PROVE  el.frags[1].count = el.needed /\ el.needed \in Nat
  <2>1. /\ el.frags \in Seq(AnyFragment) /\ Len(el.frags) >= 1
        /\ \A i \in 1 .. Len(el.frags) : el.frags[i].count = el.needed
        /\ el.needed \in Nat
    BY DEF Element
  <2>2. Len(el.frags) \in Nat
    BY <2>1, LenProperties
  <2>3. 1 \in 1 .. Len(el.frags)
    BY <2>1, <2>2
  <2> QED
    BY <2>1, <2>3
<1> QED
  BY <1>1, <1>2

(* Released is the last of the sums of a queue. *)
LEMMA ReleasedTrace ==
  ASSUME NEW s \in Seq(Element), NEW k \in 0 .. Len(s)
  PROVE  \E h \in [0 .. k -> Nat] :
           /\ h[0] = 0
           /\ \A i \in 1 .. k : h[i] = h[i - 1] + Bytes(s[i].needed)
           /\ Released(s, k) = h[k]
<1> DEFINE q == SubSeq(s, 1, k)
           size(i) == Bytes(q[i].frags[1].count)
           G == [x \in Nat \X (1 .. k) |-> x[1] + size(x[2])]
           Rec(g) == g = [t \in SUBSET (1 .. k) |->
                            IF t = {} THEN 0
                            ELSE g[t \ {Max(t)}] + size(Max(t))]
           sum == CHOOSE g : Rec(g)
<1>1. /\ DOMAIN q = 1 .. k /\ k \in Nat /\ 0 \in Nat
      /\ \A i \in 1 .. k : q[i] = s[i] /\ s[i] \in Element
  BY SubSeqProperties, LenProperties, ElementOfSeq
<1>2. Released(s, k) = sum[1 .. k]
  BY <1>1 DEF Released, FoldLeft, MapThenFoldSet
<1>3. \A i \in 1 .. k : size(i) = Bytes(s[i].needed) /\ size(i) \in Nat
  BY <1>1, BytesFacts
<1> HIDE DEF size
<1>4. G \in [Nat \X (1 .. k) -> Nat]
  BY <1>1, <1>3
<1>5. PICK g \in [SUBSET (1 .. k) -> Nat] : IsFold(g, k, 0, G)
  <2> HIDE DEF G
  <2> QED
    BY <1>1, <1>4, SubsetRecursion
<1>6. ASSUME NEW t \in SUBSET (1 .. k), t # {}
      PROVE  \A x \in Nat : G[<<x, Max(t)>>] = x + size(Max(t))
  <2>1. Max(t) \in 1 .. k
    BY <1>1, <1>6, MaxOf
  <2> QED
    BY <1>1, <2>1
<1>7. Rec(g)
  <2> HIDE DEF G
  <2> QED
    BY <1>5, <1>6 DEF IsFold
<1>8. Rec(sum)
  <2> HIDE DEF Rec
  <2> QED
    BY <1>7
<1> HIDE DEF sum
<1>9. sum[{}] = 0
  BY <1>8
<1>10. Follows(sum, k, Nat, 0, G)
  <2> HIDE DEF G
  <2> QED
    BY <1>4, <1>6, <1>8, <1>9 DEF Follows
<1>11. PICK h \in [0 .. k -> Nat] : IsTrace(h, k, 0, G) /\ h[k] = sum[1 .. k]
  <2> DEFINE X == Nat
  <2>1. k \in Nat /\ 0 \in X /\ Follows(sum, k, X, 0, G)
    BY <1>1, <1>10
  <2> HIDE DEF X, G, Rec
  <2>2. \E h \in [0 .. k -> X] : IsTrace(h, k, 0, G) /\ h[k] = sum[1 .. k]
    BY <2>1, FoldTrace
  <2> QED
    BY <2>2 DEF X
<1>12. \A i \in 1 .. k : h[i] = h[i - 1] + size(i)
  <2>1. \A i \in 1 .. k : i - 1 \in 0 .. k
    BY <1>1
  <2>2. \A i \in 1 .. k : h[i - 1] \in Nat
    BY <2>1
  <2> QED
    BY <1>1, <1>11, <2>2 DEF IsTrace
<1> QED
  BY <1>2, <1>3, <1>11, <1>12 DEF IsTrace

LEMMA ReleasedStep ==
  ASSUME NEW s \in Seq(Element)
  PROVE  /\ Released(s, 0) = 0
         /\ \A k \in 1 .. Len(s) :
              Released(s, k) = Released(s, k - 1) + Bytes(s[k].needed)
         /\ \A k \in 0 .. Len(s) : Released(s, k) \in Nat
<1>1. Len(s) \in Nat
  BY LenProperties
<1>2. ASSUME NEW k \in 0 .. Len(s)
      PROVE  Released(s, k) \in Nat
  <2>1. PICK h \in [0 .. k -> Nat] : Released(s, k) = h[k]
    BY ReleasedTrace
  <2> QED
    BY <1>1, <2>1
<1>3. Released(s, 0) = 0
  BY ReleasedTrace, <1>1
<1>4. ASSUME NEW k \in 1 .. Len(s)
      PROVE  Released(s, k) = Released(s, k - 1) + Bytes(s[k].needed)
  <2>1. k \in 0 .. Len(s) /\ k - 1 \in 0 .. Len(s) /\ k \in Nat
    BY <1>1
  <2>2. PICK h \in [0 .. k -> Nat] :
          /\ h[0] = 0
          /\ \A i \in 1 .. k : h[i] = h[i - 1] + Bytes(s[i].needed)
          /\ Released(s, k) = h[k]
    BY <2>1, ReleasedTrace
  <2>3. PICK g \in [0 .. k - 1 -> Nat] :
          /\ g[0] = 0
          /\ \A i \in 1 .. k - 1 : g[i] = g[i - 1] + Bytes(s[i].needed)
          /\ Released(s, k - 1) = g[k - 1]
    BY <2>1, ReleasedTrace
  <2> DEFINE T == {i \in 0 .. k - 1 : g[i] = h[i]}
  <2>4. 0 \in T
    BY <2>1, <2>2, <2>3
  <2>5. \A i \in 1 .. k - 1 : i - 1 \in T => i \in T
    BY <2>1, <2>2, <2>3
  <2>6. k - 1 \in T
    <3>1. k - 1 \in Nat
      BY <2>1
    <3> HIDE DEF T
    <3>2. \A i \in 0 .. k - 1 : i \in T
      BY <2>4, <2>5, <3>1, UpTo
    <3> QED
      BY <3>1, <3>2
  <2> QED
    BY <2>1, <2>2, <2>3, <2>6
<1> QED
  BY <1>2, <1>3, <1>4

(* Stretches of two queues that take the same bytes, element by element. *)
Alike(s, a, t, b, n) == \A i \in 1 .. n : s[a + i].needed = t[b + i].needed

LEMMA SameBytes ==
  ASSUME NEW s \in Seq(Element), NEW t \in Seq(Element),
         NEW a \in Nat, NEW b \in Nat, NEW n \in Nat,
         a + n <= Len(s), b + n <= Len(t), Alike(s, a, t, b, n)
  PROVE  \A c, e : c = a + n /\ e = b + n =>
           Released(s, c) - Released(s, a) = Released(t, e) - Released(t, b)
<1> DEFINE T == {i \in 0 .. n : Released(s, a + i) - Released(s, a)
                                  = Released(t, b + i) - Released(t, b)}
<1>1. Len(s) \in Nat /\ Len(t) \in Nat
  BY LenProperties
<1>2. \A i \in 0 .. n : a + i \in 0 .. Len(s) /\ b + i \in 0 .. Len(t)
  BY <1>1
<1>3. a \in 0 .. Len(s) /\ b \in 0 .. Len(t)
  BY <1>1
<1>4. Released(s, a) \in Nat /\ Released(t, b) \in Nat
  BY <1>3, ReleasedStep
<1>5. 0 \in T
  BY <1>4
<1>6. ASSUME NEW i \in 1 .. n, i - 1 \in T
      PROVE  i \in T
  <2>1. /\ a + i \in 1 .. Len(s) /\ b + i \in 1 .. Len(t)
        /\ a + i - 1 \in 0 .. Len(s) /\ b + i - 1 \in 0 .. Len(t)
        /\ a + (i - 1) = a + i - 1 /\ b + (i - 1) = b + i - 1
    BY <1>1
  <2>2. /\ Released(s, a + i) = Released(s, a + i - 1) + Bytes(s[a + i].needed)
        /\ Released(t, b + i) = Released(t, b + i - 1) + Bytes(t[b + i].needed)
        /\ Released(s, a + i - 1) \in Nat /\ Released(t, b + i - 1) \in Nat
    <3>1. /\ Released(s, a + i)
               = Released(s, a + i - 1) + Bytes(s[a + i].needed)
          /\ Released(s, a + i - 1) \in Nat
      BY <2>1, ReleasedStep
    <3>2. /\ Released(t, b + i)
               = Released(t, b + i - 1) + Bytes(t[b + i].needed)
          /\ Released(t, b + i - 1) \in Nat
      BY <2>1, ReleasedStep
    <3> QED
      BY <3>1, <3>2
  <2>3. s[a + i].needed = t[b + i].needed
    BY DEF Alike
  <2>4. s[a + i] \in Element
    BY <2>1, ElementOfSeq
  <2>5. Bytes(s[a + i].needed) \in Nat
    BY <2>4, BytesFacts
  <2>6. Released(s, a + i - 1) - Released(s, a)
          = Released(t, b + i - 1) - Released(t, b)
    BY <1>6, <2>1
  <2>7. /\ Released(s, a + i) = Released(s, a + i - 1) + Bytes(s[a + i].needed)
        /\ Released(t, b + i) = Released(t, b + i - 1) + Bytes(s[a + i].needed)
    BY <2>2, <2>3
  <2>8. Released(s, a + i) - Released(s, a) = Released(t, b + i) - Released(t, b)
    <3>1. PICK w \in Nat : w = Bytes(s[a + i].needed)
      BY <2>5
    <3>2. PICK r \in Nat : r = Released(s, a + i - 1)
      BY <2>2
    <3>3. PICK u \in Nat : u = Released(t, b + i - 1)
      BY <2>2
    <3>4. PICK r0 \in Nat : r0 = Released(s, a)
      BY <1>4
    <3>5. PICK u0 \in Nat : u0 = Released(t, b)
      BY <1>4
    <3>6. r - r0 = u - u0
      BY <2>6, <3>2, <3>3, <3>4, <3>5
    <3>7. (r + w) - r0 = (u + w) - u0
      BY <3>6
    <3>8. Released(s, a + i) = r + w /\ Released(t, b + i) = u + w
      BY <2>7, <3>1, <3>2, <3>3
    <3> QED
      BY <3>4, <3>5, <3>7, <3>8
  <2>9. i \in 0 .. n
    OBVIOUS
  <2> QED
    BY <2>8, <2>9
<1>7. n \in T
  <2> HIDE DEF T
  <2>1. \A i \in 0 .. n : i \in T
    BY <1>5, <1>6, UpTo
  <2> QED
    BY <2>1
<1> QED
  BY <1>7

-----------------------------------------------------------------------------
(* The invariant of a node: q is its buff, ds what its application got,    *)
(* free its free_bytes, S the messages sent to it, A the fragments that    *)
(* arrived and E the names of the messages that lost an element.           *)

(* The element el holds different fragments of m, at least one and not all *)
IsFor(el, m, A) ==
  /\ el.key = MakeKey(m.src, m.num)
  /\ el.needed = FragCount(m.len)
  /\ el.frags \in Seq(Fragments(m))
  /\ IsInjective(el.frags)
  /\ Len(el.frags) \in 1 .. el.needed - 1
  /\ Range(el.frags) \subseteq A

(* Elements are for messages, hold different fragments, and have different *)
(* keys above the bottom.                                                  *)
Queue(q, S, A) ==
  /\ q \in Seq(Element)
  /\ \A i \in DOMAIN q : \E m \in S : IsFor(q[i], m, A)
  /\ \A i, j \in DOMAIN q :
       i # j => Range(q[i].frags) \cap Range(q[j].frags) = {}
  /\ \A i, j \in 2 .. Len(q) : q[i].key = q[j].key => i = j

Delivery == [from : Node, data : {Content(m) : m \in Message}]
Delivered(m) == [from |-> m.src, data |-> Content(m)]

(* What was delivered has arrived in full, and none of it is in buff.      *)
Whole(ds, q, S, A) ==
  /\ ds \in Seq(Delivery)
  /\ \A x \in Range(ds) : \E m \in S :
       /\ x = Delivered(m)
       /\ Fragments(m) \subseteq A
       /\ \A i \in DOMAIN q : Range(q[i].frags) \cap Fragments(m) = {}

(* Where the fragments that arrived are.                                   *)
Placed(ds, q, S, A, E) ==
  \A m \in S : \A d \in Fragments(m) \cap A :
    \/ Delivered(m) \in Range(ds)
    \/ Name(m) \in E
    \/ \E i \in DOMAIN q : d \in Range(q[i].frags)

Accounts(free, q) ==
  /\ free \in Nat
  /\ free + Released(q, Len(q)) = TRANSPORT_BUFF_SIZE - QueueBytes

NodeInv(q, ds, free, S, A, E) ==
  /\ Queue(q, S, A)
  /\ Whole(ds, q, S, A)
  /\ Placed(ds, q, S, A, E)
  /\ Accounts(free, q)

(* Messages with different names. *)
Distinct(S) == /\ S \subseteq Message
               /\ \A m, k \in S : Name(m) = Name(k) => m = k

LEMMA IsForFacts ==
  ASSUME NEW m \in Message, NEW A, NEW el, IsFor(el, m, A)
  PROVE  /\ Range(el.frags) \subseteq Fragments(m)
         /\ Range(el.frags) # {}
         /\ 1 \in DOMAIN el.frags /\ el.frags[1] \in Fragments(m)
         /\ Name(el.frags[1]) = Name(m)
<1>1. el.frags \in Seq(Fragments(m)) /\ Len(el.frags) >= 1
      /\ Len(el.frags) \in Nat /\ DOMAIN el.frags = 1 .. Len(el.frags)
  BY LenProperties DEF IsFor
<1>2. \A i \in 1 .. Len(el.frags) : el.frags[i] \in Fragments(m)
  BY <1>1, ElementOfSeq
<1>3. 1 \in 1 .. Len(el.frags)
  BY <1>1
<1>4. Range(el.frags) \subseteq Fragments(m)
  BY <1>1, <1>2 DEF Range
<1>5. el.frags[1] \in Range(el.frags) /\ el.frags[1] \in Fragments(m)
  BY <1>1, <1>2, <1>3 DEF Range
<1>6. Name(el.frags[1]) = Name(m)
  BY <1>5, NameOfFragment
<1>7. 1 \in DOMAIN el.frags
  BY <1>1, <1>3
<1> QED
  BY <1>4, <1>5, <1>6, <1>7

LEMMA IsForMore ==
  ASSUME NEW m, NEW A, NEW B, NEW el, IsFor(el, m, A), A \subseteq B
  PROVE  IsFor(el, m, B)
BY DEF IsFor

LEMMA SameMessage ==
  ASSUME NEW S, Distinct(S), NEW m \in S, NEW k \in S, NEW d,
         d \in Fragments(m), d \in Fragments(k)
  PROVE  m = k
<1>1. m \in Message /\ k \in Message
  BY DEF Distinct
<1>2. Name(m) = Name(d) /\ Name(k) = Name(d)
  BY <1>1, NameOfFragment
<1> QED
  BY <1>2 DEF Distinct

LEMMA SameKey ==
  ASSUME NEW S, Distinct(S), NEW m \in S, NEW k \in S, NEW A, NEW el,
         IsFor(el, k, A), el.key = MakeKey(m.src, m.num)
  PROVE  m = k
<1>1. m \in Message /\ k \in Message
  BY DEF Distinct
<1>2. MakeKey(k.src, k.num) = MakeKey(m.src, m.num)
  BY Zenon DEF IsFor
<1>3. Name(k) = Name(m)
  BY <1>1, <1>2, KeyNames
<1> QED
  BY <1>3 DEF Distinct

(* A new element. *)
LEMMA IsForElement ==
  ASSUME NEW m \in Message, NEW A, NEW frags,
         IsFor([key |-> MakeKey(m.src, m.num), needed |-> FragCount(m.len),
                frags |-> frags], m, A)
  PROVE  [key |-> MakeKey(m.src, m.num), needed |-> FragCount(m.len),
          frags |-> frags] \in Element
<1> DEFINE key == MakeKey(m.src, m.num)
           needed == FragCount(m.len)
           el == [key |-> key, needed |-> needed, frags |-> frags]
<1>1. frags \in Seq(Fragments(m)) /\ Len(frags) >= 1 /\ Len(frags) \in Nat
  <2>1. el.frags \in Seq(Fragments(m)) /\ Len(el.frags) \in 1 .. el.needed - 1
    BY DEF IsFor
  <2>2. el.frags = frags
    OBVIOUS
  <2> HIDE DEF el
  <2> QED
    BY <2>1, <2>2
<1>2. needed \in Nat \ {0} /\ key \in {MakeKey(k.src, k.num) : k \in Message}
  BY CountFacts, MessageFacts
<1>3. \A i \in 1 .. Len(frags) : frags[i] \in Fragments(m)
  BY <1>1, ElementOfSeq
<1>4. \A i \in 1 .. Len(frags) : frags[i].count = needed
  BY <1>3, NameOfFragment
<1>5. frags \in Seq(AnyFragment)
  <2>1. Fragments(m) \subseteq AnyFragment
    BY DEF AnyFragment
  <2> QED
    BY <1>1, <2>1
<1> HIDE DEF key, needed
<1> QED
  BY <1>1, <1>2, <1>4, <1>5 DEF Element, key, needed

-----------------------------------------------------------------------------
(* A fragment d of m arrives: buff changes from q to q2.                   *)

(* Element x of q2 is new or has got d, element j # x was element f[j].    *)
Moved(q, q2, f, x) ==
  /\ f \in [DOMAIN q2 \ {x} -> DOMAIN q]
  /\ \A j \in DOMAIN q2 \ {x} : q2[j] = q[f[j]] /\ (j # 1 => f[j] # 1)
  /\ \A i, j \in DOMAIN q2 \ {x} : f[i] = f[j] => i = j

Arrives(q, q2, f, x, m, B) ==
  x \in DOMAIN q2 =>
    /\ IsFor(q2[x], m, B)
    /\ \A j \in DOMAIN q2 \ {x} :
         /\ Range(q2[x].frags) \cap Range(q[f[j]].frags) = {}
         /\ x # 1 /\ j # 1 => q[f[j]].key # q2[x].key

LEMMA QueueStep ==
  ASSUME NEW S, NEW m \in S, NEW A, NEW B, A \subseteq B,
         NEW q, Queue(q, S, A), NEW q2 \in Seq(Element), NEW f, NEW x,
         Moved(q, q2, f, x), Arrives(q, q2, f, x, m, B)
  PROVE  Queue(q2, S, B)
<1> DEFINE D == DOMAIN q2
<1>1. /\ Len(q) \in Nat /\ DOMAIN q = 1 .. Len(q)
      /\ Len(q2) \in Nat /\ D = 1 .. Len(q2)
  BY LenProperties DEF Queue
<1>2. \A j \in D \ {x} :
        f[j] \in DOMAIN q /\ q2[j] = q[f[j]] /\ (j # 1 => f[j] # 1)
  BY DEF Moved
<1>3. \A i, j \in D \ {x} : i # j => f[i] # f[j]
  BY DEF Moved
<1>4. x \in D =>
        /\ IsFor(q2[x], m, B)
        /\ \A j \in D \ {x} :
             /\ Range(q2[x].frags) \cap Range(q2[j].frags) = {}
             /\ x # 1 /\ j # 1 => q2[j].key # q2[x].key
  BY <1>2 DEF Arrives
<1> HIDE DEF D
<1>5. ASSUME NEW j \in D
      PROVE  \E k \in S : IsFor(q2[j], k, B)
  <2>1. CASE j = x
    BY <1>4, <2>1
  <2>2. CASE j # x
    <3>1. PICK k \in S : IsFor(q[f[j]], k, A)
      BY <1>2, <2>2 DEF Queue
    <3>2. IsFor(q2[j], k, A)
      BY <1>2, <2>2, <3>1
    <3> QED
      BY <3>2, IsForMore
  <2> QED
    BY <2>1, <2>2
<1>6. ASSUME NEW i \in D, NEW j \in D, i # j
      PROVE  Range(q2[i].frags) \cap Range(q2[j].frags) = {}
  <2>1. CASE i = x
    BY <1>4, <1>6, <2>1
  <2>2. CASE j = x
    BY <1>4, <1>6, <2>2
  <2>3. CASE i # x /\ j # x
    <3>1. f[i] # f[j] /\ f[i] \in DOMAIN q /\ f[j] \in DOMAIN q
      BY <1>2, <1>3, <1>6, <2>3
    <3>2. Range(q[f[i]].frags) \cap Range(q[f[j]].frags) = {}
      BY <3>1 DEF Queue
    <3> QED
      BY <1>2, <2>3, <3>2
  <2> QED
    BY <2>1, <2>2, <2>3
<1>7. ASSUME NEW i \in D, NEW j \in D, i # 1, j # 1, i # j
      PROVE  q2[i].key # q2[j].key
  <2>1. CASE i = x
    BY <1>4, <1>7, <2>1
  <2>2. CASE j = x
    BY <1>4, <1>7, <2>2
  <2>3. CASE i # x /\ j # x
    <3>1. /\ f[i] # f[j] /\ f[i] \in DOMAIN q /\ f[j] \in DOMAIN q
          /\ f[i] # 1 /\ f[j] # 1
      BY <1>2, <1>3, <1>7, <2>3
    <3>2. f[i] \in 2 .. Len(q) /\ f[j] \in 2 .. Len(q)
      BY <1>1, <3>1
    <3>3. q[f[i]].key # q[f[j]].key
      BY <3>1, <3>2 DEF Queue
    <3> QED
      BY <1>2, <2>3, <3>3
  <2> QED
    BY <2>1, <2>2, <2>3
<1>8. \A i \in 2 .. Len(q2) : i \in D /\ i # 1
  BY <1>1
<1> QED
  BY <1>5, <1>6, <1>7, <1>8 DEF Queue, D

LEMMA WholeStep ==
  ASSUME NEW S, Distinct(S), NEW m \in S, NEW A, NEW B, A \subseteq B,
         NEW q, NEW ds, Whole(ds, q, S, A),
         NEW d \in Fragments(m), d \notin A,
         NEW q2, NEW f, NEW x,
         Moved(q, q2, f, x), Arrives(q, q2, f, x, m, B)
  PROVE  Whole(ds, q2, S, B)
<1>1. ASSUME NEW y \in Range(ds)
      PROVE  \E k \in S :
               /\ y = Delivered(k)
               /\ Fragments(k) \subseteq B
               /\ \A i \in DOMAIN q2 :
                    Range(q2[i].frags) \cap Fragments(k) = {}
  <2>1. PICK k \in S :
          /\ y = Delivered(k)
          /\ Fragments(k) \subseteq A
          /\ \A i \in DOMAIN q : Range(q[i].frags) \cap Fragments(k) = {}
    BY DEF Whole
  <2>2. ASSUME NEW i \in DOMAIN q2, i # x
        PROVE  Range(q2[i].frags) \cap Fragments(k) = {}
    <3>1. f[i] \in DOMAIN q /\ q2[i] = q[f[i]]
      BY <2>2 DEF Moved
    <3> QED
      BY <2>1, <3>1
  <2>3. ASSUME x \in DOMAIN q2
        PROVE  Range(q2[x].frags) \cap Fragments(k) = {}
    <3>1. Range(q2[x].frags) \subseteq Fragments(m)
      BY <2>3, IsForFacts DEF Arrives, Distinct
    <3>2. k # m
      BY <2>1
    <3> QED
      BY <3>1, <3>2, SameMessage
  <2> QED
    BY <2>1, <2>2, <2>3
<1> QED
  BY <1>1 DEF Whole

LEMMA PlacedStep ==
  ASSUME NEW S, Distinct(S), NEW m \in S, NEW A, NEW E, NEW E2, E \subseteq E2,
         NEW q, NEW ds, NEW ds2, Placed(ds, q, S, A, E), Queue(q, S, A),
         Range(ds) \subseteq Range(ds2),
         NEW d \in Fragments(m), NEW q2,
         \/ Delivered(m) \in Range(ds2)
         \/ \E i \in DOMAIN q2 : d \in Range(q2[i].frags),
         \A i \in DOMAIN q : \A k \in S : IsFor(q[i], k, A) =>
           \/ Delivered(k) \in Range(ds2)
           \/ Name(k) \in E2
           \/ \E j \in DOMAIN q2 : Range(q[i].frags) \subseteq Range(q2[j].frags)
  PROVE  Placed(ds2, q2, S, A \cup {d}, E2)
<1>1. SUFFICES ASSUME NEW k \in S, NEW e \in Fragments(k) \cap (A \cup {d})
               PROVE  \/ Delivered(k) \in Range(ds2)
                      \/ Name(k) \in E2
                      \/ \E i \in DOMAIN q2 : e \in Range(q2[i].frags)
  BY DEF Placed
<1>2. CASE e = d
  <2>1. k = m
    BY <1>2, SameMessage
  <2> QED
    BY <1>2, <2>1
<1>3. CASE e # d
  <2>1. \/ Delivered(k) \in Range(ds)
        \/ Name(k) \in E
        \/ \E i \in DOMAIN q : e \in Range(q[i].frags)
    BY <1>3 DEF Placed
  <2>2. ASSUME NEW i \in DOMAIN q, e \in Range(q[i].frags)
        PROVE  \/ Delivered(k) \in Range(ds2)
               \/ Name(k) \in E2
               \/ \E j \in DOMAIN q2 : e \in Range(q2[j].frags)
    <3>1. PICK l \in S : IsFor(q[i], l, A)
      BY DEF Queue
    <3>2. e \in Fragments(l)
      BY <2>2, <3>1, IsForFacts DEF Distinct
    <3>3. l = k
      BY <3>2, SameMessage
    <3> QED
      BY <2>2, <3>1, <3>3
  <2> QED
    BY <2>1, <2>2
<1> QED
  BY <1>2, <1>3

-----------------------------------------------------------------------------
(* The steps of a node *)

LEMMA QueueMore ==
  ASSUME NEW S, NEW T, S \subseteq T, NEW A, NEW B, A \subseteq B,
         NEW q, Queue(q, S, A)
  PROVE  Queue(q, T, B)
<1>1. ASSUME NEW i \in DOMAIN q
      PROVE  \E m \in T : IsFor(q[i], m, B)
  <2>1. PICK m \in S : IsFor(q[i], m, A)
    BY DEF Queue
  <2>2. IsFor(q[i], m, B)
    BY <2>1, IsForMore
  <2> QED
    BY <2>2
<1> QED
  BY <1>1 DEF Queue

LEMMA WholeMore ==
  ASSUME NEW S, NEW T, S \subseteq T, NEW A, NEW B, A \subseteq B,
         NEW q, NEW ds, Whole(ds, q, S, A)
  PROVE  Whole(ds, q, T, B)
<1>1. ASSUME NEW x \in Range(ds)
      PROVE  \E m \in T :
               /\ x = Delivered(m)
               /\ Fragments(m) \subseteq B
               /\ \A i \in DOMAIN q : Range(q[i].frags) \cap Fragments(m) = {}
  BY DEF Whole
<1> QED
  BY <1>1 DEF Whole

(* Nothing for the node arrives. *)
LEMMA NodeOther ==
  ASSUME NEW S, NEW A, NEW B, A \subseteq B, NEW E, NEW E2, E \subseteq E2,
         \A m \in S : Fragments(m) \cap B \subseteq A,
         NEW q, NEW ds, NEW free, NodeInv(q, ds, free, S, A, E)
  PROVE  NodeInv(q, ds, free, S, B, E2)
<1>1. Queue(q, S, B)
  BY QueueMore DEF NodeInv
<1>2. Whole(ds, q, S, B)
  BY WholeMore DEF NodeInv
<1>3. Placed(ds, q, S, B, E2)
  <2>1. ASSUME NEW m \in S, NEW d \in Fragments(m) \cap B
        PROVE  \/ Delivered(m) \in Range(ds)
               \/ Name(m) \in E2
               \/ \E i \in DOMAIN q : d \in Range(q[i].frags)
    <3>1. d \in Fragments(m) \cap A
      OBVIOUS
    <3> QED
      BY <3>1 DEF NodeInv, Placed
  <2> QED
    BY <2>1 DEF Placed
<1> QED
  BY <1>1, <1>2, <1>3 DEF NodeInv

(* Messages are sent of which nothing has arrived. *)
LEMMA NodeSend ==
  ASSUME NEW S, NEW T, S \subseteq T, NEW A, NEW E,
         \A m \in T \ S : Fragments(m) \cap A = {},
         NEW q, NEW ds, NEW free, NodeInv(q, ds, free, S, A, E)
  PROVE  NodeInv(q, ds, free, T, A, E)
<1>1. Queue(q, T, A)
  BY QueueMore DEF NodeInv
<1>2. Whole(ds, q, T, A)
  BY WholeMore DEF NodeInv
<1>3. Placed(ds, q, T, A, E)
  <2>1. ASSUME NEW m \in T, NEW d \in Fragments(m) \cap A
        PROVE  \/ Delivered(m) \in Range(ds)
               \/ Name(m) \in E
               \/ \E i \in DOMAIN q : d \in Range(q[i].frags)
    <3>1. m \in S
      BY <2>1
    <3> QED
      BY <3>1 DEF NodeInv, Placed
  <2> QED
    BY <2>1 DEF Placed
<1> QED
  BY <1>1, <1>2, <1>3 DEF NodeInv

NoneIn(q, m) == \A i \in DOMAIN q : Range(q[i].frags) \cap Fragments(m) = {}

(* m is delivered. *)
LEMMA WholeAppend ==
  ASSUME NEW S, S \subseteq Message, NEW m \in S, NEW B, Fragments(m) \subseteq B,
         NEW q, NEW ds, Whole(ds, q, S, B), NoneIn(q, m)
  PROVE  /\ Whole(Append(ds, Delivered(m)), q, S, B)
         /\ Range(Append(ds, Delivered(m))) = Range(ds) \cup {Delivered(m)}
<1>1. Delivered(m) \in Delivery
  <2>1. m \in Message /\ m.src \in Node
    BY MessageFacts
  <2> QED
    BY <2>1 DEF Delivered, Delivery
<1>2. ds \in Seq(Delivery)
  BY DEF Whole
<1>3. /\ Append(ds, Delivered(m)) \in Seq(Delivery)
      /\ Range(Append(ds, Delivered(m))) = Range(ds) \cup {Delivered(m)}
  BY <1>1, <1>2, RangeAppend
<1>4. ASSUME NEW x \in Range(ds) \cup {Delivered(m)}
      PROVE  \E k \in S :
               /\ x = Delivered(k)
               /\ Fragments(k) \subseteq B
               /\ \A i \in DOMAIN q : Range(q[i].frags) \cap Fragments(k) = {}
  <2>1. CASE x = Delivered(m)
    BY <2>1 DEF NoneIn
  <2>2. CASE x \in Range(ds)
    BY <2>2 DEF Whole
  <2> QED
    BY <2>1, <2>2
<1> QED
  BY <1>3, <1>4 DEF Whole

LEMMA NodePassUp ==
  ASSUME NEW S, Distinct(S), NEW m \in S, NEW A, NEW E,
         NEW d \in Fragments(m), d \notin A, d.count = 1,
         NEW q, NEW ds, NEW free, NodeInv(q, ds, free, S, A, E)
  PROVE  NodeInv(q, Append(ds, [from |-> d.src, data |-> d.data]),
                 free, S, A \cup {d}, E)
<1> DEFINE B == A \cup {d}
           ds2 == Append(ds, Delivered(m))
<1>1. /\ Fragments(m) = {d} /\ d.data = Content(m) /\ d.src = m.src
      /\ m \in Message
  BY OneFragment, NameOfFragment DEF Distinct
<1>2. [from |-> d.src, data |-> d.data] = Delivered(m)
  BY <1>1 DEF Delivered
<1>3. Queue(q, S, B)
  BY QueueMore DEF NodeInv
<1>4. NoneIn(q, m)
  <2>1. \A i \in DOMAIN q : Range(q[i].frags) \subseteq A
    BY DEF NodeInv, Queue, IsFor
  <2> QED
    BY <1>1, <2>1 DEF NoneIn
<1>5. Whole(ds, q, S, B)
  BY WholeMore DEF NodeInv
<1>6. Whole(ds2, q, S, B) /\ Range(ds2) = Range(ds) \cup {Delivered(m)}
  <2>1. Fragments(m) \subseteq B /\ S \subseteq Message
    BY <1>1 DEF Distinct
  <2> HIDE DEF B
  <2> QED
    BY <1>4, <1>5, <2>1, WholeAppend
<1> HIDE DEF ds2
<1>7. Placed(ds2, q, S, B, E)
  <2>1. Placed(ds, q, S, A, E) /\ Queue(q, S, A)
    BY DEF NodeInv
  <2>2. Range(ds) \subseteq Range(ds2) /\ Delivered(m) \in Range(ds2)
    BY <1>6
  <2> QED
    BY <2>1, <2>2, PlacedStep
<1> QED
  BY <1>2, <1>3, <1>6, <1>7 DEF NodeInv, ds2

(* The names of the k oldest elements are noted in E. *)
Noted(q, k, E) == \A i \in 1 .. k : Name(q[i].frags[1]) \in E

(* The k oldest elements are evicted for a new element with fragment d. *)
LEMMA NodeNew ==
  ASSUME NEW S, Distinct(S), NEW m \in S, NEW A, NEW E,
         NEW E2, E \subseteq E2,
         NEW d \in Fragments(m), d \notin A, d.count # 1,
         NEW q, NEW ds, NEW free, NodeInv(q, ds, free, S, A, E),
         Candidates(q, MakeKey(d.src, d.num)) = {},
         NEW k \in 0 .. Len(q), Noted(q, k, E2),
         free - Bytes(d.count) + Released(q, k) >= Bytes(d.count)
  PROVE  NodeInv(Append(SubSeq(q, k + 1, Len(q)),
                        [key |-> MakeKey(d.src, d.num), needed |-> d.count,
                         frags |-> <<d>>]),
                 ds, free - Bytes(d.count) + Released(q, k), S, A \cup {d}, E2)
<1> DEFINE B == A \cup {d}
           n == Len(q)
           x == n - k + 1
           el == [key |-> MakeKey(d.src, d.num), needed |-> d.count,
                  frags |-> <<d>>]
           rest == SubSeq(q, k + 1, n)
           q2 == Append(rest, el)
           f == [j \in 1 .. n - k |-> k + j]
<1>1. /\ q \in Seq(Element) /\ n \in Nat /\ DOMAIN q = 1 .. n
      /\ k \in Nat /\ k <= n /\ x \in Nat /\ n - k \in Nat
      /\ free \in Nat
      /\ free + Released(q, n) = TRANSPORT_BUFF_SIZE - QueueBytes
  BY LenProperties DEF NodeInv, Queue, Accounts
<1>2. /\ m \in Message /\ d.src = m.src /\ d.num = m.num
      /\ d.count = FragCount(m.len) /\ d.count \in Nat \ {0}
  BY NameOfFragment DEF Distinct
<1>3. el.key = MakeKey(d.src, d.num) /\ el.needed = d.count /\ el.frags = <<d>>
  OBVIOUS
<1>4. IsFor(el, m, B) /\ Range(el.frags) = {d}
  <2>1. /\ <<d>> \in Seq(Fragments(m)) /\ Len(<<d>>) = 1
        /\ IsInjective(<<d>>) /\ Range(<<d>>) = {d}
    BY DEF IsInjective, Range
  <2>2. 1 \in 1 .. d.count - 1
    BY <1>2
  <2> HIDE DEF el
  <2> QED
    BY <1>2, <1>3, <2>1, <2>2 DEF IsFor
<1>5. el \in Element
  <2>1. el = [key |-> MakeKey(m.src, m.num), needed |-> FragCount(m.len),
              frags |-> <<d>>]
    BY <1>2
  <2> HIDE DEF el
  <2> QED
    BY <1>2, <1>4, <2>1, IsForElement
<1> HIDE DEF el
<1>6. /\ rest \in Seq(Element) /\ Len(rest) = n - k
      /\ \A i \in 1 .. n - k : rest[i] = q[k + i]
  <2>1. \A i \in k + 1 .. n : q[i] \in Element
    BY <1>1, ElementOfSeq
  <2>2. /\ rest \in Seq(Element)
        /\ Len(rest) = IF k + 1 <= n THEN n - (k + 1) + 1 ELSE 0
        /\ \A i \in 1 .. n - (k + 1) + 1 : rest[i] = q[k + 1 + i - 1]
    BY <1>1, <2>1, SubSeqProperties
  <2>3. n \in Nat /\ k \in Nat /\ k <= n
    BY <1>1
  <2> HIDE DEF rest, n
  <2>4. n - (k + 1) + 1 = n - k
    BY <2>3
  <2>5. ~ (k + 1 <= n) => n - k = 0
    BY <2>3
  <2>6. Len(rest) = n - k
    BY <2>2, <2>4, <2>5
  <2>7. ASSUME NEW i \in 1 .. n - k
        PROVE  rest[i] = q[k + i]
    <3>1. k + 1 + i - 1 = k + i
      BY <2>3
    <3>2. rest[i] = q[k + 1 + i - 1]
      BY <2>2, <2>4
    <3> QED
      BY <3>1, <3>2
  <2> QED
    BY <2>2, <2>6, <2>7
<1> HIDE DEF rest
<1>7. /\ q2 \in Seq(Element) /\ Len(q2) = x
      /\ \A j \in 1 .. n - k : q2[j] = q[k + j]
      /\ q2[x] = el
  BY <1>5, <1>6, AppendProperties
<1> HIDE DEF q2, n
<1>8. DOMAIN q2 = 1 .. x /\ (1 .. x) \ {x} = 1 .. n - k /\ x \in 1 .. x
  BY <1>1, <1>7, LenProperties
<1>9. Moved(q, q2, f, x)
  <2>1. \A j \in 1 .. n - k :
          k + j \in 1 .. n /\ (j # 1 => k + j # 1)
    BY <1>1
  <2>2. \A i, j \in 1 .. n - k : k + i = k + j => i = j
    BY <1>1
  <2> QED
    BY <1>1, <1>7, <1>8, <2>1, <2>2 DEF Moved
<1>10. Arrives(q, q2, f, x, m, B)
  <2>1. ASSUME NEW j \in 1 .. n - k
        PROVE  /\ k + j \in DOMAIN q
               /\ j # 1 => k + j \in 2 .. n
    BY <1>1
  <2>2. ASSUME NEW j \in 1 .. n - k
        PROVE  /\ {d} \cap Range(q[k + j].frags) = {}
               /\ j # 1 => q[k + j].key # el.key
    <3>1. Range(q[k + j].frags) \subseteq A
      BY <2>1 DEF NodeInv, Queue, IsFor
    <3>2. j # 1 => q[k + j].key # MakeKey(d.src, d.num)
      BY <2>1 DEF Candidates, n
    <3> QED
      BY <1>3, <3>1, <3>2
  <2>3. \A j \in 1 .. n - k : f[j] = k + j
    OBVIOUS
  <2> HIDE DEF f, x
  <2> QED
    BY <1>4, <1>7, <1>8, <2>2, <2>3 DEF Arrives
<1> HIDE DEF f, x
<1>11. Queue(q2, S, B)
  BY <1>7, <1>9, <1>10, QueueStep DEF NodeInv
<1>12. Whole(ds, q2, S, B)
  BY <1>9, <1>10, WholeStep DEF NodeInv
<1>13. Placed(ds, q2, S, B, E2)
  <2>1. ASSUME NEW i \in DOMAIN q, NEW l \in S, IsFor(q[i], l, A)
        PROVE  \/ Name(l) \in E2
               \/ \E j \in DOMAIN q2 :
                    Range(q[i].frags) \subseteq Range(q2[j].frags)
    <3>1. CASE i <= k
      <4>1. Name(q[i].frags[1]) = Name(l)
        BY <2>1, IsForFacts DEF Distinct
      <4>2. i \in 1 .. k
        BY <1>1, <3>1
      <4> QED
        BY <4>1, <4>2 DEF Noted
    <3>2. CASE i > k
      <4>1. i - k \in 1 .. n - k /\ k + (i - k) = i
        BY <1>1, <3>2
      <4>2. q2[i - k] = q[i] /\ i - k \in DOMAIN q2
        BY <1>7, <1>8, <4>1
      <4> QED
        BY <4>2
    <3>3. i \in Nat
      BY <1>1
    <3> QED
      BY <1>1, <3>1, <3>2, <3>3
  <2>2. d \in Range(q2[x].frags) /\ x \in DOMAIN q2
    BY <1>4, <1>7, <1>8
  <2>3. Placed(ds, q, S, A, E) /\ Queue(q, S, A)
    BY DEF NodeInv
  <2> QED
    BY <2>1, <2>2, <2>3, PlacedStep
<1>14. Accounts(free - Bytes(d.count) + Released(q, k), q2)
  <2>1. Released(q2, x) = Released(q2, n - k) + Bytes(d.count)
    <3>1. x \in 1 .. Len(q2) /\ x - 1 = n - k
      BY <1>1, <1>7, <1>8 DEF x
    <3> QED
      BY <1>3, <1>7, <3>1, ReleasedStep
  <2>2. Released(q2, n - k) - Released(q2, 0)
          = Released(q, n) - Released(q, k)
    <3>1. 0 + (n - k) <= Len(q2) /\ k + (n - k) <= Len(q)
      BY <1>1, <1>7 DEF x, n
    <3>2. Alike(q2, 0, q, k, n - k)
      BY <1>7 DEF Alike
    <3>3. /\ 0 \in Nat /\ n - k = 0 + (n - k) /\ n = k + (n - k)
      BY <1>1, <3>1
    <3>4. \A c, e : c = 0 + (n - k) /\ e = k + (n - k) =>
            Released(q2, c) - Released(q2, 0) = Released(q, e) - Released(q, k)
      <4>1. q2 \in Seq(Element) /\ q \in Seq(Element) /\ k \in Nat
            /\ n - k \in Nat
        BY <1>1, <1>7
      <4> QED
        BY <3>1, <3>2, <3>3, <4>1, SameBytes
    <3> QED
      BY <3>3, <3>4
  <2>3. /\ Released(q2, 0) = 0 /\ Released(q, k) \in Nat
        /\ Released(q, n) \in Nat
    BY <1>1, <1>7, ReleasedStep DEF n
  <2>4. Bytes(d.count) \in Nat
    BY <1>2, BytesFacts
  <2>5. Released(q2, n - k) = Released(q, n) - Released(q, k)
    <3>1. Released(q2, n - k) - 0 = Released(q, n) - Released(q, k)
      BY <2>2, <2>3
    <3>2. Released(q2, n - k) \in Nat
      <4>1. n - k \in 0 .. Len(q2)
        BY <1>1, <1>7 DEF x
      <4> QED
        BY <1>7, <4>1, ReleasedStep
    <3> QED
      BY <3>1, <3>2
  <2>6. free - Bytes(d.count) + Released(q, k) \in Nat
    BY <1>1, <2>3, <2>4
  <2>7. free - Bytes(d.count) + Released(q, k) + Released(q2, x)
          = TRANSPORT_BUFF_SIZE - QueueBytes
    BY <1>1, <2>1, <2>3, <2>4, <2>5
  <2> QED
    BY <1>7, <2>6, <2>7 DEF Accounts
<1> QED
  BY <1>11, <1>12, <1>13, <1>14 DEF NodeInv, q2, rest, el, n

(* The element that queue_get finds is for the message of the fragment. *)
LEMMA FoundFacts ==
  ASSUME NEW S, Distinct(S), NEW m \in S, NEW A,
         NEW d \in Fragments(m), d \notin A,
         NEW q, Queue(q, S, A), NEW i \in Candidates(q, MakeKey(d.src, d.num))
  PROVE  LET frags == Append(q[i].frags, d) IN
         /\ i \in DOMAIN q /\ i # 1
         /\ IsFor(q[i], m, A)
         /\ q[i] \in Element
         /\ q[i].key = MakeKey(m.src, m.num)
         /\ q[i].needed = FragCount(m.len)
         /\ frags \in Seq(Fragments(m)) /\ IsInjective(frags)
         /\ Len(frags) = Len(q[i].frags) + 1
         /\ Range(frags) = Range(q[i].frags) \cup {d}
<1> DEFINE s == q[i].frags
           frags == Append(s, d)
<1>1. /\ q \in Seq(Element) /\ Len(q) \in Nat /\ DOMAIN q = 1 .. Len(q)
  BY LenProperties DEF Queue
<1>2. i \in 2 .. Len(q) /\ q[i].key = MakeKey(d.src, d.num)
  BY DEF Candidates
<1>3. i \in DOMAIN q /\ i # 1
  BY <1>1, <1>2
<1>4. m \in Message /\ d.src = m.src /\ d.num = m.num
  BY NameOfFragment DEF Distinct
<1>5. q[i].key = MakeKey(m.src, m.num)
  BY <1>2, <1>4
<1>6. PICK k \in S : IsFor(q[i], k, A)
  BY <1>3 DEF Queue
<1>7. k = m
  BY <1>5, <1>6, SameKey
<1>8. IsFor(q[i], m, A)
  BY <1>6, <1>7
<1>9. /\ q[i].needed = FragCount(m.len)
      /\ s \in Seq(Fragments(m)) /\ IsInjective(s) /\ Range(s) \subseteq A
      /\ Len(s) \in Nat
  BY <1>8, LenProperties DEF IsFor
<1> HIDE DEF s
<1>10. /\ frags \in Seq(Fragments(m)) /\ Range(frags) = Range(s) \cup {d}
  BY <1>9, RangeAppend
<1>11. Len(frags) = Len(s) + 1
  BY <1>9, AppendProperties
<1>12. IsInjective(frags)
  <2>1. d \notin Range(s)
    BY <1>9
  <2> QED
    BY <1>9, <2>1, InjectiveAppend
<1>13. q[i] \in Element
  BY <1>1, <1>3, ElementOfSeq
<1> QED
  BY <1>3, <1>5, <1>8, <1>9, <1>10, <1>11, <1>12, <1>13 DEF s

(* The element gets the fragment, and others are still missing. *)
LEMMA NodeStore ==
  ASSUME NEW S, Distinct(S), NEW m \in S, NEW A, NEW E,
         NEW d \in Fragments(m), d \notin A,
         NEW q, NEW ds, NEW free, NodeInv(q, ds, free, S, A, E),
         NEW i \in Candidates(q, MakeKey(d.src, d.num)),
         Len(q[i].frags) + 1 < q[i].needed
  PROVE  NodeInv([q EXCEPT ![i].frags = Append(@, d)],
                 ds, free, S, A \cup {d}, E)
<1> DEFINE B == A \cup {d}
           n == Len(q)
           frags == Append(q[i].frags, d)
           el == [q[i] EXCEPT !.frags = frags]
           q2 == [q EXCEPT ![i] = el]
           f == [j \in DOMAIN q \ {i} |-> j]
<1>1. /\ q \in Seq(Element) /\ n \in Nat /\ DOMAIN q = 1 .. n
      /\ Queue(q, S, A) /\ m \in Message
  BY LenProperties DEF NodeInv, Queue, Distinct
<1>2. /\ i \in DOMAIN q /\ i # 1
      /\ IsFor(q[i], m, A)
      /\ q[i] \in Element
      /\ q[i].key = MakeKey(m.src, m.num)
      /\ q[i].needed = FragCount(m.len)
      /\ frags \in Seq(Fragments(m)) /\ IsInjective(frags)
      /\ Len(frags) = Len(q[i].frags) + 1
      /\ Range(frags) = Range(q[i].frags) \cup {d}
  BY <1>1, FoundFacts
<1>3. /\ Range(q[i].frags) \subseteq A
      /\ Len(frags) \in 1 .. q[i].needed - 1
  <2>1. Len(q[i].frags) \in 1 .. q[i].needed - 1
        /\ Range(q[i].frags) \subseteq A
    BY <1>2 DEF IsFor
  <2>2. q[i].needed \in Nat
    BY <1>2 DEF Element
  <2> QED
    BY <1>2, <2>1, <2>2
<1>4. [q EXCEPT ![i].frags = Append(@, d)] = q2
  OBVIOUS
<1> HIDE DEF frags
<1>5. el = [key |-> MakeKey(m.src, m.num), needed |-> FragCount(m.len),
            frags |-> frags]
  BY <1>2 DEF Element
<1>6. el.key = q[i].key /\ el.needed = q[i].needed /\ el.frags = frags
  BY <1>2, <1>5
<1> HIDE DEF el
<1>7. IsFor(el, m, B)
  BY <1>2, <1>3, <1>6 DEF IsFor
<1>8. el \in Element
  BY <1>1, <1>5, <1>7, IsForElement
<1>9. /\ q2 \in Seq(Element) /\ DOMAIN q2 = DOMAIN q /\ Len(q2) = n
      /\ q2[i] = el /\ \A j \in DOMAIN q \ {i} : q2[j] = q[j]
  BY <1>1, <1>2, <1>8
<1> HIDE DEF q2, n
<1>10. Moved(q, q2, f, i)
  BY <1>9 DEF Moved
<1>11. Arrives(q, q2, f, i, m, B)
  <2>1. ASSUME NEW j \in DOMAIN q \ {i}
        PROVE  /\ Range(frags) \cap Range(q[j].frags) = {}
               /\ j # 1 => q[j].key # q[i].key
    <3>1. Range(q[j].frags) \subseteq A
      BY <1>1 DEF Queue, IsFor
    <3>2. Range(q[i].frags) \cap Range(q[j].frags) = {}
      BY <1>1, <1>2 DEF Queue
    <3>3. j # 1 => q[j].key # q[i].key
      <4>1. i \in 2 .. n /\ (j # 1 => j \in 2 .. n) /\ i # j
        BY <1>1, <1>2
      <4> QED
        BY <1>1, <4>1 DEF Queue, n
    <3> QED
      BY <1>2, <3>1, <3>2, <3>3
  <2>2. \A j \in DOMAIN q \ {i} : f[j] = j
    OBVIOUS
  <2> HIDE DEF f
  <2> QED
    BY <1>6, <1>7, <1>9, <2>1, <2>2 DEF Arrives
<1> HIDE DEF f
<1>12. Queue(q2, S, B)
  BY <1>1, <1>9, <1>10, <1>11, QueueStep
<1>13. Whole(ds, q2, S, B)
  BY <1>10, <1>11, WholeStep DEF NodeInv
<1>14. Placed(ds, q2, S, B, E)
  <2>1. \A j \in DOMAIN q : j \in DOMAIN q2
                            /\ Range(q[j].frags) \subseteq Range(q2[j].frags)
    BY <1>2, <1>6, <1>9
  <2>2. d \in Range(q2[i].frags) /\ i \in DOMAIN q2
    BY <1>2, <1>6, <1>9
  <2>3. Placed(ds, q, S, A, E)
    BY DEF NodeInv
  <2> QED
    BY <1>1, <2>1, <2>2, <2>3, PlacedStep
<1>15. Accounts(free, q2)
  <2>1. Alike(q2, 0, q, 0, n)
    <3>1. \A j \in 1 .. n : q2[j].needed = q[j].needed
      BY <1>1, <1>6, <1>9
    <3>2. \A j \in 1 .. n : 0 + j = j
      OBVIOUS
    <3> QED
      BY <3>1, <3>2 DEF Alike
  <2>2. 0 \in Nat /\ 0 + n <= Len(q2) /\ 0 + n <= Len(q) /\ 0 + n = n
    BY <1>1, <1>9 DEF n
  <2>3. \A c, e : c = 0 + n /\ e = 0 + n =>
          Released(q2, c) - Released(q2, 0) = Released(q, e) - Released(q, 0)
    BY <1>1, <1>9, <2>1, <2>2, SameBytes
  <2>4. /\ Released(q2, 0) = 0 /\ Released(q, 0) = 0
        /\ Released(q2, n) \in Nat /\ Released(q, n) \in Nat
    <3>1. n \in 0 .. Len(q2) /\ n \in 0 .. Len(q)
      BY <1>1, <1>9 DEF n
    <3> QED
      BY <1>1, <1>9, <3>1, ReleasedStep
  <2>5. Released(q2, n) = Released(q, n)
    BY <2>2, <2>3, <2>4
  <2> QED
    BY <1>9, <2>5 DEF NodeInv, Accounts, n
<1> QED
  BY <1>4, <1>12, <1>13, <1>14, <1>15 DEF NodeInv

LEMMA RemoveFacts ==
  ASSUME NEW X, NEW s \in Seq(X), NEW i \in 1 .. Len(s)
  PROVE  /\ RemoveAt(s, i) \in Seq(X)
         /\ Len(RemoveAt(s, i)) = Len(s) - 1
         /\ \A j \in 1 .. i - 1 : RemoveAt(s, i)[j] = s[j]
         /\ \A j \in i .. Len(s) - 1 : RemoveAt(s, i)[j] = s[j + 1]
<1> DEFINE n == Len(s)
           a == SubSeq(s, 1, i - 1)
           b == SubSeq(s, i + 1, n)
<1>1. n \in Nat /\ i \in Nat /\ i <= n /\ i >= 1
  BY LenProperties
<1>2. \A j \in 1 .. n : s[j] \in X
  BY ElementOfSeq
<1>3. /\ a \in Seq(X) /\ Len(a) = i - 1
      /\ \A j \in 1 .. i - 1 : a[j] = s[j]
  <2>1. \A j \in 1 .. i - 1 : s[j] \in X
    BY <1>1, <1>2
  <2>2. /\ a \in Seq(X)
        /\ Len(a) = IF 1 <= i - 1 THEN i - 1 - 1 + 1 ELSE 0
        /\ \A j \in 1 .. i - 1 - 1 + 1 : a[j] = s[1 + j - 1]
    BY <1>1, <2>1, SubSeqProperties
  <2>3. i - 1 - 1 + 1 = i - 1 /\ (~ (1 <= i - 1) => i - 1 = 0)
        /\ \A j \in 1 .. i - 1 : 1 + j - 1 = j
    BY <1>1
  <2> HIDE DEF a
  <2> QED
    BY <2>2, <2>3
<1>4. /\ b \in Seq(X) /\ Len(b) = n - i
      /\ \A j \in 1 .. n - i : b[j] = s[i + j]
  <2>1. \A j \in i + 1 .. n : s[j] \in X
    BY <1>1, <1>2
  <2>2. /\ b \in Seq(X)
        /\ Len(b) = IF i + 1 <= n THEN n - (i + 1) + 1 ELSE 0
        /\ \A j \in 1 .. n - (i + 1) + 1 : b[j] = s[i + 1 + j - 1]
    BY <1>1, <2>1, SubSeqProperties
  <2>3. n - (i + 1) + 1 = n - i /\ (~ (i + 1 <= n) => n - i = 0)
    BY <1>1
  <2>4. \A j \in 1 .. n - i : i + 1 + j - 1 = i + j
    BY <1>1
  <2> HIDE DEF b, n
  <2> QED
    BY <2>2, <2>3, <2>4
<1>5. RemoveAt(s, i) = a \o b
  BY DEF RemoveAt
<1> HIDE DEF a, b, n
<1>6. /\ a \o b \in Seq(X)
      /\ Len(a \o b) = Len(a) + Len(b)
      /\ \A j \in 1 .. Len(a) + Len(b) :
           (a \o b)[j] = IF j <= Len(a) THEN a[j] ELSE b[j - Len(a)]
  BY <1>3, <1>4, ConcatProperties
<1>7. Len(a) + Len(b) = n - 1
  BY <1>1, <1>3, <1>4
<1>8. ASSUME NEW j \in 1 .. i - 1
      PROVE  (a \o b)[j] = s[j]
  <2>1. j \in 1 .. Len(a) + Len(b) /\ j <= Len(a)
    BY <1>1, <1>3, <1>7
  <2> QED
    BY <1>3, <1>6, <2>1
<1>9. ASSUME NEW j \in i .. n - 1
      PROVE  (a \o b)[j] = s[j + 1]
  <2>1. j \in 1 .. Len(a) + Len(b) /\ ~ (j <= Len(a))
    BY <1>1, <1>3, <1>7
  <2>2. j - Len(a) \in 1 .. n - i /\ i + (j - Len(a)) = j + 1
    BY <1>1, <1>3
  <2> QED
    BY <1>4, <1>6, <2>1, <2>2
<1> QED
  BY <1>5, <1>6, <1>7, <1>8, <1>9 DEF n

(* What is put together when the last fragment arrives. *)
LEMMA LastFragment ==
  ASSUME NEW S, Distinct(S), NEW m \in S, NEW A,
         NEW d \in Fragments(m), d \notin A,
         NEW q, Queue(q, S, A),
         NEW i \in Candidates(q, MakeKey(d.src, d.num)),
         Len(q[i].frags) + 1 = q[i].needed
  PROVE  /\ Built(Sorted(Append(q[i].frags, d))) = Content(m)
         /\ Range(Append(q[i].frags, d)) = Fragments(m)
<1> DEFINE frags == Append(q[i].frags, d)
<1>1. m \in Message
  BY DEF Distinct
<1>2. /\ q[i].needed = FragCount(m.len)
      /\ frags \in Seq(Fragments(m)) /\ IsInjective(frags)
      /\ Len(frags) = Len(q[i].frags) + 1
  BY FoundFacts
<1> HIDE DEF frags
<1>3. Len(frags) = FragCount(m.len)
  BY <1>2
<1>4. Len(frags) >= FragCount(m.len)
  <2>1. FragCount(m.len) \in Nat
    BY <1>1, CountFacts, MessageFacts
  <2> QED
    BY <1>3, <2>1
<1>5. Built(Sorted(frags)) = Content(m) /\ Range(frags) = Fragments(m)
  BY <1>1, <1>2, <1>3, <1>4, CompleteIsContent, AllFragments
<1> QED
  BY <1>5 DEF frags

(* The last fragment arrives: the element goes, its message is delivered. *)
LEMMA NodeComplete ==
  ASSUME NEW S, Distinct(S), NEW m \in S, NEW A, NEW E,
         NEW d \in Fragments(m), d \notin A,
         NEW q, NEW ds, NEW free, NodeInv(q, ds, free, S, A, E),
         NEW i \in Candidates(q, MakeKey(d.src, d.num)),
         Len(q[i].frags) + 1 = q[i].needed
  PROVE  LET msg == Built(Sorted(Append(q[i].frags, d)))
             ds2 == Append(ds, [from |-> d.src, data |-> msg])
         IN  NodeInv(RemoveAt(q, i), ds2, free + Bytes(q[i].needed),
                     S, A \cup {d}, E)
<1> DEFINE B == A \cup {d}
           n == Len(q)
           frags == Append(q[i].frags, d)
           msg == Built(Sorted(frags))
           q2 == RemoveAt(q, i)
           ds2 == Append(ds, Delivered(m))
           f == [j \in 1 .. n - 1 |-> IF j < i THEN j ELSE j + 1]
           g == free + Bytes(q[i].needed)
<1>1. /\ q \in Seq(Element) /\ n \in Nat /\ DOMAIN q = 1 .. n
      /\ Queue(q, S, A) /\ m \in Message /\ S \subseteq Message
  BY LenProperties DEF NodeInv, Queue, Distinct
<1>2. /\ i \in DOMAIN q /\ i # 1
      /\ IsFor(q[i], m, A)
      /\ q[i] \in Element
      /\ q[i].needed = FragCount(m.len)
      /\ frags \in Seq(Fragments(m)) /\ IsInjective(frags)
      /\ Len(frags) = Len(q[i].frags) + 1
      /\ Range(frags) = Range(q[i].frags) \cup {d}
  BY <1>1, FoundFacts
<1>3. i \in 1 .. n /\ i \in Nat
  BY <1>1, <1>2
<1> HIDE DEF frags
<1>4. msg = Content(m) /\ Range(frags) = Fragments(m)
  BY <1>1, LastFragment DEF frags
<1>5. Range(q[i].frags) \subseteq A /\ Fragments(m) = Range(q[i].frags) \cup {d}
  BY <1>2, <1>4 DEF IsFor
<1> HIDE DEF msg
<1>6. [from |-> d.src, data |-> msg] = Delivered(m)
  BY <1>1, <1>4, NameOfFragment DEF Delivered
<1>7. /\ q2 \in Seq(Element)
      /\ Len(q2) = n - 1
      /\ \A j \in 1 .. i - 1 : q2[j] = q[j]
      /\ \A j \in i .. n - 1 : q2[j] = q[j + 1]
  BY <1>1, <1>3, RemoveFacts
<1> HIDE DEF q2
<1>8. DOMAIN q2 = 1 .. n - 1
  BY <1>7, LenProperties
<1> HIDE DEF n
<1>9. ASSUME NEW j \in 1 .. n - 1
      PROVE  /\ f[j] \in DOMAIN q /\ q2[j] = q[f[j]] /\ f[j] # i
             /\ j # 1 => f[j] # 1
  <2>1. CASE j < i
    <3>1. f[j] = j /\ j \in 1 .. i - 1 /\ j \in 1 .. n /\ j # i
      BY <1>1, <1>3, <2>1
    <3> HIDE DEF f
    <3> QED
      BY <1>1, <1>7, <3>1
  <2>2. CASE ~ (j < i)
    <3>1. /\ f[j] = j + 1 /\ j \in i .. n - 1 /\ j + 1 \in 1 .. n /\ j + 1 # i
          /\ j + 1 # 1
      BY <1>1, <1>3, <2>2
    <3> HIDE DEF f
    <3> QED
      BY <1>1, <1>7, <3>1
  <2> QED
    BY <2>1, <2>2
<1>10. \A j, l \in 1 .. n - 1 : f[j] = f[l] => j = l
  BY <1>1, <1>3
<1>11. ASSUME NEW l \in DOMAIN q, l # i
       PROVE  \E j \in 1 .. n - 1 : q2[j] = q[l]
  <2>1. CASE l < i
    <3>1. l \in 1 .. i - 1 /\ l \in 1 .. n - 1
      BY <1>1, <1>3, <2>1
    <3> QED
      BY <1>7, <3>1
  <2>2. CASE l > i
    <3>1. l - 1 \in i .. n - 1 /\ l - 1 \in 1 .. n - 1 /\ l - 1 + 1 = l
      BY <1>1, <1>3, <2>2
    <3>2. q2[l - 1] = q[l]
      BY <1>7, <3>1
    <3> QED
      BY <3>1, <3>2
  <2>3. l \in Nat
    BY <1>1
  <2> QED
    BY <1>3, <1>11, <2>1, <2>2, <2>3
<1>12. Moved(q, q2, f, 0)
  <2>1. (1 .. n - 1) \ {0} = 1 .. n - 1
    OBVIOUS
  <2>2. f \in [1 .. n - 1 -> DOMAIN q]
    <3>1. DOMAIN f = 1 .. n - 1 /\ f = [j \in 1 .. n - 1 |-> f[j]]
      OBVIOUS
    <3> HIDE DEF f
    <3> QED
      BY <1>9, <3>1
  <2> HIDE DEF f
  <2> QED
    BY <1>8, <1>9, <1>10, <2>1, <2>2 DEF Moved
<1> HIDE DEF f
<1>13. Arrives(q, q2, f, 0, m, B)
  BY <1>8 DEF Arrives
<1>14. Queue(q2, S, B)
  BY <1>1, <1>7, <1>12, <1>13, QueueStep
<1>15. Whole(ds, q2, S, B)
  BY <1>12, <1>13, WholeStep DEF NodeInv
<1>16. Whole(ds2, q2, S, B) /\ Range(ds2) = Range(ds) \cup {Delivered(m)}
  <2>1. ASSUME NEW j \in DOMAIN q2
        PROVE  Range(q2[j].frags) \cap Fragments(m) = {}
    <3>1. f[j] \in DOMAIN q /\ q2[j] = q[f[j]] /\ f[j] # i
      BY <1>8, <1>9
    <3>2. Range(q[f[j]].frags) \cap Range(q[i].frags) = {}
      BY <1>1, <1>2, <3>1 DEF Queue
    <3>3. Range(q[f[j]].frags) \subseteq A
      BY <1>1, <3>1 DEF Queue, IsFor
    <3> QED
      BY <1>5, <3>1, <3>2, <3>3
  <2>2. Fragments(m) \subseteq B
    BY <1>5
  <2>3. S \subseteq Message
    BY <1>1
  <2>4. NoneIn(q2, m)
    BY <2>1 DEF NoneIn
  <2> HIDE DEF B, ds2
  <2>5. /\ Whole(Append(ds, Delivered(m)), q2, S, B)
        /\ Range(Append(ds, Delivered(m))) = Range(ds) \cup {Delivered(m)}
    BY <1>15, <2>2, <2>3, <2>4, WholeAppend
  <2> QED
    BY <2>5 DEF ds2
<1> HIDE DEF ds2
<1>17. Placed(ds2, q2, S, B, E)
  <2>1. ASSUME NEW j \in DOMAIN q, NEW k \in S, IsFor(q[j], k, A)
        PROVE  \/ Delivered(k) \in Range(ds2)
               \/ \E l \in DOMAIN q2 :
                    Range(q[j].frags) \subseteq Range(q2[l].frags)
    <3>1. CASE j = i
      <4>1. PICK e \in Range(q[i].frags) : e \in Fragments(m)
        BY <1>1, <1>2, IsForFacts
      <4>2. k = m
        <5>1. e \in Fragments(k)
          BY <1>1, <2>1, <3>1, <4>1, IsForFacts
        <5> QED
          BY <4>1, <5>1, SameMessage
      <4> QED
        BY <1>16, <4>2
    <3>2. CASE j # i
      BY <1>8, <1>11, <3>2
    <3> QED
      BY <3>1, <3>2
  <2>2. Delivered(m) \in Range(ds2) /\ Range(ds) \subseteq Range(ds2)
    BY <1>16
  <2>3. Placed(ds, q, S, A, E)
    BY DEF NodeInv
  <2> QED
    BY <1>1, <2>1, <2>2, <2>3, PlacedStep
<1>18. Accounts(g, q2)
  <2>1. Alike(q2, 0, q, 0, i - 1)
    <3>1. \A j \in 1 .. i - 1 : q2[j].needed = q[j].needed /\ 0 + j = j
      BY <1>7
    <3> QED
      BY <3>1 DEF Alike
  <2>2. Alike(q2, i - 1, q, i, n - i)
    <3>1. ASSUME NEW j \in 1 .. n - i
          PROVE  q2[i - 1 + j] = q[i + j]
      <4>1. i - 1 + j \in i .. n - 1 /\ i - 1 + j + 1 = i + j
        BY <1>1, <1>3
      <4> QED
        BY <1>7, <4>1
    <3> QED
      BY <3>1 DEF Alike
  <2>3. /\ 0 \in Nat /\ i - 1 \in Nat /\ n - i \in Nat
        /\ 0 + (i - 1) <= Len(q2) /\ 0 + (i - 1) <= Len(q)
        /\ i - 1 + (n - i) <= Len(q2) /\ i + (n - i) <= Len(q)
        /\ i - 1 = 0 + (i - 1) /\ n - 1 = i - 1 + (n - i) /\ n = i + (n - i)
    BY <1>1, <1>3, <1>7 DEF n
  <2>4. Released(q2, i - 1) - Released(q2, 0) = Released(q, i - 1) - Released(q, 0)
    <3>1. \A c, e : c = 0 + (i - 1) /\ e = 0 + (i - 1) =>
            Released(q2, c) - Released(q2, 0) = Released(q, e) - Released(q, 0)
      BY <1>1, <1>7, <2>1, <2>3, SameBytes
    <3> QED
      BY <2>3, <3>1
  <2>5. Released(q2, n - 1) - Released(q2, i - 1) = Released(q, n) - Released(q, i)
    <3>1. \A c, e : c = i - 1 + (n - i) /\ e = i + (n - i) =>
            Released(q2, c) - Released(q2, i - 1) = Released(q, e) - Released(q, i)
      BY <1>1, <1>3, <1>7, <2>2, <2>3, SameBytes
    <3> QED
      BY <2>3, <3>1
  <2>6. Released(q, i) = Released(q, i - 1) + Bytes(q[i].needed)
    BY <1>1, <1>3, ReleasedStep DEF n
  <2>7. /\ Released(q2, 0) = 0 /\ Released(q, 0) = 0
        /\ Released(q2, i - 1) \in Nat /\ Released(q2, n - 1) \in Nat
        /\ Released(q, i - 1) \in Nat /\ Released(q, n) \in Nat
        /\ Released(q, i) \in Nat
    <3>1. /\ i - 1 \in 0 .. Len(q2) /\ n - 1 \in 0 .. Len(q2)
          /\ i - 1 \in 0 .. Len(q) /\ n \in 0 .. Len(q) /\ i \in 0 .. Len(q)
      BY <1>1, <1>3, <1>7 DEF n
    <3> QED
      BY <1>1, <1>7, <3>1, ReleasedStep
  <2>8. Bytes(q[i].needed) \in Nat
    BY <1>2, BytesFacts
  <2>9. free \in Nat /\ free + Released(q, n) = TRANSPORT_BUFF_SIZE - QueueBytes
    BY DEF NodeInv, Accounts, n
  <2>10. Released(q2, i - 1) = Released(q, i - 1)
    BY <2>4, <2>7
  <2>11. Released(q, n) = Released(q2, n - 1) + Bytes(q[i].needed)
    <3>1. Released(q2, n - 1) - Released(q, i - 1)
            = Released(q, n) - (Released(q, i - 1) + Bytes(q[i].needed))
      BY <2>5, <2>6, <2>10
    <3> QED
      BY <2>7, <2>8, <3>1
  <2>12. g \in Nat
    BY <2>8, <2>9
  <2>13. g + Released(q2, n - 1) = TRANSPORT_BUFF_SIZE - QueueBytes
    BY <2>7, <2>8, <2>9, <2>11
  <2> QED
    BY <1>7, <2>12, <2>13 DEF Accounts
<1>19. NodeInv(q2, ds2, g, S, B, E)
  BY <1>14, <1>16, <1>17, <1>18 DEF NodeInv
<1> QED
  BY <1>6, <1>19 DEF q2, ds2, frags, msg

-----------------------------------------------------------------------------
(* The inductive invariant *)

SentTo(n) == {m \in sent : m.dest = n}

Packets == UNION {{[to |-> m.dest, dat |-> d] : d \in Fragments(m)} : m \in sent}

IInv ==
  /\ msg_num_counter \in [Node -> 0 .. MaxMessages]
  /\ free_bytes \in [Node -> Nat]
  /\ buff \in [Node -> Seq(Element)]
  /\ delivered \in [Node -> Seq(Delivery)]
  /\ Distinct(sent)
  /\ \A m \in sent : m.num <= msg_num_counter[m.src]
  /\ network \subseteq Packets
  /\ \A p \in network : p.dat \notin arrived
  /\ arrived \subseteq Datagram
  /\ \A n \in Node : NodeInv(buff[n], delivered[n], free_bytes[n],
                             SentTo(n), arrived, evicted)

LEMMA InitInv == Init => IInv
<1> SUFFICES ASSUME Init PROVE IInv
  OBVIOUS
<1> USE DEF Init
<1>1. TRANSPORT_BUFF_SIZE - QueueBytes \in Nat
  <2>1. QueueBytes <= TRANSPORT_BUFF_SIZE
    BY TransportAssumption
  <2> QED
    BY <2>1, ConstantTypes
<1>2. msg_num_counter \in [Node -> 0 .. MaxMessages]
  BY ConstantTypes
<1>3. /\ free_bytes \in [Node -> Nat]
      /\ buff \in [Node -> Seq(Element)]
      /\ delivered \in [Node -> Seq(Delivery)]
  BY <1>1
<1>4. Distinct(sent) /\ \A m \in sent : m.num <= msg_num_counter[m.src]
  BY DEF Distinct
<1>5. /\ network \subseteq Packets
      /\ \A p \in network : p.dat \notin arrived
      /\ arrived \subseteq Datagram
  OBVIOUS
<1>6. ASSUME NEW n \in Node
      PROVE  NodeInv(buff[n], delivered[n], free_bytes[n], SentTo(n),
                     arrived, evicted)
  <2>1. /\ buff[n] = <<>> /\ delivered[n] = <<>> /\ SentTo(n) = {}
        /\ free_bytes[n] = TRANSPORT_BUFF_SIZE - QueueBytes
    BY DEF SentTo
  <2>2. Queue(<<>>, {}, arrived)
    BY DEF Queue
  <2>3. Whole(<<>>, <<>>, {}, arrived)
    BY DEF Whole, Range
  <2>4. Placed(<<>>, <<>>, {}, arrived, evicted)
    BY DEF Placed
  <2>5. Accounts(TRANSPORT_BUFF_SIZE - QueueBytes, <<>>)
    <3>1. <<>> \in Seq(Element) /\ Len(<<>>) = 0
      OBVIOUS
    <3>2. Released(<<>>, 0) = 0
      BY <3>1, ReleasedStep
    <3>3. TRANSPORT_BUFF_SIZE - QueueBytes + 0 = TRANSPORT_BUFF_SIZE - QueueBytes
      BY <1>1
    <3> QED
      BY <1>1, <3>1, <3>2, <3>3 DEF Accounts
  <2> QED
    BY <2>1, <2>2, <2>3, <2>4, <2>5 DEF NodeInv
<1> QED
  BY <1>2, <1>3, <1>4, <1>5, <1>6 DEF IInv

LEMMA NewMessageFacts ==
  ASSUME IInv, NEW t \in Traffic, msg_num_counter[t[1]] < MaxMessages
  PROVE  LET m == NewMessage(t) IN
         /\ m \in Message /\ m.src = t[1] /\ m.dest = t[2] /\ m.len = t[3]
         /\ m.num = msg_num_counter[t[1]] + 1
         /\ \A k \in sent : Name(k) # Name(m)
         /\ Fragments(m) \cap arrived = {}
<1> DEFINE m == NewMessage(t)
<1>1. /\ t[1] \in Node /\ t[2] \in Node /\ t[3] \in Nat \ {0}
      /\ t = <<t[1], t[2], t[3]>>
  BY TransportAssumption
<1>2. msg_num_counter[t[1]] \in Nat /\ MaxMessages \in Nat
  BY <1>1, ConstantTypes DEF IInv
<1>3. /\ m.src = t[1] /\ m.dest = t[2] /\ m.len = t[3]
      /\ m.num = msg_num_counter[t[1]] + 1
      /\ m \in [src : Node, num : Nat \ {0}, dest : Node, len : Nat \ {0}]
  BY <1>1, <1>2 DEF NewMessage
<1> HIDE DEF m
<1>4. m \in Message
  BY <1>1, <1>2, <1>3 DEF Message
<1>5. ASSUME NEW k \in sent
      PROVE  Name(k) # Name(m)
  <2>1. k \in Message /\ k.num <= msg_num_counter[k.src]
    BY DEF IInv, Distinct
  <2>2. k.num \in Nat
    BY <2>1, MessageFacts
  <2>3. SUFFICES ASSUME k.src = m.src /\ k.num = m.num PROVE FALSE
    BY DEF Name
  <2> QED
    BY <1>2, <1>3, <2>1, <2>2, <2>3
<1>6. ASSUME NEW d \in Fragments(m), d \in arrived
      PROVE  FALSE
  <2>1. PICK k \in sent : d \in Fragments(k)
    BY <1>6 DEF IInv, Datagram
  <2>2. k \in Message
    BY DEF IInv, Distinct
  <2>3. Name(k) = Name(d) /\ Name(m) = Name(d)
    BY <1>4, <2>1, <2>2, NameOfFragment
  <2> QED
    BY <1>5, <2>3
<1> QED
  BY <1>3, <1>4, <1>5, <1>6 DEF m

LEMMA SendStep ==
  ASSUME IInv, NEW t \in Traffic, TransportDatagram(t[1], t)
  PROVE  IInv'
<1> DEFINE m == NewMessage(t)
           new == {[to |-> m.dest, dat |-> d] : d \in Fragments(m)}
<1>1. /\ msg_num_counter[t[1]] < MaxMessages
      /\ msg_num_counter' = [msg_num_counter EXCEPT ![t[1]] = @ + 1]
      /\ network' = network \cup new
      /\ sent' = sent \cup {m}
      /\ UNCHANGED <<free_bytes, buff, arrived, evicted, delivered>>
  BY DEF TransportDatagram, Cut
<1>2. /\ m \in Message /\ m.src = t[1] /\ m.dest = t[2] /\ m.len = t[3]
      /\ m.num = msg_num_counter[t[1]] + 1
      /\ \A k \in sent : Name(k) # Name(m)
      /\ Fragments(m) \cap arrived = {}
  BY <1>1, NewMessageFacts
<1>3. t[1] \in Node /\ MaxMessages \in Nat
      /\ msg_num_counter \in [Node -> 0 .. MaxMessages]
  BY <1>2, MessageFacts, ConstantTypes DEF IInv
<1> HIDE DEF m
<1>4. msg_num_counter' \in [Node -> 0 .. MaxMessages]
  <2>1. msg_num_counter[t[1]] + 1 \in 0 .. MaxMessages
    BY <1>1, <1>3
  <2> QED
    BY <1>1, <1>3, <2>1
<1>5. Distinct(sent')
  BY <1>1, <1>2 DEF IInv, Distinct
<1>6. ASSUME NEW k \in sent'
      PROVE  k.num <= msg_num_counter'[k.src]
  <2>1. /\ \A n \in Node : msg_num_counter[n] \in Nat
        /\ \A n \in Node : n # t[1] => msg_num_counter'[n] = msg_num_counter[n]
        /\ msg_num_counter'[t[1]] = msg_num_counter[t[1]] + 1
    BY <1>1, <1>3
  <2>2. k \in Message
    BY <1>5 DEF Distinct
  <2>3. k.src \in Node /\ k.num \in Nat
    BY <2>2, MessageFacts
  <2>4. CASE k = m
    BY <1>2, <2>1, <2>3, <2>4
  <2>5. CASE k \in sent
    <3>1. k.num <= msg_num_counter[k.src]
      BY <2>5 DEF IInv
    <3> QED
      BY <2>1, <2>3, <3>1
  <2> QED
    BY <1>1, <2>4, <2>5
<1>7. network' \subseteq Packets'
  BY <1>1 DEF IInv, Packets
<1>8. ASSUME NEW p \in network'
      PROVE  p.dat \notin arrived'
  <2>1. CASE p \in new
    <3>1. p.dat \in Fragments(m)
      BY <2>1
    <3> QED
      BY <1>1, <1>2, <3>1
  <2>2. CASE p \in network
    BY <1>1, <2>2 DEF IInv
  <2> QED
    BY <1>1, <2>1, <2>2
<1>9. arrived' \subseteq Datagram'
  BY <1>1 DEF IInv, Datagram
<1>10. ASSUME NEW n \in Node
       PROVE  NodeInv(buff[n], delivered[n], free_bytes[n], SentTo(n)',
                      arrived, evicted)
  <2> DEFINE S == SentTo(n)
             T == SentTo(n)'
  <2>1. S \subseteq T /\ T \ S \subseteq {m}
    BY <1>1 DEF SentTo
  <2>2. NodeInv(buff[n], delivered[n], free_bytes[n], S, arrived, evicted)
    BY DEF IInv
  <2>3. \A k \in T \ S : Fragments(k) \cap arrived = {}
    BY <1>2, <2>1
  <2> HIDE DEF S, T
  <2>4. NodeInv(buff[n], delivered[n], free_bytes[n], T, arrived, evicted)
    BY <2>1, <2>2, <2>3, NodeSend
  <2> QED
    BY <2>4 DEF T
<1>11. \A n \in Node : NodeInv(buff[n], delivered[n], free_bytes[n], SentTo(n),
                               arrived, evicted)'
  BY <1>1, <1>10
<1>12. /\ free_bytes' \in [Node -> Nat]
       /\ buff' \in [Node -> Seq(Element)]
       /\ delivered' \in [Node -> Seq(Delivery)]
  BY <1>1 DEF IInv
<1> QED
  BY <1>4, <1>5, <1>6, <1>7, <1>8, <1>9, <1>11, <1>12 DEF IInv

LEMMA LoseStep ==
  ASSUME IInv, NEW p \in network, Lose(p)
  PROVE  IInv'
<1>1. /\ network' \subseteq network
      /\ UNCHANGED <<msg_num_counter, free_bytes, buff, sent, arrived,
                     evicted, delivered>>
  BY DEF Lose, history
<1>2. network' \subseteq Packets' /\ arrived' \subseteq Datagram'
      /\ \A q \in network' : q.dat \notin arrived'
  BY <1>1 DEF IInv, Packets, Datagram
<1>3. ASSUME NEW n \in Node
      PROVE  NodeInv(buff[n], delivered[n], free_bytes[n], SentTo(n),
                     arrived, evicted)'
  <2>1. SentTo(n)' = SentTo(n)
    BY <1>1 DEF SentTo
  <2>2. NodeInv(buff[n], delivered[n], free_bytes[n], SentTo(n), arrived, evicted)
    BY DEF IInv
  <2> QED
    BY <1>1, <2>1, <2>2
<1> QED
  BY <1>1, <1>2, <1>3 DEF IInv

(* What a datagram on its way is. *)
LEMMA PacketFacts ==
  ASSUME IInv, NEW p \in network
  PROVE  \E m \in sent :
           /\ m \in Message
           /\ m \in SentTo(m.dest) /\ Distinct(SentTo(m.dest))
           /\ p.to = m.dest /\ m.dest \in Node
           /\ p.dat \in Fragments(m)
           /\ p.dat \notin arrived
           /\ p = [to |-> m.dest, dat |-> p.dat]
           /\ p.dat.count = FragCount(m.len) /\ p.dat.count \in Nat \ {0}
           /\ \A k \in sent : p.dat \in Fragments(k) => k = m
<1>1. PICK m \in sent : \E d \in Fragments(m) : p = [to |-> m.dest, dat |-> d]
  BY DEF IInv, Packets
<1>2. p.to = m.dest /\ p.dat \in Fragments(m)
      /\ p = [to |-> m.dest, dat |-> p.dat]
  BY <1>1
<1>3. m \in Message /\ Distinct(sent) /\ p.dat \notin arrived
  BY DEF IInv, Distinct
<1>4. m.dest \in Node
  BY <1>3, MessageFacts
<1>5. p.dat.count = FragCount(m.len) /\ p.dat.count \in Nat \ {0}
  BY <1>2, <1>3, NameOfFragment
<1>6. \A k \in sent : p.dat \in Fragments(k) => k = m
  BY <1>2, <1>3, SameMessage
<1>7. m \in SentTo(m.dest) /\ Distinct(SentTo(m.dest))
  BY <1>3 DEF SentTo, Distinct
<1> QED
  BY <1>2, <1>3, <1>4, <1>5, <1>6, <1>7

LEMMA QueueGetFacts ==
  ASSUME NEW q, NEW key, Candidates(q, key) # {}
  PROVE  QueueGet(q, key) \in Candidates(q, key)
<1> DEFINE c == Candidates(q, key)
<1>1. c \in SUBSET Nat /\ c # {}
  BY DEF Candidates
<1>2. \E i \in c : \A j \in c : i <= j
  <2> HIDE DEF c
  <2> QED
    BY <1>1, LeastOf
<1> QED
  BY <1>2 DEF QueueGet

(* What a node does with a datagram changes the node's part of the state. *)
Local(n, d) ==
  /\ \E q, ds, free :
       /\ buff' = [buff EXCEPT ![n] = q]
       /\ delivered' = [delivered EXCEPT ![n] = ds]
       /\ free_bytes' = [free_bytes EXCEPT ![n] = free]
       /\ NodeInv(q, ds, free, SentTo(n), arrived \cup {d}, evicted')
  /\ evicted \subseteq evicted'

LEMMA PassUpStep ==
  ASSUME IInv, NEW p \in network, p.dat.count = 1, PassUp(p.to, p.dat)
  PROVE  Local(p.to, p.dat)
<1> DEFINE n == p.to
           d == p.dat
           ds == Append(delivered[n], [from |-> d.src, data |-> d.data])
<1>1. PICK m \in SentTo(n) :
        n \in Node /\ Distinct(SentTo(n)) /\ d \in Fragments(m) /\ d \notin arrived
  BY PacketFacts
<1>2. NodeInv(buff[n], delivered[n], free_bytes[n], SentTo(n), arrived, evicted)
  BY <1>1 DEF IInv
<1>3. NodeInv(buff[n], ds, free_bytes[n], SentTo(n), arrived \cup {d}, evicted)
  BY <1>1, <1>2, NodePassUp
<1>4. /\ delivered' = [delivered EXCEPT ![n] = ds]
      /\ free_bytes' = [free_bytes EXCEPT ![n] = free_bytes[n]]
      /\ buff' = [buff EXCEPT ![n] = buff[n]]
      /\ evicted' = evicted
  BY <1>1 DEF PassUp, IInv
<1> HIDE DEF ds, n, d
<1>5. Local(n, d)
  BY <1>3, <1>4 DEF Local
<1> QED
  BY <1>5 DEF n, d

LEMMA NewStep ==
  ASSUME IInv, NEW p \in network, p.dat.count # 1, NewElement(p.to, p.dat)
  PROVE  Local(p.to, p.dat)
<1> DEFINE n == p.to
           d == p.dat
           el == [key |-> MakeKey(d.src, d.num), needed |-> d.count,
                  frags |-> <<d>>]
           b == Bytes(d.count)
<1>1. PICK m \in SentTo(n) :
        n \in Node /\ Distinct(SentTo(n)) /\ d \in Fragments(m) /\ d \notin arrived
  BY PacketFacts
<1>2. NodeInv(buff[n], delivered[n], free_bytes[n], SentTo(n), arrived, evicted)
  BY <1>1 DEF IInv
<1>3. PICK k \in Evictions(n, b) :
        /\ free_bytes' = [free_bytes EXCEPT
                            ![n] = @ - b + Released(buff[n], k)]
        /\ buff' = [buff EXCEPT
                      ![n] = Append(SubSeq(@, k + 1, Len(@)), el)]
        /\ evicted' = evicted \cup
                        {Name(buff[n][i].frags[1]) : i \in 1 .. k}
  BY DEF NewElement
<1> DEFINE q == Append(SubSeq(buff[n], k + 1, Len(buff[n])), el)
           free == free_bytes[n] - b + Released(buff[n], k)
<1>4. /\ Candidates(buff[n], MakeKey(d.src, d.num)) = {}
      /\ delivered' = delivered
  BY DEF NewElement
<1>5. /\ k \in 0 .. Len(buff[n])
      /\ free_bytes[n] - b + Released(buff[n], k) >= b
  BY <1>3 DEF Evictions, Enough
<1>6. NodeInv(q, delivered[n], free, SentTo(n), arrived \cup {d}, evicted')
  <2>1. d.count # 1
    OBVIOUS
  <2>2. Noted(buff[n], k, evicted') /\ evicted \subseteq evicted'
    BY <1>3 DEF Noted
  <2> HIDE DEF n, d
  <2> QED
    BY <1>1, <1>2, <1>4, <1>5, <2>1, <2>2, NodeNew
<1>7. /\ delivered' = [delivered EXCEPT ![n] = delivered[n]]
      /\ free_bytes' = [free_bytes EXCEPT ![n] = free]
      /\ buff' = [buff EXCEPT ![n] = q]
      /\ evicted \subseteq evicted'
  <2>1. /\ delivered \in [Node -> Seq(Delivery)]
        /\ free_bytes \in [Node -> Nat]
        /\ buff \in [Node -> Seq(Element)]
    BY DEF IInv
  <2> HIDE DEF b, el, n
  <2> QED
    BY <1>1, <1>3, <1>4, <2>1 DEF n
<1> HIDE DEF q, free, n, d
<1>8. Local(n, d)
  BY <1>6, <1>7 DEF Local
<1> QED
  BY <1>8 DEF n, d

LEMMA StoreStep ==
  ASSUME IInv, NEW p \in network,
         NEW i \in Candidates(buff[p.to], MakeKey(p.dat.src, p.dat.num)),
         StoreAt(p.to, p.dat, i)
  PROVE  Local(p.to, p.dat)
<1> DEFINE n == p.to
           d == p.dat
           q == [buff[n] EXCEPT ![i].frags = Append(@, d)]
<1>1. PICK m \in SentTo(n) :
        n \in Node /\ Distinct(SentTo(n)) /\ d \in Fragments(m) /\ d \notin arrived
  BY PacketFacts
<1>2. NodeInv(buff[n], delivered[n], free_bytes[n], SentTo(n), arrived, evicted)
  BY <1>1 DEF IInv
<1>3. /\ Len(buff[n][i].frags) + 1 < buff[n][i].needed
      /\ buff' = [buff EXCEPT ![n][i].frags = Append(@, d)]
      /\ UNCHANGED <<free_bytes, evicted, delivered>>
  BY DEF StoreAt
<1>4. NodeInv(q, delivered[n], free_bytes[n], SentTo(n), arrived \cup {d}, evicted)
  BY <1>1, <1>2, <1>3, NodeStore
<1>5. /\ delivered' = [delivered EXCEPT ![n] = delivered[n]]
      /\ free_bytes' = [free_bytes EXCEPT ![n] = free_bytes[n]]
      /\ buff' = [buff EXCEPT ![n] = q]
      /\ evicted' = evicted
  BY <1>1, <1>3 DEF IInv
<1> HIDE DEF q, n, d
<1>6. Local(n, d)
  BY <1>4, <1>5 DEF Local
<1> QED
  BY <1>6 DEF n, d

LEMMA CompleteStep ==
  ASSUME IInv, NEW p \in network,
         NEW i \in Candidates(buff[p.to], MakeKey(p.dat.src, p.dat.num)),
         CompleteAt(p.to, p.dat, i)
  PROVE  Local(p.to, p.dat)
<1> DEFINE n == p.to
           d == p.dat
           msg == Built(Sorted(Append(buff[n][i].frags, d)))
           q == RemoveAt(buff[n], i)
           ds == Append(delivered[n], [from |-> d.src, data |-> msg])
           free == free_bytes[n] + Bytes(buff[n][i].needed)
<1>1. PICK m \in SentTo(n) :
        n \in Node /\ Distinct(SentTo(n)) /\ d \in Fragments(m) /\ d \notin arrived
  BY PacketFacts
<1>2. NodeInv(buff[n], delivered[n], free_bytes[n], SentTo(n), arrived, evicted)
  BY <1>1 DEF IInv
<1>3. /\ Len(buff[n][i].frags) + 1 = buff[n][i].needed
      /\ buff' = [buff EXCEPT ![n] = RemoveAt(@, i)]
      /\ free_bytes' = [free_bytes EXCEPT ![n] = @ + Bytes(buff[n][i].needed)]
      /\ delivered' = [delivered EXCEPT
                         ![n] = Append(@, [from |-> d.src, data |-> msg])]
      /\ evicted' = evicted
  BY DEF CompleteAt
<1>4. NodeInv(q, ds, free, SentTo(n), arrived \cup {d}, evicted)
  <2>1. i \in Candidates(buff[n], MakeKey(d.src, d.num))
        /\ Len(buff[n][i].frags) + 1 = buff[n][i].needed
    BY <1>3
  <2> HIDE DEF n, d
  <2> QED
    BY <1>1, <1>2, <2>1, NodeComplete
<1>5. /\ delivered' = [delivered EXCEPT ![n] = ds]
      /\ free_bytes' = [free_bytes EXCEPT ![n] = free]
      /\ buff' = [buff EXCEPT ![n] = q]
  <2>1. /\ delivered \in [Node -> Seq(Delivery)]
        /\ free_bytes \in [Node -> Nat]
        /\ buff \in [Node -> Seq(Element)]
    BY DEF IInv
  <2> HIDE DEF msg, n
  <2> QED
    BY <1>1, <1>3, <2>1 DEF n
<1> HIDE DEF q, ds, free, n, d
<1>6. Local(n, d)
  BY <1>3, <1>4, <1>5 DEF Local
<1> QED
  BY <1>6 DEF n, d

LEMMA RecvIsLocal ==
  ASSUME IInv, NEW p \in network, TransportRecv(p.to, p)
  PROVE  Local(p.to, p.dat)
<1> DEFINE n == p.to
           d == p.dat
           key == MakeKey(d.src, d.num)
           c == Candidates(buff[n], key)
           i == QueueGet(buff[n], key)
<1>1. \/ d.count = 1 /\ PassUp(n, d)
      \/ d.count # 1 /\ NewElement(n, d)
      \/ d.count # 1 /\ c # {} /\ StoreAt(n, d, i)
      \/ d.count # 1 /\ c # {} /\ CompleteAt(n, d, i)
  BY DEF TransportRecv, Collect
<1>2. c # {} => i \in c
  BY QueueGetFacts
<1> HIDE DEF i
<1>3. CASE d.count = 1 /\ PassUp(n, d)
  BY <1>3, PassUpStep
<1>4. CASE d.count # 1 /\ NewElement(n, d)
  BY <1>4, NewStep
<1>5. CASE c # {} /\ StoreAt(n, d, i)
  BY <1>2, <1>5, StoreStep
<1>6. CASE c # {} /\ CompleteAt(n, d, i)
  BY <1>2, <1>6, CompleteStep
<1> QED
  BY <1>1, <1>3, <1>4, <1>5, <1>6

LEMMA RecvStep ==
  ASSUME IInv, NEW p \in network, TransportRecv(p.to, p)
  PROVE  IInv'
<1> DEFINE n == p.to
           d == p.dat
<1>1. PICK m \in sent :
        /\ m \in Message
        /\ m \in SentTo(n) /\ Distinct(SentTo(n))
        /\ n = m.dest /\ n \in Node
        /\ d \in Fragments(m) /\ d \notin arrived
        /\ p = [to |-> m.dest, dat |-> d]
        /\ \A k \in sent : d \in Fragments(k) => k = m
  BY PacketFacts
<1>2. /\ network' = network \ {p}
      /\ arrived' = arrived \cup {d}
      /\ UNCHANGED <<msg_num_counter, sent>>
  BY DEF TransportRecv, Collect
<1>3. Local(n, d)
  BY RecvIsLocal
<1> HIDE DEF n, d
<1>4. PICK q, ds, free :
        /\ buff' = [buff EXCEPT ![n] = q]
        /\ delivered' = [delivered EXCEPT ![n] = ds]
        /\ free_bytes' = [free_bytes EXCEPT ![n] = free]
        /\ NodeInv(q, ds, free, SentTo(n), arrived', evicted')
  BY <1>2, <1>3 DEF Local
<1>5. evicted \subseteq evicted'
  BY <1>3 DEF Local
<1>6. q \in Seq(Element) /\ ds \in Seq(Delivery) /\ free \in Nat
  BY <1>4 DEF NodeInv, Queue, Whole, Accounts
<1>7. /\ buff \in [Node -> Seq(Element)]
      /\ delivered \in [Node -> Seq(Delivery)]
      /\ free_bytes \in [Node -> Nat]
  BY DEF IInv
<1>8. /\ buff' \in [Node -> Seq(Element)]
      /\ delivered' \in [Node -> Seq(Delivery)]
      /\ free_bytes' \in [Node -> Nat]
      /\ buff'[n] = q /\ delivered'[n] = ds /\ free_bytes'[n] = free
      /\ \A l \in Node : l # n => /\ buff'[l] = buff[l]
                                  /\ delivered'[l] = delivered[l]
                                  /\ free_bytes'[l] = free_bytes[l]
  BY <1>1, <1>4, <1>6, <1>7
<1>9. ASSUME NEW l \in Node
      PROVE  NodeInv(buff'[l], delivered'[l], free_bytes'[l], SentTo(l),
                     arrived', evicted')
  <2>1. CASE l = n
    BY <1>4, <1>8, <2>1
  <2>2. CASE l # n
    <3>1. NodeInv(buff[l], delivered[l], free_bytes[l], SentTo(l),
                  arrived, evicted)
      BY DEF IInv
    <3>2. \A k \in SentTo(l) : Fragments(k) \cap arrived' \subseteq arrived
      <4>1. ASSUME NEW k \in SentTo(l)
            PROVE  d \notin Fragments(k)
        BY <1>1, <2>2 DEF SentTo
      <4> QED
        BY <1>2, <4>1
    <3>3. arrived \subseteq arrived'
      BY <1>2
    <3>4. NodeInv(buff[l], delivered[l], free_bytes[l], SentTo(l),
                  arrived', evicted')
      BY <1>5, <3>1, <3>2, <3>3, NodeOther
    <3> QED
      BY <1>8, <2>2, <3>4
  <2> QED
    BY <2>1, <2>2
<1>10. \A l \in Node : NodeInv(buff[l], delivered[l], free_bytes[l], SentTo(l),
                               arrived, evicted)'
  <2>1. \A l \in Node : SentTo(l)' = SentTo(l)
    BY <1>2 DEF SentTo
  <2> QED
    BY <1>9, <2>1
<1>11. network' \subseteq Packets'
  BY <1>2 DEF IInv, Packets
<1>12. ASSUME NEW o \in network'
       PROVE  o.dat \notin arrived'
  <2>1. o \in network /\ o # p
    BY <1>2
  <2>2. PICK k \in sent : o = [to |-> k.dest, dat |-> o.dat]
                          /\ o.dat \in Fragments(k) /\ o.dat \notin arrived
    BY <2>1, PacketFacts
  <2>3. o.dat # d
    BY <1>1, <2>1, <2>2
  <2> QED
    BY <1>2, <2>2, <2>3
<1>13. arrived' \subseteq Datagram'
  BY <1>1, <1>2 DEF IInv, Datagram
<1>14. /\ msg_num_counter' \in [Node -> 0 .. MaxMessages]
       /\ Distinct(sent')
       /\ \A k \in sent' : k.num <= msg_num_counter'[k.src]
  BY <1>2 DEF IInv
<1> QED
  BY <1>8, <1>10, <1>11, <1>12, <1>13, <1>14 DEF IInv

LEMMA StepKeepsInv == IInv /\ [Next]_vars => IInv'
<1> SUFFICES ASSUME IInv, [Next]_vars PROVE IInv'
  OBVIOUS
<1>1. CASE UNCHANGED vars
  <2>1. UNCHANGED <<msg_num_counter, free_bytes, buff, network, sent, arrived,
                    evicted, delivered>>
    BY <1>1 DEF vars, history
  <2>2. \A n \in Node : SentTo(n)' = SentTo(n)
    BY <2>1 DEF SentTo
  <2>3. \A n \in Node : NodeInv(buff[n], delivered[n], free_bytes[n], SentTo(n),
                                arrived, evicted)'
    BY <2>1, <2>2 DEF IInv
  <2> QED
    BY <2>1, <2>3 DEF IInv, Packets, Datagram
<1>2. CASE Next
  <2>1. CASE \E t \in Traffic : TransportDatagram(t[1], t)
    BY <2>1, SendStep
  <2>2. CASE \E p \in network : Lose(p)
    BY <2>2, LoseStep
  <2>3. CASE \E p \in network : TransportRecv(p.to, p)
    BY <2>3, RecvStep
  <2> QED
    BY <1>2, <2>1, <2>2, <2>3 DEF Next
<1> QED
  BY <1>1, <1>2

(* The inductive invariant of the transport layer: a datagram on its way   *)
(* is a fragment that has not arrived; every element of buff is for one    *)
(* message and holds different fragments of it, and no fragment is in two  *)
(* elements; a fragment that arrived is in buff, delivered or evicted; the *)
(* free bytes and those of the elements add up.                            *)
THEOREM InvariantHolds == Spec => []IInv
<1>1. Init => IInv
  BY InitInv
<1>2. IInv /\ [Next]_vars => IInv'
  BY StepKeepsInv
<1> QED
  BY <1>1, <1>2, PTL DEF Spec

-----------------------------------------------------------------------------
(* Types *)

LEMMA ElementTypes ==
  ASSUME IInv, NEW n \in Node, NEW i \in DOMAIN buff[n]
  PROVE  IsElement(buff[n][i])
<1> DEFINE el == buff[n][i]
<1>1. PICK m \in SentTo(n) : IsFor(el, m, arrived)
  BY DEF IInv, NodeInv, Queue
<1>2. m \in Message
  BY DEF IInv, Distinct, SentTo
<1>3. /\ el.key = MakeKey(m.src, m.num) /\ el.needed = FragCount(m.len)
      /\ Len(el.frags) \in 1 .. el.needed - 1
      /\ Range(el.frags) \subseteq arrived
  BY <1>1, Zenon DEF IsFor
<1>4. Range(el.frags) \subseteq Fragments(m)
  BY <1>1, <1>2, IsForFacts
<1> HIDE DEF el
<1>5. ASSUME NEW k \in DOMAIN el.frags
      PROVE  /\ el.frags[k] \in arrived
             /\ el.frags[k].count = el.needed
             /\ MakeKey(el.frags[k].src, el.frags[k].num) = el.key
  <2>1. el.frags[k] \in arrived /\ el.frags[k] \in Fragments(m)
    BY <1>3, <1>4 DEF Range
  <2>2. /\ el.frags[k].count = FragCount(m.len)
        /\ el.frags[k].src = m.src /\ el.frags[k].num = m.num
    BY <1>2, <2>1, NameOfFragment
  <2> QED
    BY <1>3, <2>1, <2>2
<1> QED
  BY <1>3, <1>5 DEF IsElement, el

LEMMA TypesHold == IInv => TypeOK
<1> SUFFICES ASSUME IInv PROVE TypeOK
  OBVIOUS
<1>1. ASSUME NEW m \in sent
      PROVE  IsMessage(m)
  <2>1. m \in Message /\ m.num <= msg_num_counter[m.src]
        /\ msg_num_counter \in [Node -> 0 .. MaxMessages]
    BY DEF IInv, Distinct
  <2>2. /\ <<m.src, m.dest, m.len>> \in Traffic
        /\ m.num \in Nat \ {0} /\ m.src \in Node
    BY <2>1, MessageFacts
  <2>3. msg_num_counter[m.src] \in Nat
    BY <2>1, <2>2
  <2> QED
    BY <2>1, <2>2, <2>3 DEF IsMessage
<1>2. ASSUME NEW p \in network
      PROVE  p.to \in Node /\ p.dat \in Datagram
  BY PacketFacts DEF Datagram
<1>3. ASSUME NEW n \in Node
      PROVE  /\ free_bytes[n] + Released(buff[n], Len(buff[n]))
                  = TRANSPORT_BUFF_SIZE - QueueBytes
             /\ free_bytes[n] >= 0
  <2>1. /\ free_bytes[n] + Released(buff[n], Len(buff[n]))
             = TRANSPORT_BUFF_SIZE - QueueBytes
        /\ free_bytes[n] \in Nat
    BY DEF IInv, NodeInv, Accounts
  <2> QED
    BY <2>1
<1>4. {p.dat : p \in network} \cup arrived \subseteq Datagram
  BY <1>2 DEF IInv
<1> QED
  BY <1>1, <1>2, <1>3, <1>4, ElementTypes DEF IInv, TypeOK

(* Types, and the accounts of the buffer: whatever arrives, is evicted or  *)
(* is completed, what is free and what the elements take add up to the     *)
(* size of the buffer (free_bytes, transport.c:67).                        *)
THEOREM TypeCorrect == Spec => []TypeOK
BY InvariantHolds, TypesHold, PTL

-----------------------------------------------------------------------------
(* Eviction *)

LEMMA EvictionIsEnough ==
  ASSUME IInv, NEW p \in network
  PROVE  Evictions(p.to, Bytes(p.dat.count)) # {}
<1> DEFINE n == p.to
           b == Bytes(p.dat.count)
           l == Len(buff[n])
           S == {k \in 0 .. l : Enough(n, k, b)}
<1>1. PICK m \in sent :
        /\ m \in Message /\ n \in Node /\ p.dat.count = FragCount(m.len)
        /\ p.dat.count \in Nat
  BY PacketFacts
<1>2. 2 * b <= TRANSPORT_BUFF_SIZE - QueueBytes
  <2> DEFINE t == <<m.src, m.dest, m.len>>
  <2>1. t \in Traffic /\ t[3] = m.len
    BY <1>1, MessageFacts
  <2>2. 2 * Bytes(FragCount(t[3])) <= TRANSPORT_BUFF_SIZE - QueueBytes
    <3> HIDE DEF t
    <3> QED
      BY <2>1, TransportAssumption
  <2> QED
    BY <1>1, <2>1, <2>2
<1>3. /\ b \in Nat
      /\ free_bytes[n] \in Nat /\ buff[n] \in Seq(Element)
      /\ free_bytes[n] + Released(buff[n], l) = TRANSPORT_BUFF_SIZE - QueueBytes
  BY <1>1, BytesFacts DEF IInv, NodeInv, Accounts
<1>4. l \in Nat /\ Released(buff[n], l) \in Nat
  <2>1. l \in Nat
    BY <1>3, LenProperties
  <2>2. l \in 0 .. Len(buff[n])
    BY <2>1
  <2> QED
    BY <1>3, <2>1, <2>2, ReleasedStep
<1> HIDE DEF n, b, l
<1>5. Enough(n, l, b)
  <2>1. free_bytes[n] - b + Released(buff[n], l) >= b
    BY <1>2, <1>3, <1>4, ConstantTypes
  <2> QED
    BY <2>1 DEF Enough
<1>6. S \in SUBSET Nat /\ S # {}
  BY <1>4, <1>5
<1>7. PICK k \in S : \A j \in S : k <= j
  <2> HIDE DEF S
  <2> QED
    BY <1>6, LeastOf
<1>8. \A j \in 0 .. k - 1 : ~ Enough(n, j, b)
  <2>1. SUFFICES ASSUME NEW j \in 0 .. k - 1, Enough(n, j, b) PROVE FALSE
    OBVIOUS
  <2>2. j \in 0 .. l /\ j < k
    BY <1>4, <1>7
  <2>3. j \in S
    BY <2>1, <2>2
  <2> HIDE DEF S
  <2>4. k \in Nat /\ j \in Nat /\ k <= j
    BY <1>6, <1>7, <2>3
  <2> QED
    BY <2>2, <2>4
<1>9. k \in Evictions(n, b)
  BY <1>7, <1>8 DEF Evictions, l
<1> QED
  BY <1>9 DEF n, b

(* Whatever arrives, the eviction loop of enqueue (transport.c:189-192)    *)
(* ends: half of the buffer is never too small for a message, and what is  *)
(* free and what the elements take add up to the whole.                    *)
THEOREM EvictionEndsHolds == Spec => []EvictionEnds
<1>1. IInv => EvictionEnds
  BY EvictionIsEnough DEF EvictionEnds
<1> QED
  BY <1>1, InvariantHolds, PTL

-----------------------------------------------------------------------------
(* What is stuck *)

(* A sequence in which all fragments of m are is as long as m has them. *)
LEMMA LongEnough ==
  ASSUME NEW m \in Message, NEW s \in Seq(Fragments(m)),
         Fragments(m) \subseteq Range(s)
  PROVE  Len(s) >= FragCount(m.len)
<1> DEFINE c == FragCount(m.len)
           k == Len(s)
           g == [j \in 1 .. c |-> CHOOSE i \in 1 .. k : s[i] = Fragment(m, j - 1)]
<1>1. c \in Nat \ {0} /\ k \in Nat /\ DOMAIN s = 1 .. k
  BY CountFacts, LenProperties DEF Message
<1>2. ASSUME NEW j \in 1 .. c
      PROVE  /\ j - 1 \in 0 .. c - 1
             /\ \E i \in 1 .. k : s[i] = Fragment(m, j - 1)
  <2>1. j - 1 \in 0 .. c - 1
    BY <1>1
  <2>2. Fragment(m, j - 1) \in Range(s)
    BY <2>1 DEF Fragments
  <2> QED
    BY <1>1, <2>1, <2>2 DEF Range
<1>3. \A j \in 1 .. c : g[j] \in 1 .. k /\ s[g[j]] = Fragment(m, j - 1)
  BY <1>2
<1>4. g \in [1 .. c -> 1 .. k]
  <2>1. g = [j \in 1 .. c |-> g[j]]
    OBVIOUS
  <2> HIDE DEF g, c, k
  <2> QED
    BY <1>3, <2>1
<1>5. ASSUME NEW i \in 1 .. c, NEW j \in 1 .. c, g[i] = g[j]
      PROVE  i = j
  <2>1. Fragment(m, i - 1) = Fragment(m, j - 1)
    BY <1>3, <1>5
  <2>2. i - 1 = j - 1
    BY <1>2, <2>1, DistinctFragments
  <2> HIDE DEF c
  <2> QED
    BY <1>1, <2>2
<1> HIDE DEF g, c, k
<1>6. g \in Injection(1 .. c, 1 .. k)
  BY <1>4, <1>5 DEF Injection, IsInjective
<1>7. /\ IsFiniteSet(1 .. c) /\ Cardinality(1 .. c) = c
      /\ IsFiniteSet(1 .. k) /\ Cardinality(1 .. k) = k
  <2>1. 1 \in Int /\ c \in Int /\ k \in Int
    BY <1>1
  <2>2. /\ IsFiniteSet(1 .. c)
        /\ Cardinality(1 .. c) = IF 1 > c THEN 0 ELSE c - 1 + 1
    BY <2>1, FS_Interval
  <2>3. /\ IsFiniteSet(1 .. k)
        /\ Cardinality(1 .. k) = IF 1 > k THEN 0 ELSE k - 1 + 1
    BY <2>1, FS_Interval
  <2> QED
    BY <1>1, <2>2, <2>3
<1>8. c <= k
  <2>1. Cardinality(1 .. c) <= Cardinality(1 .. k)
    BY <1>6, <1>7, FS_Injection
  <2> QED
    BY <1>7, <2>1
<1> QED
  BY <1>1, <1>8 DEF c, k

LEMMA StuckAtBottom ==
  ASSUME IInv, NEW m \in sent, AllArrived(m)
  PROVE  IsDelivered(m) \/ Name(m) \in evicted \/ AtBottom(m)
<1> DEFINE n == m.dest
           q == buff[n]
           ds == delivered[n]
           S == SentTo(n)
<1>1. m \in Message /\ n \in Node /\ Distinct(sent) /\ m \in S
  BY MessageFacts DEF IInv, Distinct, SentTo
<1>2. Distinct(S) /\ NodeInv(q, ds, free_bytes[n], S, arrived, evicted)
  BY <1>1 DEF IInv, Distinct, SentTo
<1>3. SUFFICES ASSUME ~ IsDelivered(m), Name(m) \notin evicted, ~ AtBottom(m)
               PROVE  FALSE
  OBVIOUS
<1>4. Delivered(m) \notin Range(ds)
  BY <1>3 DEF IsDelivered, Delivered, Range
<1>5. ~ (q # <<>> /\ Name(Head(q).frags[1]) = Name(m))
  BY <1>3 DEF AtBottom
<1>6. Fragments(m) \subseteq arrived
  BY DEF AllArrived
<1> HIDE DEF q, ds, S, n
<1>7. q \in Seq(Element) /\ Len(q) \in Nat /\ DOMAIN q = 1 .. Len(q)
  BY <1>2, LenProperties DEF NodeInv, Queue
<1>8. ASSUME NEW d \in Fragments(m)
      PROVE  \E i \in 2 .. Len(q) :
               d \in Range(q[i].frags) /\ IsFor(q[i], m, arrived)
  <2>1. PICK i \in DOMAIN q : d \in Range(q[i].frags)
    BY <1>1, <1>2, <1>3, <1>4, <1>6 DEF NodeInv, Placed
  <2>2. PICK k \in S : IsFor(q[i], k, arrived)
    BY <1>2 DEF NodeInv, Queue
  <2>3. k \in Message
    BY <1>2 DEF Distinct
  <2>4. d \in Fragments(k)
    BY <2>1, <2>2, <2>3, IsForFacts
  <2>5. k = m
    BY <1>1, <1>2, <2>4, SameMessage
  <2>6. i # 1
    <3>1. SUFFICES ASSUME i = 1 PROVE FALSE
      OBVIOUS
    <3>2. q # <<>> /\ Head(q) = q[1]
      BY <1>7, <3>1
    <3>3. Name(q[1].frags[1]) = Name(m)
      BY <1>1, <2>2, <2>5, <3>1, IsForFacts
    <3> QED
      BY <1>5, <3>2, <3>3
  <2>7. i \in 2 .. Len(q)
    BY <1>7, <2>6
  <2> QED
    BY <2>1, <2>2, <2>5, <2>7
<1>9. PICK d0 \in Fragments(m) : TRUE
  <2>1. FragCount(m.len) \in Nat \ {0}
    BY <1>1, CountFacts, MessageFacts
  <2>2. 0 \in 0 .. FragCount(m.len) - 1
    BY <2>1
  <2> QED
    BY <2>2 DEF Fragments
<1>10. PICK i \in 2 .. Len(q) : IsFor(q[i], m, arrived)
  BY <1>8, <1>9
<1>11. Fragments(m) \subseteq Range(q[i].frags)
  <2>1. ASSUME NEW d \in Fragments(m)
        PROVE  d \in Range(q[i].frags)
    <3>1. PICK j \in 2 .. Len(q) :
            d \in Range(q[j].frags) /\ IsFor(q[j], m, arrived)
      BY <1>8
    <3>2. q[i].key = q[j].key
      <4>1. q[i].key = MakeKey(m.src, m.num)
        BY <1>10, Zenon DEF IsFor
      <4>2. q[j].key = MakeKey(m.src, m.num)
        BY <3>1, Zenon DEF IsFor
      <4> QED
        BY <4>1, <4>2
    <3>3. i = j
      BY <1>2, <3>2 DEF NodeInv, Queue
    <3> QED
      BY <3>1, <3>3
  <2> QED
    BY <2>1
<1>12. /\ q[i].frags \in Seq(Fragments(m))
       /\ q[i].needed = FragCount(m.len)
       /\ Len(q[i].frags) \in 1 .. q[i].needed - 1
  BY <1>10 DEF IsFor
<1>13. Len(q[i].frags) >= FragCount(m.len)
  BY <1>1, <1>11, <1>12, LongEnough
<1>14. FragCount(m.len) \in Nat /\ Len(q[i].frags) \in Nat
  BY <1>1, <1>12, CountFacts, MessageFacts, LenProperties
<1> QED
  BY <1>12, <1>13, <1>14

(* A message whose fragments have all arrived is delivered, has lost an    *)
(* element, or has the element at the bottom of buff, where queue_get      *)
(* (transport.c:103) does not look.                                        *)
THEOREM OnlyBottomStuckHolds == Spec => []OnlyBottomStuck
<1>1. IInv => OnlyBottomStuck
  BY StuckAtBottom DEF OnlyBottomStuck
<1> QED
  BY <1>1, InvariantHolds, PTL

-----------------------------------------------------------------------------
(* The service of the application *)

(* What the service calls m. *)
AsSent(m) == [src |-> m.src, dest |-> m.dest, data |-> Content(m)]

LEMMA ServiceInit == Init => Service!Init
<1> SUFFICES ASSUME Init PROVE Service!Init
  OBVIOUS
<1> QED
  BY DEF Init, Service!Init

LEMMA AcceptStep ==
  ASSUME IInv, NEW t \in Traffic, TransportDatagram(t[1], t)
  PROVE  Service!Next
<1> DEFINE m == NewMessage(t)
           x == AsSent(m)
           out == {AsSent(k) : k \in sent}
<1>1. sent' = sent \cup {m} /\ delivered' = delivered
      /\ msg_num_counter[t[1]] < MaxMessages
  BY DEF TransportDatagram, Cut
<1>2. /\ m \in Message /\ m.src = t[1] /\ m.dest = t[2] /\ m.len = t[3]
      /\ \A k \in sent : Name(k) # Name(m)
  BY <1>1, NewMessageFacts
<1> HIDE DEF m
<1>3. x \in ServiceMessage
  <2>1. m.num \in 1 .. MaxMessages
    <3>1. m.num \in Nat \ {0} /\ m.num <= MaxMessages /\ MaxMessages \in Nat
      BY <1>2, MessageFacts, ConstantTypes
    <3> QED
      BY <3>1
  <2> DEFINE k == [src |-> t[1], num |-> m.num, len |-> t[3]]
  <2>2. Name(k) = Name(m) /\ k.len = m.len
    BY <1>2 DEF Name
  <2> HIDE DEF k
  <2>3. Content(k) = Content(m)
    BY <2>2 DEF Content
  <2>4. x = [src |-> t[1], dest |-> t[2], data |-> Content(k)]
    BY <1>2, <2>3 DEF AsSent
  <2> HIDE DEF x
  <2> QED
    BY <2>1, <2>4 DEF k, ServiceMessage
<1>4. x \notin out
  <2>1. ASSUME NEW k \in sent, AsSent(k) = x
        PROVE  FALSE
    <3>1. Content(k) = Content(m)
      BY <2>1 DEF AsSent
    <3>2. k \in Message
      BY DEF IInv, Distinct
    <3> QED
      BY <1>2, <3>1, <3>2, ContentNames
  <2> QED
    BY <2>1
<1>5. {AsSent(k) : k \in sent'} = out \cup {x}
  BY <1>1
<1>6. out' = {AsSent(k) : k \in sent'}
  OBVIOUS
<1> HIDE DEF x
<1>7. PICK y \in ServiceMessage : y = x
  BY <1>3
<1>8. /\ y \notin out /\ out' = out \cup {y} /\ delivered' = delivered
  BY <1>1, <1>4, <1>5, <1>6, <1>7
<1>9. Service!Accept(y)
  BY <1>8 DEF Service!Accept, AsSent
<1> QED
  BY <1>9 DEF Service!Next

(* A message of which a fragment was still on its way was not delivered. *)
LEMMA NotYet ==
  ASSUME IInv, NEW m \in sent, NEW d \in Fragments(m), d \notin arrived
  PROVE  Delivered(m) \notin Range(delivered[m.dest])
<1>1. m \in Message /\ m.dest \in Node /\ Distinct(sent)
  BY MessageFacts DEF IInv, Distinct
<1>2. SUFFICES ASSUME Delivered(m) \in Range(delivered[m.dest]) PROVE FALSE
  OBVIOUS
<1>3. PICK k \in SentTo(m.dest) :
        Delivered(m) = Delivered(k) /\ Fragments(k) \subseteq arrived
  BY <1>1, <1>2 DEF IInv, NodeInv, Whole
<1>4. k \in sent /\ k \in Message
  BY <1>1 DEF SentTo, Distinct
<1>5. Content(k) = Content(m)
  BY <1>3 DEF Delivered
<1>6. Name(k) = Name(m)
  BY <1>1, <1>4, <1>5, ContentNames
<1>7. k = m
  BY <1>1, <1>4, <1>6 DEF Distinct
<1> QED
  BY <1>3, <1>7

LEMMA DeliverStep ==
  ASSUME IInv, NEW m \in sent, NEW d \in Fragments(m), d \notin arrived,
         delivered' = [delivered EXCEPT ![m.dest] = Append(@, Delivered(m))],
         sent' = sent
  PROVE  Service!Next
<1> DEFINE x == AsSent(m)
           out == {AsSent(k) : k \in sent}
<1>1. Delivered(m) \notin Range(delivered[m.dest])
  BY NotYet
<1>2. /\ x.src = m.src /\ x.dest = m.dest /\ x.data = Content(m)
      /\ x \in out
  BY DEF AsSent
<1> HIDE DEF x
<1>3. [from |-> x.src, data |-> x.data] = Delivered(m)
  BY <1>2 DEF Delivered
<1>4. [from |-> x.src, data |-> x.data] \notin Service!Range(delivered[x.dest])
  BY <1>1, <1>2, <1>3 DEF Range, Service!Range
<1>5. delivered' = [delivered EXCEPT ![x.dest] =
                      Append(@, [from |-> x.src, data |-> x.data])]
  BY <1>2, <1>3
<1>6. out' = out
  OBVIOUS
<1>7. Service!Deliver(x)
  BY <1>4, <1>5, <1>6 DEF Service!Deliver, AsSent
<1>8. x \in {[src |-> k.src, dest |-> k.dest, data |-> Content(k)] : k \in sent}
  BY <1>2 DEF AsSent
<1> QED
  BY <1>7, <1>8 DEF Service!Next

LEMMA ServiceRecv ==
  ASSUME IInv, NEW p \in network, TransportRecv(p.to, p)
  PROVE  [Service!Next]_(Service!service)
<1> DEFINE n == p.to
           d == p.dat
           key == MakeKey(d.src, d.num)
           c == Candidates(buff[n], key)
           i == QueueGet(buff[n], key)
           msg == Built(Sorted(Append(buff[n][i].frags, d)))
<1>1. PICK m \in sent :
        /\ m \in Message /\ m \in SentTo(n) /\ Distinct(SentTo(n))
        /\ n = m.dest /\ n \in Node
        /\ d \in Fragments(m) /\ d \notin arrived
  BY PacketFacts
<1>2. sent' = sent
  BY DEF TransportRecv, Collect
<1>3. /\ d.src = m.src
      /\ NodeInv(buff[n], delivered[n], free_bytes[n], SentTo(n), arrived, evicted)
  BY <1>1, NameOfFragment DEF IInv
<1>4. \/ d.count = 1 /\ PassUp(n, d)
      \/ d.count # 1 /\ NewElement(n, d)
      \/ d.count # 1 /\ c # {} /\ StoreAt(n, d, i)
      \/ d.count # 1 /\ c # {} /\ CompleteAt(n, d, i)
  BY DEF TransportRecv, Collect
<1>5. c # {} => i \in c
  BY QueueGetFacts
<1> HIDE DEF i
<1>6. CASE d.count = 1 /\ PassUp(n, d)
  <2>1. d.data = Content(m)
    BY <1>1, <1>6, OneFragment
  <2>2. [from |-> d.src, data |-> d.data] = Delivered(m)
    BY <1>3, <2>1 DEF Delivered
  <2>3. delivered' = [delivered EXCEPT ![m.dest] = Append(@, Delivered(m))]
    <3>1. delivered' = [delivered EXCEPT ![n] =
                          Append(@, [from |-> d.src, data |-> d.data])]
      BY <1>6 DEF PassUp
    <3> HIDE DEF n, d
    <3> QED
      BY <1>1, <2>2, <3>1
  <2> QED
    BY <1>1, <1>2, <2>3, DeliverStep
<1>7. CASE c # {} /\ CompleteAt(n, d, i)
  <2>1. Len(buff[n][i].frags) + 1 = buff[n][i].needed
        /\ delivered' = [delivered EXCEPT
                           ![n] = Append(@, [from |-> d.src, data |-> msg])]
    BY <1>7 DEF CompleteAt
  <2>2. msg = Content(m)
    <3>1. i \in Candidates(buff[n], MakeKey(d.src, d.num))
      BY <1>5, <1>7
    <3>2. Queue(buff[n], SentTo(n), arrived)
      BY <1>3 DEF NodeInv
    <3> DEFINE q == buff[n]  S == SentTo(n)
               full == Built(Sorted(Append(q[i].frags, d)))
    <3>3. /\ Distinct(S) /\ m \in S /\ d \in Fragments(m) /\ d \notin arrived
          /\ Queue(q, S, arrived) /\ i \in Candidates(q, MakeKey(d.src, d.num))
          /\ Len(q[i].frags) + 1 = q[i].needed
      BY <1>1, <2>1, <3>1, <3>2
    <3>4. msg = full
      OBVIOUS
    <3> HIDE DEF n, d, q, S, key, c, msg
    <3>5. full = Content(m)
      BY <3>3, LastFragment
    <3> QED
      BY <3>4, <3>5
  <2> HIDE DEF msg
  <2>3. [from |-> d.src, data |-> msg] = Delivered(m)
    BY <1>3, <2>2 DEF Delivered
  <2>4. delivered' = [delivered EXCEPT ![m.dest] = Append(@, Delivered(m))]
    <3> HIDE DEF n, d
    <3> QED
      BY <1>1, <2>1, <2>3
  <2> QED
    BY <1>1, <1>2, <2>4, DeliverStep
<1>8. CASE NewElement(n, d) \/ StoreAt(n, d, i)
  <2>1. delivered' = delivered
    BY <1>8 DEF NewElement, StoreAt
  <2> QED
    BY <1>2, <2>1 DEF Service!service
<1> QED
  BY <1>4, <1>6, <1>7, <1>8

LEMMA ServiceStep == IInv /\ [Next]_vars => [Service!Next]_(Service!service)
<1> SUFFICES ASSUME IInv, [Next]_vars
             PROVE  [Service!Next]_(Service!service)
  OBVIOUS
<1>1. ASSUME sent' = sent, delivered' = delivered
      PROVE  UNCHANGED Service!service
  BY <1>1 DEF Service!service
<1>2. ASSUME NEW t \in Traffic, TransportDatagram(t[1], t)
      PROVE  Service!Next
  BY <1>2, AcceptStep
<1>3. ASSUME NEW p \in network, Lose(p)
      PROVE  UNCHANGED Service!service
  BY <1>1, <1>3 DEF Lose, history
<1>4. ASSUME NEW p \in network, TransportRecv(p.to, p)
      PROVE  [Service!Next]_(Service!service)
  BY <1>4, ServiceRecv
<1>5. CASE UNCHANGED vars
  BY <1>1, <1>5 DEF vars, history
<1> QED
  BY <1>2, <1>3, <1>4, <1>5 DEF Next

(* Each message gets to the application of its destination whole, with the *)
(* name of its sender, and at most once, however its fragments are lost,   *)
(* reordered and evicted (transport_recv, transport.c:291-342).            *)
THEOREM TransportImplementsService == Spec => ImplementsService
<1>1. Init => Service!Init
  BY ServiceInit
<1>2. IInv /\ [Next]_vars => [Service!Next]_(Service!service)
  BY ServiceStep
<1> QED
  BY <1>1, <1>2, InvariantHolds, PTL DEF Spec, ImplementsService, Service!Spec
=============================================================================
