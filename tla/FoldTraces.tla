------------------------------ MODULE FoldTraces ------------------------------
(***************************************************************************)
(* Lemmas about FoldLeft of SequencesExt.  Where op maps values of X and   *)
(* elements of s to X, FoldLeft(op, base, s) has a trace: a function h on  *)
(* 0 .. Len(s) with h[0] = base, h[i] = op(h[i-1], s[i]), and the result   *)
(* h[Len(s)].  A lemma cannot have op as a parameter, so these are the     *)
(* parts of that fact without op.                                          *)
(***************************************************************************)
EXTENDS Integers, Sequences, SequencesExt, FiniteSets, FiniteSetTheorems,
        NaturalsInduction, WellFoundedInduction, TLAPS

(* A number of a set of numbers is the least. *)
LEMMA LeastOf ==
  ASSUME NEW S \in SUBSET Nat, S # {}
  PROVE  \E x \in S : \A y \in S : x <= y
<1>1. PICK x \in S : \A y \in S : ~ (<<y, x>> \in OpToRel(<, Nat))
  <2> HIDE DEF OpToRel
  <2> QED
    BY NatLessThanWellFounded, WFMin
<1>2. ASSUME NEW y \in S, y < x
      PROVE  FALSE
  <2>1. <<y, x>> \in Nat \X Nat /\ <<y, x>>[1] < <<y, x>>[2]
    BY <1>2
  <2>2. <<y, x>> \in OpToRel(<, Nat)
    BY <2>1 DEF OpToRel
  <2> QED
    BY <1>1, <2>2
<1> QED
  BY <1>2

(* Induction over 0 .. n, with a set for the predicate. *)
LEMMA UpTo ==
  ASSUME NEW n \in Nat, NEW T, 0 \in T,
         \A i \in 1 .. n : i - 1 \in T => i \in T
  PROVE  \A i \in 0 .. n : i \in T
<1> DEFINE Bad == {i \in 0 .. n : i \notin T}
<1>1. SUFFICES ASSUME Bad # {} PROVE FALSE
  OBVIOUS
<1>2. PICK i \in Bad : \A j \in Bad : i <= j
  <2> Bad \in SUBSET Nat
    OBVIOUS
  <2> HIDE DEF Bad
  <2> QED
    BY <1>1, LeastOf
<1>3. i - 1 \in 0 .. n /\ i - 1 \notin Bad
  BY <1>2
<1> QED
  BY <1>2, <1>3

LEMMA MaxOf ==
  ASSUME NEW n \in Nat, NEW t \in SUBSET (1 .. n), t # {}
  PROVE  /\ Max(t) \in t
         /\ \A y \in t : y <= Max(t)
<1> DEFINE S == {n - y : y \in t}
<1>1. S \in SUBSET Nat /\ S # {}
  <2>1. \A y \in t : n - y \in Nat
    OBVIOUS
  <2> QED
    BY <2>1
<1>2. PICK x \in S : \A y \in S : x <= y
  <2> HIDE DEF S
  <2> QED
    BY <1>1, LeastOf
<1>3. PICK m \in t : x = n - m
  BY <1>2
<1>4. ASSUME NEW y \in t
      PROVE  y <= m
  <2>1. n - y \in S
    OBVIOUS
  <2>2. n - m <= n - y
    BY <1>2, <1>3, <2>1
  <2>3. y \in Int /\ m \in Int
    OBVIOUS
  <2> HIDE DEF S
  <2> QED
    BY <2>2, <2>3
<1>5. \A y \in t : m >= y /\ m \in Int /\ y \in Int
  BY <1>4
<1>6. Max(t) \in t /\ \A y \in t : Max(t) >= y
  BY <1>5 DEF Max
<1> QED
  BY <1>6

LEMMA MaxInterval ==
  ASSUME NEW n \in Nat \ {0}
  PROVE  /\ Max(1 .. n) = n
         /\ (1 .. n) \ {Max(1 .. n)} = 1 .. n - 1
         /\ 1 .. n # {}
<1>1. n \in 1 .. n /\ 1 .. n \in SUBSET (1 .. n)
  OBVIOUS
<1>2. Max(1 .. n) \in 1 .. n /\ \A y \in 1 .. n : y <= Max(1 .. n)
  BY <1>1, MaxOf
<1>3. Max(1 .. n) = n
  BY <1>1, <1>2
<1>4. (1 .. n) \ {n} = 1 .. n - 1
  OBVIOUS
<1> QED
  BY <1>1, <1>3, <1>4

(* The recursion of MapThenFoldSet over the subsets of the domain of a     *)
(* sequence of length n, where G has the value x and the position i to the *)
(* value op(x, s[i]).                                                      *)
IsFold(g, n, base, G) ==
  g = [t \in SUBSET (1 .. n) |->
         IF t = {} THEN base ELSE G[<<g[t \ {Max(t)}], Max(t)>>]]

(* It has a solution, with values in X.                                    *)
LEMMA SubsetRecursion ==
  ASSUME NEW n \in Nat, NEW X, NEW base \in X, NEW G \in [X \X (1 .. n) -> X]
  PROVE  \E g \in [SUBSET (1 .. n) -> X] : IsFold(g, n, base, G)
<1> DEFINE Solves(g, k) ==
             /\ g \in [SUBSET (1 .. k) -> X]
             /\ \A t \in SUBSET (1 .. k) :
                  g[t] = IF t = {} THEN base
                         ELSE G[<<g[t \ {Max(t)}], Max(t)>>]
           T == {k \in 0 .. n : \E g : Solves(g, k)}
<1>1. 0 \in T
  <2> DEFINE g == [t \in SUBSET (1 .. 0) |-> base]
  <2>1. \A t \in SUBSET (1 .. 0) : t = {}
    OBVIOUS
  <2>2. Solves(g, 0)
    BY <2>1
  <2>3. \E f : Solves(f, 0)
    BY <2>2
  <2> HIDE DEF Solves
  <2> QED
    BY <2>3
<1>2. ASSUME NEW i \in 1 .. n, i - 1 \in T
      PROVE  i \in T
  <2>1. PICK g : Solves(g, i - 1)
    BY <1>2
  <2> DEFINE f == [t \in SUBSET (1 .. i) |->
                     IF t = {} THEN base ELSE G[<<g[t \ {Max(t)}], Max(t)>>]]
  <2>2. ASSUME NEW t \in SUBSET (1 .. i), t # {}
        PROVE  /\ Max(t) \in 1 .. n
               /\ t \ {Max(t)} \in SUBSET (1 .. i - 1)
    <3>1. Max(t) \in t /\ \A y \in t : y <= Max(t)
      BY <2>2, MaxOf, i \in Nat
    <3>2. ASSUME NEW y \in t \ {Max(t)}
          PROVE  y \in 1 .. i - 1
      <4>1. y <= Max(t) /\ y # Max(t) /\ y \in 1 .. i /\ Max(t) \in 1 .. i
        BY <3>1
      <4> QED
        BY <4>1
    <3>3. Max(t) \in 1 .. i
      BY <3>1
    <3>4. Max(t) \in 1 .. n
      BY <3>3
    <3> QED
      BY <3>2, <3>4
  <2>3. \A t \in SUBSET (1 .. i - 1) : f[t] = g[t]
    <3>1. \A t \in SUBSET (1 .. i - 1) : t \in SUBSET (1 .. i)
      OBVIOUS
    <3> QED
      BY <2>1, <3>1
  <2>4. f \in [SUBSET (1 .. i) -> X]
    <3>1. ASSUME NEW t \in SUBSET (1 .. i), t # {}
          PROVE  G[<<g[t \ {Max(t)}], Max(t)>>] \in X
      BY <2>1, <2>2, <3>1
    <3> HIDE DEF Solves
    <3> QED
      BY <3>1
  <2>5. ASSUME NEW t \in SUBSET (1 .. i)
        PROVE  f[t] = IF t = {} THEN base
                      ELSE G[<<f[t \ {Max(t)}], Max(t)>>]
    BY <2>2, <2>3
  <2>6. Solves(f, i)
    <3> HIDE DEF f
    <3> QED
      BY <2>4, <2>5
  <2> QED
    <3>1. \E h : Solves(h, i)
      BY <2>6
    <3> HIDE DEF Solves
    <3> QED
      BY <3>1
<1>3. n \in T
  <2> HIDE DEF T
  <2> QED
    BY <1>1, <1>2, UpTo
<1>4. PICK g : Solves(g, n)
  BY <1>3
<1> QED
  BY <1>4 DEF IsFold

(* Whatever solution is chosen, it is only known to agree with G for       *)
(* values in X; but its values at 1 .. i are the trace.                    *)
Follows(g, n, X, base, G) ==
  /\ G \in [X \X (1 .. n) -> X]
  /\ g[{}] = base
  /\ \A t \in SUBSET (1 .. n) :
       t # {} /\ g[t \ {Max(t)}] \in X =>
         g[t] = G[<<g[t \ {Max(t)}], Max(t)>>]

IsTrace(h, n, base, G) ==
  /\ h[0] = base
  /\ \A i \in 1 .. n : h[i] = G[<<h[i - 1], i>>]

LEMMA FoldTrace ==
  ASSUME NEW n \in Nat, NEW X, NEW base \in X, NEW G,
         NEW g, Follows(g, n, X, base, G)
  PROVE  \E h \in [0 .. n -> X] : IsTrace(h, n, base, G) /\ h[n] = g[1 .. n]
<1> DEFINE h == [i \in 0 .. n |-> g[1 .. i]]
           T == {i \in 0 .. n : h[i] \in X}
<1>1. h[0] = base
  <2>1. 1 .. 0 = {}
    OBVIOUS
  <2> QED
    BY <2>1 DEF Follows
<1>2. ASSUME NEW i \in 1 .. n, h[i - 1] \in X
      PROVE  h[i] = G[<<h[i - 1], i>>] /\ h[i] \in X
  <2>1. i \in Nat \ {0} /\ 1 .. i \in SUBSET (1 .. n) /\ i - 1 \in 0 .. n
    OBVIOUS
  <2>2. /\ Max(1 .. i) = i /\ (1 .. i) \ {Max(1 .. i)} = 1 .. i - 1
        /\ 1 .. i # {}
    BY <2>1, MaxInterval
  <2>3. g[1 .. i - 1] \in X
    BY <1>2, <2>1
  <2>4. g[1 .. i] = G[<<g[1 .. i - 1], i>>]
    BY <2>1, <2>2, <2>3 DEF Follows
  <2>5. G[<<g[1 .. i - 1], i>>] \in X
    BY <2>3 DEF Follows
  <2> QED
    BY <2>1, <2>3, <2>4, <2>5
<1>3. \A i \in 0 .. n : i \in T
  <2> HIDE DEF h
  <2>1. 0 \in T
    BY <1>1
  <2>2. ASSUME NEW i \in 1 .. n, i - 1 \in T
        PROVE  i \in T
    <3>1. h[i - 1] \in X /\ i \in 0 .. n
      BY <2>2
    <3>2. h[i] \in X
      BY <1>2, <3>1
    <3> QED
      BY <3>1, <3>2
  <2> HIDE DEF T
  <2> QED
    BY <2>1, <2>2, UpTo
<1>4. h \in [0 .. n -> X] /\ h[n] = g[1 .. n]
  BY <1>3
<1>5. \A i \in 1 .. n : h[i] = G[<<h[i - 1], i>>]
  <2> HIDE DEF h
  <2> QED
    BY <1>2, <1>3
<1> HIDE DEF h
<1> QED
  BY <1>1, <1>4, <1>5 DEF IsTrace
=============================================================================
