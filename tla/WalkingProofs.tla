---------------------------- MODULE WalkingProofs -----------------------------
(***************************************************************************)
(* Theorems about the map and the walks, for any buildings, any size of    *)
(* the map, any speed, any MAX_WALK_DIST and any number of candidates that *)
(* the search rejects.                                                     *)
(***************************************************************************)
EXTENDS Walking, FoldTraces

Point == Int \X Int

(* On which side of the line from s to d a point is. *)
Side(s, d, c) ==
  (d[1] - s[1]) * (c[2] - s[2]) - (d[2] - s[2]) * (c[1] - s[1])

LEMMA ObjectFacts ==
  ASSUME NEW o \in Objects
  PROVE  /\ o[1] \in Nat /\ o[2] \in Nat /\ o[3] \in Nat /\ o[4] \in Nat
         /\ o[1] < o[3] /\ o[2] < o[4]
         /\ Corners(o) \subseteq Point
         /\ Corners(o) = {<<o[1], o[2]>>, <<o[1], o[4]>>,
                          <<o[3], o[2]>>, <<o[3], o[4]>>}
<1>1. PICK b \in Drawn : o = AddObject(b)
  BY DEF Objects
<1>2. /\ b[1] \in Nat /\ b[2] \in Nat /\ b[3] \in Nat /\ b[4] \in Nat
      /\ b[1] <= b[3] /\ b[2] <= b[4]
  BY MapAssumption
<1>3. /\ o[1] = b[1] /\ o[2] = b[2]
      /\ o[3] = IF b[1] = b[3] THEN b[3] + 1 ELSE b[3]
      /\ o[4] = IF b[2] = b[4] THEN b[4] + 1 ELSE b[4]
  BY <1>1 DEF AddObject
<1>4. /\ o[1] \in Nat /\ o[2] \in Nat /\ o[3] \in Nat /\ o[4] \in Nat
      /\ o[1] < o[3] /\ o[2] < o[4]
  BY <1>2, <1>3
<1>5. Corners(o) = {<<o[1], o[2]>>, <<o[1], o[4]>>,
                    <<o[3], o[2]>>, <<o[3], o[4]>>}
  BY DEF Corners
<1> QED
  BY <1>4, <1>5 DEF Point

-----------------------------------------------------------------------------
(* A path and its reverse *)

LEMMA ReverseSquare ==
  ASSUME NEW p \in Point, NEW q \in Point
  PROVE  Square(p, q) = Square(q, p)
<1> DEFINE x == p[1] - q[1]
           y == p[2] - q[2]
<1>1. x \in Int /\ y \in Int /\ q[1] - p[1] = -x /\ q[2] - p[2] = -y
  BY DEF Point
<1>2. Square(p, q) = x * x + y * y /\ Square(q, p) = (-x) * (-x) + (-y) * (-y)
  BY <1>1 DEF Square
<1> HIDE DEF x, y
<1>3. (-x) * (-x) = x * x /\ (-y) * (-y) = y * y
  BY <1>1
<1> QED
  BY <1>2, <1>3

(* intersect finds the same walls whichever end a path starts from.        *)
LEMMA ReversePath ==
  ASSUME NEW a \in Point, NEW b \in Point, NEW c \in Point, NEW d \in Point
  PROVE  Intersect(a, b, c, d) <=> Intersect(b, a, c, d)
<1> DEFINE dx == b[1] - a[1]
           dy == b[2] - a[2]
           ex == d[1] - c[1]
           ey == d[2] - c[2]
           x == a[1] - c[1]
           y == a[2] - c[2]
           den == ey * dx - ex * dy
           na == ex * y - ey * x
           nb == dx * y - dy * x
           den2 == ey * (a[1] - b[1]) - ex * (a[2] - b[2])
           na2 == ex * (b[2] - c[2]) - ey * (b[1] - c[1])
           nb2 == (a[1] - b[1]) * (b[2] - c[2]) - (a[2] - b[2]) * (b[1] - c[1])
<1>1. /\ dx \in Int /\ dy \in Int /\ ex \in Int /\ ey \in Int
      /\ x \in Int /\ y \in Int
      /\ a[1] - b[1] = -dx /\ a[2] - b[2] = -dy
      /\ b[1] - c[1] = x + dx /\ b[2] - c[2] = y + dy
  BY DEF Point
<1>2. Intersect(a, b, c, d) <=>
        \/ den = 0 /\ na = 0 /\ nb = 0
        \/ den # 0 /\ Between(na, den) /\ Between(nb, den)
  BY DEF Intersect
<1>3. Intersect(b, a, c, d) <=>
        \/ den2 = 0 /\ na2 = 0 /\ nb2 = 0
        \/ den2 # 0 /\ Between(na2, den2) /\ Between(nb2, den2)
  BY DEF Intersect
<1>4. /\ den2 = ey * (-dx) - ex * (-dy)
      /\ na2 = ex * (y + dy) - ey * (x + dx)
      /\ nb2 = (-dx) * (y + dy) - (-dy) * (x + dx)
  BY <1>1
<1> HIDE DEF dx, dy, ex, ey, x, y
<1>5. /\ den \in Int /\ na \in Int /\ nb \in Int
      /\ den2 = -den /\ na2 = na - den /\ nb2 = -nb
  BY <1>1, <1>4
<1> HIDE DEF den, na, nb, den2, na2, nb2
<1> QED
  BY <1>2, <1>3, <1>5 DEF Between

LEMMA ReverseThroughObjects ==
  ASSUME NEW p \in Point, NEW q \in Point
  PROVE  ThroughNObjects(p, q) = ThroughNObjects(q, p)
<1>1. ASSUME NEW o \in Objects
      PROVE  PassesThrough(p, q, o) <=> PassesThrough(q, p, o)
  <2>1. \A w \in Walls(o) : w[1] \in Point /\ w[2] \in Point
    BY ObjectFacts DEF Walls
  <2>2. \A w \in Walls(o) :
          Intersect(p, q, w[1], w[2]) <=> Intersect(q, p, w[1], w[2])
    BY <2>1, ReversePath
  <2> QED
    BY <2>2 DEF PassesThrough
<1>2. {o \in Objects : PassesThrough(p, q, o)}
        = {o \in Objects : PassesThrough(q, p, o)}
  BY <1>1
<1> QED
  BY <1>2 DEF ThroughNObjects

LEMMA ReverseSignal ==
  ASSUME NEW p \in Point, NEW q \in Point
  PROVE  WLANModel(p, q) = WLANModel(q, p)
<1>1. Square(p, q) = Square(q, p)
  BY ReverseSquare
<1>2. ThroughNObjects(p, q) = ThroughNObjects(q, p)
  BY ReverseThroughObjects
<1> QED
  BY <1>1, <1>2 DEF WLANModel

-----------------------------------------------------------------------------
(* The search for a walk *)

LEMMA ProductMonotone ==
  ASSUME NEW a \in Nat, NEW b \in Nat, a <= b
  PROVE  a * a <= b * b
OBVIOUS

(* dist / newspeed is a number of steps. *)
LEMMA NStepsType ==
  ASSUME NEW p \in Point, NEW q \in Point, NEW speed \in Nat \ {0}
  PROVE  NSteps(p, q, speed) \in Nat
<1> DEFINE D == Square(p, q)
           T == {k \in Nat : D < ((k + 1) * speed) * ((k + 1) * speed)}
<1>1. D \in Nat
  <2> DEFINE x == p[1] - q[1]
             y == p[2] - q[2]
  <2>1. x \in Int /\ y \in Int /\ D = x * x + y * y
    BY DEF Square, Point
  <2> HIDE DEF x, y, D
  <2>2. x * x >= 0 /\ y * y >= 0
    BY <2>1
  <2> QED
    BY <2>1, <2>2
<1> HIDE DEF D
<1>2. ASSUME NEW k \in Nat
      PROVE  k <= (k * speed) * (k * speed)
  <2> DEFINE e == k * speed
  <2>1. e \in Nat /\ k <= e
    OBVIOUS
  <2> HIDE DEF e
  <2>2. e <= e * e
    BY <2>1
  <2>3. e * e \in Nat
    BY <2>1
  <2> QED
    BY <2>1, <2>2, <2>3 DEF e
<1>3. D \in T
  <2>1. D + 1 <= ((D + 1) * speed) * ((D + 1) * speed)
    BY <1>1, <1>2
  <2>2. ((D + 1) * speed) * ((D + 1) * speed) \in Nat
    BY <1>1
  <2> QED
    BY <1>1, <2>1, <2>2
<1>4. PICK k \in T : \A j \in T : k <= j
  BY <1>3, LeastOf
<1>5. k \in Nat /\ k <= D /\ k \in 0 .. D
  BY <1>1, <1>3, <1>4
<1>6. (k * speed) * (k * speed) <= D
  <2>1. CASE k = 0
    BY <1>1, <2>1
  <2>2. CASE k # 0
    <3>1. k - 1 \in Nat /\ k - 1 \notin T
      BY <1>4, <2>2
    <3>2. ~(D < ((k - 1 + 1) * speed) * ((k - 1 + 1) * speed))
      BY <3>1
    <3>3. k - 1 + 1 = k
      BY <3>1
    <3>4. (k * speed) * (k * speed) \in Nat
      BY <1>5
    <3> QED
      BY <1>1, <3>2, <3>3, <3>4
  <2> QED
    BY <2>1, <2>2
<1>7. /\ k * speed * k * speed <= D
      /\ D < (k + 1) * speed * (k + 1) * speed
  <2>1. /\ k * speed * k * speed = (k * speed) * (k * speed)
        /\ (k + 1) * speed * (k + 1) * speed
             = ((k + 1) * speed) * ((k + 1) * speed)
    BY <1>5
  <2> QED
    BY <1>4, <1>6, <2>1
<1>8. NSteps(p, q, speed) \in 0 .. D
  BY <1>5, <1>7 DEF NSteps, D
<1> QED
  BY <1>1, <1>8

(* A destination is outside of all buildings, and can be reached without   *)
(* walking through a wall.                                                 *)
Outside(p) == \A o \in Objects : ~Within(p, o)

LEMMA PlacesType == Places \subseteq Nat \X Nat
<1>1. mapsize[1] \in Nat /\ mapsize[2] \in Nat
  BY MapAssumption
<1> QED
  BY <1>1 DEF Places

LEMMA ChosenPosition ==
  ASSUME NEW old, NEW maxdist, NEW p \in ChoosePosition(old, maxdist)
  PROVE  p \in Places /\ p \in Nat \X Nat /\ Outside(p)
BY PlacesType DEF ChoosePosition, Outside

Walk == [from : Places, to : Places, steps : Nat]

(* However long the search, and however far from where it began: the last  *)
(* candidate is a position of its own, and it was tested from there.       *)
LEMMA ChosenWalk ==
  ASSUME NEW w \in Walks
  PROVE  /\ w \in Walk /\ w.steps >= 3
         /\ Outside(w.to) /\ ~ThroughAnObject(w.from, w.to)
<1>1. PICK now \in Places : w \in WalksFrom(now)
  BY DEF Walks
<1>2. PICK p \in UNION {Destinations(now, q) : q \in Searched(now, now)},
           speed \in 1 .. MAX_SPEED :
        w = [from |-> now, to |-> p, steps |-> NSteps(now, p, speed)]
  BY <1>1 DEF WalksFrom
<1>3. PICK q \in Searched(now, now) : p \in Destinations(now, q)
  BY <1>2
<1>4. p \in ChoosePosition(q, MAX_WALK_DIST) /\ ~ThroughAnObject(now, p)
  BY <1>3 DEF Destinations, Candidates
<1>5. p \in Places /\ p \in Nat \X Nat /\ Outside(p) /\ now \in Nat \X Nat
  BY <1>4, ChosenPosition, PlacesType
<1>6. speed \in Nat \ {0}
  BY WalkingAssumption
<1>7. NSteps(now, p, speed) \in Nat
  <2>1. now \in Point /\ p \in Point
    BY <1>5 DEF Point
  <2> QED
    BY <1>6, <2>1, NStepsType
<1>8. w.steps >= 3
  BY DEF Walks
<1> QED
  BY <1>2, <1>4, <1>5, <1>7, <1>8 DEF Walk

-----------------------------------------------------------------------------
(* The steps of a walk *)

LEMMA Quotient ==
  ASSUME NEW x \in Nat, NEW d \in Nat \ {0}
  PROVE  x \div d \in Nat
OBVIOUS

LEMMA QuotientBound ==
  ASSUME NEW x \in Nat, NEW d \in Nat \ {0}, NEW n \in Nat, x <= n * d
  PROVE  x \div d <= n
<1> DEFINE q == x \div d
           r == x % d
<1>1. q \in Nat /\ r \in 0 .. d - 1 /\ x = d * q + r
  OBVIOUS
<1> HIDE DEF q, r
<1>2. CASE q >= n + 1
  <2>1. d * (n + 1) <= d * q
    <3>1. d * (q - (n + 1)) >= 0
      BY <1>1, <1>2
    <3> QED
      BY <1>1, <3>1
  <2>2. d * (n + 1) = n * d + d
    OBVIOUS
  <2>3. d * q \in Int /\ n * d \in Int
    BY <1>1
  <2> QED
    BY <1>1, <2>1, <2>2, <2>3
<1>3. CASE q <= n
  BY <1>3 DEF q
<1> QED
  BY <1>1, <1>2, <1>3

LEMMA Multiples ==
  ASSUME NEW a \in Nat, NEW b \in Nat, NEW d \in Nat, a <= b
  PROVE  a * d <= b * d
<1>1. (b - a) * d >= 0 /\ b * d = a * d + (b - a) * d
  OBVIOUS
<1>2. a * d \in Int /\ b * d \in Int /\ (b - a) * d \in Int
  OBVIOUS
<1> QED
  BY <1>1, <1>2

LEMMA ExactQuotient ==
  ASSUME NEW b \in Nat, NEW d \in Nat \ {0}
  PROVE  (b * d) \div d = b
<1> DEFINE x == b * d
           q == x \div d
           r == x % d
<1>1. x \in Nat
  OBVIOUS
<1>2. q \in Nat /\ r \in 0 .. d - 1 /\ x = d * q + r
  BY <1>1
<1> HIDE DEF q, r
<1>3. d * (b - q) = r
  BY <1>2
<1>4. b - q = 0
  <2>1. CASE b - q >= 1
    <3>1. d * (b - q) >= d
      BY <1>2, <2>1
    <3> QED
      BY <1>2, <1>3, <3>1
  <2>2. CASE b - q <= -1
    <3>1. d * (b - q) <= -d
      BY <1>2, <2>2
    <3> QED
      BY <1>2, <1>3, <3>1
  <2> QED
    BY <1>2, <2>1, <2>2
<1> QED
  BY <1>2, <1>4 DEF q

(* A coordinate on the way is none outside of the map, and at the end it   *)
(* is that of the destination or, rounded, one less.                       *)
LEMMA CoordinateFacts ==
  ASSUME NEW a \in Nat, NEW b \in Nat, NEW steps \in Nat \ {0},
         NEW k \in 0 .. steps, NEW c \in Coordinate(a, b, steps, k)
  PROVE  /\ c \in Nat /\ (c <= a \/ c <= b)
         /\ k = steps => c = b \/ c = b - 1
<1> DEFINE sum == a * steps + k * (b - a)
           q == sum \div steps
<1>1. sum \in Nat
  <2>1. sum = a * (steps - k) + k * b
    OBVIOUS
  <2>2. a * (steps - k) \in Nat /\ k * b \in Nat
    OBVIOUS
  <2> QED
    BY <2>1, <2>2
<1>2. q \in Nat /\ (q <= a \/ q <= b)
  <2>1. ASSUME NEW m \in Nat, a <= m, b <= m
        PROVE  q <= m
    <3>1. a * (steps - k) <= m * (steps - k) /\ b * k <= m * k
      BY <2>1, Multiples
    <3>2. /\ sum = a * (steps - k) + b * k
          /\ m * steps = m * (steps - k) + m * k
      OBVIOUS
    <3>3. /\ a * (steps - k) \in Int /\ b * k \in Int
          /\ m * (steps - k) \in Int /\ m * k \in Int
      OBVIOUS
    <3>4. sum <= m * steps
      BY <3>1, <3>2, <3>3
    <3> HIDE DEF sum
    <3> QED
      BY <1>1, <3>4, QuotientBound
  <2>2. a <= b \/ b <= a
    OBVIOUS
  <2> HIDE DEF sum
  <2> QED
    BY <1>1, <2>1, <2>2, Quotient
<1>3. k = steps => q = b
  <2>1. SUFFICES ASSUME k = steps PROVE q = b
    OBVIOUS
  <2>2. sum = b * steps
    BY <2>1
  <2> QED
    BY <2>2, ExactQuotient
<1>4. c = q \/ (q > 0 /\ c = q - 1)
  BY DEF Coordinate
<1> HIDE DEF q
<1> QED
  BY <1>2, <1>3, <1>4

-----------------------------------------------------------------------------
(* A path through a building *)

(* On which side of the line from (su, sv) to (du, dv) is (u, v)? *)
Across(su, sv, du, dv, u, v) == (du - su) * (v - sv) - (dv - sv) * (u - su)

Opposite(x, y) == (x < 0 /\ y > 0) \/ (x > 0 /\ y < 0)

InsideOf(a, x, b) == (a < x /\ x < b) \/ (b < x /\ x < a)

LEMMA AcrossInt ==
  ASSUME NEW su \in Int, NEW sv \in Int, NEW du \in Int, NEW dv \in Int,
         NEW u \in Int, NEW v \in Int
  PROVE  Across(su, sv, du, dv, u, v) \in Int
BY DEF Across

LEMMA SwapAcross ==
  ASSUME NEW su \in Int, NEW sv \in Int, NEW du \in Int, NEW dv \in Int,
         NEW u \in Int, NEW v \in Int
  PROVE  Across(sv, su, dv, du, v, u) = -Across(su, sv, du, dv, u, v)
<1> DEFINE x == (du - su) * (v - sv)
           y == (dv - sv) * (u - su)
<1>1. x \in Int /\ y \in Int
  OBVIOUS
<1>2. /\ Across(su, sv, du, dv, u, v) = x - y
      /\ Across(sv, su, dv, du, v, u) = y - x
  BY DEF Across
<1> HIDE DEF x, y
<1> QED
  BY <1>1, <1>2

(* The line rises: a point above it is above all that are farther down.    *)
LEMMA Rises ==
  ASSUME NEW su \in Int, NEW sv \in Int, NEW du \in Int, NEW dv \in Int,
         NEW e \in Int, NEW p \in Int, NEW q \in Int, su < du, p < q
  PROVE  Across(su, sv, du, dv, e, p) < Across(su, sv, du, dv, e, q)
<1> DEFINE x == du - su
           y == (dv - sv) * (e - su)
<1>1. x \in Nat \ {0} /\ y \in Int
  OBVIOUS
<1>2. /\ Across(su, sv, du, dv, e, p) = x * (p - sv) - y
      /\ Across(su, sv, du, dv, e, q) = x * (q - sv) - y
  BY DEF Across
<1> HIDE DEF x, y
<1>3. x * (q - sv) = x * (p - sv) + x * (q - p)
  BY <1>1
<1>4. x * (q - p) > 0
  BY <1>1
<1>5. x * (p - sv) \in Int /\ x * (q - sv) \in Int /\ x * (q - p) \in Int
  BY <1>1
<1> QED
  BY <1>1, <1>2, <1>3, <1>4, <1>5

(* The path falls, and is below p when it gets to e, so it ends below p.   *)
LEMMA Falls ==
  ASSUME NEW su \in Int, NEW sv \in Int, NEW du \in Int, NEW dv \in Int,
         NEW a \in Int, NEW e \in Int, NEW p \in Int,
         su < e, e < du, a < e,
         Across(su, sv, du, dv, e, p) > 0, Across(su, sv, du, dv, a, p) < 0
  PROVE  dv < p
<1> DEFINE x == du - su
           y == dv - sv
           t == p - sv
           f == e - su
           w == e - a
<1>1. /\ x \in Nat \ {0} /\ y \in Int /\ t \in Int /\ f \in Nat \ {0}
      /\ w \in Nat \ {0} /\ f < x /\ a - su = f - w
      /\ y < t => dv < p
  OBVIOUS
<1>2. x * t - y * f > 0 /\ x * t - y * (f - w) < 0
  BY <1>1 DEF Across
<1> HIDE DEF x, y, t, f, w
<1>3. y * (f - w) = y * f - y * w
  BY <1>1
<1>4. x * t \in Int /\ y * f \in Int /\ y * w \in Int
  BY <1>1
<1>5. y * w < 0
  BY <1>2, <1>3, <1>4
<1>6. y < 0
  BY <1>1, <1>5
<1>7. y * x <= y * f
  <2>1. (-y) * f <= (-y) * x
    BY <1>1, <1>6
  <2>2. (-y) * f = -(y * f) /\ (-y) * x = -(y * x) /\ y * x \in Int
    BY <1>1
  <2> QED
    BY <1>4, <2>1, <2>2
<1>8. x * (t - y) > 0
  <2>1. x * (t - y) = x * t - y * x /\ y * x \in Int
    BY <1>1
  <2> QED
    BY <1>2, <1>4, <1>7, <2>1
<1>9. t - y > 0
  <2>1. SUFFICES ASSUME t - y <= 0 PROVE FALSE
    BY <1>1
  <2>2. x * (t - y) <= 0
    BY <1>1, <2>1
  <2> QED
    BY <1>1, <1>8, <2>2
<1> QED
  BY <1>1, <1>9

LEMMA Climbs ==
  ASSUME NEW su \in Int, NEW sv \in Int, NEW du \in Int, NEW dv \in Int,
         NEW a \in Int, NEW e \in Int, NEW q \in Int,
         su < e, e < du, a < e,
         Across(su, sv, du, dv, e, q) < 0, Across(su, sv, du, dv, a, q) > 0
  PROVE  q < dv
<1>1. -sv \in Int /\ -dv \in Int /\ -q \in Int
  OBVIOUS
<1>2. ASSUME NEW u \in Int
      PROVE  Across(su, -sv, du, -dv, u, -q) = -Across(su, sv, du, dv, u, q)
  <2> DEFINE c == du - su
             f == q - sv
             g == dv - sv
             h == u - su
  <2>1. /\ c \in Int /\ f \in Int /\ g \in Int /\ h \in Int
        /\ (-dv) - (-sv) = -g /\ (-q) - (-sv) = -f
    OBVIOUS
  <2>2. /\ Across(su, sv, du, dv, u, q) = c * f - g * h
        /\ Across(su, -sv, du, -dv, u, -q) = c * (-f) - (-g) * h
    BY <2>1 DEF Across
  <2> HIDE DEF c, f, g, h
  <2> QED
    BY <2>1, <2>2
<1>3. /\ Across(su, sv, du, dv, e, q) \in Int
      /\ Across(su, sv, du, dv, a, q) \in Int
  BY AcrossInt
<1>4. /\ Across(su, -sv, du, -dv, e, -q) > 0
      /\ Across(su, -sv, du, -dv, a, -q) < 0
  BY <1>2, <1>3
<1>5. -dv < -q
  BY <1>1, <1>4, Falls
<1> QED
  BY <1>5

(* A path that leaves the rectangle a, p, e, q over the line u = e, and    *)
(* has corners on both sides, leaves it through a wall or a corner of that *)
(* side, or cuts off one of the corners.                                   *)
LEMMA Exit ==
  ASSUME NEW su \in Int, NEW sv \in Int, NEW du \in Int, NEW dv \in Int,
         NEW a \in Int, NEW e \in Int, NEW p \in Int, NEW q \in Int,
         a < e, p < q, su < e, e < du, sv > p \/ dv > p, sv < q \/ dv < q,
         \E x \in {a, e}, y \in {p, q} : Across(su, sv, du, dv, x, y) > 0,
         \E x \in {a, e}, y \in {p, q} : Across(su, sv, du, dv, x, y) < 0
  PROVE  \/ Across(su, sv, du, dv, e, p) = 0
         \/ Across(su, sv, du, dv, e, q) = 0
         \/ Opposite(Across(su, sv, du, dv, e, p),
                     Across(su, sv, du, dv, e, q))
         \/ /\ Opposite(Across(su, sv, du, dv, a, p),
                        Across(su, sv, du, dv, e, p))
            /\ InsideOf(sv, p, dv)
         \/ /\ Opposite(Across(su, sv, du, dv, a, q),
                        Across(su, sv, du, dv, e, q))
            /\ InsideOf(sv, q, dv)
<1> DEFINE ep == Across(su, sv, du, dv, e, p)
           eq == Across(su, sv, du, dv, e, q)
           ap == Across(su, sv, du, dv, a, p)
           aq == Across(su, sv, du, dv, a, q)
<1>1. ep \in Int /\ eq \in Int /\ ap \in Int /\ aq \in Int
  BY AcrossInt
<1>2. ep < eq /\ ap < aq
  <2>1. su < du
    OBVIOUS
  <2> QED
    BY <2>1, Rises
<1>3. /\ ep > 0 \/ eq > 0 \/ ap > 0 \/ aq > 0
      /\ ep < 0 \/ eq < 0 \/ ap < 0 \/ aq < 0
  OBVIOUS
<1>4. ASSUME ep > 0, ap < 0 PROVE dv < p
  BY <1>4, Falls
<1>5. ASSUME eq < 0, aq > 0 PROVE q < dv
  BY <1>5, Climbs
<1> HIDE DEF ep, eq, ap, aq
<1>6. CASE ep = 0 \/ eq = 0
  BY <1>6 DEF ep, eq
<1>7. CASE ep < 0 /\ eq > 0
  BY <1>7 DEF ep, eq, Opposite
<1>8. CASE ep > 0
  <2>1. ap < 0
    BY <1>1, <1>2, <1>3, <1>8
  <2>2. InsideOf(sv, p, dv)
    BY <1>4, <1>8, <2>1 DEF InsideOf
  <2>3. Opposite(ap, ep)
    BY <1>8, <2>1 DEF Opposite
  <2> QED
    BY <2>2, <2>3 DEF ep, ap
<1>9. CASE eq < 0
  <2>1. aq > 0
    BY <1>1, <1>2, <1>3, <1>9
  <2>2. InsideOf(sv, q, dv)
    BY <1>5, <1>9, <2>1 DEF InsideOf
  <2>3. Opposite(aq, eq)
    BY <1>9, <2>1 DEF Opposite
  <2> QED
    BY <2>2, <2>3 DEF eq, aq
<1> QED
  BY <1>1, <1>2, <1>6, <1>7, <1>8, <1>9

(* The rectangle has corners on both sides of the line. *)
BothSides(su, sv, du, dv, a, e, p, q) ==
  /\ \E x \in {a, e}, y \in {p, q} : Across(su, sv, du, dv, x, y) > 0
  /\ \E x \in {a, e}, y \in {p, q} : Across(su, sv, du, dv, x, y) < 0

(* The path goes through a corner, or through a wall on u = x or on v = y. *)
Hits(su, sv, du, dv, a, e, p, q) ==
  \/ \E x \in {a, e}, y \in {p, q} :
       /\ Across(su, sv, du, dv, x, y) = 0
       /\ InsideOf(su, x, du) \/ InsideOf(sv, y, dv)
  \/ \E x \in {a, e} :
       /\ InsideOf(su, x, du)
       /\ Opposite(Across(su, sv, du, dv, x, p), Across(su, sv, du, dv, x, q))
  \/ \E y \in {p, q} :
       /\ InsideOf(sv, y, dv)
       /\ Opposite(Across(su, sv, du, dv, a, y), Across(su, sv, du, dv, e, y))

LEMMA ExitHits ==
  ASSUME NEW su \in Int, NEW sv \in Int, NEW du \in Int, NEW dv \in Int,
         NEW a \in Int, NEW e \in Int, NEW p \in Int, NEW q \in Int,
         a < e, p < q, su < e, e < du, sv > p \/ dv > p, sv < q \/ dv < q,
         BothSides(su, sv, du, dv, a, e, p, q)
  PROVE  Hits(su, sv, du, dv, a, e, p, q)
<1> DEFINE F(x, y) == Across(su, sv, du, dv, x, y)
<1>1. \/ F(e, p) = 0
      \/ F(e, q) = 0
      \/ Opposite(F(e, p), F(e, q))
      \/ Opposite(F(a, p), F(e, p)) /\ InsideOf(sv, p, dv)
      \/ Opposite(F(a, q), F(e, q)) /\ InsideOf(sv, q, dv)
  BY Exit DEF BothSides
<1>2. InsideOf(su, e, du)
  BY DEF InsideOf
<1>3. Hits(su, sv, du, dv, a, e, p, q) <=>
        \/ \E x \in {a, e}, y \in {p, q} :
             F(x, y) = 0 /\ (InsideOf(su, x, du) \/ InsideOf(sv, y, dv))
        \/ \E x \in {a, e} :
             InsideOf(su, x, du) /\ Opposite(F(x, p), F(x, q))
        \/ \E y \in {p, q} :
             InsideOf(sv, y, dv) /\ Opposite(F(a, y), F(e, y))
  BY DEF Hits
<1> HIDE DEF F
<1> QED
  BY <1>1, <1>2, <1>3

LEMMA OppositeNegated ==
  ASSUME NEW x \in Int, NEW y \in Int
  PROVE  /\ Opposite(-x, -y) <=> Opposite(x, y)
         /\ Opposite(y, x) <=> Opposite(x, y)
BY DEF Opposite

(* A path and its mirror image. *)
LEMMA MirrorHits ==
  ASSUME NEW su \in Int, NEW sv \in Int, NEW du \in Int, NEW dv \in Int,
         NEW a \in Int, NEW e \in Int, NEW p \in Int, NEW q \in Int
  PROVE  /\ BothSides(su, sv, du, dv, a, e, p, q)
              => BothSides(-su, sv, -du, dv, -e, -a, p, q)
         /\ Hits(-su, sv, -du, dv, -e, -a, p, q)
              => Hits(su, sv, du, dv, a, e, p, q)
<1> DEFINE F(x, y) == Across(su, sv, du, dv, x, y)
           G(u, v) == Across(-su, sv, -du, dv, u, v)
<1>1. ASSUME NEW x \in {a, e}, NEW y \in {p, q}
      PROVE  /\ F(x, y) \in Int
             /\ G(-x, y) = -F(x, y)
             /\ -x \in {-e, -a}
             /\ InsideOf(-su, -x, -du) => InsideOf(su, x, du)
  <2>1. x \in Int /\ y \in Int
    OBVIOUS
  <2>2. F(x, y) \in Int
    BY <2>1, AcrossInt
  <2>3. G(-x, y) = -F(x, y)
    <3> DEFINE c == du - su
               f == y - sv
               g == dv - sv
               h == x - su
    <3>1. /\ c \in Int /\ f \in Int /\ g \in Int /\ h \in Int
          /\ (-du) - (-su) = -c /\ (-x) - (-su) = -h
      BY <2>1
    <3>2. F(x, y) = c * f - g * h /\ G(-x, y) = (-c) * f - g * (-h)
      BY <3>1 DEF Across
    <3> HIDE DEF c, f, g, h, F, G
    <3> QED
      BY <3>1, <3>2
  <2>4. InsideOf(-su, -x, -du) => InsideOf(su, x, du)
    BY <2>1 DEF InsideOf
  <2> HIDE DEF F, G
  <2> QED
    BY <2>1, <2>2, <2>3, <2>4
<1>2. \A u \in {-e, -a} : \E x \in {a, e} : u = -x
  OBVIOUS
<1>3. Hits(su, sv, du, dv, a, e, p, q) <=>
        \/ \E x \in {a, e}, y \in {p, q} :
             F(x, y) = 0 /\ (InsideOf(su, x, du) \/ InsideOf(sv, y, dv))
        \/ \E x \in {a, e} :
             InsideOf(su, x, du) /\ Opposite(F(x, p), F(x, q))
        \/ \E y \in {p, q} :
             InsideOf(sv, y, dv) /\ Opposite(F(a, y), F(e, y))
  BY DEF Hits
<1>4. Hits(-su, sv, -du, dv, -e, -a, p, q) <=>
        \/ \E u \in {-e, -a}, v \in {p, q} :
             G(u, v) = 0 /\ (InsideOf(-su, u, -du) \/ InsideOf(sv, v, dv))
        \/ \E u \in {-e, -a} :
             InsideOf(-su, u, -du) /\ Opposite(G(u, p), G(u, q))
        \/ \E v \in {p, q} :
             InsideOf(sv, v, dv) /\ Opposite(G(-e, v), G(-a, v))
  BY DEF Hits
<1>5. BothSides(su, sv, du, dv, a, e, p, q) <=>
        /\ \E x \in {a, e}, y \in {p, q} : F(x, y) > 0
        /\ \E x \in {a, e}, y \in {p, q} : F(x, y) < 0
  BY DEF BothSides
<1>6. BothSides(-su, sv, -du, dv, -e, -a, p, q) <=>
        /\ \E u \in {-e, -a}, v \in {p, q} : G(u, v) > 0
        /\ \E u \in {-e, -a}, v \in {p, q} : G(u, v) < 0
  BY DEF BothSides
<1> HIDE DEF F, G
<1>7. ASSUME BothSides(su, sv, du, dv, a, e, p, q)
      PROVE  BothSides(-su, sv, -du, dv, -e, -a, p, q)
  <2>1. PICK x \in {a, e}, y \in {p, q} : F(x, y) > 0
    BY <1>5, <1>7
  <2>2. G(-x, y) < 0 /\ -x \in {-e, -a}
    BY <1>1, <2>1
  <2>3. PICK z \in {a, e}, w \in {p, q} : F(z, w) < 0
    BY <1>5, <1>7
  <2>4. G(-z, w) > 0 /\ -z \in {-e, -a}
    BY <1>1, <2>3
  <2> QED
    BY <1>6, <2>2, <2>4
<1>8. ASSUME NEW u \in {-e, -a}, NEW v \in {p, q}, G(u, v) = 0,
             InsideOf(-su, u, -du) \/ InsideOf(sv, v, dv)
      PROVE  Hits(su, sv, du, dv, a, e, p, q)
  <2>1. PICK x \in {a, e} : u = -x
    BY <1>2
  <2>2. F(x, v) = 0
    BY <1>1, <1>8, <2>1
  <2>3. InsideOf(su, x, du) \/ InsideOf(sv, v, dv)
    BY <1>1, <1>8, <2>1
  <2> QED
    BY <1>3, <2>2, <2>3
<1>9. ASSUME NEW u \in {-e, -a}, InsideOf(-su, u, -du),
             Opposite(G(u, p), G(u, q))
      PROVE  Hits(su, sv, du, dv, a, e, p, q)
  <2>1. PICK x \in {a, e} : u = -x
    BY <1>2
  <2>2. /\ F(x, p) \in Int /\ F(x, q) \in Int /\ InsideOf(su, x, du)
        /\ G(u, p) = -F(x, p) /\ G(u, q) = -F(x, q)
    BY <1>1, <1>9, <2>1
  <2>3. Opposite(F(x, p), F(x, q))
    BY <1>9, <2>2, OppositeNegated
  <2> QED
    BY <1>3, <2>2, <2>3
<1>10. ASSUME NEW v \in {p, q}, InsideOf(sv, v, dv),
              Opposite(G(-e, v), G(-a, v))
       PROVE  Hits(su, sv, du, dv, a, e, p, q)
  <2>1. /\ F(a, v) \in Int /\ F(e, v) \in Int
        /\ G(-a, v) = -F(a, v) /\ G(-e, v) = -F(e, v)
    BY <1>1
  <2>2. Opposite(F(a, v), F(e, v))
    BY <1>10, <2>1 DEF Opposite
  <2> QED
    BY <1>3, <1>10, <2>2
<1> QED
  BY <1>4, <1>7, <1>8, <1>9, <1>10

(* A path with u and v exchanged. *)
LEMMA SwapHits ==
  ASSUME NEW su \in Int, NEW sv \in Int, NEW du \in Int, NEW dv \in Int,
         NEW a \in Int, NEW e \in Int, NEW p \in Int, NEW q \in Int
  PROVE  /\ BothSides(su, sv, du, dv, a, e, p, q)
              => BothSides(sv, su, dv, du, p, q, a, e)
         /\ Hits(sv, su, dv, du, p, q, a, e)
              => Hits(su, sv, du, dv, a, e, p, q)
<1> DEFINE F(x, y) == Across(su, sv, du, dv, x, y)
           G(u, v) == Across(sv, su, dv, du, u, v)
<1>1. ASSUME NEW x \in {a, e}, NEW y \in {p, q}
      PROVE  F(x, y) \in Int /\ G(y, x) = -F(x, y)
  <2>1. x \in Int /\ y \in Int
    OBVIOUS
  <2>2. F(x, y) \in Int
    BY <2>1, AcrossInt
  <2>3. G(y, x) = -F(x, y)
    BY <2>1, SwapAcross
  <2> QED
    BY <2>2, <2>3
<1>3. Hits(su, sv, du, dv, a, e, p, q) <=>
        \/ \E x \in {a, e}, y \in {p, q} :
             F(x, y) = 0 /\ (InsideOf(su, x, du) \/ InsideOf(sv, y, dv))
        \/ \E x \in {a, e} :
             InsideOf(su, x, du) /\ Opposite(F(x, p), F(x, q))
        \/ \E y \in {p, q} :
             InsideOf(sv, y, dv) /\ Opposite(F(a, y), F(e, y))
  BY DEF Hits
<1>4. Hits(sv, su, dv, du, p, q, a, e) <=>
        \/ \E y \in {p, q}, x \in {a, e} :
             G(y, x) = 0 /\ (InsideOf(sv, y, dv) \/ InsideOf(su, x, du))
        \/ \E y \in {p, q} :
             InsideOf(sv, y, dv) /\ Opposite(G(y, a), G(y, e))
        \/ \E x \in {a, e} :
             InsideOf(su, x, du) /\ Opposite(G(p, x), G(q, x))
  BY DEF Hits
<1>5. BothSides(su, sv, du, dv, a, e, p, q) <=>
        /\ \E x \in {a, e}, y \in {p, q} : F(x, y) > 0
        /\ \E x \in {a, e}, y \in {p, q} : F(x, y) < 0
  BY DEF BothSides
<1>6. BothSides(sv, su, dv, du, p, q, a, e) <=>
        /\ \E y \in {p, q}, x \in {a, e} : G(y, x) > 0
        /\ \E y \in {p, q}, x \in {a, e} : G(y, x) < 0
  BY DEF BothSides
<1> HIDE DEF F, G
<1>7. ASSUME BothSides(su, sv, du, dv, a, e, p, q)
      PROVE  BothSides(sv, su, dv, du, p, q, a, e)
  <2>1. PICK x \in {a, e}, y \in {p, q} : F(x, y) > 0
    BY <1>5, <1>7
  <2>2. G(y, x) < 0
    BY <1>1, <2>1
  <2>3. PICK z \in {a, e}, w \in {p, q} : F(z, w) < 0
    BY <1>5, <1>7
  <2>4. G(w, z) > 0
    BY <1>1, <2>3
  <2> QED
    BY <1>6, <2>2, <2>4
<1>8. ASSUME NEW x \in {a, e}, NEW y \in {p, q}, G(y, x) = 0,
             InsideOf(sv, y, dv) \/ InsideOf(su, x, du)
      PROVE  Hits(su, sv, du, dv, a, e, p, q)
  <2>1. F(x, y) = 0
    BY <1>1, <1>8
  <2> QED
    BY <1>3, <1>8, <2>1
<1>9. ASSUME NEW y \in {p, q}, InsideOf(sv, y, dv),
             Opposite(G(y, a), G(y, e))
      PROVE  Hits(su, sv, du, dv, a, e, p, q)
  <2>1. /\ F(a, y) \in Int /\ F(e, y) \in Int
        /\ G(y, a) = -F(a, y) /\ G(y, e) = -F(e, y)
    BY <1>1
  <2>2. Opposite(F(a, y), F(e, y))
    BY <1>9, <2>1, OppositeNegated
  <2> QED
    BY <1>3, <1>9, <2>2
<1>10. ASSUME NEW x \in {a, e}, InsideOf(su, x, du),
              Opposite(G(p, x), G(q, x))
       PROVE  Hits(su, sv, du, dv, a, e, p, q)
  <2>1. /\ F(x, p) \in Int /\ F(x, q) \in Int
        /\ G(p, x) = -F(x, p) /\ G(q, x) = -F(x, q)
    BY <1>1
  <2>2. Opposite(F(x, p), F(x, q))
    BY <1>10, <2>1, OppositeNegated
  <2> QED
    BY <1>3, <1>10, <2>2
<1> QED
  BY <1>4, <1>7, <1>8, <1>9, <1>10

(* A path that ends outside of the rectangle. *)
LEMMA LeavesHits ==
  ASSUME NEW su \in Int, NEW sv \in Int, NEW du \in Int, NEW dv \in Int,
         NEW a \in Int, NEW e \in Int, NEW p \in Int, NEW q \in Int,
         a < e, p < q, su > a \/ du > a, su < e \/ du < e,
         sv > p \/ dv > p, sv < q \/ dv < q,
         BothSides(su, sv, du, dv, a, e, p, q),
         du < a \/ du > e \/ dv < p \/ dv > q
  PROVE  Hits(su, sv, du, dv, a, e, p, q)
<1>1. CASE du > e
  <2>1. su < e
    BY <1>1
  <2> QED
    BY <1>1, <2>1, ExitHits
<1>2. CASE du < a
  <2>1. BothSides(-su, sv, -du, dv, -e, -a, p, q)
    BY MirrorHits
  <2>2. /\ -su \in Int /\ -du \in Int /\ -e \in Int /\ -a \in Int
        /\ -e < -a /\ -su < -a /\ -a < -du
    BY <1>2
  <2>3. Hits(-su, sv, -du, dv, -e, -a, p, q)
    BY <2>1, <2>2, ExitHits
  <2> QED
    BY <2>3, MirrorHits
<1>3. CASE dv > q
  <2>1. BothSides(sv, su, dv, du, p, q, a, e)
    BY SwapHits
  <2>2. sv < q
    BY <1>3
  <2>3. Hits(sv, su, dv, du, p, q, a, e)
    BY <1>3, <2>1, <2>2, ExitHits
  <2> QED
    BY <2>3, SwapHits
<1>4. CASE dv < p
  <2>1. BothSides(sv, su, dv, du, p, q, a, e)
    BY SwapHits
  <2>2. BothSides(-sv, su, -dv, du, -q, -p, a, e)
    BY <2>1, MirrorHits
  <2>3. /\ -sv \in Int /\ -dv \in Int /\ -q \in Int /\ -p \in Int
        /\ -q < -p /\ -sv < -p /\ -p < -dv
    BY <1>4
  <2>4. Hits(-sv, su, -dv, du, -q, -p, a, e)
    BY <2>2, <2>3, ExitHits
  <2>5. Hits(sv, su, dv, du, p, q, a, e)
    BY <2>4, MirrorHits
  <2> QED
    BY <2>5, SwapHits
<1> QED
  BY <1>1, <1>2, <1>3, <1>4

-----------------------------------------------------------------------------
(* What intersect finds *)

(* The ends of the path are on both sides of the wall, and those of the    *)
(* wall on both sides of the path.                                         *)
LEMMA Found ==
  ASSUME NEW s \in Point, NEW d \in Point, NEW p \in Point, NEW q \in Point,
         Opposite(Side(s, d, p), Side(s, d, q)),
         Opposite(Side(p, q, s), Side(p, q, d))
  PROVE  Intersect(s, d, p, q)
<1> DEFINE dx == d[1] - s[1]
           dy == d[2] - s[2]
           ex == q[1] - p[1]
           ey == q[2] - p[2]
           x == s[1] - p[1]
           y == s[2] - p[2]
           den == ey * dx - ex * dy
           na == ex * y - ey * x
           nb == dx * y - dy * x
<1>1. /\ dx \in Int /\ dy \in Int /\ ex \in Int /\ ey \in Int
      /\ x \in Int /\ y \in Int
      /\ p[1] - s[1] = -x /\ p[2] - s[2] = -y
      /\ q[1] - s[1] = ex - x /\ q[2] - s[2] = ey - y
      /\ d[1] - p[1] = x + dx /\ d[2] - p[2] = y + dy
  BY DEF Point
<1>2. /\ Side(s, d, p) = dx * (-y) - dy * (-x)
      /\ Side(s, d, q) = dx * (ey - y) - dy * (ex - x)
      /\ Side(p, q, s) = ex * y - ey * x
      /\ Side(p, q, d) = ex * (y + dy) - ey * (x + dx)
  BY <1>1 DEF Side
<1>3. Intersect(s, d, p, q) <=>
        \/ den = 0 /\ na = 0 /\ nb = 0
        \/ den # 0 /\ Between(na, den) /\ Between(nb, den)
  BY DEF Intersect
<1> HIDE DEF dx, dy, ex, ey, x, y
<1>4. /\ den \in Int /\ na \in Int /\ nb \in Int
      /\ Side(s, d, p) = -nb /\ Side(s, d, q) = den - nb
      /\ Side(p, q, s) = na /\ Side(p, q, d) = na - den
  BY <1>1, <1>2
<1> HIDE DEF den, na, nb
<1> QED
  BY <1>3, <1>4 DEF Between, Opposite

LEMMA MulSign ==
  ASSUME NEW x \in Int, NEW y \in Int, x # 0
  PROVE  y # 0 => x * y # 0 /\ (x * y > 0 <=> (x > 0 <=> y > 0))
<1>1. CASE x > 0
  BY <1>1
<1>2. CASE x < 0
  <2>1. (-x) * y = -(x * y)
    OBVIOUS
  <2> QED
    BY <1>2, <2>1
<1> QED
  BY <1>1, <1>2

(* Of the factor k, which is the length of a wall. *)
LEMMA OppositeFactors ==
  ASSUME NEW k \in Int, NEW a \in Int, NEW b \in Int, k # 0, Opposite(a, b)
  PROVE  Opposite(k * a, k * b)
<1>1. a # 0 /\ b # 0 /\ k * a \in Int /\ k * b \in Int /\ (a > 0 <=> ~(b > 0))
  BY DEF Opposite
<1>2. k * a # 0 /\ (k * a > 0 <=> (k > 0 <=> a > 0))
  BY <1>1, MulSign
<1>3. k * b # 0 /\ (k * b > 0 <=> (k > 0 <=> b > 0))
  BY <1>1, MulSign
<1> QED
  BY <1>1, <1>2, <1>3 DEF Opposite

LEMMA UprightWall ==
  ASSUME NEW s \in Point, NEW d \in Point, NEW o \in Objects,
         NEW x \in {o[1], o[3]}, InsideOf(s[1], x, d[1]),
         Opposite(Side(s, d, <<x, o[2]>>), Side(s, d, <<x, o[4]>>))
  PROVE  PassesThrough(s, d, o)
<1> DEFINE p == <<x, o[2]>>
           q == <<x, o[4]>>
           k == o[2] - o[4]
<1>1. /\ x \in Int /\ o[2] \in Int /\ o[4] \in Int /\ o[2] < o[4]
      /\ s[1] \in Int /\ d[1] \in Int /\ s[2] \in Int /\ d[2] \in Int
  BY ObjectFacts DEF Point
<1>2. p \in Point /\ q \in Point
  BY <1>1 DEF Point
<1>3. /\ Side(p, q, s) = (x - x) * (s[2] - o[2]) - (o[4] - o[2]) * (s[1] - x)
      /\ Side(p, q, d) = (x - x) * (d[2] - o[2]) - (o[4] - o[2]) * (d[1] - x)
  BY DEF Side
<1>4. Side(p, q, s) = k * (s[1] - x) /\ Side(p, q, d) = k * (d[1] - x)
  <2>1. (x - x) * (s[2] - o[2]) = 0 /\ (x - x) * (d[2] - o[2]) = 0
    BY <1>1
  <2>2. ASSUME NEW t \in Int PROVE 0 - (o[4] - o[2]) * t = k * t
    BY <1>1
  <2>3. s[1] - x \in Int /\ d[1] - x \in Int
    BY <1>1
  <2> QED
    BY <1>3, <2>1, <2>2, <2>3
<1>5. Opposite(s[1] - x, d[1] - x) /\ k # 0 /\ k \in Int
  BY <1>1 DEF InsideOf, Opposite
<1>6. Opposite(k * (s[1] - x), k * (d[1] - x))
  <2>1. s[1] - x \in Int /\ d[1] - x \in Int
    BY <1>1
  <2> HIDE DEF k
  <2> QED
    BY <1>5, <2>1, OppositeFactors
<1>7. Intersect(s, d, p, q)
  BY <1>2, <1>4, <1>6, Found
<1>8. <<p, q>> \in Walls(o)
  BY <1>1 DEF Walls, Corners
<1> QED
  BY <1>7, <1>8 DEF PassesThrough

LEMMA LevelWall ==
  ASSUME NEW s \in Point, NEW d \in Point, NEW o \in Objects,
         NEW y \in {o[2], o[4]}, InsideOf(s[2], y, d[2]),
         Opposite(Side(s, d, <<o[1], y>>), Side(s, d, <<o[3], y>>))
  PROVE  PassesThrough(s, d, o)
<1> DEFINE p == <<o[1], y>>
           q == <<o[3], y>>
           k == o[3] - o[1]
<1>1. /\ y \in Int /\ o[1] \in Int /\ o[3] \in Int /\ o[1] < o[3]
      /\ s[1] \in Int /\ d[1] \in Int /\ s[2] \in Int /\ d[2] \in Int
  BY ObjectFacts DEF Point
<1>2. p \in Point /\ q \in Point
  BY <1>1 DEF Point
<1>3. /\ Side(p, q, s) = (o[3] - o[1]) * (s[2] - y) - (y - y) * (s[1] - o[1])
      /\ Side(p, q, d) = (o[3] - o[1]) * (d[2] - y) - (y - y) * (d[1] - o[1])
  BY DEF Side
<1>4. Side(p, q, s) = k * (s[2] - y) /\ Side(p, q, d) = k * (d[2] - y)
  BY <1>1, <1>3
<1>5. Opposite(s[2] - y, d[2] - y) /\ k # 0 /\ k \in Int
  BY <1>1 DEF InsideOf, Opposite
<1>6. Opposite(k * (s[2] - y), k * (d[2] - y))
  <2>1. s[2] - y \in Int /\ d[2] - y \in Int
    BY <1>1
  <2> HIDE DEF k
  <2> QED
    BY <1>5, <2>1, OppositeFactors
<1>7. Intersect(s, d, p, q)
  BY <1>2, <1>4, <1>6, Found
<1>8. <<p, q>> \in Walls(o)
  BY <1>1 DEF Walls, Corners
<1> QED
  BY <1>7, <1>8 DEF PassesThrough

(* The numbers of steps to a point on the path, in both directions.        *)
LEMMA PartOf ==
  ASSUME NEW dx \in Int, NEW dy \in Int, NEW ex \in Int, NEW ey \in Int,
         dx * ey = dy * ex, 0 < ex, ex < dx
  PROVE  /\ ey * ey <= dy * dy
         /\ (dy - ey) * (dy - ey) <= dy * dy
         /\ ex * ex <= dx * dx
         /\ (dx - ex) * (dx - ex) <= dx * dx
<1>1. CASE dy >= 0
  <2>1. dy * ex >= 0 /\ dy * ex <= dy * dx /\ dy * dx = dx * dy
    BY <1>1
  <2>2. ey >= 0
    BY <2>1
  <2>3. ey <= dy
    <3>1. SUFFICES ASSUME dy < ey PROVE FALSE
      OBVIOUS
    <3>2. dx * ey = dx * dy + dx * (ey - dy) /\ dx * (ey - dy) > 0
      BY <3>1
    <3>3. dx * dy \in Int /\ dx * (ey - dy) \in Int /\ dx * ey \in Int
      OBVIOUS
    <3> QED
      BY <2>1, <3>2, <3>3
  <2> QED
    BY <1>1, <2>2, <2>3, ProductMonotone
<1>2. CASE dy < 0
  <2> DEFINE z == -dy
             w == -ey
  <2>1. z \in Nat /\ w \in Int /\ dx * w = z * ex
    BY <1>2
  <2>2. dy * dy = z * z /\ ey * ey = w * w
        /\ (dy - ey) * (dy - ey) = (z - w) * (z - w)
    OBVIOUS
  <2> HIDE DEF z, w
  <2>3. z * ex >= 0 /\ z * ex <= z * dx /\ z * dx = dx * z
    BY <2>1
  <2>4. w >= 0
    BY <2>1, <2>3
  <2>5. w <= z
    <3>1. SUFFICES ASSUME z < w PROVE FALSE
      BY <2>1
    <3>2. dx * w = dx * z + dx * (w - z) /\ dx * (w - z) > 0
      BY <2>1, <3>1
    <3>3. dx * z \in Int /\ dx * (w - z) \in Int /\ dx * w \in Int
      BY <2>1
    <3> QED
      BY <2>1, <2>3, <3>2, <3>3
  <2>6. w \in Nat /\ z - w \in Nat /\ z - w <= z
    BY <2>1, <2>4, <2>5
  <2>7. w * w <= z * z /\ (z - w) * (z - w) <= z * z
    BY <2>1, <2>5, <2>6, ProductMonotone
  <2>8. ex * ex <= dx * dx /\ (dx - ex) * (dx - ex) <= dx * dx
    <3>1. ex \in Nat /\ dx \in Nat /\ dx - ex \in Nat /\ dx - ex <= dx
      OBVIOUS
    <3> QED
      BY <3>1, ProductMonotone
  <2> QED
    BY <2>2, <2>7, <2>8
<1> QED
  BY <1>1, <1>2

LEMMA PartOfEitherWay ==
  ASSUME NEW dx \in Int, NEW dy \in Int, NEW ex \in Int, NEW ey \in Int,
         dx * ey = dy * ex, InsideOf(0, ex, dx)
  PROVE  /\ ey * ey <= dy * dy
         /\ (dy - ey) * (dy - ey) <= dy * dy
         /\ ex * ex <= dx * dx
         /\ (dx - ex) * (dx - ex) <= dx * dx
<1>1. CASE 0 < ex /\ ex < dx
  BY <1>1, PartOf
<1>2. CASE dx < ex /\ ex < 0
  <2> DEFINE u == -dx
             w == -ex
  <2>1. /\ u \in Int /\ w \in Int /\ 0 < w /\ w < u
        /\ u * ey = -(dx * ey) /\ dy * w = -(dy * ex)
    BY <1>2
  <2>2. /\ w * w = ex * ex /\ u * u = dx * dx
        /\ (u - w) * (u - w) = (dx - ex) * (dx - ex)
    OBVIOUS
  <2> HIDE DEF u, w
  <2>3. u * ey = dy * w
    BY <2>1
  <2>4. /\ ey * ey <= dy * dy
        /\ (dy - ey) * (dy - ey) <= dy * dy
        /\ w * w <= u * u
        /\ (u - w) * (u - w) <= u * u
    BY <2>1, <2>3, PartOf
  <2> QED
    BY <2>2, <2>4
<1> QED
  BY <1>1, <1>2 DEF InsideOf

LEMMA CornerOn ==
  ASSUME NEW s \in Point, NEW d \in Point, NEW c \in Point,
         Side(s, d, c) = 0,
         InsideOf(s[1], c[1], d[1]) \/ InsideOf(s[2], c[2], d[2])
  PROVE  IsOn(c, s, d)
<1> DEFINE dx == d[1] - s[1]
           dy == d[2] - s[2]
           ex == c[1] - s[1]
           ey == c[2] - s[2]
<1>1. /\ dx \in Int /\ dy \in Int /\ ex \in Int /\ ey \in Int
      /\ s[1] - c[1] = -ex /\ s[2] - c[2] = -ey
      /\ s[1] - d[1] = -dx /\ s[2] - d[2] = -dy
      /\ c[1] - d[1] = -(dx - ex) /\ c[2] - d[2] = -(dy - ey)
      /\ InsideOf(0, ex, dx) \/ InsideOf(0, ey, dy)
  BY DEF Point, InsideOf
<1>2. Side(s, d, c) = dx * ey - dy * ex
  BY DEF Side
<1>3. /\ Square(s, c) = (-ex) * (-ex) + (-ey) * (-ey)
      /\ Square(s, d) = (-dx) * (-dx) + (-dy) * (-dy)
      /\ Square(c, d) = (-(dx - ex)) * (-(dx - ex))
                          + (-(dy - ey)) * (-(dy - ey))
  BY <1>1 DEF Square
<1>4. IsOn(c, s, d) <=> /\ dx * ey = dy * ex
                        /\ Square(s, c) <= Square(s, d)
                        /\ Square(c, d) <= Square(s, d)
  BY DEF IsOn
<1> HIDE DEF dx, dy, ex, ey
<1>5. /\ (-ex) * (-ex) = ex * ex /\ (-ey) * (-ey) = ey * ey
      /\ (-dx) * (-dx) = dx * dx /\ (-dy) * (-dy) = dy * dy
      /\ (-(dx - ex)) * (-(dx - ex)) = (dx - ex) * (dx - ex)
      /\ (-(dy - ey)) * (-(dy - ey)) = (dy - ey) * (dy - ey)
  BY <1>1
<1>6. dx * ey = dy * ex /\ dy * ex = dx * ey
  <2>1. dx * ey \in Int /\ dy * ex \in Int
    BY <1>1
  <2> QED
    BY <1>2, <2>1
<1>7. /\ ey * ey <= dy * dy /\ (dy - ey) * (dy - ey) <= dy * dy
      /\ ex * ex <= dx * dx /\ (dx - ex) * (dx - ex) <= dx * dx
  <2>1. CASE InsideOf(0, ex, dx)
    BY <1>1, <1>6, <2>1, PartOfEitherWay
  <2>2. CASE InsideOf(0, ey, dy)
    BY <1>1, <1>6, <2>2, PartOfEitherWay
  <2> QED
    BY <1>1, <2>1, <2>2
<1>8. /\ ey * ey \in Int /\ dy * dy \in Int /\ ex * ex \in Int
      /\ dx * dx \in Int /\ (dx - ex) * (dx - ex) \in Int
      /\ (dy - ey) * (dy - ey) \in Int
  BY <1>1
<1> QED
  BY <1>3, <1>4, <1>5, <1>6, <1>7, <1>8

-----------------------------------------------------------------------------
(* A path that crosses a building *)

LEMMA CrossesFacts ==
  ASSUME NEW s \in Nat \X Nat, NEW d \in Nat \X Nat, NEW o \in Objects,
         Crosses(s, d, o)
  PROVE  /\ s[1] > o[1] \/ d[1] > o[1]
         /\ s[2] > o[2] \/ d[2] > o[2]
         /\ s[1] < o[3] \/ d[1] < o[3]
         /\ s[2] < o[4] \/ d[2] < o[4]
         /\ \E x \in {o[1], o[3]}, y \in {o[2], o[4]} :
              Across(s[1], s[2], d[1], d[2], x, y) > 0
         /\ \E x \in {o[1], o[3]}, y \in {o[2], o[4]} :
              Across(s[1], s[2], d[1], d[2], x, y) < 0
<1>1. /\ ~({s[1], d[1]} \subseteq 0 .. o[1])
      /\ ~({s[2], d[2]} \subseteq 0 .. o[2])
      /\ \E p \in {s, d} : p[1] < o[3]
      /\ \E p \in {s, d} : p[2] < o[4]
      /\ \E c \in Corners(o) : Side(s, d, c) > 0
      /\ \E c \in Corners(o) : Side(s, d, c) < 0
  BY DEF Crosses, Side
<1>2. /\ s[1] \in Nat /\ s[2] \in Nat /\ d[1] \in Nat /\ d[2] \in Nat
      /\ o[1] \in Nat /\ o[2] \in Nat
  BY ObjectFacts
<1>3. ASSUME NEW c \in Corners(o)
      PROVE  /\ c[1] \in {o[1], o[3]} /\ c[2] \in {o[2], o[4]}
             /\ Side(s, d, c) = Across(s[1], s[2], d[1], d[2], c[1], c[2])
  BY <1>3 DEF Corners, Side, Across
<1>4. \E x \in {o[1], o[3]}, y \in {o[2], o[4]} :
        Across(s[1], s[2], d[1], d[2], x, y) > 0
  BY <1>1, <1>3
<1>5. \E x \in {o[1], o[3]}, y \in {o[2], o[4]} :
        Across(s[1], s[2], d[1], d[2], x, y) < 0
  BY <1>1, <1>3
<1>6. (s[1] > o[1] \/ d[1] > o[1]) /\ (s[2] > o[2] \/ d[2] > o[2])
  BY <1>1, <1>2
<1>7. (s[1] < o[3] \/ d[1] < o[3]) /\ (s[2] < o[4] \/ d[2] < o[4])
  BY <1>1
<1> QED
  BY <1>4, <1>5, <1>6, <1>7

(* A path that crosses a building and ends outside of it is found by       *)
(* intersect, or goes through a corner.                                    *)
LEMMA CrossesIsFound ==
  ASSUME NEW s \in Nat \X Nat, NEW d \in Nat \X Nat, NEW o \in Objects,
         Crosses(s, d, o), ~Within(d, o)
  PROVE  PassesThrough(s, d, o) \/ \E c \in Corners(o) : IsOn(c, s, d)
<1>1. /\ s[1] \in Int /\ s[2] \in Int /\ d[1] \in Int /\ d[2] \in Int
      /\ o[1] \in Int /\ o[2] \in Int /\ o[3] \in Int /\ o[4] \in Int
      /\ o[1] < o[3] /\ o[2] < o[4] /\ s \in Point /\ d \in Point
  BY ObjectFacts DEF Point
<1>2. d[1] < o[1] \/ d[1] > o[3] \/ d[2] < o[2] \/ d[2] > o[4]
  BY <1>1 DEF Within
<1>3. /\ s[1] > o[1] \/ d[1] > o[1]
      /\ s[2] > o[2] \/ d[2] > o[2]
      /\ s[1] < o[3] \/ d[1] < o[3]
      /\ s[2] < o[4] \/ d[2] < o[4]
      /\ BothSides(s[1], s[2], d[1], d[2], o[1], o[3], o[2], o[4])
  BY CrossesFacts DEF BothSides
<1>4. Hits(s[1], s[2], d[1], d[2], o[1], o[3], o[2], o[4])
  BY <1>1, <1>2, <1>3, LeavesHits
<1> DEFINE F(x, y) == Across(s[1], s[2], d[1], d[2], x, y)
<1>5. \/ \E x \in {o[1], o[3]}, y \in {o[2], o[4]} :
           /\ F(x, y) = 0
           /\ InsideOf(s[1], x, d[1]) \/ InsideOf(s[2], y, d[2])
      \/ \E x \in {o[1], o[3]} :
           /\ InsideOf(s[1], x, d[1])
           /\ Opposite(F(x, o[2]), F(x, o[4]))
      \/ \E y \in {o[2], o[4]} :
           /\ InsideOf(s[2], y, d[2])
           /\ Opposite(F(o[1], y), F(o[3], y))
  BY <1>4 DEF Hits
<1>6. ASSUME NEW x, NEW y PROVE F(x, y) = Side(s, d, <<x, y>>)
  BY DEF Side, Across
<1> HIDE DEF F
<1>7. ASSUME NEW x \in {o[1], o[3]}, NEW y \in {o[2], o[4]}, F(x, y) = 0,
             InsideOf(s[1], x, d[1]) \/ InsideOf(s[2], y, d[2])
      PROVE  \E c \in Corners(o) : IsOn(c, s, d)
  <2>1. <<x, y>> \in Corners(o) /\ <<x, y>> \in Point
    BY <1>1 DEF Corners, Point
  <2>2. IsOn(<<x, y>>, s, d)
    BY <1>1, <1>6, <1>7, <2>1, CornerOn
  <2> QED
    BY <2>1, <2>2
<1>8. ASSUME NEW x \in {o[1], o[3]}, InsideOf(s[1], x, d[1]),
             Opposite(F(x, o[2]), F(x, o[4]))
      PROVE  PassesThrough(s, d, o)
  BY <1>1, <1>6, <1>8, UprightWall
<1>9. ASSUME NEW y \in {o[2], o[4]}, InsideOf(s[2], y, d[2]),
             Opposite(F(o[1], y), F(o[3], y))
      PROVE  PassesThrough(s, d, o)
  BY <1>1, <1>6, <1>9, LevelWall
<1> QED
  BY <1>5, <1>7, <1>8, <1>9

-----------------------------------------------------------------------------
(* The inductive invariant *)

Near(p, q) ==
  /\ p[1] = q[1] \/ p[1] = q[1] - 1
  /\ p[2] = q[2] \/ p[2] = q[2] - 1

(* The node is on the map, and on a walk around all walls to a place       *)
(* outside of all buildings, or, with no step left, there, or one less by  *)
(* rounding.                                                               *)
IInv ==
  /\ pos \in Places
  /\ paused \in BOOLEAN
  /\ walk \in Walk
  /\ nsteps \in 0 .. walk.steps
  /\ Outside(walk.to)
  /\ walk.from = walk.to \/ ~ThroughAnObject(walk.from, walk.to)
  /\ walk.steps = 0 => paused
  /\ paused => nsteps = 0
  /\ nsteps = 0 => Near(pos, walk.to)

LEMMA InitIInv ==
  ASSUME Init
  PROVE  IInv
<1>1. pos \in Places /\ Outside(pos)
  BY ChosenPosition DEF Init
<1>2. /\ paused = TRUE /\ nsteps = 0
      /\ walk = [from |-> pos, to |-> pos, steps |-> 0]
  BY DEF Init
<1>3. walk \in Walk /\ walk.from = pos /\ walk.to = pos /\ walk.steps = 0
  BY <1>1, <1>2 DEF Walk
<1> QED
  BY <1>1, <1>2, <1>3 DEF IInv, Near

LEMMA StepIInv ==
  ASSUME NEW w \in Walk, NEW left \in Nat, left < w.steps, Step(w, left),
         Outside(w.to), w.from = w.to \/ ~ThroughAnObject(w.from, w.to)
  PROVE  IInv'
<1> DEFINE k == w.steps - left
           a == w.from
           b == w.to
           m1 == mapsize[1]
           m2 == mapsize[2]
<1>1. /\ a[1] \in Nat /\ a[1] < m1 /\ a[2] \in Nat /\ a[2] < m2
      /\ b[1] \in Nat /\ b[1] < m1 /\ b[2] \in Nat /\ b[2] < m2
      /\ m1 \in Nat /\ m2 \in Nat
      /\ w.steps \in Nat \ {0} /\ k \in 0 .. w.steps
      /\ left = 0 => k = w.steps
  BY MapAssumption DEF Walk, Places
<1>2. /\ paused' = FALSE /\ walk' = w /\ nsteps' = left
      /\ pos' \in Coordinate(a[1], b[1], w.steps, k)
                    \X Coordinate(a[2], b[2], w.steps, k)
  BY DEF Step
<1> HIDE DEF k
<1>3. PICK c \in Coordinate(a[1], b[1], w.steps, k),
           e \in Coordinate(a[2], b[2], w.steps, k) : pos' = <<c, e>>
  BY <1>2
<1> DEFINE n == w.steps  a1 == a[1]  a2 == a[2]  b1 == b[1]  b2 == b[2]
<1>4. /\ c \in Nat /\ (c <= a[1] \/ c <= b[1])
      /\ k = w.steps => c = b[1] \/ c = b[1] - 1
  <2>1. /\ a1 \in Nat /\ b1 \in Nat /\ n \in Nat \ {0} /\ k \in 0 .. n
        /\ c \in Coordinate(a1, b1, n, k)
    BY <1>1
  <2> HIDE DEF n, a1, b1
  <2>2. c \in Nat /\ (c <= a1 \/ c <= b1) /\ (k = n => c = b1 \/ c = b1 - 1)
    BY <2>1, CoordinateFacts
  <2> QED
    BY <2>2 DEF n, a1, b1
<1>5. /\ e \in Nat /\ (e <= a[2] \/ e <= b[2])
      /\ k = w.steps => e = b[2] \/ e = b[2] - 1
  <2>1. /\ a2 \in Nat /\ b2 \in Nat /\ n \in Nat \ {0} /\ k \in 0 .. n
        /\ e \in Coordinate(a2, b2, n, k)
    BY <1>1
  <2> HIDE DEF n, a2, b2
  <2>2. e \in Nat /\ (e <= a2 \/ e <= b2) /\ (k = n => e = b2 \/ e = b2 - 1)
    BY <2>1, CoordinateFacts
  <2> QED
    BY <2>2 DEF n, a2, b2
<1>6. pos' \in Places /\ pos'[1] = c /\ pos'[2] = e
  <2>1. c \in 0 .. m1 - 1 /\ e \in 0 .. m2 - 1
    BY <1>1, <1>4, <1>5
  <2> QED
    BY <1>3, <2>1 DEF Places
<1>7. nsteps' = 0 => Near(pos', w.to)
  BY <1>1, <1>2, <1>4, <1>5, <1>6 DEF Near
<1>8. nsteps' \in 0 .. walk'.steps /\ walk'.steps # 0
  BY <1>1, <1>2
<1>9. (ThroughAnObject(w.from, w.to))' = ThroughAnObject(w.from, w.to)
  OBVIOUS
<1> QED
  BY <1>2, <1>6, <1>7, <1>8, <1>9 DEF IInv, Near, Outside

LEMMA NextIInv ==
  ASSUME IInv, [Next]_vars
  PROVE  IInv'
<1>1. ASSUME StartWalk PROVE IInv'
  <2>1. PICK w \in Walks : Step(w, w.steps - 1)
    BY <1>1 DEF StartWalk
  <2>2. /\ w \in Walk /\ w.steps >= 3 /\ Outside(w.to)
        /\ ~ThroughAnObject(w.from, w.to)
    BY ChosenWalk
  <2>3. w.steps - 1 \in Nat /\ w.steps - 1 < w.steps
    BY <2>2 DEF Walk
  <2> QED
    BY <2>1, <2>2, <2>3, StepIInv
<1>2. ASSUME WalkOn PROVE IInv'
  <2>1. nsteps > 0 /\ Step(walk, nsteps - 1)
    BY <1>2 DEF WalkOn
  <2>2. /\ walk \in Walk /\ nsteps \in 0 .. walk.steps /\ Outside(walk.to)
        /\ walk.from = walk.to \/ ~ThroughAnObject(walk.from, walk.to)
    BY DEF IInv
  <2>3. nsteps - 1 \in Nat /\ nsteps - 1 < walk.steps
    BY <2>1, <2>2 DEF Walk
  <2> QED
    BY <2>1, <2>2, <2>3, StepIInv
<1>3. ASSUME Pause PROVE IInv'
  <2>1. /\ nsteps = 0 /\ paused' = TRUE
        /\ pos' = pos /\ walk' = walk /\ nsteps' = nsteps
    BY <1>3 DEF Pause
  <2> QED
    BY <2>1 DEF IInv, Outside, Near
<1>4. ASSUME UNCHANGED vars PROVE IInv'
  BY <1>4 DEF IInv, vars, Outside, Near
<1> QED
  BY <1>1, <1>2, <1>3, <1>4 DEF Next, Walker

(* IInv is inductive (walker, walking.c:28-86), hence an invariant.        *)
THEOREM InvariantHolds == Spec => []IInv
<1>1. Init => IInv
  BY InitIInv
<1>2. IInv /\ [Next]_vars => IInv'
  BY NextIInv
<1> QED
  BY <1>1, <1>2, PTL DEF Spec

-----------------------------------------------------------------------------
(* The properties of Walking *)

(* On any map, a frame sent from where the node is, at any moment of its   *)
(* walk, is heard at a place as well as one sent there is heard by the     *)
(* node (my_WLAN_model, dtn.c:97-134, through_N_objects, mapping.c).       *)
THEOREM HeardBothWaysHolds == Spec => []HeardBothWays
<1>1. ASSUME IInv PROVE HeardBothWays
  <2>1. pos \in Nat \X Nat
    BY <1>1, PlacesType DEF IInv
  <2>2. ASSUME NEW q \in ChoosePosition(pos, 0)
        PROVE  WLANModel(pos, q) = WLANModel(q, pos)
    <3>1. q \in Nat \X Nat
      BY <2>1, ChosenPosition
    <3>2. pos \in Point /\ q \in Point
      BY <2>1, <3>1 DEF Point
    <3> QED
      BY <3>2, ReverseSignal
  <2> QED
    BY <2>2 DEF HeardBothWays
<1> QED
  BY <1>1, InvariantHolds, PTL

(* On any map, whatever the truncation of the last step does, a walk ends  *)
(* at a place that is not inside a building (walking.c:66-72).             *)
THEOREM PausesOutsideHolds == Spec => []PausesOutside
<1>1. ASSUME IInv PROVE PausesOutside
  <2>1. SUFFICES ASSUME paused, NEW o \in Objects,
                        pos[1] \in o[1] + 1 .. o[3] - 1,
                        pos[2] \in o[2] + 1 .. o[4] - 1
                 PROVE  FALSE
    BY DEF PausesOutside
  <2>2. ~Within(walk.to, o) /\ Near(pos, walk.to) /\ walk \in Walk
    BY <1>1, <2>1 DEF IInv, Outside
  <2>3. walk.to[1] \in Nat /\ walk.to[2] \in Nat
    BY <2>2, PlacesType DEF Walk
  <2>4. /\ o[1] \in Nat /\ o[2] \in Nat /\ o[3] \in Nat /\ o[4] \in Nat
    BY ObjectFacts
  <2>5. walk.to[1] \in o[1] .. o[3]
    BY <2>1, <2>2, <2>3, <2>4 DEF Near
  <2>6. walk.to[2] \in o[2] .. o[4]
    BY <2>1, <2>2, <2>3, <2>4 DEF Near
  <2> QED
    BY <2>2, <2>5, <2>6 DEF Within
<1> QED
  BY <1>1, InvariantHolds, PTL

(* On any map, a walk crosses a building only exactly through one of its   *)
(* corners (the search of walking.c:37-53 with through_an_object,          *)
(* mapping.c).                                                             *)
THEOREM CrossesAtCornersHolds == Spec => []CrossesAtCorners
<1>1. ASSUME IInv PROVE CrossesAtCorners
  <2>1. SUFFICES ASSUME NEW o \in Objects, Crosses(walk.from, walk.to, o)
                 PROVE  \E c \in Corners(o) : IsOn(c, walk.from, walk.to)
    BY DEF CrossesAtCorners
  <2> DEFINE s == walk.from
             d == walk.to
  <2>2. s \in Nat \X Nat /\ d \in Nat \X Nat /\ ~Within(d, o)
    BY <1>1, PlacesType DEF IInv, Walk, Outside
  <2>3. s = d \/ ~ThroughAnObject(s, d)
    BY <1>1 DEF IInv
  <2>4. s # d
    <3>1. SUFFICES ASSUME s = d PROVE FALSE
      OBVIOUS
    <3>2. PICK x \in {o[1], o[3]}, y \in {o[2], o[4]} :
            Across(s[1], s[2], d[1], d[2], x, y) > 0
      BY <2>1, <2>2, CrossesFacts
    <3>3. /\ x \in Int /\ y \in Int /\ s[1] \in Int /\ s[2] \in Int
      BY <2>2, ObjectFacts
    <3>4. Across(s[1], s[2], d[1], d[2], x, y)
            = (s[1] - s[1]) * (y - s[2]) - (s[2] - s[2]) * (x - s[1])
      BY <3>1 DEF Across
    <3> HIDE DEF s, d
    <3>5. (s[1] - s[1]) * (y - s[2]) - (s[2] - s[2]) * (x - s[1]) = 0
      BY <3>3
    <3> QED
      BY <3>2, <3>4, <3>5
  <2>5. ~PassesThrough(s, d, o)
    BY <2>3, <2>4 DEF ThroughAnObject
  <2> QED
    BY <2>1, <2>2, <2>5, CrossesIsFound
<1> QED
  BY <1>1, InvariantHolds, PTL

=============================================================================
