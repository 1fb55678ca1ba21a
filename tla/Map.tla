--------------------------------- MODULE Map ---------------------------------
(***************************************************************************)
(* The map that every node reads (src/mapping.c), and the wireless model   *)
(* that counts its walls (src/dtn.c).  A position is <<x, y>>, and an      *)
(* object, the outline of a building, is <<x0, y0, x1, y1>>.               *)
(***************************************************************************)
EXTENDS Integers, FiniteSets

CONSTANTS
  Drawn,           \* the objects in the map file; those with text left out
  mapsize,         \* width and height
  Budget(_),       \* what the receiver has to spare at a squared distance
  SIGNAL_LOSS_PER_OBJECT,
  SignalToNoise    \* rx_signal_to_noise_dBm

ASSUME MapAssumption ==
  /\ Drawn \subseteq {o \in Nat \X Nat \X Nat \X Nat :
                        o[1] <= o[3] /\ o[2] <= o[4]}
  /\ mapsize \in (Nat \ {0}) \X (Nat \ {0})

(* add_object gives every object a width and a height. *)
AddObject(o) ==
  LET beyond(a, b) == IF a = b THEN b + 1 ELSE b
  IN  <<o[1], o[2], beyond(o[1], o[3]), beyond(o[2], o[4])>>

Objects == {AddObject(o) : o \in Drawn}

Square(p, q) == (p[1] - q[1]) * (p[1] - q[1]) + (p[2] - q[2]) * (p[2] - q[2])

-----------------------------------------------------------------------------
(* Paths and walls *)

FromZero(num, den) ==                                  \* a faulty variant
  IF den > 0 THEN 0 <= num /\ num < den ELSE den < num /\ num <= 0

(* 0 < num / den < 1 *)
Between(num, den) ==
  IF den > 0 THEN 0 < num /\ num < den ELSE den < num /\ num < 0

(* The segments from a to b and from c to d. *)
Intersect(a, b, c, d) ==
  LET dx == b[1] - a[1]   ex == d[1] - c[1]
      dy == b[2] - a[2]   ey == d[2] - c[2]
      denom  == ey * dx - ex * dy
      numera == ex * (a[2] - c[2]) - ey * (a[1] - c[1])
      numerb == dx * (a[2] - c[2]) - dy * (a[1] - c[1])
  IN  \/ denom = 0 /\ numera = 0 /\ numerb = 0
      \/ denom # 0 /\ Between(numera, denom) /\ Between(numerb, denom)

Corners(o) == {o[1], o[3]} \X {o[2], o[4]}

Walls(o) ==
  {w \in Corners(o) \X Corners(o) :
     w[1] # w[2] /\ (w[1][1] = w[2][1] \/ w[1][2] = w[2][2])}

PassesThrough(s, d, o) == \E w \in Walls(o) : Intersect(s, d, w[1], w[2])

ThroughAnObject(s, d) == \E o \in Objects : PassesThrough(s, d, o)
ThroughNObjects(s, d) == Cardinality({o \in Objects : PassesThrough(s, d, o)})

-----------------------------------------------------------------------------
(* Places *)

(* The points with coordinates CNET_rand() % mapsize. *)
Places == (0 .. mapsize[1] - 1) \X (0 .. mapsize[2] - 1)

Within(p, o) == p[1] \in o[1] .. o[3] /\ p[2] \in o[2] .. o[4]

(* The positions that choose_position may set: not too far from old, and   *)
(* not in a building.                                                      *)
ChoosePosition(old, maxdist) ==
  {p \in Places :
     /\ maxdist = 0 \/ Square(p, old) <= maxdist * maxdist
     /\ \A o \in Objects : ~Within(p, o)}

-----------------------------------------------------------------------------
(* my_WLAN_model: whether a frame from tx can be heard at rx. *)
WLANModel(tx, rx) ==
  LET budget == Budget(Square(tx, rx))
                  - ThroughNObjects(tx, rx) * SIGNAL_LOSS_PER_OBJECT
  IN  IF budget < 0 THEN "WLAN_TOOWEAK"
      ELSE IF budget < SignalToNoise THEN "WLAN_TOONOISY"
      ELSE "WLAN_RECEIVED"
=============================================================================
