------------------------------- MODULE Walking --------------------------------
(***************************************************************************)
(* The walk of a node over the map (src/walking.c): a handler that each    *)
(* EV_WALKING timer calls and that starts the next one.                    *)
(***************************************************************************)
EXTENDS Map

CONSTANTS
  MAX_SPEED,      \* metres per step
  MAX_WALK_DIST   \* from one candidate for a destination to the next

ASSUME WalkingAssumption == {MAX_SPEED, MAX_WALK_DIST} \subseteq Nat \ {0}

VARIABLES
  pos,      \* where cnet has placed the node
  paused,   \* as in the code
  walk,     \* the walk: from, to, and its number of steps
  nsteps    \* the steps still to go

vars == <<pos, paused, walk, nsteps>>

(* init_walking, start_walking *)
Init ==
  /\ pos \in ChoosePosition(<<0, 0>>, 0)
  /\ paused = TRUE
  /\ walk = [from |-> pos, to |-> pos, steps |-> 0]
  /\ nsteps = 0

-----------------------------------------------------------------------------
(* Choosing a walk *)

Candidates(q) == ChoosePosition(q, MAX_WALK_DIST)

(* The values of newdest that the inner loop may go on from if it is q:    *)
(* candidates that are rejected, each chosen near to the one before it.    *)
Searched(now, q) ==
  LET walled == {p \in Places : ThroughAnObject(now, p)}
      search[S \in SUBSET Places] ==
        LET more == walled \cap UNION {Candidates(r) : r \in S}
        IN  IF more \subseteq S THEN S ELSE search[S \cup more]
  IN  search[{q}]

LastLeg(now, q) ==                                     \* a faulty variant
  {p \in Candidates(q) : ~ThroughAnObject(q, p)}

(* Where the inner loop may end if newdest is q. *)
Destinations(now, q) == {p \in Candidates(q) : ~ThroughAnObject(now, p)}

(* dist / newspeed, as an integer. *)
NSteps(p, q, speed) ==
  CHOOSE k \in 0 .. Square(p, q) :
    /\ k * speed * k * speed <= Square(p, q)
    /\ Square(p, q) < (k + 1) * speed * (k + 1) * speed

WalksFrom(now) ==
  {[from |-> now, to |-> p, steps |-> NSteps(now, p, speed)] :
     p \in UNION {Destinations(now, q) : q \in Searched(now, now)},
     speed \in 1 .. MAX_SPEED}

(* The walks that the search may end with, from every place.  One that     *)
(* passed over rejected candidates may be longer than MAX_WALK_DIST.       *)
Walks == {w \in UNION {WalksFrom(now) : now \in Places} : w.steps >= 3}

(* Where the search ends with probability one: there is a walk, and after  *)
(* each candidate rejected one that is not may come, at once or later.     *)
SearchEnds ==
  {now \in {w.from : w \in Walks} :
     \A q \in Searched(now, now) :
       \/ Destinations(now, q) # {}
       \/ \E r \in Searched(now, q) : Destinations(now, r) # {}}

-----------------------------------------------------------------------------
(* Walking *)

IsExact(num, den) == \E k \in {1, 2, 4, 8, 16, 32, 64, 128} : num * k % den = 0

WholeParts(a, b, steps, k) ==                          \* a faulty variant
  {a + k * (IF a < b THEN (b - a) \div steps ELSE -((a - b) \div steps))}

(* A coordinate after k of the steps from a to b, truncated.  In doubles   *)
(* the sum of the k parts may be a little less than its exact value,       *)
(* unless a part has an exact representation.                              *)
Coordinate(a, b, steps, k) ==
  LET sum == a * steps + k * (b - a)
      c   == sum \div steps
  IN  IF sum % steps = 0 /\ ~IsExact(b - a, steps) /\ c > 0
      THEN {c, c - 1} ELSE {c}

(* The step after which left steps are to go. *)
Step(w, left) ==
  LET k == w.steps - left IN
  /\ pos' \in Coordinate(w.from[1], w.to[1], w.steps, k)
                \X Coordinate(w.from[2], w.to[2], w.steps, k)
  /\ paused' = FALSE
  /\ walk' = w
  /\ nsteps' = left

StartWalk ==
  /\ paused
  /\ \E w \in Walks : w.from = pos /\ Step(w, w.steps - 1)

WalkOn ==
  /\ ~paused /\ nsteps > 0
  /\ Step(walk, nsteps - 1)

StopsForGood ==                                        \* a faulty variant
  /\ ~paused /\ nsteps = 0
  /\ UNCHANGED <<pos, paused, walk, nsteps>>

Pause ==
  /\ ~paused /\ nsteps = 0
  /\ paused' = TRUE
  /\ UNCHANGED <<pos, walk, nsteps>>

Walker == StartWalk \/ WalkOn \/ Pause

Next == Walker

(* EV_WALKING always comes again.  The handler need not return where the   *)
(* search does not end with probability one.                               *)
Spec ==
  /\ Init /\ [][Next]_vars
  /\ WF_vars(pos \in SearchEnds /\ StartWalk)
  /\ WF_vars(WalkOn \/ Pause)

-----------------------------------------------------------------------------
(* Properties *)

(* The open rectangle o and the segment from s to d have a point in        *)
(* common: no line parallel to a wall or to the segment separates them.    *)
Crosses(s, d, o) ==
  LET side(c) == (d[1] - s[1]) * (c[2] - s[2]) - (d[2] - s[2]) * (c[1] - s[1])
  IN  /\ ~({s[1], d[1]} \subseteq 0 .. o[1]) /\ ~({s[2], d[2]} \subseteq 0 .. o[2])
      /\ \E p \in {s, d} : p[1] < o[3]
      /\ \E p \in {s, d} : p[2] < o[4]
      /\ \E c \in Corners(o) : side(c) > 0
      /\ \E c \in Corners(o) : side(c) < 0

IsOn(c, s, d) ==
  /\ (d[1] - s[1]) * (c[2] - s[2]) = (d[2] - s[2]) * (c[1] - s[1])
  /\ Square(s, c) <= Square(s, d) /\ Square(c, d) <= Square(s, d)

(* "Choose a new destination that doesn't require walking through a wall!" *)
(* (walking.c:37).  A walk crosses a building only exactly through one of  *)
(* its corners, where intersect (mapping.c:150) does not see it.           *)
CrossesAtCorners ==
  \A o \in Objects :
    Crosses(walk.from, walk.to, o) =>
      \E c \in Corners(o) : IsOn(c, walk.from, walk.to)

(* Though positions are truncated and sums are rounded, a walk ends        *)
(* outside of all buildings, or on a wall (walking.c:66-72): inside, the   *)
(* search for the next destination would not end.                          *)
PausesOutside ==
  paused => \A o \in Objects :
    ~(pos[1] \in o[1] + 1 .. o[3] - 1 /\ pos[2] \in o[2] + 1 .. o[4] - 1)

(* From every place that the walk reaches the search for a destination     *)
(* ends (walking.c:38-53) and the walk ends, for ever.                     *)
WalksAgain == []<>(~paused) /\ []<>paused

(* Wherever the node is on its walk, a frame from there is heard at a      *)
(* place as well as one from that place is heard by the node: the replies  *)
(* of link.c need both (my_WLAN_model, dtn.c:97-134).                      *)
HeardBothWays ==
  \A q \in ChoosePosition(pos, 0) : WLANModel(pos, q) = WLANModel(q, pos)
=============================================================================
