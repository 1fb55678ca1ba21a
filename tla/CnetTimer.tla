----------------------------- MODULE CnetTimer -----------------------------
(***************************************************************************)
(* The cnet simulator's timers, as src/link.c uses them.  A program keeps  *)
(* ONE CnetTimerID variable per purpose, and CNET_start_timer overwrites   *)
(* it; a timer whose id has been overwritten still runs and still fires.   *)
(* So all that matters of the running timers of one event is              *)
(*   named - does the id variable hold the id of a running timer?          *)
(*   stray - how many other timers of the same event are running?          *)
(* Durations are not modelled: any running timer may expire next.          *)
(***************************************************************************)
EXTENDS Naturals

Timer == [named : BOOLEAN, stray : Nat]

NoTimer == [named |-> FALSE, stray |-> 0]

(* var = CNET_start_timer(...): the timer that var named is not stopped. *)
Start(t) ==
  [named |-> TRUE, stray |-> IF t.named THEN t.stray + 1 ELSE t.stray]

(* CNET_stop_timer(var): no effect when var names no running timer. *)
Stop(t) == [t EXCEPT !.named = FALSE]

(* The timers that may be left after one of them has expired. *)
Expired(t) ==
  (IF t.named THEN {Stop(t)} ELSE {}) \cup
  (IF t.stray > 0 THEN {[t EXCEPT !.stray = @ - 1]} ELSE {})

Running(t) == t.named \/ t.stray > 0
=============================================================================
