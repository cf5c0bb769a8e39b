----------------------------- MODULE SystemTime ------------------------------
(***************************************************************************)
(* The unsigned arithmetic of systime_t as src/src/state.c and             *)
(* src/src/dance.c use it, and the test of chThdSleepUntilWindowed, which  *)
(* is ChibiOS's.  A system time counts the ticks since start-up modulo the *)
(* size of its type.                                                       *)
(***************************************************************************)
EXTENDS Integers

CONSTANT Range   \* number of values of systime_t

ASSUME RangeAssumption == Range \in Nat \ {0}

SysTime == 0 .. Range - 1

Plus(t, d)  == IF t + d < Range THEN t + d ELSE t + d - Range
Minus(t, d) == IF d <= t THEN t - d ELSE t - d + Range

(* Whether the time t lies between the times start and end, each of which  *)
(* may have wrapped around.                                                *)
Within(t, start, end) == Minus(t, start) < Minus(end, start)
=============================================================================
