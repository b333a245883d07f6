------------------------------- MODULE Clock -------------------------------
(* The clock a limiter reads. *)
EXTENDS Integers

CONSTANT MaxClock  \* bound: the clock stops here

ASSUME MaxClockType == MaxClock \in Nat

VARIABLE clock

ClockInit == clock = 0

Tick == /\ clock < MaxClock
        /\ clock' = clock + 1
=============================================================================
