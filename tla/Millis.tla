------------------------------- MODULE Millis -------------------------------
(***************************************************************************)
(* The firmware's millisecond clock.  hal_millis() returns a uint32_t that *)
(* wraps, and every timer of the firmware is the unsigned difference       *)
(* (uint32_t)(now - then).  One unit of model time stands for whatever the *)
(* instance's thresholds are measured in; Wrap stands for 2^32.            *)
(***************************************************************************)
EXTENDS Integers

CONSTANT Wrap   \* number of distinct clock readings (2^32 on the target)

ASSUME WrapAssumption == Wrap \in Nat \ {0}

Time == 0 .. Wrap - 1

\* The clock reading that follows t.
After(t) == IF t + 1 = Wrap THEN 0 ELSE t + 1

\* (uint32_t)(t - then)
Elapsed(t, then) == IF t >= then THEN t - then ELSE t - then + Wrap
=============================================================================
