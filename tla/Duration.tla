------------------------------ MODULE Duration ------------------------------
(***************************************************************************)
(* time.Duration: a count of nanoseconds in an int64. The products         *)
(* time.Duration(n) * time.Second and time.Duration(n) * day of a          *)
(* configured number with a unit wrap around when they do not fit.         *)
(***************************************************************************)
EXTENDS Integers

CONSTANT MaxDuration   \* the largest Duration      (2^63 - 1 in the code)

ASSUME DurationAssumption == MaxDuration \in Nat

Durations == -(MaxDuration + 1)..MaxDuration

\* What an int64 holds of the number n.
DurationOf(n) ==
    IF n \in Durations THEN n
    ELSE ((n + MaxDuration + 1) % (2 * (MaxDuration + 1))) - (MaxDuration + 1)
=============================================================================
