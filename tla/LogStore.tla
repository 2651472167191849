------------------------------ MODULE LogStore ------------------------------
(***************************************************************************)
(* What a data store promises to the rest of the program (the interface    *)
(* DataStore of datastore/common/common.go), without buffer, flushes,      *)
(* goroutines or failures: a set of points that changes only when Write    *)
(* accepts a point, which then replaces the one with its key, and when     *)
(* Rotate forgets points older than the retention period. InfluxDatastore  *)
(* implements it.                                                          *)
(***************************************************************************)
EXTENDS Integers

CONSTANTS Point,      \* the points: records with a log, a host and a time
          Retention   \* the retention period

VARIABLES clock,      \* the time of day
          contents    \* the points the store answers for

vars == <<clock, contents>>

Key(p) == <<p.log, p.host, p.time>>

Init == clock = 0 /\ contents = {}

\* Write returns nil.
Accept(p) ==
    /\ contents' = {q \in contents : Key(q) # Key(p)} \cup {p}
    /\ UNCHANGED clock

\* Rotate forgets some of the points that are too old.
Forget ==
    /\ \E gone \in SUBSET {p \in contents : p.time < clock - Retention} :
         contents' = contents \ gone
    /\ UNCHANGED clock

Tick == clock' = clock + 1 /\ UNCHANGED contents

Next == (\E p \in Point : Accept(p)) \/ Forget \/ Tick

Spec == Init /\ [][Next]_vars
=============================================================================
