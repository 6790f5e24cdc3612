------------------------------- MODULE Breaker -------------------------------
(***************************************************************************)
(* What the start-limit circuit breaker of one unit promises: it counts    *)
(* failures, forgets some of them as time goes by, and trips exactly when  *)
(* the failures it still counts reach the configured burst.  It says       *)
(* nothing of clocks, windows or delays: `Backoff` implements it with a    *)
(* sliding window of timestamps, and `Supervisor` uses it for its units.   *)
(***************************************************************************)
EXTENDS Naturals

VARIABLES
  counted,   \* failures still counted
  limit,     \* the burst that trips the breaker; 0 when it is disabled
  tripped    \* whether the last failure tripped it

vars == <<counted, limit, tripped>>

Init ==
  /\ counted = 0
  /\ limit \in Nat
  /\ tripped = FALSE

(* A failure is counted after any number of older ones has been forgotten. *)
(* A disabled breaker counts nothing and never trips.                      *)
Fail ==
  /\ counted' \in IF limit = 0 THEN 0 .. counted ELSE 1 .. (counted + 1)
  /\ tripped' = (limit # 0 /\ counted' >= limit)
  /\ UNCHANGED limit

(* `reset-failed`: everything is forgotten. *)
Clear ==
  /\ counted' = 0
  /\ tripped' = FALSE
  /\ UNCHANGED limit

(* A reload may change the burst, or switch the breaker off or on; it may  *)
(* drop counted failures but never adds any.                               *)
Reconfigure ==
  /\ limit' \in Nat
  /\ counted' \in 0 .. counted
  /\ tripped' = FALSE

(* The verdict of a failure is consumed by whoever reported the failure.   *)
Consume ==
  /\ tripped' = FALSE
  /\ UNCHANGED <<counted, limit>>

Next == Fail \/ Clear \/ Reconfigure \/ Consume

Spec == Init /\ [][Next]_vars
==============================================================================
