------------------------------- MODULE Backoff -------------------------------
(***************************************************************************)
(* Restart backoff and start-limit breaker of one unit: `BackoffState` of  *)
(* crates/rinit-core/src/unit/restart.rs.                                  *)
(*                                                                         *)
(* Time is in the code's milliseconds.  `failures` and `reloaded` are      *)
(* history: the timestamps of every failure since the bookkeeping was last *)
(* cleared, and whether a reload changed the policy since then.  They say  *)
(* what the bounded `window` is a summary of.                              *)
(***************************************************************************)
EXTENDS Naturals, Sequences, FiniteSets

CONSTANTS
  Bases,        \* the values of RestartSec a unit file may give
  Bursts,       \* the values of StartLimitBurst
  Intervals,    \* the values of StartLimitIntervalSec; 0 disables the breaker
  MaxU64,       \* the largest value of the code's saturating arithmetic
  MaxTime,      \* bound on the clock
  MaxFailures   \* bound on consecutive failures

ASSUME BackoffAssumption ==
  /\ Bases \subseteq Nat
  /\ Bursts \subseteq Nat
  /\ Intervals \subseteq Nat
  /\ MaxU64 \in Nat
  /\ MaxTime \in Nat
  /\ MaxFailures \in Nat

VARIABLES
  now,               \* the caller's monotonic clock
  base,              \* RestartSec
  burst,             \* StartLimitBurst, at least 1
  interval,          \* StartLimitIntervalSec
  consecutive,       \* the `n` of base * 2^(n-1)
  window,            \* failures inside the sliding window, oldest first
  became_active_at,  \* {t} once the unit reached Active at t, else {}
  verdict,           \* what the last call of on_failure returned
  failures,          \* history: every failure since the last clear
  reloaded           \* history: the policy changed since the last clear

policy == <<base, burst, interval>>
backoffVars == <<now, base, burst, interval, consecutive, window, became_active_at,
          verdict, failures, reloaded>>

BACKOFF_EXPONENT_CAP == 5

(* The answer of on_failure: nothing yet, retry after a delay, or tripped. *)
NoVerdict == [kind |-> "none", delay |-> 0]
Retry(d) == [kind |-> "retry", delay |-> d]
Trip == [kind |-> "trip", delay |-> 0]

(* A definition whose name ends in _bug is a plausible defect of the one   *)
(* that follows it; the runs must notice the difference.                   *)
AtLeastOne(b) == IF b = 0 THEN 1 ELSE b

Saturate(n) == IF n > MaxU64 THEN MaxU64 ELSE n

Smaller(m, n) == IF m < n THEN m ELSE n

BackoffInit ==
  /\ now = 0
  /\ base \in Bases
  /\ \E b \in Bursts : burst = AtLeastOne(b)
  /\ interval \in Intervals
  /\ consecutive = 0
  /\ window = <<>>
  /\ became_active_at = {}
  /\ verdict = NoVerdict
  /\ failures = <<>>
  /\ reloaded = FALSE

------------------------------------------------------------------------------
(* The newest b entries of a window. *)
TrimTo_bug(w, b) == w
TrimTo(w, b) == IF Len(w) > b THEN SubSeq(w, Len(w) - b + 1, Len(w)) ELSE w

(* A failure is recorded behind the older ones. *)
Push_bug(w, t) == <<t>> \o w
Push(w, t) == Append(w, t)

(* The window holds enough failures to trip the breaker. *)
Tripped_bug(w) == Len(w) > burst
Tripped(w) == Len(w) >= burst

(* The unit has been up for a whole interval. *)
HasBeenStable ==
  \E at \in became_active_at : interval = 0 \/ now - at >= interval

(* The jitter generator is any value below a quarter of the base. *)
JitterRange(b) == IF b \div 4 = 0 THEN {0} ELSE 0 .. (b \div 4 - 1)

(* base * 2^(n-1), capped at base * 2^5, plus the jitter. *)
NextDelay(n, jitter) ==
  LET exponent == Smaller(n - 1, BACKOFF_EXPONENT_CAP)
      scaled   == Smaller(Saturate(base * 2^exponent),
                          Saturate(base * 2^BACKOFF_EXPONENT_CAP))
  IN Saturate(scaled + jitter)

(* The first k entries of w have left the window and the next has not.     *)
Expired_bug(w, k) ==
  /\ \A i \in 1 .. k : now - w[i] > interval
  /\ k < Len(w) => now - w[k + 1] <= interval
Expired(w, k) ==
  /\ \A i \in 1 .. k : now - w[i] >= interval
  /\ k < Len(w) => now - w[k + 1] < interval

------------------------------------------------------------------------------
Tick ==
  /\ now < MaxTime
  /\ now' = now + 1
  /\ verdict' = NoVerdict
  /\ UNCHANGED <<policy, consecutive, window, became_active_at, failures, reloaded>>

on_active ==
  /\ became_active_at' = {now}
  /\ verdict' = NoVerdict
  /\ UNCHANGED <<now, policy, consecutive, window, failures, reloaded>>

(* A failure, after a stable run has wiped the record of older ones.       *)
on_failure ==
  LET stable == HasBeenStable
      n      == (IF stable THEN 0 ELSE consecutive) + 1
      kept   == IF stable THEN <<>> ELSE window
      pushed == Push(kept, now)
  IN
  /\ n <= MaxFailures
  /\ consecutive' = n
  /\ became_active_at' = {}
  /\ failures' = Append(IF stable THEN <<>> ELSE failures, now)
  /\ reloaded' = (reloaded /\ ~stable)
  /\ \/ /\ interval = 0
        /\ window' = kept
        /\ \E j \in JitterRange(base) : verdict' = Retry(NextDelay(n, j))
     \/ /\ interval # 0
        /\ \E k \in 0 .. Len(pushed) :
             /\ Expired(pushed, k)
             /\ window' = TrimTo(SubSeq(pushed, k + 1, Len(pushed)), burst)
        /\ \/ Tripped(window') /\ verdict' = Trip
           \/ /\ ~Tripped(window')
              /\ \E j \in JitterRange(base) : verdict' = Retry(NextDelay(n, j))
  /\ UNCHANGED <<now, policy>>

(* A reloaded policy keeps the history, trimmed to the new burst. *)
reconfigure(b, r, i) ==
  /\ base' = b
  /\ burst' = AtLeastOne(r)
  /\ interval' = i
  /\ window' = TrimTo(window, AtLeastOne(r))
  /\ verdict' = NoVerdict
  /\ reloaded' = TRUE
  /\ UNCHANGED <<now, consecutive, became_active_at, failures>>

reset ==
  /\ consecutive' = 0
  /\ window' = <<>>
  /\ became_active_at' = {}
  /\ verdict' = NoVerdict
  /\ failures' = <<>>
  /\ reloaded' = FALSE
  /\ UNCHANGED <<now, policy>>

BackoffNext ==
  \/ Tick
  \/ on_active
  \/ on_failure
  \/ \E b \in Bases, r \in Bursts, i \in Intervals : reconfigure(b, r, i)
  \/ reset

BackoffSpec == BackoffInit /\ [][BackoffNext]_backoffVars

------------------------------------------------------------------------------
(* The window never holds more than `burst` failures, whatever the restart *)
(* rate, the interval or a reload does: a unit that crashes for ever costs *)
(* a bounded amount of memory, also with the breaker disabled.             *)
WindowBounded == Len(window) <= burst

(* The window is in order and never ahead of the clock, which is what lets *)
(* on_failure expire entries from the front only.                          *)
WindowOrdered ==
  /\ \A i, j \in DOMAIN window : i <= j => window[i] <= window[j]
  /\ \A i \in DOMAIN window : window[i] <= now

(* Failures since the last clear that lie within one interval of now. *)
Recent == {i \in DOMAIN failures : now - failures[i] < interval}

(* The breaker trips exactly when at least `burst` failures lie within the *)
(* last StartLimitIntervalSec: trimming the window and expiring it from    *)
(* the front lose nothing.  Trips are sound under reloads too; after a     *)
(* reload raised the burst, failures already trimmed away are not counted. *)
TripExact ==
  /\ verdict.kind = "trip" => interval # 0 /\ Cardinality(Recent) >= burst
  /\ verdict.kind = "retry" /\ interval # 0 /\ ~reloaded
       => Cardinality(Recent) < burst

(* A retry is never sooner than RestartSec and never later than 2^5 times  *)
(* it plus the jitter, also where the multiplication saturates.            *)
DelayBounded ==
  verdict.kind = "retry" =>
    /\ verdict.delay >= Saturate(base)
    /\ verdict.delay <= Saturate(32 * base + base \div 4)

(* Every verdict on a failure is exact: the breaker trips at the burst     *)
(* inside the interval and not before (on_failure), and otherwise the      *)
(* delay is in its bounds where the arithmetic saturates (next_delay).     *)
VerdictIsExact == TripExact /\ DelayBounded

(* The sliding window implements the breaker's promise. *)
Limit == IF interval = 0 THEN 0 ELSE burst
B == INSTANCE Breaker WITH
       counted <- Len(window), limit <- Limit, tripped <- verdict.kind = "trip"
ImplementsBreaker == B!Spec

==============================================================================
