------------------------------- MODULE JobQueue -------------------------------
(***************************************************************************)
(* The job queue as the unit manager uses it: `JobQueue::submit` and       *)
(* `forget` of crates/rinit-core/src/unit/job.rs, driven by                *)
(* `UnitManager::request` of crates/rinit/src/unit_manager.rs.             *)
(*                                                                         *)
(* What the units do in between is any change of their state.  `asked` is  *)
(* history: the requests made since the unit's target was last forgotten,  *)
(* of which the queue keeps only the one that holds the target.            *)
(***************************************************************************)
EXTENDS UnitState

CONSTANTS
  QueueUnits,  \* the loaded units
  MaxClock     \* bound on the clock

ASSUME TimeAssumption == MaxClock \in Nat

VARIABLES
  merged,    \* merged[u]: {job that holds u's target}, or {}
  actual,    \* actual[u]: the state u is in
  clock,     \* monotonic milliseconds; two requests may share one
  effect,    \* what the last request implied: [unit, target, state, effect]
  asked      \* history: asked[u], the requests since the last forget

jobVars == <<merged, actual, clock, effect, asked>>

Job == [target : Targets, source : Sources, at : Nat]

NoEffect == [unit |-> "none"]

JobInit ==
  /\ merged = [u \in QueueUnits |-> {}]
  /\ actual = [u \in QueueUnits |-> "Inactive"]
  /\ clock = 0
  /\ effect = NoEffect
  /\ asked = [u \in QueueUnits |-> {}]

(* forget_spent_target: a target the unit already satisfies is forgotten.  *)
Spent_bug(u) == FALSE
Spent(u) == \E job \in merged[u] : Reconcile(job.target, actual[u]) = "None"

(* submit: the holder is replaced when the new job supersedes it. *)
Submit(holder, job) ==
  IF \A old \in holder : Supersedes(job, old) THEN {job} ELSE holder

request(u, target, source) ==
  LET job    == [target |-> target, source |-> source, at |-> clock]
      before == IF Spent(u) THEN {} ELSE merged[u]
  IN
  /\ merged' = [merged EXCEPT ![u] = Submit(before, job)]
  /\ asked' = [asked EXCEPT ![u] = {job} \cup IF Spent(u) THEN {} ELSE @]
  /\ \E holder \in merged'[u] :
       effect' = [unit |-> u, target |-> target, state |-> actual[u],
                  effect |-> Reconcile(holder.target, actual[u])]
  /\ UNCHANGED <<actual, clock>>

(* The callers of `request`: a start comes from a user or a dependency, a  *)
(* stop from a user, a conflict, a reload, or from shutdown.               *)
request_start(u) == \E s \in {"Dependency", "UserStart"} : request(u, "Started", s)
request_stop(u)  == \E s \in {"UserStop", "ShutdownStop"} : request(u, "Stopped", s)

(* The unit runs, exits, fails, ...: its state is not the queue's business. *)
Move(u) ==
  /\ actual' \in {[actual EXCEPT ![u] = s] : s \in States}
  /\ effect' = NoEffect
  /\ UNCHANGED <<merged, clock, asked>>

PassTime ==
  /\ clock < MaxClock
  /\ clock' = clock + 1
  /\ effect' = NoEffect
  /\ UNCHANGED <<merged, actual, asked>>

JobNext ==
  \/ PassTime
  \/ \E u \in QueueUnits : request_start(u) \/ request_stop(u) \/ Move(u)

JobSpec == JobInit /\ [][JobNext]_jobVars

-------------------------------------------------------------------------------
TypeOK ==
  /\ merged \in [QueueUnits -> SUBSET Job]
  /\ actual \in [QueueUnits -> States]
  /\ clock \in Nat
  /\ asked \in [QueueUnits -> SUBSET Job]

(* Keeping only the holder loses nothing: the holder is one of the         *)
(* requests made since the target was last forgotten, none of those        *)
(* supersedes it, and there is at most one holder.  In particular a        *)
(* dependency or a user start never takes the target from a stop that is   *)
(* still outstanding, however late it arrives.                             *)
HolderPrevails ==
  \A u \in QueueUnits :
    /\ merged[u] \subseteq asked[u]
    /\ merged[u] = {} => asked[u] = {}
    /\ \A h \in merged[u], job \in asked[u] : ~Supersedes(job, h)
    /\ \A h1, h2 \in merged[u] : h1 = h2

(* A completed stop does not veto later starts: whatever was requested     *)
(* before, a start asked of a unit at rest implies that it is started.     *)
StartNotVetoed ==
  effect # NoEffect =>
    (effect.target = "Started" /\ effect.state \in Failed \cup {"Inactive"}
       => effect.effect \in {"SpawnProcess", "ClearStartLimitAndStart"})

(* A stop is never turned into a start: the effect of a stop request is to *)
(* stop, to wait for a stop in progress, or nothing.                       *)
StopNeverStarts ==
  effect # NoEffect =>
    (effect.target = "Stopped" =>
       effect.effect \in {"None", "Wait", "SendStopSignal", "CancelBackoffAndStop"})

(* What a request makes of a unit is what somebody asked for: a stop that  *)
(* was carried out does not veto a later start, and a stop never starts    *)
(* anything (request, submit, reconcile).                                  *)
EffectsAreMeant == StartNotVetoed /\ StopNeverStarts
===============================================================================
