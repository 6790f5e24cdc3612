--------------------------- MODULE SupervisorProofs ---------------------------
(***************************************************************************)
(* Theorems about the supervisor, for every set of units, unit files,      *)
(* pids and requests.                                                      *)
(***************************************************************************)
EXTENDS Supervisor, WellFoundedInduction, TLAPS

-------------------------------------------------------------------------------
(* Partial functions, and the lowest pid. *)

(* A function on some part of D. *)
LEMMA PartialFunction ==
  ASSUME NEW D, NEW V, NEW f
  PROVE  f \in UNION {[S -> V] : S \in SUBSET D}
           <=> DOMAIN f \subseteq D /\ f \in [DOMAIN f -> V]
<1>1. ASSUME f \in UNION {[S -> V] : S \in SUBSET D}
      PROVE  DOMAIN f \subseteq D /\ f \in [DOMAIN f -> V]
  <2>1. PICK S \in SUBSET D : f \in [S -> V]
    BY <1>1
  <2> QED BY <2>1
<1>2. ASSUME DOMAIN f \subseteq D, f \in [DOMAIN f -> V]
      PROVE  f \in UNION {[S -> V] : S \in SUBSET D}
  <2>1. DOMAIN f \in SUBSET D
    BY <1>2
  <2> QED BY <2>1, <1>2
<1> QED BY <1>1, <1>2

(* A set of numbers has a least one (fork picks it). *)
LEMMA Lowest ==
  ASSUME NEW T, T \in SUBSET Nat, T # {}
  PROVE  Min(T) \in T
<1> DEFINE R == {ss \in Nat \X Nat : ss[1] < ss[2]}
<1>1. IsWellFoundedOn(R, Nat)
  BY NatLessThanWellFounded, Zenon DEF OpToRel
<1>2. \A x, y \in Nat : <<y, x>> \in R <=> y < x
  OBVIOUS
<1>3. PICK x \in T : \A y \in T : ~(<<y, x>> \in R)
  <2> HIDE DEF R
  <2> QED BY <1>1, WFMin
<1>4. \A y \in T : x <= y
  <2> HIDE DEF R
  <2>1. ASSUME NEW y \in T PROVE ~(y < x)
    BY <1>2, <1>3
  <2> QED BY <2>1
<1> QED BY <1>4 DEF Min

-------------------------------------------------------------------------------
(* The processes. *)

Procs == UNION {[S -> Process] : S \in SUBSET Pids}

Managers ==
  [ rt : [Units -> UnitRuntime],
    jobs : [Units -> Sources \cup {None}],
    queued : [Units -> Sources \cup {None}],
    procs : UNION {[S -> Process] : S \in SUBSET Pids},
    boot_in_progress : BOOLEAN ]

(* IsManager, stated with sets the provers know how to use. *)
LEMMA ManagerType ==
  ASSUME NEW k
  PROVE  IsManager(k) <=> k \in Managers
<1>1. ASSUME IsManager(k) PROVE k \in Managers
  <2>1. k.procs \in UNION {[S -> Process] : S \in SUBSET Pids}
    BY <1>1 DEF IsManager
  <2> QED BY <1>1, <2>1 DEF IsManager, Managers
<1>2. ASSUME k \in Managers PROVE IsManager(k)
  <2>1. k.procs \in UNION {[S -> Process] : S \in SUBSET Pids}
    BY <1>2 DEF Managers
  <2>2. DOMAIN k.procs \subseteq Pids /\ k.procs \in [DOMAIN k.procs -> Process]
    BY <2>1, PartialFunction
  <2> QED BY <1>2, <2>2 DEF IsManager, Managers
<1> QED BY <1>1, <1>2

(* What a manager holds, for use one part at a time. *)
LEMMA ManagerParts ==
  ASSUME NEW k \in Managers
  PROVE  /\ \A u \in Units : k.rt[u] \in UnitRuntime
         /\ \A u \in Units : k.jobs[u] \in Sources \cup {None}
         /\ \A u \in Units : k.queued[u] \in Sources \cup {None}
         /\ k.rt \in [Units -> UnitRuntime]
         /\ k.jobs \in [Units -> Sources \cup {None}]
         /\ k.queued \in [Units -> Sources \cup {None}]
         /\ k.procs \in Procs
         /\ DOMAIN k.procs \subseteq Pids
         /\ k.procs \in [DOMAIN k.procs -> Process]
<1>1. k.procs \in Procs
  BY DEF Managers, Procs
<1>2. DOMAIN k.procs \subseteq Pids /\ k.procs \in [DOMAIN k.procs -> Process]
  BY <1>1, PartialFunction DEF Procs
<1> QED BY <1>1, <1>2 DEF Managers

(* A change of the processes alone. *)
LEMMA NewProcs ==
  ASSUME NEW k \in Managers, NEW S \in SUBSET Pids, NEW f \in [S -> Process]
  PROVE  /\ [k EXCEPT !.procs = f] \in Managers
         /\ [k EXCEPT !.procs = f].rt = k.rt
         /\ [k EXCEPT !.procs = f].jobs = k.jobs
         /\ [k EXCEPT !.procs = f].queued = k.queued
         /\ [k EXCEPT !.procs = f].procs = f
<1>1. f \in UNION {[T -> Process] : T \in SUBSET Pids}
  OBVIOUS
<1> QED BY <1>1 DEF Managers

SameUnits(k, n) ==
  /\ n \in Managers
  /\ n.rt = k.rt
  /\ n.jobs = k.jobs
  /\ n.queued = k.queued

(* SIGKILL marks processes and changes nothing of the units. *)
LEMMA KillAllKeeps ==
  ASSUME NEW k \in Managers, NEW ps
  PROVE  SameUnits(k, KillAll(k, ps))
<1> DEFINE f == [p \in DOMAIN k.procs |-> [k.procs[p] EXCEPT !.killed = @ \/ p \in ps]]
<1>1. ASSUME NEW p \in DOMAIN k.procs
      PROVE  [k.procs[p] EXCEPT !.killed = @ \/ p \in ps] \in Process
  <2> DEFINE b == k.procs[p].killed \/ p \in ps
  <2>1. b \in BOOLEAN
    OBVIOUS
  <2>2. k.procs[p] \in Process
    BY ManagerParts
  <2>3. [k.procs[p] EXCEPT !.killed = b] \in Process
    <3> HIDE DEF b
    <3> QED BY <2>1, <2>2 DEF Process
  <2> QED BY <2>3
<1>2. f \in [DOMAIN k.procs -> Process]
  BY <1>1
<1>3. KillAll(k, ps) = [k EXCEPT !.procs = f]
  BY DEF KillAll
<1> QED
  <2> HIDE DEF f
  <2> QED BY <1>2, <1>3, NewProcs, ManagerParts DEF SameUnits

(* The same for one process. *)
LEMMA KillKeeps ==
  ASSUME NEW k \in Managers, NEW p
  PROVE  SameUnits(k, Kill(k, p))
BY KillAllKeeps DEF Kill

(* Reaping takes processes away and changes nothing of the units. *)
LEMMA ReapedKeeps ==
  ASSUME NEW k \in Managers, NEW ps
  PROVE  SameUnits(k, Reaped(k, ps))
<1> DEFINE S == DOMAIN k.procs \ ps
           f == [p \in S |-> k.procs[p]]
<1>1. S \in SUBSET Pids /\ f \in [S -> Process]
  BY ManagerParts
<1>2. Reaped(k, ps) = [k EXCEPT !.procs = f]
  BY DEF Reaped
<1> QED
  <2> HIDE DEF S, f
  <2> QED BY <1>1, <1>2, NewProcs DEF SameUnits

(* A fork adds a process and changes nothing of the units. *)
LEMMA ForkAsKeeps ==
  ASSUME NEW k \in Managers, NEW p \in Pids, NEW u \in Units,
         NEW role \in {"main", "probe", "stop", "aux"}
  PROVE  SameUnits(k, ForkAs(k, p, u, role))
<1> DEFINE x == [role |-> role, unit |-> u, killed |-> FALSE]
           S == {p} \cup DOMAIN k.procs
           f == With(k.procs, p, x)
<1>1. x \in Process
  BY DEF Process
<1>2. S \in SUBSET Pids /\ f \in [S -> Process]
  <2> HIDE DEF x
  <2> QED BY <1>1, ManagerParts DEF With
<1>3. ForkAs(k, p, u, role) = [k EXCEPT !.procs = f]
  BY DEF ForkAs
<1> QED
  <2> HIDE DEF S, f
  <2> QED BY <1>2, <1>3, NewProcs DEF SameUnits

(* The pid a fork gets is one of the kernel's, never the mark for none. *)
LEMMA NextPidFree ==
  ASSUME NEW k \in Managers, CanFork(k)
  PROVE  NextPid(k) \in Pids /\ NextPid(k) # NoPid
BY Lowest, ConfigAssumption DEF CanFork, NextPid, NoPid

(* The same for a fork under the next free pid. *)
LEMMA ForkKeeps ==
  ASSUME NEW k \in Managers, CanFork(k), NEW u \in Units,
         NEW role \in {"main", "probe", "stop", "aux"}
  PROVE  SameUnits(k, Fork(k, u, role))
BY NextPidFree, ForkAsKeeps DEF Fork

-------------------------------------------------------------------------------
(* The methods of the manager.  Each yields a manager, and starts nothing: *)
(* a unit without a process has none afterwards.                           *)

Quiet(k, n) ==
  /\ n \in Managers
  /\ \A u \in Units : k.rt[u].pid = NoPid => n.rt[u].pid = NoPid

(* A method that calls two that start nothing starts nothing. *)
LEMMA QuietTransitive ==
  ASSUME NEW k, NEW n, NEW o, Quiet(k, n), Quiet(n, o)
  PROVE  Quiet(k, o)
BY DEF Quiet

(* A change of the processes alone starts nothing. *)
LEMMA SameIsQuiet ==
  ASSUME NEW k, NEW n, SameUnits(k, n)
  PROVE  Quiet(k, n)
BY DEF Quiet, SameUnits

(* Writing one unit's runtime leaves everything else. *)
LEMMA PutKeeps ==
  ASSUME NEW k \in Managers, NEW u \in Units, NEW r \in UnitRuntime
  PROVE  /\ Put(k, u, r) \in Managers
         /\ Put(k, u, r).rt[u] = r
         /\ \A v \in Units \ {u} : Put(k, u, r).rt[v] = k.rt[v]
         /\ Put(k, u, r).jobs = k.jobs
         /\ Put(k, u, r).queued = k.queued
         /\ Put(k, u, r).procs = k.procs
BY DEF Put, Managers

(* It starts nothing unless it records a pid. *)
LEMMA PutQuiet ==
  ASSUME NEW k \in Managers, NEW u \in Units, NEW r \in UnitRuntime,
         k.rt[u].pid = NoPid => r.pid = NoPid
  PROVE  Quiet(k, Put(k, u, r))
BY PutKeeps DEF Quiet

(* The runtimes of all units at once. *)
LEMMA NewRuntimes ==
  ASSUME NEW k \in Managers, NEW f \in [Units -> UnitRuntime]
  PROVE  /\ [k EXCEPT !.rt = f] \in Managers
         /\ [k EXCEPT !.rt = f].rt = f
         /\ [k EXCEPT !.rt = f].jobs = k.jobs
         /\ [k EXCEPT !.rt = f].queued = k.queued
         /\ [k EXCEPT !.rt = f].procs = k.procs
BY DEF Managers

(* What a unit file says, for use one key at a time. *)
LEMMA ConfigParts ==
  ASSUME NEW r \in UnitRuntime
  PROVE  /\ r.config \in UnitConfig
         /\ r.config.kind \in Kinds
         /\ r.config.policy \in Policies
         /\ r.config.requires \in SUBSET Units
         /\ r.config.wants \in SUBSET Units
         /\ r.config.conflicts \in SUBSET Units
         /\ r.config.start_timeout \in BOOLEAN
         /\ r.config.at_once \in BOOLEAN
         /\ r.config.health \in BOOLEAN
         /\ r.config.cgroup \in BOOLEAN
BY DEF UnitRuntime, UnitConfig

(* A request starts nothing, and touches its own unit only. *)
LEMMA RequestKeeps ==
  ASSUME NEW k \in Managers, NEW u \in Units, NEW source \in Sources
  PROVE  /\ Quiet(k, request(k, u, source))
         /\ \A v \in Units \ {u} : /\ request(k, u, source).rt[v] = k.rt[v]
                                   /\ request(k, u, source).jobs[v] = k.jobs[v]
         /\ request(k, u, source).rt[u].state \in {k.rt[u].state, "Inactive"}
         /\ request(k, u, source).rt[u].config = k.rt[u].config
         /\ request(k, u, source).jobs[u] \in Sources
<1> DEFINE held == IF effect_for(k, u) = "None" THEN None ELSE k.jobs[u]
           job  == IF held = None \/ Rank(source) >= Rank(held) THEN source ELSE held
           n    == [k EXCEPT !.jobs[u] = job]
           effect == effect_for(n, u)
           state == IF effect = "None" /\ TargetOf(job) = "Stopped" THEN "Inactive"
                    ELSE k.rt[u].state
           queued == IF TargetOf(source) = "Stopped" THEN None
                     ELSE IF effect = "Wait" THEN source ELSE k.queued[u]
           r == [k.rt[u] EXCEPT !.state = state]
<1>1. job \in Sources
  BY ManagerParts
<1>2. n \in Managers /\ n.rt = k.rt /\ n.queued = k.queued
        /\ n.jobs = [k.jobs EXCEPT ![u] = job]
  <2> HIDE DEF job
  <2> QED BY <1>1 DEF Managers
<1>3. state \in {k.rt[u].state, "Inactive"} /\ queued \in Sources \cup {None}
  BY ManagerParts
<1>4. request(k, u, source) = [n EXCEPT !.rt[u].state = state, !.queued[u] = queued]
  BY <1>2, Zenon DEF request
<1>5. r \in UnitRuntime /\ r.pid = k.rt[u].pid /\ r.state = state
        /\ r.config = k.rt[u].config
  <2>1. state \in States /\ k.rt[u] \in UnitRuntime
    BY <1>3, ManagerParts DEF UnitRuntime, States
  <2> HIDE DEF state
  <2> QED BY <2>1 DEF UnitRuntime
<1>6. [n EXCEPT !.rt[u].state = state, !.queued[u] = queued]
        = [n EXCEPT !.rt = [k.rt EXCEPT ![u] = r], !.queued = [k.queued EXCEPT ![u] = queued]]
  <2> HIDE DEF n, state, queued
  <2> QED BY <1>2, ManagerParts DEF Managers
<1> QED
  <2> HIDE DEF n, state, queued, job, r
  <2> DEFINE o == [n EXCEPT !.rt = [k.rt EXCEPT ![u] = r], !.queued = [k.queued EXCEPT ![u] = queued]]
  <2>1. /\ o \in Managers
        /\ o.rt = [k.rt EXCEPT ![u] = r]
        /\ o.jobs = [k.jobs EXCEPT ![u] = job]
    BY <1>2, <1>3, <1>5, ManagerParts DEF Managers
  <2>2. request(k, u, source) = o
    BY <1>4, <1>6
  <2> HIDE DEF o
  <2> QED BY <1>1, <1>3, <1>5, <2>1, <2>2, ManagerParts DEF Quiet

(* Neither does reset-failed, nor clearing the breaker. *)
LEMMA ResetKeeps ==
  ASSUME NEW k \in Managers, NEW u \in Units
  PROVE  Quiet(k, reset_failed(k, u)) /\ Quiet(k, clear_start_limit(k, u))
<1> DEFINE state == IF k.rt[u].state \in Failed THEN "Inactive" ELSE k.rt[u].state
           r == [k.rt[u] EXCEPT !.failures = 0, !.state = state]
           q == [k.rt[u] EXCEPT !.failures = 0]
<1>1. k.rt[u] \in UnitRuntime
  BY ManagerParts
<1>2. r \in UnitRuntime /\ r.pid = k.rt[u].pid
  BY <1>1 DEF UnitRuntime, States
<1>3. q \in UnitRuntime /\ q.pid = k.rt[u].pid
  BY <1>1 DEF UnitRuntime
<1>4. reset_failed(k, u) = Put(k, u, r)
  BY ManagerParts DEF reset_failed, Put, Managers, UnitRuntime
<1>5. clear_start_limit(k, u) = Put(k, u, q)
  BY ManagerParts DEF clear_start_limit, Put, Managers
<1> QED
  <2> HIDE DEF r, q
  <2> QED BY <1>2, <1>3, <1>4, <1>5, PutQuiet

(* A start that is given up, with all that requires it. *)
LEMMA FailStartQuiet ==
  ASSUME NEW k \in Managers, NEW u \in Units
  PROVE  Quiet(k, fail_start(k, u))
<1> DEFINE n == Kill(k, k.rt[u].pid)
           pid == IF n.rt[u].state \in Failed THEN n.rt[u].pid ELSE NoPid
           own == [n.rt[u] EXCEPT !.restart_at = FALSE, !.start_deadline = FALSE,
                                  !.kill_at = FALSE, !.pid = pid]
           r == [n.rt EXCEPT ![u] = own]
           reached == ReachedByFailure([n EXCEPT !.rt = r], u)
           f == [v \in Units |-> [r[v] EXCEPT !.state =
                   IF v \in reached /\ r[v].state \notin Failed THEN "StartFailure"
                   ELSE r[v].state]]
<1>1. n \in Managers /\ n.rt = k.rt
  BY KillKeeps DEF SameUnits
<1>2. own \in UnitRuntime /\ (k.rt[u].pid = NoPid => own.pid = NoPid)
  <2>1. k.rt[u] \in UnitRuntime
    BY ManagerParts
  <2> HIDE DEF n
  <2> QED BY <1>1, <2>1 DEF UnitRuntime, NoPid
<1>3. r \in [Units -> UnitRuntime]
        /\ \A v \in Units : k.rt[v].pid = NoPid => r[v].pid = NoPid
  <2> HIDE DEF own, n
  <2> QED BY <1>1, <1>2, ManagerParts
<1>4. f \in [Units -> UnitRuntime] /\ \A v \in Units : f[v].pid = r[v].pid
  <2>1. ASSUME NEW v \in Units
        PROVE  f[v] \in UnitRuntime /\ f[v].pid = r[v].pid
    <3>1. r[v] \in UnitRuntime
      BY <1>3
    <3> HIDE DEF r, reached
    <3> QED BY <3>1 DEF UnitRuntime, States, Failed
  <2> HIDE DEF r, reached
  <2> QED BY <2>1
<1>5. fail_start(k, u) = [n EXCEPT !.rt = f]
  BY <1>1, Zenon DEF fail_start
<1> QED
  <2> HIDE DEF n, f, r
  <2> QED BY <1>1, <1>3, <1>4, <1>5, NewRuntimes DEF Quiet

(* A restart is only scheduled, or the breaker trips. *)
LEMMA ScheduleRestartQuiet ==
  ASSUME NEW k \in Managers, NEW u \in Units, NEW i \in Nat
  PROVE  Quiet(k, schedule_restart(k, u, i))
<1> DEFINE tripped == Burst # 0 /\ i >= Burst
           at == IF tripped THEN k.rt[u].restart_at ELSE TRUE
           state == IF tripped THEN "StartLimitHit" ELSE "RestartWait"
           r == [k.rt[u] EXCEPT !.failures = i, !.restart_at = at, !.state = state]
<1>1. k.rt[u] \in UnitRuntime
  BY ManagerParts
<1>2. at \in BOOLEAN /\ state \in States
  BY <1>1 DEF UnitRuntime, States, Failed
<1>3. r \in UnitRuntime /\ r.pid = k.rt[u].pid
  <2> HIDE DEF at, state
  <2> QED BY <1>1, <1>2 DEF UnitRuntime
<1>4. schedule_restart(k, u, i) = Put(k, u, r)
  <2>1. schedule_restart(k, u, i)
          = [k EXCEPT !.rt[u].failures = i, !.rt[u].restart_at = at, !.rt[u].state = state]
    BY ManagerParts, Zenon DEF schedule_restart
  <2> HIDE DEF at, state
  <2> QED BY <2>1, ManagerParts, ZenonT(60) DEF Put, Managers, UnitRuntime
<1> QED
  <2> HIDE DEF r
  <2> QED BY <1>3, <1>4, PutQuiet

(* The next health check is armed and nothing else. *)
LEMMA ScheduleHealthKeeps ==
  ASSUME NEW r \in UnitRuntime
  PROVE  /\ schedule_health(r) \in UnitRuntime
         /\ schedule_health(r).pid = r.pid
         /\ schedule_health(r).state = r.state
BY ConfigParts DEF schedule_health, UnitRuntime

(* Before a spawn the old stop command and probe are killed. *)
LEMMA ClearLeftoversKeeps ==
  ASSUME NEW k \in Managers, NEW u \in Units
  PROVE  /\ Quiet(k, ClearLeftovers(k, u))
         /\ \A v \in Units : ClearLeftovers(k, u).rt[v].pid = k.rt[v].pid
         /\ \A v \in Units \ {u} : ClearLeftovers(k, u).rt[v] = k.rt[v]
         /\ ClearLeftovers(k, u).jobs = k.jobs
<1>1. CASE k.rt[u].pid # NoPid
  BY <1>1 DEF ClearLeftovers, Quiet
<1>2. CASE k.rt[u].pid = NoPid
  <2> DEFINE n == KillAll(k, {k.rt[u].probe_pid, k.rt[u].exec_stop_pid})
             r == [k.rt[u] EXCEPT !.probe_pid = NoPid, !.exec_stop_pid = NoPid,
                                  !.probe_deadline = FALSE]
  <2>1. n \in Managers /\ n.rt = k.rt /\ n.jobs = k.jobs
    BY KillAllKeeps DEF SameUnits
  <2>2. r \in UnitRuntime /\ r.pid = k.rt[u].pid
    <3>1. k.rt[u] \in UnitRuntime
      BY ManagerParts
    <3> QED BY <3>1 DEF UnitRuntime
  <2>3. ClearLeftovers(k, u) = Put(n, u, r)
    <3>1. ClearLeftovers(k, u)
            = [n EXCEPT !.rt[u].probe_pid = NoPid, !.rt[u].exec_stop_pid = NoPid,
                        !.rt[u].probe_deadline = FALSE]
      BY <1>2 DEF ClearLeftovers
    <3> HIDE DEF n
    <3> QED BY <2>1, <3>1, ManagerParts, ZenonT(60) DEF Put, Managers, UnitRuntime
  <2> HIDE DEF n, r
  <2> QED BY <2>1, <2>2, <2>3, PutKeeps, SMTT(60) DEF Quiet
<1> QED BY <1>1, <1>2

(* begin_spawn_unit, the one method that gives a unit a process. *)
LEMMA BeginSpawnKeeps ==
  ASSUME NEW k \in Managers, NEW u \in Units, CanFork(ClearLeftovers(k, u))
  PROVE  /\ begin_spawn_unit(k, u) \in Managers
         /\ \A v \in Units \ {u} : begin_spawn_unit(k, u).rt[v] = k.rt[v]
<1> DEFINE simple == k.rt[u].config.kind = "Simple"
           n == ClearLeftovers(k, u)
           state == IF simple THEN "Active" ELSE "Starting"
           deadline == IF simple THEN n.rt[u].start_deadline ELSE k.rt[u].config.start_timeout
           r == [n.rt[u] EXCEPT
                   !.pid = NextPid(n), !.state = state,
                   !.restart_at = FALSE, !.kill_at = FALSE, !.exec_stop_pid = NoPid,
                   !.start_deadline = deadline]
           q == IF simple THEN schedule_health(r) ELSE r
<1>1. n \in Managers /\ \A v \in Units \ {u} : n.rt[v] = k.rt[v]
  BY ClearLeftoversKeeps DEF Quiet
<1>2. NextPid(n) \in Pids
  BY <1>1, NextPidFree
<1>3. state \in States /\ deadline \in BOOLEAN
  <2>1. n.rt[u] \in UnitRuntime /\ k.rt[u] \in UnitRuntime
    BY <1>1, ManagerParts
  <2>2. n.rt[u].start_deadline \in BOOLEAN /\ k.rt[u].config.start_timeout \in BOOLEAN
    <3> HIDE DEF n
    <3> QED BY <2>1, ConfigParts DEF UnitRuntime
  <2> HIDE DEF n
  <2> QED BY <2>2 DEF States, Satisfied
<1>4. r \in UnitRuntime
  <2>1. n.rt[u] \in UnitRuntime
    BY <1>1, ManagerParts
  <2> HIDE DEF n, state, deadline
  <2> QED BY <1>2, <1>3, <2>1 DEF UnitRuntime
<1>5. q \in UnitRuntime
  <2> HIDE DEF r
  <2> QED BY <1>4, ScheduleHealthKeeps
<1>6. SameUnits(n, Fork(n, u, "main"))
  <2>1. CanFork(n)
    OBVIOUS
  <2> HIDE DEF n
  <2> QED BY <1>1, <2>1, ForkKeeps
<1>7. begin_spawn_unit(k, u) = Put(Fork(n, u, "main"), u, q)
  BY Zenon DEF begin_spawn_unit
<1> QED
  <2> HIDE DEF n, q
  <2> QED BY <1>1, <1>5, <1>6, <1>7, PutKeeps DEF SameUnits

(* A start that is complete leaves the unit up. *)
LEMMA UpStates ==
  ASSUME NEW state \in States, NEW kind
  PROVE  StartUpComplete(state, kind) \in Satisfied \cup {NotAllowed}
BY DEF StartUpComplete, transition, Outcomes, Cell, Satisfied

(* A start that failed and a process that ended do not. *)
LEMMA DownStates ==
  ASSUME NEW state \in States, NEW policy, NEW outcome \in Outcomes
  PROVE  /\ StartUpFailed(state) \in {"StartFailure", NotAllowed}
         /\ Exit(state, policy, outcome)
              \in {"RestartWait", "Inactive", "StartFailure", NotAllowed}
<1>1. StartUpFailed(state) \in {"StartFailure", NotAllowed}
  BY DEF StartUpFailed, transition, Outcomes, Cell
<1>2. Exit(state, policy, outcome)
        \in {"RestartWait", "Inactive", "StartFailure", NotAllowed}
  BY DEF Exit, transition, Outcomes, Cell
<1> QED BY <1>1, <1>2

(* READY=1 completes a start, it does not make one. *)
LEMMA NotifyQuiet ==
  ASSUME NEW k \in Managers, NEW u \in Units
  PROVE  Quiet(k, on_notify(k, u))
<1> DEFINE to == StartUpComplete(k.rt[u].state, k.rt[u].config.kind)
           r == [k.rt[u] EXCEPT !.state = to, !.start_deadline = FALSE]
<1>1. k.rt[u] \in UnitRuntime
  BY ManagerParts
<1>2. to \in Satisfied \cup {NotAllowed}
  BY <1>1, UpStates DEF UnitRuntime
<1>3. CASE to = NotAllowed
  BY <1>3 DEF on_notify, Quiet
<1>4. CASE to # NotAllowed
  <2>1. to \in States
    BY <1>2, <1>4 DEF States
  <2>2. r \in UnitRuntime /\ r.pid = k.rt[u].pid
    <3> HIDE DEF to
    <3> QED BY <1>1, <2>1 DEF UnitRuntime
  <2>3. on_notify(k, u) = Put(k, u, schedule_health(r))
    BY <1>4, Zenon DEF on_notify
  <2> HIDE DEF r
  <2> QED BY <2>2, <2>3, ScheduleHealthKeeps, PutQuiet
<1> QED BY <1>3, <1>4

(* A forking service hands its pid over to the daemon. *)
LEMMA DaemonQuiet ==
  ASSUME NEW k \in Managers, NEW u \in Units, NEW daemon \in Pids, k.rt[u].pid # NoPid
  PROVE  Quiet(k, mark_daemon_started(k, u, daemon))
<1> DEFINE r == [k.rt[u] EXCEPT !.pid = daemon, !.state = "Active", !.start_deadline = FALSE]
           n == ForkAs(k, daemon, u, "main")
<1>1. r \in UnitRuntime
  <2>1. k.rt[u] \in UnitRuntime
    BY ManagerParts
  <2> QED BY <2>1 DEF UnitRuntime, States, Satisfied
<1>2. SameUnits(k, n)
  BY ForkAsKeeps
<1>3. mark_daemon_started(k, u, daemon) = Put(n, u, schedule_health(r))
  BY Zenon DEF mark_daemon_started
<1> QED
  <2> HIDE DEF r, n
  <2> QED BY <1>1, <1>2, <1>3, ScheduleHealthKeeps, PutKeeps, SMTT(60) DEF Quiet, SameUnits

(* A stop touches one unit, and neither its unit file nor its target. *)
Stops(k, n, u) ==
  /\ Quiet(k, n)
  /\ \A v \in Units \ {u} : n.rt[v] = k.rt[v]
  /\ n.jobs = k.jobs
  /\ n.rt[u].state \in {k.rt[u].state, "Deactivating", "Inactive"}
  /\ n.rt[u].config = k.rt[u].config

(* Writing one unit's runtime as a stop may. *)
LEMMA PutStops ==
  ASSUME NEW k \in Managers, NEW n, SameUnits(k, n), NEW u \in Units, NEW r \in UnitRuntime,
         k.rt[u].pid = NoPid => r.pid = NoPid,
         r.state \in {k.rt[u].state, "Deactivating", "Inactive"},
         r.config = k.rt[u].config
  PROVE  Stops(k, Put(n, u, r), u)
BY PutKeeps DEF Stops, Quiet, SameUnits

(* SIGTERM or ExecStop= to the main process. *)
LEMMA StopProcessStops ==
  ASSUME NEW k \in Managers, NEW u \in Units, NEW ok \in BOOLEAN
  PROVE  Stops(k, StopProcess(k, u, ok), u)
<1> DEFINE r == k.rt[u]
           exec_stop == r.config.exec_stop /\ ok /\ CanFork(k)
           at == ~r.config.at_once
           stopping == [r EXCEPT !.state = "Deactivating", !.kill_at = at]
           n == Fork(k, u, "stop")
<1>1. r \in UnitRuntime
  BY ManagerParts
<1>2. /\ stopping \in UnitRuntime
      /\ stopping.pid = r.pid
      /\ stopping.state = "Deactivating"
      /\ stopping.config = r.config
  <2>1. at \in BOOLEAN
    OBVIOUS
  <2> HIDE DEF r, at
  <2> QED BY <1>1, <2>1 DEF UnitRuntime, States
<1>3. CASE exec_stop /\ r.config.at_once
  <2>1. SameUnits(k, KillAll(n, {NextPid(k), r.pid}))
    BY <1>3, ForkKeeps, KillAllKeeps DEF SameUnits
  <2>2. StopProcess(k, u, ok) = Put(KillAll(n, {NextPid(k), r.pid}), u, stopping)
    BY <1>3 DEF StopProcess
  <2> HIDE DEF n, stopping
  <2> QED BY <1>2, <2>1, <2>2, PutStops
<1>4. CASE exec_stop /\ ~r.config.at_once
  <2> DEFINE q == [stopping EXCEPT !.exec_stop_pid = NextPid(k)]
  <2>1. SameUnits(k, n)
    BY <1>4, ForkKeeps
  <2>2. StopProcess(k, u, ok) = Put(n, u, q)
    BY <1>4 DEF StopProcess
  <2>3. /\ q \in UnitRuntime
        /\ q.pid = r.pid
        /\ q.state = "Deactivating"
        /\ q.config = r.config
    <3>1. NextPid(k) \in Pids
      BY <1>4, NextPidFree
    <3> HIDE DEF stopping
    <3> QED BY <1>2, <3>1 DEF UnitRuntime
  <2> HIDE DEF n, q
  <2> QED BY <2>1, <2>2, <2>3, PutStops
<1>5. CASE ~exec_stop /\ Alive(k, r.pid)
  <2> DEFINE o == IF r.config.at_once THEN Kill(k, r.pid) ELSE k
  <2>1. SameUnits(k, o)
    BY KillKeeps DEF SameUnits
  <2>2. StopProcess(k, u, ok) = Put(o, u, stopping)
    BY <1>5 DEF StopProcess
  <2> HIDE DEF o, stopping
  <2> QED BY <1>2, <2>1, <2>2, PutStops
<1>6. CASE ~exec_stop /\ ~Alive(k, r.pid)
  <2> DEFINE q == [r EXCEPT !.pid = NoPid, !.state = "Inactive"]
  <2>1. SameUnits(k, k)
    BY DEF SameUnits
  <2>2. StopProcess(k, u, ok) = Put(k, u, q)
    BY <1>6 DEF StopProcess
  <2>3. /\ q \in UnitRuntime
        /\ q.pid = NoPid
        /\ q.state = "Inactive"
        /\ q.config = r.config
    <3> HIDE DEF r
    <3> QED BY <1>1 DEF UnitRuntime, States
  <2> HIDE DEF q
  <2> QED BY <2>1, <2>2, <2>3, PutStops
<1> QED BY <1>3, <1>4, <1>5, <1>6

(* stop_unit, with and without a process. *)
LEMMA StopUnitStops ==
  ASSUME NEW k \in Managers, NEW u \in Units, NEW ok \in BOOLEAN, NEW left \in BOOLEAN
  PROVE  Stops(k, stop_unit(k, u, ok, left), u)
<1> DEFINE r == [k.rt[u] EXCEPT
                   !.restart_at = FALSE, !.start_deadline = FALSE, !.kill_at = FALSE,
                   !.health_at = FALSE, !.probe_deadline = FALSE,
                   !.restart_after_stop = FALSE, !.probe_pid = NoPid]
           c == Kill(k, k.rt[u].probe_pid)
           n == Put(c, u, r)
<1>1. k.rt[u] \in UnitRuntime
  BY ManagerParts
<1>2. /\ r \in UnitRuntime
      /\ r.pid = k.rt[u].pid
      /\ r.state = k.rt[u].state
      /\ r.config = k.rt[u].config
  BY <1>1 DEF UnitRuntime
<1>3. SameUnits(k, c)
  BY KillKeeps
<1>4. Stops(k, n, u) /\ n \in Managers /\ n.rt[u] = r
  <2> HIDE DEF r, c
  <2>1. Stops(k, n, u)
    BY <1>2, <1>3, PutStops
  <2>2. n \in Managers /\ n.rt[u] = r
    BY <1>2, <1>3, PutKeeps DEF SameUnits
  <2> QED BY <2>1, <2>2
<1>5. CASE r.state = "Deactivating"
  BY <1>5, Zenon DEF stop_unit, Stops, Quiet
<1>6. CASE r.state # "Deactivating" /\ r.pid # NoPid
  <2>1. stop_unit(k, u, ok, left) = StopProcess(n, u, ok)
    BY <1>6, Zenon DEF stop_unit
  <2>2. Stops(n, StopProcess(n, u, ok), u)
    <3> HIDE DEF n
    <3> QED BY <1>4, StopProcessStops
  <2> HIDE DEF n, r
  <2> QED BY <1>2, <1>4, <2>1, <2>2 DEF Stops, Quiet
<1>7. CASE r.state # "Deactivating" /\ r.pid = NoPid /\ left
  <2> DEFINE q == [r EXCEPT !.state = "Deactivating", !.kill_at = TRUE]
  <2>1. stop_unit(k, u, ok, left) = Put(n, u, q)
    BY <1>7, Zenon DEF stop_unit
  <2>2. /\ q \in UnitRuntime
        /\ q.pid = r.pid
        /\ q.state = "Deactivating"
        /\ q.config = r.config
    <3> HIDE DEF r
    <3> QED BY <1>2 DEF UnitRuntime, States
  <2>3. Put(n, u, q) \in Managers
        /\ Put(n, u, q).rt[u] = q
        /\ (\A v \in Units \ {u} : Put(n, u, q).rt[v] = n.rt[v])
        /\ Put(n, u, q).jobs = n.jobs
    <3> HIDE DEF n, q
    <3> QED BY <1>4, <2>2, PutKeeps
  <2> HIDE DEF n, q, r
  <2> QED BY <1>2, <1>4, <2>1, <2>2, <2>3 DEF Stops, Quiet
<1>8. CASE r.state # "Deactivating" /\ r.pid = NoPid /\ ~left
  <2> DEFINE q == [r EXCEPT !.state = "Inactive"]
  <2>1. stop_unit(k, u, ok, left) = Put(n, u, q)
    BY <1>8, Zenon DEF stop_unit
  <2>2. /\ q \in UnitRuntime
        /\ q.pid = r.pid
        /\ q.state = "Inactive"
        /\ q.config = r.config
    <3> HIDE DEF r
    <3> QED BY <1>2 DEF UnitRuntime, States
  <2>3. Put(n, u, q) \in Managers
        /\ Put(n, u, q).rt[u] = q
        /\ (\A v \in Units \ {u} : Put(n, u, q).rt[v] = n.rt[v])
        /\ Put(n, u, q).jobs = n.jobs
    <3> HIDE DEF n, q
    <3> QED BY <1>4, <2>2, PutKeeps
  <2> HIDE DEF n, q, r
  <2> QED BY <1>2, <1>4, <2>1, <2>2, <2>3 DEF Stops, Quiet
<1> QED BY <1>5, <1>6, <1>7, <1>8

(* A stop for the sake of a conflicting start. *)
LEMMA StopConflictKeeps ==
  ASSUME NEW k \in Managers, NEW u \in Units, NEW ok \in BOOLEAN, NEW left \in BOOLEAN
  PROVE  /\ Quiet(k, StopConflict(k, u, ok, left))
         /\ \A v \in Units \ {u} : /\ StopConflict(k, u, ok, left).rt[v] = k.rt[v]
                                   /\ StopConflict(k, u, ok, left).jobs[v] = k.jobs[v]
         /\ StopConflict(k, u, ok, left).rt[u].state
              \in {k.rt[u].state, "Deactivating", "Inactive"}
         /\ StopConflict(k, u, ok, left).rt[u].config = k.rt[u].config
<1> DEFINE n == request(k, u, "UserStop")
<1>1. "UserStop" \in Sources
  BY DEF Sources
<1>2. /\ Quiet(k, n)
      /\ \A v \in Units \ {u} : n.rt[v] = k.rt[v] /\ n.jobs[v] = k.jobs[v]
      /\ n.rt[u].state \in {k.rt[u].state, "Inactive"}
      /\ n.rt[u].config = k.rt[u].config
  BY <1>1, RequestKeeps
<1>3. Stops(n, stop_unit(n, u, ok, left), u)
  <2> HIDE DEF n
  <2> QED BY <1>2, StopUnitStops DEF Quiet
<1>4. StopConflict(k, u, ok, left) = stop_unit(n, u, ok, left)
  BY DEF StopConflict
<1> QED
  <2> HIDE DEF n
  <2> QED BY <1>2, <1>3, <1>4 DEF Stops, Quiet

-------------------------------------------------------------------------------
(* Deadlines. *)

(* TimeoutStartSec= has passed for the units T. *)
LEMMA StartTimeoutsQuiet ==
  ASSUME NEW k \in Managers, NEW T \in SUBSET Units
  PROVE  Quiet(k, due_start_timeouts(k, T))
<1> DEFINE at_once == {u \in T : k.rt[u].config.at_once}
           n == KillAll(k, {k.rt[u].pid : u \in at_once})
           late(u) == k.rt[u].start_deadline /\ k.rt[u].state = "Starting" /\ u \notin T
           at(u) == IF u \in T THEN u \notin at_once ELSE k.rt[u].kill_at
           f == [u \in Units |-> [k.rt[u] EXCEPT !.start_deadline = late(u), !.kill_at = at(u)]]
<1>1. SameUnits(k, n)
  BY KillAllKeeps
<1>2. ASSUME NEW u \in Units
      PROVE  f[u] \in UnitRuntime /\ f[u].pid = k.rt[u].pid
  <2>1. k.rt[u] \in UnitRuntime
    BY ManagerParts
  <2>2. late(u) \in BOOLEAN
    OBVIOUS
  <2>3. at(u) \in BOOLEAN
    BY <2>1 DEF UnitRuntime
  <2> HIDE DEF late, at
  <2> QED BY <2>1, <2>2, <2>3 DEF UnitRuntime
<1>3. due_start_timeouts(k, T) = [n EXCEPT !.rt = f]
  BY Zenon DEF due_start_timeouts
<1>4. f \in [Units -> UnitRuntime]
  <2> HIDE DEF late, at
  <2> QED BY <1>2
<1> QED
  <2> HIDE DEF n, f
  <2> QED BY <1>1, <1>2, <1>3, <1>4, NewRuntimes DEF Quiet, SameUnits

(* The SIGKILL deadline has passed for the units K. *)
LEMMA KillsQuiet ==
  ASSUME NEW k \in Managers, NEW K
  PROVE  Quiet(k, due_kills(k, K))
<1> DEFINE pidless(r) == r.pid = NoPid /\ r.state = "Deactivating"
           n == KillAll(k, {k.rt[u].pid : u \in K} \cup {k.rt[u].exec_stop_pid : u \in K})
           state(u) == IF pidless(k.rt[u]) THEN "Inactive" ELSE k.rt[u].state
           f == [u \in Units |->
                   IF u \notin K THEN k.rt[u]
                   ELSE [k.rt[u] EXCEPT !.kill_at = FALSE, !.exec_stop_pid = NoPid,
                                        !.state = state(u)]]
<1>1. SameUnits(k, n)
  BY KillAllKeeps
<1>2. ASSUME NEW u \in Units
      PROVE  f[u] \in UnitRuntime /\ f[u].pid = k.rt[u].pid
  <2>1. k.rt[u] \in UnitRuntime
    BY ManagerParts
  <2>2. state(u) \in States
    BY <2>1 DEF UnitRuntime, States
  <2> HIDE DEF state
  <2> QED BY <2>1, <2>2 DEF UnitRuntime
<1>3. due_kills(k, K) = [n EXCEPT !.rt = f]
  BY Zenon DEF due_kills
<1>4. f \in [Units -> UnitRuntime]
  <2> HIDE DEF state
  <2> QED BY <1>2
<1> QED
  <2> HIDE DEF n, f
  <2> QED BY <1>1, <1>2, <1>3, <1>4, NewRuntimes DEF Quiet, SameUnits

(* The probe deadline has passed for the units P. *)
LEMMA ProbeTimeoutsQuiet ==
  ASSUME NEW k \in Managers, NEW P
  PROVE  Quiet(k, due_probe_timeouts(k, P))
<1> DEFINE n == KillAll(k, {k.rt[u].probe_pid : u \in P})
           at(u) == k.rt[u].probe_deadline /\ u \notin P
           f == [u \in Units |-> [k.rt[u] EXCEPT !.probe_deadline = at(u)]]
<1>1. SameUnits(k, n)
  BY KillAllKeeps
<1>2. ASSUME NEW u \in Units
      PROVE  f[u] \in UnitRuntime /\ f[u].pid = k.rt[u].pid
  <2>1. k.rt[u] \in UnitRuntime
    BY ManagerParts
  <2>2. at(u) \in BOOLEAN
    OBVIOUS
  <2> HIDE DEF at
  <2> QED BY <2>1, <2>2 DEF UnitRuntime
<1>3. due_probe_timeouts(k, P) = [n EXCEPT !.rt = f]
  BY Zenon DEF due_probe_timeouts
<1>4. f \in [Units -> UnitRuntime]
  <2> HIDE DEF at
  <2> QED BY <1>2
<1> QED
  <2> HIDE DEF n, f
  <2> QED BY <1>1, <1>2, <1>3, <1>4, NewRuntimes DEF Quiet, SameUnits

(* The health checks that are due are forked, not the services. *)
LEMMA ProbesQuiet ==
  ASSUME NEW k \in Managers, NEW S \in SUBSET Units, NEW pid \in FreePids(k, S)
  PROVE  Quiet(k, due_health_probes(k, pid))
<1> DEFINE x(p) == [role |-> "probe", unit |-> CHOOSE u \in DOMAIN pid : pid[u] = p,
                    killed |-> FALSE]
           R == Range(pid) \cup DOMAIN k.procs
           g == [p \in R |-> IF p \in Range(pid) THEN x(p) ELSE k.procs[p]]
           n == [k EXCEPT !.procs = g]
           at(u) == k.rt[u].health_at /\ k.rt[u].state = "Active"
           f == [u \in Units |->
                   IF u \in DOMAIN pid
                   THEN [k.rt[u] EXCEPT !.health_at = FALSE, !.probe_pid = pid[u],
                                        !.probe_deadline = TRUE]
                   ELSE [k.rt[u] EXCEPT !.health_at = at(u)]]
<1>1. pid \in [S -> Pids]
  BY DEF FreePids, Injection
<1>2. ASSUME NEW p \in Range(pid)
      PROVE  x(p) \in Process
  <2>1. \E u \in DOMAIN pid : pid[u] = p
    BY DEF Range
  <2>2. (CHOOSE u \in DOMAIN pid : pid[u] = p) \in Units
    BY <1>1, <2>1
  <2> QED BY <2>2 DEF Process
<1>3. Range(pid) \subseteq Pids
  BY <1>1 DEF Range
<1>4. R \in SUBSET Pids /\ g \in [R -> Process]
  <2> HIDE DEF x
  <2> QED BY <1>2, <1>3, ManagerParts
<1>5. SameUnits(k, n)
  <2> HIDE DEF R, g
  <2> QED BY <1>4, NewProcs DEF SameUnits
<1>6. ASSUME NEW u \in Units
      PROVE  f[u] \in UnitRuntime /\ f[u].pid = k.rt[u].pid
  <2>1. k.rt[u] \in UnitRuntime
    BY ManagerParts
  <2>2. at(u) \in BOOLEAN
    OBVIOUS
  <2>3. CASE u \in DOMAIN pid
    <3>1. pid[u] \in Pids
      BY <1>1, <2>3
    <3> QED BY <2>1, <2>3, <3>1 DEF UnitRuntime
  <2>4. CASE u \notin DOMAIN pid
    <3> HIDE DEF at
    <3> QED BY <2>1, <2>2, <2>4 DEF UnitRuntime
  <2> QED BY <2>3, <2>4
<1>7. due_health_probes(k, pid) = [n EXCEPT !.rt = f]
  BY Zenon DEF due_health_probes, ForkAll
<1>8. f \in [Units -> UnitRuntime]
  <2> HIDE DEF at
  <2> QED BY <1>6
<1> QED
  <2> HIDE DEF n, f
  <2> QED BY <1>5, <1>6, <1>7, <1>8, NewRuntimes DEF Quiet, SameUnits

(* A restart that is due gets a flow later; the manager only disarms it. *)
LEMMA RestartsQuiet ==
  ASSUME NEW k \in Managers, NEW D
  PROVE  Quiet(k, due_restarts(k, D))
<1> DEFINE at(u) == k.rt[u].restart_at /\ u \notin D
           f == [u \in Units |-> [k.rt[u] EXCEPT !.restart_at = at(u)]]
<1>1. ASSUME NEW u \in Units
      PROVE  f[u] \in UnitRuntime /\ f[u].pid = k.rt[u].pid
  <2>1. k.rt[u] \in UnitRuntime
    BY ManagerParts
  <2>2. at(u) \in BOOLEAN
    OBVIOUS
  <2> HIDE DEF at
  <2> QED BY <2>1, <2>2 DEF UnitRuntime
<1>2. due_restarts(k, D) = [k EXCEPT !.rt = f]
  BY Zenon DEF due_restarts
<1>3. f \in [Units -> UnitRuntime]
  <2> HIDE DEF at
  <2> QED BY <1>1
<1> QED
  <2> HIDE DEF f
  <2> QED BY <1>1, <1>2, <1>3, NewRuntimes DEF Quiet

(* One start that was queued behind a stop is requested again. *)
LEMMA RequeuedQuiet ==
  ASSUME NEW k \in Managers, NEW u \in Units, k.queued[u] # None
  PROVE  Quiet(k, Requeued(k, u))
<1> DEFINE n == [k EXCEPT !.queued[u] = None]
<1>1. n \in Managers /\ n.rt = k.rt
  BY ManagerParts DEF Managers
<1>2. k.queued[u] \in Sources
  BY ManagerParts
<1>3. Quiet(n, request(n, u, k.queued[u]))
  <2> HIDE DEF n
  <2> QED BY <1>1, <1>2, RequestKeeps
<1> QED BY <1>1, <1>3 DEF Requeued, Quiet

(* All of them are. *)
LEMMA StartQueuedQuiet ==
  ASSUME NEW k \in Managers
  PROVE  Quiet(k, StartQueued(k))
<1> DEFINE S == Queued(k)
           f == [u \in Units |-> IF u \in S THEN Requeued(k, u).rt[u] ELSE k.rt[u]]
           g == [u \in Units |-> IF u \in S THEN Requeued(k, u).jobs[u] ELSE k.jobs[u]]
           h == [u \in Units |-> IF u \in S THEN Requeued(k, u).queued[u] ELSE k.queued[u]]
           n == [k EXCEPT !.rt = f, !.jobs = g, !.queued = h]
<1>1. ASSUME NEW u \in S
      PROVE  Quiet(k, Requeued(k, u))
  BY RequeuedQuiet DEF Queued
<1>2. ASSUME NEW u \in Units
      PROVE  /\ f[u] \in UnitRuntime
             /\ g[u] \in Sources \cup {None}
             /\ h[u] \in Sources \cup {None}
             /\ k.rt[u].pid = NoPid => f[u].pid = NoPid
  <2> HIDE DEF S
  <2>1. CASE u \in S
    <3>1. Requeued(k, u) \in Managers
      BY <1>1, <2>1 DEF Quiet
    <3>2. /\ Requeued(k, u).rt[u] \in UnitRuntime
          /\ Requeued(k, u).jobs[u] \in Sources \cup {None}
          /\ Requeued(k, u).queued[u] \in Sources \cup {None}
      BY <3>1, ManagerParts
    <3> QED BY <1>1, <2>1, <3>2 DEF Quiet
  <2>2. CASE u \notin S
    BY <2>2, ManagerParts
  <2> QED BY <2>1, <2>2
<1>3. /\ f \in [Units -> UnitRuntime]
      /\ g \in [Units -> Sources \cup {None}]
      /\ h \in [Units -> Sources \cup {None}]
  <2> HIDE DEF S
  <2> QED BY <1>2
<1>4. n \in Managers /\ n.rt = f
  <2> HIDE DEF f, g, h
  <2> QED BY <1>3 DEF Managers
<1>5. StartQueued(k) = n
  BY Zenon DEF StartQueued, ForEach
<1> QED
  <2> HIDE DEF n, f
  <2> QED BY <1>2, <1>4, <1>5 DEF Quiet

-------------------------------------------------------------------------------
(* Exits. *)

(* A probe has ended: the unit is restarted by stopping it. *)
LEMMA FinishProbeQuiet ==
  ASSUME NEW k \in Managers, NEW u \in Units, NEW outcome
  PROVE  Quiet(k, finish_probe(k, u, outcome))
<1> DEFINE r == [k.rt[u] EXCEPT !.probe_pid = NoPid, !.probe_deadline = FALSE]
           restart == outcome # "Success" /\ r.config.health_restart /\ r.pid # NoPid
           n == IF r.config.at_once THEN Kill(k, r.pid) ELSE k
           at == IF r.config.at_once THEN r.kill_at ELSE TRUE
           stopping == [r EXCEPT !.state = "Deactivating", !.restart_after_stop = TRUE,
                                 !.kill_at = at]
           gone == [r EXCEPT !.state = "Inactive", !.pid = NoPid]
<1>1. r \in UnitRuntime /\ r.pid = k.rt[u].pid
  <2>1. k.rt[u] \in UnitRuntime
    BY ManagerParts
  <2> QED BY <2>1 DEF UnitRuntime
<1>2. CASE ~restart
  <2>1. finish_probe(k, u, outcome) = Put(k, u, schedule_health(r))
    BY <1>2, Zenon DEF finish_probe
  <2> HIDE DEF r
  <2> QED BY <1>1, <2>1, ScheduleHealthKeeps, PutQuiet
<1>3. CASE restart /\ Alive(k, r.pid)
  <2>1. finish_probe(k, u, outcome) = Put(n, u, stopping)
    BY <1>3, Zenon DEF finish_probe
  <2>2. at \in BOOLEAN
    <3> HIDE DEF r
    <3> QED BY <1>1 DEF UnitRuntime
  <2>3. stopping \in UnitRuntime /\ stopping.pid = r.pid
    <3> HIDE DEF r, at
    <3> QED BY <1>1, <2>2 DEF UnitRuntime, States
  <2>4. SameUnits(k, n)
    BY KillKeeps DEF SameUnits
  <2> HIDE DEF n, stopping, r
  <2> QED BY <1>1, <2>1, <2>3, <2>4, PutKeeps, SMTT(60) DEF Quiet, SameUnits
<1>4. CASE restart /\ ~Alive(k, r.pid)
  <2>1. finish_probe(k, u, outcome) = Put(k, u, gone)
    BY <1>4, Zenon DEF finish_probe
  <2>2. gone \in UnitRuntime /\ gone.pid = NoPid
    <3> HIDE DEF r
    <3> QED BY <1>1 DEF UnitRuntime, States
  <2> HIDE DEF gone
  <2> QED BY <2>1, <2>2, PutQuiet
<1> QED BY <1>2, <1>3, <1>4

(* The main process has ended: at most a restart is scheduled. *)
LEMMA MainExitQuiet ==
  ASSUME NEW k \in Managers, NEW u \in Units, NEW outcome \in Outcomes, NEW i \in Nat
  PROVE  Quiet(k, MainExit(k, u, outcome, i))
<1> DEFINE old == k.rt[u]
           kind == old.config.kind
           policy == old.config.policy
           r == [old EXCEPT !.pid = NoPid, !.start_deadline = FALSE,
                            !.probe_pid = NoPid, !.kill_at = FALSE,
                            !.health_at = FALSE, !.probe_deadline = FALSE]
           n == Kill(k, old.probe_pid)
           c == Put(n, u, r)
           done == old.state = "Starting" /\ kind = "Oneshot" /\ outcome = "Success"
           to == IF done THEN StartUpComplete(old.state, kind)
                 ELSE IF old.state = "Starting" THEN StartUpFailed(old.state)
                 ELSE Exit(old.state, policy, outcome)
           plain == [r EXCEPT !.restart_after_stop = FALSE]
           idle == [r EXCEPT !.state = "Inactive"]
           moved == [r EXCEPT !.state = to]
           settled == Put(c, u, moved)
           restarted == schedule_restart(settled, u, i)
<1>1. old \in UnitRuntime
  BY ManagerParts
<1>2. r \in UnitRuntime /\ r.pid = NoPid
  <2> HIDE DEF old
  <2> QED BY <1>1 DEF UnitRuntime
<1>3. c \in Managers /\ Quiet(k, c)
  <2>1. SameUnits(k, n)
    BY KillKeeps
  <2> HIDE DEF n, r
  <2> QED BY <1>2, <2>1, PutKeeps DEF Quiet, SameUnits
<1>4. ASSUME NEW q \in UnitRuntime, q.pid = NoPid
      PROVE  Put(c, u, q) \in Managers /\ Quiet(k, Put(c, u, q))
  <2> HIDE DEF c
  <2>1. Quiet(c, Put(c, u, q))
    BY <1>3, <1>4, PutQuiet
  <2> QED BY <1>3, <2>1, QuietTransitive DEF Quiet
<1>5. to \in States \cup {NotAllowed}
  <2>1. old.state \in States
    BY <1>1 DEF UnitRuntime
  <2>2. /\ StartUpComplete(old.state, kind) \in Satisfied \cup {NotAllowed}
        /\ StartUpFailed(old.state) \in {"StartFailure", NotAllowed}
        /\ Exit(old.state, policy, outcome)
             \in {"RestartWait", "Inactive", "StartFailure", NotAllowed}
    BY <2>1, UpStates, DownStates
  <2> HIDE DEF done
  <2> QED BY <2>2 DEF States, Failed
<1>6. ASSUME to # NotAllowed
      PROVE  settled \in Managers /\ Quiet(k, settled)
  <2>1. moved \in UnitRuntime /\ moved.pid = NoPid
    <3> HIDE DEF r, to
    <3> QED BY <1>2, <1>5, <1>6 DEF UnitRuntime
  <2> HIDE DEF moved, c
  <2> QED BY <1>4, <2>1
<1>7. idle \in UnitRuntime /\ idle.pid = NoPid /\ plain \in UnitRuntime /\ plain.pid = NoPid
  <2> HIDE DEF r
  <2> QED BY <1>2 DEF UnitRuntime, States
<1>8. CASE old.state = "Deactivating" /\ old.restart_after_stop
  <2>1. MainExit(k, u, outcome, i) = schedule_restart(Put(c, u, plain), u, i)
    BY <1>8 DEF MainExit
  <2> HIDE DEF c, plain
  <2>2. Put(c, u, plain) \in Managers /\ Quiet(k, Put(c, u, plain))
    BY <1>4, <1>7
  <2> QED BY <2>1, <2>2, ScheduleRestartQuiet, QuietTransitive
<1>9. CASE old.state = "Deactivating" /\ ~old.restart_after_stop
  <2>1. MainExit(k, u, outcome, i) = Put(c, u, idle)
    BY <1>9 DEF MainExit
  <2> HIDE DEF c, idle
  <2> QED BY <1>4, <1>7, <2>1
<1>10. CASE old.state # "Deactivating" /\ to = NotAllowed
  <2>1. ~done
    <3>1. ASSUME done PROVE to # NotAllowed
      BY <3>1 DEF StartUpComplete, transition, Outcomes, Cell, NotAllowed
    <3> QED BY <1>10, <3>1
  <2>2. MainExit(k, u, outcome, i) = Put(c, u, idle)
    BY <1>10, <2>1 DEF MainExit
  <2> HIDE DEF c, idle
  <2> QED BY <1>4, <1>7, <2>2
<1>11. CASE old.state # "Deactivating" /\ to # NotAllowed /\ done
  <2>1. MainExit(k, u, outcome, i) = settled
    BY <1>11 DEF MainExit
  <2> HIDE DEF settled
  <2> QED BY <1>6, <1>11, <2>1
<1>12. CASE old.state # "Deactivating" /\ to # NotAllowed /\ ~done
  <2>1. MainExit(k, u, outcome, i)
          = IF (old.state = "Starting" /\ k.boot_in_progress) \/ ~WantsRestart(policy, outcome)
            THEN IF to \in Failed THEN fail_start(settled, u) ELSE settled
            ELSE IF restarted.rt[u].state = "StartLimitHit"
            THEN fail_start(restarted, u) ELSE restarted
    BY <1>12 DEF MainExit
  <2>2. settled \in Managers /\ Quiet(k, settled)
    BY <1>6, <1>12
  <2> HIDE DEF settled, to
  <2>3. restarted \in Managers /\ Quiet(k, restarted)
    BY <2>2, ScheduleRestartQuiet, QuietTransitive DEF Quiet
  <2> HIDE DEF restarted
  <2>4. Quiet(k, fail_start(settled, u)) /\ Quiet(k, fail_start(restarted, u))
    BY <2>2, <2>3, FailStartQuiet, QuietTransitive
  <2> QED BY <2>1, <2>2, <2>3, <2>4
<1> QED BY <1>8, <1>9, <1>10, <1>11, <1>12

(* Any child has ended. *)
LEMMA ChildExitQuiet ==
  ASSUME NEW k \in Managers, NEW p \in Pids, NEW outcome \in Outcomes,
         NEW daemon \in Pids \cup {NoPid}, NEW i \in Nat
  PROVE  Quiet(k, on_child_exit(k, p, outcome, daemon, i))
<1> DEFINE Owner(field) == {u \in Units : k.rt[u][field] = p}
           probed == CHOOSE u \in Owner("probe_pid") : TRUE
           stopped == CHOOSE u \in Owner("exec_stop_pid") : TRUE
           u == CHOOSE u \in Owner("pid") : TRUE
           forked == k.rt[u].state = "Starting" /\ k.rt[u].config.kind = "Forking"
                       /\ outcome = "Success" /\ daemon # NoPid
<1>1. p # NoPid
  BY ConfigAssumption DEF NoPid
<1>2. CASE Owner("probe_pid") # {}
  <2>1. probed \in Units
    BY <1>2
  <2>2. on_child_exit(k, p, outcome, daemon, i) = finish_probe(k, probed, outcome)
    BY <1>2, Zenon DEF on_child_exit
  <2> HIDE DEF probed
  <2> QED BY <2>1, <2>2, FinishProbeQuiet
<1>3. CASE Owner("probe_pid") = {} /\ Owner("exec_stop_pid") # {}
  <2> DEFINE r == [k.rt[stopped] EXCEPT !.exec_stop_pid = NoPid]
  <2>1. stopped \in Units
    BY <1>3
  <2>2. on_child_exit(k, p, outcome, daemon, i)
          = [k EXCEPT !.rt[stopped].exec_stop_pid = NoPid]
    BY <1>3, Zenon DEF on_child_exit
  <2> HIDE DEF stopped
  <2>3. k.rt[stopped] \in UnitRuntime
    BY <2>1, ManagerParts
  <2>4. r \in UnitRuntime /\ r.pid = k.rt[stopped].pid
    BY <2>3 DEF UnitRuntime
  <2>5. [k EXCEPT !.rt[stopped].exec_stop_pid = NoPid] = Put(k, stopped, r)
    BY <2>1, ManagerParts DEF Put, Managers
  <2> HIDE DEF r
  <2> QED BY <2>1, <2>2, <2>4, <2>5, PutQuiet
<1>4. CASE Owner("probe_pid") = {} /\ Owner("exec_stop_pid") = {} /\ Owner("pid") # {}
  <2>1. u \in Units /\ k.rt[u].pid = p
    BY <1>4
  <2>2. on_child_exit(k, p, outcome, daemon, i)
          = IF forked THEN mark_daemon_started(k, u, daemon) ELSE MainExit(k, u, outcome, i)
    BY <1>4, Zenon DEF on_child_exit
  <2>3. forked => daemon \in Pids
    OBVIOUS
  <2> HIDE DEF u, forked
  <2> QED BY <1>1, <2>1, <2>2, <2>3, MainExitQuiet, DaemonQuiet
<1>5. CASE Owner("probe_pid") = {} /\ Owner("exec_stop_pid") = {} /\ Owner("pid") = {}
  <2>1. on_child_exit(k, p, outcome, daemon, i) = k
    BY <1>5, Zenon DEF on_child_exit
  <2> QED BY <2>1 DEF Quiet
<1> QED BY <1>2, <1>3, <1>4, <1>5

-------------------------------------------------------------------------------
(* The inductive invariant.  Types say what the variables hold.  A flow    *)
(* has its turn only while flows are advanced.  The flow being advanced,   *)
(* as long as it has not spawned, is one its unit may still be started by: *)
(* the unit has not failed and was not told to stop, because both were     *)
(* looked at when the advance began and nothing else runs until it ends.   *)

FlowMap(fs) == fs \in [DOMAIN fs -> StartFlow] /\ DOMAIN fs \subseteq Units
ThreadMap(ts) == ts \in [DOMAIN ts -> SpawnThread] /\ DOMAIN ts \subseteq Pids

Early == {"Sockets", "Conflicts", "ConflictWait", "Pre", "Spawn"}

Meant(n, f, u) ==
  f.stage \in Early =>
    /\ n.rt[u].state \notin Failed
    /\ u \in n.rt[u].config.conflicts \/ target_of(n, u) # "Stopped"

Types ==
  /\ m \in Managers
  /\ FlowMap(flows)
  /\ control \in ControlStart
  /\ ThreadMap(threads)
  /\ pc \in {"reap", "apply", "flows", "controls", "deadlines", "select"}
  /\ exits \in [DOMAIN exits -> Exits] /\ DOMAIN exits \subseteq Pids
  /\ turn \subseteq DOMAIN flows
  /\ cur \in Units \cup {None}

TurnIsFlows == turn # {} => pc \in {"flows", "controls"}

CurIsMeant == cur # None => cur \in turn /\ Meant(m, flows[cur], cur)

Inv == Types /\ TurnIsFlows /\ CurIsMeant

(* What a step may start. *)
StartIsMeant ==
  \A u \in Units :
    Starts(u) => /\ m.rt[u].state \notin Failed
                 /\ u \in Config(u).conflicts \/ target_of(m, u) # "Stopped"

(* A step that starts nothing starts nothing wrongly. *)
LEMMA QuietStep ==
  ASSUME Quiet(m, m')
  PROVE  StartIsMeant
BY DEF Quiet, StartIsMeant, Starts

(* What is known of the flow that is being advanced. *)
LEMMA CurParts ==
  ASSUME Inv, NEW u \in Units, cur = u
  PROVE  /\ u \in turn
         /\ u \in DOMAIN flows
         /\ flows[u] \in StartFlow
         /\ pc \in {"flows", "controls"}
         /\ Meant(m, flows[u], u)
<1>1. cur # None
  BY ConfigAssumption
<1> QED BY <1>1 DEF Inv, Types, TurnIsFlows, CurIsMeant, FlowMap

(* The flow goes on to its next stage within the same pass. *)
LEMMA ContinueInv ==
  ASSUME Inv, NEW u \in Units, cur = u, NEW n \in Managers, NEW f \in StartFlow,
         Meant(n, f, u), Continue(u, n, f), UNCHANGED <<control, threads, exits>>
  PROVE  Inv'
<1>1. /\ m' = n
      /\ flows' = [flows EXCEPT ![u] = f]
      /\ UNCHANGED <<pc, turn, cur>>
  BY DEF Continue
<1>2. u \in turn /\ u \in DOMAIN flows /\ pc \in {"flows", "controls"}
  BY CurParts
<1>3. FlowMap(flows)
  BY DEF Inv, Types
<1>4. FlowMap(flows') /\ DOMAIN flows' = DOMAIN flows /\ flows'[u] = f
  BY <1>1, <1>2, <1>3 DEF FlowMap
<1>5. Types'
  BY <1>1, <1>4 DEF Inv, Types
<1>6. TurnIsFlows' /\ CurIsMeant'
  BY <1>1, <1>2, <1>4 DEF TurnIsFlows, CurIsMeant
<1> QED BY <1>5, <1>6 DEF Inv

(* The flow waits for the next pass. *)
LEMMA YieldInv ==
  ASSUME Inv, NEW u \in Units, cur = u, NEW n \in Managers, NEW f \in StartFlow,
         Yield(u, n, f), ThreadMap(threads'), UNCHANGED <<control, exits>>
  PROVE  Inv'
<1>1. /\ m' = n
      /\ flows' = [flows EXCEPT ![u] = f]
      /\ turn' = turn \ {u}
      /\ cur' = None
      /\ ToControls
  BY DEF Yield
<1>2. u \in turn /\ u \in DOMAIN flows /\ pc \in {"flows", "controls"}
  BY CurParts
<1>3. FlowMap(flows) /\ turn \subseteq DOMAIN flows
  BY DEF Inv, Types
<1>4. FlowMap(flows') /\ DOMAIN flows' = DOMAIN flows
  BY <1>1, <1>2, <1>3 DEF FlowMap
<1>5. /\ pc' \in {"flows", "controls", "deadlines"}
      /\ turn' # {} => pc' \in {"flows", "controls"}
  BY <1>1, <1>2 DEF ToControls
<1>6. Types'
  BY <1>1, <1>3, <1>4, <1>5 DEF Inv, Types
<1>7. TurnIsFlows' /\ CurIsMeant'
  BY <1>1, <1>5 DEF TurnIsFlows, CurIsMeant
<1> QED BY <1>6, <1>7 DEF Inv

(* A thread whose flow is gone is told so. *)
LEMMA CancelThreadsType ==
  ASSUME ThreadMap(threads), NEW u
  PROVE  ThreadMap(CancelThreads(u))
<1> DEFINE b(p) == threads[p].cancelled \/ threads[p].unit = u
           f == [p \in DOMAIN threads |-> [threads[p] EXCEPT !.cancelled = b(p)]]
<1>1. ASSUME NEW p \in DOMAIN threads
      PROVE  [threads[p] EXCEPT !.cancelled = b(p)] \in SpawnThread
  <2>1. threads[p] \in SpawnThread
    BY DEF ThreadMap
  <2>2. b(p) \in BOOLEAN
    OBVIOUS
  <2> HIDE DEF b
  <2> QED BY <2>1, <2>2 DEF SpawnThread
<1>2. CancelThreads(u) = f
  BY Zenon DEF CancelThreads
<1> QED
  <2> HIDE DEF b
  <2> QED BY <1>1, <1>2 DEF ThreadMap

(* The flow is removed. *)
LEMMA DropInv ==
  ASSUME Inv, NEW u \in Units, u \in turn, cur \in {u, None}, NEW n \in Managers,
         Drop(u, n), UNCHANGED <<control, exits>>
  PROVE  Inv'
<1>1. /\ m' = n
      /\ flows' = Without(flows, u)
      /\ threads' = CancelThreads(u)
      /\ turn' = turn \ {u}
      /\ cur' = None
      /\ ToControls
  BY DEF Drop
<1>2. pc \in {"flows", "controls"}
  BY DEF Inv, TurnIsFlows
<1>3. FlowMap(flows) /\ turn \subseteq DOMAIN flows
  BY DEF Inv, Types
<1>4. FlowMap(flows') /\ DOMAIN flows' = DOMAIN flows \ {u}
  BY <1>1, <1>3 DEF FlowMap, Without
<1>5. /\ pc' \in {"flows", "controls", "deadlines"}
      /\ turn' # {} => pc' \in {"flows", "controls"}
  BY <1>1, <1>2 DEF ToControls
<1>6. ThreadMap(threads')
  BY <1>1, CancelThreadsType DEF Inv, Types
<1>7. Types'
  BY <1>1, <1>3, <1>4, <1>5, <1>6 DEF Inv, Types
<1>8. TurnIsFlows' /\ CurIsMeant'
  BY <1>1, <1>5 DEF TurnIsFlows, CurIsMeant
<1> QED BY <1>7, <1>8 DEF Inv

(* The flow is removed and its spawn, if any, is cancelled. *)
LEMMA FinishInv ==
  ASSUME Inv, NEW u \in Units, u \in turn, cur \in {u, None}, NEW n, Quiet(m, n),
         Finish(u, n), UNCHANGED <<control, exits>>
  PROVE  Inv' /\ Quiet(m, m')
<1> DEFINE o == Kill(n, flows[u].aux)
<1>1. SameUnits(n, o)
  BY KillKeeps DEF Quiet
<1>2. o \in Managers /\ Quiet(m, o)
  BY <1>1, SameIsQuiet, QuietTransitive DEF Quiet
<1>3. Drop(u, o)
  BY DEF Finish
<1>4. m' = o
  BY <1>3 DEF Drop
<1> QED
  <2> HIDE DEF o
  <2> QED BY <1>2, <1>3, <1>4, DropInv

(* The flow is removed and its unit fails. *)
LEMMA FailInv ==
  ASSUME Inv, NEW u \in Units, cur = u, NEW n, Quiet(m, n),
         Fail(u, n), UNCHANGED <<control, exits>>
  PROVE  Inv' /\ Quiet(m, m')
<1>1. Quiet(m, fail_start(n, u))
  BY FailStartQuiet, QuietTransitive DEF Quiet
<1>2. u \in turn
  BY CurParts
<1> QED BY <1>1, <1>2, FinishInv DEF Fail

-------------------------------------------------------------------------------
(* The start flows, one lemma per stage. *)

(* What every step may assume. *)
LEMMA InvParts ==
  ASSUME Inv
  PROVE  m \in Managers /\ Quiet(m, m) /\ ThreadMap(threads)
BY DEF Inv, Types, Quiet

(* The two checks at the top of StartFlow::advance. *)
LEMMA AdvanceStep ==
  ASSUME Inv, NEW u \in Units, advance(u)
  PROVE  Inv' /\ StartIsMeant
<1>1. u \in turn /\ cur = None /\ UNCHANGED <<control, exits>>
  BY DEF advance
<1>2. CASE Cancelled(u) \/ Rejected(u)
  <2>1. Finish(u, m)
    BY <1>2 DEF advance
  <2>2. Inv' /\ Quiet(m, m')
    BY <1>1, <2>1, InvParts, FinishInv
  <2> QED BY <2>2, QuietStep
<1>3. CASE ~(Cancelled(u) \/ Rejected(u))
  <2>1. cur' = u /\ UNCHANGED <<m, flows, threads, turn, pc>>
    BY <1>3 DEF advance
  <2>2. Meant(m, flows[u], u)
    BY <1>3 DEF Cancelled, Rejected, Meant, Early
  <2>3. Inv'
    BY <1>1, <2>1, <2>2 DEF Inv, Types, TurnIsFlows, CurIsMeant
  <2> QED BY <2>1, <2>3, InvParts, QuietStep
<1> QED BY <1>2, <1>3

(* The flow's own budget. *)
LEMMA TimeoutStep ==
  ASSUME Inv, NEW u \in Units, flow_timeout(u)
  PROVE  Inv' /\ StartIsMeant
<1>1. Inv' /\ Quiet(m, m')
  BY InvParts, FailInv DEF flow_timeout
<1> QED BY <1>1, QuietStep

(* NeedsSocket=. *)
LEMMA SocketsStep ==
  ASSUME Inv, NEW u \in Units, sockets(u)
  PROVE  Inv' /\ StartIsMeant
<1> DEFINE f == [flows[u] EXCEPT !.stage = "Conflicts"]
<1>1. cur = u /\ flows[u].stage = "Sockets" /\ UNCHANGED <<control, threads, exits>>
  BY DEF sockets, At
<1>2. flows[u] \in StartFlow /\ Meant(m, flows[u], u)
  BY <1>1, CurParts
<1>3. f \in StartFlow
  BY <1>2 DEF StartFlow, Stages
<1>4. Meant(m, f, u)
  BY <1>1, <1>2 DEF Meant, Early
<1>5. CASE Continue(u, m, f)
  <2>1. Inv'
    <3> HIDE DEF f
    <3> QED BY <1>1, <1>3, <1>4, <1>5, InvParts, ContinueInv
  <2> QED BY <1>5, <2>1, InvParts, QuietStep DEF Continue
<1>6. CASE Yield(u, m, flows[u])
  <2>1. ThreadMap(threads')
    BY <1>1, InvParts
  <2>2. Inv'
    BY <1>1, <1>2, <1>6, <2>1, InvParts, YieldInv
  <2> QED BY <1>6, <2>2, InvParts, QuietStep DEF Yield
<1> QED BY <1>5, <1>6 DEF sockets

(* Conflicts=, one unit at a time; only a unit that conflicts with itself  *)
(* can be stopped by its own start.                                        *)
LEMMA StopConflictsStep ==
  ASSUME Inv, NEW u \in Units, stop_conflicts(u)
  PROVE  Inv' /\ StartIsMeant
<1> DEFINE others == {v \in Config(u).conflicts \ flows[u].waits : NeedsStop(m, v)}
<1>1. cur = u /\ flows[u].stage = "Conflicts" /\ UNCHANGED <<control, threads, exits>>
  BY DEF stop_conflicts, At
<1>2. flows[u] \in StartFlow /\ Meant(m, flows[u], u)
  BY <1>1, CurParts
<1>3. m \in Managers /\ m.rt[u] \in UnitRuntime
  BY InvParts, ManagerParts
<1>4. CASE others = {}
  <2> DEFINE f == [flows[u] EXCEPT !.stage = "ConflictWait"]
  <2>1. Continue(u, m, f)
    BY <1>4 DEF stop_conflicts
  <2>2. f \in StartFlow
    BY <1>2 DEF StartFlow, Stages
  <2>3. Meant(m, f, u)
    BY <1>1, <1>2 DEF Meant, Early
  <2>4. Inv'
    <3> HIDE DEF f
    <3> QED BY <1>1, <2>1, <2>2, <2>3, InvParts, ContinueInv
  <2> QED BY <2>1, <2>4, InvParts, QuietStep DEF Continue
<1>5. CASE others # {}
  <2>1. PICK v \in others, ok \in BOOLEAN : \E left \in Left(m, v) :
          Continue(u, StopConflict(m, v, ok, left),
                   [flows[u] EXCEPT !.waits = flows[u].waits \cup {v}])
    BY <1>5 DEF stop_conflicts
  <2>2. v \in Units /\ v \in m.rt[u].config.conflicts
    BY <1>3, ConfigParts DEF Config
  <2>3. PICK left \in Left(m, v) :
          Continue(u, StopConflict(m, v, ok, left),
                   [flows[u] EXCEPT !.waits = flows[u].waits \cup {v}])
    BY <2>1
  <2>4. left \in BOOLEAN
    BY DEF Left
  <2> DEFINE n == StopConflict(m, v, ok, left)
             f == [flows[u] EXCEPT !.waits = flows[u].waits \cup {v}]
  <2>5. /\ Quiet(m, n)
        /\ \A w \in Units \ {v} : n.rt[w] = m.rt[w] /\ n.jobs[w] = m.jobs[w]
        /\ n.rt[v].state \in {m.rt[v].state, "Deactivating", "Inactive"}
        /\ n.rt[v].config = m.rt[v].config
    BY <1>3, <2>2, <2>4, StopConflictKeeps
  <2>6. f \in StartFlow /\ f.stage = flows[u].stage
    <3>1. {v} \in SUBSET Units
      BY <2>2
    <3> QED BY <1>2, <3>1 DEF StartFlow
  <2>7. Meant(n, f, u)
    <3> HIDE DEF n, f
    <3>1. m.rt[u].state \notin Failed
            /\ (u \in m.rt[u].config.conflicts \/ target_of(m, u) # "Stopped")
      BY <1>1, <1>2 DEF Meant, Early
    <3>2. CASE v = u
      BY <2>2, <2>5, <3>1, <3>2 DEF Meant, Failed
    <3>3. CASE v # u
      BY <2>5, <3>1, <3>3 DEF Meant, target_of
    <3> QED BY <3>2, <3>3
  <2>8. Continue(u, n, f)
    BY <2>3
  <2> HIDE DEF n, f
  <2>9. Inv'
    BY <1>1, <2>5, <2>6, <2>7, <2>8, ContinueInv DEF Quiet
  <2> QED BY <2>5, <2>8, <2>9, QuietStep DEF Continue
<1> QED BY <1>4, <1>5

(* The wait for those stops, after which the unit is looked at again. *)
LEMMA ConflictWaitStep ==
  ASSUME Inv, NEW u \in Units, conflict_wait(u)
  PROVE  Inv' /\ StartIsMeant
<1> DEFINE f == flows[u]
           running == {v \in f.waits : m.rt[v].pid # NoPid}
<1>1. cur = u /\ f.stage = "ConflictWait" /\ UNCHANGED <<control, threads, exits>>
  BY DEF conflict_wait, At
<1>2. f \in StartFlow /\ Meant(m, f, u)
  BY <1>1, CurParts
<1>3. PICK late \in SUBSET running :
        LET kill == late \ f.escalated
            rest == running \ (late \cap f.escalated)
            n == KillAll(m, {m.rt[v].pid : v \in kill})
        IN IF rest = {}
           THEN Continue(u, n, [f EXCEPT !.stage = "Pre", !.waits = {}, !.escalated = {}])
           ELSE Yield(u, n, [f EXCEPT !.waits = rest, !.escalated = f.escalated \cup kill])
  BY DEF conflict_wait
<1> DEFINE kill == late \ f.escalated
           rest == running \ (late \cap f.escalated)
           n == KillAll(m, {m.rt[v].pid : v \in kill})
           after == [f EXCEPT !.stage = "Pre", !.waits = {}, !.escalated = {}]
           wait == [f EXCEPT !.waits = rest, !.escalated = f.escalated \cup kill]
<1>4. SameUnits(m, n)
  BY InvParts, KillAllKeeps
<1>5. n \in Managers /\ Quiet(m, n)
  BY <1>4, SameIsQuiet DEF SameUnits
<1>6. after \in StartFlow /\ wait \in StartFlow
  <2>1. f.waits \in SUBSET Units /\ f.escalated \in SUBSET Units
    BY <1>2 DEF StartFlow
  <2>2. rest \in SUBSET Units /\ (f.escalated \cup kill) \in SUBSET Units
    BY <2>1
  <2>3. after \in StartFlow
    <3> HIDE DEF f
    <3> QED BY <1>2 DEF StartFlow, Stages
  <2>4. wait \in StartFlow
    <3> HIDE DEF f, rest, kill
    <3> QED BY <1>2, <2>2 DEF StartFlow
  <2> QED BY <2>3, <2>4
<1>7. Meant(n, after, u)
  <2>1. m.rt[u].state \notin Failed
          /\ (u \in m.rt[u].config.conflicts \/ target_of(m, u) # "Stopped")
    BY <1>1, <1>2 DEF Meant, Early
  <2> HIDE DEF n
  <2> QED BY <1>4, <2>1 DEF SameUnits, Meant, target_of
<1>8. Continue(u, n, after) \/ Yield(u, n, wait)
  BY <1>3
<1> HIDE DEF n, after, wait, f
<1>9. CASE Continue(u, n, after)
  <2>1. Inv'
    BY <1>1, <1>5, <1>6, <1>7, <1>9, ContinueInv
  <2> QED BY <1>5, <1>9, <2>1, QuietStep DEF Continue
<1>10. CASE Yield(u, n, wait)
  <2>1. Inv'
    BY <1>1, <1>5, <1>6, <1>10, InvParts, YieldInv
  <2> QED BY <1>5, <1>10, <2>1, QuietStep DEF Yield
<1> QED BY <1>8, <1>9, <1>10

(* A stage that goes on, waits, or ends the flow, and starts nothing. *)
LEMMA FlowOutcome ==
  ASSUME Inv, NEW u \in Units, cur = u, UNCHANGED <<control, exits>>,
         NEW n, Quiet(m, n), NEW f \in StartFlow,
         \/ Continue(u, n, f) /\ Meant(n, f, u) /\ UNCHANGED threads
         \/ Yield(u, n, f) /\ UNCHANGED threads
         \/ Fail(u, n)
         \/ Finish(u, n)
         \/ Drop(u, n)
  PROVE  Inv' /\ StartIsMeant
<1>1. n \in Managers
  BY DEF Quiet
<1>2. u \in turn /\ ThreadMap(threads)
  BY CurParts, InvParts
<1>3. CASE Continue(u, n, f) /\ Meant(n, f, u) /\ UNCHANGED threads
  <2>1. Inv'
    BY <1>1, <1>3, ContinueInv
  <2> QED BY <1>3, <2>1, QuietStep DEF Continue
<1>4. CASE Yield(u, n, f) /\ UNCHANGED threads
  <2>1. Inv'
    BY <1>1, <1>2, <1>4, YieldInv
  <2> QED BY <1>4, <2>1, QuietStep DEF Yield
<1>5. CASE Fail(u, n)
  <2>1. Inv' /\ Quiet(m, m')
    BY <1>5, FailInv
  <2> QED BY <2>1, QuietStep
<1>6. CASE Finish(u, n)
  <2>1. Inv' /\ Quiet(m, m')
    BY <1>2, <1>6, FinishInv
  <2> QED BY <2>1, QuietStep
<1>7. CASE Drop(u, n)
  <2>1. Inv'
    BY <1>1, <1>2, <1>7, DropInv
  <2> QED BY <1>7, <2>1, QuietStep DEF Drop
<1> QED BY <1>3, <1>4, <1>5, <1>6, <1>7

(* A command of the flow is started or over. *)
LEMMA CommandOver ==
  ASSUME NEW f \in StartFlow, NEW i \in 0 .. 1, NEW e \in Outcomes \cup {None},
         NEW p \in Pids \cup {NoPid}
  PROVE  /\ [f EXCEPT !.aux = p, !.exit = e, !.next = i] \in StartFlow
         /\ [f EXCEPT !.aux = p, !.exit = e, !.next = i].stage = f.stage
BY DEF StartFlow

(* A stage is entered. *)
LEMMA StageEntered ==
  ASSUME NEW f \in StartFlow, NEW i \in 0 .. 1, NEW s \in Stages
  PROVE  /\ [f EXCEPT !.stage = s, !.next = i] \in StartFlow
         /\ [f EXCEPT !.stage = s, !.next = i].stage = s
BY DEF StartFlow

(* ExecStartPre=. *)
LEMMA PreStep ==
  ASSUME Inv, NEW u \in Units, pre(u)
  PROVE  Inv' /\ StartIsMeant
<1> DEFINE f == flows[u]
           over == [f EXCEPT !.aux = NoPid, !.exit = None, !.next = 1]
           go == [f EXCEPT !.stage = "Spawn", !.next = 0]
<1>1. cur = u /\ f.stage = "Pre" /\ UNCHANGED <<control, exits>>
  BY DEF pre, At
<1>2. f \in StartFlow /\ Meant(m, f, u) /\ m \in Managers /\ Quiet(m, m)
  BY <1>1, CurParts, InvParts
<1>3. over \in StartFlow /\ Meant(m, over, u) /\ go \in StartFlow /\ Meant(m, go, u)
  <2>0. 0 \in 0 .. 1 /\ 1 \in 0 .. 1 /\ "Spawn" \in Stages
    BY DEF Stages
  <2>1. over \in StartFlow /\ over.stage = "Pre"
    <3> HIDE DEF f
    <3> QED BY <1>1, <1>2, <2>0, CommandOver
  <2>2. go \in StartFlow /\ go.stage = "Spawn"
    <3> HIDE DEF f
    <3> QED BY <1>1, <1>2, <2>0, StageEntered
  <2> HIDE DEF over, go
  <2> QED BY <1>1, <1>2, <2>1, <2>2 DEF Meant, Early
<1>4. CASE f.aux # NoPid /\ f.exit = "Success"
  <2>1. Continue(u, m, over) /\ UNCHANGED threads
    BY <1>4 DEF pre, None
  <2> HIDE DEF over
  <2> QED BY <1>1, <1>2, <1>3, <2>1, FlowOutcome
<1>5. CASE f.aux # NoPid /\ f.exit \notin {"Success", None}
  <2>1. Drop(u, fail_start(m, u))
    BY <1>5 DEF pre
  <2>2. Quiet(m, fail_start(m, u))
    BY <1>2, FailStartQuiet
  <2> HIDE DEF f
  <2> QED BY <1>1, <1>2, <2>1, <2>2, FlowOutcome
<1>6. CASE f.aux # NoPid /\ f.exit = None
  <2>1. (Yield(u, m, f) /\ UNCHANGED threads) \/ Fail(u, m)
    BY <1>6 DEF pre, None
  <2> HIDE DEF f
  <2> QED BY <1>1, <1>2, <2>1, FlowOutcome
<1>7. CASE f.aux = NoPid /\ Config(u).pre /\ f.next = 0
  <2> DEFINE run == [f EXCEPT !.aux = NextPid(m)]
             n == Fork(m, u, "aux")
  <2>1. \/ CanFork(m) /\ Yield(u, n, run) /\ UNCHANGED threads
        \/ Fail(u, m)
    BY <1>7 DEF pre
  <2>2. CASE CanFork(m) /\ Yield(u, n, run) /\ UNCHANGED threads
    <3>1. NextPid(m) \in Pids
      BY <1>2, <2>2, NextPidFree
    <3>2. run \in StartFlow
      <4> HIDE DEF f
      <4> QED BY <1>2, <3>1 DEF StartFlow
    <3>3. Quiet(m, n)
      BY <1>2, <2>2, ForkKeeps, SameIsQuiet
    <3> HIDE DEF run, n
    <3> QED BY <1>1, <2>2, <3>2, <3>3, FlowOutcome
  <2>3. CASE Fail(u, m)
    <3> HIDE DEF f
    <3> QED BY <1>1, <1>2, <2>3, FlowOutcome
  <2> QED BY <2>1, <2>2, <2>3
<1>8. CASE f.aux = NoPid /\ ~(Config(u).pre /\ f.next = 0)
  <2>1. Continue(u, m, go) /\ UNCHANGED threads
    BY <1>8 DEF pre
  <2> HIDE DEF go
  <2> QED BY <1>1, <1>2, <1>3, <2>1, FlowOutcome
<1> QED BY <1>4, <1>5, <1>6, <1>7, <1>8

(* After the spawn nothing more can start the unit in this flow. *)
LEMMA SpawnedFlow ==
  ASSUME NEW u \in Units, flows[u] \in StartFlow, NEW n
  PROVE  Spawned(u) \in StartFlow /\ Meant(n, Spawned(u), u)
<1> DEFINE stage == IF Config(u).kind \in {"Oneshot", "Forking"} THEN "WaitReady" ELSE "Post"
           f == [flows[u] EXCEPT !.spawned = TRUE, !.result = None, !.stage = stage]
<1>1. stage \in {"WaitReady", "Post"}
  OBVIOUS
<1>2. f \in StartFlow /\ f.stage \in {"WaitReady", "Post"}
  <2> HIDE DEF stage
  <2> QED BY <1>1 DEF StartFlow, Stages
<1>3. Spawned(u) = f
  BY DEF Spawned
<1> QED
  <2> HIDE DEF f
  <2> QED BY <1>2, <1>3 DEF Meant, Early

(* The one step that starts a process: CurIsMeant holds before it. *)
LEMMA SpawnStep ==
  ASSUME Inv, NEW u \in Units, spawn(u)
  PROVE  Inv' /\ StartIsMeant
<1> DEFINE n == ClearLeftovers(m, u)
           o == begin_spawn_unit(m, u)
<1>1. cur = u /\ flows[u].stage = "Spawn" /\ UNCHANGED <<control, exits>>
  BY DEF spawn, At
<1>2. flows[u] \in StartFlow /\ Meant(m, flows[u], u) /\ m \in Managers /\ Quiet(m, m)
  BY <1>1, CurParts, InvParts
<1>3. Quiet(m, n)
  BY <1>2, ClearLeftoversKeeps
<1>4. CASE m.rt[u].pid # NoPid
  <2>1. Finish(u, m)
    BY <1>4 DEF spawn
  <2> QED BY <1>1, <1>2, <2>1, FlowOutcome
<1>5. ASSUME m.rt[u].pid = NoPid, CanFork(n), m' = o
      PROVE  StartIsMeant
  <2>1. o \in Managers /\ \A v \in Units \ {u} : o.rt[v] = m.rt[v]
    BY <1>2, <1>5, BeginSpawnKeeps
  <2>2. m.rt[u].state \notin Failed
          /\ (u \in m.rt[u].config.conflicts \/ target_of(m, u) # "Stopped")
    BY <1>1, <1>2 DEF Meant, Early
  <2> HIDE DEF o
  <2> QED BY <1>5, <2>1, <2>2 DEF StartIsMeant, Starts, Config
<1>6. ASSUME CanFork(n),
             Yield(u, o, [flows[u] EXCEPT !.stage = "SpawnWait"]),
             threads' = With(threads, NextPid(n), [unit |-> u, cancelled |-> FALSE])
      PROVE  Inv'
  <2> DEFINE f == [flows[u] EXCEPT !.stage = "SpawnWait"]
             t == [unit |-> u, cancelled |-> FALSE]
  <2>1. o \in Managers
    BY <1>2, <1>6, BeginSpawnKeeps
  <2>2. f \in StartFlow
    BY <1>2 DEF StartFlow, Stages
  <2>3. ThreadMap(threads')
    <3>1. NextPid(n) \in Pids
      BY <1>3, <1>6, NextPidFree DEF Quiet
    <3>2. t \in SpawnThread
      BY DEF SpawnThread
    <3>3. threads' = With(threads, NextPid(n), t)
      BY <1>6
    <3> HIDE DEF t, n
    <3> QED BY <3>1, <3>2, <3>3, InvParts DEF ThreadMap, With
  <2>4. Yield(u, o, f)
    BY <1>6
  <2> HIDE DEF f, o
  <2> QED BY <1>1, <2>1, <2>2, <2>3, <2>4, YieldInv
<1>7. ASSUME CanFork(n), Continue(u, o, Spawned(u)), UNCHANGED threads
      PROVE  Inv'
  <2>1. o \in Managers
    BY <1>2, <1>7, BeginSpawnKeeps
  <2>2. Spawned(u) \in StartFlow /\ Meant(o, Spawned(u), u)
    BY <1>2, SpawnedFlow
  <2> HIDE DEF o
  <2> QED BY <1>1, <1>7, <2>1, <2>2, ContinueInv
<1>8. CASE m.rt[u].pid = NoPid
  <2>1. \/ /\ CanFork(n)
           /\ Yield(u, o, [flows[u] EXCEPT !.stage = "SpawnWait"])
           /\ threads' = With(threads, NextPid(n), [unit |-> u, cancelled |-> FALSE])
        \/ CanFork(n) /\ Continue(u, o, Spawned(u)) /\ UNCHANGED threads
        \/ Fail(u, n)
    BY <1>8 DEF spawn
  <2>2. CASE Fail(u, n)
    <3> HIDE DEF n
    <3> QED BY <1>1, <1>2, <1>3, <2>2, FlowOutcome
  <2>3. CASE /\ CanFork(n)
             /\ Yield(u, o, [flows[u] EXCEPT !.stage = "SpawnWait"])
             /\ threads' = With(threads, NextPid(n), [unit |-> u, cancelled |-> FALSE])
    BY <1>5, <1>6, <1>8, <2>3 DEF Yield
  <2>4. CASE CanFork(n) /\ Continue(u, o, Spawned(u)) /\ UNCHANGED threads
    BY <1>5, <1>7, <1>8, <2>4 DEF Continue
  <2> QED BY <2>1, <2>2, <2>3, <2>4
<1> QED BY <1>4, <1>8

(* The report of the spawn. *)
LEMMA SpawnWaitStep ==
  ASSUME Inv, NEW u \in Units, spawn_wait(u)
  PROVE  Inv' /\ StartIsMeant
<1>1. cur = u /\ UNCHANGED <<control, exits>>
  BY DEF spawn_wait, At
<1>2. flows[u] \in StartFlow /\ Quiet(m, m)
  BY <1>1, CurParts, InvParts
<1>3. Spawned(u) \in StartFlow /\ Meant(m, Spawned(u), u)
  BY <1>2, SpawnedFlow
<1>4. flows[u].result \in {None, "ok", "err"}
  BY <1>2 DEF StartFlow
<1>5. CASE flows[u].result = "ok"
  <2>1. Continue(u, m, Spawned(u)) /\ UNCHANGED threads
    BY <1>5 DEF spawn_wait, None
  <2> QED BY <1>1, <1>2, <1>3, <2>1, FlowOutcome
<1>6. CASE flows[u].result = "err"
  <2>1. Fail(u, m)
    BY <1>6 DEF spawn_wait, None
  <2> QED BY <1>1, <1>2, <2>1, FlowOutcome
<1>7. CASE flows[u].result = None
  <2>1. Yield(u, m, flows[u]) /\ UNCHANGED threads
    BY <1>7 DEF spawn_wait, None
  <2> QED BY <1>1, <1>2, <2>1, FlowOutcome
<1> QED BY <1>4, <1>5, <1>6, <1>7

(* The wait for readiness. *)
LEMMA WaitReadyStep ==
  ASSUME Inv, NEW u \in Units, wait_ready(u)
  PROVE  Inv' /\ StartIsMeant
<1> DEFINE f == [flows[u] EXCEPT !.stage = "Post"]
<1>1. cur = u /\ UNCHANGED <<control, exits>>
  BY DEF wait_ready, At
<1>2. flows[u] \in StartFlow /\ Quiet(m, m)
  BY <1>1, CurParts, InvParts
<1>3. f \in StartFlow /\ Meant(m, f, u)
  BY <1>2 DEF StartFlow, Stages, Meant, Early
<1>4. \/ Continue(u, m, f) /\ UNCHANGED threads
      \/ Yield(u, m, flows[u]) /\ UNCHANGED threads
      \/ Fail(u, m)
      \/ Finish(u, m)
  BY DEF wait_ready, Satisfied
<1>5. CASE Continue(u, m, f) /\ UNCHANGED threads
  <2> HIDE DEF f
  <2> QED BY <1>1, <1>2, <1>3, <1>5, FlowOutcome
<1>6. CASE (Yield(u, m, flows[u]) /\ UNCHANGED threads) \/ Fail(u, m) \/ Finish(u, m)
  BY <1>1, <1>2, <1>6, FlowOutcome
<1> QED BY <1>4, <1>5, <1>6

(* ExecStartPost=. *)
LEMMA PostStep ==
  ASSUME Inv, NEW u \in Units, post(u)
  PROVE  Inv' /\ StartIsMeant
<1> DEFINE f == flows[u]
           over == [f EXCEPT !.aux = NoPid, !.exit = None, !.next = 1]
           run == [f EXCEPT !.aux = NextPid(m)]
<1>1. cur = u /\ f.stage = "Post" /\ UNCHANGED <<control, exits>>
  BY DEF post, At
<1>2. f \in StartFlow /\ m \in Managers /\ Quiet(m, m)
  BY <1>1, CurParts, InvParts
<1>3. over \in StartFlow /\ \A n : Meant(n, over, u)
  <2>1. over \in StartFlow /\ over.stage = "Post"
    <3>1. 1 \in 0 .. 1
      OBVIOUS
    <3> HIDE DEF f
    <3> QED BY <1>1, <1>2, <3>1, CommandOver
  <2> HIDE DEF over
  <2> QED BY <2>1 DEF Meant, Early
<1>4. \/ Continue(u, m, over) /\ UNCHANGED threads
      \/ Yield(u, m, f) /\ UNCHANGED threads
      \/ Continue(u, Kill(m, f.aux), over) /\ UNCHANGED threads
      \/ CanFork(m) /\ Yield(u, Fork(m, u, "aux"), run) /\ UNCHANGED threads
      \/ Finish(u, m)
  BY DEF post
<1>5. CASE Continue(u, m, over) /\ UNCHANGED threads
  <2> HIDE DEF over
  <2> QED BY <1>1, <1>2, <1>3, <1>5, FlowOutcome
<1>6. CASE (Yield(u, m, f) /\ UNCHANGED threads) \/ Finish(u, m)
  <2> HIDE DEF f
  <2> QED BY <1>1, <1>2, <1>6, FlowOutcome
<1>7. CASE Continue(u, Kill(m, f.aux), over) /\ UNCHANGED threads
  <2>1. Quiet(m, Kill(m, f.aux))
    BY <1>2, KillKeeps, SameIsQuiet
  <2> HIDE DEF over, f
  <2> QED BY <1>1, <1>3, <1>7, <2>1, FlowOutcome
<1>8. CASE CanFork(m) /\ Yield(u, Fork(m, u, "aux"), run) /\ UNCHANGED threads
  <2>1. NextPid(m) \in Pids
    BY <1>2, <1>8, NextPidFree
  <2>2. run \in StartFlow
    <3> HIDE DEF f
    <3> QED BY <1>2, <2>1 DEF StartFlow
  <2>3. Quiet(m, Fork(m, u, "aux"))
    BY <1>2, <1>8, ForkKeeps, SameIsQuiet
  <2> HIDE DEF run
  <2> QED BY <1>1, <1>8, <2>2, <2>3, FlowOutcome
<1> QED BY <1>4, <1>5, <1>6, <1>7, <1>8

-------------------------------------------------------------------------------
(* The rest of the loop. *)

(* Outside the flows no flow has its turn. *)
LEMMA IdleParts ==
  ASSUME Inv, pc \notin {"flows", "controls"}
  PROVE  turn = {} /\ cur = None
BY DEF Inv, TurnIsFlows, CurIsMeant

(* Every flow gets its turn once per pass. *)
LEMMA ToFlowsTurn ==
  ASSUME ToFlows
  PROVE  /\ pc' \in {"flows", "controls", "deadlines"}
         /\ turn' = DOMAIN flows'
         /\ turn' # {} => pc' = "flows"
<1>1. DOMAIN <<>> = {}
  OBVIOUS
<1>2. turn' # {} => flows' # <<>>
  BY <1>1 DEF ToFlows
<1> QED BY <1>2 DEF ToFlows

(* waitpid collects exits. *)
LEMMA ReapStep ==
  ASSUME Inv, reap_children
  PROVE  Inv' /\ StartIsMeant
<1>1. PICK S \in SUBSET DOMAIN m.procs :
        /\ m' = Reaped(m, S)
        /\ exits' \in [S -> Exits]
        /\ UNCHANGED flows
        /\ IF S = {} THEN ToFlows ELSE pc' = "apply" /\ UNCHANGED turn
  BY DEF reap_children
<1>2. pc = "reap" /\ UNCHANGED <<control, threads, cur>>
  BY DEF reap_children
<1>3. m \in Managers /\ DOMAIN m.procs \subseteq Pids
  BY InvParts, ManagerParts
<1>4. SameUnits(m, m')
  BY <1>1, <1>3, ReapedKeeps
<1>5. turn = {} /\ cur = None
  BY <1>2, IdleParts
<1>6. /\ pc' \in {"apply", "flows", "controls", "deadlines"}
      /\ turn' \subseteq DOMAIN flows'
      /\ turn' # {} => pc' = "flows"
  BY <1>1, <1>5, ToFlowsTurn
<1>7. exits' \in [DOMAIN exits' -> Exits] /\ DOMAIN exits' \subseteq Pids
  BY <1>1, <1>3
<1>8. Types'
  BY <1>1, <1>2, <1>4, <1>6, <1>7 DEF Inv, Types, SameUnits
<1>9. TurnIsFlows' /\ CurIsMeant'
  BY <1>2, <1>5, <1>6 DEF TurnIsFlows, CurIsMeant
<1> QED BY <1>4, <1>8, <1>9, SameIsQuiet, QuietStep DEF Inv

(* The manager is told of one of them. *)
LEMMA ApplyStep ==
  ASSUME Inv, apply_exit
  PROVE  Inv' /\ StartIsMeant
<1>1. PICK p \in DOMAIN exits :
        /\ exits' = Without(exits, p)
        /\ IF owns_child(p)
           THEN \E daemon \in Daemons \cup {NoPid}, n \in 0 .. Burst :
                  /\ \A u \in Units : m.rt[u].pid = p => n \in Counted(m, u)
                  /\ m' = on_child_exit(m, p, exits[p], daemon, n)
           ELSE UNCHANGED m
        /\ flows' = [u \in DOMAIN flows |->
                       IF ~owns_child(p) /\ flows[u].aux = p
                       THEN [flows[u] EXCEPT !.exit = exits[p]] ELSE flows[u]]
        /\ IF exits' = <<>> THEN ToFlows ELSE UNCHANGED <<pc, turn>>
  BY DEF apply_exit
<1>2. pc = "apply" /\ UNCHANGED <<control, threads, cur>>
  BY DEF apply_exit
<1>3. m \in Managers /\ FlowMap(flows)
        /\ exits \in [DOMAIN exits -> Exits] /\ DOMAIN exits \subseteq Pids
  BY DEF Inv, Types
<1>4. p \in Pids /\ exits[p] \in Outcomes
  BY <1>3, SupervisorAssumption
<1>5. Quiet(m, m')
  <2>1. CASE owns_child(p)
    <3>1. PICK daemon \in Daemons \cup {NoPid}, n \in 0 .. Burst :
            m' = on_child_exit(m, p, exits[p], daemon, n)
      BY <1>1, <2>1
    <3>2. daemon \in Pids \cup {NoPid} /\ n \in Nat
      BY ConfigAssumption DEF Daemons
    <3> QED BY <1>3, <1>4, <3>1, <3>2, ChildExitQuiet
  <2>2. CASE ~owns_child(p)
    BY <1>1, <1>3, <2>2 DEF Quiet
  <2> QED BY <2>1, <2>2
<1>6. FlowMap(flows')
  <2>1. ASSUME NEW u \in DOMAIN flows
        PROVE  [flows[u] EXCEPT !.exit = exits[p]] \in StartFlow
    <3>1. flows[u] \in StartFlow
      BY <1>3 DEF FlowMap
    <3> QED BY <1>4, <3>1 DEF StartFlow
  <2> QED BY <1>1, <1>3, <2>1 DEF FlowMap
<1>7. turn = {} /\ cur = None
  BY <1>2, IdleParts
<1>8. /\ pc' \in {"apply", "flows", "controls", "deadlines"}
      /\ turn' \subseteq DOMAIN flows'
      /\ turn' # {} => pc' = "flows"
  BY <1>1, <1>2, <1>7, ToFlowsTurn
<1>9. exits' \in [DOMAIN exits' -> Exits] /\ DOMAIN exits' \subseteq Pids
  BY <1>1, <1>3 DEF Without
<1>10. Types'
  BY <1>2, <1>5, <1>6, <1>8, <1>9 DEF Inv, Types, Quiet
<1>11. TurnIsFlows' /\ CurIsMeant'
  BY <1>2, <1>7, <1>8 DEF TurnIsFlows, CurIsMeant
<1> QED BY <1>5, <1>10, <1>11, QuietStep DEF Inv

(* A start flow is made for each of the units that has none. *)
LEMMA BeginType ==
  ASSUME NEW S \in SUBSET Units, FlowMap(flows), m \in Managers
  PROVE  FlowMap(begin(flows, S)) /\ DOMAIN begin(flows, S) = S \cup DOMAIN flows
<1>1. ASSUME NEW u \in Units PROVE NewFlow(u) \in StartFlow
  <2>1. 0 \in 0 .. 1
    OBVIOUS
  <2> QED BY <2>1 DEF NewFlow, StartFlow, Stages
<1> QED BY <1>1 DEF begin, FlowMap

(* The control job changes nothing of the flows, *)
LEMMA ControlInv ==
  ASSUME Inv, AtControl, Quiet(m, m'), control' \in ControlStart,
         pc' \in {"controls", "deadlines"}, UNCHANGED <<flows, turn, threads, exits, cur>>
  PROVE  Inv' /\ StartIsMeant
<1>1. turn = {} /\ cur = None
  BY DEF AtControl
<1>2. Types'
  BY DEF Inv, Types, Quiet
<1>3. TurnIsFlows' /\ CurIsMeant'
  BY <1>1 DEF TurnIsFlows, CurIsMeant
<1> QED BY <1>2, <1>3, QuietStep DEF Inv

(* The forms a control job takes. *)
LEMMA ControlTypes ==
  ASSUME Inv
  PROVE  /\ control \in ControlStart
         /\ NoControl \in ControlStart
         /\ \A u \in Units \cup {None} : [control EXCEPT !.waiting = u] \in ControlStart
         /\ \A u \in Units : \A w \in Units \cup {None} :
              /\ [control EXCEPT !.rest = @ \ {u}] \in ControlStart
              /\ [[control EXCEPT !.rest = @ \ {u}] EXCEPT !.waiting = w] \in ControlStart
<1>1. control \in ControlStart
  BY DEF Inv, Types
<1>2. NoControl \in ControlStart
  BY DEF NoControl, ControlStart
<1> QED BY <1>1, <1>2 DEF ControlStart

(* The client is gone or the job is out of time. *)
LEMMA ControlGoneStep ==
  ASSUME Inv, control_gone
  PROVE  Inv' /\ StartIsMeant
<1>1. Quiet(m, m')
  BY InvParts DEF control_gone
<1> QED BY <1>1, ControlTypes, ControlInv DEF control_gone, Reply

(* The job looks at the unit it waits for. *)
LEMMA ControlWaitStep ==
  ASSUME Inv, control_wait
  PROVE  Inv' /\ StartIsMeant
<1> DEFINE next == [control EXCEPT !.waiting = None]
<1>1. Quiet(m, m')
  BY InvParts DEF control_wait
<1>2. \/ pc' = "deadlines" /\ UNCHANGED <<control, flows, turn>>
      \/ Around(next)
      \/ Reply
  BY DEF control_wait
<1>3. AtControl /\ UNCHANGED <<threads, exits, cur>> /\ pc = "controls"
  BY DEF control_wait, AtControl
<1>4. control' \in ControlStart /\ pc' \in {"controls", "deadlines"}
        /\ UNCHANGED <<flows, turn>>
  BY <1>2, <1>3, ControlTypes DEF Around, Reply
<1> QED BY <1>1, <1>3, <1>4, ControlInv

(* The effects a request can have. *)
LEMMA ReconcileValues ==
  ASSUME NEW target \in Targets, NEW state \in States
  PROVE  Reconcile(target, state)
           \in {"Wait", "None", "SpawnProcess", "CancelBackoffAndStart",
                "ClearStartLimitAndStart", "SendStopSignal", "CancelBackoffAndStop"}
BY DEF Reconcile, Targets, States, Satisfied, Failed

(* The job comes to its next unit. *)
LEMMA ControlNextStep ==
  ASSUME Inv, control_next
  PROVE  Inv' /\ StartIsMeant
<1>1. AtControl /\ pc = "controls" /\ UNCHANGED <<threads, exits, cur>>
  BY DEF control_next, AtControl
<1>2. m \in Managers /\ FlowMap(flows)
  BY DEF Inv, Types
<1>3. ASSUME UNCHANGED m, NEW job \in ControlStart, Reply \/ Around(job)
      PROVE  Inv' /\ StartIsMeant
  <2>1. Quiet(m, m')
    BY <1>3, InvParts
  <2>2. control' \in ControlStart /\ pc' \in {"controls", "deadlines"}
          /\ UNCHANGED <<flows, turn>>
    BY <1>1, <1>3, ControlTypes DEF Reply, Around
  <2> QED BY <1>1, <2>1, <2>2, ControlInv
<1>4. CASE control.rest = {}
  <2>1. Reply /\ UNCHANGED m
    BY <1>4 DEF control_next
  <2> QED BY <1>3, <2>1, ControlTypes
<1>5. ASSUME NEW u \in Units, NEW job \in ControlStart,
             [job EXCEPT !.waiting = u] \in ControlStart, ControlRequest(u, job)
      PROVE  Inv' /\ StartIsMeant
  <2> DEFINE source == IF u = control.target THEN "UserStart" ELSE "Dependency"
             n == request(m, u, source)
             effect == effect_for(n, u)
             cleared == IF effect = "ClearStartLimitAndStart"
                        THEN clear_start_limit(n, u) ELSE n
  <2>1. source \in Sources
    BY DEF Sources
  <2>2. Quiet(m, n) /\ n \in Managers /\ n.jobs[u] \in Sources
    <3> HIDE DEF source
    <3> QED BY <1>2, <2>1, RequestKeeps DEF Quiet
  <2>3. effect \in {"Wait", "None", "SpawnProcess", "CancelBackoffAndStart",
                    "ClearStartLimitAndStart", "SendStopSignal", "CancelBackoffAndStop"}
    <3> HIDE DEF n
    <3>1. n.jobs[u] # None
      BY <2>2 DEF Sources, None
    <3>2. target_of(n, u) \in Targets
      BY <3>1 DEF target_of, TargetOf, Targets
    <3>3. n.rt[u].state \in States
      BY <2>2, ManagerParts DEF UnitRuntime
    <3> QED BY <3>1, <3>2, <3>3, ReconcileValues DEF effect_for
  <2>4. CASE effect = "None"
    <3>1. m' = n /\ Around([job EXCEPT !.waiting = u])
      BY <1>5, <2>4 DEF ControlRequest
    <3> HIDE DEF n
    <3> QED BY <1>1, <1>5, <2>2, <3>1, ControlInv DEF Around
  <2>5. CASE effect = "Wait"
    <3>1. m' = n /\ Reply
      BY <1>5, <2>5 DEF ControlRequest
    <3> HIDE DEF n
    <3> QED BY <1>1, <2>2, <3>1, ControlTypes, ControlInv DEF Reply
  <2>6. CASE effect \in {"SpawnProcess", "CancelBackoffAndStart", "ClearStartLimitAndStart"}
    <3>1. /\ m' = cleared
          /\ flows' = begin(flows, {u})
          /\ turn' = {u}
          /\ control' = [job EXCEPT !.waiting = u]
          /\ UNCHANGED pc
      BY <1>5, <2>6 DEF ControlRequest
    <3>2. Quiet(n, cleared)
      <4> HIDE DEF n, effect
      <4> QED BY <2>2, ResetKeeps DEF Quiet
    <3>3. Quiet(m, m')
      <4> HIDE DEF n, cleared
      <4> QED BY <2>2, <3>1, <3>2, QuietTransitive
    <3>4. FlowMap(flows') /\ DOMAIN flows' = {u} \cup DOMAIN flows
      BY <1>2, <3>1, BeginType
    <3> HIDE DEF cleared
    <3>5. Types'
      BY <1>1, <1>5, <3>1, <3>3, <3>4 DEF Inv, Types, Quiet
    <3>6. TurnIsFlows' /\ CurIsMeant'
      BY <1>1, <3>1 DEF TurnIsFlows, CurIsMeant, AtControl
    <3> QED BY <3>3, <3>5, <3>6, QuietStep DEF Inv
  <2>7. CASE effect \in {"SendStopSignal", "CancelBackoffAndStop"}
    <3>1. /\ \E ok \in BOOLEAN, left \in Left(m, u) : m' = stop_unit(n, u, ok, left)
          /\ Reply
      BY <1>5, <2>7 DEF ControlRequest
    <3> HIDE DEF n
    <3>2. PICK ok \in BOOLEAN, left \in Left(m, u) : m' = stop_unit(n, u, ok, left)
      BY <3>1
    <3>3. left \in BOOLEAN
      BY DEF Left
    <3>4. Quiet(n, m')
      BY <2>2, <3>2, <3>3, StopUnitStops DEF Stops
    <3>5. Quiet(m, m')
      BY <2>2, <3>4, QuietTransitive
    <3> QED BY <1>1, <3>1, <3>5, ControlTypes, ControlInv DEF Reply
  <2> HIDE DEF effect
  <2> QED BY <2>3, <2>4, <2>5, <2>6, <2>7
<1>6. CASE control.rest # {}
  <2>1. PICK u \in Units :
          /\ Following(u)
          /\ LET job == [control EXCEPT !.rest = @ \ {u}] IN
             CASE u # control.target /\ m.rt[u].state \in Failed ->
                    (IF Needed(u) THEN Reply ELSE Around(job)) /\ UNCHANGED m
               [] m.rt[u].state \in Satisfied -> Around(job) /\ UNCHANGED m
               [] m.rt[u].state \notin Satisfied
                    /\ (u = control.target \/ m.rt[u].state \notin Failed) ->
                    IF u \in DOMAIN flows
                    THEN Around([job EXCEPT !.waiting = u]) /\ UNCHANGED m
                    ELSE ControlRequest(u, job)
    BY <1>6 DEF control_next
  <2> DEFINE job == [control EXCEPT !.rest = @ \ {u}]
  <2>2. job \in ControlStart /\ [job EXCEPT !.waiting = u] \in ControlStart
    BY ControlTypes
  <2>3. \/ Reply /\ UNCHANGED m
        \/ Around(job) /\ UNCHANGED m
        \/ Around([job EXCEPT !.waiting = u]) /\ UNCHANGED m
        \/ ControlRequest(u, job)
    BY <2>1 DEF Satisfied, Failed
  <2> HIDE DEF job
  <2> QED BY <1>3, <1>5, <2>2, <2>3
<1> QED BY <1>4, <1>6

(* All the deadlines of one pass, in the order of the loop. *)
LEMMA DeadlinesStep ==
  ASSUME Inv, serve_deadlines
  PROVE  Inv' /\ StartIsMeant
<1>1. PICK D \in SUBSET Armed("restart_at"),
           T \in SUBSET {u \in Armed("start_deadline") : m.rt[u].state = "Starting"},
           K \in SUBSET Armed("kill_at"),
           H \in SUBSET Armed("health_at"),
           P \in SUBSET Armed("probe_deadline") :
             deadlines(D, T, K, H, P)
  BY DEF serve_deadlines, Serve
<1> DEFINE n1 == due_restarts(m, D)
           n2 == StartQueued(n1)
           started == D \cup {u \in Queued(n1) : effect_for(n2, u) = "SpawnProcess"}
           n3 == due_start_timeouts(n2, T)
           n4 == due_kills(n3, K)
<1>2. /\ pc = "deadlines" /\ pc' = "select"
      /\ UNCHANGED <<control, threads, exits, turn, cur>>
      /\ \E S \in SUBSET (H \cap Probed(n4)) : \E pid \in FreePids(n4, S) :
           /\ m' = due_probe_timeouts(due_health_probes(n4, pid), P)
           /\ flows' = begin(flows, started)
  BY <1>1, Zenon DEF deadlines
<1>3. m \in Managers /\ FlowMap(flows)
  BY DEF Inv, Types
<1>4. T \in SUBSET Units /\ D \in SUBSET Units
  BY DEF Armed
<1>5. Quiet(m, n1)
  BY <1>3, RestartsQuiet
<1>6. Quiet(n1, n2)
  <2> HIDE DEF n1
  <2> QED BY <1>5, StartQueuedQuiet DEF Quiet
<1>7. Quiet(n2, n3)
  <2> HIDE DEF n2
  <2> QED BY <1>4, <1>6, StartTimeoutsQuiet DEF Quiet
<1>8. Quiet(n3, n4)
  <2> HIDE DEF n3
  <2> QED BY <1>7, KillsQuiet DEF Quiet
<1>9. started \in SUBSET Units
  <2> HIDE DEF n1, n2
  <2> QED BY <1>4 DEF Queued
<1> HIDE DEF n1, n2, n3, n4, started
<1>10. PICK S \in SUBSET (H \cap Probed(n4)) : \E pid \in FreePids(n4, S) :
           /\ m' = due_probe_timeouts(due_health_probes(n4, pid), P)
           /\ flows' = begin(flows, started)
  BY <1>2
<1>11. PICK pid \in FreePids(n4, S) :
           /\ m' = due_probe_timeouts(due_health_probes(n4, pid), P)
           /\ flows' = begin(flows, started)
  BY <1>10
<1>12. Quiet(n4, due_health_probes(n4, pid))
  <2>1. S \in SUBSET Units /\ n4 \in Managers
    BY <1>8 DEF Probed, Quiet
  <2> QED BY <2>1, ProbesQuiet
<1>13. Quiet(due_health_probes(n4, pid), m')
  BY <1>11, <1>12, ProbeTimeoutsQuiet DEF Quiet
<1>14. Quiet(m, m')
  BY <1>5, <1>6, <1>7, <1>8, <1>12, <1>13 DEF Quiet
<1>15. FlowMap(flows') /\ DOMAIN flows' = started \cup DOMAIN flows
  BY <1>3, <1>9, <1>11, BeginType
<1>16. turn = {} /\ cur = None
  BY <1>2, IdleParts
<1>17. Types'
  BY <1>2, <1>14, <1>15, <1>16 DEF Inv, Types, Quiet
<1>18. TurnIsFlows' /\ CurIsMeant'
  BY <1>2, <1>16 DEF TurnIsFlows, CurIsMeant
<1> QED BY <1>14, <1>17, <1>18, QuietStep DEF Inv

-------------------------------------------------------------------------------
(* Events and threads. *)

(* What `select` hands to the loop. *)
LEMMA EventInv ==
  ASSUME Inv, Handled, Quiet(m, m'), FlowMap(flows'), control' \in ControlStart,
         ThreadMap(threads')
  PROVE  Inv' /\ StartIsMeant
<1>1. pc = "select" /\ pc' = "reap" /\ UNCHANGED <<exits, turn, cur>>
  BY DEF Handled
<1>2. turn = {} /\ cur = None
  BY <1>1, IdleParts
<1>3. Types'
  BY <1>1, <1>2 DEF Inv, Types, Quiet
<1>4. TurnIsFlows' /\ CurIsMeant'
  BY <1>1, <1>2 DEF TurnIsFlows, CurIsMeant
<1> QED BY <1>3, <1>4, QuietStep DEF Inv

(* A job for a unit and all it pulls in. *)
LEMMA NewControlType ==
  ASSUME NEW u \in Units
  PROVE  NewControl(u) \in ControlStart
<1>1. start_order(u) \in SUBSET Units
  BY SupervisorAssumption DEF start_order, ToSet
<1> QED BY <1>1 DEF NewControl, ControlStart

(* Wake-ups, READY=1 and the requests of clients. *)
LEMMA EventsStep ==
  ASSUME Inv, Events
  PROVE  Inv' /\ StartIsMeant
<1>1. /\ m \in Managers /\ Quiet(m, m) /\ FlowMap(flows) /\ ThreadMap(threads)
      /\ control \in ControlStart
  BY InvParts DEF Inv, Types
<1>2. CASE wake
  BY <1>1, <1>2, EventInv DEF wake
<1>3. ASSUME NEW u \in Units, notify(u)
      PROVE  Inv' /\ StartIsMeant
  BY <1>1, <1>3, NotifyQuiet, EventInv DEF notify
<1>4. ASSUME NEW u \in Units, control_start(u)
      PROVE  Inv' /\ StartIsMeant
  BY <1>1, <1>4, NewControlType, EventInv DEF control_start
<1>5. ASSUME NEW u \in Units, control_reset_failed(u)
      PROVE  Inv' /\ StartIsMeant
  BY <1>1, <1>5, ResetKeeps, EventInv DEF control_reset_failed
<1>6. ASSUME NEW u \in Units, control_stop(u)
      PROVE  Inv' /\ StartIsMeant
  <2> DEFINE n == request(m, u, "UserStop")
  <2>1. Quiet(m, n)
    BY <1>1, RequestKeeps DEF Sources
  <2>2. Handled /\ UNCHANGED control
    BY <1>6 DEF control_stop
  <2>3. ASSUME NEW o, Quiet(m, o), Cancel(u, o)
        PROVE  Inv' /\ StartIsMeant
    <3>1. Quiet(m, Kill(o, flows[u].aux))
      BY <2>3, KillKeeps, SameIsQuiet, QuietTransitive DEF Quiet
    <3>2. Quiet(m, m')
      BY <2>3, <3>1 DEF Cancel
    <3>3. FlowMap(flows')
      BY <1>1, <2>3 DEF Cancel, FlowMap, Without
    <3>4. ThreadMap(threads')
      BY <1>1, <2>3, CancelThreadsType DEF Cancel
    <3> QED BY <1>1, <2>2, <3>2, <3>3, <3>4, EventInv
  <2>4. \/ \E ok \in BOOLEAN, left \in Left(m, u) : Cancel(u, stop_unit(n, u, ok, left))
        \/ Cancel(u, n)
    BY <1>6 DEF control_stop
  <2> HIDE DEF n
  <2>5. ASSUME NEW ok \in BOOLEAN, NEW left \in Left(m, u)
        PROVE  Quiet(m, stop_unit(n, u, ok, left))
    <3>1. left \in BOOLEAN
      BY DEF Left
    <3>2. Quiet(n, stop_unit(n, u, ok, left))
      BY <2>1, <3>1, StopUnitStops DEF Stops, Quiet
    <3> QED BY <2>1, <3>2, QuietTransitive
  <2> QED BY <2>1, <2>3, <2>4, <2>5
<1>7. ASSUME NEW u \in Units, control_restart(u)
      PROVE  Inv' /\ StartIsMeant
  <2>1. Handled /\ UNCHANGED <<flows, threads>>
    BY <1>7 DEF control_restart
  <2>2. \/ UNCHANGED m /\ control' \in {control, NewControl(u)}
        \/ \E ok \in BOOLEAN, left \in Left(m, u) :
             /\ m' \in {stop_unit(m, u, ok, left),
                        [stop_unit(m, u, ok, left) EXCEPT !.rt[u].restart_after_stop = TRUE]}
             /\ control' \in {control, NewControl(u)}
    BY <1>7 DEF control_restart
  <2>3. control' \in ControlStart
    BY <1>1, <2>2, NewControlType
  <2>4. Quiet(m, m')
    <3>1. CASE UNCHANGED m
      BY <1>1, <3>1
    <3>2. CASE ~ UNCHANGED m
      <4>0. PICK ok \in BOOLEAN, left \in Left(m, u) :
              m' \in {stop_unit(m, u, ok, left),
                      [stop_unit(m, u, ok, left) EXCEPT !.rt[u].restart_after_stop = TRUE]}
        BY <2>2, <3>2
      <4> DEFINE n == stop_unit(m, u, ok, left)
                 r == [n.rt[u] EXCEPT !.restart_after_stop = TRUE]
      <4>1. left \in BOOLEAN
        BY DEF Left
      <4>2. Quiet(m, n) /\ n \in Managers
        BY <1>1, <4>1, StopUnitStops DEF Stops, Quiet
      <4>3. m' \in {n, [n EXCEPT !.rt[u].restart_after_stop = TRUE]}
        BY <4>0
      <4> HIDE DEF n
      <4>4. r \in UnitRuntime /\ r.pid = n.rt[u].pid
        <5>1. n.rt[u] \in UnitRuntime
          BY <4>2, ManagerParts
        <5> QED BY <5>1 DEF UnitRuntime
      <4>5. [n EXCEPT !.rt[u].restart_after_stop = TRUE] = Put(n, u, r)
        BY <4>2, ManagerParts DEF Put, Managers
      <4> HIDE DEF r
      <4>6. Quiet(n, Put(n, u, r))
        BY <4>2, <4>4, PutQuiet
      <4>7. Quiet(m, Put(n, u, r))
        BY <4>2, <4>6, QuietTransitive
      <4>8. CASE m' = n
        BY <4>2, <4>8
      <4>9. CASE m' = Put(n, u, r)
        BY <4>7, <4>9
      <4> QED BY <4>3, <4>5, <4>8, <4>9
    <3> QED BY <3>1, <3>2
  <2> QED BY <1>1, <2>1, <2>3, <2>4, EventInv
<1> QED BY <1>2, <1>3, <1>4, <1>5, <1>6, <1>7 DEF Events

(* A thread changes the processes and the result its flow is waiting for,  *)
(* whatever the loop is doing.                                             *)
LEMMA ThreadStep ==
  ASSUME Inv, NEW p \in DOMAIN threads, thread_exec(p) \/ thread_fail(p)
  PROVE  Inv' /\ StartIsMeant
<1>1. m \in Managers /\ FlowMap(flows) /\ ThreadMap(threads)
  BY DEF Inv, Types
<1>2. UNCHANGED <<control, pc, exits, turn, cur>>
  BY DEF thread_exec, thread_fail
<1>3. SameUnits(m, m')
  <2>1. SameUnits(m, m) /\ SameUnits(m, Kill(m, p)) /\ SameUnits(m, Reaped(m, {p}))
    BY <1>1, KillKeeps, ReapedKeeps DEF SameUnits
  <2> QED BY <2>1 DEF thread_exec, thread_fail
<1>4. PICK result \in {"ok", "err"} : Report(p, result)
  BY DEF thread_exec, thread_fail
<1>5. ThreadMap(threads')
  BY <1>1, <1>4 DEF Report, ThreadMap, Without
<1>6. /\ FlowMap(flows') /\ DOMAIN flows' = DOMAIN flows
      /\ \A u \in DOMAIN flows : flows'[u].stage = flows[u].stage
  <2>1. CASE flows' = flows
    BY <1>1, <2>1
  <2>2. ASSUME NEW u \in DOMAIN flows, flows' = [flows EXCEPT ![u].result = result]
        PROVE  /\ FlowMap(flows') /\ DOMAIN flows' = DOMAIN flows
               /\ \A v \in DOMAIN flows : flows'[v].stage = flows[v].stage
    <3> DEFINE f == [flows[u] EXCEPT !.result = result]
    <3>1. flows[u] \in StartFlow
      BY <1>1 DEF FlowMap
    <3>2. f \in StartFlow /\ f.stage = flows[u].stage
      BY <3>1 DEF StartFlow
    <3>3. flows' = [flows EXCEPT ![u] = f]
      BY <2>2
    <3> HIDE DEF f
    <3> QED BY <1>1, <3>2, <3>3 DEF FlowMap
  <2>3. \/ flows' = flows
        \/ threads[p].unit \in DOMAIN flows
             /\ flows' = [flows EXCEPT ![threads[p].unit].result = result]
    BY <1>4 DEF Report
  <2> QED BY <2>1, <2>2, <2>3
<1>7. Types'
  BY <1>2, <1>3, <1>5, <1>6 DEF Inv, Types, SameUnits
<1>8. CurIsMeant'
  <2>1. ASSUME cur # None
        PROVE  cur \in turn /\ cur \in DOMAIN flows /\ Meant(m', flows'[cur], cur)
    <3>1. cur \in turn /\ cur \in DOMAIN flows /\ Meant(m, flows[cur], cur)
      BY <2>1 DEF Inv, Types, CurIsMeant
    <3> QED BY <1>3, <1>6, <3>1 DEF Meant, SameUnits, target_of
  <2> QED BY <1>2, <2>1 DEF CurIsMeant
<1>9. TurnIsFlows'
  BY <1>2 DEF Inv, TurnIsFlows
<1> QED BY <1>3, <1>7, <1>8, <1>9, SameIsQuiet, QuietStep DEF Inv

-------------------------------------------------------------------------------
(* The supervisor starts with no flow and no process. *)
LEMMA InitInv ==
  ASSUME Init
  PROVE  Inv
<1>1. PICK files \in Configs : m = NewManager(files)
  BY DEF Init
<1>2. DOMAIN <<>> = {} /\ \A V : <<>> \in [{} -> V]
  OBVIOUS
<1>3. ASSUME NEW u \in Units PROVE NewRuntime(files[u]) \in UnitRuntime
  <2>1. files[u] \in UnitConfig
    BY <1>1, ConfigAssumption
  <2> QED BY <2>1 DEF NewRuntime, UnitRuntime, States
<1>4. m \in Managers
  <2> DEFINE f == [u \in Units |-> NewRuntime(files[u])]
             j == [u \in Units |-> None]
  <2>1. f \in [Units -> UnitRuntime] /\ j \in [Units -> Sources \cup {None}]
    BY <1>3
  <2>2. <<>> \in UNION {[S -> Process] : S \in SUBSET Pids}
    <3>1. {} \in SUBSET Pids /\ <<>> \in [{} -> Process]
      BY <1>2
    <3> QED BY <3>1
  <2>3. m = [rt |-> f, jobs |-> j, queued |-> j, procs |-> <<>>, boot_in_progress |-> FALSE]
    BY <1>1 DEF NewManager
  <2> HIDE DEF f, j
  <2> QED BY <2>1, <2>2, <2>3 DEF Managers
<1>5. Types
  BY <1>2, <1>4 DEF Init, Types, FlowMap, ThreadMap, NoControl, ControlStart
<1> QED BY <1>5 DEF Init, Inv, TurnIsFlows, CurIsMeant

(* Every step keeps the invariant, and starts only what is meant. *)
LEMMA NextInv ==
  ASSUME Inv, [Next]_vars
  PROVE  Inv' /\ (UNCHANGED vars \/ StartIsMeant)
<1>1. CASE UNCHANGED vars
  <2>1. Inv'
    BY <1>1 DEF vars, Inv, Types, TurnIsFlows, CurIsMeant
  <2> QED BY <1>1, <2>1
<1>2. CASE Loop
  <2>1. CASE \E u \in Units : advance(u) \/ flow_step(u)
    <3>1. PICK u \in Units : advance(u) \/ flow_step(u)
      BY <2>1
    <3> QED BY <3>1, AdvanceStep, TimeoutStep, SocketsStep, StopConflictsStep,
               ConflictWaitStep, PreStep, SpawnStep, SpawnWaitStep, WaitReadyStep, PostStep
            DEF flow_step
  <2> QED BY <1>2, <2>1, ReapStep, ApplyStep, ControlGoneStep, ControlWaitStep,
             ControlNextStep, DeadlinesStep, EventsStep DEF Loop
<1>3. CASE \E p \in DOMAIN threads : thread_exec(p) \/ thread_fail(p)
  BY <1>3, ThreadStep
<1> QED BY <1>1, <1>2, <1>3 DEF Next

(* The supervisor's variables hold what they are declared to, for every    *)
(* set of unit files: a pid on record is a pid, the flows in turn exist.   *)
THEOREM SupervisorTypes == Spec => []TypeOK
<1>1. Init => Inv
  BY InitInv
<1>2. Inv /\ [Next]_vars => Inv'
  BY NextInv
<1>3. Inv => TypeOK
  BY ManagerType DEF Inv, Types, FlowMap, ThreadMap, TypeOK
<1> QED BY <1>1, <1>2, <1>3, PTL DEF Spec

(* Nothing brings up a unit that was told to stop, in whatever order       *)
(* flows, jobs, deadlines, exits, requests and threads come.               *)
THEOREM StopAlwaysSticks == Spec => StopSticks
<1>1. Init => Inv
  BY InitInv
<1>2. Inv /\ [Next]_vars => Inv'
  BY NextInv
<1>3. Inv /\ [Next]_vars =>
        [\A u \in Units :
           Starts(u) /\ u \notin Config(u).conflicts => target_of(m, u) # "Stopped"]_vars
  BY NextInv DEF StartIsMeant
<1> QED BY <1>1, <1>2, <1>3, PTL DEF Spec, StopSticks

(* Nothing but a manual start brings up a unit that has failed: no flow    *)
(* that was under way, no restart that falls due and no job that waits.    *)
THEOREM FailedAlwaysStaysDown == Spec => FailedStaysDown
<1>1. Init => Inv
  BY InitInv
<1>2. Inv /\ [Next]_vars => Inv'
  BY NextInv
<1>3. Inv /\ [Next]_vars
        => [\A u \in Units : Starts(u) /\ ~RetriedByHand(u) => m.rt[u].state \notin Failed]_vars
  BY NextInv DEF StartIsMeant
<1> QED BY <1>1, <1>2, <1>3, PTL DEF Spec, FailedStaysDown
===============================================================================
