----------------------------- MODULE UnitManager -----------------------------
(***************************************************************************)
(* The unit manager, crates/rinit/src/unit_manager.rs: the runtime of      *)
(* every unit and the methods that change it.                              *)
(*                                                                         *)
(* A method on `&mut self` is an operator on the manager's state m and     *)
(* yields the state it leaves behind.  m is a record:                      *)
(*   rt      rt[u], the UnitRuntime of unit u;                             *)
(*   jobs    jobs[u], the source of the request that holds u's target;     *)
(*   queued  queued[u], the source of a start queued behind a stop;        *)
(*   procs   the children that exist: procs[p] says what pid p was forked  *)
(*           for and whether SIGKILL has been sent to it;                  *)
(*   boot_in_progress                                                      *)
(*           the boot schedule is not done, and a start that fails is not  *)
(*           retried.                                                      *)
(* What a call finds out about the world is a parameter: whether a fork    *)
(* works (ok), whether cgroup members are left (left), which daemon is     *)
(* found (daemon), how many failures still count (n).                      *)
(*                                                                         *)
(* A deadline is armed or not; which armed deadlines have passed is chosen *)
(* by the supervisor.  SIGTERM asks a process to do what it may do at any  *)
(* time anyway, so only its failure (ESRCH, the pid is gone) shows.        *)
(***************************************************************************)
EXTENDS UnitState, FiniteSets, FiniteSetsExt, Functions, TLC

CONSTANTS
  Units,    \* the loaded units
  Configs,  \* the sets of unit files a run begins with: c[u] is the file of u
  Pids,     \* the pids the kernel hands out
  Burst     \* StartLimitBurst of every unit; 0 when the breaker is disabled

NoPid == 0
None == "None"

UnitConfig ==
  [ kind : Kinds, policy : Policies,
    requires : SUBSET Units,     \* Requires=
    wants : SUBSET Units,        \* Wants=
    conflicts : SUBSET Units,    \* Conflicts=
    socket : BOOLEAN,            \* NeedsSocket= names a path
    pre : BOOLEAN,               \* an ExecStartPre= command
    post : BOOLEAN,              \* an ExecStartPost= command
    forked : BOOLEAN,            \* started by fork+exec, not posix_spawn
    start_timeout : BOOLEAN,     \* TimeoutStartSec= is not 0
    exec_stop : BOOLEAN,         \* an ExecStop= command
    at_once : BOOLEAN,           \* TimeoutStopSec=0
    health : BOOLEAN,            \* HealthCheck= with an interval
    health_restart : BOOLEAN,    \* HealthRestartOnFailure=
    cgroup : BOOLEAN ]           \* the unit has a cgroup of its own

ASSUME ConfigAssumption ==
  /\ Configs \subseteq [Units -> UnitConfig]
  /\ Pids \subseteq Nat \ {NoPid}
  /\ Burst \in Nat
  /\ None \notin Units

UnitRuntime ==
  [ config : UnitConfig, state : States, pid : Pids \cup {NoPid},
    restart_at : BOOLEAN, start_deadline : BOOLEAN, kill_at : BOOLEAN,
    health_at : BOOLEAN, probe_deadline : BOOLEAN,
    probe_pid : Pids \cup {NoPid}, exec_stop_pid : Pids \cup {NoPid},
    restart_after_stop : BOOLEAN, failures : Nat ]

NewRuntime(config) ==
  [ config |-> config, state |-> "Inactive", pid |-> NoPid,
    restart_at |-> FALSE, start_deadline |-> FALSE, kill_at |-> FALSE,
    health_at |-> FALSE, probe_deadline |-> FALSE,
    probe_pid |-> NoPid, exec_stop_pid |-> NoPid,
    restart_after_stop |-> FALSE, failures |-> 0 ]

(* A loop over the units in S whose body changes nothing but the runtime,  *)
(* the target and the queued start of the unit it has come to.             *)
ForEach(m, S, Body(_, _)) ==
  [m EXCEPT !.rt = [u \in Units |-> IF u \in S THEN Body(m, u).rt[u] ELSE m.rt[u]],
            !.jobs = [u \in Units |-> IF u \in S THEN Body(m, u).jobs[u] ELSE m.jobs[u]],
            !.queued = [u \in Units |-> IF u \in S THEN Body(m, u).queued[u]
                                                   ELSE m.queued[u]]]

Process == [role : {"main", "probe", "stop", "aux"}, unit : Units, killed : BOOLEAN]

IsManager(k) ==
  /\ k \in [ rt : [Units -> UnitRuntime],
             jobs : [Units -> Sources \cup {None}],
             queued : [Units -> Sources \cup {None}],
             procs : [DOMAIN k.procs -> Process],
             boot_in_progress : BOOLEAN ]
  /\ DOMAIN k.procs \subseteq Pids

NewManager(files) ==
  [ rt |-> [u \in Units |-> NewRuntime(files[u])],
    jobs |-> [u \in Units |-> None],
    queued |-> [u \in Units |-> None],
    procs |-> <<>>,
    boot_in_progress |-> FALSE ]

Put(m, u, r) == [m EXCEPT !.rt[u] = r]

------------------------------------------------------------------------------
(* Partial functions: an entry is set, an entry is removed. *)
With(f, x, e) == [y \in {x} \cup DOMAIN f |-> IF y = x THEN e ELSE f[y]]
Without(f, x) == [y \in DOMAIN f \ {x} |-> f[y]]

(* The kernel: pids are reused, the lowest free one first. *)
Alive(m, p) == p \in DOMAIN m.procs
CanFork(m) == Pids \ DOMAIN m.procs # {}
NextPid(m) == Min(Pids \ DOMAIN m.procs)
ForkAs(m, p, u, role) ==
  [m EXCEPT !.procs = With(@, p, [role |-> role, unit |-> u, killed |-> FALSE])]
Fork(m, u, role) == ForkAs(m, NextPid(m), u, role)

(* One fork for each of several units, in any order. *)
FreePids(m, S) ==
  LET free == Pids \ DOMAIN m.procs
      Lowest(ps) == \A p \in ps, q \in free : q < p => q \in ps
  IN {pid \in Injection(S, free) : Lowest(Range(pid))}
ForkAll(m, pid, role) ==
  LET Child(p) == [role |-> role, unit |-> CHOOSE u \in DOMAIN pid : pid[u] = p,
                   killed |-> FALSE]
  IN [m EXCEPT !.procs = [p \in Range(pid) \cup DOMAIN @ |->
                            IF p \in Range(pid) THEN Child(p) ELSE m.procs[p]]]
KillAll(m, ps) ==
  [m EXCEPT !.procs = [p \in DOMAIN m.procs |->
                         [m.procs[p] EXCEPT !.killed = @ \/ p \in ps]]]
Kill(m, p) == KillAll(m, {p})
Reaped(m, ps) ==
  [m EXCEPT !.procs = [p \in DOMAIN m.procs \ ps |-> m.procs[p]]]

------------------------------------------------------------------------------
(* Requests. A request is known by its source: see JobQueue!request_start. *)
TargetOf(source) ==
  IF source \in {"UserStop", "ShutdownStop"} THEN "Stopped" ELSE "Started"

target_of(m, u) == IF m.jobs[u] = None THEN None ELSE TargetOf(m.jobs[u])

(* None (no effect) stands for "nothing was asked" and "wait". *)
effect_for(m, u) ==
  IF m.jobs[u] = None THEN "Wait" ELSE Reconcile(target_of(m, u), m.rt[u].state)

request(m, u, source) ==
  LET held == IF effect_for(m, u) = "None" THEN None ELSE m.jobs[u]
      job  == IF held = None \/ Rank(source) >= Rank(held) THEN source ELSE held
      n    == [m EXCEPT !.jobs[u] = job]
      effect == effect_for(n, u)
  IN [n EXCEPT
        !.rt[u].state =
           IF effect = "None" /\ TargetOf(job) = "Stopped" THEN "Inactive" ELSE @,
        !.queued[u] =
           IF TargetOf(source) = "Stopped" THEN None
           ELSE IF effect = "Wait" THEN source ELSE @]

reset_failed(m, u) ==
  [m EXCEPT !.rt[u].failures = 0,
            !.rt[u].state = IF @ \in Failed THEN "Inactive" ELSE @]

clear_start_limit(m, u) == [m EXCEPT !.rt[u].failures = 0]

------------------------------------------------------------------------------
(* Failing. *)

(* The units a failure of u reaches along Requires=, through units that    *)
(* have no process of their own.                                           *)
ReachedByFailure(m, u) ==
  LET Closed(S) == \A x \in S, y \in Units :
                     x \in m.rt[y].config.requires /\ m.rt[y].pid = NoPid => y \in S
  IN {v \in Units : \A S \in SUBSET Units : u \in S /\ Closed(S) => v \in S}

(* A mistake: the failure is not passed on to what requires the unit. *)
fail_start_alone(m, u) ==
  LET n == Kill(m, m.rt[u].pid)
  IN [n EXCEPT !.rt[u].restart_at = FALSE, !.rt[u].start_deadline = FALSE,
               !.rt[u].kill_at = FALSE, !.rt[u].pid = NoPid, !.rt[u].state = "StartFailure"]

fail_start(m, u) ==
  LET n == Kill(m, m.rt[u].pid)
      own == [n.rt[u] EXCEPT !.restart_at = FALSE, !.start_deadline = FALSE,
                             !.kill_at = FALSE,
                             !.pid = IF n.rt[u].state \in Failed THEN @ ELSE NoPid]
      r == [n.rt EXCEPT ![u] = own]
      reached == ReachedByFailure([n EXCEPT !.rt = r], u)
  IN [n EXCEPT !.rt =
        [v \in Units |-> [r[v] EXCEPT !.state =
           IF v \in reached /\ @ \notin Failed THEN "StartFailure" ELSE @]]]

schedule_restart(m, u, n) ==
  LET tripped == Burst # 0 /\ n >= Burst
  IN [m EXCEPT !.rt[u].failures = n,
               !.rt[u].restart_at = IF tripped THEN @ ELSE TRUE,
               !.rt[u].state = IF tripped THEN "StartLimitHit" ELSE "RestartWait"]

(* What on_failure may still count: see Breaker!Fail and                   *)
(* Backoff!WindowBounded.                                                  *)
Counted(m, u) == IF Burst = 0 THEN {0} ELSE 1 .. Min({m.rt[u].failures + 1, Burst})

------------------------------------------------------------------------------
(* Starting. *)

schedule_health(r) == [r EXCEPT !.health_at = r.config.health]

(* A probe or a stop command of an earlier instance does not outlive a new *)
(* start.                                                                  *)
ClearLeftovers(m, u) ==
  IF m.rt[u].pid # NoPid THEN m
  ELSE [KillAll(m, {m.rt[u].probe_pid, m.rt[u].exec_stop_pid}) EXCEPT
          !.rt[u].probe_pid = NoPid, !.rt[u].exec_stop_pid = NoPid,
          !.rt[u].probe_deadline = FALSE]

(* The fork worked: the child is registered before its exec is confirmed.  *)
begin_spawn_unit(m, u) ==
  LET simple == m.rt[u].config.kind = "Simple"
      n == ClearLeftovers(m, u)
      r == [n.rt[u] EXCEPT
              !.pid = NextPid(n), !.state = IF simple THEN "Active" ELSE "Starting",
              !.restart_at = FALSE, !.kill_at = FALSE, !.exec_stop_pid = NoPid,
              !.start_deadline = IF simple THEN @ ELSE m.rt[u].config.start_timeout]
  IN Put(Fork(n, u, "main"), u, IF simple THEN schedule_health(r) ELSE r)

(* A mistake: READY=1 is taken from a unit in any state. *)
on_notify_bug(m, u) ==
  Put(m, u, schedule_health([m.rt[u] EXCEPT !.state = "Active", !.start_deadline = FALSE]))

(* READY=1 counts for a unit that is still starting, and for no other. *)
on_notify(m, u) ==
  LET r == m.rt[u]
      to == StartUpComplete(r.state, r.config.kind)
  IN IF to = NotAllowed THEN m
     ELSE Put(m, u, schedule_health([r EXCEPT !.state = to,
                                                 !.start_deadline = FALSE]))

(* The daemon a forking unit left behind becomes its process. *)
mark_daemon_started(m, u, daemon) ==
  LET r == [m.rt[u] EXCEPT !.pid = daemon, !.state = "Active",
                           !.start_deadline = FALSE]
  IN Put(ForkAs(m, daemon, u, "main"), u, schedule_health(r))

------------------------------------------------------------------------------
(* Stopping. *)

(* A mistake: a running stop command is given all the time it takes. *)
StopProcess_bug(m, u, ok) ==
  LET r == m.rt[u]
  IN IF m.rt[u].config.exec_stop /\ ok /\ CanFork(m)
     THEN Put(Fork(m, u, "stop"), u, [r EXCEPT !.state = "Deactivating",
                                               !.exec_stop_pid = NextPid(m)])
     ELSE IF Alive(m, r.pid)
     THEN Put(m, u, [r EXCEPT !.state = "Deactivating", !.kill_at = TRUE])
     ELSE Put(m, u, [r EXCEPT !.pid = NoPid, !.state = "Inactive"])

(* The stop of a unit with a process. ExecStop= is the stop action when it *)
(* can be started (ok); otherwise SIGTERM, which tells when the process is *)
(* already gone.                                                           *)
StopProcess(m, u, ok) ==
  LET r == m.rt[u]
      exec_stop == r.config.exec_stop /\ ok /\ CanFork(m)
      stopping == [r EXCEPT !.state = "Deactivating", !.kill_at = ~r.config.at_once]
  IN CASE exec_stop /\ r.config.at_once ->
            LET n == Fork(m, u, "stop")
            IN Put(KillAll(n, {NextPid(m), r.pid}), u, stopping)
       [] exec_stop /\ ~r.config.at_once ->
            Put(Fork(m, u, "stop"), u, [stopping EXCEPT !.exec_stop_pid = NextPid(m)])
       [] ~exec_stop /\ Alive(m, r.pid) ->
            Put(IF r.config.at_once THEN Kill(m, r.pid) ELSE m, u, stopping)
       [] OTHER -> Put(m, u, [r EXCEPT !.pid = NoPid, !.state = "Inactive"])

(* A stop of a unit without a process waits for its cgroup members, if any *)
(* are left.                                                               *)
stop_unit(m, u, ok, left) ==
  LET r == [m.rt[u] EXCEPT
              !.restart_at = FALSE, !.start_deadline = FALSE, !.kill_at = FALSE,
              !.health_at = FALSE, !.probe_deadline = FALSE,
              !.restart_after_stop = FALSE, !.probe_pid = NoPid]
      n == Put(Kill(m, m.rt[u].probe_pid), u, r)
  IN IF r.state = "Deactivating" THEN m
     ELSE IF r.pid # NoPid THEN StopProcess(n, u, ok)
     ELSE IF left THEN Put(n, u, [r EXCEPT !.state = "Deactivating", !.kill_at = TRUE])
     ELSE Put(n, u, [r EXCEPT !.state = "Inactive"])

(* Whether members can be left in the cgroup of a unit without a process. *)
Left(m, u) == IF m.rt[u].config.cgroup THEN BOOLEAN ELSE {FALSE}

StopConflict(m, u, ok, left) == stop_unit(request(m, u, "UserStop"), u, ok, left)

NeedsStop(m, u) ==
  \/ m.rt[u].pid # NoPid
  \/ m.rt[u].state \in {"Starting", "RestartWait", "Deactivating"}

------------------------------------------------------------------------------
(* Deadlines that have passed: each method goes through the units, and T,  *)
(* K and P are those whose deadline has.                                   *)

(* A start deadline counts only while its unit is starting. *)
due_start_timeouts(m, T) ==
  LET at_once == {u \in T : m.rt[u].config.at_once}
  IN [KillAll(m, {m.rt[u].pid : u \in at_once}) EXCEPT
        !.rt = [u \in Units |-> [m.rt[u] EXCEPT
                  !.start_deadline = @ /\ m.rt[u].state = "Starting" /\ u \notin T,
                  !.kill_at = IF u \in T THEN u \notin at_once ELSE @]]]

(* A mistake: the escalation ends the stop command and spares the service. *)
due_kills_bug(m, K) ==
  [KillAll(m, {m.rt[u].exec_stop_pid : u \in K}) EXCEPT
     !.rt = [u \in Units |-> IF u \in K
                             THEN [m.rt[u] EXCEPT !.kill_at = FALSE, !.exec_stop_pid = NoPid]
                             ELSE m.rt[u]]]

due_kills(m, K) ==
  LET pidless(r) == r.pid = NoPid /\ r.state = "Deactivating"
  IN [KillAll(m, {m.rt[u].pid : u \in K} \cup {m.rt[u].exec_stop_pid : u \in K}) EXCEPT
        !.rt = [u \in Units |->
                  IF u \notin K THEN m.rt[u]
                  ELSE [m.rt[u] EXCEPT
                          !.kill_at = FALSE, !.exec_stop_pid = NoPid,
                          !.state = IF pidless(m.rt[u]) THEN "Inactive" ELSE @]]]

(* A probe is due only while its unit is active.  pid has the probes that  *)
(* could be started; the others are tried again an interval later.         *)
due_health_probes(m, pid) ==
  [ForkAll(m, pid, "probe") EXCEPT
     !.rt = [u \in Units |->
               IF u \in DOMAIN pid
               THEN [m.rt[u] EXCEPT !.health_at = FALSE, !.probe_pid = pid[u],
                                    !.probe_deadline = TRUE]
               ELSE [m.rt[u] EXCEPT !.health_at = @ /\ m.rt[u].state = "Active"]]]

due_probe_timeouts(m, P) ==
  [KillAll(m, {m.rt[u].probe_pid : u \in P}) EXCEPT
     !.rt = [u \in Units |-> [m.rt[u] EXCEPT !.probe_deadline = @ /\ u \notin P]]]

------------------------------------------------------------------------------
(* A reaped child. *)

(* A mistake: the probe that has exited stays on record. *)
finish_probe_bug(m, u, outcome) ==
  Put(m, u, schedule_health([m.rt[u] EXCEPT !.probe_deadline = FALSE]))

finish_probe(m, u, outcome) ==
  LET r == [m.rt[u] EXCEPT !.probe_pid = NoPid, !.probe_deadline = FALSE]
      restart == outcome # "Success" /\ r.config.health_restart /\ r.pid # NoPid
  IN IF ~restart THEN Put(m, u, schedule_health(r))
     ELSE IF Alive(m, r.pid)
     THEN Put(IF r.config.at_once THEN Kill(m, r.pid) ELSE m, u,
              [r EXCEPT !.state = "Deactivating", !.restart_after_stop = TRUE,
                        !.kill_at = IF r.config.at_once THEN @ ELSE TRUE])
     ELSE Put(m, u, [r EXCEPT !.state = "Inactive", !.pid = NoPid])

(* A mistake: the SIGKILL deadline of a stop outlives the stop. *)
MainExit_bug(m, u, outcome, n) ==
  LET r == [m.rt[u] EXCEPT !.pid = NoPid, !.start_deadline = FALSE]
  IN IF r.state = "Deactivating" THEN Put(m, u, [r EXCEPT !.state = "Inactive"])
     ELSE schedule_restart(Put(m, u, r), u, n)

(* The main process of u is gone.  During the boot a unit that ends before *)
(* it is ready has failed, whatever its Restart=.                          *)
MainExit(m, u, outcome, n) ==
  LET old == m.rt[u]
      kind == old.config.kind
      policy == old.config.policy
      r == [old EXCEPT !.pid = NoPid, !.start_deadline = FALSE,
                       !.probe_pid = NoPid, !.kill_at = FALSE,
                       !.health_at = FALSE, !.probe_deadline = FALSE]
      c == Put(Kill(m, old.probe_pid), u, r)
      done == old.state = "Starting" /\ kind = "Oneshot" /\ outcome = "Success"
      to == IF done THEN StartUpComplete(old.state, kind)
            ELSE IF old.state = "Starting" THEN StartUpFailed(old.state)
            ELSE Exit(old.state, policy, outcome)
      terminal == old.state = "Starting" /\ m.boot_in_progress
      settled == Put(c, u, [r EXCEPT !.state = to])
      restarted == schedule_restart(settled, u, n)
  IN CASE old.state = "Deactivating" /\ old.restart_after_stop ->
            schedule_restart(Put(c, u, [r EXCEPT !.restart_after_stop = FALSE]), u, n)
       [] old.state = "Deactivating" /\ ~old.restart_after_stop ->
            Put(c, u, [r EXCEPT !.state = "Inactive"])
       [] old.state # "Deactivating" /\ to = NotAllowed ->
            Put(c, u, [r EXCEPT !.state = "Inactive"])
       [] done -> settled
       [] OTHER ->
            IF terminal \/ ~WantsRestart(policy, outcome)
            THEN IF to \in Failed THEN fail_start(settled, u) ELSE settled
            ELSE IF restarted.rt[u].state = "StartLimitHit"
            THEN fail_start(restarted, u) ELSE restarted

(* The exit of pid p, whose owner is looked up in the code's order. For a  *)
(* forking unit find_daemon yields the pid of the daemon, or NoPid.        *)
on_child_exit(m, p, outcome, daemon, n) ==
  LET Owner(field) == {u \in Units : m.rt[u][field] = p}
  IN CASE Owner("probe_pid") # {} ->
            finish_probe(m, CHOOSE u \in Owner("probe_pid") : TRUE, outcome)
       [] Owner("probe_pid") = {} /\ Owner("exec_stop_pid") # {} ->
            [m EXCEPT !.rt[CHOOSE u \in Owner("exec_stop_pid") : TRUE].exec_stop_pid = NoPid]
       [] Owner("probe_pid") = {} /\ Owner("exec_stop_pid") = {} /\ Owner("pid") # {} ->
            LET u == CHOOSE u \in Owner("pid") : TRUE
                forked == m.rt[u].state = "Starting" /\ m.rt[u].config.kind = "Forking"
                            /\ outcome = "Success" /\ daemon # NoPid
            IN IF forked THEN mark_daemon_started(m, u, daemon) ELSE MainExit(m, u, outcome, n)
       [] OTHER -> m
==============================================================================
