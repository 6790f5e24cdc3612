--------------------------------- MODULE Boot ---------------------------------
(***************************************************************************)
(* From the first level of the boot schedule to the last process of the    *)
(* shutdown: `Boot`, the end of `supervise` and `stop_and_reap` of         *)
(* crates/rinit/src/boot.rs, around the loop of `Supervisor`.              *)
(*                                                                         *)
(* The schedule is a job source of the loop: once per pass, after the      *)
(* flows, it begins a level or looks whether the current one has settled.  *)
(* Requests that change anything are refused until it is done; after that  *)
(* clients only stop units here, and `Supervisor` has the rest.  A signal  *)
(* ends the loop in any pass, boot or not, and what follows runs in        *)
(* phases: every unit is asked to stop, then stop_and_reap goes around     *)
(* until it gives up or nothing is left.                                   *)
(***************************************************************************)
EXTENDS Supervisor

CONSTANTS
  Levels,    \* the boot plan: a sequence of levels, each a sequence of units
  TargetUnits    \* the units without a process

ASSUME BootAssumption ==
  /\ Levels \in Seq(Seq(Units))
  /\ TargetUnits \subseteq Units
  /\ FlattenSeq(Levels) = Order

VARIABLES
  boot,     \* the schedule
  phase,    \* "run", then "reap" and "wait" of stop_and_reap, then "off"
  fast,     \* a power failure: the shutdown has a budget
  ready     \* history: the units that have been ready since boot began

bootvars == <<boot, phase, fast, ready>>
allvars == <<vars, bootvars>>

NewBoot == [level |-> 1, active |-> FALSE, pending |-> {}, complete |-> FALSE,
            due |-> TRUE]

(* UnitManager::begin_boot and finish_boot. *)
(* A mistake: the boot is supervised as everything after it is. *)
begin_boot_bug(n) == n
begin_boot(n) == [n EXCEPT !.boot_in_progress = TRUE]
finish_boot(n) == [n EXCEPT !.boot_in_progress = FALSE]

InitBoot ==
  /\ \E files \in Configs : m = begin_boot(NewManager(files))
  /\ flows = <<>> /\ control = NoControl /\ threads = <<>>
  /\ pc = "select" /\ exits = <<>> /\ turn = {} /\ cur = None
  /\ boot = NewBoot
  /\ phase = "run"
  /\ fast = FALSE
  /\ ready = {}

(* The units that are ready in the state n of the manager. *)
ReadyIn(n) == {u \in Units : n.rt[u].state \in Satisfied}

-------------------------------------------------------------------------------
(* The schedule: Boot::advance, one action per turn of its loop. *)

AtBoot == phase = "run" /\ pc = "deadlines" /\ boot.due /\ ~boot.complete
Booting(n, fs, b) ==
  /\ m' = n
  /\ flows' = fs
  /\ boot' = b
  /\ ready' = ready \cup ReadyIn(n)
  /\ UNCHANGED <<control, threads, pc, exits, turn, cur, phase, fast>>

Services(level) == ToSet(level) \ TargetUnits

(* A service that failed with something it requires is skipped. The others *)
(* are requested one by one; one whose unit is being stopped is queued.    *)
Skipped(n, u) == n.rt[u].state \in Failed
Requested(n, u) ==
  LET k == request(n, u, "Dependency")
  IN IF effect_for(k, u) = "ClearStartLimitAndStart" THEN clear_start_limit(k, u) ELSE k
StartsFlow(n, u) ==
  effect_for(request(n, u, "Dependency"), u)
    \in {"SpawnProcess", "CancelBackoffAndStart", "ClearStartLimitAndStart"}

begin_level ==
  /\ AtBoot /\ ~boot.active /\ boot.level <= Len(Levels)
  /\ LET wanted == {u \in Services(Levels[boot.level]) : ~Skipped(m, u)}
         n == ForEach(m, wanted, Requested)
         started == {u \in wanted : StartsFlow(m, u)}
     IN Booting(n, begin(flows, started), [boot EXCEPT !.active = TRUE, !.pending = wanted])

(* A pending service has settled when its flow is over and its kind's      *)
(* readiness point was reached or missed; missing it fails what requires   *)
(* it.                                                                     *)
readiness_of(kind) ==
  CASE kind = "Simple" -> "Immediate"
    [] kind \in {"Oneshot", "Forking"} -> "OnExitSuccess"
    [] kind = "Notify" -> "OnReady"

Unsettled(n, u) ==
  \/ u \in DOMAIN flows
  \/ readiness_of(Config(u).kind) # "Immediate" /\ n.rt[u].state = "Starting"
Missed(n, u) ==
  IF readiness_of(Config(u).kind) = "Immediate" THEN n.rt[u].state \in Failed
  ELSE n.rt[u].state \notin Satisfied \cup {"Starting", "RestartWait", "Deactivating"}

settle_pending(n) ==
  FoldSet(LAMBDA u, k : fail_start(k, u), n,
          {u \in boot.pending : u \notin DOMAIN flows /\ Missed(n, u)})

(* A target of the level is active, unless something it requires failed. *)
reach_target(n, t) ==
  IF n.rt[t].state \in Failed \/ \E v \in n.rt[t].config.requires : n.rt[v].state \in Failed
  THEN fail_start(n, t)
  ELSE [n EXCEPT !.rt[t].state = "Active"]

settle_level ==
  /\ AtBoot /\ boot.active
  /\ LET n == settle_pending(m)
         waiting == {u \in boot.pending : Unsettled(m, u)}
     IN IF waiting # {}
        THEN Booting(n, flows, [boot EXCEPT !.pending = waiting, !.due = FALSE])
        ELSE Booting(FoldSet(LAMBDA t, k : reach_target(k, t), n,
                             ToSet(Levels[boot.level]) \cap TargetUnits),
                     flows,
                     [boot EXCEPT !.pending = {}, !.active = FALSE, !.level = @ + 1])

finish ==
  /\ AtBoot /\ ~boot.active /\ boot.level > Len(Levels)
  /\ Booting(finish_boot(m), flows, [boot EXCEPT !.complete = TRUE, !.due = FALSE])

-------------------------------------------------------------------------------
(* The loop goes on around the schedule: the deadlines wait for it, and a  *)
(* request that would change something waits for its last level.           *)
LoopOf(Step) ==
  /\ phase = "run"
  /\ Step
  /\ boot' = [boot EXCEPT !.due = IF pc' = "select" THEN TRUE ELSE @]
  /\ ready' = ready \cup ReadyIn(m')
  /\ UNCHANGED <<phase, fast>>

Served(T0, K0) == (boot.due => boot.complete) /\ Serve(T0, K0)
LoopStep ==
  LoopOf(\/ reap_children \/ apply_exit
         \/ \E u \in Units : advance(u) \/ flow_step(u)
         \/ Served({}, {})
         \/ wake
         \/ \E u \in Units : notify(u) \/ (boot.complete /\ control_stop(u)))

ThreadStep ==
  /\ \E p \in DOMAIN threads : thread_exec(p) \/ thread_fail(p)
  /\ UNCHANGED bootvars

-------------------------------------------------------------------------------
(* Shutdown. *)

(* UnitManager::shutdown_order: what the queue still wants running, in the *)
(* reverse of the boot order, then what was started by hand.               *)
started_units == {u \in Units : target_of(m, u) = "Started"}

(* StartCoordinator::shutdown *)
AbandonedFlows == {flows[u].aux : u \in DOMAIN flows}
AllCancelled == [p \in DOMAIN threads |-> [threads[p] EXCEPT !.cancelled = TRUE]]

ShutdownStop(n, u, ok, left) ==
  LET k == request(n, u, "ShutdownStop")
  IN IF effect_for(k, u) \in {"SendStopSignal", "CancelBackoffAndStop"}
     THEN stop_unit(k, u, ok, left /\ n.rt[u].config.cgroup) ELSE k

(* A signal, or a client's reboot or poweroff, takes the loop out of its   *)
(* select: SIGTERM and SIGINT as they are, SIGPWR with two seconds for     *)
(* each unit and a budget for all.                                         *)
(* A mistake: commands of the flows are left running. *)
shutdown_bug(pwr) ==
  /\ phase = "run" /\ pc = "select"
  /\ \E ok, left \in BOOLEAN :
       m' = FoldSet(LAMBDA u, n : ShutdownStop(n, u, ok, left), m, started_units)
  /\ flows' = <<>> /\ control' = NoControl /\ threads' = AllCancelled
  /\ phase' = "reap" /\ fast' = pwr
  /\ UNCHANGED <<pc, exits, turn, cur, boot, ready>>
shutdown(pwr) ==
  /\ phase = "run" /\ pc = "select"
  /\ \E ok, left \in BOOLEAN :
       m' = FoldSet(LAMBDA u, n : ShutdownStop(n, u, ok, left), KillAll(m, AbandonedFlows),
                    started_units)
  /\ flows' = <<>> /\ control' = NoControl /\ threads' = AllCancelled
  /\ phase' = "reap" /\ fast' = pwr
  /\ UNCHANGED <<pc, exits, turn, cur, boot, ready>>

ShutdownStep(n, to) ==
  /\ m' = n
  /\ phase' = to
  /\ UNCHANGED <<flows, control, threads, pc, exits, turn, cur, boot, fast, ready>>

(* reap_into_manager, over all the exits at once. *)
ApplyAll(n, S, outcome) ==
  FoldSet(LAMBDA p, k : on_child_exit(k, p, outcome[p], NoPid, Burst), Reaped(n, S), S)

running_count(n) ==
  Cardinality({u \in Units : \/ n.rt[u].pid # NoPid
                             \/ n.rt[u].exec_stop_pid # NoPid
                             \/ n.rt[u].probe_pid # NoPid
                             \/ n.rt[u].state = "Deactivating"})

shutdown_reap ==
  /\ phase = "reap"
  /\ \E S \in SUBSET DOMAIN m.procs : \E outcome \in [S -> Exits] :
       LET n == ApplyAll(m, S, outcome)
       IN ShutdownStep(n, IF running_count(n) = 0 THEN "off" ELSE "wait")

(* due_kills, the budget, and the time to the next SIGKILL. K are the      *)
(* units whose deadline has passed.                                        *)
(* A mistake: it waits for as long as anything runs. *)
shutdown_wait_bug ==
  /\ phase = "wait"
  /\ \E K \in SUBSET Armed("kill_at") :
       ShutdownStep(due_kills(m, K), "reap")
shutdown_wait ==
  /\ phase = "wait"
  /\ \E K \in SUBSET Armed("kill_at"), spent \in BOOLEAN :
       LET n == due_kills(m, K)
           later == \E u \in Units : n.rt[u].kill_at
           just_killed == \E u \in K : \/ Alive(m, m.rt[u].pid)
                                       \/ m.rt[u].pid = NoPid /\ m.rt[u].state = "Deactivating"
       IN /\ spent => fast
          /\ ShutdownStep(n, IF ~spent /\ (later \/ just_killed) THEN "reap" ELSE "off")

off == phase = "off" /\ UNCHANGED allvars

NextBoot ==
  \/ begin_level \/ settle_level \/ finish
  \/ LoopStep \/ ThreadStep
  \/ \E pwr \in BOOLEAN : shutdown(pwr)
  \/ shutdown_reap \/ shutdown_wait
  \/ off

SpecBoot == InitBoot /\ [][NextBoot]_allvars

(* The loop and then stop_and_reap keep going around, as in Supervisor: a  *)
(* deadline that stays armed passes, a process that was killed is reaped.  *)
FairBoot ==
  /\ SpecBoot
  /\ WF_allvars(begin_level \/ settle_level \/ finish \/ LoopStep)
  /\ WF_allvars(shutdown_reap \/ shutdown_wait)
  /\ SF_allvars(shutdown_wait /\ \A u \in Units : ~m'.rt[u].kill_at)
  /\ WF_allvars(ThreadStep)
  /\ \A u \in Units \ TargetUnits :
       /\ SF_allvars(LoopOf(Served({}, {u})))
       /\ SF_allvars(LoopOf(Served({u}, {})))
       /\ SF_allvars(LoopOf(flow_timeout(u)))
  /\ \A p \in Pids :
       SF_allvars(LoopOf(/\ reap_children
                          /\ Alive(m, p) /\ m.procs[p].killed
                          /\ p \in DOMAIN exits'))
-------------------------------------------------------------------------------
(* During boot no service is started before everything it requires has     *)
(* been ready: a oneshot has succeeded, a notify service has said so.      *)
RequiresReady ==
  [][ \A u \in Units :
        ~boot.complete /\ m.rt[u].pid = NoPid /\ m'.rt[u].pid # NoPid
          => Config(u).requires \subseteq ready ]_allvars

(* A target is active only if everything it requires, directly or through  *)
(* another unit, has been ready: a failure below it was passed on to it.   *)
TargetMeansReached ==
  \A t \in TargetUnits : m.rt[t].state = "Active" => required_closure(t) \subseteq ready

(* When the shutdown is over, no process is left that was not sent         *)
(* SIGKILL, unless a power failure allowed no more time: filesystems are   *)
(* unmounted next.                                                         *)
NothingLeftRunning ==
  phase = "off" /\ ~fast => \A p \in DOMAIN m.procs : m.procs[p].killed

(* Boot comes to an end, whatever its services do. *)
BootSettles == <>(boot.complete \/ phase # "run")

(* A shutdown comes to an end. *)
ShutdownEnds == phase = "reap" ~> phase = "off"

(* Boot and shutdown come to an end, whatever the services do              *)
(* (settle_level, stop_and_reap).                                          *)
BothEnd == BootSettles /\ ShutdownEnds
===============================================================================
