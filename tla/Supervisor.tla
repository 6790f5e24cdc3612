------------------------------ MODULE Supervisor ------------------------------
(***************************************************************************)
(* The supervisor: the event loop `supervise` of crates/rinit/src/boot.rs, *)
(* with the start flows and control jobs of its `StartCoordinator`, on top *)
(* of the unit manager.  Boot is over and no shutdown was asked for.       *)
(*                                                                         *)
(* The loop is single-threaded and pc says where it is:                    *)
(*   reap       collect the children that have exited;                     *)
(*   apply      hand the collected exits to the manager, one by one;       *)
(*   flows      advance every start flow;                                  *)
(*   controls   advance the outstanding control job;                       *)
(*   deadlines  serve every deadline that has passed;                      *)
(*   select     wait for one event: a request, READY=1, a timer.           *)
(* A process may exit at any time, but nothing can tell before the next    *)
(* reap.  A service started by fork+exec has a blocking thread that waits  *)
(* for its exec; the threads run beside the loop.                          *)
(***************************************************************************)
EXTENDS UnitManager, Sequences, SequencesExt

CONSTANTS
  Order,      \* the units in the order of the dependency graph's levels
  Requests,   \* the control requests clients make
  Exits       \* the ways in which processes end

ASSUME SupervisorAssumption ==
  /\ Order \in Seq(Units)
  /\ Requests \subseteq {"start", "stop", "restart", "reset-failed"}
  /\ Exits \subseteq Outcomes

VARIABLES
  m,         \* the unit manager and the processes
  flows,     \* flows[u]: the start flow of u, for the units that have one
  control,   \* the outstanding `rctl start`, or NoControl
  threads,   \* threads[p]: the thread waiting for the exec of pid p
  pc,        \* where the loop is
  exits,     \* exits[p]: outcomes collected by the reaper, not yet applied
  turn,      \* the flows still to be advanced in this pass
  cur        \* the flow being advanced, or None

vars == <<m, flows, control, threads, pc, exits, turn, cur>>

Config(u) == m.rt[u].config

Stages == {"Sockets", "Conflicts", "ConflictWait", "Pre", "Spawn", "SpawnWait",
           "WaitReady", "Post"}

(* aux is the ExecStartPre= or ExecStartPost= command that is running, and *)
(* exit its outcome once reaped; next counts the commands done; waits are  *)
(* the conflicting units still running, escalated those already killed.    *)
StartFlow ==
  [ stage : Stages, aux : Pids \cup {NoPid}, exit : Outcomes \cup {None},
    next : 0 .. 1, waits : SUBSET Units, escalated : SUBSET Units,
    result : {None, "ok", "err"}, spawned : BOOLEAN ]

(* StartFlow::new *)
NewFlow(u) ==
  [ stage |-> IF Config(u).socket THEN "Sockets" ELSE "Conflicts",
    aux |-> NoPid, exit |-> None, next |-> 0, waits |-> {}, escalated |-> {},
    result |-> None, spawned |-> FALSE ]

(* StartCoordinator::begin, for the units in S: one that is being started  *)
(* is left alone.                                                          *)
begin(fs, S) ==
  [u \in S \cup DOMAIN fs |-> IF u \in DOMAIN fs THEN fs[u] ELSE NewFlow(u)]

(* A ControlStart has a target, the units it has still to come to and the  *)
(* one it waits for.                                                       *)
ControlStart == [target : Units \cup {None}, rest : SUBSET Units, waiting : Units \cup {None}]
NoControl == [target |-> None, rest |-> {}, waiting |-> None]

(* PendingSpawn: whose start it waits for, and whether anybody still does. *)
SpawnThread == [unit : Units, cancelled : BOOLEAN]

Init ==
  /\ \E files \in Configs : m = NewManager(files)
  /\ flows = <<>>
  /\ control = NoControl
  /\ threads = <<>>
  /\ pc = "select"
  /\ exits = <<>>
  /\ turn = {}
  /\ cur = None

-------------------------------------------------------------------------------
(* Reaping. *)

ToFlows ==
  /\ pc' = IF flows' # <<>> THEN "flows"
           ELSE IF control # NoControl THEN "controls" ELSE "deadlines"
  /\ turn' = DOMAIN flows'

reap_children ==
  /\ pc = "reap"
  /\ \E S \in SUBSET DOMAIN m.procs :
       /\ m' = Reaped(m, S)
       /\ exits' \in [S -> Exits]
       /\ UNCHANGED flows
       /\ IF S = {} THEN ToFlows ELSE pc' = "apply" /\ UNCHANGED turn
  /\ UNCHANGED <<control, threads, cur>>

owns_child(p) ==
  \E u \in Units : p \in {m.rt[u].pid, m.rt[u].probe_pid, m.rt[u].exec_stop_pid}

(* The pid a forking service's daemon has: it was forked while every child *)
(* collected in this pass still held its own.                              *)
Daemons ==
  LET free == Pids \ (DOMAIN m.procs \cup DOMAIN exits)
  IN {p \in free : p = Min(free)}

(* One iteration of reap_into_manager, and of StartCoordinator::reap for   *)
(* an exit the manager does not own.                                       *)
apply_exit ==
  /\ pc = "apply"
  /\ \E p \in DOMAIN exits :
       /\ exits' = Without(exits, p)
       /\ IF owns_child(p)
          THEN \E daemon \in Daemons \cup {NoPid}, n \in 0 .. Burst :
                 /\ \A u \in Units : m.rt[u].pid = p => n \in Counted(m, u)
                 /\ m' = on_child_exit(m, p, exits[p], daemon, n)
          ELSE UNCHANGED m
       /\ flows' = [u \in DOMAIN flows |->
                      IF ~owns_child(p) /\ flows[u].aux = p
                      THEN [flows[u] EXCEPT !.exit = exits[p]] ELSE flows[u]]
       /\ IF exits' = <<>> THEN ToFlows ELSE UNCHANGED <<pc, turn>>
  /\ UNCHANGED <<control, threads, cur>>

-------------------------------------------------------------------------------
(* Start flows: StartFlow::advance takes a flow through as many stages as  *)
(* it can, one action each.                                                *)

ToControls ==
  pc' = IF pc = "flows" /\ turn' = {}
        THEN IF control # NoControl THEN "controls" ELSE "deadlines"
        ELSE pc

(* The flow of u goes on to its next stage in this call of advance. *)
Continue(u, n, f) ==
  /\ m' = n
  /\ flows' = [flows EXCEPT ![u] = f]
  /\ UNCHANGED <<pc, turn, cur>>

(* advance returns None: the flow is advanced again on the next pass. *)
Yield(u, n, f) ==
  /\ m' = n
  /\ flows' = [flows EXCEPT ![u] = f]
  /\ turn' = turn \ {u}
  /\ cur' = None
  /\ ToControls

CancelThreads(u) == [p \in DOMAIN threads |->
                       [threads[p] EXCEPT !.cancelled = @ \/ threads[p].unit = u]]

(* The flow is over and nothing of it is running. *)
Drop(u, n) ==
  /\ m' = n
  /\ flows' = Without(flows, u)
  /\ threads' = CancelThreads(u)
  /\ turn' = turn \ {u}
  /\ cur' = None
  /\ ToControls

(* A mistake: the flow is removed and its turn is not. *)
Finish_bug(u, n) ==
  /\ m' = n
  /\ flows' = Without(flows, u)
  /\ threads' = CancelThreads(u)
  /\ cur' = None
  /\ UNCHANGED <<turn, pc>>

(* advance returns a result, and remove_flow kills the command the flow    *)
(* still has on record.                                                    *)
Finish(u, n) == Drop(u, Kill(n, flows[u].aux))

Fail(u, n) == Finish(u, fail_start(n, u))

(* A mistake: a flow does not look at what its unit was asked to do since. *)
Cancelled_bug(u) == flows[u].spawned /\ m.rt[u].state = "Deactivating"

Cancelled(u) ==
  \/ target_of(m, u) = "Stopped"
  \/ flows[u].spawned /\ m.rt[u].state = "Deactivating"

(* A mistake: a flow does not look at whether its unit has failed since. *)
Rejected_bug(u) == FALSE

Rejected(u) == m.rt[u].state \in Failed /\ flows[u].stage # "SpawnWait"

(* The checks a call of advance starts with. *)
advance(u) ==
  /\ pc \in {"flows", "controls"}
  /\ cur = None
  /\ u \in turn
  /\ IF Cancelled(u) \/ Rejected(u)
     THEN Finish(u, m)
     ELSE cur' = u /\ UNCHANGED <<m, flows, threads, turn, pc>>
  /\ UNCHANGED <<control, exits>>

At(u, stage) == cur = u /\ flows[u].stage = stage

(* The budget of the start is used up; the Sockets stage finds out itself. *)
flow_timeout(u) ==
  /\ cur = u
  /\ Config(u).start_timeout
  /\ flows[u].stage = "Conflicts" => flows[u].waits = {}
  /\ Fail(u, m)
  /\ UNCHANGED <<control, exits>>

sockets(u) ==
  /\ At(u, "Sockets")
  /\ \/ Continue(u, m, [flows[u] EXCEPT !.stage = "Conflicts"])
     \/ Yield(u, m, flows[u])
  /\ UNCHANGED <<control, threads, exits>>

(* One iteration of the loop of stop_conflicts, or its end. *)
stop_conflicts(u) ==
  /\ At(u, "Conflicts")
  /\ LET f == flows[u]
         others == {v \in Config(u).conflicts \ f.waits : NeedsStop(m, v)}
     IN IF others = {} THEN Continue(u, m, [f EXCEPT !.stage = "ConflictWait"])
        ELSE \E v \in others, ok \in BOOLEAN : \E left \in Left(m, v) :
               Continue(u, StopConflict(m, v, ok, left), [f EXCEPT !.waits = @ \cup {v}])
  /\ UNCHANGED <<control, threads, exits>>

(* A mistake: the conflicting units are asked to stop and not waited for. *)
conflict_wait_bug(u) ==
  /\ At(u, "ConflictWait")
  /\ Continue(u, m, [flows[u] EXCEPT !.stage = "Pre", !.waits = {}])
  /\ UNCHANGED <<control, threads, exits>>

(* late are the conflicting units whose time to stop is over: the first    *)
(* time they are killed, the second time they are no longer waited for.    *)
conflict_wait(u) ==
  /\ At(u, "ConflictWait")
  /\ LET f == flows[u]
         running == {v \in f.waits : m.rt[v].pid # NoPid}
     IN \E late \in SUBSET running :
          LET kill == late \ f.escalated
              rest == running \ (late \cap f.escalated)
              n == KillAll(m, {m.rt[v].pid : v \in kill})
          IN IF rest = {}
             THEN Continue(u, n, [f EXCEPT !.stage = "Pre", !.waits = {}, !.escalated = {}])
             ELSE Yield(u, n, [f EXCEPT !.waits = rest, !.escalated = @ \cup kill])
  /\ UNCHANGED <<control, threads, exits>>

pre(u) ==
  /\ At(u, "Pre")
  /\ LET f == flows[u]
     IN CASE f.aux # NoPid /\ f.exit = "Success" ->
               /\ Continue(u, m, [f EXCEPT !.aux = NoPid, !.exit = None, !.next = 1])
               /\ UNCHANGED threads
          [] f.aux # NoPid /\ f.exit \notin {"Success", None} -> Drop(u, fail_start(m, u))
          [] f.aux # NoPid /\ f.exit = None ->
               \/ Yield(u, m, f) /\ UNCHANGED threads
               \/ Config(u).start_timeout /\ Fail(u, m)
          [] f.aux = NoPid /\ Config(u).pre /\ f.next = 0 ->
               \/ /\ CanFork(m)
                  /\ Yield(u, Fork(m, u, "aux"), [f EXCEPT !.aux = NextPid(m)])
                  /\ UNCHANGED threads
               \/ Fail(u, m)
          [] OTHER -> /\ Continue(u, m, [f EXCEPT !.stage = "Spawn", !.next = 0])
                      /\ UNCHANGED threads
  /\ UNCHANGED <<control, exits>>

(* The stage after a spawn that worked. *)
Spawned(u) ==
  [flows[u] EXCEPT !.spawned = TRUE, !.result = None,
     !.stage = IF Config(u).kind \in {"Oneshot", "Forking"} THEN "WaitReady" ELSE "Post"]

spawn(u) ==
  /\ At(u, "Spawn")
  /\ IF m.rt[u].pid # NoPid THEN Finish(u, m)
     ELSE LET n == ClearLeftovers(m, u)
          IN \/ /\ CanFork(n)
                /\ IF Config(u).forked
                   THEN /\ Yield(u, begin_spawn_unit(m, u),
                                 [flows[u] EXCEPT !.stage = "SpawnWait"])
                        /\ threads' = With(threads, NextPid(n),
                                           [unit |-> u, cancelled |-> FALSE])
                   ELSE /\ Continue(u, begin_spawn_unit(m, u), Spawned(u))
                        /\ UNCHANGED threads
             \/ Fail(u, n)
  /\ UNCHANGED <<control, exits>>

spawn_wait(u) ==
  /\ At(u, "SpawnWait")
  /\ CASE flows[u].result = "ok" -> Continue(u, m, Spawned(u)) /\ UNCHANGED threads
       [] flows[u].result = "err" -> Fail(u, m)
       [] flows[u].result = None -> Yield(u, m, flows[u]) /\ UNCHANGED threads
  /\ UNCHANGED <<control, exits>>

wait_ready(u) ==
  /\ At(u, "WaitReady")
  /\ CASE m.rt[u].state \in Satisfied ->
            Continue(u, m, [flows[u] EXCEPT !.stage = "Post"]) /\ UNCHANGED threads
       [] m.rt[u].state = "Starting" ->
            \/ Yield(u, m, flows[u]) /\ UNCHANGED threads
            \/ Config(u).start_timeout /\ Fail(u, m)
       [] OTHER -> Finish(u, m)
  /\ UNCHANGED <<control, exits>>

(* A command that fails, hangs or cannot be started is only a warning. *)
post(u) ==
  /\ At(u, "Post")
  /\ LET f == flows[u]
         over == [f EXCEPT !.aux = NoPid, !.exit = None, !.next = 1]
     IN CASE f.aux # NoPid ->
               \/ f.exit # None /\ Continue(u, m, over) /\ UNCHANGED threads
               \/ f.exit = None /\ Yield(u, m, f) /\ UNCHANGED threads
               \/ /\ f.exit = None /\ Config(u).start_timeout
                  /\ Continue(u, Kill(m, f.aux), over)
                  /\ UNCHANGED threads
          [] f.aux = NoPid /\ Config(u).post /\ f.next = 0 ->
               \/ /\ CanFork(m)
                  /\ Yield(u, Fork(m, u, "aux"), [f EXCEPT !.aux = NextPid(m)])
                  /\ UNCHANGED threads
               \/ Continue(u, m, over) /\ UNCHANGED threads
          [] OTHER -> Finish(u, m)
  /\ UNCHANGED <<control, exits>>

flow_step(u) ==
  \/ flow_timeout(u) \/ sockets(u) \/ stop_conflicts(u) \/ conflict_wait(u)
  \/ pre(u) \/ spawn(u) \/ spawn_wait(u) \/ wait_ready(u) \/ post(u)

-------------------------------------------------------------------------------
(* The control job: ControlStart::advance, one action per way around its   *)
(* loop.  One job at a time is outstanding in this model.                  *)

(* The transitive Requires= closure of u. *)
required_closure(u) ==
  LET Closed(S) == \A x \in S : Config(x).requires \subseteq S
  IN {v \in Units \ {u} : \A S \in SUBSET Units : u \in S /\ Closed(S) => v \in S}

Needed(u) == u = control.target \/ u \in required_closure(control.target)

AtControl == pc = "controls" /\ turn = {} /\ cur = None

(* The job replies, and the loop goes on. *)
Reply ==
  /\ control' = NoControl
  /\ pc' = "deadlines"
  /\ UNCHANGED <<flows, turn>>

(* The job goes around its loop once more. *)
Around(job) == control' = job /\ UNCHANGED <<pc, flows, turn>>

(* The job's time is over, or its client has hung up. *)
control_gone ==
  /\ AtControl
  /\ Reply
  /\ UNCHANGED <<m, threads, exits, cur>>

(* A mistake: a job waits on for a unit that has come down again. *)
control_wait_bug ==
  /\ AtControl
  /\ control.waiting # None
  /\ IF /\ control.waiting \notin DOMAIN flows
        /\ m.rt[control.waiting].state \in Satisfied
     THEN Around([control EXCEPT !.waiting = None])
     ELSE pc' = "deadlines" /\ UNCHANGED <<control, flows, turn>>
  /\ UNCHANGED <<m, threads, exits, cur>>

control_wait ==
  /\ AtControl
  /\ control.waiting # None
  /\ LET u == control.waiting
         state == m.rt[u].state
         next == [control EXCEPT !.waiting = None]
     IN CASE u \in DOMAIN flows \/ state = "Starting" ->
               pc' = "deadlines" /\ UNCHANGED <<control, flows, turn>>
          [] u \notin DOMAIN flows /\ state \in Satisfied -> Around(next)
          [] OTHER -> IF Needed(u) THEN Reply ELSE Around(next)
  /\ UNCHANGED <<m, threads, exits, cur>>

(* The effects of a start request: a flow, advanced once right here, or an *)
(* answer.                                                                 *)
ControlRequest(u, job) ==
  LET n == request(m, u, IF u = control.target THEN "UserStart" ELSE "Dependency")
      effect == effect_for(n, u)
  IN CASE effect = "None" ->
            m' = n /\ Around([job EXCEPT !.waiting = u])
       [] effect = "Wait" ->
            /\ m' = n
            /\ Reply
       [] effect \in {"SpawnProcess", "CancelBackoffAndStart", "ClearStartLimitAndStart"} ->
            /\ m' = IF effect = "ClearStartLimitAndStart" THEN clear_start_limit(n, u) ELSE n
            /\ flows' = begin(flows, {u})
            /\ turn' = {u}
            /\ control' = [job EXCEPT !.waiting = u]
            /\ UNCHANGED pc
       [] effect \in {"SendStopSignal", "CancelBackoffAndStop"} ->
            /\ \E ok \in BOOLEAN, left \in Left(m, u) : m' = stop_unit(n, u, ok, left)
            /\ Reply

(* The unit the job comes to next: the dependencies of its target in the   *)
(* order of the levels, and the target last.                               *)
Earlier(u, v) == \E i, j \in 1 .. Len(Order) : i < j /\ Order[i] = u /\ Order[j] = v
Following(u) ==
  /\ u \in control.rest
  /\ \A v \in control.rest \ {u} :
       u # control.target /\ (v = control.target \/ Earlier(u, v))

control_next ==
  /\ AtControl
  /\ control.waiting = None
  /\ IF control.rest = {} THEN Reply /\ UNCHANGED m
     ELSE \E u \in Units :
          /\ Following(u)
          /\ LET job == [control EXCEPT !.rest = @ \ {u}] IN
             CASE u # control.target /\ m.rt[u].state \in Failed ->
                    (IF Needed(u) THEN Reply ELSE Around(job)) /\ UNCHANGED m
               [] m.rt[u].state \in Satisfied -> Around(job) /\ UNCHANGED m
               [] m.rt[u].state \notin Satisfied
                    /\ (u = control.target \/ m.rt[u].state \notin Failed) ->
                    IF u \in DOMAIN flows
                    THEN Around([job EXCEPT !.waiting = u]) /\ UNCHANGED m
                    ELSE ControlRequest(u, job)
  /\ UNCHANGED <<threads, exits, cur>>

-------------------------------------------------------------------------------
(* Deadlines: everything the loop serves between the flows and `select`.   *)

(* due_queued_starts: a queued start is made again once the stop is over.  *)
Queued(n) == {u \in Units : n.queued[u] # None /\ n.rt[u].state # "Deactivating"}
Requeued(n, u) == request([n EXCEPT !.queued[u] = None], u, n.queued[u])
StartQueued(n) == ForEach(n, Queued(n), Requeued)

(* due_restarts: D are the units whose backoff has elapsed. *)
due_restarts(n, D) ==
  [n EXCEPT !.rt = [u \in Units |-> [n.rt[u] EXCEPT !.restart_at = @ /\ u \notin D]]]

Armed(field) == {u \in Units : m.rt[u][field]}
Probed(n) == {u \in Units : n.rt[u].state = "Active" /\ n.rt[u].probe_pid = NoPid
                              /\ n.rt[u].health_at}

deadlines(D, T, K, H, P) ==
  /\ pc = "deadlines"
  /\ LET n1 == due_restarts(m, D)
         n2 == StartQueued(n1)
         started == D \cup {u \in Queued(n1) : effect_for(n2, u) = "SpawnProcess"}
         n4 == due_kills(due_start_timeouts(n2, T), K)
     IN \E S \in SUBSET (H \cap Probed(n4)) : \E pid \in FreePids(n4, S) :
          /\ m' = due_probe_timeouts(due_health_probes(n4, pid), P)
          /\ flows' = begin(flows, started)
  /\ pc' = "select"
  /\ UNCHANGED <<control, threads, exits, turn, cur>>

(* Any of the armed deadlines may have passed; those of the start          *)
(* deadlines in T0 and of the SIGKILL deadlines in K0 have.                *)
Serve(T0, K0) ==
  \E D \in SUBSET Armed("restart_at"),
     T \in SUBSET {u \in Armed("start_deadline") : m.rt[u].state = "Starting"},
     K \in SUBSET Armed("kill_at"),
     H \in SUBSET Armed("health_at"),
     P \in SUBSET Armed("probe_deadline") :
       /\ T0 \subseteq T
       /\ K0 \subseteq K
       /\ deadlines(D, T, K, H, P)

serve_deadlines == Serve({}, {})

-------------------------------------------------------------------------------
(* Events. *)

Handled == pc = "select" /\ pc' = "reap" /\ UNCHANGED <<exits, turn, cur>>

wake == Handled /\ UNCHANGED <<m, flows, control, threads>>

notify(u) ==
  /\ Handled
  /\ Config(u).kind = "Notify"
  /\ m' = on_notify(m, u)
  /\ UNCHANGED <<flows, control, threads>>

(* The units `rctl start u` brings up before u: what u requires or wants,  *)
(* directly or not.  Following has their order.                            *)
start_order(u) ==
  LET Closed(S) == \A x \in S : Config(x).requires \cup Config(x).wants \subseteq S
      InClosure(v) == \A S \in SUBSET Units : u \in S /\ Closed(S) => v \in S
  IN {v \in ToSet(Order) \ {u} : InClosure(v)}

NewControl(u) == [target |-> u, rest |-> start_order(u) \cup {u}, waiting |-> None]

control_start(u) ==
  /\ Handled
  /\ "start" \in Requests
  /\ control = NoControl
  /\ control' = NewControl(u)
  /\ UNCHANGED <<m, flows, threads>>

(* StartCoordinator::cancel *)
Cancel(u, n) ==
  /\ m' = IF u \in DOMAIN flows THEN Kill(n, flows[u].aux) ELSE n
  /\ flows' = Without(flows, u)
  /\ threads' = IF u \in DOMAIN flows THEN CancelThreads(u) ELSE threads

control_stop(u) ==
  /\ Handled
  /\ "stop" \in Requests
  /\ LET n == request(m, u, "UserStop")
     IN IF effect_for(n, u) \in {"SendStopSignal", "CancelBackoffAndStop"}
        THEN \E ok \in BOOLEAN, left \in Left(m, u) : Cancel(u, stop_unit(n, u, ok, left))
        ELSE Cancel(u, n)
  /\ UNCHANGED control

control_restart(u) ==
  /\ Handled
  /\ "restart" \in Requests
  /\ LET state == m.rt[u].state
     IN CASE state = "ActiveExited" -> UNCHANGED <<m, control>>
          [] state \in {"Active", "Starting", "RestartWait", "Deactivating"} ->
               \E ok \in BOOLEAN, left \in Left(m, u) :
                 LET n == stop_unit(m, u, ok, left)
                 IN IF n.rt[u].state = "Deactivating"
                    THEN /\ m' = [n EXCEPT !.rt[u].restart_after_stop = TRUE]
                         /\ UNCHANGED control
                    ELSE m' = n /\ control = NoControl /\ control' = NewControl(u)
          [] OTHER -> control = NoControl /\ control' = NewControl(u) /\ UNCHANGED m
  /\ UNCHANGED <<flows, threads>>

control_reset_failed(u) ==
  /\ Handled
  /\ "reset-failed" \in Requests
  /\ m' = reset_failed(m, u)
  /\ UNCHANGED <<flows, control, threads>>

-------------------------------------------------------------------------------
(* The threads of PendingSpawn::wait_blocking. *)

Report(p, result) ==
  /\ flows' = IF ~threads[p].cancelled /\ threads[p].unit \in DOMAIN flows
              THEN [flows EXCEPT ![threads[p].unit].result = result] ELSE flows
  /\ threads' = Without(threads, p)

(* The child has reached its exec; if nobody waits for it any more, it is  *)
(* killed by its pid.                                                      *)
thread_exec(p) ==
  /\ p \in DOMAIN threads
  /\ m' = IF threads[p].cancelled THEN Kill(m, p) ELSE m
  /\ Report(p, "ok")
  /\ UNCHANGED <<control, pc, exits, turn, cur>>

(* reap_failed_spawn: the child failed before its exec, took too long, or  *)
(* the flow was cancelled.  The thread waits for the child itself, beside  *)
(* the loop's own reaper; either of them may get to it first.              *)
thread_fail(p) ==
  /\ p \in DOMAIN threads
  /\ m' \in {Reaped(m, {p}), Kill(m, p)}
  /\ Report(p, "err")
  /\ UNCHANGED <<control, pc, exits, turn, cur>>

-------------------------------------------------------------------------------
Events ==
  \/ wake
  \/ \E u \in Units :
       notify(u) \/ control_start(u) \/ control_stop(u) \/ control_restart(u)
         \/ control_reset_failed(u)

Loop ==
  \/ reap_children \/ apply_exit
  \/ \E u \in Units : advance(u) \/ flow_step(u)
  \/ control_gone \/ control_wait \/ control_next
  \/ serve_deadlines
  \/ Events

Next == Loop \/ \E p \in DOMAIN threads : thread_exec(p) \/ thread_fail(p)

Spec == Init /\ [][Next]_vars

(* What makes the system move.  The loop never blocks past the earliest    *)
(* deadline, so it keeps going around; an armed deadline passes and then   *)
(* every later pass finds it due; a start flow's budget runs out the same  *)
(* way; a process that was sent SIGKILL exits and is reaped; the thread of *)
(* a spawn reports within its five seconds.  Nothing is assumed of         *)
(* clients, of services that were not killed, or of the control job's own  *)
(* deadline.                                                               *)
Fairness ==
  /\ WF_vars(Loop)
  /\ \A u \in Units :
       /\ SF_vars(Serve({}, {u}))
       /\ SF_vars(Serve({u}, {}))
       /\ SF_vars(flow_timeout(u))
  /\ \A p \in Pids :
       /\ SF_vars(/\ reap_children
                  /\ Alive(m, p) /\ m.procs[p].killed
                  /\ p \in DOMAIN exits')
       /\ WF_vars(thread_exec(p) \/ thread_fail(p))

FairSpec == Spec /\ Fairness

-------------------------------------------------------------------------------
(***************************************************************************)
(* What the supervisor promises, and what the repository's comments and    *)
(* documents say of it.                                                    *)
(***************************************************************************)

(* Properties.  A pid that is registered belongs to a process that exists, *)
(* or to an exit that the reaper has collected and is about to apply.      *)

Pending(p) == p \in DOMAIN exits

Names(p, role, u) ==
  \/ Pending(p)
  \/ Alive(m, p) /\ m.procs[p].role = role /\ m.procs[p].unit = u

TypeOK ==
  /\ IsManager(m)
  /\ flows \in [DOMAIN flows -> StartFlow] /\ DOMAIN flows \subseteq Units
  /\ control \in ControlStart
  /\ threads \in [DOMAIN threads -> SpawnThread] /\ DOMAIN threads \subseteq Pids
  /\ pc \in {"reap", "apply", "flows", "controls", "deadlines", "select"}
  /\ exits \in [DOMAIN exits -> Exits] /\ DOMAIN exits \subseteq Pids
  /\ turn \subseteq DOMAIN flows
  /\ cur \in Units \cup {None}

(* No signal of rinit's can reach a process it does not mean: every pid a  *)
(* unit or a start flow has on record names a child that was forked for    *)
(* that purpose and that nobody has reaped, whatever order stops, exits,   *)
(* probes and restarts come in.                                            *)
PidsAccurate ==
  \A u \in Units :
    /\ m.rt[u].pid # NoPid => Names(m.rt[u].pid, "main", u)
    /\ m.rt[u].probe_pid # NoPid => Names(m.rt[u].probe_pid, "probe", u)
    /\ m.rt[u].exec_stop_pid # NoPid => Names(m.rt[u].exec_stop_pid, "stop", u)
    /\ u \in DOMAIN flows /\ flows[u].aux # NoPid /\ flows[u].exit = None
         => Names(flows[u].aux, "aux", u)

(* No process runs on its own: a child is on record with its unit or its   *)
(* start flow, or SIGKILL has been sent to it.                             *)
NothingUnowned ==
  \A p \in DOMAIN m.procs :
    LET u == m.procs[p].unit
    IN \/ m.procs[p].killed
       \/ p \in {m.rt[u].pid, m.rt[u].probe_pid, m.rt[u].exec_stop_pid}
       \/ u \in DOMAIN flows /\ flows[u].aux = p

(* Records and processes match both ways, through every order of exits,    *)
(* probes, commands and failed starts: a pid on record is the child it was *)
(* recorded for, and no child of a unit runs unrecorded.                   *)
ProcessesAreKnown == PidsAccurate /\ NothingUnowned

(* A unit never has two instances: of its main processes, all but the one  *)
(* on record have been sent SIGKILL.                                       *)
OneInstance ==
  \A p, q \in DOMAIN m.procs :
    /\ m.procs[p].role = "main" /\ ~m.procs[p].killed
    /\ m.procs[q].role = "main" /\ ~m.procs[q].killed
    /\ m.procs[p].unit = m.procs[q].unit
    => p = q

(* A stop always ends: a unit that is being stopped has its SIGKILL ahead, *)
(* or its process has been killed or has exited already.                   *)
StopIsBounded ==
  \A u \in Units :
    m.rt[u].state = "Deactivating" =>
      \/ m.rt[u].kill_at
      \/ Pending(m.rt[u].pid)
      \/ Alive(m, m.rt[u].pid) /\ m.procs[m.rt[u].pid].killed

(* TimeoutStartSec bounds a start: a unit that is starting has its start   *)
(* deadline or its SIGKILL ahead, or its process is killed or gone.        *)
StartIsBounded ==
  \A u \in Units :
    m.rt[u].state = "Starting" /\ Config(u).start_timeout =>
      \/ m.rt[u].start_deadline
      \/ m.rt[u].kill_at
      \/ Pending(m.rt[u].pid)
      \/ Alive(m, m.rt[u].pid) /\ m.procs[m.rt[u].pid].killed

(* Nothing waits without a deadline: a start that has one to wait for, and *)
(* every stop (TimeoutStartSec=, TimeoutStopSec=).                         *)
WaitsAreBounded == StartIsBounded /\ StopIsBounded

(* The main process of u is started by this step. *)
Starts(u) ==
  /\ m'.rt[u].pid \notin {NoPid, m.rt[u].pid}
  /\ m.rt[u].pid = NoPid

(* Nothing brings up a unit that was told to stop: not a restart that was  *)
(* already due, a start flow that was already on its way, or a start       *)
(* queued behind the stop.  (Only a unit file that names its own unit in   *)
(* Conflicts= is an exception: the start stops the unit first.)            *)
StopSticks ==
  [][\A u \in Units :
       Starts(u) /\ u \notin Config(u).conflicts => target_of(m, u) # "Stopped"]_vars

(* A failure, the unit's own or that of one it requires, ends a start that *)
(* is on its way.  What it does not end is a start an operator asks for    *)
(* afterwards: `rctl start` of a failed unit gives the flow it begins its  *)
(* first turn at once, in the control job.                                 *)
RetriedByHand(u) == pc = "controls" /\ control.target = u
FailedStaysDown ==
  [][\A u \in Units :
       Starts(u) /\ ~RetriedByHand(u) => m.rt[u].state \notin Failed]_vars

(* A deadline belongs to the state it was armed for, through every order   *)
(* of exits, stops, probes and restarts: a unit that waits for its restart *)
(* has the restart ahead of it unless it was told to stop since, and a     *)
(* SIGKILL is only ahead of a unit that is starting or stopping, never of  *)
(* the next instance (schedule_restart, on_child_exit).  Not so where      *)
(* RestartIsComing and ReadyIsNotKilled say: the flow goes on after the    *)
(* spawn (ExecStartPost=, fork+exec), and readiness comes after the start  *)
(* timeout (the SIGKILL then stays armed while the unit is up, or until    *)
(* its next start if a probe finds it gone).                               *)
AwaitsRestart(u) == m.rt[u].state = "RestartWait" /\ target_of(m, u) # "Stopped"
RestartAhead(u) == m.rt[u].restart_at \/ (u \in DOMAIN flows /\ ~flows[u].spawned)
GoesOn(u) == Config(u).post \/ Config(u).forked
ReadyLate(u) == /\ Config(u).kind \in {"Notify", "Forking"}
                /\ m.rt[u].state \in {"Active", "Inactive"}
DeadlinesBelong ==
  \A u \in Units :
    /\ AwaitsRestart(u) /\ ~GoesOn(u) => RestartAhead(u)
    /\ m.rt[u].kill_at /\ ~ReadyLate(u) => m.rt[u].state \in {"Starting", "Deactivating"}

(* Units that exclude each other take turns, however requests, restarts    *)
(* and exits fall: neither starts before the other is gone or killed.      *)
(* They name each other and have nothing to wait for between the look at   *)
(* the other and the spawn (see ConflictsExclude).                         *)
Direct(u) == ~Config(u).pre /\ ~Config(u).socket /\ Cardinality(Config(u).conflicts) = 1
Running(u) ==
  \E p \in DOMAIN m.procs :
    m.procs[p].unit = u /\ m.procs[p].role = "main" /\ ~m.procs[p].killed
TakeTurns ==
  \A u, v \in Units :
    /\ u \in Config(v).conflicts /\ v \in Config(u).conflicts
    /\ Direct(u) /\ Direct(v)
    => ~(Running(u) /\ Running(v))

(* Nothing runs beside what it must not: a unit has one process of its own *)
(* at a time, and units that exclude each other take turns.                *)
NeverTwice == OneInstance /\ TakeTurns

(* `rctl start b` does not start b on top of a unit it requires that has   *)
(* failed, even when that unit failed after the job had seen it up.        *)
RequiredNotFailed ==
  [][\A u \in Units :
       Starts(u) /\ pc = "controls" =>
         \A v \in required_closure(u) : m.rt[v].state \notin Failed]_vars

(* A failure is not overtaken by a start already on its way: neither a     *)
(* start flow nor a control job starts a unit that has failed since, or    *)
(* one whose requirements have.                                            *)
FailureSticks == FailedStaysDown /\ RequiredNotFailed

(* The manager assigns a unit's state in a dozen places and asks the table *)
(* only in three of them.  Yet a unit moves only as the table says, by one *)
(* event or by two that come together (a simple service is up when it is   *)
(* spawned, a restart may trip the limit, a stop may find nothing to       *)
(* wait for), and by the two rules the manager adds: a start that is given *)
(* up fails, with what requires it, and a process that ends as it starts   *)
(* or is stopped to be restarted goes the way of a restart.  A start that  *)
(* is on its way overtakes a restart that only waits for leftovers.        *)
Together ==
  {<<"Start", "StartUpComplete">>, <<"BackoffElapsed", "StartUpComplete">>, <<"Stop", "StopComplete">>}
    \cup {<<outcome, "StartLimitTripped">> : outcome \in Outcomes}
Scripts == {<<e>> : e \in TableEvents} \cup Together
GivesUp(u) == u \in DOMAIN flows \/ \E v \in Config(u).requires : m'.rt[v].state \in Failed
Overtakes(u) == m.rt[u].pid = NoPid /\ m.rt[u].restart_after_stop /\ u \in DOMAIN flows
Moves(u, old, new) ==
  \/ \E s \in Scripts : drive(old, s, Config(u).policy, Config(u).kind) = new
  \/ new = "StartFailure" /\ GivesUp(u)
  \/ old \in {"Starting", "Deactivating"} /\ new \in {"RestartWait", "StartLimitHit"}
  \/ old = "Deactivating" /\ new \in {"Starting", "Active"} /\ Overtakes(u)
FollowsTable ==
  [][\A u \in Units :
       m.rt[u].state # m'.rt[u].state => Moves(u, m.rt[u].state, m'.rt[u].state)]_vars

(* A stop ends, whatever the service does about it. *)
StopEnds ==
  \A u \in Units : m.rt[u].state = "Deactivating" ~> m.rt[u].state # "Deactivating"

(* Every `rctl start` is answered because each of the starts it waits for  *)
(* ends, in success or in failure.                                         *)
StartIsAnswered == control # NoControl ~> control = NoControl

-------------------------------------------------------------------------------
(* What comments and documents of the repository say, and the code does    *)
(* not do: see the findings in the README.                                 *)

(* "a manual start [is] the escape hatch from Failed(StartLimitHit)": the  *)
(* flow made for a manual start of a unit that has hit its limit survives  *)
(* the checks its first turn begins with.                                  *)
ManualStartProceeds ==
  [][\A u \in Units :
       /\ pc = "controls" /\ u \in turn /\ cur = None /\ control.target = u
       /\ m.rt[u].state = "StartLimitHit"
       => u \in DOMAIN flows']_vars

(* "The unit died on its own and its exit is on its way; let the normal    *)
(* crash path handle it": a unit that is to be up and restarts always does *)
(* not just stay down.                                                     *)
CrashIsHandled ==
  \A u \in Units :
    /\ pc = "select" /\ Config(u).policy = "Always"
    /\ target_of(m, u) = "Started"
    => m.rt[u].state # "Inactive" \/ u \in DOMAIN flows \/ m.queued[u] # None

(* "A pending restart is cancelled: an explicit stop beats an automatic    *)
(* one": a unit whose stop was accepted is not waiting to be restarted.    *)
StopBeatsRestart ==
  \A u \in Units :
    pc = "select" /\ m.jobs[u] = "UserStop" => m.rt[u].state # "RestartWait"

(* "A unit that already left `Starting` cannot time out starting": a unit  *)
(* that is up is not about to be killed for a late start.                  *)
ReadyIsNotKilled ==
  \A u \in Units : m.rt[u].state = "Active" => ~m.rt[u].kill_at

(* "Fire any restart whose backoff has elapsed": a unit waiting for its    *)
(* restart has the restart ahead of it, a deadline that is armed or a      *)
(* start flow that has not spawned yet.                                    *)
RestartIsComing == \A u \in Units : AwaitsRestart(u) => RestartAhead(u)

(* `"Conflict" includes [...] a start flow that has not spawned yet': two  *)
(* units never run side by side if one excludes the other and the other    *)
(* was not started later.  Here both name each other.                      *)
ConflictsExclude ==
  \A u, v \in Units :
    u \in Config(v).conflicts /\ v \in Config(u).conflicts => ~(Running(u) /\ Running(v))

(* "keeps rinit's single-reaper invariant intact": a process on record     *)
(* does not vanish without its exit being handed to the manager, except    *)
(* under a start flow that is about to be told.                            *)
SingleReaper ==
  \A u \in Units :
    LET p == m.rt[u].pid
    IN p # NoPid => \/ Alive(m, p) \/ Pending(p)
                    \/ u \in DOMAIN flows /\ flows[u].stage = "SpawnWait"
==============================================================================
