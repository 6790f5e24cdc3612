-------------------------------- MODULE Reload --------------------------------
(***************************************************************************)
(* `rctl reload`, crates/rinit/src/reload.rs, with the part of the unit    *)
(* manager it works on: definitions in force and deferred, units that were *)
(* removed while something of them still ran, the cached dependency graph, *)
(* template instances, and the sockets held for units.                     *)
(*                                                                         *)
(* The services here are simple ones: a unit has a process while it is     *)
(* "Active" or "Deactivating".  `Supervisor` has the life of a process in  *)
(* full; here it is starting, stopping and exiting between two reloads.    *)
(* A reload is one step: it reads the directory on another thread, but the *)
(* loop waits for it.                                                      *)
(***************************************************************************)
EXTENDS Naturals, Sequences, SequencesExt, FiniteSets, TLC

CONSTANTS
  UnitNames,  \* the unit names in name order, instances of templates included
  Instances,  \* the names that are instances of the template
  Order,      \* the names in an order that puts what is required first
  Histories,  \* sets of contents the unit directory may have, one after another
  MaxJobs,    \* bound: a client asks for a start while fewer jobs are outstanding
  MaxStrays   \* bound: processes without a unit

None == "None"
Units == ToSet(UnitNames)

(* A directory: ok unless plan_boot refuses it, its unit files, the levels *)
(* of the boot target in one sequence, and whether it has the template.    *)
Definition(d) == /\ d.requires \subseteq Units
                 /\ DOMAIN d = {"version", "requires", "path"}
ASSUME ReloadAssumption ==
  /\ UnitNames \in Seq(Units) /\ ToSet(Order) = Units
  /\ Instances \subseteq Units
  /\ MaxJobs \in Nat /\ MaxStrays \in Nat
  /\ \A d \in UNION Histories :
                     /\ DOMAIN d.files \subseteq Units \ Instances
                     /\ ToSet(d.levels) \subseteq DOMAIN d.files
                     /\ \A u \in DOMAIN d.files : Definition(d.files[u])

(* What the template makes of an instance name. *)
InstanceOf == [version |-> 1, requires |-> {}, path |-> None]

VARIABLES
  loaded,   \* the directory the last accepted reload has read
  rt,       \* rt[u]: the runtime of u, for the units the manager knows
  flows,    \* flows[u]: the definition the start flow of u began with
  jobs,     \* the outstanding start jobs
  graph,    \* the cached graph: who requires whom, or NoGraph
  held,     \* held[u]: the path of the socket rinit holds for u
  fds,      \* fds[u]: the path of the socket the manager hands to u
  strays    \* processes no unit has on record

reloadVars == <<loaded, rt, flows, jobs, graph, held, fds, strays>>

(* What the directory may have become when a reload reads it. *)
Edits == UNION {h \in Histories : loaded \in h}

NoGraph == [u \in {None} |-> {}]
NewRuntime(config) ==
  [config |-> config, pending |-> {}, state |-> "Inactive", restart_at |-> FALSE,
   queued |-> FALSE, retired |-> FALSE]

Without(f, S) == [x \in DOMAIN f \ S |-> f[x]]
Put(f, u, v) == [x \in DOMAIN f \cup {u} |-> IF x = u THEN v ELSE f[x]]

Live(r) == {u \in DOMAIN r : ~r[u].retired}
is_up(r, u) == u \in DOMAIN r /\ r[u].state \in {"Active", "Deactivating"}

-------------------------------------------------------------------------------
(* Definitions. *)

(* UnitRuntime::adopt_pending_config *)
adopt(r, u) ==
  IF is_up(r, u) \/ r[u].pending = {} THEN r[u]
  ELSE [r[u] EXCEPT !.config = CHOOSE d \in r[u].pending : TRUE, !.pending = {}]

(* What becomes of the runtime of u.  A start that is on its way counts as *)
(* running.                                                                *)
(* A mistake: a definition that was deferred is not withdrawn. *)
add_with_in_flight_bug(r, u, config) ==
  IF u \notin DOMAIN r THEN NewRuntime(config)
  ELSE LET kept == [r[u] EXCEPT !.retired = FALSE]
       IN CASE kept.config = config -> kept
            [] kept.config # config /\ (is_up(r, u) \/ u \in DOMAIN flows) ->
                 [kept EXCEPT !.pending = {config}]
            [] OTHER -> [kept EXCEPT !.config = config, !.pending = {}]
(* A mistake: a start that is on its way does not count. *)
add_with_in_flight_now(r, u, config) ==
  IF u \notin DOMAIN r THEN NewRuntime(config)
  ELSE LET kept == [r[u] EXCEPT !.retired = FALSE, !.pending = {}]
       IN CASE kept.config = config -> kept
            [] kept.config # config /\ is_up(r, u) -> [kept EXCEPT !.pending = {config}]
            [] OTHER -> [kept EXCEPT !.config = config]
add_with_in_flight(r, u, config) ==
  IF u \notin DOMAIN r THEN NewRuntime(config)
  ELSE LET kept == [r[u] EXCEPT !.retired = FALSE, !.pending = {}]
       IN CASE kept.config = config -> kept
            [] kept.config # config /\ (is_up(r, u) \/ u \in DOMAIN flows) ->
                 [kept EXCEPT !.pending = {config}]
            [] OTHER -> [kept EXCEPT !.config = config]

(* Whether that call invalidates the cached graph. *)
Invalidates(r, u, config) ==
  u \notin DOMAIN r \/ (r[u].config # config /\ ~is_up(r, u) /\ u \notin DOMAIN flows)

retire(runtime) == [runtime EXCEPT !.retired = TRUE, !.queued = FALSE, !.restart_at = FALSE]

prune_retired(r) == Without(r, {u \in DOMAIN r : r[u].retired /\ ~is_up(r, u)})

-------------------------------------------------------------------------------
(* The dependency graph: DependencyGraph::build over the definitions in    *)
(* force refuses one that requires a unit that is not there.               *)

Builds(r) == \A u \in Live(r) : r[u].config.requires \subseteq Live(r)
Built(r) == [u \in Live(r) |-> r[u].config.requires]
GraphFor(r, g) == IF g = NoGraph THEN Built(r) ELSE g

Reach(g, u) ==
  LET Closed(S) == \A x \in S \cap DOMAIN g : g[x] \subseteq S
  IN {v \in Units \ {u} : \A S \in SUBSET Units : u \in S /\ Closed(S) => v \in S}
job_order(g, u) == SelectSeq(Order, LAMBDA v : v \in Reach(g, u) /\ v \in DOMAIN g)

(* ControlStart::new *)
NewJob(r, g, u) ==
  [target |-> u, rest |-> Append(job_order(g, u), u),
   required |-> Reach([v \in DOMAIN r |-> r[v].config.requires], u), waiting |-> None]

-------------------------------------------------------------------------------
(* reload, in the order of its steps. A bind works unless it is refused or *)
(* another unit's socket is at the path; broken are the paths it fails at. *)

Gone(r, d) ==
  {u \in Live(r) : u \notin DOMAIN d.files /\ ~(u \in Instances /\ d.template)}

StopGone(r, G) ==
  [u \in DOMAIN r |->
     IF u \notin G THEN r[u]
     ELSE retire(IF is_up(r, u) THEN [r[u] EXCEPT !.state = "Deactivating"] ELSE r[u])]
Registered(r, files) ==
  [u \in DOMAIN r \cup DOMAIN files |->
     IF u \in DOMAIN files THEN add_with_in_flight(r, u, files[u]) ELSE r[u]]

Bind(h, u, path, broken) ==
  IF path \in broken \/ \E v \in DOMAIN h \ {u} : h[v] = path THEN h ELSE Put(h, u, path)

(* A mistake: the manager keeps what it had when the socket has moved. *)
reconcile_socket_bug(s, u, path, broken) ==
  CASE path = None -> [held |-> Without(s.held, {u}), fds |-> Without(s.fds, {u})]
    [] path # None /\ u \in DOMAIN s.fds -> [s EXCEPT !.held = Bind(@, u, path, broken)]
    [] OTHER -> LET h == Bind(s.held, u, path, broken)
                IN [held |-> h,
                    fds |-> IF u \in DOMAIN h THEN Put(s.fds, u, h[u]) ELSE s.fds]
reconcile_socket(s, u, path, broken) ==
  IF path = None
  THEN [held |-> Without(s.held, {u}), fds |-> Without(s.fds, {u})]
  ELSE LET h == IF u \in DOMAIN s.held /\ s.held[u] = path THEN s.held
                ELSE Bind(s.held, u, path, broken)
       IN [held |-> h,
           fds |-> IF u \in DOMAIN h THEN Put(s.fds, u, h[u]) ELSE Without(s.fds, {u})]

(* The sockets, one unit after another in name order. *)
Sockets(s0, files, broken) ==
  LET s[n \in 0 .. Len(UnitNames)] ==
        IF n = 0 THEN s0
        ELSE IF UnitNames[n] \notin DOMAIN files THEN s[n - 1]
        ELSE reconcile_socket(s[n - 1], UnitNames[n], files[UnitNames[n]].path, broken)
  IN s[Len(UnitNames)]

Paths(files) == {files[u].path : u \in DOMAIN files} \ {None}

(* prepare_units: what cannot be bound has failed, and with it what it is  *)
(* required by.                                                            *)
ReloadInit ==
  /\ loaded \in {d \in UNION Histories : d.ok}
  /\ \E broken \in SUBSET Paths(loaded.files) :
       LET files == loaded.files
           s == Sockets([held |-> <<>>, fds |-> <<>>], files, broken)
           deaf == {u \in DOMAIN files : files[u].path # None /\ u \notin DOMAIN s.held}
           required == [u \in DOMAIN files |-> files[u].requires]
           fails(u) == deaf \cap ({u} \cup Reach(required, u)) # {}
       IN /\ rt = [u \in DOMAIN files |->
                     [NewRuntime(files[u]) EXCEPT !.state = IF fails(u) THEN "Failed" ELSE "Inactive"]]
          /\ held = s.held /\ fds = s.fds
  /\ flows = <<>>
  /\ jobs = <<>>
  /\ graph = NoGraph
  /\ strays = 0

(* StartCoordinator::after_reload *)
after_reload(r, js) ==
  /\ flows' = Without(flows, {u \in DOMAIN flows : u \notin Live(r)})
  /\ jobs' = SelectSeq(js, LAMBDA j : j.target \in Live(r))

reload(dir, broken) ==
  /\ dir.ok
  /\ LET r0 == prune_retired(rt)
         gone == Gone(r0, dir)
         r1 == StopGone(r0, gone)
         r2 == Registered(r1, dir.files)
         s1 == Sockets([held |-> Without(held, gone), fds |-> Without(fds, gone)], dir.files, broken)
         changed == \/ DOMAIN r0 # DOMAIN rt \/ gone # {}
                    \/ \E u \in DOMAIN dir.files : Invalidates(r1, u, dir.files[u])
         added == {u \in DOMAIN dir.files : u \notin DOMAIN r1 \/ r1[u].retired}
         g == IF changed THEN NoGraph ELSE graph
         wanted == SelectSeq(dir.levels, LAMBDA u : u \in added /\ dir.files[u].path = None)
         resolved == g # NoGraph \/ Builds(r2)
         h == IF wanted # <<>> /\ resolved THEN GraphFor(r2, g) ELSE g
         queued == IF resolved THEN [i \in 1 .. Len(wanted) |-> NewJob(r2, h, wanted[i])]
                   ELSE <<>>
     IN /\ rt' = r2
        /\ held' = s1.held /\ fds' = s1.fds
        /\ graph' = h
        /\ after_reload(r2, jobs \o queued)
  /\ loaded' = dir
  /\ UNCHANGED strays

(* A directory plan_boot refuses changes nothing but what after_reload     *)
(* finds.                                                                  *)
reload_rejected ==
  /\ \E dir \in Edits : ~dir.ok
  /\ after_reload(rt, jobs)
  /\ UNCHANGED <<loaded, rt, graph, held, fds, strays>>

-------------------------------------------------------------------------------
(* Clients. *)

(* control_start: an instance is made from the template when it is asked   *)
(* for, over whatever entry the name may have.                             *)
control_start(u) ==
  /\ Len(jobs) < MaxJobs
  /\ u \in Live(rt) \/ (u \in Instances /\ loaded.template)
  /\ u \notin Live(rt) /\ is_up(rt, u) => strays < MaxStrays
  /\ LET made == u \notin Live(rt)
         r == IF made THEN Put(rt, u, NewRuntime(InstanceOf)) ELSE rt
         g == IF made THEN NoGraph ELSE graph
     IN /\ rt' = r
        /\ strays' = IF made /\ is_up(rt, u) THEN strays + 1 ELSE strays
        /\ IF g # NoGraph \/ Builds(r)
           THEN graph' = GraphFor(r, g) /\ jobs' = Append(jobs, NewJob(r, GraphFor(r, g), u))
           ELSE graph' = g /\ UNCHANGED jobs
  /\ UNCHANGED <<loaded, flows, held, fds>>

control_stop(u) ==
  /\ u \in Live(rt)
  /\ rt' = [rt EXCEPT ![u].queued = FALSE, ![u].restart_at = FALSE,
                      ![u].state = IF is_up(rt, u) THEN "Deactivating" ELSE "Inactive"]
  /\ flows' = Without(flows, {u})
  /\ UNCHANGED <<loaded, jobs, graph, held, fds, strays>>

-------------------------------------------------------------------------------
(* Start jobs and flows. *)

(* StartCoordinator::begin and StartFlow::new: a unit has one flow at a    *)
(* time, and a unit that was removed has none.                             *)
Begin(r, u) ==
  IF u \in DOMAIN flows THEN rt' = r /\ UNCHANGED <<flows, graph>>
  ELSE LET n == adopt(r, u)
       IN /\ rt' = Put(r, u, n)
          /\ graph' = NoGraph
          /\ flows' = IF n.retired THEN flows ELSE Put(flows, u, n.config)

JobOver(i) == jobs' = RemoveAt(jobs, i)
JobGoesOn(i, j) == jobs' = [jobs EXCEPT ![i] = j]

(* The job waits for a unit it has started, and ends with one it needs. *)
job_wait(i) ==
  LET j == jobs[i]
      u == j.waiting
      needed == u = j.target \/ u \in j.required
  IN /\ u # None /\ u \notin DOMAIN flows
     /\ IF u \in DOMAIN rt /\ (rt[u].state = "Active" \/ ~needed)
        THEN JobGoesOn(i, [j EXCEPT !.waiting = None])
        ELSE JobOver(i)
     /\ UNCHANGED <<loaded, rt, flows, graph, held, fds, strays>>

job_next(i) ==
  LET j == jobs[i]
      u == Head(j.rest)
      next == [j EXCEPT !.rest = Tail(@)]
  IN /\ j.waiting = None
     /\ UNCHANGED <<loaded, held, fds, strays>>
     /\ CASE j.rest = <<>> \/ (j.rest # <<>> /\ u \notin DOMAIN rt) ->
               JobOver(i) /\ UNCHANGED <<rt, flows, graph>>
          [] j.rest # <<>> /\ u \in DOMAIN flows ->
               JobGoesOn(i, [next EXCEPT !.waiting = u]) /\ UNCHANGED <<rt, flows, graph>>
          [] OTHER ->
               CASE rt[u].state = "Active" -> JobGoesOn(i, next) /\ UNCHANGED <<rt, flows, graph>>
                 [] rt[u].state = "Deactivating" ->
                      /\ rt' = [rt EXCEPT ![u].queued = TRUE]
                      /\ JobOver(i)
                      /\ UNCHANGED <<flows, graph>>
                 [] rt[u].state = "Failed" /\ u # j.target ->
                      /\ IF u \in j.required THEN JobOver(i) ELSE JobGoesOn(i, next)
                      /\ UNCHANGED <<rt, flows, graph>>
                 [] OTHER ->
                      /\ Begin(rt, u)
                      /\ IF rt[u].retired THEN JobOver(i)
                         ELSE JobGoesOn(i, [next EXCEPT !.waiting = u])

(* due_restarts *)
restart_due(u) ==
  /\ u \in DOMAIN rt /\ rt[u].restart_at
  /\ Begin([rt EXCEPT ![u].restart_at = FALSE], u)
  /\ UNCHANGED <<loaded, jobs, held, fds, strays>>

(* due_queued_starts *)
queued_due(u) ==
  /\ u \in DOMAIN rt /\ rt[u].queued /\ rt[u].state # "Deactivating"
  /\ LET r == [rt EXCEPT ![u].queued = FALSE]
     IN IF rt[u].retired \/ rt[u].state = "Active"
        THEN rt' = r /\ UNCHANGED <<flows, graph>>
        ELSE Begin(r, u)
  /\ UNCHANGED <<loaded, jobs, held, fds, strays>>

(* The flow runs its commands and spawns the process, or fails. *)
flow_ends(u) ==
  /\ u \in DOMAIN flows
  /\ \E state \in {"Active", "Failed"} :
       rt' = [rt EXCEPT ![u].state = state, ![u].restart_at = FALSE]
  /\ flows' = Without(flows, {u})
  /\ UNCHANGED <<loaded, jobs, graph, held, fds, strays>>

(* The process is gone; Restart= decides what a crash does. *)
exit(u) ==
  /\ is_up(rt, u)
  /\ \E restart \in BOOLEAN :
       /\ restart => rt[u].state = "Active" /\ ~rt[u].retired
       /\ rt' = [rt EXCEPT ![u].state = IF restart THEN "RestartWait" ELSE "Inactive",
                           ![u].restart_at = restart]
  /\ UNCHANGED <<loaded, flows, jobs, graph, held, fds, strays>>

stray_exit == strays > 0 /\ strays' = strays - 1
              /\ UNCHANGED <<loaded, rt, flows, jobs, graph, held, fds>>

-------------------------------------------------------------------------------
ReloadNext ==
  \/ \E dir \in Edits : \E broken \in SUBSET Paths(dir.files) : reload(dir, broken)
  \/ reload_rejected
  \/ \E u \in Units : control_start(u) \/ control_stop(u)
  \/ \E i \in DOMAIN jobs : job_wait(i) \/ job_next(i)
  \/ \E u \in Units : restart_due(u) \/ queued_due(u) \/ flow_ends(u) \/ exit(u)
  \/ stray_exit

ReloadSpec == ReloadInit /\ [][ReloadNext]_reloadVars

-------------------------------------------------------------------------------
(* The definition the next start of a unit will use is the one the last    *)
(* accepted reload has read, whatever was deferred, withdrawn, removed and *)
(* brought back before.                                                    *)
DirectoryWins ==
  \A u \in Live(rt) \ Instances :
    /\ u \in DOMAIN loaded.files
    /\ {loaded.files[u]} = IF rt[u].pending = {} THEN {rt[u].config} ELSE rt[u].pending

(* The commands of a start and its process come from one definition, and a *)
(* process keeps it: no reload changes it in between.                      *)
OneDefinition ==
  [][\A u \in DOMAIN rt \cap DOMAIN rt' :
       /\ u \in DOMAIN flows /\ rt'[u].state = "Active" => rt'[u].config = flows[u]
       /\ is_up(rt, u) /\ is_up(rt', u) => rt'[u].config = rt[u].config]_reloadVars

(* Nothing brings a removed unit back: it is stopping or stopped, and no   *)
(* start of it is on its way.                                              *)
RemovedStaysDown ==
  \A u \in DOMAIN rt : rt[u].retired => rt[u].state # "Active" /\ u \notin DOMAIN flows

(* The directory of the last accepted reload decides every later start: a  *)
(* unit in it starts by its definition there, and a unit that is gone from *)
(* it comes down and stays down (add_with_in_flight, retire).              *)
DirectoryDecides == DirectoryWins /\ RemovedStaysDown

(* The descriptor a service is handed is the socket rinit holds for it,    *)
(* and no two units listen at the same path.                               *)
ListenerIsHeld ==
  /\ fds = held
  /\ \A u, v \in DOMAIN held : held[u] = held[v] => u = v

-------------------------------------------------------------------------------
(* What comments say and the code does not do: see the README.             *)

(* "removing a unit means removing the references to it, in the same       *)
(* reload": after that, starts can be resolved again.                      *)
StartsResolve == Builds(rt)
===============================================================================
