----------------------------- MODULE Dependency -----------------------------
(***************************************************************************)
(* The dependency graph of a unit directory and the boot plan made from    *)
(* it: crates/rinit-core/src/unit/dependency.rs, `plan_boot` of            *)
(* crates/rinit-runtime/src/plan.rs and `start_order` of the unit manager. *)
(*                                                                         *)
(* A unit name is a natural number, so that the code's alphabetical order  *)
(* is <.  A directory maps the names that have a file to what the file     *)
(* says; the code's adjacency lists are sets, because only which of        *)
(* several cycles is reported depends on the order inside them.  A result  *)
(* is a record whose `err` is "none" when the rest of it is meaningful.    *)
(***************************************************************************)
EXTENDS Naturals, Sequences, FiniteSets, FiniteSetsExt, SequencesExt, Inputs

NoRefs == [kind |-> "service", requires |-> {}, wants |-> {}, after |-> {},
           before |-> {}, conflicts |-> {}, sockets |-> {}, needs |-> {}]

PlanError(e) == [err |-> e]

(* `Sockets=`/`NeedsSocket=` become edges before the graph is built: each  *)
(* path has one provider, and a consumer requires and follows it.          *)
Providers(dir, path) == {u \in DOMAIN dir : path \in dir[u].sockets}
DuplicateSocket(dir) ==
  \E u \in DOMAIN dir : \E path \in dir[u].sockets :
    Cardinality(Providers(dir, path)) > 1
SocketNeeds(dir, u) == (UNION {Providers(dir, path) : path \in dir[u].needs}) \ {u}

resolve_sockets(dir) ==
  [u \in DOMAIN dir |-> [dir[u] EXCEPT !.requires = @ \cup SocketNeeds(dir, u),
                                       !.after = @ \cup SocketNeeds(dir, u)]]

(* Hard references must resolve; a dangling `Wants=` or `Conflicts=` is a  *)
(* warning and contributes no edge.                                        *)
HardRefs(cfg) == cfg.requires \cup cfg.after \cup cfg.before
Dangling(dir) == {u \in DOMAIN dir : ~(HardRefs(dir[u]) \subseteq DOMAIN dir)}
Warnings(dir) ==
  [u \in DOMAIN dir |-> (dir[u].wants \cup dir[u].conflicts) \ DOMAIN dir]

Dependencies(dir) ==
  [u \in DOMAIN dir |->
    ((dir[u].requires \cup dir[u].wants \cup dir[u].after) \cap DOMAIN dir)
      \cup {v \in DOMAIN dir : u \in dir[v].before}]

Activations(dir) ==
  [u \in DOMAIN dir |-> (dir[u].requires \cup dir[u].wants) \cap DOMAIN dir]

(* Kahn's algorithm: Ordered[n] is the order after n rounds, each of which *)
(* places the smallest unit whose dependencies are all placed.             *)
Placeable(deps, placed) == {u \in DOMAIN deps \ placed : deps[u] \subseteq placed}
Kahn(deps) ==
  LET Ordered[n \in Nat] ==
        IF n = 0 THEN << >>
        ELSE LET sofar == Ordered[n - 1]
                 ready == Placeable(deps, ToSet(sofar))
             IN  IF ready = {} THEN sofar ELSE Append(sofar, Min(ready))
  IN  Ordered[Cardinality(DOMAIN deps)]

(* The depth-first search for a cycle.  `path` is the stack, with what each *)
(* node still has to follow; it ends when the next node is on the stack.    *)
OnPath(s) == {s.path[i].node : i \in DOMAIN s.path}
Entry(deps, u) == [node |-> u, left |-> deps[u]]
Slice(s, u) ==
  LET at == CHOOSE i \in DOMAIN s.path : s.path[i].node = u
  IN  Append([i \in 1..(Len(s.path) - at + 1) |-> s.path[at + i - 1].node], u)

Visit(deps, s) ==
  LET top  == Last(s.path)
      next == Min(top.left)
      seen == [s EXCEPT !.path[Len(s.path)].left = @ \ {next}]
  IN  CASE s.found # << >> -> s
        [] s.found = << >> /\ s.path = << >> ->
             IF DOMAIN deps \subseteq s.done THEN s
             ELSE [s EXCEPT !.path = <<Entry(deps, Min(DOMAIN deps \ s.done))>>]
        [] s.found = << >> /\ s.path # << >> ->
             IF top.left = {} THEN [s EXCEPT !.path = Front(s.path), !.done = @ \cup {top.node}]
             ELSE IF next \in OnPath(s) THEN [s EXCEPT !.found = Slice(s, next)]
             ELSE IF next \in s.done THEN seen
             ELSE [seen EXCEPT !.path = Append(@, Entry(deps, next))]

(* Each edge is followed once and each node pushed and popped once. *)
DfsSteps(deps) == 3 * Cardinality(DOMAIN deps) + Cardinality(DOMAIN deps) ^ 2
find_cycle(deps) ==
  LET Dfs[n \in Nat] ==
        IF n = 0 THEN [path |-> << >>, done |-> {}, found |-> << >>]
        ELSE Visit(deps, Dfs[n - 1])
  IN  Dfs[DfsSteps(deps)].found

build(dir) ==
  LET deps == Dependencies(dir)
  IN  IF Dangling(dir) # {} THEN PlanError("missing")
      ELSE IF Len(Kahn(deps)) < Cardinality(DOMAIN dir)
      THEN [err |-> "cycle", path |-> find_cycle(deps)]
      ELSE [err |-> "none", units |-> DOMAIN dir, dependencies |-> deps,
            activations |-> Activations(dir), warnings |-> Warnings(dir)]

(* A unit sits one level below its deepest dependency, which the order has *)
(* placed already.                                                         *)
(* A mistake: below its shallowest one. *)
Below_bug(ds) == IF ds = {} THEN 0 ELSE Min(ds) + 1
Below(ds) == IF ds = {} THEN 0 ELSE Max(ds) + 1
LevelOf(graph) ==
  LET order == Kahn(graph.dependencies)
      Assigned[n \in Nat] ==
        IF n = 0 THEN [u \in {} |-> 0]
        ELSE LET sofar == Assigned[n - 1]
                 u == order[n]
                 level == Below({sofar[d] : d \in graph.dependencies[u]})
             IN  [v \in DOMAIN sofar \cup {u} |-> IF v = u THEN level ELSE sofar[v]]
  IN  Assigned[Len(order)]
levels(graph) ==
  LET of == LevelOf(graph)
      order == Kahn(graph.dependencies)
  IN  IF graph.units = {} THEN << >>
      ELSE [l \in 1..(Max(Range(of)) + 1) |-> SelectSeq(order, LAMBDA u : of[u] = l - 1)]

(* Everything a unit activates, itself included: what a stack that skips   *)
(* the units it has seen can reach.                                        *)
closure_of(graph, unit) ==
  LET Reached[n \in Nat] ==
        IF n = 0 THEN {unit} \cap graph.units
        ELSE Reached[n - 1] \cup UNION {graph.activations[u] : u \in Reached[n - 1]}
  IN  Reached[Cardinality(graph.units)]

(* The boot plan: the levels of the target's closure, empty ones dropped.  *)
(* Everything that can be wrong with a directory refuses the whole of it.  *)
NonEmpty(seqs) == SelectSeq(seqs, LAMBDA s : s # << >>)
plan_boot(dir, target) ==
  LET resolved == resolve_sockets(dir)
      graph == build(resolved)
      wanted == closure_of(graph, target)
      all == levels(graph)
  IN  IF DuplicateSocket(dir) THEN PlanError("duplicate socket")
      ELSE IF graph.err # "none" THEN graph
      ELSE IF target \notin graph.units THEN PlanError("unknown target")
      ELSE [err |-> "none", configs |-> resolved, warnings |-> graph.warnings,
            levels |-> NonEmpty([l \in DOMAIN all |->
                         SelectSeq(all[l], LAMBDA u : u \in wanted)])]

spawns_process(cfg) == cfg.kind = "service"
commands_in_level(plan, l) ==
  SelectSeq(plan.levels[l], LAMBDA u : spawns_process(plan.configs[u]))

(* What a control-driven start brings up first, in boot order, and the     *)
(* units whose failure fails it.                                           *)
start_order(graph, unit) ==
  LET closure == closure_of(graph, unit)
  IN  SelectSeq(FlattenSeq(levels(graph)), LAMBDA u : u # unit /\ u \in closure)
required_closure(dir, unit) ==
  LET Needs[n \in Nat] ==
        IF n = 0 THEN {unit}
        ELSE Needs[n - 1] \cup UNION {dir[u].requires : u \in Needs[n - 1] \cap DOMAIN dir}
  IN  Needs[Cardinality(DOMAIN dir) + 1] \ {unit}

-----------------------------------------------------------------------------
(***************************************************************************)
(* `Dependency` on every small unit directory.  A directory grows by one   *)
(* file or one directive at a time, as an administrator writes it, and the *)
(* invariants compare the plan of each with the definitions below, which   *)
(* speak of the relation between the units and not of the algorithms.      *)
(***************************************************************************)

CONSTANTS
  Names,     \* the unit names; a name without a file can be referred to
  Target,    \* the default target
  MaxRefs    \* bound on the directives of a directory

ASSUME PlanAssumption == Names \subseteq Nat /\ Target \in Names /\ MaxRefs \in Nat

VARIABLES
  dir,    \* the unit directory
  refs,   \* how many directives it has
  plan    \* what `rinit-check`, or a boot, makes of it

PlanInit ==
  /\ dir \in {[u \in S |-> NoRefs] : S \in {Names \ {Max(Names)}, Names}}
  /\ refs = 0
  /\ plan = plan_boot(dir, Target)

Directives == {"requires", "wants", "after", "before"}
AddRef(u, v, directive) ==
  /\ refs < MaxRefs
  /\ v \notin dir[u][directive]
  /\ dir' = [dir EXCEPT ![u][directive] = @ \cup {v}]
  /\ refs' = refs + 1
  /\ plan' = plan_boot(dir', Target)
AddSocket(u, directive) ==
  /\ refs < MaxRefs
  /\ "path" \notin dir[u][directive]
  /\ dir' = [dir EXCEPT ![u][directive] = @ \cup {"path"}]
  /\ refs' = refs + 1
  /\ plan' = plan_boot(dir', Target)

(* The files are written in name order, which reaches every directory.     *)
PlanNext ==
  \E u \in DOMAIN dir :
    /\ \A v \in DOMAIN dir : v > u => dir[v] = NoRefs
    /\ \/ \E v \in Names, directive \in Directives : AddRef(u, v, directive)
       \/ \E directive \in {"sockets", "needs"} : AddSocket(u, directive)
-----------------------------------------------------------------------------
(* The reference definitions: a unit waits for, or activates, another.     *)
Waits(u, v) ==
  \/ v \in dir[u].requires \cup dir[u].wants \cup dir[u].after
  \/ u \in dir[v].before
  \/ dir[u].needs # {} /\ dir[v].sockets # {} /\ u # v
Pulls(u, v) ==
  \/ v \in dir[u].requires \cup dir[u].wants
  \/ dir[u].needs # {} /\ dir[v].sockets # {} /\ u # v
(* What can be reached from each unit by one or more steps of a relation:  *)
(* the smallest set that holds its successors and all of theirs.           *)
Transitive(R(_, _)) ==
  LET next == [u \in DOMAIN dir |-> {v \in DOMAIN dir : R(u, v)}]
      closed == {S \in SUBSET DOMAIN dir : \A u \in S : next[u] \subseteq S}
  IN  [u \in DOMAIN dir |->
        {v \in DOMAIN dir : \A S \in closed : next[u] \subseteq S => v \in S}]
Follows == Transitive(Waits)
Reaches == Transitive(Pulls)
Cyclic == LET follows == Follows IN \E u \in DOMAIN dir : u \in follows[u]

LevelIn(lvls, u) == CHOOSE l \in DOMAIN lvls : u \in ToSet(lvls[l])
Planned == ToSet(FlattenSeq(plan.levels))

(* A directory is refused as cyclic exactly when a unit would have to wait *)
(* for itself, and the path named is a closed walk along real waits: the   *)
(* operator is never sent after a dependency that does not exist.          *)
CycleIsReal ==
  (subject = "plan" /\ ~DuplicateSocket(dir) /\ Dangling(dir) = {}) =>
    /\ (plan.err = "cycle") <=> Cyclic
    /\ plan.err = "cycle" =>
         /\ Len(plan.path) > 1
         /\ plan.path[1] = Last(plan.path)
         /\ IsInjective(Front(plan.path))
         /\ \A i \in 1..(Len(plan.path) - 1) : Waits(plan.path[i], plan.path[i + 1])

(* No unit is in a level at or before one it waits for, dropping the units *)
(* that are not started keeps that, and no unit waits longer than one of   *)
(* its dependencies makes it: boot is as parallel as the order permits.    *)
LevelsAreTight ==
  (subject = "plan" /\ plan.err = "none") =>
    LET all == levels(build(plan.configs))
        planned == Planned
    IN  \A u \in DOMAIN dir :
          /\ \A v \in DOMAIN dir : Waits(u, v) => LevelIn(all, v) < LevelIn(all, u)
          /\ LevelIn(all, u) > 1 =>
               \E v \in DOMAIN dir : Waits(u, v) /\ LevelIn(all, v) = LevelIn(all, u) - 1
          /\ \A v \in planned : Waits(u, v) /\ u \in planned =>
               LevelIn(plan.levels, v) < LevelIn(plan.levels, u)

(* What the boot starts is what the target activates, directly or through  *)
(* others, each unit once: an ordering-only reference starts nothing.      *)
PlanIsClosure ==
  (subject = "plan" /\ plan.err = "none") =>
    /\ Planned = {Target} \cup Reaches[Target]
    /\ IsInjective(FlattenSeq(plan.levels))

(* `rctl start` of a unit brings up what the unit activates, in an order   *)
(* in which no unit comes before one it waits for, and all that a failure  *)
(* would propagate from is among it.                                       *)
StartOrderIsBootOrder ==
  (subject = "plan" /\ plan.err = "none") =>
    LET graph == build(plan.configs)
        reaches == Reaches
        follows == Follows
    IN  \A u \in DOMAIN dir :
          LET order == start_order(graph, u)
          IN  /\ ToSet(order) = reaches[u] \ {u}
              /\ \A i, j \in DOMAIN order : i < j => order[j] \notin follows[order[i]]
              /\ required_closure(plan.configs, u) \subseteq ToSet(order)

(* The plan of a boot is right for every directory: cycles are real,       *)
(* levels are as early as they can be and no earlier, what starts is what  *)
(* the target pulls in, and rctl start orders its units the same way.      *)
PlanIsRight ==
  /\ CycleIsReal
  /\ LevelsAreTight
  /\ PlanIsClosure
  /\ StartOrderIsBootOrder
=============================================================================
