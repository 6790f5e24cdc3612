-------------------------------- MODULE Cgroup --------------------------------
(***************************************************************************)
(* The cgroup of one unit (rinit/src/cgroup.rs over the attribute files of *)
(* rinit-runtime/src/syscall/cgroup.rs and the limits of                   *)
(* rinit-core/src/unit/cgroup.rs), with the parts of the unit manager that *)
(* use it: the spawn, the exit of the main process, the stop and its       *)
(* deadline.  The kernel decides which controllers and attributes there    *)
(* are, which values it refuses, and whom it kills for memory.             *)
(*                                                                         *)
(* The unit has a main process and one that this has forked, which stays   *)
(* in the process group or leaves it, but never the cgroup.                *)
(***************************************************************************)
EXTENDS Naturals, FiniteSets, Sequences, SequencesExt

CONSTANTS
  Kernels,   \* the kernels: v2, offers, provides, refuses, mkdir
  Limits,    \* the sets of limits a unit file may ask for
  Runs,      \* bound on the starts of the unit
  Kills      \* bound on the kills for memory

VARIABLES
  linux,     \* the kernel, chosen once
  tree,      \* the hierarchy: enabled, the controllers passed on at each level
  dir,       \* the unit's directory: there, its limits, its OOM counter
  procs,     \* the processes of the unit
  unit,      \* what the unit manager knows
  facts      \* what happened since the start, and what was said of it
cgroupVars == <<linux, tree, dir, procs, unit, facts>>

(* The limits in the order in which they are written, and the places in it *)
(* of the ones a unit asks for.                                            *)
Attributes == <<"cpu.max", "memory.max", "memory.high">>
ControllerOf(file) == IF file = "cpu.max" THEN "cpu" ELSE "memory"
files(limits) == {i \in DOMAIN Attributes : Attributes[i] \in limits}

ASSUME CgroupAssumption ==
  /\ Limits \subseteq SUBSET ToSet(Attributes)
  /\ Kernels \subseteq [v2 : BOOLEAN, mkdir : BOOLEAN, offers : SUBSET STRING,
                        provides : SUBSET STRING, refuses : SUBSET STRING]

Procs == {"main", "forked"}
NoProc == [state |-> "none", sig |-> "", group |-> FALSE, member |-> FALSE, end |-> ""]
Alive(p) == procs[p].state = "alive"
members == {p \in Procs : Alive(p) /\ procs[p].member}
Signalled(ps, targets, sig) ==
  [p \in Procs |->
    IF p \in targets /\ ps[p].state = "alive" /\ ps[p].sig # "KILL" THEN [ps[p] EXCEPT !.sig = sig] ELSE ps[p]]
InGroup(ps) == {p \in Procs : ps[p].group}
MembersOf(ps) == {p \in Procs : ps[p].state = "alive" /\ ps[p].member}

-------------------------------------------------------------------------------
(* The hierarchy.                                                          *)

NoDir == [there |-> FALSE, limits |-> {}, oom |-> 0]

(* A controller is in a group when it is passed on by the group above.     *)
enable_controllers(available) == available \intersect {"cpu", "memory"}
prepare ==
  /\ unit.state = "boot"
  /\ LET root == enable_controllers(linux.offers)
     IN tree' = [enabled |-> linux.v2, root |-> root, group |-> enable_controllers(root)]
  /\ unit' = [unit EXCEPT !.state = "Inactive"]
  /\ UNCHANGED <<linux, dir, procs, facts>>

write_limit(file) ==
  IF ControllerOf(file) \notin tree.group \/ file \notin linux.provides THEN "skipped"
  ELSE IF file \in linux.refuses THEN "refused" ELSE "applied"

(* The limits are written in order up to the first the kernel refuses; a   *)
(* limit that is not asked for is left as it is.                           *)
setup(limits) ==
  LET asked == files(limits)
      refused == {i \in asked : write_limit(Attributes[i]) = "refused"}
      tried == {i \in asked : \A j \in refused : i < j}
      applied == {Attributes[i] : i \in {i \in tried : write_limit(Attributes[i]) = "applied"}}
      made == IF dir.there THEN dir ELSE [NoDir EXCEPT !.there = TRUE]
      written == [made EXCEPT !.limits = @ \union applied]
  IN IF ~tree.enabled \/ limits = {} \/ ~(linux.mkdir \/ dir.there)
     THEN [result |-> "none", dir |-> dir]
     ELSE IF refused # {} THEN [result |-> "error", dir |-> written]
     ELSE IF applied # {} THEN [result |-> "procs", dir |-> written]
     ELSE [result |-> "none", dir |-> IF members = {} THEN NoDir ELSE written]

(* A directory that still has a process in it is kept.                     *)
cleanup(d, ps) == IF MembersOf(ps) = {} THEN NoDir ELSE d

oom_kills(d) == IF d.there /\ "memory" \in tree.group THEN <<d.oom>> ELSE <<>>

-------------------------------------------------------------------------------
(* The unit manager.                                                       *)

Resting == {"Inactive", "Failed", "Activating"}
OomBaseline_bug(result, d) == IF result = "procs" /\ oom_kills(d) # <<>> THEN <<0>> ELSE <<>>
OomBaseline(result, d) == IF result = "procs" THEN oom_kills(d) ELSE <<>>

(* begin_spawn_unit: the limits are there before the process is, and the   *)
(* process joins before it runs.                                           *)
begin_spawn_unit ==
  /\ unit.state \in Resting /\ unit.pid = "" /\ procs["main"].state = "none" /\ unit.runs < Runs
  /\ LET s == setup(unit.asks)
     IN IF s.result = "error"
        THEN /\ dir' = cleanup(s.dir, procs)
             /\ unit' = [unit EXCEPT !.state = "Failed", !.runs = @ + 1]
             /\ UNCHANGED <<procs, facts>>
        ELSE /\ dir' = s.dir
             /\ procs' = [procs EXCEPT !["main"] =
                            [state |-> "alive", sig |-> "", group |-> TRUE, member |-> s.result = "procs", end |-> ""]]
             /\ unit' = [unit EXCEPT !.state = "Active", !.pid = "main", !.kill_at = FALSE, !.runs = @ + 1,
                                     !.baseline = OomBaseline(s.result, s.dir), !.ran = unit.asks]
             /\ facts' = [facts EXCEPT !.since = 0, !.told = FALSE]
  /\ UNCHANGED <<linux, tree>>

(* A reload gives the unit other limits: the next start is to have them.   *)
reload ==
  /\ unit.state # "boot"
  /\ \E limits \in Limits : limits # unit.asks /\ unit' = [unit EXCEPT !.asks = limits]
  /\ UNCHANGED <<linux, tree, dir, procs, facts>>

(* The main process was reaped.                                            *)
OomReported ==
  /\ procs["main"].end = "KILL" /\ unit.baseline # <<>> /\ oom_kills(dir) # <<>>
  /\ oom_kills(dir)[1] > unit.baseline[1]
on_child_exit ==
  /\ unit.pid = "main" /\ procs["main"].state = "dead"
  /\ LET reaped == [Signalled(procs, InGroup(procs), "KILL") EXCEPT !["main"] = NoProc]
         gone == [unit EXCEPT !.pid = "", !.kill_at = FALSE, !.baseline = <<>>]
     IN /\ procs' = reaped
        /\ facts' = [facts EXCEPT !.told = OomReported, !.oomed = procs["main"].end = "KILL" /\ facts.victim = "main",
                                  !.victim = "", !.judged = facts.since]
        /\ \/ /\ unit.state = "Active" /\ unit.restarts
              /\ unit' = [gone EXCEPT !.state = "Activating"]
              /\ UNCHANGED dir
           \/ /\ unit.state = "Deactivating" \/ ~unit.restarts
              /\ unit' = [gone EXCEPT !.state = IF unit.state = "Deactivating" THEN "Inactive" ELSE "Failed"]
              /\ dir' = cleanup(dir, reaped)
  /\ UNCHANGED <<linux, tree>>

StopLeftovers ==
  /\ unit' = [unit EXCEPT !.state = "Deactivating", !.kill_at = TRUE]
  /\ procs' = Signalled(procs, members, IF unit.impatient THEN "KILL" ELSE "TERM")
  /\ UNCHANGED dir
StopMain ==
  /\ unit' = [unit EXCEPT !.state = "Deactivating", !.kill_at = ~unit.impatient]
  /\ procs' = Signalled(procs, members \union InGroup(procs), IF unit.impatient THEN "KILL" ELSE "TERM")
  /\ UNCHANGED dir
stop_unit ==
  /\ unit.state \in Resting \union {"Active"}
  /\ \/ unit.pid # "" /\ StopMain
     \/ unit.pid = "" /\ dir.there /\ members # {} /\ StopLeftovers
     \/ /\ unit.pid = "" /\ ~(dir.there /\ members # {})
        /\ unit' = [unit EXCEPT !.state = "Inactive", !.kill_at = FALSE]
        /\ dir' = cleanup(dir, procs)
        /\ UNCHANGED procs
  /\ UNCHANGED <<linux, tree, facts>>

due_kills ==
  /\ unit.kill_at
  /\ LET killed == Signalled(procs, members \union (IF unit.pid = "" THEN {} ELSE InGroup(procs)), "KILL")
     IN /\ procs' = killed
        /\ IF unit.pid = "" /\ unit.state = "Deactivating"
           THEN unit' = [unit EXCEPT !.kill_at = FALSE, !.state = "Inactive"] /\ dir' = cleanup(dir, killed)
           ELSE unit' = [unit EXCEPT !.kill_at = FALSE] /\ UNCHANGED dir
  /\ UNCHANGED <<linux, tree, facts>>

-------------------------------------------------------------------------------
(* The kernel and the service.                                             *)

End(p, sig) ==
  procs' = [procs EXCEPT ![p] = IF p = "main" THEN [@ EXCEPT !.state = "dead", !.end = sig, !.sig = ""] ELSE NoProc]

Fork ==
  /\ Alive("main") /\ procs["main"].sig # "KILL" /\ procs["forked"].state = "none"
  /\ \E group \in BOOLEAN :
       procs' = [procs EXCEPT !["forked"] = [procs["main"] EXCEPT !.group = group, !.sig = ""]]
  /\ UNCHANGED <<linux, tree, dir, unit, facts>>
(* A process ends by itself or because it was asked to, and may ignore     *)
(* that; SIGKILL ends it.                                                  *)
Quit ==
  /\ \E p \in Procs : Alive(p) /\ procs[p].sig # "KILL" /\ End(p, procs[p].sig)
  /\ UNCHANGED <<linux, tree, dir, unit, facts>>
Killed(p) ==
  /\ Alive(p) /\ procs[p].sig = "KILL" /\ End(p, "KILL")
  /\ UNCHANGED <<linux, tree, dir, unit, facts>>
(* kill -9 from outside.                                                   *)
Murdered ==
  /\ Alive("main") /\ procs["main"].sig # "KILL" /\ End("main", "KILL")
  /\ UNCHANGED <<linux, tree, dir, unit, facts>>
OomKill ==
  /\ facts.kills < Kills /\ "memory.max" \in dir.limits
  /\ \E p \in members :
       /\ End(p, "KILL")
       /\ facts' = [facts EXCEPT !.kills = @ + 1, !.since = @ + 1,
                                 !.victim = IF p = "main" THEN "main" ELSE @]
  /\ dir' = [dir EXCEPT !.oom = @ + 1]
  /\ UNCHANGED <<linux, tree, unit>>

CgroupInit ==
  /\ linux \in Kernels
  /\ tree = [enabled |-> FALSE, root |-> {}, group |-> {}]
  /\ dir = NoDir
  /\ procs = [p \in Procs |-> NoProc]
  /\ \E asks \in Limits, restarts, impatient \in BOOLEAN :
       unit = [state |-> "boot", pid |-> "", kill_at |-> FALSE, baseline |-> <<>>, runs |-> 0,
               asks |-> asks, ran |-> {}, restarts |-> restarts, impatient |-> impatient]
  /\ facts = [since |-> 0, kills |-> 0, victim |-> "", oomed |-> FALSE, told |-> FALSE, judged |-> 0]

CgroupNext ==
  \/ prepare \/ begin_spawn_unit \/ reload \/ on_child_exit \/ stop_unit \/ due_kills
  \/ Fork \/ Quit \/ (\E p \in Procs : Killed(p)) \/ Murdered \/ OomKill

CgroupSpec == CgroupInit /\ [][CgroupNext]_cgroupVars

-------------------------------------------------------------------------------

(* A unit runs under every limit its file asked for when it was started,   *)
(* unless the kernel has no such limit at all: never with one the kernel   *)
(* has but refused, and never outside its cgroup.                          *)
Enforceable(file) ==
  /\ linux.v2 /\ linux.mkdir
  /\ ControllerOf(file) \in linux.offers /\ file \in linux.provides
LimitsHold ==
  unit.pid = "main" =>
    \A file \in unit.ran : Enforceable(file) =>
      /\ file \in dir.limits /\ file \notin linux.refuses
      /\ Alive("main") => "main" \in members

(* A death is put down to memory when the kernel killed the main process   *)
(* for it, and never when nothing of the unit was killed for memory since  *)
(* it was started, whatever the counter of a directory that was kept says. *)
OomIsTold ==
  /\ facts.oomed /\ unit.pid = "" => facts.told
  /\ facts.told => facts.judged > 0

(* A stop ends: with the exit of the main process or, when only others are *)
(* left in the cgroup, with its deadline; and these do not outlive it.     *)
GroupStopEnds ==
  /\ unit.state = "Deactivating" ~> unit.state # "Deactivating"
  /\ unit.state = "Deactivating" /\ unit.pid = "" ~> ~Alive("forked") \/ unit.pid # ""

(* A unit runs under the limits it asks for or not at all, and a death is  *)
(* put down to memory when it was one (prepare, oom_killed).               *)
GroupIsAccounted ==
  /\ LimitsHold
  /\ OomIsTold
=============================================================================
