------------------------------ MODULE HostProofs ------------------------------
(***************************************************************************)
(* What rinit leaves to the kernel, for every unit, kernel and child: the  *)
(* limits and the accounting of a cgroup, and the verdict on a spawn.      *)
(***************************************************************************)
EXTENDS MCHost, WellFoundedInduction, SequenceTheorems, TLAPS

------------------------------------------------------------------------------
(* The cgroup.  The counter of a kept directory goes on from run to run;   *)
(* what the manager compares it with is what it was when this run began.   *)

Sigs == {"", "TERM", "KILL"}
UnitStates == {"boot", "Inactive", "Activating", "Active", "Deactivating", "Failed"}
ProcRecord == [state : {"none", "alive", "dead"}, sig : Sigs, group : BOOLEAN,
               member : BOOLEAN, end : Sigs]
DirRecord == [there : BOOLEAN, limits : SUBSET ToSet(Attributes), oom : Nat]
UnitRecord == [state : UnitStates, pid : {"", "main"}, kill_at : BOOLEAN, baseline : Seq(Nat),
               runs : Nat, asks : Limits, ran : SUBSET ToSet(Attributes), restarts : BOOLEAN,
               impatient : BOOLEAN]
FactRecord == [since : Nat, kills : Nat, victim : {"", "main"}, oomed : BOOLEAN, told : BOOLEAN,
               judged : Nat]

CgroupTypes ==
  /\ linux \in Kernels
  /\ procs \in [Procs -> ProcRecord]
  /\ dir \in DirRecord
  /\ unit \in UnitRecord
  /\ facts \in FactRecord

(* The hierarchy is set up before the first start, the directory has the   *)
(* limits that were written to it, and a process is its unit's.            *)
Grown ==
  /\ unit.state = "boot" => unit.pid = "" /\ dir = NoDir
  /\ unit.state # "boot" =>
       tree.enabled = linux.v2 /\ tree.group = linux.offers \intersect {"cpu", "memory"}
  /\ \A file \in dir.limits : dir.there /\ ControllerOf(file) \in tree.group
  /\ procs["main"].state # "none" => unit.pid = "main"

(* The baseline is the counter at the start of this run, and what the      *)
(* counter has gained since then are this run's kills.                     *)
Counted ==
  /\ Alive("main") /\ procs["main"].member /\ "memory" \in tree.group => unit.baseline # <<>>
  /\ unit.baseline # <<>> =>
       /\ unit.pid = "main" /\ dir.there /\ "memory" \in tree.group
       /\ dir.oom = unit.baseline[1] + facts.since
  /\ facts.victim = "main" => unit.baseline # <<>> /\ facts.since > 0

CgroupInv == CgroupTypes /\ Grown /\ Counted /\ GroupIsAccounted

(* What write_limit answers. *)
LEMMA WriteLimit ==
  ASSUME NEW file
  PROVE  /\ write_limit(file) = "applied" => ControllerOf(file) \in tree.group
         /\ write_limit(file) # "refused" /\ ControllerOf(file) \in tree.group
              /\ file \in linux.provides
            => write_limit(file) = "applied" /\ file \notin linux.refuses
BY DEF write_limit

(* What setup does to the directory: it leaves it, removes it, or writes   *)
(* limits whose controller the group has, all that can be enforced when it *)
(* hands out a cgroup.                                                     *)
LEMMA SetupLimits ==
  ASSUME CgroupTypes, Grown, unit.state # "boot", NEW s, s = setup(unit.asks)
  PROVE  /\ s.dir \in DirRecord
         /\ \A file \in s.dir.limits : s.dir.there /\ ControllerOf(file) \in tree.group
         /\ s.result = "procs" => s.dir.there
         /\ s.result # "error" =>
              \A file \in unit.asks : Enforceable(file) =>
                file \in s.dir.limits /\ file \notin linux.refuses /\ s.result = "procs"
<1> DEFINE asked == files(unit.asks)
           refused == {i \in asked : write_limit(Attributes[i]) = "refused"}
           tried == {i \in asked : \A j \in refused : i < j}
           applied == {Attributes[i] : i \in {i \in tried : write_limit(Attributes[i]) = "applied"}}
           made == IF dir.there THEN dir ELSE [NoDir EXCEPT !.there = TRUE]
           written == [made EXCEPT !.limits = @ \union applied]
           idle == ~tree.enabled \/ unit.asks = {} \/ ~(linux.mkdir \/ dir.there)
<1>1. /\ idle => s = [result |-> "none", dir |-> dir]
      /\ ~idle /\ refused # {} => s = [result |-> "error", dir |-> written]
      /\ ~idle /\ refused = {} /\ applied # {} => s = [result |-> "procs", dir |-> written]
      /\ ~idle /\ refused = {} /\ applied = {} =>
           s = [result |-> "none", dir |-> IF members = {} THEN NoDir ELSE written]
  BY DEF setup
<1>3. /\ applied \subseteq ToSet(Attributes)
      /\ \A file \in applied : ControllerOf(file) \in tree.group
  <2>1. asked \subseteq DOMAIN Attributes
    BY DEF files
  <2>2. QED
    BY <2>1, WriteLimit DEF ToSet
<1>4. /\ dir \in DirRecord /\ unit.asks \subseteq ToSet(Attributes)
      /\ \A file \in dir.limits : dir.there /\ ControllerOf(file) \in tree.group
      /\ tree.enabled = linux.v2 /\ tree.group = linux.offers \intersect {"cpu", "memory"}
  BY CgroupAssumption DEF CgroupTypes, UnitRecord, UnitStates, Grown
<1>5. \A file \in unit.asks : \E i \in asked : file = Attributes[i]
  BY <1>4 DEF files, ToSet
<1> HIDE DEF asked, applied
<1>6. NoDir \in DirRecord /\ NoDir.limits = {}
  BY DEF NoDir, DirRecord
<1>7. /\ made \in DirRecord /\ made.there
      /\ \A file \in made.limits : ControllerOf(file) \in tree.group
  BY <1>4, <1>6 DEF DirRecord, NoDir
<1> HIDE DEF made
<1>8. /\ written \in DirRecord /\ written.there
      /\ \A file \in written.limits : ControllerOf(file) \in tree.group
      /\ applied \subseteq written.limits
  BY <1>3, <1>7 DEF DirRecord
<1> HIDE DEF written
<1>9. ASSUME NEW file \in unit.asks, Enforceable(file), s.result # "error"
      PROVE  file \in s.dir.limits /\ file \notin linux.refuses /\ s.result = "procs"
  <2>1. ~idle /\ ControllerOf(file) \in tree.group /\ file \in linux.provides
    BY <1>4, <1>9 DEF Enforceable, ControllerOf
  <2>2. refused = {}
    BY <1>1, <1>9, <2>1
  <2>3. PICK i \in asked : file = Attributes[i]
    BY <1>5
  <2>4. write_limit(file) # "refused"
    BY <2>2, <2>3
  <2>5. write_limit(file) = "applied" /\ file \notin linux.refuses
    BY <2>1, <2>4, WriteLimit
  <2>6. file \in applied
    BY <2>2, <2>3, <2>5 DEF applied
  <2>7. s = [result |-> "procs", dir |-> written]
    BY <1>1, <2>1, <2>2, <2>6
  <2>8. QED
    BY <1>8, <2>5, <2>6, <2>7
<1> HIDE DEF idle, refused
<1>10. \/ s = [result |-> "none", dir |-> dir]
       \/ s = [result |-> "error", dir |-> written]
       \/ s = [result |-> "procs", dir |-> written]
       \/ s = [result |-> "none", dir |-> NoDir]
       \/ s = [result |-> "none", dir |-> written]
  BY <1>1
<1>11. QED
  BY <1>4, <1>6, <1>8, <1>9, <1>10

(* What a signal leaves of a process. *)
LEMMA SignalledOnly ==
  ASSUME procs \in [Procs -> ProcRecord], NEW targets, NEW sig \in Sigs
  PROVE  /\ Signalled(procs, targets, sig) \in [Procs -> ProcRecord]
         /\ \A p \in Procs :
              /\ Signalled(procs, targets, sig)[p].state = procs[p].state
              /\ Signalled(procs, targets, sig)[p].member = procs[p].member
BY DEF Signalled, ProcRecord, Sigs

(* What the end of a process leaves: of the main one a zombie.             *)
LEMMA Ended ==
  ASSUME procs \in [Procs -> ProcRecord], NEW p \in Procs, NEW sig \in Sigs,
         Alive(p), End(p, sig)
  PROVE  /\ procs' \in [Procs -> ProcRecord]
         /\ procs'["main"].state # "none" => procs["main"].state # "none"
         /\ Alive("main")' => Alive("main") /\ procs'["main"].member = procs["main"].member
<1> DEFINE over == [procs["main"] EXCEPT !.state = "dead", !.end = sig, !.sig = ""]
<1>1. procs["main"] \in ProcRecord /\ "main" \in Procs
  BY DEF Procs
<1>2. over \in ProcRecord /\ over.state = "dead"
  BY <1>1 DEF ProcRecord, Sigs
<1>3. NoProc \in ProcRecord
  BY DEF NoProc, ProcRecord, Sigs
<1>4. CASE p = "main"
  <2>1. procs' = [procs EXCEPT !["main"] = over]
    BY <1>4 DEF End
  <2> HIDE DEF over
  <2>2. QED
    BY <1>1, <1>2, <1>4, <2>1 DEF Alive
<1>5. CASE p # "main"
  <2>1. procs' = [procs EXCEPT ![p] = NoProc]
    BY <1>5 DEF End
  <2>2. QED
    BY <1>1, <1>3, <1>5, <2>1 DEF Alive
<1>6. QED
  BY <1>4, <1>5

(* A step that leaves the unit, the directory and the accounts alone, and  *)
(* brings no main process up.                                              *)
LEMMA ProcessStep ==
  ASSUME CgroupInv, UNCHANGED <<linux, tree, dir, unit, facts>>,
         procs' \in [Procs -> ProcRecord],
         procs'["main"].state # "none" => procs["main"].state # "none",
         Alive("main")' => Alive("main") /\ procs'["main"].member = procs["main"].member
  PROVE  CgroupInv'
<1>1. CgroupTypes'
  BY DEF CgroupInv, CgroupTypes
<1>2. Grown' /\ Counted'
  BY DEF CgroupInv, Grown, Counted, Alive
<1>3. LimitsHold'
  <2>1. "main" \in Procs
    BY DEF Procs
  <2>2. QED
    BY <2>1 DEF CgroupInv, GroupIsAccounted, LimitsHold, Enforceable, members, Alive
<1>4. OomIsTold'
  BY DEF CgroupInv, GroupIsAccounted, OomIsTold
<1>5. QED
  BY <1>1, <1>2, <1>3, <1>4 DEF CgroupInv, GroupIsAccounted

(* The unit has no directory and no process yet. *)
LEMMA CgroupInitInv == CgroupInit => CgroupInv
<1> SUFFICES ASSUME CgroupInit PROVE CgroupInv
  OBVIOUS
<1>1. PICK asks \in Limits, restarts \in BOOLEAN, impatient \in BOOLEAN :
        unit = [state |-> "boot", pid |-> "", kill_at |-> FALSE, baseline |-> <<>>, runs |-> 0,
                asks |-> asks, ran |-> {}, restarts |-> restarts, impatient |-> impatient]
  BY DEF CgroupInit
<1>2. unit.state = "boot" /\ unit.pid = "" /\ unit.baseline = <<>>
  BY <1>1
<1>3. unit \in UnitRecord
  <2>1. <<>> \in Seq(Nat) /\ {} \in SUBSET ToSet(Attributes) /\ FALSE \in BOOLEAN
    OBVIOUS
  <2>2. QED
    BY <1>1, <2>1 DEF UnitRecord, UnitStates
<1>4. NoProc \in ProcRecord /\ NoProc.state = "none"
  BY DEF NoProc, ProcRecord, Sigs
<1>5. procs \in [Procs -> ProcRecord] /\ procs["main"].state = "none"
  BY <1>4 DEF CgroupInit, Procs
<1>6. dir \in DirRecord /\ dir = NoDir /\ dir.limits = {}
  BY DEF CgroupInit, NoDir, DirRecord
<1>7. facts \in FactRecord /\ ~facts.oomed /\ ~facts.told /\ facts.victim = ""
  BY DEF CgroupInit, FactRecord
<1>8. CgroupTypes
  BY <1>3, <1>5, <1>6, <1>7 DEF CgroupInit, CgroupTypes
<1>9. Grown /\ Counted
  BY <1>2, <1>5, <1>6, <1>7 DEF Grown, Counted, Alive
<1>10. LimitsHold /\ OomIsTold
  BY <1>2, <1>7 DEF LimitsHold, OomIsTold
<1>11. QED
  BY <1>8, <1>9, <1>10 DEF CgroupInv, GroupIsAccounted

(* A start finds the limits written before the process is there, and takes *)
(* the counter of the directory as it then is.                             *)
LEMMA SpawnStep ==
  ASSUME CgroupInv, begin_spawn_unit
  PROVE  CgroupInv'
<1>1. /\ CgroupTypes /\ Grown /\ Counted /\ LimitsHold /\ OomIsTold
      /\ unit.state # "boot" /\ unit.pid = "" /\ procs["main"].state = "none"
      /\ "main" \in Procs /\ UNCHANGED <<linux, tree>>
  BY DEF CgroupInv, GroupIsAccounted, begin_spawn_unit, Resting, Procs
<1> DEFINE s == setup(unit.asks)
<1>2. /\ s.dir \in DirRecord
      /\ \A file \in s.dir.limits : s.dir.there /\ ControllerOf(file) \in tree.group
      /\ s.result = "procs" => s.dir.there
      /\ s.result # "error" =>
           \A file \in unit.asks : Enforceable(file) =>
             file \in s.dir.limits /\ file \notin linux.refuses /\ s.result = "procs"
  BY <1>1, SetupLimits
<1>3. NoDir \in DirRecord /\ NoDir.limits = {}
  BY DEF NoDir, DirRecord
<1>4. unit.baseline = <<>> /\ facts.victim # "main"
  BY <1>1 DEF Counted
<1>5. CASE s.result = "error"
  <2>1. /\ dir' = cleanup(s.dir, procs)
        /\ unit' = [unit EXCEPT !.state = "Failed", !.runs = @ + 1]
        /\ UNCHANGED <<procs, facts>>
    BY <1>5 DEF begin_spawn_unit
  <2> HIDE DEF s
  <2>2. dir' \in DirRecord /\ \A file \in dir'.limits : dir'.there /\ ControllerOf(file) \in tree.group
    BY <1>2, <1>3, <2>1 DEF cleanup
  <2>3. CgroupTypes' /\ unit'.pid = "" /\ unit'.state = "Failed" /\ unit'.baseline = <<>>
    <3>1. unit \in UnitRecord
      BY <1>1 DEF CgroupTypes
    <3> DEFINE r == unit.runs + 1
    <3>2. unit' \in UnitRecord
      <4>1. unit.runs \in Nat
        BY <3>1 DEF UnitRecord
      <4>2. r \in Nat
        BY <4>1
      <4>3. unit' = [unit EXCEPT !.state = "Failed", !.runs = r]
        BY <2>1
      <4> HIDE DEF r
      <4>4. QED
        BY <3>1, <4>2, <4>3 DEF UnitRecord, UnitStates
    <3>3. unit'.pid = "" /\ unit'.state = "Failed" /\ unit'.baseline = <<>>
      BY <1>1, <1>4, <2>1, <3>1 DEF UnitRecord, UnitStates
    <3>4. QED
      BY <1>1, <2>1, <2>2, <3>2, <3>3 DEF CgroupTypes
  <2>4. Grown'
    BY <1>1, <2>1, <2>2, <2>3 DEF Grown
  <2>5. Counted'
    BY <1>1, <1>4, <2>1, <2>3 DEF Counted, Alive
  <2>6. LimitsHold' /\ OomIsTold'
    BY <1>1, <2>1, <2>3 DEF LimitsHold, OomIsTold
  <2>7. QED
    BY <2>3, <2>4, <2>5, <2>6 DEF CgroupInv, GroupIsAccounted
<1>6. CASE s.result # "error"
  <2> DEFINE joins == s.result = "procs"
             born == [state |-> "alive", sig |-> "", group |-> TRUE, member |-> joins, end |-> ""]
  <2>1. /\ dir' = s.dir
        /\ procs' = [procs EXCEPT !["main"] = born]
        /\ unit' = [unit EXCEPT !.state = "Active", !.pid = "main", !.kill_at = FALSE, !.runs = @ + 1,
                                !.baseline = OomBaseline(s.result, s.dir), !.ran = unit.asks]
        /\ facts' = [facts EXCEPT !.since = 0, !.told = FALSE]
    BY <1>6 DEF begin_spawn_unit
  <2> HIDE DEF s
  <2>2. born \in ProcRecord /\ procs' \in [Procs -> ProcRecord] /\ procs'["main"] = born
    <3>1. joins \in BOOLEAN
      OBVIOUS
    <3> HIDE DEF joins
    <3>2. born \in ProcRecord
      BY <3>1 DEF ProcRecord, Sigs
    <3> HIDE DEF born
    <3>3. QED
      BY <1>1, <2>1, <3>2 DEF CgroupTypes
  <2>3. /\ OomBaseline(s.result, s.dir) \in Seq(Nat)
        /\ OomBaseline(s.result, s.dir) # <<>> =>
             /\ s.dir.there /\ "memory" \in tree.group
             /\ s.dir.oom = OomBaseline(s.result, s.dir)[1]
        /\ s.result = "procs" /\ "memory" \in tree.group => OomBaseline(s.result, s.dir) # <<>>
    BY <1>2 DEF OomBaseline, oom_kills, DirRecord
  <2> HIDE DEF joins
  <2>4. /\ unit' \in UnitRecord /\ unit'.pid = "main" /\ unit'.state = "Active"
        /\ unit'.baseline = OomBaseline(s.result, s.dir) /\ unit'.ran = unit.asks
    <3> HIDE DEF born
    <3>1. unit \in UnitRecord
      BY <1>1 DEF CgroupTypes
    <3>2. unit.asks \subseteq ToSet(Attributes)
      BY <3>1, CgroupAssumption DEF UnitRecord
    <3> DEFINE r == unit.runs + 1
               b == OomBaseline(s.result, s.dir)
    <3>3. unit.runs \in Nat
      BY <3>1 DEF UnitRecord
    <3>4. r \in Nat /\ b \in Seq(Nat)
      BY <2>3, <3>3
    <3>5. unit' = [unit EXCEPT !.state = "Active", !.pid = "main", !.kill_at = FALSE, !.runs = r,
                               !.baseline = b, !.ran = unit.asks]
      BY <2>1
    <3> HIDE DEF r, b
    <3>6. unit' \in UnitRecord
      BY <3>1, <3>2, <3>4, <3>5 DEF UnitRecord, UnitStates
    <3>7. QED
      BY <3>1, <3>5, <3>6 DEF UnitRecord, b
  <2>5. /\ facts' \in FactRecord /\ facts'.since = 0 /\ ~facts'.told
        /\ facts'.victim = facts.victim
    BY <1>1, <2>1 DEF CgroupTypes, FactRecord
  <2>6. CgroupTypes'
    BY <1>1, <1>2, <2>1, <2>2, <2>4, <2>5 DEF CgroupTypes
  <2>7. Grown'
    BY <1>1, <1>2, <2>1, <2>4 DEF Grown
  <2>8. Counted'
    <3>1. born.member = joins /\ procs'["main"] = born
      BY <2>2, Zenon
    <3> HIDE DEF born
    <3>2. procs'["main"].member = joins
      BY <3>1
    <3>3. dir'.oom \in Nat /\ dir'.oom + 0 = dir'.oom
      BY <1>2, <2>1 DEF DirRecord
    <3>4. dir'.oom = unit'.baseline[1] + facts'.since \/ unit'.baseline = <<>>
      BY <2>1, <2>3, <2>4, <2>5, <3>3
    <3>5. QED
      BY <1>1, <1>4, <2>1, <2>3, <2>4, <2>5, <3>2, <3>4 DEF Counted, Alive, joins
  <2>9. LimitsHold'
    BY <1>1, <1>2, <1>6, <2>1, <2>2, <2>4 DEF LimitsHold, Enforceable, members, Alive, joins
  <2>10. OomIsTold'
    BY <2>4, <2>5 DEF OomIsTold
  <2>11. QED
    BY <2>6, <2>7, <2>8, <2>9, <2>10 DEF CgroupInv, GroupIsAccounted
<1>7. QED
  BY <1>5, <1>6

(* The exit of the main process is judged by the counter it was started    *)
(* with; what this run's kills were is then settled.                       *)
LEMMA ExitStep ==
  ASSUME CgroupInv, on_child_exit
  PROVE  CgroupInv'
<1>1. /\ CgroupTypes /\ Grown /\ Counted
      /\ unit.pid = "main" /\ unit.state # "boot" /\ "main" \in Procs /\ UNCHANGED <<linux, tree>>
  BY DEF CgroupInv, on_child_exit, Procs, Grown
<1> DEFINE hit == Signalled(procs, InGroup(procs), "KILL")
           reaped == [hit EXCEPT !["main"] = NoProc]
           gone == [unit EXCEPT !.pid = "", !.kill_at = FALSE, !.baseline = <<>>]
           blamed == procs["main"].end = "KILL" /\ facts.victim = "main"
<1>2. /\ procs' = reaped
      /\ facts' = [facts EXCEPT !.told = OomReported, !.oomed = blamed,
                                !.victim = "", !.judged = facts.since]
  BY DEF on_child_exit
<1>3. \/ unit' = [gone EXCEPT !.state = "Activating"] /\ UNCHANGED dir
      \/ /\ unit' = [gone EXCEPT !.state = IF unit.state = "Deactivating" THEN "Inactive" ELSE "Failed"]
         /\ dir' = cleanup(dir, reaped)
  BY DEF on_child_exit
<1>4. reaped \in [Procs -> ProcRecord] /\ reaped["main"].state = "none"
  <2>1. hit \in [Procs -> ProcRecord]
    BY <1>1, SignalledOnly DEF CgroupTypes, Sigs
  <2>2. NoProc \in ProcRecord /\ NoProc.state = "none"
    BY DEF NoProc, ProcRecord, Sigs
  <2> HIDE DEF hit
  <2>3. QED
    BY <1>1, <2>1, <2>2
<1> HIDE DEF reaped
<1>5. OomReported \in BOOLEAN /\ blamed \in BOOLEAN
  BY DEF OomReported
<1>6. facts.since \in Nat /\ facts \in FactRecord /\ unit \in UnitRecord /\ dir \in DirRecord
  BY <1>1 DEF CgroupTypes, FactRecord
<1>7. blamed => OomReported
  <2> SUFFICES ASSUME blamed PROVE OomReported
    OBVIOUS
  <2>1. /\ unit.baseline # <<>> /\ facts.since > 0 /\ dir.there /\ "memory" \in tree.group
        /\ dir.oom = unit.baseline[1] + facts.since
    BY <1>1 DEF Counted
  <2>2. oom_kills(dir) = <<dir.oom>>
    BY <2>1 DEF oom_kills
  <2>3. dir.oom \in Nat /\ unit.baseline[1] \in Nat
    <3>1. unit.baseline \in Seq(Nat) /\ dir.oom \in Nat
      BY <1>6 DEF UnitRecord, DirRecord
    <3>2. QED
      BY <2>1, <3>1
  <2>4. dir.oom > unit.baseline[1]
    BY <1>6, <2>1, <2>3
  <2>5. QED
    BY <2>1, <2>2, <2>4 DEF OomReported
<1>8. OomReported => facts.since > 0
  <2> SUFFICES ASSUME OomReported PROVE facts.since > 0
    OBVIOUS
  <2>1. /\ unit.baseline # <<>> /\ oom_kills(dir) # <<>> /\ oom_kills(dir)[1] > unit.baseline[1]
    BY DEF OomReported
  <2>2. oom_kills(dir) = <<dir.oom>> /\ dir.oom = unit.baseline[1] + facts.since
    BY <1>1, <2>1 DEF oom_kills, Counted
  <2>3. unit.baseline[1] \in Nat
    <3>1. unit.baseline \in Seq(Nat)
      BY <1>6 DEF UnitRecord
    <3>2. QED
      BY <2>1, <3>1
  <2>4. QED
    BY <1>6, <2>1, <2>2, <2>3
<1> DEFINE told == OomReported
<1>9. /\ facts' \in FactRecord /\ facts'.victim = "" /\ facts'.judged = facts.since
      /\ facts'.told = told /\ facts'.oomed = blamed
  <2>1. told \in BOOLEAN /\ blamed \in BOOLEAN
    BY <1>5
  <2>2. facts' = [facts EXCEPT !.told = told, !.oomed = blamed, !.victim = "", !.judged = facts.since]
    BY <1>2
  <2> HIDE DEF told, blamed
  <2>3. QED
    BY <1>6, <2>1, <2>2 DEF FactRecord
<1>10. /\ gone \in UnitRecord /\ gone.pid = "" /\ gone.baseline = <<>>
  <2>1. <<>> \in Seq(Nat)
    OBVIOUS
  <2>2. QED
    BY <1>6, <2>1 DEF UnitRecord
<1> HIDE DEF gone
<1>11. unit' \in UnitRecord /\ unit'.pid = "" /\ unit'.baseline = <<>> /\ unit'.state # "boot"
  BY <1>3, <1>10 DEF UnitRecord, UnitStates
<1>12. dir' = dir \/ dir' = NoDir
  BY <1>3 DEF cleanup
<1>13. NoDir \in DirRecord /\ NoDir.limits = {}
  BY DEF NoDir, DirRecord
<1>14. CgroupTypes'
  BY <1>1, <1>2, <1>4, <1>6, <1>9, <1>11, <1>12, <1>13 DEF CgroupTypes
<1>15. Grown'
  BY <1>1, <1>2, <1>4, <1>11, <1>12, <1>13 DEF Grown
<1>16. Counted'
  BY <1>2, <1>4, <1>9, <1>11 DEF Counted, Alive
<1>17. LimitsHold'
  BY <1>11 DEF LimitsHold
<1>18. OomIsTold'
  BY <1>7, <1>8, <1>9 DEF OomIsTold
<1>19. QED
  BY <1>14, <1>15, <1>16, <1>17, <1>18 DEF CgroupInv, GroupIsAccounted

(* A step of the manager that signals and sets its deadline, and removes   *)
(* the directory only when no main process is on record.                   *)
LEMMA ManagerStep ==
  ASSUME CgroupInv, UNCHANGED <<linux, tree, facts>>,
         NEW targets, NEW sig \in Sigs,
         procs' = procs \/ procs' = Signalled(procs, targets, sig),
         unit' \in UnitRecord, unit'.pid = unit.pid, unit'.baseline = unit.baseline,
         unit'.ran = unit.ran, unit'.state = "boot" <=> unit.state = "boot",
         dir' = dir \/ (unit.pid = "" /\ dir' = NoDir)
  PROVE  CgroupInv'
<1>1. /\ CgroupTypes /\ Grown /\ Counted /\ LimitsHold /\ OomIsTold /\ "main" \in Procs
  BY DEF CgroupInv, GroupIsAccounted, Procs
<1>2. /\ procs' \in [Procs -> ProcRecord]
      /\ \A p \in Procs : procs'[p].state = procs[p].state /\ procs'[p].member = procs[p].member
  <2>1. procs \in [Procs -> ProcRecord]
    BY <1>1 DEF CgroupTypes
  <2>2. CASE procs' = procs
    BY <2>1, <2>2
  <2>3. CASE procs' = Signalled(procs, targets, sig)
    BY <2>1, <2>3, SignalledOnly
  <2>4. QED
    BY <2>2, <2>3
<1>3. NoDir \in DirRecord /\ NoDir.limits = {}
  BY DEF NoDir, DirRecord
<1>4. CgroupTypes'
  BY <1>1, <1>2, <1>3 DEF CgroupTypes
<1>5. Grown'
  BY <1>1, <1>2, <1>3 DEF Grown
<1>6. unit.baseline # <<>> => dir' = dir
  BY <1>1 DEF Counted
<1>7. Counted'
  BY <1>1, <1>2, <1>6 DEF Counted, Alive
<1>8. LimitsHold'
  <2>1. unit.pid = "main" => dir' = dir
    OBVIOUS
  <2>2. QED
    BY <1>1, <1>2, <2>1 DEF LimitsHold, Enforceable, members, Alive
<1>9. OomIsTold'
  BY <1>1 DEF OomIsTold
<1>10. QED
  BY <1>4, <1>5, <1>7, <1>8, <1>9 DEF CgroupInv, GroupIsAccounted

(* A stop signals the members and starts nothing. *)
LEMMA StopStep ==
  ASSUME CgroupInv, stop_unit \/ due_kills
  PROVE  CgroupInv'
<1>1. unit \in UnitRecord /\ unit.impatient \in BOOLEAN /\ "KILL" \in Sigs /\ "TERM" \in Sigs
  BY DEF CgroupInv, CgroupTypes, UnitRecord, Sigs
<1>2. UNCHANGED <<linux, tree, facts>>
  BY DEF stop_unit, due_kills
<1> DEFINE asked == IF unit.impatient THEN "KILL" ELSE "TERM"
           patient == ~unit.impatient
<1>3. asked \in Sigs /\ patient \in BOOLEAN
  BY DEF Sigs
<1>4. stop_unit => unit.state # "boot"
  BY DEF stop_unit, Resting
<1>5. due_kills /\ unit.state = "Deactivating" => unit.state # "boot"
  OBVIOUS
<1>6. CASE stop_unit /\ StopMain
  <2>1. /\ unit' = [unit EXCEPT !.state = "Deactivating", !.kill_at = patient]
        /\ procs' = Signalled(procs, members \union InGroup(procs), asked)
        /\ UNCHANGED dir
    BY <1>6 DEF StopMain
  <2> HIDE DEF asked, patient
  <2>2. /\ unit' \in UnitRecord /\ unit'.pid = unit.pid /\ unit'.baseline = unit.baseline
        /\ unit'.ran = unit.ran /\ unit'.state # "boot"
    BY <1>1, <1>3, <2>1 DEF UnitRecord, UnitStates
  <2>3. QED
    BY <1>2, <1>3, <1>4, <1>6, <2>1, <2>2, ManagerStep
<1>7. CASE stop_unit /\ StopLeftovers
  <2>1. /\ unit' = [unit EXCEPT !.state = "Deactivating", !.kill_at = TRUE]
        /\ procs' = Signalled(procs, members, asked)
        /\ UNCHANGED dir
    BY <1>7 DEF StopLeftovers
  <2> HIDE DEF asked, patient
  <2>2. /\ unit' \in UnitRecord /\ unit'.pid = unit.pid /\ unit'.baseline = unit.baseline
        /\ unit'.ran = unit.ran /\ unit'.state # "boot"
    BY <1>1, <2>1 DEF UnitRecord, UnitStates
  <2>3. QED
    BY <1>2, <1>3, <1>4, <1>7, <2>1, <2>2, ManagerStep
<1>8. CASE /\ stop_unit /\ unit.pid = ""
           /\ unit' = [unit EXCEPT !.state = "Inactive", !.kill_at = FALSE]
           /\ dir' = cleanup(dir, procs) /\ UNCHANGED procs
  <2>1. /\ unit' \in UnitRecord /\ unit'.pid = unit.pid /\ unit'.baseline = unit.baseline
        /\ unit'.ran = unit.ran /\ unit'.state # "boot"
    BY <1>1, <1>8 DEF UnitRecord, UnitStates
  <2>2. dir' = dir \/ dir' = NoDir
    BY <1>8 DEF cleanup
  <2>3. QED
    BY <1>1, <1>2, <1>4, <1>8, <2>1, <2>2, ManagerStep
<1>9. CASE due_kills
  <2> DEFINE targets == members \union (IF unit.pid = "" THEN {} ELSE InGroup(procs))
             killed == Signalled(procs, targets, "KILL")
  <2>1. /\ procs' = killed
        /\ \/ /\ unit.pid = "" /\ unit.state = "Deactivating"
              /\ unit' = [unit EXCEPT !.kill_at = FALSE, !.state = "Inactive"]
              /\ dir' = cleanup(dir, killed)
           \/ unit' = [unit EXCEPT !.kill_at = FALSE] /\ UNCHANGED dir
    BY <1>9 DEF due_kills
  <2> HIDE DEF targets
  <2>2. /\ unit' \in UnitRecord /\ unit'.pid = unit.pid /\ unit'.baseline = unit.baseline
        /\ unit'.ran = unit.ran /\ (unit'.state = "boot" <=> unit.state = "boot")
    <3>1. CASE /\ unit.state = "Deactivating"
               /\ unit' = [unit EXCEPT !.kill_at = FALSE, !.state = "Inactive"]
      BY <1>1, <3>1 DEF UnitRecord, UnitStates
    <3>2. CASE unit' = [unit EXCEPT !.kill_at = FALSE]
      BY <1>1, <3>2 DEF UnitRecord, UnitStates
    <3>3. QED
      BY <2>1, <3>1, <3>2
  <2>3. dir' = dir \/ (unit.pid = "" /\ dir' = NoDir)
    BY <2>1 DEF cleanup
  <2>4. QED
    BY <1>1, <1>2, <2>1, <2>2, <2>3, ManagerStep
<1>10. QED
  BY <1>6, <1>7, <1>8, <1>9 DEF stop_unit

(* Every step of the manager, the kernel and the service. *)
LEMMA CgroupNextInv == CgroupInv /\ [CgroupNext]_cgroupVars => CgroupInv'
<1> SUFFICES ASSUME CgroupInv, [CgroupNext]_cgroupVars PROVE CgroupInv'
  OBVIOUS
<1>1. /\ CgroupTypes /\ Grown /\ Counted /\ LimitsHold /\ OomIsTold
      /\ "main" \in Procs /\ "forked" \in Procs
      /\ procs \in [Procs -> ProcRecord] /\ unit \in UnitRecord
      /\ dir \in DirRecord /\ facts \in FactRecord
  BY DEF CgroupInv, GroupIsAccounted, Procs, CgroupTypes
<1>2. CASE prepare
  <2>1. /\ unit.state = "boot" /\ unit.pid = "" /\ dir = NoDir
        /\ tree'.enabled = linux.v2
        /\ tree'.group = enable_controllers(enable_controllers(linux.offers))
        /\ unit' = [unit EXCEPT !.state = "Inactive"]
        /\ UNCHANGED <<linux, dir, procs, facts>>
    BY <1>1, <1>2 DEF prepare, Grown
  <2>2. tree'.group = linux.offers \intersect {"cpu", "memory"}
    BY <2>1 DEF enable_controllers
  <2>3. /\ unit' \in UnitRecord /\ unit'.pid = "" /\ unit'.state = "Inactive"
        /\ unit'.baseline = unit.baseline
    BY <1>1, <2>1 DEF UnitRecord, UnitStates
  <2>4. unit.baseline = <<>> /\ facts.victim # "main" /\ dir.limits = {}
    BY <1>1, <2>1 DEF Counted, NoDir
  <2>5. CgroupTypes' /\ Grown'
    BY <1>1, <2>1, <2>2, <2>3, <2>4 DEF CgroupTypes, Grown
  <2>6. Counted'
    BY <1>1, <2>1, <2>3, <2>4 DEF Counted, Grown, Alive
  <2>7. LimitsHold' /\ OomIsTold'
    BY <1>1, <2>1, <2>3 DEF LimitsHold, OomIsTold
  <2>8. QED
    BY <2>5, <2>6, <2>7 DEF CgroupInv, GroupIsAccounted
<1>3. CASE begin_spawn_unit
  BY <1>3, SpawnStep
<1>4. CASE reload
  <2>1. PICK limits \in Limits : unit' = [unit EXCEPT !.asks = limits]
    BY <1>4 DEF reload
  <2>2. /\ unit' \in UnitRecord /\ unit'.pid = unit.pid /\ unit'.baseline = unit.baseline
        /\ unit'.ran = unit.ran /\ unit'.state = unit.state
    BY <1>1, <2>1 DEF UnitRecord
  <2>3. "KILL" \in Sigs /\ UNCHANGED <<linux, tree, dir, procs, facts>>
    BY <1>4 DEF reload, Sigs
  <2>4. QED
    BY <2>2, <2>3, ManagerStep
<1>5. CASE on_child_exit
  BY <1>5, ExitStep
<1>6. CASE stop_unit \/ due_kills
  BY <1>6, StopStep
<1>7. CASE Fork
  <2>1. PICK group \in BOOLEAN :
          procs' = [procs EXCEPT !["forked"] = [procs["main"] EXCEPT !.group = group, !.sig = ""]]
    BY <1>7 DEF Fork
  <2> DEFINE twin == [procs["main"] EXCEPT !.group = group, !.sig = ""]
  <2>2. twin \in ProcRecord
    BY <1>1 DEF ProcRecord, Sigs
  <2> HIDE DEF twin
  <2>3. procs' \in [Procs -> ProcRecord] /\ procs'["main"] = procs["main"]
    BY <1>1, <2>1, <2>2 DEF twin
  <2>4. QED
    BY <1>7, <2>3, ProcessStep DEF Fork, Alive
<1>8. CASE Quit \/ (\E p \in Procs : Killed(p)) \/ Murdered
  <2>1. PICK p \in Procs, sig \in Sigs : Alive(p) /\ End(p, sig)
    <3>1. \A p \in Procs : procs[p].sig \in Sigs
      BY <1>1 DEF ProcRecord
    <3>2. "KILL" \in Sigs
      BY DEF Sigs
    <3>3. QED
      BY <1>1, <1>8, <3>1, <3>2 DEF Quit, Killed, Murdered
  <2>2. /\ procs' \in [Procs -> ProcRecord]
        /\ procs'["main"].state # "none" => procs["main"].state # "none"
        /\ Alive("main")' => Alive("main") /\ procs'["main"].member = procs["main"].member
    BY <1>1, <2>1, Ended
  <2>3. UNCHANGED <<linux, tree, dir, unit, facts>>
    BY <1>8 DEF Quit, Killed, Murdered
  <2>4. QED
    BY <2>2, <2>3, ProcessStep
<1>9. CASE OomKill
  <2>1. PICK p \in members :
          /\ End(p, "KILL")
          /\ facts' = [facts EXCEPT !.kills = @ + 1, !.since = @ + 1,
                                    !.victim = IF p = "main" THEN "main" ELSE @]
    BY <1>9 DEF OomKill
  <2>2. /\ "memory.max" \in dir.limits /\ dir' = [dir EXCEPT !.oom = @ + 1]
        /\ UNCHANGED <<linux, tree, unit>>
    BY <1>9 DEF OomKill
  <2>3. p \in Procs /\ Alive(p) /\ procs[p].member /\ "KILL" \in Sigs
    BY DEF members, Sigs
  <2>4. /\ procs' \in [Procs -> ProcRecord]
        /\ procs'["main"].state # "none" => procs["main"].state # "none"
        /\ Alive("main")' => Alive("main") /\ procs'["main"].member = procs["main"].member
    BY <1>1, <2>1, <2>3, Ended
  <2>5. dir.there /\ "memory" \in tree.group
    BY <1>1, <2>2 DEF Grown, ControllerOf
  <2>6. facts.kills \in Nat /\ facts.since \in Nat /\ dir.oom \in Nat
    BY <1>1 DEF FactRecord, DirRecord
  <2> DEFINE k == facts.kills + 1
             n == facts.since + 1
             o == dir.oom + 1
             v == IF p = "main" THEN "main" ELSE facts.victim
  <2>7. k \in Nat /\ n \in Nat /\ o \in Nat /\ n > 0 /\ v \in {"", "main"}
    <3>1. facts.victim \in {"", "main"}
      BY <1>1 DEF FactRecord
    <3>2. v \in {"", "main"}
      BY <3>1
    <3>3. k \in Nat /\ n \in Nat /\ o \in Nat /\ n > 0
      BY <2>6
    <3>4. QED
      BY <3>2, <3>3
  <2>8. facts' = [facts EXCEPT !.kills = k, !.since = n, !.victim = v] /\ dir' = [dir EXCEPT !.oom = o]
    BY <2>1, <2>2
  <2>9. v = "main" => p = "main" \/ facts.victim = "main"
    OBVIOUS
  <2> HIDE DEF k, n, o, v
  <2>10. /\ facts' \in FactRecord /\ facts'.since = n /\ facts'.victim = v
         /\ facts'.told = facts.told /\ facts'.oomed = facts.oomed /\ facts'.judged = facts.judged
    BY <1>1, <2>7, <2>8 DEF FactRecord
  <2>11. dir' \in DirRecord /\ dir'.oom = o /\ dir'.limits = dir.limits /\ dir'.there = dir.there
    BY <1>1, <2>7, <2>8 DEF DirRecord
  <2>12. CgroupTypes'
    BY <1>1, <2>2, <2>4, <2>10, <2>11 DEF CgroupTypes
  <2>13. Grown'
    <3>1. unit.state # "boot"
      <4>1. NoDir.there = FALSE
        BY DEF NoDir
      <4>2. QED
        BY <1>1, <2>5, <4>1 DEF Grown
    <3>2. QED
      BY <1>1, <2>2, <2>4, <2>11, <3>1 DEF Grown
  <2>14. Counted'
    <3>1. p = "main" => unit.baseline # <<>>
      BY <1>1, <2>3, <2>5 DEF Counted
    <3>2. facts'.victim = "main" => unit.baseline # <<>> /\ facts'.since > 0
      BY <1>1, <2>7, <2>9, <2>10, <3>1 DEF Counted
    <3>3. unit.baseline # <<>> => dir'.oom = unit.baseline[1] + facts'.since
      <4> SUFFICES ASSUME unit.baseline # <<>> PROVE dir'.oom = unit.baseline[1] + facts'.since
        OBVIOUS
      <4>1. dir.oom = unit.baseline[1] + facts.since
        BY <1>1 DEF Counted
      <4>2. unit.baseline \in Seq(Nat)
        BY <1>1 DEF UnitRecord
      <4>3. unit.baseline[1] \in Nat
        BY <4>2
      <4>4. QED
        BY <2>6, <2>10, <2>11, <4>1, <4>3 DEF o, n
    <3>4. QED
      BY <1>1, <2>2, <2>4, <2>11, <3>2, <3>3 DEF Counted, Alive
  <2>15. LimitsHold'
    BY <1>1, <2>2, <2>4, <2>11 DEF LimitsHold, Enforceable, members, Alive
  <2>16. OomIsTold'
    BY <1>1, <2>2, <2>10 DEF OomIsTold
  <2>17. QED
    BY <2>12, <2>13, <2>14, <2>15, <2>16 DEF CgroupInv, GroupIsAccounted
<1>10. CASE UNCHANGED cgroupVars
  <2>1. UNCHANGED <<linux, tree, dir, unit, facts, procs>>
    BY <1>10 DEF cgroupVars
  <2>2. QED
    BY <1>1, <2>1, ProcessStep DEF Alive
<1>11. QED
  BY <1>2, <1>3, <1>4, <1>5, <1>6, <1>7, <1>8, <1>9, <1>10 DEF CgroupNext

(* For every kernel, whatever controllers and attributes it lacks or       *)
(* refuses, and every set of limits: a unit runs under all the limits it   *)
(* was started with that the kernel can enforce, and its death is put down *)
(* to memory when it was killed for it and never when nothing of this run  *)
(* was.                                                                    *)
THEOREM GroupAlwaysAccounted == CgroupSpec => []GroupIsAccounted
<1>1. CgroupInv => GroupIsAccounted
  BY DEF CgroupInv
<1>2. QED
  BY <1>1, CgroupInitInv, CgroupNextInv, PTL DEF CgroupSpec

-------------------------------------------------------------------------------
(* The child between fork and exec.                                        *)

Early == {"Setsid", "Listen", "Stdio"}
Rest == {"Chdir", "JoinCgroup", "NoNewPrivileges", "KeepCapabilities", "SetInheritable",
          "SetBoundingSet", "SetGroup", "SetGroups", "SetUser", "RaiseAmbient"}
Terminal == {"OpenTty", "SetControllingTerminal", "TtyDup2"}
Before == Early \cup Terminal \cup Rest
Messages == Before \cup {"Dup2", "Ready", "execve"}
Ends == {"none", "Exec", "detached", "abandoned", "dropped", "interrupted",
         "DiedBeforeExec", "fork", "posix_spawn"}
Files == {"none", "console", "socket", "daemon", "log", "report", "tty"}
FdTable == [Fds -> [file : Files, cloexec : BOOLEAN]]
KidFields == {"at", "fds", "cred", "session", "terminal", "dir", "cgroup", "state", "ran",
              "failed", "refused", "killed", "murdered", "end"}

(* The terminal's steps come after those of the prologue.                  *)
Prologue(s) == <<"Setsid">> \o OptStep(s.listen # 0, <<"Listen">>) \o OptStep(s.stdio, <<"Stdio">>)

KidTypes ==
  /\ DOMAIN kid = KidFields
  /\ kid.at \in Nat \ {0}
  /\ kid.fds \in FdTable
  /\ kid.state \in {"none", "setup", "running", "zombie", "gone"}
  /\ {kid.ran, kid.killed, kid.murdered} \subseteq BOOLEAN

ChildTypes ==
  /\ spawn \in Setups
  /\ KidTypes
  /\ report \in [sent : Seq(Messages), reader : BOOLEAN]
  /\ waiter \in [at : {"begin", "first", "rest", "detach", "abandon", "drop", "waitpid", "kill",
                       "loop", "done"},
                 ready : BOOLEAN, verdict : Messages \cup Ends, stop : BOOLEAN, gaveUp : BOOLEAN]

(* While the child is on its way to exec it holds the pipe, and has not    *)
(* run or failed; the terminal finds a free descriptor.                    *)
OnItsWay ==
  LET tty == Len(Prologue(spawn)) + 1
  IN kid.state \in {"none", "setup"} =>
       /\ ~kid.ran
       /\ kid.at <= Len(ChildPlan(spawn))
       /\ kid.fds[6].file = "report"
       /\ kid.at <= tty => NoFd \in {kid.fds[7], kid.fds[8]}
       /\ spawn.tty /\ kid.at \in {tty + 1, tty + 2} => \E fd \in Fds : kid.fds[fd].file = "tty"

(* What is in the pipe: "Ready" at most once and first, and a step only    *)
(* when it failed.                                                         *)
Over(k) == k.state \in {"zombie", "gone"}
Dead == Over(kid) /\ ~kid.ran
PipeIsTrue ==
  /\ waiter.at = "begin" <=> kid.state = "none"
  /\ waiter.at = "begin" => kid.at = 1 /\ report.reader /\ ~kid.killed
  /\ kid.state \in {"none", "setup"} /\ kid.at < Len(ChildPlan(spawn)) => report.sent = <<>> /\ ~waiter.ready
  /\ kid.state = "running" => kid.ran
  /\ \A i \in 1 .. Len(report.sent) : report.sent[i] # "Ready" => report.sent[i] = kid.failed /\ Dead
  /\ \A i \in 1 .. Len(report.sent) : report.sent[i] = "Ready" => i = 1 /\ ~waiter.ready

(* What a waiting parent can rely on.                                      *)
Listening ==
  waiter.at \in {"first", "rest"} =>
    /\ report.reader /\ (kid.killed => kid.murdered)
    /\ waiter.at = "first" => ~waiter.ready
    /\ waiter.at = "rest" /\ ~waiter.ready => report.sent # <<>> /\ report.sent[1] # "Ready"
    /\ kid.ran => waiter.ready \/ report.sent # <<>>
    /\ kid.state = "setup" /\ kid.at = Len(ChildPlan(spawn)) => waiter.ready \/ report.sent # <<>>
    /\ Dead => kid.murdered \/ (report.sent # <<>> /\ report.sent[Len(report.sent)] # "Ready")

Told ==
  /\ waiter.verdict = "Exec" => kid.ran \/ kid.murdered
  /\ waiter.verdict \in Messages => kid.failed = waiter.verdict /\ Dead
  /\ waiter.verdict \in {"DiedBeforeExec", "fork", "posix_spawn"} => Dead
  /\ waiter.at = "loop" => Over(kid) \/ kid.killed

ChildInv == ChildTypes /\ OnItsWay /\ PipeIsTrue /\ Listening /\ Told /\ FailedIsGone

(* A plan that begins with another one and goes on with steps of the rest. *)
GoesOn(x, first) ==
  /\ x \in Seq(Messages) /\ Len(x) \in Nat /\ Len(first) \in Nat /\ Len(first) <= Len(x)
  /\ \A i \in 1 .. Len(first) : x[i] = first[i]
  /\ \A i \in 1 .. Len(x) : i > Len(first) => x[i] \in Rest

(* It goes on as one when more of the rest is added.                       *)
LEMMA Extended ==
  ASSUME NEW x, NEW first, GoesOn(x, first), NEW y \in Seq(Rest)
  PROVE  GoesOn(x \o y, first) /\ Len(x \o y) = Len(x) + Len(y)
<1>1. Len(x) \in Nat /\ Len(y) \in Nat /\ \A i \in 1 .. Len(y) : y[i] \in Rest
  BY DEF GoesOn
<1>2. y \in Seq(Messages) /\ x \in Seq(Messages)
  BY DEF Messages, Before, GoesOn
<1> DEFINE z == x \o y
<1>3. /\ z \in Seq(Messages) /\ Len(z) = Len(x) + Len(y)
      /\ \A i \in 1 .. Len(x) + Len(y) : z[i] = IF i <= Len(x) THEN x[i] ELSE y[i - Len(x)]
  BY <1>2, ConcatProperties
<1> HIDE DEF z
<1>4. ASSUME NEW i \in 1 .. Len(z), i > Len(first) PROVE z[i] \in Rest
  <2>1. CASE i <= Len(x)
    BY <1>1, <1>3, <1>4, <2>1 DEF GoesOn
  <2>2. CASE i > Len(x)
    <3>1. i - Len(x) \in 1 .. Len(y) /\ z[i] = y[i - Len(x)]
      BY <1>1, <1>3, <2>2
    <3> QED BY <1>1, <3>1
  <2> QED BY <1>1, <2>1, <2>2
<1>5. \A i \in 1 .. Len(first) : z[i] = first[i]
  BY <1>1, <1>3, SMTT(60) DEF GoesOn
<1>6. Len(z) \in Nat /\ Len(first) \in Nat /\ Len(first) <= Len(z)
  BY <1>1, <1>3 DEF GoesOn
<1>7. GoesOn(z, first)
  BY <1>3, <1>4, <1>5, <1>6 DEF GoesOn
<1> QED BY <1>3, <1>7 DEF z

(* The steps of the privilege drop itself.                                 *)
Drop == {"NoNewPrivileges", "KeepCapabilities", "SetInheritable", "SetBoundingSet", "SetGroup",
         "SetGroups", "SetUser", "RaiseAmbient"}

(* The drop is made of its own steps.                                      *)
LEMMA DropOnly == ASSUME NEW s PROVE steps(s) \in Seq(Drop) /\ ToSet(steps(s)) \subseteq Drop
<1>1. /\ <<>> \in Seq(Drop)
      /\ <<"NoNewPrivileges">> \in Seq(Drop) /\ <<"SetBoundingSet">> \in Seq(Drop)
      /\ <<"KeepCapabilities", "SetInheritable">> \in Seq(Drop)
      /\ <<"SetGroup">> \in Seq(Drop) /\ <<"SetGroups">> \in Seq(Drop)
      /\ <<"SetUser">> \in Seq(Drop) /\ <<"RaiseAmbient">> \in Seq(Drop)
  BY DEF Drop
<1> DEFINE a == OptStep(s.no_new_privileges, <<"NoNewPrivileges">>)
           b == OptStep(s.ambient # <<>>, <<"KeepCapabilities", "SetInheritable">>)
           c == OptStep(s.bounding_set # <<>>, <<"SetBoundingSet">>)
           d == OptStep(s.gid # 0, <<"SetGroup">>)
           e == OptStep(s.groups # <<>>, <<"SetGroups">>)
           f == OptStep(s.uid # 0, <<"SetUser">>)
           g == OptStep(s.ambient # <<>>, <<"RaiseAmbient">>)
<1>2. /\ a \in Seq(Drop) /\ b \in Seq(Drop) /\ c \in Seq(Drop) /\ d \in Seq(Drop)
      /\ e \in Seq(Drop) /\ f \in Seq(Drop) /\ g \in Seq(Drop)
  BY <1>1 DEF OptStep
<1>3. steps(s) = a \o b \o c \o d \o e \o f \o g
  BY DEF steps
<1> HIDE DEF a, b, c, d, e, f, g
<1>4. steps(s) \in Seq(Drop)
  BY <1>2, <1>3
<1> QED BY <1>4 DEF ToSet

(* The privilege drop is steps of the rest.                                *)
LEMMA DropSteps == ASSUME NEW s PROVE steps(s) \in Seq(Rest)
<1>1. steps(s) \in Seq(Drop)
  BY DropOnly
<1>2. Drop \subseteq Rest
  BY DEF Drop, Rest
<1> QED BY <1>1, <1>2

(* The plan ends in "Ready" and "execve", and has the terminal's steps     *)
(* together after the prologue, or nowhere.                                *)
LEMMA PlanShape ==
  ASSUME NEW s \in Setups
  PROVE  LET plan == ChildPlan(s)
             n == Len(plan)
             tty == Len(Prologue(s)) + 1
         IN /\ n \in Nat /\ n > 2 /\ DOMAIN plan = 1 .. n
            /\ tty \in Nat /\ tty > 1
            /\ plan[n] = "execve" /\ plan[n - 1] = "Ready"
            /\ \A i \in 1 .. n : i < n - 1 => plan[i] \in Before
            /\ \A i \in 1 .. n : i < n - 1 =>
                 /\ plan[i] = "OpenTty" => s.tty /\ i = tty
                 /\ plan[i] = "TtyDup2" => s.tty /\ i = tty + 2
            /\ s.tty => /\ tty + 2 < n - 1
                        /\ plan[tty] = "OpenTty" /\ plan[tty + 1] = "SetControllingTerminal"
<1> DEFINE A == Prologue(s)
           T == OptStep(s.tty, <<"OpenTty", "SetControllingTerminal", "TtyDup2">>)
           J == OptStep(s.cgroup, <<"JoinCgroup">>)
           D == steps(s.sandbox)
           R == <<"Ready", "execve">>
           F == A \o T \o <<"Chdir">> \o J \o D
<1>1. A \in Seq(Early) /\ Len(A) \in Nat \ {0}
  BY DEF Prologue, OptStep, Early
<1>2. /\ T \in Seq(Terminal)
      /\ \/ T = <<>> /\ ~s.tty
         \/ /\ s.tty /\ Len(T) = 3
            /\ T[1] = "OpenTty" /\ T[2] = "SetControllingTerminal" /\ T[3] = "TtyDup2"
  <2>1. CASE s.tty
    BY <2>1 DEF OptStep, Terminal
  <2>2. CASE ~s.tty
    BY <2>2 DEF OptStep
  <2> QED BY <2>1, <2>2
<1>3. <<"Chdir">> \in Seq(Rest) /\ J \in Seq(Rest)
  <2>1. <<"JoinCgroup">> \in Seq(Rest) /\ <<>> \in Seq(Rest) /\ <<"Chdir">> \in Seq(Rest)
    BY DEF Rest
  <2> QED BY <2>1 DEF OptStep
<1>4. D \in Seq(Rest)
  BY DropSteps
<1>5. ChildPlan(s) = F \o R
  BY DEF ChildPlan, Prologue
<1> HIDE DEF A, T, J, D
<1> DEFINE AT == A \o T
           k == Len(AT)
<1>6. /\ AT \in Seq(Messages) /\ k \in Nat /\ k = Len(A) + Len(T) /\ Len(T) \in Nat
      /\ \A i \in 1 .. k : AT[i] = IF i <= Len(A) THEN A[i] ELSE T[i - Len(A)]
  BY <1>1, <1>2, ConcatProperties DEF Messages, Before
<1>7. \A i \in 1 .. k :
        /\ AT[i] \in Before
        /\ AT[i] = "OpenTty" => s.tty /\ i = Len(A) + 1
        /\ AT[i] = "TtyDup2" => s.tty /\ i = Len(A) + 3
  <2> SUFFICES ASSUME NEW i \in 1 .. k
               PROVE  /\ AT[i] \in Before
                      /\ AT[i] = "OpenTty" => s.tty /\ i = Len(A) + 1
                      /\ AT[i] = "TtyDup2" => s.tty /\ i = Len(A) + 3
    OBVIOUS
  <2> HIDE DEF AT, k
  <2>1. CASE i <= Len(A)
    <3>1. AT[i] \in Early
      BY <1>1, <1>6, <2>1
    <3> QED BY <3>1 DEF Early, Before
  <2>2. CASE i > Len(A)
    <3>1. i - Len(A) \in 1 .. Len(T) /\ AT[i] = T[i - Len(A)]
      BY <1>1, <1>6, <2>2
    <3>2. T # <<>>
      BY <3>1
    <3>3. i - Len(A) \in {1, 2, 3}
      BY <1>2, <3>1, <3>2
    <3>4. AT[i] \in Terminal
      BY <1>2, <3>1, <3>2, <3>3 DEF Terminal
    <3>5. AT[i] = "OpenTty" => i - Len(A) = 1
      BY <1>2, <3>1, <3>2, <3>3
    <3>6. AT[i] = "TtyDup2" => i - Len(A) = 3
      BY <1>2, <3>1, <3>2, <3>3
    <3> QED BY <1>1, <1>2, <3>2, <3>4, <3>5, <3>6 DEF Before
  <2> QED BY <1>1, <1>6, <2>1, <2>2
<1> HIDE DEF AT
<1>8. GoesOn(AT, AT)
  BY <1>6 DEF GoesOn, k
<1> DEFINE ATC == AT \o <<"Chdir">>
<1>9. GoesOn(ATC, AT) /\ Len(ATC) = k + 1
  <2>1. Len(<<"Chdir">>) = 1
    OBVIOUS
  <2> QED BY <1>3, <1>8, <2>1, Extended DEF k
<1> HIDE DEF ATC
<1> DEFINE ATCJ == ATC \o J
<1>10. GoesOn(ATCJ, AT) /\ Len(ATCJ) >= k + 1 /\ Len(ATCJ) \in Nat
  <2>1. GoesOn(ATCJ, AT) /\ Len(ATCJ) = Len(ATC) + Len(J) /\ Len(J) \in Nat
    BY <1>3, <1>9, Extended
  <2> HIDE DEF ATCJ
  <2> QED BY <1>6, <1>9, <2>1
<1> HIDE DEF ATCJ
<1>11. GoesOn(F, AT) /\ Len(F) >= k + 1 /\ Len(F) \in Nat
  <2>1. F = ATCJ \o D
    BY DEF ATCJ, ATC, AT
  <2> HIDE DEF F
  <2>2. GoesOn(F, AT) /\ Len(F) = Len(ATCJ) + Len(D) /\ Len(D) \in Nat
    BY <1>4, <1>10, <2>1, Extended
  <2> QED BY <1>6, <1>10, <2>2
<1> HIDE DEF F
<1> DEFINE plan == ChildPlan(s)
           n == Len(plan)
<1>12. /\ n = Len(F) + 2 /\ n \in Nat /\ DOMAIN plan = 1 .. n
       /\ \A i \in 1 .. Len(F) : plan[i] = F[i]
       /\ plan[n] = "execve" /\ plan[n - 1] = "Ready"
  <2>1. R \in Seq(Messages) /\ Len(R) = 2 /\ R[1] = "Ready" /\ R[2] = "execve"
    BY DEF Messages
  <2>2. F \in Seq(Messages)
    BY <1>11 DEF GoesOn
  <2> HIDE DEF R
  <2>3. /\ n = Len(F) + 2
        /\ \A i \in 1 .. Len(F) + 2 : plan[i] = IF i <= Len(F) THEN F[i] ELSE R[i - Len(F)]
    <3>1. \A i \in 1 .. Len(F) + Len(R) : (F \o R)[i] = IF i <= Len(F) THEN F[i] ELSE R[i - Len(F)]
      BY <2>1, <2>2, ConcatProperties
    <3>2. Len(F \o R) = Len(F) + Len(R)
      BY <2>1, <2>2, ConcatProperties
    <3> QED BY <1>5, <2>1, <3>1, <3>2
  <2>5. plan \in Seq(Messages)
    BY <1>5, <2>1, <2>2, ConcatProperties
  <2> HIDE DEF plan
  <2>4. plan[Len(F) + 1] = R[1] /\ plan[Len(F) + 2] = R[2]
    BY <1>11, <2>3
  <2>6. DOMAIN plan = 1 .. n
    BY <2>5
  <2> QED BY <1>11, <2>1, <2>3, <2>4, <2>6
<1> HIDE DEF plan
<1>13. ASSUME NEW i \in 1 .. n, i < n - 1
       PROVE  /\ plan[i] \in Before
              /\ plan[i] = "OpenTty" => s.tty /\ i = Len(A) + 1
              /\ plan[i] = "TtyDup2" => s.tty /\ i = Len(A) + 3
  <2>1. i \in 1 .. Len(F) /\ plan[i] = F[i]
    BY <1>11, <1>12, <1>13
  <2>2. CASE i <= k
    BY <1>6, <1>7, <1>11, <2>1, <2>2 DEF GoesOn
  <2>3. CASE i > k
    <3>1. plan[i] \in Rest
      BY <1>11, <2>1, <2>3 DEF GoesOn
    <3> QED BY <3>1 DEF Rest, Before
  <2> QED BY <1>6, <2>1, <2>2, <2>3
<1>14. ASSUME s.tty
       PROVE  /\ Len(A) + 3 < n - 1
              /\ plan[Len(A) + 1] = "OpenTty" /\ plan[Len(A) + 2] = "SetControllingTerminal"
  <2>1. k = Len(A) + 3
    BY <1>1, <1>2, <1>6, <1>14
  <2>2. AT[Len(A) + 1] = T[1] /\ AT[Len(A) + 2] = T[2]
    BY <1>1, <1>6, <2>1
  <2>3. \A i \in 1 .. k : plan[i] = AT[i]
    <3> SUFFICES ASSUME NEW i \in 1 .. k PROVE plan[i] = AT[i]
      OBVIOUS
    <3>1. F[i] = AT[i]
      BY <1>11 DEF GoesOn
    <3>2. i \in 1 .. Len(F)
      BY <1>6, <1>11
    <3> QED BY <1>12, <3>1, <3>2
  <2>4. plan[Len(A) + 1] = T[1] /\ plan[Len(A) + 2] = T[2]
    BY <1>1, <2>1, <2>2, <2>3
  <2>5. Len(A) + 3 < n - 1
    BY <1>1, <1>11, <1>12, <2>1
  <2> QED BY <1>2, <1>14, <2>4, <2>5
<1> HIDE DEF A
<1> QED BY <1>1, <1>6, <1>11, <1>12, <1>13, <1>14 DEF plan, A

-------------------------------------------------------------------------------

(* What dup2, exec and open do to a table of descriptors.                  *)
LEMMA Dup2Moves ==
  ASSUME NEW fds \in FdTable, NEW from \in Fds, NEW to \in Fds
  PROVE  /\ dup2(fds, from, to) \in FdTable
         /\ dup2(fds, from, to)[to].file = fds[from].file
         /\ \A fd \in Fds : fd # to => dup2(fds, from, to)[fd] = fds[fd]
<1>1. fds[from].file \in Files
  BY DEF FdTable
<1> QED BY <1>1 DEF dup2, FdTable

(* Exec closes what is marked, and nothing else changes kind.              *)
LEMMA ExecCloses ==
  ASSUME NEW fds \in FdTable
  PROVE  [fd \in Fds |-> IF fds[fd].cloexec THEN NoFd ELSE fds[fd]] \in FdTable
BY DEF FdTable, NoFd, Files

(* A process with a free descriptor can open the terminal, on a free one.  *)
LEMMA FreeFdExists ==
  ASSUME NEW fds \in FdTable, NoFd \in {fds[7], fds[8]}
  PROVE  FreeFd(fds) \in Fds /\ fds[FreeFd(fds)] = NoFd
<1> DEFINE P(fd) == fds[fd] = NoFd /\ \A low \in 0 .. fd - 1 : fds[low] # NoFd
<1>1. \E fd \in Fds : P(fd)
  <2>1. CASE fds[0] = NoFd
    <3>1. P(0) /\ 0 \in Fds
      BY <2>1 DEF Fds
    <3> QED BY <3>1
  <2>2. CASE fds[0] # NoFd
    BY <2>2, SMTT(60) DEF Fds
  <2> QED BY <2>1, <2>2
<1> QED BY <1>1 DEF FreeFd

(* What every step uses of the types.                                      *)
LEMMA ChildFacts ==
  ASSUME ChildInv
  PROVE  /\ DOMAIN kid = KidFields /\ kid.state \in {"none", "setup", "running", "zombie", "gone"}
         /\ waiter.at = "begin" <=> kid.state = "none"
         /\ {kid.killed, kid.murdered} \subseteq BOOLEAN
         /\ report \in [sent : Seq(Messages), reader : BOOLEAN]
         /\ waiter \in [at : {"begin", "first", "rest", "detach", "abandon", "drop", "waitpid", "kill",
                              "loop", "done"},
                        ready : BOOLEAN, verdict : Messages \cup Ends, stop : BOOLEAN, gaveUp : BOOLEAN]
BY DEF ChildInv, ChildTypes, KidTypes, PipeIsTrue

(* The child is killed, ends or is reaped.                                 *)
LEMMA EndsKeep ==
  ASSUME ChildInv, Murder \/ Die \/ Finish \/ reap_children
  PROVE  ChildInv'
<1>1. UNCHANGED <<spawn, report, waiter>>
  BY DEF Murder, Die, Finish, reap_children
<1>2. /\ DOMAIN kid' = KidFields
      /\ kid'.at = kid.at /\ kid'.fds = kid.fds /\ kid'.ran = kid.ran /\ kid'.failed = kid.failed
  BY ChildFacts DEF KidFields, Murder, Die, Finish, reap_children
<1>3. CASE Murder
  <2>1. /\ kid'.killed = TRUE /\ kid'.murdered = TRUE
        /\ kid'.state = kid.state /\ kid.state \in {"setup", "running"}
    BY ChildFacts, <1>3 DEF KidFields, Murder
  <2>2. ChildTypes'
    BY <1>1, <1>2, <2>1 DEF ChildInv, ChildTypes, KidTypes
  <2>3. OnItsWay'
    BY <1>1, <1>2, <2>1 DEF ChildInv, OnItsWay
  <2>4. PipeIsTrue'
    BY <1>1, <1>2, <2>1 DEF ChildInv, ChildTypes, OnItsWay, PipeIsTrue, Over, Dead
  <2>5. Listening'
    BY <1>1, <1>2, <2>1 DEF ChildInv, ChildTypes, OnItsWay, PipeIsTrue, Listening, Over, Dead
  <2>6. Told'
    BY <1>1, <1>2, <2>1 DEF ChildInv, ChildTypes, PipeIsTrue, Told, Over, Dead
  <2>7. FailedIsGone'
    BY <1>1, <1>2, <2>1 DEF ChildInv, ChildTypes, PipeIsTrue, Told, FailedIsGone, Over
  <2> QED BY <2>2, <2>3, <2>4, <2>5, <2>6, <2>7 DEF ChildInv
<1>4. CASE Die \/ Finish \/ reap_children
  <2>1. /\ kid'.killed = kid.killed /\ kid'.murdered = kid.murdered
        /\ \/ kid.state \in {"setup", "running"} /\ kid'.state = "zombie"
           \/ kid.state = "zombie" /\ kid'.state = "gone"
        /\ kid.state = "setup" => kid.killed
    BY ChildFacts, <1>4 DEF KidFields, Die, Finish, reap_children
  <2>2. ChildTypes'
    BY <1>1, <1>2, <2>1 DEF ChildInv, ChildTypes, KidTypes
  <2>3. OnItsWay'
    BY <1>1, <1>2, <2>1 DEF ChildInv, OnItsWay
  <2>4. PipeIsTrue'
    BY <1>1, <1>2, <2>1 DEF ChildInv, ChildTypes, OnItsWay, PipeIsTrue, Over, Dead
  <2>5. Listening'
    BY <1>1, <1>2, <2>1 DEF ChildInv, ChildTypes, OnItsWay, PipeIsTrue, Listening, Over, Dead
  <2>6. Told'
    BY <1>1, <1>2, <2>1 DEF ChildInv, ChildTypes, PipeIsTrue, Told, Over, Dead
  <2>7. FailedIsGone'
    BY <1>1, <1>2, <2>1 DEF ChildInv, ChildTypes, PipeIsTrue, Told, FailedIsGone, Over
  <2> QED BY <2>2, <2>3, <2>4, <2>5, <2>6, <2>7 DEF ChildInv
<1> QED BY <1>3, <1>4

(* The uses of the handle that do not read, and the deadline.              *)
LEMMA HandlesKeep ==
  ASSUME ChildInv, detach \/ abandon \/ drop \/ Interrupt
  PROVE  ChildInv'
<1>1. CASE detach
  <2>1. /\ UNCHANGED <<spawn, kid>> /\ waiter.at = "detach"
        /\ waiter' = [waiter EXCEPT !.at = "done", !.verdict = "detached"]
        /\ report' = [report EXCEPT !.reader = FALSE]
    BY <1>1 DEF detach, Settle
  <2>2. ChildTypes'
    BY <2>1 DEF ChildInv, ChildTypes, KidTypes, Ends
  <2>3. OnItsWay'
    BY <2>1 DEF ChildInv, OnItsWay
  <2>4. PipeIsTrue'
    BY <2>1 DEF ChildInv, ChildTypes, OnItsWay, PipeIsTrue, Over, Dead
  <2>5. Listening'
    BY <2>1 DEF ChildInv, ChildTypes, OnItsWay, PipeIsTrue, Listening, Over, Dead
  <2>6. Told'
    BY <2>1
    DEF ChildInv, ChildTypes, PipeIsTrue, Told, Over, Dead, Messages, Before, Early, Terminal, Rest
  <2>7. FailedIsGone'
    BY <2>1 DEF ChildInv, ChildTypes, PipeIsTrue, Told, FailedIsGone, Over
  <2> QED BY <2>2, <2>3, <2>4, <2>5, <2>6, <2>7 DEF ChildInv
<1>2. CASE abandon
  <2>1. /\ UNCHANGED spawn /\ waiter.at = "abandon"
        /\ waiter' = [waiter EXCEPT !.at = "done", !.verdict = "abandoned"]
        /\ report' = [report EXCEPT !.reader = FALSE]
        /\ kid' = kill_unreaped_child(kid)
    BY <1>2 DEF abandon, Settle
  <2>2. /\ DOMAIN kid' = KidFields
        /\ kid'.at = kid.at /\ kid'.fds = kid.fds /\ kid'.ran = kid.ran /\ kid'.failed = kid.failed
        /\ kid'.murdered = kid.murdered /\ kid'.killed \in BOOLEAN
        /\ \/ kid.state \in {"zombie", "gone"} /\ kid'.state = "gone"
           \/ kid.state \in {"setup", "running"} /\ kid'.state = kid.state /\ kid'.killed
    BY ChildFacts, <2>1 DEF KidFields, kill_unreaped_child
  <2> HIDE DEF kill_unreaped_child
  <2>3. ChildTypes'
    BY <2>1, <2>2 DEF ChildInv, ChildTypes, KidTypes, Ends
  <2>4. OnItsWay'
    BY <2>1, <2>2 DEF ChildInv, OnItsWay
  <2>5. PipeIsTrue'
    BY <2>1, <2>2 DEF ChildInv, ChildTypes, OnItsWay, PipeIsTrue, Over, Dead
  <2>6. Listening'
    BY <2>1, <2>2 DEF ChildInv, ChildTypes, OnItsWay, PipeIsTrue, Listening, Over, Dead
  <2>7. Told'
    BY <2>1, <2>2
    DEF ChildInv, ChildTypes, PipeIsTrue, Told, Over, Dead, Messages, Before, Early, Terminal, Rest
  <2>8. FailedIsGone'
    BY <2>1, <2>2 DEF ChildInv, ChildTypes, PipeIsTrue, Told, FailedIsGone, Over
  <2> QED BY <2>3, <2>4, <2>5, <2>6, <2>7, <2>8 DEF ChildInv
<1>3. CASE drop
  <2>1. /\ UNCHANGED <<spawn, kid, report>> /\ waiter.at = "drop"
        /\ waiter' = [waiter EXCEPT !.at = "waitpid", !.verdict = "dropped"]
    BY <1>3 DEF drop, Settled
  <2>2. ChildTypes'
    BY <2>1 DEF ChildInv, ChildTypes, KidTypes, Ends
  <2>3. OnItsWay'
    BY <2>1 DEF ChildInv, OnItsWay
  <2>4. PipeIsTrue'
    BY <2>1 DEF ChildInv, ChildTypes, OnItsWay, PipeIsTrue, Over, Dead
  <2>5. Listening'
    BY <2>1 DEF ChildInv, ChildTypes, OnItsWay, PipeIsTrue, Listening, Over, Dead
  <2>6. Told'
    BY <2>1
    DEF ChildInv, ChildTypes, PipeIsTrue, Told, Over, Dead, Messages, Before, Early, Terminal, Rest
  <2>7. FailedIsGone'
    BY <2>1 DEF ChildInv, ChildTypes, PipeIsTrue, Told, FailedIsGone, Over
  <2> QED BY <2>2, <2>3, <2>4, <2>5, <2>6, <2>7 DEF ChildInv
<1>4. CASE Interrupt
  <2>1. UNCHANGED <<spawn, kid, report>> /\ waiter' = [waiter EXCEPT !.stop = TRUE]
    BY <1>4 DEF Interrupt
  <2>2. ChildTypes'
    BY <2>1 DEF ChildInv, ChildTypes, KidTypes
  <2>3. OnItsWay'
    BY <2>1 DEF ChildInv, OnItsWay
  <2>4. PipeIsTrue'
    BY <2>1 DEF ChildInv, ChildTypes, OnItsWay, PipeIsTrue, Over, Dead
  <2>5. Listening'
    BY <2>1 DEF ChildInv, ChildTypes, OnItsWay, PipeIsTrue, Listening, Over, Dead
  <2>6. Told'
    BY <2>1 DEF ChildInv, ChildTypes, PipeIsTrue, Told, Over, Dead
  <2>7. FailedIsGone'
    BY <2>1 DEF ChildInv, ChildTypes, PipeIsTrue, Told, FailedIsGone, Over
  <2> QED BY <2>2, <2>3, <2>4, <2>5, <2>6, <2>7 DEF ChildInv
<1> QED BY <1>1, <1>2, <1>3, <1>4

(* The reaping of a failed spawn.                                          *)
LEMMA ReapKeeps == ASSUME ChildInv, reap_failed_spawn PROVE ChildInv'
<1>1. CASE WaitpidOnce \/ WaitpidLoop
  <2>1. /\ UNCHANGED spawn
        /\ DOMAIN kid' = KidFields /\ waiter.at \in {"waitpid", "loop"}
        /\ kid'.at = kid.at /\ kid'.fds = kid.fds /\ kid'.ran = kid.ran /\ kid'.failed = kid.failed
        /\ kid'.murdered = kid.murdered /\ kid'.killed = kid.killed
        /\ \/ kid.state \in {"zombie", "gone"} /\ kid'.state = "gone"
           \/ kid.state \in {"setup", "running"} /\ kid'.state = kid.state
    BY ChildFacts, <1>1 DEF KidFields, WaitpidOnce, WaitpidLoop
  <2>2. /\ report'.sent = report.sent /\ report' \in [sent : Seq(Messages), reader : BOOLEAN]
        /\ waiter' \in [at : {"begin", "first", "rest", "detach", "abandon", "drop", "waitpid", "kill",
                            "loop", "done"},
                      ready : BOOLEAN, verdict : Messages \cup Ends, stop : BOOLEAN, gaveUp : BOOLEAN]
        /\ waiter'.at \in {"kill", "done"}
        /\ waiter'.verdict = waiter.verdict /\ waiter'.ready = waiter.ready
        /\ waiter'.at = "done" /\ kid.state \notin {"zombie", "gone"} => waiter.at = "loop"
    <3>1. CASE WaitpidOnce
      BY ChildFacts, <3>1 DEF WaitpidOnce, Release
    <3>2. CASE WaitpidLoop
      BY ChildFacts, <3>2 DEF WaitpidLoop, Release
    <3> QED BY <1>1, <3>1, <3>2
  <2>3. ChildTypes'
    BY <2>1, <2>2 DEF ChildInv, ChildTypes, KidTypes
  <2>4. OnItsWay'
    BY <2>1, <2>2 DEF ChildInv, OnItsWay
  <2>5. PipeIsTrue'
    <3>1. (Dead' <=> Dead) /\ kid'.state # "none"
      BY ChildFacts, <2>1 DEF Dead, Over
    <3>2. \A i \in 1 .. Len(report'.sent) :
            /\ report'.sent[i] # "Ready" => report'.sent[i] = kid'.failed /\ Dead'
            /\ report'.sent[i] = "Ready" => i = 1 /\ ~waiter'.ready
      BY <2>1, <2>2, <3>1 DEF ChildInv, PipeIsTrue
    <3> QED BY ChildFacts, <2>1, <2>2, <3>1, <3>2 DEF ChildInv, PipeIsTrue
  <2>6. Listening'
    BY <2>1, <2>2 DEF ChildInv, ChildTypes, OnItsWay, PipeIsTrue, Listening, Over, Dead
  <2>7. Told'
    BY <2>1, <2>2 DEF ChildInv, ChildTypes, PipeIsTrue, Told, Over, Dead
  <2>8. FailedIsGone'
    BY <2>1, <2>2 DEF ChildInv, ChildTypes, PipeIsTrue, Told, FailedIsGone, Over
  <2> QED BY <2>3, <2>4, <2>5, <2>6, <2>7, <2>8 DEF ChildInv
<1>2. CASE SigKill
  <2>1. /\ UNCHANGED <<spawn, report>>
        /\ DOMAIN kid' = KidFields /\ waiter.at = "kill"
        /\ kid'.at = kid.at /\ kid'.fds = kid.fds /\ kid'.ran = kid.ran /\ kid'.failed = kid.failed
        /\ kid'.murdered = kid.murdered /\ kid'.state = kid.state
        /\ kid'.killed \in BOOLEAN /\ (kid'.state = "gone" \/ kid'.killed)
        /\ kid.killed => kid'.killed
        /\ waiter' = [waiter EXCEPT !.at = "loop"]
    BY ChildFacts, <1>2 DEF KidFields, SigKill
  <2>2. ChildTypes'
    BY <2>1 DEF ChildInv, ChildTypes, KidTypes
  <2>3. OnItsWay'
    BY <2>1 DEF ChildInv, OnItsWay
  <2>4. PipeIsTrue'
    BY <2>1 DEF ChildInv, ChildTypes, OnItsWay, PipeIsTrue, Over, Dead
  <2>5. Listening'
    BY <2>1 DEF ChildInv, ChildTypes, OnItsWay, PipeIsTrue, Listening, Over, Dead
  <2>6. Told'
    BY <2>1 DEF ChildInv, ChildTypes, PipeIsTrue, Told, Over, Dead
  <2>7. FailedIsGone'
    BY <2>1 DEF ChildInv, ChildTypes, PipeIsTrue, Told, FailedIsGone, Over
  <2> QED BY <2>2, <2>3, <2>4, <2>5, <2>6, <2>7 DEF ChildInv
<1> QED BY <1>1, <1>2 DEF reap_failed_spawn

(* The report is read.                                                     *)
LEMMA ReadKeeps == ASSUME ChildInv, read_report PROVE ChildInv'
<1>1. UNCHANGED <<spawn, kid>>
  BY DEF read_report
<1>2. CASE waiter.stop
  <2>1. /\ UNCHANGED report /\ waiter.at \in {"first", "rest"}
        /\ waiter' = [waiter EXCEPT !.at = "waitpid", !.verdict = "interrupted"]
    BY <1>2 DEF read_report, Settled
  <2>2. ChildTypes'
    BY <1>1, <2>1 DEF ChildInv, ChildTypes, KidTypes, Ends
  <2>3. OnItsWay'
    BY <1>1, <2>1 DEF ChildInv, OnItsWay
  <2>4. PipeIsTrue'
    BY <1>1, <2>1 DEF ChildInv, ChildTypes, OnItsWay, PipeIsTrue, Over, Dead
  <2>5. Listening'
    BY <1>1, <2>1 DEF ChildInv, ChildTypes, OnItsWay, PipeIsTrue, Listening, Over, Dead
  <2>6. Told'
    BY <1>1, <2>1
    DEF ChildInv, ChildTypes, PipeIsTrue, Told, Over, Dead, Messages, Before, Early, Terminal, Rest
  <2>7. FailedIsGone'
    BY <1>1, <2>1 DEF ChildInv, ChildTypes, PipeIsTrue, Told, FailedIsGone, Over
  <2> QED BY <2>2, <2>3, <2>4, <2>5, <2>6, <2>7 DEF ChildInv
<1>3. ASSUME Eof, waiter.at \in {"first", "rest"}
      PROVE  /\ Dead \/ (kid.ran /\ waiter.ready)
             /\ kid.ran \/ kid.murdered
  <2>1. report.sent = <<>> /\ kid.state # "none"
    BY ChildFacts, <1>3 DEF Eof
  <2>2. kid.state # "setup"
    <3> SUFFICES ASSUME kid.state = "setup" PROVE FALSE
      OBVIOUS
    <3>1. kid.fds[6].file = "report"
      BY DEF ChildInv, OnItsWay
    <3>2. 6 \in Fds
      BY DEF Fds
    <3> QED BY <1>3, <3>1, <3>2 DEF Eof
  <2>3. CASE kid.ran
    BY <1>3, <2>1, <2>3 DEF ChildInv, Listening
  <2>4. CASE ~kid.ran
    <3>1. Dead
      BY ChildFacts, <2>1, <2>2, <2>4 DEF ChildInv, PipeIsTrue, Dead, Over
    <3> QED BY <1>3, <2>1, <3>1 DEF ChildInv, Listening
  <2> QED BY <2>3, <2>4
<1>4. CASE ~waiter.stop /\ waiter.at = "first" /\ Eof
  <2>1. /\ UNCHANGED report
        /\ waiter' = [waiter EXCEPT !.at = "waitpid", !.verdict = "DiedBeforeExec"]
    BY <1>4 DEF read_report, DecodeFirst, Settled, Eof
  <2>2. Dead
    BY <1>3, <1>4 DEF ChildInv, Listening
  <2>3. ChildTypes'
    BY <1>1, <2>1 DEF ChildInv, ChildTypes, KidTypes, Ends
  <2>4. OnItsWay'
    BY <1>1, <1>4, <2>1 DEF ChildInv, OnItsWay
  <2>5. PipeIsTrue'
    BY <1>1, <1>4, <2>1 DEF ChildInv, ChildTypes, OnItsWay, PipeIsTrue, Over, Dead
  <2>6. Listening'
    BY <1>1, <1>4, <2>1 DEF ChildInv, ChildTypes, OnItsWay, PipeIsTrue, Listening, Over, Dead
  <2>7. Told'
    BY <1>1, <2>1, <2>2
    DEF ChildInv, ChildTypes, PipeIsTrue, Told, Over, Dead, Messages, Before, Early, Terminal, Rest
  <2>8. FailedIsGone'
    BY <1>1, <1>4, <2>1 DEF ChildInv, ChildTypes, PipeIsTrue, Told, FailedIsGone, Over
  <2> QED BY <2>3, <2>4, <2>5, <2>6, <2>7, <2>8 DEF ChildInv
<1>5. CASE ~waiter.stop /\ waiter.at = "rest" /\ Eof
  <2>1. /\ report' = [report EXCEPT !.reader = FALSE]
        /\ waiter' = [waiter EXCEPT !.at = "done", !.verdict = "Exec"]
    BY <1>5 DEF read_report, DecodeRest, Settle, Eof
  <2>2. kid.ran \/ kid.murdered
    BY <1>3, <1>5
  <2>3. ChildTypes'
    BY <1>1, <2>1 DEF ChildInv, ChildTypes, KidTypes, Ends
  <2>4. OnItsWay'
    BY <1>1, <1>5, <2>1 DEF ChildInv, OnItsWay
  <2>5. PipeIsTrue'
    BY <1>1, <1>5, <2>1 DEF ChildInv, ChildTypes, OnItsWay, PipeIsTrue, Over, Dead
  <2>6. Listening'
    BY <1>1, <1>5, <2>1 DEF ChildInv, ChildTypes, OnItsWay, PipeIsTrue, Listening, Over, Dead
  <2>7. Told'
    BY <1>1, <2>1, <2>2
    DEF ChildInv, ChildTypes, PipeIsTrue, Told, Over, Dead, Messages, Before, Early, Terminal, Rest
  <2>8. FailedIsGone'
    BY <1>1, <1>5, <2>1 DEF ChildInv, ChildTypes, PipeIsTrue, Told, FailedIsGone, Over
  <2> QED BY <2>3, <2>4, <2>5, <2>6, <2>7, <2>8 DEF ChildInv
<1>6. CASE ~waiter.stop /\ waiter.at = "rest" /\ report.sent # <<>>
  <2>1. UNCHANGED report /\ waiter' = [waiter EXCEPT !.at = "waitpid", !.verdict = report.sent[1]]
    BY <1>6 DEF read_report, DecodeRest, Settled, Eof
  <2>2. 1 \in 1 .. Len(report.sent) /\ report.sent[1] \in Messages
    BY ChildFacts, <1>6
  <2>3. report.sent[1] # "Ready"
    BY <1>6, <2>2 DEF ChildInv, PipeIsTrue, Listening
  <2>4. Dead /\ kid.failed = report.sent[1]
    BY <2>2, <2>3 DEF ChildInv, PipeIsTrue
  <2>5. ChildTypes'
    BY <1>1, <2>1, <2>2 DEF ChildInv, ChildTypes, KidTypes, Ends
  <2>6. OnItsWay'
    BY <1>1, <1>6, <2>1 DEF ChildInv, OnItsWay
  <2>7. PipeIsTrue'
    BY <1>1, <1>6, <2>1 DEF ChildInv, ChildTypes, OnItsWay, PipeIsTrue, Over, Dead
  <2>8. Listening'
    BY <1>1, <1>6, <2>1 DEF ChildInv, ChildTypes, OnItsWay, PipeIsTrue, Listening, Over, Dead
  <2>9. Told'
    BY <1>1, <2>1, <2>2, <2>4
    DEF ChildInv, ChildTypes, PipeIsTrue, Told, Over, Dead, Messages, Before, Early, Terminal, Rest
  <2>10. FailedIsGone'
    BY <1>1, <1>6, <2>1 DEF ChildInv, ChildTypes, PipeIsTrue, Told, FailedIsGone, Over
  <2> QED BY <2>5, <2>6, <2>7, <2>8, <2>9, <2>10 DEF ChildInv
<1>7. CASE ~waiter.stop /\ waiter.at = "first" /\ report.sent # <<>>
  <2> DEFINE ready == report.sent[1] = "Ready"
  <2>1. /\ waiter' = [waiter EXCEPT !.at = "rest", !.ready = ready]
        /\ report' = [report EXCEPT !.sent = IF ready THEN Tail(report.sent) ELSE report.sent]
    BY ChildFacts, <1>7 DEF read_report, DecodeFirst, Eof
  <2>2. /\ Len(report.sent) \in Nat /\ Len(report.sent) > 0 /\ report.sent[1] \in Messages
        /\ Tail(report.sent) \in Seq(Messages) /\ Len(Tail(report.sent)) = Len(report.sent) - 1
        /\ \A i \in 1 .. Len(Tail(report.sent)) : Tail(report.sent)[i] = report.sent[i + 1]
    BY ChildFacts, <1>7
  <2>3. CASE ready
    <3>1. /\ waiter'.at = "rest" /\ waiter'.ready = TRUE /\ waiter'.verdict = waiter.verdict
          /\ report'.sent = Tail(report.sent) /\ report'.reader = report.reader
      BY ChildFacts, <2>1, <2>3
    <3>2. ChildTypes'
      BY <1>1, <2>1, <2>2, <2>3 DEF ChildInv, ChildTypes, KidTypes
    <3>3. OnItsWay'
      BY <1>1, <1>7, <2>2, <2>3, <3>1 DEF ChildInv, OnItsWay
    <3>4. PipeIsTrue'
      <4>1. \A i \in 1 .. Len(report'.sent) :
              /\ i + 1 \in 1 .. Len(report.sent) /\ i + 1 # 1 /\ i \in Nat
              /\ report'.sent[i] = report.sent[i + 1]
        BY <2>2, <3>1
      <4>2. \A i \in 1 .. Len(report'.sent) :
              report'.sent[i] # "Ready" /\ report'.sent[i] = kid'.failed /\ Dead'
        BY <1>1, <4>1 DEF ChildInv, PipeIsTrue, Dead, Over
      <4>3. ~(kid.state \in {"none", "setup"} /\ kid.at < Len(ChildPlan(spawn)))
        BY <1>7 DEF ChildInv, PipeIsTrue
      <4> HIDE DEF ready
      <4> QED BY ChildFacts, <1>1, <1>7, <3>1, <4>2, <4>3 DEF ChildInv, PipeIsTrue
    <3>5. Listening'
      <4>1. Dead => kid.murdered \/ report.sent[Len(report.sent)] # "Ready"
        BY <1>7 DEF ChildInv, Listening
      <4>2. ASSUME report.sent[Len(report.sent)] # "Ready"
            PROVE  report'.sent # <<>> /\ report'.sent[Len(report'.sent)] # "Ready"
        <5>1. Len(report.sent) # 1
          BY <2>3, <4>2
        <5> DEFINE tail == Tail(report.sent)
                   last == Len(report.sent) - 1
        <5>2. Len(tail) = last
          BY <2>2
        <5>3. last \in Nat /\ last > 0
          <6>1. \A n \in Nat : n > 0 /\ n # 1 => n - 1 \in Nat /\ n - 1 > 0
            OBVIOUS
          <6> HIDE DEF tail
          <6> QED BY <2>2, <5>1, <6>1
        <5>4. tail[last] = report.sent[last + 1]
          BY <2>2, <5>2, <5>3
        <5>5. tail # <<>>
          <6> HIDE DEF tail, last
          <6> QED BY <5>2, <5>3
        <5>6. report.sent[last + 1] = report.sent[Len(report.sent)]
          BY <2>2
        <5> HIDE DEF last
        <5> QED BY <3>1, <4>2, <5>2, <5>4, <5>6, <5>5
      <4>3. Dead' = Dead
        BY <1>1 DEF Dead, Over
      <4> QED BY <1>1, <1>7, <3>1, <4>1, <4>2, <4>3 DEF ChildInv, Listening
    <3>6. Told'
      BY <1>1, <1>7, <2>2, <2>3, <3>1 DEF ChildInv, ChildTypes, PipeIsTrue, Told, Over, Dead
    <3>7. FailedIsGone'
      BY <1>1, <1>7, <2>2, <2>3, <3>1 DEF ChildInv, ChildTypes, PipeIsTrue, Told, FailedIsGone, Over
    <3> QED BY <3>2, <3>3, <3>4, <3>5, <3>6, <3>7 DEF ChildInv
  <2>4. CASE ~ready
    <3>1. /\ waiter'.at = "rest" /\ waiter'.ready = FALSE /\ waiter'.verdict = waiter.verdict
          /\ report'.sent = report.sent /\ report'.reader = report.reader
      BY ChildFacts, <2>1, <2>4
    <3>2. ChildTypes'
      BY <1>1, <2>1, <2>2, <2>4 DEF ChildInv, ChildTypes, KidTypes
    <3>3. OnItsWay'
      BY <1>1, <1>7, <2>2, <2>4, <3>1 DEF ChildInv, OnItsWay
    <3>4. PipeIsTrue'
      BY <1>1, <1>7, <2>2, <2>4, <3>1 DEF ChildInv, ChildTypes, OnItsWay, PipeIsTrue, Over, Dead
    <3>5. Listening'
      BY <1>1, <1>7, <2>2, <2>4, <3>1
      DEF ChildInv, ChildTypes, OnItsWay, PipeIsTrue, Listening, Over, Dead
    <3>6. Told'
      BY <1>1, <1>7, <2>2, <2>4, <3>1 DEF ChildInv, ChildTypes, PipeIsTrue, Told, Over, Dead
    <3>7. FailedIsGone'
      BY <1>1, <1>7, <2>2, <2>4, <3>1 DEF ChildInv, ChildTypes, PipeIsTrue, Told, FailedIsGone, Over
    <3> QED BY <3>2, <3>3, <3>4, <3>5, <3>6, <3>7 DEF ChildInv
  <2> QED BY <2>3, <2>4
<1> QED BY <1>2, <1>4, <1>5, <1>6, <1>7 DEF read_report, DecodeFirst, DecodeRest

(* The descriptors the child starts with.                                  *)
LEMMA InheritedShape ==
  ASSUME NEW s \in Setups
  PROVE  /\ Inherited(s) \in FdTable /\ Inherited(s)[6].file = "report"
         /\ NoFd \in {Inherited(s)[7], Inherited(s)[8]}
<1>1. s.listen \in {0, 3, 4, 7, 8}
  BY ChildAssumption
<1>2. \A fd \in Fds : Inherited(s)[fd] \in [file : Files, cloexec : BOOLEAN]
  <2> SUFFICES ASSUME NEW fd \in Fds PROVE Inherited(s)[fd] \in [file : Files, cloexec : BOOLEAN]
    OBVIOUS
  <2>1. \A file \in Files, c \in BOOLEAN : [file |-> file, cloexec |-> c] \in [file : Files, cloexec : BOOLEAN]
    OBVIOUS
  <2> QED BY <1>1, <2>1 DEF Inherited, NoFd, Files, Fds
<1>3. Inherited(s) \in FdTable
  BY <1>2 DEF Inherited, FdTable
<1>4. Inherited(s)[6].file = "report"
  BY <1>1 DEF Inherited, Fds
<1>5. NoFd \in {Inherited(s)[7], Inherited(s)[8]}
  BY <1>1 DEF Inherited, Fds
<1> QED BY <1>3, <1>4, <1>5

(* The invariant holds at the start.                                       *)
LEMMA ChildStarts == ChildInit => ChildInv
<1> SUFFICES ASSUME ChildInit PROVE ChildInv
  OBVIOUS
<1>1. /\ spawn \in Setups /\ DOMAIN kid = KidFields
      /\ kid.at \in Nat /\ kid.at = 1 /\ kid.fds = Inherited(spawn) /\ kid.state = "none"
      /\ kid.ran = FALSE /\ kid.killed = FALSE /\ kid.murdered = FALSE
      /\ report = [sent |-> <<>>, reader |-> TRUE]
      /\ waiter = [at |-> "begin", ready |-> FALSE, verdict |-> "none", stop |-> FALSE, gaveUp |-> FALSE]
  BY DEF ChildInit, KidFields
<1>2. Len(ChildPlan(spawn)) \in Nat /\ Len(ChildPlan(spawn)) > 2 /\ Len(Prologue(spawn)) + 1 > 1
  BY <1>1, PlanShape
<1>3. ChildTypes
  <2>1. kid.fds \in FdTable
    BY <1>1, InheritedShape
  <2>2. KidTypes
    <3>1. kid.ran \in BOOLEAN /\ kid.killed \in BOOLEAN /\ kid.murdered \in BOOLEAN
      BY <1>1, Zenon
    <3> QED BY <1>1, <2>1, <3>1 DEF KidTypes
  <2>3. <<>> \in Seq(Messages) /\ "none" \in Ends
    BY DEF Ends
  <2> QED BY <1>1, <2>2, <2>3 DEF ChildTypes
<1>4. OnItsWay
  <2>1. Len(Prologue(spawn)) + 1 \in Nat
    BY <1>1, PlanShape
  <2>2. /\ kid.fds[6].file = "report" /\ NoFd \in {kid.fds[7], kid.fds[8]}
        /\ kid.at \notin {Len(Prologue(spawn)) + 1 + 1, Len(Prologue(spawn)) + 1 + 2}
    BY <1>1, <1>2, <2>1, InheritedShape
  <2>3. kid.at <= Len(ChildPlan(spawn))
    BY <1>1, <1>2
  <2> QED BY <1>1, <2>2, <2>3 DEF OnItsWay
<1>5. PipeIsTrue
  <2>1. Len(report.sent) = 0 /\ report.sent = <<>> /\ report.reader /\ ~waiter.ready /\ waiter.at = "begin"
    BY <1>1
  <2> QED BY <1>1, <2>1 DEF PipeIsTrue
<1>6. Listening /\ FailedIsGone
  BY <1>1 DEF Listening, FailedIsGone
<1>7. Told
  BY <1>1 DEF Told, Messages, Before, Early, Terminal, Rest
<1> QED BY <1>3, <1>4, <1>5, <1>6, <1>7 DEF ChildInv

(* The two ways to begin.                                                  *)
LEMMA BeginKeeps == ASSUME ChildInv, posix_spawn_full \/ spawn_sandboxed_begin PROVE ChildInv'
<1>1. /\ spawn \in Setups /\ UNCHANGED <<spawn, report>> /\ waiter.at = "begin" /\ kid.state = "none"
      /\ kid.at \in Nat /\ kid.at = 1 /\ ~kid.ran /\ ~kid.killed /\ kid.fds \in FdTable
      /\ report.reader
  BY ChildFacts
  DEF posix_spawn_full, spawn_sandboxed_begin, ChildInv, ChildTypes, KidTypes, OnItsWay, PipeIsTrue
<1>2. report.sent = <<>> /\ ~waiter.ready
  <2>1. Len(ChildPlan(spawn)) \in Nat /\ Len(ChildPlan(spawn)) > 2
    BY <1>1, PlanShape
  <2>2. kid.at < Len(ChildPlan(spawn))
    BY <1>1, <2>1
  <2> QED BY <1>1, <2>2 DEF ChildInv, PipeIsTrue
<1>3. CASE spawn_sandboxed_begin /\ spawn.fails # "fork"
  <2>1. /\ kid' = [kid EXCEPT !.state = "setup"] /\ waiter' = [waiter EXCEPT !.at = spawn.mode]
        /\ spawn.mode \in {"first", "detach", "abandon", "drop"}
    BY <1>1, <1>3, ChildAssumption DEF spawn_sandboxed_begin
  <2>2. /\ DOMAIN kid' = KidFields /\ kid'.state = "setup" /\ kid'.at = kid.at /\ kid'.fds = kid.fds
        /\ kid'.ran = kid.ran /\ kid'.failed = kid.failed
        /\ kid'.murdered = kid.murdered /\ kid'.killed = kid.killed
    BY ChildFacts, <2>1 DEF KidFields
  <2>3. kid'.at # Len(ChildPlan(spawn'))
    BY <1>1, <2>2, PlanShape
  <2>4. ChildTypes'
    BY ChildFacts, <1>1, <1>2, <2>1, <2>2 DEF ChildInv, ChildTypes, KidTypes
  <2>5. OnItsWay'
    BY ChildFacts, <1>1, <1>2, <2>1, <2>2 DEF ChildInv, OnItsWay
  <2>6. PipeIsTrue'
    BY ChildFacts, <1>1, <1>2, <2>1, <2>2 DEF ChildInv, ChildTypes, OnItsWay, PipeIsTrue, Over, Dead
  <2>7. Listening'
    BY ChildFacts, <1>1, <1>2, <2>1, <2>2, <2>3
    DEF ChildInv, ChildTypes, OnItsWay, PipeIsTrue, Listening, Over, Dead
  <2>8. Told'
    BY ChildFacts, <1>1, <1>2, <2>1, <2>2 DEF ChildInv, ChildTypes, PipeIsTrue, Told, Over, Dead
  <2>9. FailedIsGone'
    BY ChildFacts, <1>1, <1>2, <2>1, <2>2 DEF ChildInv, ChildTypes, PipeIsTrue, Told, FailedIsGone, Over
  <2> QED BY <2>4, <2>5, <2>6, <2>7, <2>8, <2>9 DEF ChildInv
<1>4. CASE spawn_sandboxed_begin /\ spawn.fails = "fork"
  <2>1. /\ kid' = [kid EXCEPT !.state = "gone"]
        /\ waiter' = [waiter EXCEPT !.at = "done", !.verdict = "fork"]
    BY <1>4 DEF spawn_sandboxed_begin
  <2>2. /\ DOMAIN kid' = KidFields /\ kid'.state = "gone" /\ kid'.at = kid.at /\ kid'.fds = kid.fds
        /\ kid'.ran = kid.ran /\ kid'.failed = kid.failed
        /\ kid'.murdered = kid.murdered /\ kid'.killed = kid.killed
    BY ChildFacts, <2>1 DEF KidFields
  <2>3. ChildTypes'
    BY ChildFacts, <1>1, <2>1, <2>2, ZenonT(60) DEF ChildInv, ChildTypes, KidTypes, Ends
  <2>4. OnItsWay'
    BY ChildFacts, <1>1, <1>2, <2>1, <2>2 DEF ChildInv, OnItsWay
  <2>5. PipeIsTrue'
    BY ChildFacts, <1>1, <1>2, <2>1, <2>2 DEF ChildInv, ChildTypes, OnItsWay, PipeIsTrue, Over, Dead
  <2>6. Listening'
    BY ChildFacts, <1>1, <1>2, <2>1, <2>2
    DEF ChildInv, ChildTypes, OnItsWay, PipeIsTrue, Listening, Over, Dead
  <2>7. Told'
    BY ChildFacts, <1>1, <2>1, <2>2
    DEF ChildInv, ChildTypes, PipeIsTrue, Told, Over, Dead, Messages, Before, Early, Terminal, Rest
  <2>8. FailedIsGone'
    BY ChildFacts, <1>1, <1>2, <2>1, <2>2 DEF ChildInv, ChildTypes, PipeIsTrue, Told, FailedIsGone, Over
  <2> QED BY <2>3, <2>4, <2>5, <2>6, <2>7, <2>8 DEF ChildInv
<1>5. CASE posix_spawn_full
  <2> DEFINE stdio == IF spawn.stdio THEN dup2(dup2(kid.fds, 5, 1), 5, 2) ELSE kid.fds
             child == [kid EXCEPT !.session = TRUE, !.dir = TRUE, !.fds = stdio]
  <2>1. \/ /\ waiter' = [waiter EXCEPT !.at = "done", !.verdict = "posix_spawn"]
           /\ kid' = [kid EXCEPT !.state = "gone", !.failed = spawn.fails]
        \/ /\ waiter' = [waiter EXCEPT !.at = "done", !.verdict = "Exec"]
           /\ kid' = Done(child, spawn, "execve")
    BY <1>5 DEF posix_spawn_full
  <2>2. stdio \in FdTable
    <3>1. {1, 2, 5} \subseteq Fds
      BY DEF Fds
    <3>2. dup2(kid.fds, 5, 1) \in FdTable
      BY <1>1, <3>1, Dup2Moves
    <3>3. dup2(dup2(kid.fds, 5, 1), 5, 2) \in FdTable
      BY <3>1, <3>2, Dup2Moves
    <3> QED BY <1>1, <3>3
  <2> HIDE DEF stdio
  <2>3. CASE waiter'.verdict = "posix_spawn"
    <3>1. waiter' = [waiter EXCEPT !.at = "done", !.verdict = "posix_spawn"]
      BY ChildFacts, <2>1, <2>3
    <3>2. /\ DOMAIN kid' = KidFields /\ kid'.state = "gone" /\ kid'.at = kid.at /\ kid'.fds = kid.fds
          /\ kid'.ran = kid.ran
          /\ kid'.murdered = kid.murdered /\ kid'.killed = kid.killed
      BY ChildFacts, <2>1, <2>3 DEF KidFields
    <3> HIDE DEF child
    <3>3. ChildTypes'
      BY ChildFacts, <1>1, <3>1, <3>2, ZenonT(60) DEF ChildInv, ChildTypes, KidTypes, Ends
    <3>4. OnItsWay'
      BY ChildFacts, <1>1, <1>2, <3>1, <3>2 DEF ChildInv, OnItsWay
    <3>5. PipeIsTrue'
      BY ChildFacts, <1>1, <1>2, <3>1, <3>2 DEF ChildInv, ChildTypes, OnItsWay, PipeIsTrue, Over, Dead
    <3>6. Listening'
      BY ChildFacts, <1>1, <1>2, <3>1, <3>2
      DEF ChildInv, ChildTypes, OnItsWay, PipeIsTrue, Listening, Over, Dead
    <3>7. Told'
      BY ChildFacts, <1>1, <3>1, <3>2
      DEF ChildInv, ChildTypes, PipeIsTrue, Told, Over, Dead, Messages, Before, Early, Terminal, Rest
    <3>8. FailedIsGone'
      BY ChildFacts, <1>1, <1>2, <3>1, <3>2
      DEF ChildInv, ChildTypes, PipeIsTrue, Told, FailedIsGone, Over
    <3> QED BY <3>3, <3>4, <3>5, <3>6, <3>7, <3>8 DEF ChildInv
  <2>4. CASE waiter'.verdict # "posix_spawn"
    <3>1. waiter' = [waiter EXCEPT !.at = "done", !.verdict = "Exec"] /\ kid' = Done(child, spawn, "execve")
      BY ChildFacts, <2>1, <2>4
    <3>2. DOMAIN child = KidFields /\ child.fds = stdio /\ child.at = kid.at /\ child.murdered = kid.murdered
          /\ child.killed = kid.killed /\ child.failed = kid.failed
      BY ChildFacts DEF KidFields
    <3> HIDE DEF child
    <3>3. kid' = [child EXCEPT !.fds = [fd \in Fds |-> IF child.fds[fd].cloexec THEN NoFd ELSE child.fds[fd]],
                               !.cred = Execve(child.cred), !.state = "running", !.ran = TRUE]
      BY <3>1, <3>2 DEF Done, KidFields
    <3>4. /\ DOMAIN kid' = KidFields /\ kid'.state = "running" /\ kid'.at = kid.at
          /\ kid'.ran = TRUE /\ kid'.failed = kid.failed
          /\ kid'.murdered = kid.murdered /\ kid'.killed = kid.killed
          /\ kid'.fds = [fd \in Fds |-> IF stdio[fd].cloexec THEN NoFd ELSE stdio[fd]]
      BY <3>2, <3>3 DEF KidFields
    <3>5. kid'.fds \in FdTable
      BY <2>2, <3>4, ExecCloses
    <3>6. kid'.ran \in BOOLEAN
      BY <3>4, Zenon
    <3>7. ChildTypes'
      BY ChildFacts, <1>1, <3>1, <3>4, <3>5, <3>6, ZenonT(60) DEF ChildInv, ChildTypes, KidTypes, Ends
    <3>8. OnItsWay'
      BY ChildFacts, <1>1, <1>2, <3>1, <3>4 DEF ChildInv, OnItsWay
    <3>9. PipeIsTrue'
      BY ChildFacts, <1>1, <1>2, <3>1, <3>4 DEF ChildInv, ChildTypes, OnItsWay, PipeIsTrue, Over, Dead
    <3>10. Listening'
      BY ChildFacts, <1>1, <1>2, <3>1, <3>4
      DEF ChildInv, ChildTypes, OnItsWay, PipeIsTrue, Listening, Over, Dead
    <3>11. Told'
      BY ChildFacts, <1>1, <3>1, <3>4
      DEF ChildInv, ChildTypes, PipeIsTrue, Told, Over, Dead, Messages, Before, Early, Terminal, Rest
    <3>12. FailedIsGone'
      BY ChildFacts, <1>1, <1>2, <3>1, <3>4
      DEF ChildInv, ChildTypes, PipeIsTrue, Told, FailedIsGone, Over
    <3> QED BY <3>7, <3>8, <3>9, <3>10, <3>11, <3>12 DEF ChildInv
  <2> QED BY <2>3, <2>4
<1> QED BY <1>3, <1>4, <1>5

(* A step before "Ready" keeps the pipe open and the child on its way.     *)
LEMMA DoneShape ==
  ASSUME NEW k, DOMAIN k = KidFields, k.fds \in FdTable, k.fds[6].file = "report",
         NEW s \in Setups, NEW step \in Before,
         step = "OpenTty" => NoFd \in {k.fds[7], k.fds[8]},
         step = "TtyDup2" => \E fd \in Fds : k.fds[fd].file = "tty"
  PROVE  LET d == Done(k, s, step)
         IN /\ DOMAIN d = KidFields /\ d.at = k.at /\ d.state = k.state /\ d.ran = k.ran
            /\ d.failed = k.failed /\ d.killed = k.killed /\ d.murdered = k.murdered
            /\ d.fds \in FdTable /\ d.fds[6].file = "report"
            /\ step \notin {"OpenTty", "TtyDup2"} => d.fds[7] = k.fds[7] /\ d.fds[8] = k.fds[8]
            /\ step = "OpenTty" => \E fd \in Fds : d.fds[fd].file = "tty"
            /\ step = "SetControllingTerminal" => d.fds = k.fds
<1> DEFINE d == Done(k, s, step)
<1>1. Fds = {0, 1, 2, 3, 4, 5, 6, 7, 8}
  BY DEF Fds
<1>2. CASE step = "Listen"
  <2>1. d = [k EXCEPT !.fds = HandListener(k.fds, s.listen)]
    BY <1>2 DEF Done
  <2>2. s.listen \in {0, 3, 4, 7, 8}
    BY ChildAssumption
  <2> DEFINE fds == HandListener(k.fds, s.listen)
  <2>3. fds \in FdTable /\ \A fd \in Fds : fd # 3 => fds[fd] = k.fds[fd]
    <3>1. CASE s.listen = 3
      <4> DEFINE open == [k.fds[3] EXCEPT !.cloexec = FALSE]
      <4>1. fds = [k.fds EXCEPT ![LISTEN_FD] = open]
        BY <3>1 DEF HandListener, LISTEN_FD
      <4>2. k.fds[3] \in [file : Files, cloexec : BOOLEAN]
        BY <1>1 DEF FdTable
      <4>3. open \in [file : Files, cloexec : BOOLEAN]
        BY <4>2
      <4> HIDE DEF fds, open
      <4>4. LISTEN_FD \in Fds /\ LISTEN_FD = 3
        BY <1>1 DEF LISTEN_FD
      <4>5. fds \in FdTable /\ \A fd \in Fds : fd # LISTEN_FD => fds[fd] = k.fds[fd]
        BY <4>1, <4>3, <4>4 DEF FdTable
      <4> QED BY <4>4, <4>5
    <3>2. CASE s.listen # 3
      <4>1. fds = dup2(k.fds, s.listen, 3)
        BY <3>2 DEF HandListener, LISTEN_FD
      <4>2. s.listen \in Fds /\ 3 \in Fds
        BY <1>1, <2>2
      <4>3. /\ dup2(k.fds, s.listen, 3) \in FdTable
            /\ \A fd \in Fds : fd # 3 => dup2(k.fds, s.listen, 3)[fd] = k.fds[fd]
        BY <4>2, Dup2Moves, ZenonT(60)
      <4> QED BY <4>1, <4>3
    <3> QED BY <3>1, <3>2
  <2> HIDE DEF fds, d
  <2>4. /\ DOMAIN d = KidFields /\ d.at = k.at /\ d.state = k.state /\ d.ran = k.ran
        /\ d.failed = k.failed /\ d.killed = k.killed /\ d.murdered = k.murdered /\ d.fds = fds
    BY <2>1 DEF KidFields, fds
  <2> QED BY <1>1, <1>2, <2>3, <2>4 DEF d
<1>3. CASE step = "Stdio"
  <2> DEFINE one == dup2(k.fds, 5, 1)
             fds == dup2(one, 5, 2)
  <2>1. d = [k EXCEPT !.fds = fds]
    BY <1>3 DEF Done
  <2>2. one \in FdTable /\ \A fd \in Fds : fd # 1 => one[fd] = k.fds[fd]
    BY <1>1, Dup2Moves
  <2> HIDE DEF one
  <2>3. fds \in FdTable /\ \A fd \in Fds : fd # 2 => fds[fd] = one[fd]
    BY <1>1, <2>2, Dup2Moves
  <2> HIDE DEF fds, d
  <2>4. /\ DOMAIN d = KidFields /\ d.at = k.at /\ d.state = k.state /\ d.ran = k.ran
        /\ d.failed = k.failed /\ d.killed = k.killed /\ d.murdered = k.murdered /\ d.fds = fds
    BY <2>1 DEF KidFields
  <2> QED BY <1>1, <1>3, <2>2, <2>3, <2>4 DEF d
<1>4. CASE step = "OpenTty"
  <2> DEFINE new == FreeFd(k.fds)
             fds == [k.fds EXCEPT ![new] = [file |-> "tty", cloexec |-> FALSE]]
  <2>1. d = [k EXCEPT !.fds = fds]
    BY <1>4 DEF Done
  <2>2. new \in Fds /\ k.fds[new] = NoFd
    BY <1>4, FreeFdExists
  <2>3. new # 6
    BY <2>2 DEF NoFd
  <2> HIDE DEF new
  <2>4. fds \in FdTable /\ fds[6] = k.fds[6] /\ fds[new].file = "tty"
    BY <1>1, <2>2, <2>3 DEF FdTable, Files
  <2> HIDE DEF fds, d
  <2>5. /\ DOMAIN d = KidFields /\ d.at = k.at /\ d.state = k.state /\ d.ran = k.ran
        /\ d.failed = k.failed /\ d.killed = k.killed /\ d.murdered = k.murdered /\ d.fds = fds
    BY <2>1 DEF KidFields
  <2> QED BY <1>4, <2>2, <2>4, <2>5 DEF d
<1>5. CASE step = "TtyDup2"
  <2> DEFINE tty == TtyFd(k.fds)
             a == dup2(k.fds, tty, 0)
             b == dup2(a, tty, 1)
             c == dup2(b, tty, 2)
             fds == CloseTty(c, tty)
  <2>1. d = [k EXCEPT !.fds = fds]
    BY <1>5 DEF Done
  <2>2. tty \in Fds /\ k.fds[tty].file = "tty"
    BY <1>5 DEF TtyFd
  <2>3. tty # 6
    BY <2>2
  <2> HIDE DEF tty
  <2>4. a \in FdTable /\ a[6] = k.fds[6]
    BY <1>1, <2>2, Dup2Moves
  <2> HIDE DEF a
  <2>5. b \in FdTable /\ b[6] = a[6]
    BY <1>1, <2>2, <2>4, Dup2Moves
  <2> HIDE DEF b
  <2>6. c \in FdTable /\ c[6] = b[6]
    BY <1>1, <2>2, <2>5, Dup2Moves
  <2> HIDE DEF c
  <2>7. fds \in FdTable /\ fds[6] = c[6]
    BY <1>1, <2>2, <2>3, <2>6 DEF CloseTty, FdTable, NoFd, Files
  <2> HIDE DEF fds, d
  <2>8. /\ DOMAIN d = KidFields /\ d.at = k.at /\ d.state = k.state /\ d.ran = k.ran
        /\ d.failed = k.failed /\ d.killed = k.killed /\ d.murdered = k.murdered /\ d.fds = fds
    BY <2>1 DEF KidFields
  <2> QED BY <1>5, <2>4, <2>5, <2>6, <2>7, <2>8 DEF d
<1>6. CASE step \notin {"Listen", "Stdio", "OpenTty", "TtyDup2"}
  <2>1. \/ d = [k EXCEPT !.session = TRUE]
        \/ d = [k EXCEPT !.terminal = TRUE]
        \/ d = [k EXCEPT !.dir = TRUE]
        \/ d = [k EXCEPT !.cgroup = TRUE]
        \/ d = [k EXCEPT !.cred = Take(k.cred, s.sandbox, step)]
    <3>1. step # "execve"
      BY DEF Before, Early, Terminal, Rest
    <3> QED BY <1>6, <3>1 DEF Done
  <2> HIDE DEF d
  <2>2. /\ DOMAIN d = KidFields /\ d.at = k.at /\ d.state = k.state /\ d.ran = k.ran
        /\ d.failed = k.failed /\ d.killed = k.killed /\ d.murdered = k.murdered /\ d.fds = k.fds
    BY <2>1 DEF KidFields
  <2> QED BY <1>6, <2>2 DEF d
<1> QED BY <1>2, <1>3, <1>4, <1>5, <1>6

(* A step of the child.                                                    *)
LEMMA ExecKeeps == ASSUME ChildInv, child_exec PROVE ChildInv'
<1> DEFINE n == Len(ChildPlan(spawn))
           step == ChildPlan(spawn)[kid.at]
           next == [kid EXCEPT !.at = kid.at + 1]
<1>1. /\ spawn \in Setups /\ kid.state = "setup" /\ ~kid.killed /\ ~kid.ran /\ kid.ran \in BOOLEAN
      /\ kid.at \in Nat \ {0} /\ kid.at <= n /\ kid.fds \in FdTable /\ UNCHANGED <<spawn, waiter>>
  BY DEF child_exec, Blocked, ChildInv, ChildTypes, KidTypes, OnItsWay
<1>2. /\ n \in Nat /\ n > 2 /\ kid.at \in 1 .. n
      /\ ChildPlan(spawn)[n] = "execve" /\ ChildPlan(spawn)[n - 1] = "Ready"
      /\ \A i \in 1 .. n : i < n - 1 => ChildPlan(spawn)[i] \in Before
  BY <1>1, PlanShape
<1>3. /\ step = "Ready" => kid.at = n - 1
      /\ step = "execve" => kid.at = n
      /\ step \notin {"Ready", "execve"} => kid.at < n - 1 /\ step \in Before
  <2>1. kid.at < n - 1 \/ kid.at = n - 1 \/ kid.at = n
    BY <1>2
  <2>2. "Ready" \notin Before /\ "execve" \notin Before
    BY DEF Before, Early, Terminal, Rest
  <2> QED BY <1>2, <2>1, <2>2
<1>4. /\ waiter.at \notin {"begin", "loop"}
      /\ waiter.verdict \notin Messages \cup {"DiedBeforeExec", "fork", "posix_spawn"}
      /\ waiter.at = "done" => waiter.verdict \in {"Exec", "detached"}
  BY ChildFacts, <1>1 DEF ChildInv, Told, FailedIsGone, Over, Dead
<1>5. \A i \in 1 .. Len(report.sent) : report.sent[i] = "Ready" /\ i = 1 /\ ~waiter.ready
  BY <1>1 DEF ChildInv, PipeIsTrue, Dead, Over
<1>6. /\ waiter.at \in {"first", "rest"} => report.reader
      /\ waiter.at = "rest" => waiter.ready
      /\ waiter.at = "first" => ~waiter.ready
  <2>1. report.sent # <<>> => 1 \in 1 .. Len(report.sent)
    BY ChildFacts
  <2> QED BY <1>5, <2>1 DEF ChildInv, Listening
<1>7. DOMAIN next = KidFields /\ next.at = kid.at + 1 /\ next.fds = kid.fds /\ next.state = kid.state
      /\ next.ran = kid.ran /\ next.failed = kid.failed /\ next.killed = kid.killed
      /\ next.murdered = kid.murdered
  BY ChildFacts DEF KidFields
<1>8. CASE step = "Ready"
  <2>1. write_report(next, "Ready")
    BY <1>8 DEF child_exec
  <2>2. report.sent = <<>> /\ ~waiter.ready /\ kid.at + 1 = n
    BY <1>1, <1>2, <1>3, <1>8 DEF ChildInv, PipeIsTrue
  <2> HIDE DEF next
  <2>3. CASE report.reader
    <3>1. kid' = next /\ report' = [report EXCEPT !.sent = Append(report.sent, "Ready")]
      BY <2>1, <2>3 DEF write_report
    <3>2. report'.sent = <<"Ready">> /\ report'.reader = report.reader
      BY ChildFacts, <2>2, <3>1
    <3>3. /\ \A i \in 1 .. Len(report'.sent) : i = 1 /\ report'.sent[i] = "Ready"
          /\ report'.sent # <<>> /\ <<"Ready">> \in Seq(Messages)
      BY <3>2 DEF Messages
    <3>4. OnItsWay'
      <4>1. /\ Len(Prologue(spawn)) + 1 \in Nat
            /\ spawn.tty => /\ Len(Prologue(spawn)) + 1 + 2 < n - 1
        BY <1>1, PlanShape
      <4>2. /\ kid.fds[6].file = "report"
            /\ kid.at <= Len(Prologue(spawn)) + 1 => NoFd \in {kid.fds[7], kid.fds[8]}
        BY <1>1 DEF ChildInv, OnItsWay
      <4> QED BY <1>1, <1>2, <1>7, <2>2, <3>1, <4>1, <4>2, SMTT(60) DEF OnItsWay
    <3>5. ChildTypes'
      <4>1. Append(report.sent, "Ready") \in Seq(Messages)
        BY <2>2, <3>3
      <4>2. report' \in [sent : Seq(Messages), reader : BOOLEAN]
        BY ChildFacts, <3>1, <4>1
      <4>3. KidTypes'
        BY <1>1, <1>7, <3>1 DEF ChildInv, ChildTypes, KidTypes
      <4> QED BY <1>1, <4>2, <4>3 DEF ChildInv, ChildTypes
    <3>6. OnItsWay'
      BY <3>4 DEF ChildInv, OnItsWay
    <3>7. PipeIsTrue'
      BY ChildFacts, <1>1, <1>2, <1>4, <1>6, <1>7, <2>2, <3>1, <3>2, <3>3
      DEF ChildInv, ChildTypes, OnItsWay, PipeIsTrue, Over, Dead
    <3>8. Listening'
      BY ChildFacts, <1>1, <1>2, <1>4, <1>6, <1>7, <2>2, <3>1, <3>2, <3>3
      DEF ChildInv, ChildTypes, OnItsWay, PipeIsTrue, Listening, Over, Dead
    <3>9. Told'
      BY ChildFacts, <1>1, <1>2, <1>4, <1>6, <1>7, <2>2, <3>1, <3>2, <3>3
      DEF ChildInv, ChildTypes, PipeIsTrue, Told, Over, Dead
    <3>10. FailedIsGone'
      BY ChildFacts, <1>1, <1>2, <1>4, <1>6, <1>7, <2>2, <3>1, <3>2, <3>3
      DEF ChildInv, ChildTypes, PipeIsTrue, Told, FailedIsGone, Over
    <3> QED BY <3>5, <3>6, <3>7, <3>8, <3>9, <3>10 DEF ChildInv
  <2>4. CASE ~report.reader
    <3>1. UNCHANGED report /\ kid' = [next EXCEPT !.state = "zombie", !.end = "SIGPIPE"]
      BY <2>1, <2>4 DEF write_report
    <3>2. /\ DOMAIN kid' = KidFields /\ kid'.at = next.at /\ kid'.fds = kid.fds /\ kid'.state = "zombie"
          /\ kid'.ran = kid.ran /\ kid'.failed = kid.failed /\ kid'.killed = kid.killed
          /\ kid'.murdered = kid.murdered
      BY <1>7, <3>1 DEF KidFields
    <3>3. ChildTypes'
      BY ChildFacts, <1>1, <1>4, <1>6, <1>7, <2>2, <2>4, <3>1, <3>2 DEF ChildInv, ChildTypes, KidTypes
    <3>4. OnItsWay'
      BY ChildFacts, <1>1, <1>4, <1>6, <1>7, <2>2, <2>4, <3>1, <3>2 DEF ChildInv, OnItsWay
    <3>5. PipeIsTrue'
      BY ChildFacts, <1>1, <1>4, <1>6, <1>7, <2>2, <2>4, <3>1, <3>2
      DEF ChildInv, ChildTypes, OnItsWay, PipeIsTrue, Over, Dead
    <3>6. Listening'
      BY ChildFacts, <1>1, <1>4, <1>6, <1>7, <2>2, <2>4, <3>1, <3>2
      DEF ChildInv, ChildTypes, OnItsWay, PipeIsTrue, Listening, Over, Dead
    <3>7. Told'
      BY ChildFacts, <1>1, <1>4, <1>6, <1>7, <2>2, <2>4, <3>1, <3>2
      DEF ChildInv, ChildTypes, PipeIsTrue, Told, Over, Dead
    <3>8. FailedIsGone'
      BY ChildFacts, <1>1, <1>4, <1>6, <1>7, <2>2, <2>4, <3>1, <3>2
      DEF ChildInv, ChildTypes, PipeIsTrue, Told, FailedIsGone, Over
    <3> QED BY <3>3, <3>4, <3>5, <3>6, <3>7, <3>8 DEF ChildInv
  <2> QED BY <2>3, <2>4
<1>9. CASE step # "Ready" /\ (~Permitted(kid, spawn, step) \/ spawn.fails = step)
  <2>1. PICK k \in {kid, [kid EXCEPT !.refused = TRUE]} : die(k, step)
    BY <1>9 DEF child_exec
  <2> DEFINE m == ChildStep(step)
             dead == [k EXCEPT !.state = "zombie", !.end = "exit 127", !.failed = m]
  <2>2. m \in Messages /\ m # "Ready"
    BY <1>3, <1>9 DEF ChildStep, Messages, Before, Early, Terminal, Rest
  <2>3. /\ DOMAIN k = KidFields /\ k.at = kid.at /\ k.fds = kid.fds /\ k.ran = kid.ran
        /\ k.killed = kid.killed /\ k.murdered = kid.murdered
    BY ChildFacts, <2>1 DEF KidFields
  <2>4. write_report(dead, m)
    BY <2>1 DEF die
  <2> HIDE DEF m
  <2>5. /\ DOMAIN dead = KidFields /\ dead.at = kid.at /\ dead.fds = kid.fds /\ dead.ran = kid.ran
        /\ dead.killed = kid.killed /\ dead.murdered = kid.murdered /\ dead.state = "zombie"
        /\ dead.failed = m
    BY <2>3 DEF KidFields
  <2> HIDE DEF dead, next
  <2>6. CASE report.reader
    <3>1. kid' = dead /\ report' = [report EXCEPT !.sent = Append(report.sent, m)]
      BY <2>4, <2>6 DEF write_report
    <3>2. /\ report'.sent = Append(report.sent, m) /\ report'.reader = report.reader
          /\ report'.sent \in Seq(Messages) /\ report'.sent # <<>>
          /\ Len(report'.sent) = Len(report.sent) + 1 /\ Len(report.sent) \in Nat
          /\ report'.sent[Len(report.sent) + 1] = m
          /\ \A i \in 1 .. Len(report.sent) : report'.sent[i] = report.sent[i]
      BY ChildFacts, <2>2, <3>1
    <3>3. \A i \in 1 .. Len(report'.sent) :
             \/ report'.sent[i] = m
             \/ report'.sent[i] = "Ready" /\ i = 1 /\ ~waiter.ready
      BY <1>5, <3>2
    <3>4. ChildTypes'
      <4>1. report' \in [sent : Seq(Messages), reader : BOOLEAN]
        <5>1. Append(report.sent, m) \in Seq(Messages)
          BY <3>2
        <5> QED BY ChildFacts, <3>1, <5>1
      <4>2. KidTypes'
        BY <1>1, <2>5, <3>1 DEF ChildInv, ChildTypes, KidTypes
      <4> QED BY <1>1, <4>1, <4>2 DEF ChildInv, ChildTypes
    <3>5. OnItsWay'
      BY ChildFacts, <1>1, <1>4, <1>6, <2>2, <2>5, <3>1, <3>3 DEF ChildInv, OnItsWay
    <3>6. PipeIsTrue'
      BY ChildFacts, <1>1, <1>4, <1>6, <2>2, <2>5, <3>1, <3>3
      DEF ChildInv, ChildTypes, OnItsWay, PipeIsTrue, Over, Dead
    <3>7. Listening'
      BY ChildFacts, <1>1, <1>4, <1>6, <2>2, <2>5, <3>1, <3>2
      DEF ChildInv, ChildTypes, OnItsWay, PipeIsTrue, Listening, Over, Dead
    <3>8. Told'
      BY ChildFacts, <1>1, <1>4, <1>6, <2>2, <2>5, <3>1, <3>3
      DEF ChildInv, ChildTypes, PipeIsTrue, Told, Over, Dead
    <3>9. FailedIsGone'
      BY ChildFacts, <1>1, <1>4, <1>6, <2>2, <2>5, <3>1, <3>3
      DEF ChildInv, ChildTypes, PipeIsTrue, Told, FailedIsGone, Over
    <3> QED BY <3>4, <3>5, <3>6, <3>7, <3>8, <3>9 DEF ChildInv
  <2>7. CASE ~report.reader
    <3>1. UNCHANGED report /\ kid' = [dead EXCEPT !.state = "zombie", !.end = "SIGPIPE"]
      BY <2>4, <2>7 DEF write_report
    <3>2. /\ DOMAIN kid' = KidFields /\ kid'.at = kid.at /\ kid'.fds = kid.fds /\ kid'.state = "zombie"
          /\ kid'.ran = kid.ran /\ kid'.killed = kid.killed /\ kid'.murdered = kid.murdered
      BY <2>5, <3>1 DEF KidFields
    <3>3. ChildTypes'
      BY ChildFacts, <1>1, <1>4, <1>5, <1>6, <2>7, <3>1, <3>2 DEF ChildInv, ChildTypes, KidTypes
    <3>4. OnItsWay'
      BY ChildFacts, <1>1, <1>4, <1>5, <1>6, <2>7, <3>1, <3>2 DEF ChildInv, OnItsWay
    <3>5. PipeIsTrue'
      BY ChildFacts, <1>1, <1>4, <1>5, <1>6, <2>7, <3>1, <3>2
      DEF ChildInv, ChildTypes, OnItsWay, PipeIsTrue, Over, Dead
    <3>6. Listening'
      BY ChildFacts, <1>1, <1>4, <1>5, <1>6, <2>7, <3>1, <3>2
      DEF ChildInv, ChildTypes, OnItsWay, PipeIsTrue, Listening, Over, Dead
    <3>7. Told'
      BY ChildFacts, <1>1, <1>4, <1>5, <1>6, <2>7, <3>1, <3>2
      DEF ChildInv, ChildTypes, PipeIsTrue, Told, Over, Dead
    <3>8. FailedIsGone'
      BY ChildFacts, <1>1, <1>4, <1>5, <1>6, <2>7, <3>1, <3>2
      DEF ChildInv, ChildTypes, PipeIsTrue, Told, FailedIsGone, Over
    <3> QED BY <3>3, <3>4, <3>5, <3>6, <3>7, <3>8 DEF ChildInv
  <2> QED BY <2>6, <2>7
<1>10. CASE step \notin {"Ready", "execve"} /\ kid' = Done(next, spawn, step) /\ UNCHANGED report
  <2> DEFINE tty == Len(Prologue(spawn)) + 1
  <2>1. step \in Before /\ kid.at < n - 1
    BY <1>3, <1>10
  <2>2. /\ tty \in Nat
        /\ step = "OpenTty" => spawn.tty /\ kid.at = tty
        /\ step = "TtyDup2" => spawn.tty /\ kid.at = tty + 2
        /\ spawn.tty => /\ ChildPlan(spawn)[tty] = "OpenTty"
                        /\ ChildPlan(spawn)[tty + 1] = "SetControllingTerminal"
    BY <1>1, <1>2, <2>1, PlanShape
  <2>3. /\ kid.fds[6].file = "report"
        /\ kid.at <= tty => NoFd \in {kid.fds[7], kid.fds[8]}
        /\ spawn.tty /\ kid.at \in {tty + 1, tty + 2} => \E fd \in Fds : kid.fds[fd].file = "tty"
    BY <1>1 DEF ChildInv, OnItsWay
  <2> HIDE DEF step, next, tty
  <2>4. /\ DOMAIN kid' = KidFields /\ kid'.at = next.at /\ kid'.state = next.state /\ kid'.ran = next.ran
        /\ kid'.failed = next.failed /\ kid'.killed = next.killed /\ kid'.murdered = next.murdered
        /\ kid'.fds \in FdTable /\ kid'.fds[6].file = "report"
        /\ step \notin {"OpenTty", "TtyDup2"} =>
             kid'.fds[7] = next.fds[7] /\ kid'.fds[8] = next.fds[8]
        /\ step = "OpenTty" => \E fd \in Fds : kid'.fds[fd].file = "tty"
        /\ step = "SetControllingTerminal" => kid'.fds = next.fds
    <3>1. step = "OpenTty" => NoFd \in {next.fds[7], next.fds[8]}
      BY <1>7, <2>2, <2>3
    <3>2. step = "TtyDup2" => \E fd \in Fds : next.fds[fd].file = "tty"
      BY <1>7, <2>2, <2>3
    <3> QED BY <1>1, <1>7, <1>10, <2>1, <2>3, <3>1, <3>2, DoneShape
  <2>5. OnItsWay'
    <3>1. kid'.at <= tty => NoFd \in {kid'.fds[7], kid'.fds[8]}
      BY <1>1, <1>7, <2>2, <2>3, <2>4
    <3>2. ASSUME spawn.tty, kid'.at \in {tty + 1, tty + 2} PROVE \E fd \in Fds : kid'.fds[fd].file = "tty"
      <4>1. CASE kid.at = tty
        BY <2>2, <2>4, <3>2, <4>1 DEF step
      <4>2. CASE kid.at = tty + 1
        BY <1>7, <2>2, <2>3, <2>4, <3>2, <4>2 DEF step
      <4> QED BY <1>1, <1>7, <2>2, <2>4, <3>2, <4>1, <4>2
    <3>3. kid'.at <= n
      BY <1>1, <1>2, <1>7, <2>1, <2>4
    <3> QED BY <1>1, <1>7, <2>4, <3>1, <3>2, <3>3 DEF OnItsWay, tty
  <2>6. ChildTypes'
    BY ChildFacts, <1>1, <1>7, <1>10, <2>4 DEF ChildInv, ChildTypes, KidTypes
  <2>7. OnItsWay'
    BY <2>5 DEF ChildInv, OnItsWay
  <2>8. PipeIsTrue'
    BY ChildFacts, <1>1, <1>2, <1>4, <1>5, <1>6, <1>7, <1>10, <2>1, <2>4
    DEF ChildInv, ChildTypes, OnItsWay, PipeIsTrue, Over, Dead
  <2>9. Listening'
    BY ChildFacts, <1>1, <1>2, <1>4, <1>5, <1>6, <1>7, <1>10, <2>1, <2>4
    DEF ChildInv, ChildTypes, OnItsWay, PipeIsTrue, Listening, Over, Dead
  <2>10. Told'
    BY ChildFacts, <1>1, <1>2, <1>4, <1>5, <1>6, <1>7, <1>10, <2>1, <2>4
    DEF ChildInv, ChildTypes, PipeIsTrue, Told, Over, Dead
  <2>11. FailedIsGone'
    BY ChildFacts, <1>1, <1>2, <1>4, <1>5, <1>6, <1>7, <1>10, <2>1, <2>4
    DEF ChildInv, ChildTypes, PipeIsTrue, Told, FailedIsGone, Over
  <2> QED BY <2>6, <2>7, <2>8, <2>9, <2>10, <2>11 DEF ChildInv
<1>11. CASE step = "execve" /\ kid' = Done(next, spawn, step) /\ UNCHANGED report
  <2> HIDE DEF next
  <2>1. kid' = [next EXCEPT !.fds = [fd \in Fds |-> IF next.fds[fd].cloexec THEN NoFd ELSE next.fds[fd]],
                            !.cred = Execve(next.cred), !.state = "running", !.ran = TRUE]
    BY <1>7, <1>11 DEF Done, KidFields
  <2>2. /\ DOMAIN kid' = KidFields /\ kid'.at = next.at /\ kid'.state = "running" /\ kid'.ran = TRUE
        /\ kid'.failed = kid.failed /\ kid'.killed = kid.killed /\ kid'.murdered = kid.murdered
        /\ kid'.fds = [fd \in Fds |-> IF next.fds[fd].cloexec THEN NoFd ELSE next.fds[fd]]
    BY <1>7, <2>1 DEF KidFields
  <2>3. kid'.fds \in FdTable
    <3>1. next.fds \in FdTable
      BY <1>1, <1>7
    <3>2. [fd \in Fds |-> IF next.fds[fd].cloexec THEN NoFd ELSE next.fds[fd]] \in FdTable
      BY <3>1, ExecCloses
    <3> QED BY <2>2, <3>2
  <2>4. kid'.ran \in BOOLEAN
    BY <2>2, Zenon
  <2>5. waiter.at \in {"first", "rest"} => waiter.ready \/ report.sent # <<>>
    BY <1>1, <1>3, <1>11 DEF ChildInv, Listening
  <2>6. ChildTypes'
    BY ChildFacts, <1>1, <1>7, <1>11, <2>2, <2>3, <2>4 DEF ChildInv, ChildTypes, KidTypes
  <2>7. OnItsWay'
    BY ChildFacts, <1>1, <1>4, <1>5, <1>6, <1>7, <1>11, <2>2, <2>5 DEF ChildInv, OnItsWay
  <2>8. PipeIsTrue'
    BY ChildFacts, <1>1, <1>4, <1>5, <1>6, <1>7, <1>11, <2>2, <2>5
    DEF ChildInv, ChildTypes, OnItsWay, PipeIsTrue, Over, Dead
  <2>9. Listening'
    BY ChildFacts, <1>1, <1>4, <1>5, <1>6, <1>7, <1>11, <2>2, <2>5
    DEF ChildInv, ChildTypes, OnItsWay, PipeIsTrue, Listening, Over, Dead
  <2>10. Told'
    BY ChildFacts, <1>1, <1>4, <1>5, <1>6, <1>7, <1>11, <2>2, <2>5
    DEF ChildInv, ChildTypes, PipeIsTrue, Told, Over, Dead
  <2>11. FailedIsGone'
    BY ChildFacts, <1>1, <1>4, <1>5, <1>6, <1>7, <1>11, <2>2, <2>5
    DEF ChildInv, ChildTypes, PipeIsTrue, Told, FailedIsGone, Over
  <2> QED BY <2>6, <2>7, <2>8, <2>9, <2>10, <2>11 DEF ChildInv
<1> QED BY <1>8, <1>9, <1>10, <1>11 DEF child_exec

(* Every step keeps the invariant.                                         *)
LEMMA ChildStepKeeps == ChildInv /\ [ChildNext]_childVars => ChildInv'
<1> SUFFICES ASSUME ChildInv, [ChildNext]_childVars PROVE ChildInv'
  OBVIOUS
<1>1. CASE UNCHANGED childVars
  <2>1. spawn' = spawn /\ kid' = kid /\ report' = report /\ waiter' = waiter
    BY <1>1 DEF childVars
  <2> QED BY <2>1 DEF ChildInv, ChildTypes, KidTypes, OnItsWay, PipeIsTrue, Listening, Told, FailedIsGone,
                      Over, Dead
<1>2. CASE ChildNext
  BY <1>2, BeginKeeps, ExecKeeps, EndsKeep, HandlesKeep, ReadKeeps, ReapKeeps DEF ChildNext, ParentStep
<1> QED BY <1>1, <1>2

(* A parent that is told that a program runs, that a step failed or that   *)
(* the child died is told the truth, and a spawn that was not confirmed    *)
(* leaves nothing that could still become a program.                       *)
LEMMA ToldIsTrue == ChildInv => VerdictIsTrue /\ FailedIsGone
<1> SUFFICES ASSUME ChildInv PROVE VerdictIsTrue
  BY DEF ChildInv
<1>1. spawn \in Setups
  BY DEF ChildInv, ChildTypes
<1>2. \A step \in ToSet(ChildPlan(spawn)) : ChildStep(step) \in Messages
  <2> DEFINE plan == ChildPlan(spawn)
             n == Len(plan)
  <2>1. /\ n \in Nat /\ DOMAIN plan = 1 .. n /\ plan[n] = "execve" /\ plan[n - 1] = "Ready"
        /\ \A i \in 1 .. n : i < n - 1 => plan[i] \in Before
    BY <1>1, PlanShape
  <2> HIDE DEF plan
  <2>2. \A i \in 1 .. n : plan[i] \in Before \cup {"Ready", "execve"}
    BY <2>1
  <2>3. \A step \in Before \cup {"Ready", "execve"} : ChildStep(step) \in Messages
    BY DEF ChildStep, Messages
  <2>4. ToSet(plan) \subseteq Before \cup {"Ready", "execve"}
    BY <2>1, <2>2 DEF ToSet
  <2> QED BY <2>3, <2>4 DEF plan
<1> QED BY <1>2 DEF ChildInv, Told, Dead, VerdictIsTrue

-------------------------------------------------------------------------------
(* The world of the program: what the steps before it make of the child,   *)
(* followed along the plan.                                                *)

WorldFields == {"fds", "cred", "session", "terminal", "dir", "cgroup"}
SameWorld(k, w) ==
  /\ k.fds = w.fds /\ k.cred = w.cred /\ k.session = w.session
  /\ k.terminal = w.terminal /\ k.dir = w.dir /\ k.cgroup = w.cgroup
Act(w, s, step) == IF step = "Ready" THEN w ELSE Done(w, s, step)
Goes(w, s, step) == step = "Ready" \/ Permitted(w, s, step)

(* A way through steps that are all permitted.                             *)
IsWay(way, s, plan) ==
  /\ \A n \in 0 .. Len(plan) : DOMAIN way[n] = WorldFields /\ way[n].cred.ok = TRUE
  /\ \A n \in 1 .. Len(plan) : Goes(way[n - 1], s, plan[n]) /\ way[n] = Act(way[n - 1], s, plan[n])
Reaches(w, s, plan, v) == \E way : IsWay(way, s, plan) /\ way[0] = w /\ way[Len(plan)] = v

(* No step.                                                                *)
LEMMA ReachesNone ==
  ASSUME NEW w, NEW s, DOMAIN w = WorldFields, w.cred.ok = TRUE
  PROVE  Reaches(w, s, <<>>, w)
<1> DEFINE way == [n \in {0} |-> w]
<1>1. Len(<<>>) = 0
  OBVIOUS
<1>2. IsWay(way, s, <<>>) /\ way[0] = w /\ way[Len(<<>>)] = w
  BY <1>1 DEF IsWay
<1> HIDE DEF way
<1> QED BY <1>2 DEF Reaches

(* One step that is permitted.                                            *)
LEMMA ReachesOne ==
  ASSUME NEW w, NEW s, DOMAIN w = WorldFields, w.cred.ok = TRUE, NEW step, Goes(w, s, step),
         NEW v, v = Act(w, s, step), DOMAIN v = WorldFields, v.cred.ok = TRUE
  PROVE  Reaches(w, s, <<step>>, v)
<1> DEFINE way == [n \in {0, 1} |-> IF n = 0 THEN w ELSE v]
           plan == <<step>>
<1>1. Len(plan) = 1 /\ plan[1] = step
  OBVIOUS
<1>2. way[0] = w /\ way[1] = v
  OBVIOUS
<1> HIDE DEF way, plan
<1>3. \A n \in 0 .. Len(plan) : DOMAIN way[n] = WorldFields /\ way[n].cred.ok = TRUE
  <2>1. \A n \in 0 .. Len(plan) : n = 0 \/ n = 1
    BY <1>1
  <2> QED BY <1>2, <2>1
<1>4. \A n \in 1 .. Len(plan) : Goes(way[n - 1], s, plan[n]) /\ way[n] = Act(way[n - 1], s, plan[n])
  <2>1. \A n \in 1 .. Len(plan) : n = 1 /\ n - 1 = 0
    BY <1>1
  <2> QED BY <1>1, <1>2, <2>1
<1>5. IsWay(way, s, plan)
  BY <1>3, <1>4 DEF IsWay
<1>6. Reaches(w, s, plan, v)
  BY <1>1, <1>2, <1>5 DEF Reaches
<1> QED BY <1>6 DEF plan

(* A way that goes on where another ends.                                  *)
LEMMA ReachesOn ==
  ASSUME NEW w, NEW s, NEW S, NEW p \in Seq(S), NEW q \in Seq(S), NEW v, NEW u,
         Reaches(w, s, p, v), Reaches(v, s, q, u)
  PROVE  Reaches(w, s, p \o q, u)
<1> DEFINE a == Len(p)
           b == Len(q)
           plan == p \o q
<1>1. /\ a \in Nat /\ b \in Nat /\ Len(plan) = a + b
      /\ \A i \in 1 .. a : plan[i] = p[i]
      /\ \A i \in 1 .. b : plan[a + i] = q[i]
  <2>1. Len(plan) = a + b /\ a \in Nat /\ b \in Nat
    BY ConcatProperties
  <2>2. \A i \in 1 .. a + b : plan[i] = IF i <= a THEN p[i] ELSE q[i - a]
    BY ConcatProperties
  <2> HIDE DEF plan, a, b
  <2>3. \A i \in 1 .. a : plan[i] = p[i]
    BY <2>1, <2>2
  <2>4. \A i \in 1 .. b : plan[a + i] = q[i]
    <3> SUFFICES ASSUME NEW i \in 1 .. b PROVE plan[a + i] = q[i]
      OBVIOUS
    <3>1. a + i \in 1 .. a + b /\ ~(a + i <= a) /\ (a + i) - a = i
      BY <2>1
    <3> QED BY <3>1, <2>2
  <2> QED BY <2>1, <2>3, <2>4
<1>2. PICK first : IsWay(first, s, p) /\ first[0] = w /\ first[a] = v
  BY DEF Reaches
<1>3. PICK second : IsWay(second, s, q) /\ second[0] = v /\ second[b] = u
  BY DEF Reaches
<1> DEFINE way == [n \in 0 .. a + b |-> IF n <= a THEN first[n] ELSE second[n - a]]
<1>4. \A n \in 0 .. a : way[n] = first[n]
  BY <1>1
<1>5. \A n \in 0 .. b : way[a + n] = second[n]
  <2> SUFFICES ASSUME NEW n \in 0 .. b PROVE way[a + n] = second[n]
    OBVIOUS
  <2>1. CASE n = 0
    BY <1>1, <1>2, <1>3, <2>1
  <2>2. CASE n # 0
    <3>1. a + n \in 0 .. a + b /\ ~(a + n <= a) /\ (a + n) - a = n
      BY <1>1, <2>2
    <3> QED BY <3>1
  <2> QED BY <2>1, <2>2
<1> HIDE DEF way, plan, a, b
<1>6. ASSUME NEW n \in 0 .. a + b PROVE DOMAIN way[n] = WorldFields /\ way[n].cred.ok = TRUE
  <2>1. CASE n <= a
    <3>1. n \in 0 .. a
      BY <2>1, <1>1
    <3> QED BY <3>1, <1>2, <1>4 DEF IsWay, a
  <2>2. CASE ~(n <= a)
    <3>1. n - a \in 0 .. b /\ a + (n - a) = n
      BY <2>2, <1>1
    <3>2. way[n] = second[n - a]
      BY <3>1, <1>5
    <3> QED BY <3>1, <3>2, <1>3 DEF IsWay, b
  <2> QED BY <2>1, <2>2
<1>7. ASSUME NEW n \in 1 .. a + b
      PROVE  Goes(way[n - 1], s, plan[n]) /\ way[n] = Act(way[n - 1], s, plan[n])
  <2>1. CASE n <= a
    <3>1. n \in 1 .. a /\ n \in 0 .. a /\ n - 1 \in 0 .. a
      BY <2>1, <1>1
    <3>2. way[n] = first[n] /\ way[n - 1] = first[n - 1] /\ plan[n] = p[n]
      BY <3>1, <1>1, <1>4
    <3>3. Goes(first[n - 1], s, p[n]) /\ first[n] = Act(first[n - 1], s, p[n])
      BY <3>1, <1>2 DEF IsWay, a
    <3> QED BY <3>2, <3>3
  <2>2. CASE ~(n <= a)
    <3> DEFINE i == n - a
    <3>1. i \in 1 .. b /\ i \in 0 .. b /\ i - 1 \in 0 .. b /\ a + i = n /\ a + (i - 1) = n - 1
      BY <2>2, <1>1
    <3> HIDE DEF i
    <3>2. way[n] = second[i] /\ way[n - 1] = second[i - 1] /\ plan[n] = q[i]
      BY <3>1, <1>1, <1>5
    <3>3. Goes(second[i - 1], s, q[i]) /\ second[i] = Act(second[i - 1], s, q[i])
      BY <3>1, <1>3 DEF IsWay, b
    <3> QED BY <3>2, <3>3
  <2> QED BY <2>1, <2>2
<1>8. IsWay(way, s, plan)
  BY <1>1, <1>6, <1>7 DEF IsWay
<1>9. way[0] = w /\ way[a + b] = u
  <2>1. 0 \in 0 .. a /\ b \in 0 .. b
    BY <1>1
  <2> QED BY <2>1, <1>2, <1>3, <1>4, <1>5
<1>10. Reaches(w, s, plan, u)
  BY <1>1, <1>8, <1>9 DEF Reaches
<1> QED BY <1>10 DEF plan

Steps == Before \cup {"Ready", "execve"}

(* What a step does to the world depends on the world alone, and so does   *)
(* whether it is permitted.                                                *)
LEMMA WorldMoves ==
  ASSUME NEW k, DOMAIN k = KidFields, NEW w, DOMAIN w = WorldFields, SameWorld(k, w),
         NEW s, NEW step \in Before
  PROVE  /\ Permitted(k, s, step) <=> Permitted(w, s, step)
         /\ SameWorld(Done(k, s, step), Done(w, s, step))
         /\ DOMAIN Done(k, s, step) = KidFields /\ Done(k, s, step).refused = k.refused
         /\ Done(k, s, step).at = k.at
<1>1. k.fds = w.fds /\ k.cred = w.cred /\ k.session = w.session
  BY DEF SameWorld
<1>2. Permitted(k, s, step) <=> Permitted(w, s, step)
  BY <1>1 DEF Permitted
<1> DEFINE x == Done(k, s, step)
           y == Done(w, s, step)
<1>3. \E f \in WorldFields : \E v : x = [k EXCEPT ![f] = v] /\ y = [w EXCEPT ![f] = v]
  <2>1. CASE step = "Setsid"
    <3> DEFINE v == TRUE
    <3>1. x = [k EXCEPT !.session = v] /\ y = [w EXCEPT !.session = v]
      BY <1>1, <2>1 DEF Done
    <3> HIDE DEF x, y, v
    <3> QED BY <3>1 DEF WorldFields
  <2>2. CASE step = "Listen"
    <3> DEFINE v == HandListener(w.fds, s.listen)
    <3>1. x = [k EXCEPT !.fds = v] /\ y = [w EXCEPT !.fds = v]
      BY <1>1, <2>2 DEF Done
    <3> HIDE DEF x, y, v
    <3> QED BY <3>1 DEF WorldFields
  <2>3. CASE step = "Stdio"
    <3> DEFINE v == dup2(dup2(w.fds, 5, 1), 5, 2)
    <3>1. x = [k EXCEPT !.fds = v] /\ y = [w EXCEPT !.fds = v]
      BY <1>1, <2>3 DEF Done
    <3> HIDE DEF x, y, v
    <3> QED BY <3>1 DEF WorldFields
  <2>4. CASE step = "OpenTty"
    <3> DEFINE v == [w.fds EXCEPT ![FreeFd(w.fds)] = [file |-> "tty", cloexec |-> FALSE]]
    <3>1. x = [k EXCEPT !.fds = v] /\ y = [w EXCEPT !.fds = v]
      BY <1>1, <2>4 DEF Done
    <3> HIDE DEF x, y, v
    <3> QED BY <3>1 DEF WorldFields
  <2>5. CASE step = "SetControllingTerminal"
    <3> DEFINE v == TRUE
    <3>1. x = [k EXCEPT !.terminal = v] /\ y = [w EXCEPT !.terminal = v]
      BY <1>1, <2>5 DEF Done
    <3> HIDE DEF x, y, v
    <3> QED BY <3>1 DEF WorldFields
  <2>6. CASE step = "TtyDup2"
    <3> DEFINE fd == TtyFd(w.fds)
               v == CloseTty(dup2(dup2(dup2(w.fds, fd, 0), fd, 1), fd, 2), fd)
    <3>1. x = [k EXCEPT !.fds = v] /\ y = [w EXCEPT !.fds = v]
      BY <1>1, <2>6 DEF Done
    <3> HIDE DEF x, y, v
    <3> QED BY <3>1 DEF WorldFields
  <2>7. CASE step = "Chdir"
    <3> DEFINE v == TRUE
    <3>1. x = [k EXCEPT !.dir = v] /\ y = [w EXCEPT !.dir = v]
      BY <1>1, <2>7 DEF Done
    <3> HIDE DEF x, y, v
    <3> QED BY <3>1 DEF WorldFields
  <2>8. CASE step = "JoinCgroup"
    <3> DEFINE v == TRUE
    <3>1. x = [k EXCEPT !.cgroup = v] /\ y = [w EXCEPT !.cgroup = v]
      BY <1>1, <2>8 DEF Done
    <3> HIDE DEF x, y, v
    <3> QED BY <3>1 DEF WorldFields
  <2>9. CASE step \in Drop
    <3> DEFINE v == Take(w.cred, s.sandbox, step)
    <3>1. x = [k EXCEPT !.cred = v] /\ y = [w EXCEPT !.cred = v]
      BY <1>1, <2>9 DEF Done, Drop
    <3> HIDE DEF x, y, v
    <3> QED BY <3>1 DEF WorldFields
  <2> QED BY <2>1, <2>2, <2>3, <2>4, <2>5, <2>6, <2>7, <2>8, <2>9 DEF Before, Early, Terminal, Rest, Drop
<1> HIDE DEF x, y
<1>31. PICK f \in WorldFields : \E v : x = [k EXCEPT ![f] = v] /\ y = [w EXCEPT ![f] = v]
  BY <1>3
<1>4. PICK v : x = [k EXCEPT ![f] = v] /\ y = [w EXCEPT ![f] = v]
  BY <1>31
<1>5. x[f] = v /\ y[f] = v /\ DOMAIN x = KidFields /\ \A g \in KidFields : g # f => x[g] = k[g]
  BY <1>4 DEF KidFields, WorldFields
<1>6. \A g \in WorldFields : g # f => y[g] = w[g]
  BY <1>4
<1>7. \A g \in WorldFields : x[g] = y[g]
  BY <1>5, <1>6 DEF SameWorld, WorldFields, KidFields
<1>8. SameWorld(x, y)
  BY <1>7 DEF SameWorld, WorldFields
<1>9. x.refused = k.refused /\ x.at = k.at
  BY <1>5 DEF KidFields, WorldFields
<1> QED BY <1>2, <1>5, <1>8, <1>9 DEF x, y

-------------------------------------------------------------------------------
(* The descriptors of the child.                                           *)

Given(file) == [file |-> file, cloexec |-> FALSE]
Closing(d) == d = NoFd \/ d.cloexec
Others(fds, handed) ==
  /\ fds \in FdTable
  /\ IF handed THEN fds[3] = Given("socket") ELSE Closing(fds[3])
  /\ Closing(fds[4]) /\ Closing(fds[5]) /\ Closing(fds[6]) /\ Closing(fds[7]) /\ Closing(fds[8])
Plain(fds, s, out, handed) ==
  /\ Others(fds, handed)
  /\ fds[0] = IF s.stdin THEN Given("console") ELSE NoFd
  /\ fds[1] = Given(out) /\ fds[2] = Given(out)
  /\ fds[5].file = "log"
  /\ NoFd \in {fds[7], fds[8]}
  /\ s.listen # 0 => fds[s.listen].file = "socket"
  /\ \A fd \in Fds : fds[fd].file # "tty"

(* What the child inherits.                                                *)
LEMMA PlainStart == ASSUME NEW s \in Setups PROVE Plain(Inherited(s), s, "console", FALSE)
<1>1. s.listen \in {0, 3, 4, 7, 8}
  BY ChildAssumption
<1>2. Fds = {0, 1, 2, 3, 4, 5, 6, 7, 8}
  BY DEF Fds
<1> DEFINE fds == Inherited(s)
           S == [file |-> "socket", cloexec |-> TRUE]
           D == [file |-> "daemon", cloexec |-> TRUE]
<1>3. /\ fds[0] = IF s.stdin THEN Given("console") ELSE NoFd
      /\ fds[1] = Given("console") /\ fds[2] = Given("console")
      /\ fds[3] = IF s.listen = 3 THEN S ELSE D
      /\ fds[4] = IF s.listen = 4 THEN S ELSE D
      /\ fds[5] = [file |-> "log", cloexec |-> TRUE] /\ fds[6] = [file |-> "report", cloexec |-> TRUE]
      /\ fds[7] = IF s.listen = 7 THEN S ELSE NoFd
      /\ fds[8] = IF s.listen = 8 THEN S ELSE NoFd
  BY <1>1, <1>2 DEF Inherited, Given
<1>4. fds \in FdTable
  BY InheritedShape
<1> HIDE DEF fds
<1>5. S.file = "socket" /\ S.cloexec /\ D.file = "daemon" /\ D.cloexec
  OBVIOUS
<1> HIDE DEF S, D
<1>6. Others(fds, FALSE)
  BY <1>3, <1>4, <1>5 DEF Others, Closing
<1>7. \A fd \in Fds : fds[fd].file # "tty"
  <2>1. NoFd.file = "none" /\ Given("console").file = "console"
    BY DEF NoFd, Given
  <2> QED BY <1>2, <1>3, <1>5, <2>1
<1>8. s.listen # 0 => fds[s.listen].file = "socket"
  BY <1>1, <1>3, <1>5
<1>9. Plain(fds, s, "console", FALSE)
  <2>1. fds[5].file = "log" /\ NoFd \in {fds[7], fds[8]}
    BY <1>1, <1>3
  <2> QED BY <1>3, <1>6, <1>7, <1>8, <2>1 DEF Plain
<1> QED BY <1>9 DEF fds

(* A copy of a descriptor.                                                 *)
LEMMA Dup2Gives ==
  ASSUME NEW fds \in FdTable, NEW from \in Fds, NEW to \in Fds, from # to
  PROVE  /\ dup2(fds, from, to) \in FdTable
         /\ dup2(fds, from, to)[to] = Given(fds[from].file)
         /\ \A fd \in Fds : fd # to => dup2(fds, from, to)[fd] = fds[fd]
<1>1. dup2(fds, from, to) = [fds EXCEPT ![to] = Given(fds[from].file)]
  BY DEF dup2, Given
<1>2. DOMAIN fds = Fds
  BY DEF FdTable
<1> QED BY <1>1, <1>2, Dup2Moves

(* The listening socket is handed over as descriptor 3.                    *)
LEMMA PlainListen ==
  ASSUME NEW s \in Setups, s.listen # 0, NEW fds, Plain(fds, s, "console", FALSE)
  PROVE  Plain(HandListener(fds, s.listen), s, "console", TRUE)
<1>1. s.listen \in {3, 4, 7, 8}
  BY ChildAssumption
<1>2. Fds = {0, 1, 2, 3, 4, 5, 6, 7, 8}
  BY DEF Fds
<1> DEFINE new == HandListener(fds, s.listen)
<1>3. fds \in FdTable /\ fds[s.listen].file = "socket"
  BY DEF Plain, Others
<1>4. new \in FdTable /\ new[3] = Given("socket") /\ \A fd \in Fds : fd # 3 => new[fd] = fds[fd]
  <2>1. CASE s.listen = 3
    <3> DEFINE open == [fds[3] EXCEPT !.cloexec = FALSE]
    <3>1. new = [fds EXCEPT ![3] = open]
      BY <2>1 DEF HandListener, LISTEN_FD
    <3>2. fds[3] \in [file : Files, cloexec : BOOLEAN] /\ fds[3].file = "socket"
      BY <1>2, <1>3, <2>1 DEF FdTable
    <3>3. open = Given("socket") /\ open \in [file : Files, cloexec : BOOLEAN]
      <4>1. /\ open \in [file : Files, cloexec : BOOLEAN] /\ open.file = "socket" /\ open.cloexec = FALSE
        BY <3>2
      <4> HIDE DEF open
      <4>2. open = [file |-> open.file, cloexec |-> open.cloexec]
        BY <4>1
      <4> QED BY <4>1, <4>2 DEF Given
    <3> HIDE DEF open, new
    <3> QED BY <1>2, <1>3, <3>1, <3>3 DEF FdTable
  <2>2. CASE s.listen # 3
    <3>1. new = dup2(fds, s.listen, 3)
      BY <2>2 DEF HandListener, LISTEN_FD
    <3>2. s.listen \in Fds /\ 3 \in Fds
      BY <1>1, <1>2
    <3> HIDE DEF new
    <3> QED BY <1>3, <2>2, <3>1, <3>2, Dup2Gives
  <2> QED BY <2>1, <2>2
<1> HIDE DEF new
<1>5. /\ new[0] = fds[0] /\ new[1] = fds[1] /\ new[2] = fds[2] /\ new[4] = fds[4] /\ new[5] = fds[5]
      /\ new[6] = fds[6] /\ new[7] = fds[7] /\ new[8] = fds[8]
  BY <1>2, <1>4
<1>6. Given("socket").file = "socket"
  BY DEF Given
<1>7. Others(new, TRUE)
  BY <1>4, <1>5 DEF Plain, Others
<1>8. \A fd \in Fds : new[fd].file # "tty"
  BY <1>4, <1>6 DEF Plain
<1>9. new[s.listen].file = "socket"
  BY <1>1, <1>3, <1>5, <1>4, <1>6
<1>10. Plain(new, s, "console", TRUE)
  BY <1>5, <1>7, <1>8, <1>9 DEF Plain
<1> QED BY <1>10 DEF new

(* The log pipe becomes the output.                                        *)
LEMMA PlainStdio ==
  ASSUME NEW s \in Setups, NEW fds, NEW h, Plain(fds, s, "console", h)
  PROVE  Plain(dup2(dup2(fds, 5, 1), 5, 2), s, "log", h)
<1>1. Fds = {0, 1, 2, 3, 4, 5, 6, 7, 8} /\ s.listen \in {0, 3, 4, 7, 8}
  BY ChildAssumption DEF Fds
<1> DEFINE one == dup2(fds, 5, 1)
           new == dup2(one, 5, 2)
<1>2. fds \in FdTable /\ fds[5].file = "log"
  BY DEF Plain, Others
<1>3. one \in FdTable /\ one[1] = Given("log") /\ \A fd \in Fds : fd # 1 => one[fd] = fds[fd]
  BY <1>1, <1>2, Dup2Gives
<1> HIDE DEF one
<1>4. new \in FdTable /\ new[2] = Given("log") /\ \A fd \in Fds : fd # 2 => new[fd] = one[fd]
  <2>1. one[5].file = "log"
    BY <1>1, <1>2, <1>3
  <2> QED BY <1>1, <1>3, <2>1, Dup2Gives
<1> HIDE DEF new
<1>5. /\ new[0] = fds[0] /\ new[1] = Given("log") /\ new[3] = fds[3] /\ new[4] = fds[4] /\ new[5] = fds[5]
      /\ new[6] = fds[6] /\ new[7] = fds[7] /\ new[8] = fds[8]
  BY <1>1, <1>3, <1>4
<1>6. Given("log").file = "log"
  BY DEF Given
<1>7. Others(new, h)
  BY <1>4, <1>5 DEF Plain, Others
<1>8. \A fd \in Fds : new[fd].file # "tty"
  BY <1>1, <1>4, <1>5, <1>6 DEF Plain
<1>9. Plain(new, s, "log", h)
  BY <1>1, <1>4, <1>5, <1>7, <1>8 DEF Plain
<1> QED BY <1>9 DEF new, one

OpenedTty(fds) == [fds EXCEPT ![FreeFd(fds)] = Given("tty")]
TtyTaken(fds) ==
  CloseTty(dup2(dup2(dup2(fds, TtyFd(fds), 0), TtyFd(fds), 1), TtyFd(fds), 2), TtyFd(fds))

(* The terminal takes the place of the three standard descriptors, and     *)
(* nothing else stays of it.                                               *)
LEMMA TtyTakes ==
  ASSUME NEW s \in Setups, NEW fds, NEW out \in {"console", "log"}, NEW h, Plain(fds, s, out, h)
  PROVE  LET new == TtyTaken(OpenedTty(fds))
         IN Others(new, h) /\ new[0] = Given("tty") /\ new[1] = Given("tty") /\ new[2] = Given("tty")
<1>1. Fds = {0, 1, 2, 3, 4, 5, 6, 7, 8}
  BY DEF Fds
<1>2. fds \in FdTable /\ NoFd \in {fds[7], fds[8]} /\ Others(fds, h)
  BY DEF Plain, Others
<1> DEFINE new == FreeFd(fds)
           o == OpenedTty(fds)
<1>3. new \in Fds /\ fds[new] = NoFd
  BY <1>2, FreeFdExists
<1>4. new \notin {1, 2} /\ (h => new # 3)
  <2>1. fds[1].file = out /\ fds[2].file = out /\ (h => fds[3].file = "socket") /\ NoFd.file = "none"
    BY <1>2 DEF Plain, Others, Given, NoFd
  <2> HIDE DEF new
  <2> QED BY <1>3, <2>1
<1>5. o \in FdTable /\ o[new] = Given("tty") /\ \A fd \in Fds : fd # new => o[fd] = fds[fd]
  <2>1. o = [fds EXCEPT ![new] = Given("tty")]
    BY DEF OpenedTty
  <2>2. Given("tty") \in [file : Files, cloexec : BOOLEAN]
    BY DEF Given, Files
  <2> HIDE DEF new, o
  <2> QED BY <1>2, <1>3, <2>1, <2>2 DEF FdTable
<1> HIDE DEF o, new
<1>6. Given("tty").file = "tty"
  BY DEF Given
<1>7. TtyFd(o) = new
  <2>1. \A fd \in Fds : o[fd].file = "tty" <=> fd = new
    BY <1>3, <1>5, <1>6 DEF Plain
  <2> QED BY <1>3, <2>1 DEF TtyFd
<1>7a. 0 \in Fds /\ 1 \in Fds /\ 2 \in Fds
  BY <1>1
<1> DEFINE a == dup2(o, new, 0)
           b == dup2(a, new, 1)
           c == dup2(b, new, 2)
           e == CloseTty(c, new)
<1>8. a \in FdTable /\ a[0] = Given("tty") /\ a[new] = Given("tty") /\ \A fd \in Fds : fd # 0 => a[fd] = o[fd]
  <2>1. CASE new = 0
    BY <1>5, <2>1 DEF dup2
  <2>2. CASE new # 0
    <3>1. a \in FdTable /\ a[0] = Given(o[new].file) /\ \A fd \in Fds : fd # 0 => a[fd] = o[fd]
      BY <1>3, <1>5, <1>7a, <2>2, Dup2Gives, ZenonT(60)
    <3> QED BY <1>3, <1>5, <1>6, <2>2, <3>1
  <2> QED BY <2>1, <2>2
<1> HIDE DEF a
<1>9. b \in FdTable /\ b[1] = Given("tty") /\ \A fd \in Fds : fd # 1 => b[fd] = a[fd]
  <2>1. new # 1
    BY <1>4
  <2>2. b \in FdTable /\ b[1] = Given(a[new].file) /\ \A fd \in Fds : fd # 1 => b[fd] = a[fd]
    BY <1>3, <1>8, <1>7a, <2>1, Dup2Gives, ZenonT(60)
  <2> QED BY <1>6, <1>8, <2>2
<1> HIDE DEF b
<1>10. c \in FdTable /\ c[2] = Given("tty") /\ \A fd \in Fds : fd # 2 => c[fd] = b[fd]
  <2>1. b[new] = Given("tty")
    BY <1>3, <1>4, <1>8, <1>9
  <2>2. new # 2
    BY <1>4
  <2>3. c \in FdTable /\ c[2] = Given(b[new].file) /\ \A fd \in Fds : fd # 2 => c[fd] = b[fd]
    BY <1>3, <1>9, <1>7a, <2>2, Dup2Gives, ZenonT(60)
  <2> QED BY <1>6, <2>1, <2>3
<1> HIDE DEF c
<1>11. e \in FdTable /\ (new > 2 => e[new] = NoFd) /\ \A fd \in Fds : ~(fd = new /\ new > 2) => e[fd] = c[fd]
  <2>1. NoFd \in [file : Files, cloexec : BOOLEAN]
    BY DEF NoFd, Files
  <2> QED BY <1>1, <1>3, <1>10, <2>1 DEF CloseTty, FdTable
<1> HIDE DEF e
<1>12. e[0] = Given("tty") /\ e[1] = Given("tty") /\ e[2] = Given("tty")
  BY <1>1, <1>8, <1>9, <1>10, <1>11
<1>13. \A fd \in {3, 4, 5, 6, 7, 8} : e[fd] = IF fd = new THEN NoFd ELSE fds[fd]
  BY <1>1, <1>3, <1>5, <1>8, <1>9, <1>10, <1>11
<1>14. Others(e, h)
  BY <1>2, <1>4, <1>11, <1>13 DEF Others, Closing
<1>15. TtyTaken(o) = e
  BY <1>7 DEF TtyTaken, a, b, c, e
<1> QED BY <1>12, <1>14, <1>15 DEF o

Kept(fds) == [fd \in Fds |-> IF fds[fd].cloexec THEN NoFd ELSE fds[fd]]

(* What is left when the program starts.                                   *)
LEMMA KeptFiles ==
  ASSUME NEW fds, NEW h \in BOOLEAN, Others(fds, h), NEW in, NEW out,
         fds[0] = in, in = NoFd \/ in = Given(in.file),
         fds[1] = Given(out), fds[2] = Given(out), NEW x, x = Kept(fds)
  PROVE  /\ x[0].file = in.file /\ x[1].file = out /\ x[2].file = out
         /\ x[3].file = IF h THEN "socket" ELSE "none"
         /\ x[4].file = "none" /\ x[5].file = "none" /\ x[6].file = "none"
         /\ x[7].file = "none" /\ x[8].file = "none"
<1>1. Fds = {0, 1, 2, 3, 4, 5, 6, 7, 8}
  BY DEF Fds
<1>2. \A fd \in Fds : x[fd] = IF fds[fd].cloexec THEN NoFd ELSE fds[fd]
  BY DEF Kept
<1>3. NoFd.file = "none" /\ ~NoFd.cloexec /\ \A file : Given(file).file = file /\ ~Given(file).cloexec
  BY DEF NoFd, Given
<1>4. \A fd \in Fds : Closing(fds[fd]) => x[fd].file = "none"
  BY <1>2, <1>3 DEF Closing
<1>5. x[0].file = in.file /\ x[1].file = out /\ x[2].file = out
  BY <1>1, <1>2, <1>3
<1>6. x[3].file = IF h THEN "socket" ELSE "none"
  BY <1>1, <1>2, <1>3, <1>4 DEF Others
<1>7. /\ x[4].file = "none" /\ x[5].file = "none" /\ x[6].file = "none"
      /\ x[7].file = "none" /\ x[8].file = "none"
  BY <1>1, <1>4 DEF Others
<1> QED BY <1>5, <1>6, <1>7

-------------------------------------------------------------------------------
(* The privilege drop.                                                     *)

CredFields == {"uid", "gid", "groups", "nnp", "keep", "permitted", "effective", "inheritable",
               "bounding", "ambient", "ok"}
Fine(c) == DOMAIN c = CredFields /\ c.ok = TRUE
Asks(set, default) == IF set = <<>> THEN default ELSE set[1]
(* The credentials after the first n of the seven parts of the drop.  Root *)
(* keeps everything until it changes its user, and what is asked for after *)
(* that was kept.                                                          *)
After(c, sb, n) ==
  /\ Fine(c)
  /\ c.nnp <=> (n >= 1 /\ sb.no_new_privileges)
  /\ c.keep <=> (n >= 2 /\ sb.ambient # <<>>)
  /\ c.inheritable = IF n >= 2 THEN Asks(sb.ambient, {}) ELSE {}
  /\ c.bounding = IF n >= 3 THEN Caps \intersect Asks(sb.bounding_set, Caps) ELSE Caps
  /\ c.gid = IF n >= 4 THEN sb.gid ELSE 0
  /\ c.groups = IF n >= 5 THEN Asks(sb.groups, RootGroups) ELSE RootGroups
  /\ c.uid = IF n >= 6 THEN sb.uid ELSE 0
  /\ c.effective = IF c.uid = 0 THEN Caps ELSE {}
  /\ c.permitted = IF c.uid = 0 \/ sb.ambient # <<>> THEN Caps ELSE {}
  /\ c.ambient = IF n >= 7 THEN Asks(sb.ambient, {}) ELSE {}

(* Root's own.                                                             *)
LEMMA AfterNone == ASSUME NEW sb PROVE After(RootCred, sb, 0)
BY DEF After, RootCred, Fine, CredFields

(* A part that is not asked for changes nothing.                           *)
LEMMA NotAsked ==
  ASSUME NEW sb, NEW c, NEW n \in 1 .. 7, After(c, sb, n - 1),
         \/ n = 1 /\ ~sb.no_new_privileges
         \/ n \in {2, 7} /\ sb.ambient = <<>>
         \/ n = 3 /\ sb.bounding_set = <<>>
         \/ n = 4 /\ sb.gid = 0
         \/ n = 5 /\ sb.groups = <<>>
         \/ n = 6 /\ sb.uid = 0
  PROVE  After(c, sb, n)
<1>1. /\ sb.ambient = <<>> => Asks(sb.ambient, {}) = {}
      /\ sb.bounding_set = <<>> => Caps \intersect Asks(sb.bounding_set, Caps) = Caps
      /\ sb.groups = <<>> => Asks(sb.groups, RootGroups) = RootGroups
  BY DEF Asks
<1>2. CASE n = 1
  <2>1. After(c, sb, 0)
    BY <1>2
  <2> QED BY <1>2, <2>1 DEF After
<1>3. CASE n = 2
  <2>1. After(c, sb, 1)
    BY <1>3
  <2> QED BY <1>1, <1>3, <2>1 DEF After
<1>4. CASE n = 3
  <2>1. After(c, sb, 2)
    BY <1>4
  <2> QED BY <1>1, <1>4, <2>1 DEF After
<1>5. CASE n = 4
  <2>1. After(c, sb, 3)
    BY <1>5
  <2> QED BY <1>5, <2>1 DEF After
<1>6. CASE n = 5
  <2>1. After(c, sb, 4)
    BY <1>6
  <2> QED BY <1>1, <1>6, <2>1 DEF After
<1>7. CASE n = 6
  <2>1. After(c, sb, 5)
    BY <1>7
  <2> QED BY <1>7, <2>1 DEF After
<1>8. CASE n = 7
  <2>1. After(c, sb, 6)
    BY <1>8
  <2> QED BY <1>1, <1>8, <2>1 DEF After
<1> QED BY <1>2, <1>3, <1>4, <1>5, <1>6, <1>7, <1>8

(* What each part does that is asked for.                                  *)
LEMMA TakeFlag ==
  ASSUME NEW sb, NEW c, After(c, sb, 0), sb.no_new_privileges, NEW d, d = Take(c, sb, "NoNewPrivileges")
  PROVE  After(d, sb, 1)
<1>1. d = [c EXCEPT !.nnp = TRUE]
  BY DEF Take
<1>2. DOMAIN c = CredFields
  BY DEF After, Fine
<1>3. DOMAIN d = CredFields /\ d.nnp = TRUE /\ \A f \in CredFields \ {"nnp"} : d[f] = c[f]
  BY <1>1, <1>2 DEF CredFields
<1> QED BY <1>3 DEF After, Fine, CredFields

(* The inheritable set takes what is in the bounding set, which is still   *)
(* the whole of it.                                                        *)
LEMMA TakeInheritable ==
  ASSUME NEW sb, NEW c, After(c, sb, 1), sb.ambient # <<>>, sb.ambient[1] \subseteq Caps,
         NEW x, x = Take(c, sb, "KeepCapabilities"), NEW d, d = Take(x, sb, "SetInheritable")
  PROVE  x.ok = TRUE /\ After(d, sb, 2)
<1> DEFINE A == sb.ambient[1]
<1>1. x = [c EXCEPT !.keep = TRUE] /\ d = set_inheritable(x, A)
  BY DEF Take
<1>2. DOMAIN c = CredFields /\ c.inheritable = {} /\ c.bounding = Caps /\ c.ok = TRUE
  BY DEF After, Fine
<1>3. DOMAIN x = CredFields /\ x.keep = TRUE /\ \A f \in CredFields \ {"keep"} : x[f] = c[f]
  BY <1>1, <1>2 DEF CredFields
<1>4. x.inheritable = {} /\ x.bounding = Caps /\ x.ok = TRUE
  BY <1>2, <1>3 DEF CredFields
<1> HIDE DEF A
<1>5. d = [x EXCEPT !.inheritable = A]
  <2>1. {} \union A = A /\ A \subseteq {} \union Caps
    BY DEF A
  <2> QED BY <1>1, <1>4, <2>1 DEF set_inheritable
<1>6. DOMAIN d = CredFields /\ d.inheritable = A /\ \A f \in CredFields \ {"inheritable"} : d[f] = x[f]
  BY <1>3, <1>5 DEF CredFields
<1>7. d.keep = TRUE /\ \A f \in CredFields \ {"keep", "inheritable"} : d[f] = c[f]
  BY <1>3, <1>6 DEF CredFields
<1>8. After(d, sb, 2)
  BY <1>6, <1>7 DEF After, Fine, CredFields, Asks, A
<1> QED BY <1>4, <1>8

(* Root may shrink its bounding set, even to nothing.                      *)
LEMMA TakeBounding ==
  ASSUME NEW sb, NEW c, After(c, sb, 2), sb.bounding_set # <<>>, NEW d, d = Take(c, sb, "SetBoundingSet")
  PROVE  After(d, sb, 3)
<1> DEFINE K == sb.bounding_set[1]
<1>1. d = set_bounding_set(c, K)
  BY DEF Take
<1>2. DOMAIN c = CredFields /\ c.bounding = Caps /\ "setpcap" \in c.effective
  BY DEF After, Fine, Caps
<1> HIDE DEF K
<1>3. DOMAIN d = CredFields /\ d.bounding = Caps \intersect K /\ \A f \in CredFields \ {"bounding"} : d[f] = c[f]
  <2>1. CASE Caps \subseteq K
    <3>1. d = c /\ Caps \intersect K = Caps
      BY <1>1, <2>1 DEF set_bounding_set
    <3> QED BY <1>2, <3>1
  <2>2. CASE ~(Caps \subseteq K)
    <3>1. d = [c EXCEPT !.bounding = c.bounding \intersect K]
      BY <1>1, <1>2, <2>2 DEF set_bounding_set, Allowed
    <3> QED BY <1>2, <3>1 DEF CredFields
  <2> QED BY <2>1, <2>2
<1>4. Asks(sb.bounding_set, Caps) = K
  BY DEF Asks, K
<1> QED BY <1>3, <1>4 DEF After, Fine, CredFields

(* Root may change its group and its groups.                               *)
LEMMA TakeGroup ==
  ASSUME NEW sb, NEW c, After(c, sb, 3), NEW d, d = Take(c, sb, "SetGroup")
  PROVE  After(d, sb, 4)
<1>1. DOMAIN c = CredFields /\ "setgid" \in c.effective
  BY DEF After, Fine, Caps
<1>2. d = [c EXCEPT !.gid = sb.gid]
  BY <1>1 DEF Take, Allowed
<1>3. DOMAIN d = CredFields /\ d.gid = sb.gid /\ \A f \in CredFields \ {"gid"} : d[f] = c[f]
  BY <1>1, <1>2 DEF CredFields
<1> QED BY <1>3 DEF After, Fine, CredFields

(* The same for the list of groups.                                        *)
LEMMA TakeGroups ==
  ASSUME NEW sb, NEW c, After(c, sb, 4), sb.groups # <<>>, NEW d, d = Take(c, sb, "SetGroups")
  PROVE  After(d, sb, 5)
<1>1. DOMAIN c = CredFields /\ "setgid" \in c.effective
  BY DEF After, Fine, Caps
<1>2. d = [c EXCEPT !.groups = sb.groups[1]]
  BY <1>1 DEF Take, Allowed
<1>3. DOMAIN d = CredFields /\ d.groups = sb.groups[1] /\ \A f \in CredFields \ {"groups"} : d[f] = c[f]
  BY <1>1, <1>2 DEF CredFields
<1>4. Asks(sb.groups, RootGroups) = sb.groups[1]
  BY DEF Asks
<1> QED BY <1>3, <1>4 DEF After, Fine, CredFields

(* A change of user leaves the capabilities that were kept.                *)
LEMMA TakeUser ==
  ASSUME NEW sb, NEW c, After(c, sb, 5), sb.uid # 0, NEW d, d = Take(c, sb, "SetUser")
  PROVE  After(d, sb, 6)
<1>1. DOMAIN c = CredFields /\ "setuid" \in c.effective /\ c.uid = 0
  BY DEF After, Fine, Caps
<1> DEFINE P == IF c.keep THEN c.permitted ELSE {}
<1>2. d = [c EXCEPT !.uid = sb.uid, !.effective = {}, !.ambient = {}, !.permitted = P]
  BY <1>1 DEF Take, set_uid, Allowed, CredFields
<1>3. P = IF sb.ambient # <<>> THEN Caps ELSE {}
  BY <1>1 DEF After
<1> HIDE DEF P
<1>4. /\ DOMAIN d = CredFields /\ d.uid = sb.uid /\ d.effective = {} /\ d.ambient = {} /\ d.permitted = P
      /\ \A f \in CredFields \ {"uid", "effective", "ambient", "permitted"} : d[f] = c[f]
  BY <1>1, <1>2 DEF CredFields
<1>5. /\ d.ok = c.ok /\ d.nnp = c.nnp /\ d.keep = c.keep /\ d.inheritable = c.inheritable
      /\ d.bounding = c.bounding /\ d.gid = c.gid /\ d.groups = c.groups
  BY <1>4 DEF CredFields
<1>6. Fine(d)
  BY <1>4, <1>5 DEF After, Fine
<1>7. /\ d.permitted = IF d.uid = 0 \/ sb.ambient # <<>> THEN Caps ELSE {}
      /\ d.effective = IF d.uid = 0 THEN Caps ELSE {}
  BY <1>3, <1>4
<1>8. /\ d.nnp <=> sb.no_new_privileges
      /\ d.keep <=> sb.ambient # <<>>
      /\ d.inheritable = Asks(sb.ambient, {}) /\ d.bounding = Caps \intersect Asks(sb.bounding_set, Caps)
      /\ d.gid = sb.gid /\ d.groups = Asks(sb.groups, RootGroups) /\ d.uid = sb.uid /\ d.ambient = {}
  BY <1>4, <1>5 DEF After
<1> QED BY <1>6, <1>7, <1>8 DEF After

(* Then they can be raised.                                                *)
LEMMA TakeAmbient ==
  ASSUME NEW sb, NEW c, After(c, sb, 6), sb.ambient # <<>>, sb.ambient[1] \subseteq Caps,
         NEW d, d = Take(c, sb, "RaiseAmbient")
  PROVE  After(d, sb, 7)
<1> DEFINE A == sb.ambient[1]
<1>1. d = set_ambient(c, A)
  BY DEF Take
<1>2. DOMAIN c = CredFields /\ c.permitted = Caps /\ c.inheritable = A /\ c.ambient = {} /\ A \subseteq Caps
  BY DEF After, Fine, Asks
<1> HIDE DEF A
<1>3. d = [c EXCEPT !.ambient = A]
  BY <1>1, <1>2 DEF set_ambient
<1>4. DOMAIN d = CredFields /\ d.ambient = A /\ \A f \in CredFields \ {"ambient"} : d[f] = c[f]
  BY <1>2, <1>3 DEF CredFields
<1>5. Asks(sb.ambient, {}) = A
  BY DEF Asks, A
<1>6. /\ d.ok = c.ok /\ d.nnp = c.nnp /\ d.keep = c.keep /\ d.inheritable = c.inheritable
      /\ d.bounding = c.bounding /\ d.gid = c.gid /\ d.groups = c.groups /\ d.uid = c.uid
      /\ d.effective = c.effective /\ d.permitted = c.permitted
  BY <1>4 DEF CredFields
<1>7. Fine(d)
  BY <1>4, <1>6 DEF After, Fine
<1> QED BY <1>4, <1>5, <1>6, <1>7 DEF After

-------------------------------------------------------------------------------

(* A world that differs from another in its credentials at most.           *)
OnlyCred(w, v) ==
  /\ DOMAIN v = WorldFields /\ v.fds = w.fds /\ v.session = w.session
  /\ v.terminal = w.terminal /\ v.dir = w.dir /\ v.cgroup = w.cgroup

TakesTo(w, s, step, c) == \E v : Reaches(w, s, <<step>>, v) /\ v.cred = c /\ OnlyCred(w, v)

(* A step of the drop that is not refused.                                 *)
LEMMA TakeReaches ==
  ASSUME NEW w, DOMAIN w = WorldFields, w.cred.ok = TRUE, NEW s, NEW step \in Drop,
         NEW c, c = Take(w.cred, s.sandbox, step), c.ok = TRUE
  PROVE  TakesTo(w, s, step, c)
<1> DEFINE v == [w EXCEPT !.cred = c]
<1>1. v.cred = c /\ OnlyCred(w, v)
  BY DEF OnlyCred, WorldFields
<1>2. Act(w, s, step) = v
  BY DEF Act, Done, Drop
<1>3. Goes(w, s, step)
  BY DEF Goes, Permitted, Drop
<1> HIDE DEF v
<1>4. Reaches(w, s, <<step>>, v)
  BY <1>1, <1>2, <1>3, ReachesOne DEF OnlyCred
<1> QED BY <1>1, <1>4 DEF TakesTo

(* No step.                                                                *)
LEMMA StaysThere ==
  ASSUME NEW w, DOMAIN w = WorldFields, w.cred.ok = TRUE, NEW s
  PROVE  Reaches(w, s, <<>>, w) /\ OnlyCred(w, w)
BY ReachesNone DEF OnlyCred

(* Every step of the drop is permitted: each is taken while the child      *)
(* still may.                                                              *)
LEMMA DropReaches ==
  ASSUME NEW s, resolve_caps(s.sandbox.ambient), NEW w, DOMAIN w = WorldFields, w.cred = RootCred
  PROVE  \E v : Reaches(w, s, steps(s.sandbox), v) /\ After(v.cred, s.sandbox, 7) /\ OnlyCred(w, v)
<1> DEFINE sb == s.sandbox
           a == OptStep(sb.no_new_privileges, <<"NoNewPrivileges">>)
           b == OptStep(sb.ambient # <<>>, <<"KeepCapabilities", "SetInheritable">>)
           c == OptStep(sb.bounding_set # <<>>, <<"SetBoundingSet">>)
           d == OptStep(sb.gid # 0, <<"SetGroup">>)
           e == OptStep(sb.groups # <<>>, <<"SetGroups">>)
           f == OptStep(sb.uid # 0, <<"SetUser">>)
           g == OptStep(sb.ambient # <<>>, <<"RaiseAmbient">>)
<1>1. sb.ambient # <<>> => sb.ambient[1] \subseteq Caps
  BY DEF resolve_caps
<1>2. After(w.cred, sb, 0) /\ DOMAIN w = WorldFields
  BY AfterNone
<1>3. /\ a \in Seq(Drop) /\ b \in Seq(Drop) /\ c \in Seq(Drop) /\ d \in Seq(Drop)
      /\ e \in Seq(Drop) /\ f \in Seq(Drop) /\ g \in Seq(Drop)
  <2>1. /\ <<>> \in Seq(Drop)
        /\ <<"NoNewPrivileges">> \in Seq(Drop) /\ <<"SetBoundingSet">> \in Seq(Drop)
        /\ <<"KeepCapabilities", "SetInheritable">> \in Seq(Drop)
        /\ <<"SetGroup">> \in Seq(Drop) /\ <<"SetGroups">> \in Seq(Drop)
        /\ <<"SetUser">> \in Seq(Drop) /\ <<"RaiseAmbient">> \in Seq(Drop)
    BY DEF Drop
  <2> QED BY <2>1 DEF OptStep
<1>4. steps(sb) = a \o b \o c \o d \o e \o f \o g
  BY DEF steps
<1> HIDE DEF sb
<1>5. PICK va : Reaches(w, s, a, va) /\ OnlyCred(w, va) /\ After(va.cred, sb, 1)
  <2>1. DOMAIN w = WorldFields /\ w.cred.ok = TRUE
    BY <1>2 DEF OnlyCred, After, Fine
  <2>2. CASE sb.no_new_privileges
    <3> DEFINE x == Take(w.cred, sb, "NoNewPrivileges")
    <3>1. After(x, sb, 1)
      BY <1>2, <2>2, TakeFlag
    <3> HIDE DEF x
    <3>2. TakesTo(w, s, "NoNewPrivileges", x)
      <4>1. x.ok = TRUE /\ "NoNewPrivileges" \in Drop
        BY <3>1 DEF After, Fine, Drop
      <4>2. x = Take(w.cred, s.sandbox, "NoNewPrivileges")
        BY DEF x, sb
      <4> QED BY <2>1, <4>1, <4>2, TakeReaches
    <3>3. a = <<"NoNewPrivileges">>
      BY <2>2 DEF OptStep
    <3> QED BY <3>1, <3>2, <3>3 DEF TakesTo
  <2>3. CASE ~(sb.no_new_privileges)
    <3>1. After(w.cred, sb, 1)
      BY <1>2, <2>3, NotAsked
    <3>2. a = <<>>
      BY <2>3 DEF OptStep
    <3> QED BY <2>1, <3>1, <3>2, StaysThere
  <2> QED BY <2>2, <2>3
<1>6. PICK vb : Reaches(va, s, b, vb) /\ OnlyCred(va, vb) /\ After(vb.cred, sb, 2)
  <2>1. DOMAIN va = WorldFields /\ va.cred.ok = TRUE
    BY <1>5 DEF OnlyCred, After, Fine
  <2>2. CASE sb.ambient # <<>>
    <3> DEFINE x == Take(va.cred, sb, "KeepCapabilities")
               y == Take(x, sb, "SetInheritable")
    <3>1. x.ok = TRUE /\ After(y, sb, 2)
      BY <1>1, <1>5, <2>2, TakeInheritable
    <3>2. x = Take(va.cred, s.sandbox, "KeepCapabilities") /\ y = Take(x, s.sandbox, "SetInheritable")
      BY DEF sb
    <3> HIDE DEF x, y
    <3>3. "KeepCapabilities" \in Drop /\ "SetInheritable" \in Drop /\ y.ok = TRUE
      BY <3>1 DEF Drop, After, Fine
    <3>4. TakesTo(va, s, "KeepCapabilities", x)
      BY <2>1, <3>1, <3>2, <3>3, TakeReaches
    <3>5. PICK u : Reaches(va, s, <<"KeepCapabilities">>, u) /\ u.cred = x /\ OnlyCred(va, u)
      BY <3>4 DEF TakesTo
    <3>6. TakesTo(u, s, "SetInheritable", y)
      <4>1. DOMAIN u = WorldFields /\ u.cred.ok = TRUE /\ y = Take(u.cred, s.sandbox, "SetInheritable")
        BY <3>1, <3>2, <3>5 DEF OnlyCred
      <4> QED BY <3>3, <4>1, TakeReaches
    <3>7. PICK v : Reaches(u, s, <<"SetInheritable">>, v) /\ v.cred = y /\ OnlyCred(u, v)
      BY <3>6 DEF TakesTo
    <3> DEFINE p == <<"KeepCapabilities">>
               q == <<"SetInheritable">>
    <3>8. p \in Seq(Drop) /\ q \in Seq(Drop) /\ b = p \o q
      BY <2>2 DEF OptStep, Drop
    <3>9. Reaches(va, s, p, u) /\ Reaches(u, s, q, v)
      BY <3>5, <3>7
    <3> HIDE DEF p, q
    <3>10. Reaches(va, s, p \o q, v)
      BY <3>8, <3>9, ReachesOn, ZenonT(60)
    <3>11. OnlyCred(va, v)
      BY <3>5, <3>7 DEF OnlyCred
    <3> QED BY <3>1, <3>7, <3>8, <3>10, <3>11
  <2>3. CASE ~(sb.ambient # <<>>)
    <3>1. After(va.cred, sb, 2)
      BY <1>5, <2>3, NotAsked
    <3>2. b = <<>>
      BY <2>3 DEF OptStep
    <3> QED BY <2>1, <3>1, <3>2, StaysThere
  <2> QED BY <2>2, <2>3
<1>7. PICK vc : Reaches(vb, s, c, vc) /\ OnlyCred(vb, vc) /\ After(vc.cred, sb, 3)
  <2>1. DOMAIN vb = WorldFields /\ vb.cred.ok = TRUE
    BY <1>6 DEF OnlyCred, After, Fine
  <2>2. CASE sb.bounding_set # <<>>
    <3> DEFINE x == Take(vb.cred, sb, "SetBoundingSet")
    <3>1. After(x, sb, 3)
      BY <1>6, <2>2, TakeBounding
    <3> HIDE DEF x
    <3>2. TakesTo(vb, s, "SetBoundingSet", x)
      <4>1. x.ok = TRUE /\ "SetBoundingSet" \in Drop
        BY <3>1 DEF After, Fine, Drop
      <4>2. x = Take(vb.cred, s.sandbox, "SetBoundingSet")
        BY DEF x, sb
      <4> QED BY <2>1, <4>1, <4>2, TakeReaches
    <3>3. c = <<"SetBoundingSet">>
      BY <2>2 DEF OptStep
    <3> QED BY <3>1, <3>2, <3>3 DEF TakesTo
  <2>3. CASE ~(sb.bounding_set # <<>>)
    <3>1. After(vb.cred, sb, 3)
      BY <1>6, <2>3, NotAsked
    <3>2. c = <<>>
      BY <2>3 DEF OptStep
    <3> QED BY <2>1, <3>1, <3>2, StaysThere
  <2> QED BY <2>2, <2>3
<1>8. PICK vd : Reaches(vc, s, d, vd) /\ OnlyCred(vc, vd) /\ After(vd.cred, sb, 4)
  <2>1. DOMAIN vc = WorldFields /\ vc.cred.ok = TRUE
    BY <1>7 DEF OnlyCred, After, Fine
  <2>2. CASE sb.gid # 0
    <3> DEFINE x == Take(vc.cred, sb, "SetGroup")
    <3>1. After(x, sb, 4)
      BY <1>7, <2>2, TakeGroup
    <3> HIDE DEF x
    <3>2. TakesTo(vc, s, "SetGroup", x)
      <4>1. x.ok = TRUE /\ "SetGroup" \in Drop
        BY <3>1 DEF After, Fine, Drop
      <4>2. x = Take(vc.cred, s.sandbox, "SetGroup")
        BY DEF x, sb
      <4> QED BY <2>1, <4>1, <4>2, TakeReaches
    <3>3. d = <<"SetGroup">>
      BY <2>2 DEF OptStep
    <3> QED BY <3>1, <3>2, <3>3 DEF TakesTo
  <2>3. CASE ~(sb.gid # 0)
    <3>1. After(vc.cred, sb, 4)
      BY <1>7, <2>3, NotAsked
    <3>2. d = <<>>
      BY <2>3 DEF OptStep
    <3> QED BY <2>1, <3>1, <3>2, StaysThere
  <2> QED BY <2>2, <2>3
<1>9. PICK ve : Reaches(vd, s, e, ve) /\ OnlyCred(vd, ve) /\ After(ve.cred, sb, 5)
  <2>1. DOMAIN vd = WorldFields /\ vd.cred.ok = TRUE
    BY <1>8 DEF OnlyCred, After, Fine
  <2>2. CASE sb.groups # <<>>
    <3> DEFINE x == Take(vd.cred, sb, "SetGroups")
    <3>1. After(x, sb, 5)
      BY <1>8, <2>2, TakeGroups
    <3> HIDE DEF x
    <3>2. TakesTo(vd, s, "SetGroups", x)
      <4>1. x.ok = TRUE /\ "SetGroups" \in Drop
        BY <3>1 DEF After, Fine, Drop
      <4>2. x = Take(vd.cred, s.sandbox, "SetGroups")
        BY DEF x, sb
      <4> QED BY <2>1, <4>1, <4>2, TakeReaches
    <3>3. e = <<"SetGroups">>
      BY <2>2 DEF OptStep
    <3> QED BY <3>1, <3>2, <3>3 DEF TakesTo
  <2>3. CASE ~(sb.groups # <<>>)
    <3>1. After(vd.cred, sb, 5)
      BY <1>8, <2>3, NotAsked
    <3>2. e = <<>>
      BY <2>3 DEF OptStep
    <3> QED BY <2>1, <3>1, <3>2, StaysThere
  <2> QED BY <2>2, <2>3
<1>10. PICK vf : Reaches(ve, s, f, vf) /\ OnlyCred(ve, vf) /\ After(vf.cred, sb, 6)
  <2>1. DOMAIN ve = WorldFields /\ ve.cred.ok = TRUE
    BY <1>9 DEF OnlyCred, After, Fine
  <2>2. CASE sb.uid # 0
    <3> DEFINE x == Take(ve.cred, sb, "SetUser")
    <3>1. After(x, sb, 6)
      BY <1>9, <2>2, TakeUser
    <3> HIDE DEF x
    <3>2. TakesTo(ve, s, "SetUser", x)
      <4>1. x.ok = TRUE /\ "SetUser" \in Drop
        BY <3>1 DEF After, Fine, Drop
      <4>2. x = Take(ve.cred, s.sandbox, "SetUser")
        BY DEF x, sb
      <4> QED BY <2>1, <4>1, <4>2, TakeReaches
    <3>3. f = <<"SetUser">>
      BY <2>2 DEF OptStep
    <3> QED BY <3>1, <3>2, <3>3 DEF TakesTo
  <2>3. CASE ~(sb.uid # 0)
    <3>1. After(ve.cred, sb, 6)
      BY <1>9, <2>3, NotAsked
    <3>2. f = <<>>
      BY <2>3 DEF OptStep
    <3> QED BY <2>1, <3>1, <3>2, StaysThere
  <2> QED BY <2>2, <2>3
<1>11. PICK vg : Reaches(vf, s, g, vg) /\ OnlyCred(vf, vg) /\ After(vg.cred, sb, 7)
  <2>1. DOMAIN vf = WorldFields /\ vf.cred.ok = TRUE
    BY <1>10 DEF OnlyCred, After, Fine
  <2>2. CASE sb.ambient # <<>>
    <3> DEFINE x == Take(vf.cred, sb, "RaiseAmbient")
    <3>1. After(x, sb, 7)
      BY <1>1, <1>10, <2>2, TakeAmbient
    <3> HIDE DEF x
    <3>2. TakesTo(vf, s, "RaiseAmbient", x)
      <4>1. x.ok = TRUE /\ "RaiseAmbient" \in Drop
        BY <3>1 DEF After, Fine, Drop
      <4>2. x = Take(vf.cred, s.sandbox, "RaiseAmbient")
        BY DEF x, sb
      <4> QED BY <2>1, <4>1, <4>2, TakeReaches
    <3>3. g = <<"RaiseAmbient">>
      BY <2>2 DEF OptStep
    <3> QED BY <3>1, <3>2, <3>3 DEF TakesTo
  <2>3. CASE ~(sb.ambient # <<>>)
    <3>1. After(vf.cred, sb, 7)
      BY <1>10, <2>3, NotAsked
    <3>2. g = <<>>
      BY <2>3 DEF OptStep
    <3> QED BY <2>1, <3>1, <3>2, StaysThere
  <2> QED BY <2>2, <2>3
<1> HIDE DEF a, b, c, d, e, f, g
<1> DEFINE to_b == a \o b
<1>12. to_b \in Seq(Drop) /\ Reaches(w, s, to_b, vb)
  <2>1. to_b \in Seq(Drop)
    BY <1>3
  <2>2. Reaches(w, s, to_b, vb)
    BY <1>3, <1>5, <1>6, ReachesOn, ZenonT(60)
  <2> QED BY <2>1, <2>2
<1> HIDE DEF to_b
<1> DEFINE to_c == to_b \o c
<1>13. to_c \in Seq(Drop) /\ Reaches(w, s, to_c, vc)
  <2>1. to_c \in Seq(Drop)
    BY <1>3, <1>12
  <2>2. Reaches(w, s, to_c, vc)
    BY <1>3, <1>12, <1>7, ReachesOn, ZenonT(60)
  <2> QED BY <2>1, <2>2
<1> HIDE DEF to_c
<1> DEFINE to_d == to_c \o d
<1>14. to_d \in Seq(Drop) /\ Reaches(w, s, to_d, vd)
  <2>1. to_d \in Seq(Drop)
    BY <1>3, <1>13
  <2>2. Reaches(w, s, to_d, vd)
    BY <1>3, <1>13, <1>8, ReachesOn, ZenonT(60)
  <2> QED BY <2>1, <2>2
<1> HIDE DEF to_d
<1> DEFINE to_e == to_d \o e
<1>15. to_e \in Seq(Drop) /\ Reaches(w, s, to_e, ve)
  <2>1. to_e \in Seq(Drop)
    BY <1>3, <1>14
  <2>2. Reaches(w, s, to_e, ve)
    BY <1>3, <1>14, <1>9, ReachesOn, ZenonT(60)
  <2> QED BY <2>1, <2>2
<1> HIDE DEF to_e
<1> DEFINE to_f == to_e \o f
<1>16. to_f \in Seq(Drop) /\ Reaches(w, s, to_f, vf)
  <2>1. to_f \in Seq(Drop)
    BY <1>3, <1>15
  <2>2. Reaches(w, s, to_f, vf)
    BY <1>3, <1>15, <1>10, ReachesOn, ZenonT(60)
  <2> QED BY <2>1, <2>2
<1> HIDE DEF to_f
<1> DEFINE to_g == to_f \o g
<1>17. to_g \in Seq(Drop) /\ Reaches(w, s, to_g, vg)
  <2>1. to_g \in Seq(Drop)
    BY <1>3, <1>16
  <2>2. Reaches(w, s, to_g, vg)
    BY <1>3, <1>16, <1>11, ReachesOn, ZenonT(60)
  <2> QED BY <2>1, <2>2
<1> HIDE DEF to_g
<1>18. OnlyCred(w, vg)
  BY <1>5, <1>6, <1>7, <1>8, <1>9, <1>10, <1>11 DEF OnlyCred
<1>19. steps(sb) = to_g
  BY <1>4 DEF to_b, to_c, to_d, to_e, to_f, to_g
<1> QED BY <1>11, <1>17, <1>18, <1>19 DEF sb

(* A set of numbers has a least one.                                       *)
LEMMA LeastNumber ==
  ASSUME NEW S \in SUBSET Nat, S # {}
  PROVE  \E n \in S : \A k \in S : n <= k
<1> DEFINE R == OpToRel(<, Nat)
<1>1. IsWellFoundedOn(R, Nat)
  BY NatLessThanWellFounded
<1>2. \A x, y \in Nat : x < y => <<x, y>> \in R
  BY DEF OpToRel
<1> HIDE DEF R
<1>3. PICK n \in S : \A y \in S : ~(<<y, n>> \in R)
  BY <1>1, WFMin
<1>4. ASSUME NEW k \in S PROVE n <= k
  <2>1. k \in Nat /\ n \in Nat
    OBVIOUS
  <2>2. ~(k < n)
    BY <1>2, <1>3, <2>1
  <2> QED BY <2>1, <2>2
<1> QED BY <1>4

(* A drop none of whose steps is refused is the one of the sandbox.        *)
LEMMA DroppedIs ==
  ASSUME NEW s, NEW w, w.cred = RootCred, steps(s.sandbox) \in Seq(Drop),
         NEW v, Reaches(w, s, steps(s.sandbox), v)
  PROVE  v.cred = Dropped(s.sandbox)
<1> DEFINE sb == s.sandbox
           plan == steps(sb)
           n == Len(plan)
<1>1. PICK way : IsWay(way, s, plan) /\ way[0] = w /\ way[n] = v
  BY DEF Reaches
<1>2. n \in Nat /\ \A i \in 1 .. n : plan[i] \in Drop
  OBVIOUS
<1> DEFINE Next(f) == [i \in 0 .. n |-> IF i = 0 THEN RootCred
                                        ELSE IF f[i - 1].ok THEN Take(f[i - 1], sb, plan[i]) ELSE f[i - 1]]
           g == [i \in 0 .. n |-> way[i].cred]
           cred == CHOOSE f : f = Next(f)
<1>3. Dropped(sb) = cred[n]
  BY DEF Dropped
<1> HIDE DEF sb, plan, n
<1>4. \A i \in 1 .. n : way[i].cred = Take(way[i - 1].cred, sb, plan[i]) /\ way[i - 1].cred.ok = TRUE
  <2> SUFFICES ASSUME NEW i \in 1 .. n
               PROVE  way[i].cred = Take(way[i - 1].cred, sb, plan[i]) /\ way[i - 1].cred.ok = TRUE
    OBVIOUS
  <2> DEFINE u == way[i - 1]
             step == plan[i]
  <2>1. i - 1 \in 0 .. n
    BY <1>2
  <2>2. DOMAIN u = WorldFields /\ u.cred.ok = TRUE
    BY <1>1, <2>1 DEF IsWay, n
  <2>3. way[i] = Act(u, s, step) /\ step \in Drop
    BY <1>1, <1>2 DEF IsWay, n
  <2> HIDE DEF u, step
  <2> DEFINE c == Take(u.cred, sb, step)
  <2>4. Act(u, s, step) = [u EXCEPT !.cred = c]
    BY <2>3 DEF Act, Done, Drop, sb
  <2> HIDE DEF c
  <2>5. way[i].cred = c
    BY <2>2, <2>3, <2>4 DEF WorldFields
  <2> QED BY <2>2, <2>5 DEF u, step, c
<1>5. \A i \in 0 .. n : g[i] = Next(g)[i]
  <2> SUFFICES ASSUME NEW i \in 0 .. n PROVE g[i] = Next(g)[i]
    OBVIOUS
  <2>1. CASE i = 0
    BY <1>1, <2>1
  <2>2. CASE i # 0
    <3>1. i \in 1 .. n /\ i - 1 \in 0 .. n
      BY <1>2, <2>2
    <3>2. g[i] = way[i].cred /\ g[i - 1] = way[i - 1].cred
      BY <3>1
    <3> HIDE DEF g
    <3> QED BY <1>4, <2>2, <3>1, <3>2
  <2> QED BY <2>1, <2>2
<1>6. g = Next(g)
  BY <1>5
<1> HIDE DEF g
<1>7. cred = Next(cred)
  BY <1>6
<1> HIDE DEF cred
<1>8. g[0] = RootCred /\ cred[0] = RootCred
  BY <1>2, <1>6, <1>7
<1>9. \A i \in 1 .. n : /\ g[i] = IF g[i - 1].ok THEN Take(g[i - 1], sb, plan[i]) ELSE g[i - 1]
                        /\ cred[i] = IF cred[i - 1].ok THEN Take(cred[i - 1], sb, plan[i]) ELSE cred[i - 1]
  BY <1>2, <1>6, <1>7
<1> HIDE DEF Next
<1> DEFINE apart == {i \in 0 .. n : cred[i] # g[i]}
<1>10. apart = {}
  <2> SUFFICES ASSUME apart # {} PROVE FALSE
    OBVIOUS
  <2>1. PICK m \in apart : \A k \in apart : m <= k
    <3>1. apart \in SUBSET Nat
      BY <1>2
    <3> HIDE DEF apart
    <3> QED BY <3>1, LeastNumber
  <2>2. m \in 1 .. n
    BY <1>2, <1>8, <2>1
  <2>3. m - 1 \in 0 .. n /\ m - 1 \notin apart
    BY <1>2, <2>1, <2>2
  <2> QED BY <1>9, <2>1, <2>2, <2>3
<1>11. cred[n] = g[n] /\ g[n] = way[n].cred
  <2>1. n \in 0 .. n
    BY <1>2
  <2>2. cred[n] = g[n]
    BY <1>10, <2>1
  <2>3. g[n] = way[n].cred
    BY <2>1 DEF g
  <2> QED BY <2>2, <2>3
<1> QED BY <1>1, <1>3, <1>11 DEF sb

(* What the credentials of a program are after the whole drop.             *)
LEMMA DropEnds ==
  ASSUME NEW sb, resolve_caps(sb.ambient)
  PROVE  After(Dropped(sb), sb, 7)
<1> DEFINE s == [sandbox |-> sb]
           w == [f \in WorldFields |-> RootCred]
<1>1. s.sandbox = sb /\ DOMAIN w = WorldFields /\ w.cred = RootCred
  BY DEF WorldFields
<1> HIDE DEF s, w
<1>2. PICK v : Reaches(w, s, steps(s.sandbox), v) /\ After(v.cred, s.sandbox, 7)
  BY <1>1, DropReaches
<1>3. steps(s.sandbox) \in Seq(Drop)
  BY DropOnly
<1>4. v.cred = Dropped(s.sandbox)
  BY <1>1, <1>2, <1>3, DroppedIs
<1> QED BY <1>1, <1>2, <1>4

Gets(c, config, user, gid, own) ==
  /\ c.ok = TRUE
  /\ c.nnp <=> config.nnp
  /\ c.uid = user.ids[1] /\ c.gid = gid[1]
  /\ c.groups = IF user.kind = "Root" THEN RootGroups
                ELSE IF user.kind = "Id" THEN {gid[1]} ELSE own \union {gid[1]}
  /\ c.effective = Asks(config.ambient, {}) \union (IF c.uid = 0 THEN Asks(config.bounding, Caps) ELSE {})
  /\ c.permitted = c.effective

(* Whatever a unit combines, once its names resolve no step of its drop is *)
(* refused, and its program has exactly the user, the group, the groups    *)
(* and the capabilities asked for: none of root's groups unless it is      *)
(* root, no capability but the ambient ones under another user, and under  *)
(* root those that are bounded or ambient (resolve, steps, the calls of    *)
(* cred.rs).                                                               *)
THEOREM DropIsExactlyAsked ==
  ASSUME NEW config, NEW passwd, NEW groups, NEW s, s = resolve_from(config, passwd, groups), s # <<>>
  PROVE  Gets(Execve(Dropped(s[1])), config, classify(config.user, passwd),
              GroupOf(config, classify(config.user, passwd), groups), supplementary_gids(groups, config.user))
<1> DEFINE user == classify(config.user, passwd)
           gid == GroupOf(config, user, groups)
           own == supplementary_gids(groups, config.user)
           list == CASE user.kind = "Root" -> <<>>
                     [] user.kind = "Id" -> <<{gid[1]}>>
                     [] OTHER -> <<own \union {gid[1]}>>
           sb == [uid |-> user.ids[1], gid |-> gid[1], groups |-> list, no_new_privileges |-> config.nnp,
                  bounding_set |-> config.bounding, ambient |-> config.ambient]
<1>1. s = <<sb>> /\ resolve_caps(config.bounding) /\ resolve_caps(config.ambient)
  BY DEF resolve_from
<1>2. Asks(list, RootGroups) = IF user.kind = "Root" THEN RootGroups
                               ELSE IF user.kind = "Id" THEN {gid[1]} ELSE own \union {gid[1]}
  <2>1. CASE user.kind = "Root"
    BY <2>1 DEF Asks
  <2>2. CASE user.kind = "Id"
    BY <2>2 DEF Asks
  <2>3. CASE user.kind \notin {"Root", "Id"}
    BY <2>3 DEF Asks
  <2> QED BY <2>1, <2>2, <2>3
<1> HIDE DEF user, gid, own, list
<1>3. /\ sb.uid = user.ids[1] /\ sb.gid = gid[1] /\ sb.groups = list
      /\ (sb.no_new_privileges <=> config.nnp)
      /\ sb.bounding_set = config.bounding /\ sb.ambient = config.ambient
  OBVIOUS
<1> HIDE DEF sb
<1> DEFINE c == Dropped(sb)
           A == Asks(config.ambient, {})
           B == Asks(config.bounding, Caps)
           given == IF c.uid = 0 THEN c.inheritable \union c.bounding ELSE {}
           x == Execve(c)
<1>4. After(c, sb, 7)
  BY <1>1, <1>3, DropEnds
<1> HIDE DEF c
<1>5. A \subseteq Caps /\ B \subseteq Caps
  BY <1>1 DEF resolve_caps, Asks
<1> HIDE DEF A, B
<1>6. /\ Fine(c) /\ (c.nnp <=> config.nnp) /\ c.uid = user.ids[1] /\ c.gid = gid[1]
      /\ c.groups = Asks(list, RootGroups) /\ c.inheritable = A /\ c.bounding = Caps \intersect B /\ c.ambient = A
      /\ (c.uid = 0 => c.permitted = Caps)
  BY <1>3, <1>4 DEF After, A, B
<1>7. c.bounding = B
  BY <1>5, <1>6
<1>8. given = (IF c.uid = 0 THEN A \union B ELSE {}) /\ given \subseteq c.permitted
  BY <1>5, <1>6, <1>7
<1> HIDE DEF given
<1>9. x = [c EXCEPT !.permitted = given \union c.ambient, !.effective = given \union c.ambient, !.keep = FALSE]
  BY <1>8 DEF Execve, given
<1>10. /\ x.permitted = given \union A /\ x.effective = given \union A
       /\ x.ok = c.ok /\ x.nnp = c.nnp /\ x.uid = c.uid /\ x.gid = c.gid /\ x.groups = c.groups
  BY <1>6, <1>9 DEF Fine, CredFields
<1> HIDE DEF x
<1>11. given \union A = A \union (IF x.uid = 0 THEN B ELSE {})
  BY <1>8, <1>10
<1>12. Gets(x, config, user, gid, own)
  BY <1>2, <1>6, <1>10, <1>11 DEF Gets, Fine, A, B
<1>13. x = Execve(Dropped(s[1]))
  BY <1>1 DEF x, c
<1> QED BY <1>12, <1>13 DEF user, gid, own

-------------------------------------------------------------------------------
(* The whole plan.                                                         *)

Start(s) == [fds |-> Inherited(s), cred |-> RootCred, session |-> FALSE, terminal |-> FALSE,
             dir |-> FALSE, cgroup |-> FALSE]
IsRoot(w) == DOMAIN w = WorldFields /\ w.cred = RootCred
Setting == Early \cup Terminal \cup {"Chdir", "JoinCgroup"}
SetsTo(w, s, step, f, x) ==
  \E v : /\ Reaches(w, s, <<step>>, v) /\ IsRoot(v) /\ v[f] = x
         /\ \A g \in WorldFields \ {f} : v[g] = w[g]

(* Root may take every step before the drop; the terminal becomes the      *)
(* controlling one of a session.                                           *)
LEMMA RootMay ==
  ASSUME NEW w, IsRoot(w), NEW s, NEW step \in Setting, step = "SetControllingTerminal" => w.session = TRUE
  PROVE  Permitted(w, s, step)
<1>1. w.cred.uid = 0
  BY DEF IsRoot, RootCred
<1>2. ToSet(steps(s.sandbox)) \subseteq Drop
  BY DropOnly
<1>3. step \notin ToSet(steps(s.sandbox))
  BY <1>2 DEF Setting, Early, Terminal, Drop
<1>4. CASE step \in {"OpenTty", "JoinCgroup"}
  BY <1>1, <1>3, <1>4 DEF Permitted
<1>5. CASE step = "SetControllingTerminal"
  <2>1. Permitted(w, s, step) <=> w.session
    BY <1>3, <1>5 DEF Permitted
  <2> QED BY <1>5, <2>1
<1>6. CASE step \notin {"OpenTty", "JoinCgroup", "SetControllingTerminal"}
  BY <1>3, <1>6 DEF Permitted
<1> QED BY <1>4, <1>5, <1>6

(* A step that is not asked for.                                           *)
LEMMA RootStays == ASSUME NEW w, IsRoot(w), NEW s PROVE Reaches(w, s, <<>>, w)
<1>1. DOMAIN w = WorldFields /\ w.cred.ok = TRUE
  BY DEF IsRoot, RootCred
<1> QED BY <1>1, ReachesNone

(* A step that sets a field.                                               *)
LEMMA SetReaches ==
  ASSUME NEW w, IsRoot(w), NEW s, NEW step \in Setting, NEW f \in WorldFields \ {"cred"}, NEW x,
         Done(w, s, step) = [w EXCEPT ![f] = x], Permitted(w, s, step)
  PROVE  SetsTo(w, s, step, f, x)
<1> DEFINE v == Done(w, s, step)
<1>1. DOMAIN v = WorldFields /\ v[f] = x /\ \A g \in WorldFields \ {f} : v[g] = w[g]
  BY DEF IsRoot
<1>2. v = Act(w, s, step) /\ Goes(w, s, step)
  BY DEF Act, Goes, Setting, Early, Terminal
<1> HIDE DEF v
<1>3. v.cred = w.cred
  BY <1>1 DEF WorldFields
<1>4. IsRoot(v) /\ v.cred.ok = TRUE /\ w.cred.ok = TRUE
  BY <1>1, <1>3 DEF IsRoot, RootCred
<1>5. Reaches(w, s, <<step>>, v)
  BY <1>1, <1>2, <1>4, ReachesOne DEF IsRoot
<1> QED BY <1>1, <1>4, <1>5 DEF SetsTo

Handed(s) == s.listen # 0
OutOf(s) == IF s.tty THEN "tty" ELSE IF s.stdio THEN "log" ELSE "console"
InOf(s) == IF s.tty THEN Given("tty") ELSE IF s.stdin THEN Given("console") ELSE NoFd
Dressed(fds, s) ==
  Others(fds, Handed(s)) /\ fds[0] = InOf(s) /\ fds[1] = Given(OutOf(s)) /\ fds[2] = Given(OutOf(s))
Setup(s) ==
  <<"Setsid">>
  \o OptStep(s.listen # 0, <<"Listen">>)
  \o OptStep(s.stdio, <<"Stdio">>)
  \o OptStep(s.tty, <<"OpenTty", "SetControllingTerminal", "TtyDup2">>)
  \o <<"Chdir">>
  \o OptStep(s.cgroup, <<"JoinCgroup">>)

(* The steps before the drop, and the world they make.                     *)
LEMMA SetupReaches ==
  ASSUME NEW s \in Setups
  PROVE  \E v : /\ Reaches(Start(s), s, Setup(s), v) /\ IsRoot(v) /\ Dressed(v.fds, s)
               /\ v.session = TRUE /\ v.dir = TRUE /\ v.terminal = s.tty /\ v.cgroup = s.cgroup
<1> DEFINE w == Start(s)
           a == <<"Setsid">>
           b == OptStep(s.listen # 0, <<"Listen">>)
           c == OptStep(s.stdio, <<"Stdio">>)
           d == OptStep(s.tty, <<"OpenTty", "SetControllingTerminal", "TtyDup2">>)
           e == <<"Chdir">>
           f == OptStep(s.cgroup, <<"JoinCgroup">>)
           h == Handed(s)
           out == IF s.stdio THEN "log" ELSE "console"
<1>1. /\ a \in Seq(Steps) /\ b \in Seq(Steps) /\ c \in Seq(Steps) /\ d \in Seq(Steps)
      /\ e \in Seq(Steps) /\ f \in Seq(Steps)
  <2>1. /\ <<>> \in Seq(Steps) /\ <<"Setsid">> \in Seq(Steps) /\ <<"Listen">> \in Seq(Steps)
        /\ <<"Stdio">> \in Seq(Steps) /\ <<"Chdir">> \in Seq(Steps) /\ <<"JoinCgroup">> \in Seq(Steps)
        /\ <<"OpenTty", "SetControllingTerminal", "TtyDup2">> \in Seq(Steps)
    BY DEF Steps, Before, Early, Terminal, Rest
  <2> QED BY <2>1 DEF OptStep
<1>2. {s.stdio, s.tty, s.cgroup} \subseteq BOOLEAN /\ h \in BOOLEAN
  BY ChildAssumption DEF Handed
<1>3. /\ IsRoot(w) /\ w.fds = Inherited(s) /\ w.session = FALSE /\ w.terminal = FALSE
      /\ w.dir = FALSE /\ w.cgroup = FALSE
  BY DEF Start, IsRoot, WorldFields
<1> HIDE DEF w
<1>4. PICK va : /\ Reaches(w, s, a, va) /\ IsRoot(va) /\ va.session = TRUE /\ va.terminal = FALSE
                /\ va.dir = FALSE /\ va.cgroup = FALSE /\ Plain(va.fds, s, "console", FALSE)
  <2>1. Done(w, s, "Setsid") = [w EXCEPT !.session = TRUE] /\ "Setsid" \in Setting
    BY DEF Done, Setting, Early
  <2>2. SetsTo(w, s, "Setsid", "session", TRUE)
    <3>1. Permitted(w, s, "Setsid")
      BY <1>3, <2>1, RootMay
    <3> QED BY <1>3, <2>1, <3>1, SetReaches DEF WorldFields
  <2>3. PICK v : /\ Reaches(w, s, <<"Setsid">>, v) /\ IsRoot(v) /\ v.session = TRUE
                 /\ \A g \in WorldFields \ {"session"} : v[g] = w[g]
    BY <2>2 DEF SetsTo
  <2>4. v.fds = Inherited(s) /\ v.terminal = FALSE /\ v.dir = FALSE /\ v.cgroup = FALSE
    BY <1>3, <2>3 DEF WorldFields
  <2>5. Plain(v.fds, s, "console", FALSE)
    BY <2>4, PlainStart
  <2> QED BY <2>3, <2>4, <2>5
<1>5. PICK vb : /\ Reaches(va, s, b, vb) /\ IsRoot(vb) /\ vb.session = TRUE /\ vb.terminal = FALSE
                /\ vb.dir = FALSE /\ vb.cgroup = FALSE /\ Plain(vb.fds, s, "console", h)
  <2>1. CASE s.listen # 0
    <3> DEFINE x == HandListener(va.fds, s.listen)
    <3>1. Done(va, s, "Listen") = [va EXCEPT !.fds = x] /\ "Listen" \in Setting
      BY DEF Done, Setting, Early
    <3>2. Plain(x, s, "console", h)
      BY <1>4, <2>1, PlainListen DEF Handed
    <3> HIDE DEF x
    <3>3. SetsTo(va, s, "Listen", "fds", x)
      <4>1. Permitted(va, s, "Listen")
        BY <1>4, <3>1, RootMay
      <4> QED BY <1>4, <3>1, <4>1, SetReaches DEF WorldFields
    <3>4. PICK v : /\ Reaches(va, s, <<"Listen">>, v) /\ IsRoot(v) /\ v.fds = x
                   /\ \A g \in WorldFields \ {"fds"} : v[g] = va[g]
      BY <3>3 DEF SetsTo
    <3>5. v.session = TRUE /\ v.terminal = FALSE /\ v.dir = FALSE /\ v.cgroup = FALSE
      BY <1>4, <3>4 DEF WorldFields
    <3> QED BY <2>1, <3>2, <3>4, <3>5 DEF OptStep
  <2>2. CASE ~(s.listen # 0)
    <3>1. h = FALSE /\ b = <<>>
      BY <2>2 DEF Handed, OptStep
    <3>2. Reaches(va, s, <<>>, va)
      BY <1>4, RootStays
    <3> QED BY <1>4, <3>1, <3>2
  <2> QED BY <2>1, <2>2
<1>6. PICK vc : /\ Reaches(vb, s, c, vc) /\ IsRoot(vc) /\ vc.session = TRUE /\ vc.terminal = FALSE
                /\ vc.dir = FALSE /\ vc.cgroup = FALSE /\ Plain(vc.fds, s, out, h)
  <2>1. CASE s.stdio
    <3> DEFINE x == dup2(dup2(vb.fds, 5, 1), 5, 2)
    <3>1. Done(vb, s, "Stdio") = [vb EXCEPT !.fds = x] /\ "Stdio" \in Setting
      BY DEF Done, Setting, Early
    <3>2. Plain(x, s, "log", h)
      BY <1>5, PlainStdio
    <3> HIDE DEF x, h
    <3>3. SetsTo(vb, s, "Stdio", "fds", x)
      <4>1. Permitted(vb, s, "Stdio")
        BY <1>5, <3>1, RootMay
      <4> QED BY <1>5, <3>1, <4>1, SetReaches DEF WorldFields
    <3>4. PICK v : /\ Reaches(vb, s, <<"Stdio">>, v) /\ IsRoot(v) /\ v.fds = x
                   /\ \A g \in WorldFields \ {"fds"} : v[g] = vb[g]
      BY <3>3 DEF SetsTo
    <3>5. v.session = TRUE /\ v.terminal = FALSE /\ v.dir = FALSE /\ v.cgroup = FALSE
      BY <1>5, <3>4 DEF WorldFields
    <3> QED BY <2>1, <3>2, <3>4, <3>5 DEF OptStep
  <2>2. CASE ~s.stdio
    <3>1. out = "console" /\ c = <<>>
      BY <2>2 DEF OptStep
    <3>2. Reaches(vb, s, <<>>, vb)
      BY <1>5, RootStays
    <3> QED BY <1>5, <3>1, <3>2
  <2> QED BY <2>1, <2>2
<1>7. PICK vd : /\ Reaches(vc, s, d, vd) /\ IsRoot(vd) /\ vd.session = TRUE /\ vd.terminal = s.tty
                /\ vd.dir = FALSE /\ vd.cgroup = FALSE /\ Dressed(vd.fds, s)
  <2>1. CASE s.tty
    <3> DEFINE x == OpenedTty(vc.fds)
               y == TtyTaken(x)
    <3>1. Done(vc, s, "OpenTty") = [vc EXCEPT !.fds = x] /\ Terminal \subseteq Setting
      BY DEF Done, Setting, Terminal, OpenedTty, Given
    <3>2. Dressed(y, s)
      <4>1. out \in {"console", "log"}
        OBVIOUS
      <4>2. Others(y, h) /\ y[0] = Given("tty") /\ y[1] = Given("tty") /\ y[2] = Given("tty")
        BY <1>6, <4>1, TtyTakes
      <4> QED BY <2>1, <4>2 DEF Dressed, InOf, OutOf
    <3> HIDE DEF x
    <3>3. SetsTo(vc, s, "OpenTty", "fds", x)
      <4>1. Permitted(vc, s, "OpenTty")
        BY <1>6, <3>1, RootMay DEF Terminal
      <4> QED BY <1>6, <3>1, <4>1, SetReaches DEF WorldFields, Terminal
    <3>4. PICK u : /\ Reaches(vc, s, <<"OpenTty">>, u) /\ IsRoot(u) /\ u.fds = x
                   /\ \A g \in WorldFields \ {"fds"} : u[g] = vc[g]
      BY <3>3 DEF SetsTo
    <3>5. u.session = TRUE /\ u.dir = FALSE /\ u.cgroup = FALSE
      BY <1>6, <3>4 DEF WorldFields
    <3>6. SetsTo(u, s, "SetControllingTerminal", "terminal", TRUE)
      <4>1. Permitted(u, s, "SetControllingTerminal")
        BY <3>1, <3>4, <3>5, RootMay DEF Terminal
      <4>2. Done(u, s, "SetControllingTerminal") = [u EXCEPT !.terminal = TRUE]
        BY DEF Done
      <4> QED BY <3>1, <3>4, <4>1, <4>2, SetReaches DEF WorldFields, Terminal
    <3>7. PICK t : /\ Reaches(u, s, <<"SetControllingTerminal">>, t) /\ IsRoot(t) /\ t.terminal = TRUE
                   /\ \A g \in WorldFields \ {"terminal"} : t[g] = u[g]
      BY <3>6 DEF SetsTo
    <3>8. t.fds = x /\ t.session = TRUE /\ t.dir = FALSE /\ t.cgroup = FALSE
      BY <3>4, <3>5, <3>7 DEF WorldFields
    <3> HIDE DEF y
    <3>9. SetsTo(t, s, "TtyDup2", "fds", y)
      <4>1. Permitted(t, s, "TtyDup2")
        BY <3>1, <3>7, <3>8, RootMay DEF Terminal
      <4>2. Done(t, s, "TtyDup2") = [t EXCEPT !.fds = y]
        BY <3>8 DEF Done, TtyTaken, y
      <4> QED BY <3>1, <3>7, <4>1, <4>2, SetReaches DEF WorldFields, Terminal
    <3>10. PICK v : /\ Reaches(t, s, <<"TtyDup2">>, v) /\ IsRoot(v) /\ v.fds = y
                    /\ \A g \in WorldFields \ {"fds"} : v[g] = t[g]
      BY <3>9 DEF SetsTo
    <3>11. v.session = TRUE /\ v.terminal = TRUE /\ v.dir = FALSE /\ v.cgroup = FALSE
      BY <3>7, <3>8, <3>10 DEF WorldFields
    <3> DEFINE p == <<"OpenTty">>
               q == <<"SetControllingTerminal">>
               r == <<"TtyDup2">>
               pq == p \o q
    <3>12. p \in Seq(Steps) /\ q \in Seq(Steps) /\ r \in Seq(Steps) /\ pq \in Seq(Steps) /\ d = pq \o r
      BY <2>1 DEF OptStep, Steps, Before, Terminal
    <3>13. Reaches(vc, s, p, u) /\ Reaches(u, s, q, t) /\ Reaches(t, s, r, v)
      BY <3>4, <3>7, <3>10
    <3> HIDE DEF p, q, r
    <3>14. Reaches(vc, s, pq, t)
      BY <3>12, <3>13, ReachesOn, ZenonT(60)
    <3> HIDE DEF pq
    <3>15. Reaches(vc, s, pq \o r, v)
      BY <3>12, <3>13, <3>14, ReachesOn, ZenonT(60)
    <3>16. v.terminal = s.tty
      BY <1>2, <2>1, <3>11
    <3> QED BY <3>2, <3>10, <3>11, <3>12, <3>15, <3>16
  <2>2. CASE ~s.tty
    <3>1. d = <<>> /\ vc.terminal = s.tty
      BY <1>2, <1>6, <2>2 DEF OptStep
    <3>2. Reaches(vc, s, <<>>, vc)
      BY <1>6, RootStays
    <3>3. Dressed(vc.fds, s)
      BY <1>6, <2>2 DEF Dressed, Plain, InOf, OutOf
    <3> QED BY <1>6, <3>1, <3>2, <3>3
  <2> QED BY <2>1, <2>2
<1>8. PICK ve : /\ Reaches(vd, s, e, ve) /\ IsRoot(ve) /\ ve.session = TRUE /\ ve.terminal = s.tty
                /\ ve.dir = TRUE /\ ve.cgroup = FALSE /\ Dressed(ve.fds, s)
  <2>1. Done(vd, s, "Chdir") = [vd EXCEPT !.dir = TRUE] /\ "Chdir" \in Setting
    BY DEF Done, Setting
  <2>2. SetsTo(vd, s, "Chdir", "dir", TRUE)
    <3>1. Permitted(vd, s, "Chdir")
      BY <1>7, <2>1, RootMay
    <3> QED BY <1>7, <2>1, <3>1, SetReaches DEF WorldFields
  <2>3. PICK v : /\ Reaches(vd, s, <<"Chdir">>, v) /\ IsRoot(v) /\ v.dir = TRUE
                 /\ \A g \in WorldFields \ {"dir"} : v[g] = vd[g]
    BY <2>2 DEF SetsTo
  <2>4. v.fds = vd.fds /\ v.terminal = s.tty /\ v.session = TRUE /\ v.cgroup = FALSE
    BY <1>7, <2>3 DEF WorldFields
  <2> QED BY <1>7, <2>3, <2>4
<1>9. PICK vf : /\ Reaches(ve, s, f, vf) /\ IsRoot(vf) /\ vf.session = TRUE /\ vf.terminal = s.tty
                /\ vf.dir = TRUE /\ vf.cgroup = s.cgroup /\ Dressed(vf.fds, s)
  <2>1. CASE s.cgroup
    <3>1. Done(ve, s, "JoinCgroup") = [ve EXCEPT !.cgroup = TRUE] /\ "JoinCgroup" \in Setting
      BY DEF Done, Setting
    <3>2. SetsTo(ve, s, "JoinCgroup", "cgroup", TRUE)
      <4>1. Permitted(ve, s, "JoinCgroup")
        BY <1>8, <3>1, RootMay
      <4> QED BY <1>8, <3>1, <4>1, SetReaches DEF WorldFields
    <3>3. PICK v : /\ Reaches(ve, s, <<"JoinCgroup">>, v) /\ IsRoot(v) /\ v.cgroup = TRUE
                   /\ \A g \in WorldFields \ {"cgroup"} : v[g] = ve[g]
      BY <3>2 DEF SetsTo
    <3>4. v.fds = ve.fds /\ v.terminal = s.tty /\ v.session = TRUE /\ v.dir = TRUE
      BY <1>8, <3>3 DEF WorldFields
    <3>5. v.cgroup = s.cgroup
      BY <1>2, <2>1, <3>3
    <3>6. f = <<"JoinCgroup">>
      BY <2>1 DEF OptStep
    <3> QED BY <1>8, <3>3, <3>4, <3>5, <3>6
  <2>2. CASE ~s.cgroup
    <3>1. f = <<>> /\ ve.cgroup = s.cgroup
      BY <1>2, <1>8, <2>2 DEF OptStep
    <3>2. Reaches(ve, s, <<>>, ve)
      BY <1>8, RootStays
    <3> QED BY <1>8, <3>1, <3>2
  <2> QED BY <2>1, <2>2
<1>10. Setup(s) = a \o b \o c \o d \o e \o f
  BY DEF Setup
<1> HIDE DEF a, b, c, d, e, f
<1> DEFINE to_b == a \o b
<1>11. to_b \in Seq(Steps) /\ Reaches(w, s, to_b, vb)
  <2>1. to_b \in Seq(Steps)
    BY <1>1
  <2>2. Reaches(w, s, to_b, vb)
    BY <1>1, <1>4, <1>5, ReachesOn, ZenonT(60)
  <2> QED BY <2>1, <2>2
<1> HIDE DEF to_b
<1> DEFINE to_c == to_b \o c
<1>12. to_c \in Seq(Steps) /\ Reaches(w, s, to_c, vc)
  <2>1. to_c \in Seq(Steps)
    BY <1>1, <1>11
  <2>2. Reaches(w, s, to_c, vc)
    BY <1>1, <1>11, <1>6, ReachesOn, ZenonT(60)
  <2> QED BY <2>1, <2>2
<1> HIDE DEF to_c
<1> DEFINE to_d == to_c \o d
<1>13. to_d \in Seq(Steps) /\ Reaches(w, s, to_d, vd)
  <2>1. to_d \in Seq(Steps)
    BY <1>1, <1>12
  <2>2. Reaches(w, s, to_d, vd)
    BY <1>1, <1>12, <1>7, ReachesOn, ZenonT(60)
  <2> QED BY <2>1, <2>2
<1> HIDE DEF to_d
<1> DEFINE to_e == to_d \o e
<1>14. to_e \in Seq(Steps) /\ Reaches(w, s, to_e, ve)
  <2>1. to_e \in Seq(Steps)
    BY <1>1, <1>13
  <2>2. Reaches(w, s, to_e, ve)
    BY <1>1, <1>13, <1>8, ReachesOn, ZenonT(60)
  <2> QED BY <2>1, <2>2
<1> HIDE DEF to_e
<1> DEFINE to_f == to_e \o f
<1>15. to_f \in Seq(Steps) /\ Reaches(w, s, to_f, vf)
  <2>1. to_f \in Seq(Steps)
    BY <1>1, <1>14
  <2>2. Reaches(w, s, to_f, vf)
    BY <1>1, <1>14, <1>9, ReachesOn, ZenonT(60)
  <2> QED BY <2>1, <2>2
<1> HIDE DEF to_f
<1>16. Setup(s) = to_f
  BY <1>10 DEF to_b, to_c, to_d, to_e, to_f
<1> QED BY <1>9, <1>15, <1>16 DEF w

(* The world of a program.                                                 *)
FilesGiven(fds, s) ==
  [fd \in Fds |-> fds[fd].file] =
  [fd \in Fds |->
     CASE fd = 0 -> IF s.tty THEN "tty" ELSE IF s.stdin THEN "console" ELSE "none"
       [] fd \in {1, 2} -> OutOf(s)
       [] fd = 3 /\ s.listen # 0 -> "socket"
       [] OTHER -> "none"]
EndsWell(v, s) ==
  /\ FilesGiven(v.fds, s)
  /\ v.session = TRUE /\ v.dir = TRUE /\ v.terminal = s.tty /\ v.cgroup = s.cgroup
  /\ v.cred = Execve(Dropped(s.sandbox))

(* A table that is dressed is what the program gets.                       *)
LEMMA DressedGiven ==
  ASSUME NEW s \in Setups, NEW fds, Dressed(fds, s) PROVE FilesGiven(Kept(fds), s)
<1> DEFINE x == Kept(fds)
           in == InOf(s)
           out == OutOf(s)
           F == [fd \in Fds |->
                   CASE fd = 0 -> IF s.tty THEN "tty" ELSE IF s.stdin THEN "console" ELSE "none"
                     [] fd \in {1, 2} -> out
                     [] fd = 3 /\ s.listen # 0 -> "socket"
                     [] OTHER -> "none"]
<1>1. Fds = {0, 1, 2, 3, 4, 5, 6, 7, 8}
  BY DEF Fds
<1>2. /\ in = NoFd \/ in = Given(in.file)
      /\ in.file = IF s.tty THEN "tty" ELSE IF s.stdin THEN "console" ELSE "none"
  BY DEF InOf, NoFd, Given
<1>3. /\ Others(fds, Handed(s)) /\ fds[0] = in /\ fds[1] = Given(out) /\ fds[2] = Given(out)
      /\ Handed(s) \in BOOLEAN
  BY DEF Dressed, Handed
<1> HIDE DEF x, in, out
<1>4. /\ x[0].file = in.file /\ x[1].file = out /\ x[2].file = out
      /\ x[3].file = IF Handed(s) THEN "socket" ELSE "none"
      /\ x[4].file = "none" /\ x[5].file = "none" /\ x[6].file = "none"
      /\ x[7].file = "none" /\ x[8].file = "none"
  BY <1>2, <1>3, KeptFiles DEF x
<1>5. ASSUME NEW fd \in Fds PROVE F[fd] = x[fd].file
  <2>1. CASE fd = 0
    BY <1>2, <1>4, <2>1
  <2>2. CASE fd \in {1, 2}
    BY <1>4, <2>2
  <2>3. CASE fd = 3
    BY <1>4, <2>3 DEF Handed
  <2>4. CASE fd \in {4, 5, 6, 7, 8}
    BY <1>4, <2>4
  <2> QED BY <1>1, <2>1, <2>2, <2>3, <2>4
<1>6. [fd \in Fds |-> x[fd].file] = F
  BY <1>5
<1> QED BY <1>6 DEF FilesGiven, x, out

(* What exec does to the world.                                            *)
LEMMA ExecWorld ==
  ASSUME NEW k, {"fds", "cred", "session", "terminal", "dir", "cgroup"} \subseteq DOMAIN k, NEW s,
         NEW x, x = Done(k, s, "execve")
  PROVE  /\ DOMAIN x = DOMAIN k /\ x.fds = Kept(k.fds) /\ x.cred = Execve(k.cred)
         /\ x.session = k.session /\ x.terminal = k.terminal /\ x.dir = k.dir /\ x.cgroup = k.cgroup
<1> DEFINE F == Kept(k.fds)
           C == Execve(k.cred)
<1>1. x = [k EXCEPT !.fds = F, !.cred = C, !.state = "running", !.ran = TRUE]
  BY DEF Done, Kept
<1> HIDE DEF F, C
<1>2. /\ DOMAIN x = DOMAIN k /\ x.fds = F /\ x.cred = C
      /\ x.session = k.session /\ x.terminal = k.terminal /\ x.dir = k.dir /\ x.cgroup = k.cgroup
  BY <1>1
<1> QED BY <1>2 DEF F, C

(* The child gets through its plan, whatever its unit asks for, and the    *)
(* program starts in the world that is asked for.                          *)
LEMMA PlanReaches ==
  ASSUME NEW s \in Setups
  PROVE  \E v : Reaches(Start(s), s, ChildPlan(s), v) /\ EndsWell(v, s)
<1> DEFINE w == Start(s)
           a == Setup(s)
           b == steps(s.sandbox)
           c == <<"Ready">>
           d == <<"execve">>
<1>1. PICK va : /\ Reaches(w, s, a, va) /\ IsRoot(va) /\ Dressed(va.fds, s)
                /\ va.session = TRUE /\ va.dir = TRUE /\ va.terminal = s.tty /\ va.cgroup = s.cgroup
  BY SetupReaches
<1>2. PICK vb : Reaches(va, s, b, vb) /\ Fine(vb.cred) /\ OnlyCred(va, vb)
  <2>1. resolve_caps(s.sandbox.ambient)
    BY ChildAssumption
  <2> QED BY <1>1, <2>1, DropReaches DEF IsRoot, After
<1>3. b \in Seq(Drop) /\ ToSet(b) \subseteq Drop
  BY DropOnly
<1>4. vb.cred = Dropped(s.sandbox)
  BY <1>1, <1>2, <1>3, DroppedIs DEF IsRoot
<1>5. DOMAIN vb = WorldFields /\ vb.cred.ok = TRUE
  BY <1>2 DEF Fine, OnlyCred
<1>6. Reaches(vb, s, c, vb)
  <2>1. Goes(vb, s, "Ready") /\ Act(vb, s, "Ready") = vb
    BY DEF Goes, Act
  <2> QED BY <1>5, <2>1, ReachesOne
<1> DEFINE v == Done(vb, s, "execve")
<1>7. /\ DOMAIN v = WorldFields /\ v.fds = Kept(vb.fds) /\ v.cred = Execve(vb.cred)
      /\ v.session = vb.session /\ v.terminal = vb.terminal /\ v.dir = vb.dir /\ v.cgroup = vb.cgroup
  BY <1>5, ExecWorld DEF WorldFields
<1>8. v.cred.ok = TRUE
  <2>1. Execve(vb.cred).ok = vb.cred.ok
    BY <1>2 DEF Execve, Fine, CredFields
  <2> QED BY <1>5, <1>7, <2>1
<1>9. Reaches(vb, s, d, v)
  <2>1. Act(vb, s, "execve") = v
    BY DEF Act
  <2>2. Permitted(vb, s, "execve")
    <3>1. "execve" \notin ToSet(b)
      BY <1>3 DEF Drop
    <3> QED BY <3>1 DEF Permitted
  <2>3. Goes(vb, s, "execve")
    BY <2>2 DEF Goes
  <2> HIDE DEF v
  <2> QED BY <1>5, <1>7, <1>8, <2>1, <2>3, ReachesOne
<1> HIDE DEF v
<1>10. EndsWell(v, s)
  <2>1. vb.fds = va.fds /\ FilesGiven(v.fds, s)
    BY <1>1, <1>2, <1>7, DressedGiven DEF OnlyCred
  <2> QED BY <1>1, <1>2, <1>4, <1>7, <2>1 DEF EndsWell, OnlyCred
<1>11. a \in Seq(Steps) /\ b \in Seq(Steps) /\ c \in Seq(Steps) /\ d \in Seq(Steps)
  <2>1. a \in Seq(Steps)
    <3>1. /\ <<>> \in Seq(Steps) /\ <<"Setsid">> \in Seq(Steps) /\ <<"Listen">> \in Seq(Steps)
          /\ <<"Stdio">> \in Seq(Steps) /\ <<"Chdir">> \in Seq(Steps) /\ <<"JoinCgroup">> \in Seq(Steps)
          /\ <<"OpenTty", "SetControllingTerminal", "TtyDup2">> \in Seq(Steps)
      BY DEF Steps, Before, Early, Terminal, Rest
    <3> DEFINE listen == OptStep(s.listen # 0, <<"Listen">>)
               stdio == OptStep(s.stdio, <<"Stdio">>)
               tty == OptStep(s.tty, <<"OpenTty", "SetControllingTerminal", "TtyDup2">>)
               join == OptStep(s.cgroup, <<"JoinCgroup">>)
    <3>2. listen \in Seq(Steps) /\ stdio \in Seq(Steps) /\ tty \in Seq(Steps) /\ join \in Seq(Steps)
      BY <3>1 DEF OptStep
    <3>3. a = <<"Setsid">> \o listen \o stdio \o tty \o <<"Chdir">> \o join
      BY DEF Setup
    <3> HIDE DEF a, listen, stdio, tty, join
    <3> QED BY <3>1, <3>2, <3>3
  <2>2. b \in Seq(Steps)
    <3>1. Drop \subseteq Steps
      BY DEF Drop, Steps, Before, Rest
    <3> HIDE DEF b
    <3> QED BY <1>3, <3>1
  <2>3. c \in Seq(Steps) /\ d \in Seq(Steps)
    BY DEF Steps
  <2> QED BY <2>1, <2>2, <2>3
<1> DEFINE r == <<"Ready", "execve">>
<1>12. ChildPlan(s) = a \o b \o r /\ r = c \o d /\ r \in Seq(Steps)
  BY DEF ChildPlan, Setup, Steps
<1> HIDE DEF a, b, c, d, r, w
<1>13. Reaches(vb, s, r, v)
  <2>1. Reaches(vb, s, c \o d, v)
    BY <1>6, <1>9, <1>11, ReachesOn, ZenonT(60)
  <2> QED BY <1>12, <2>1
<1> DEFINE ab == a \o b
<1>14. ab \in Seq(Steps) /\ Reaches(w, s, ab, vb)
  <2>1. ab \in Seq(Steps)
    BY <1>11
  <2>2. Reaches(w, s, ab, vb)
    BY <1>1, <1>2, <1>11, ReachesOn, ZenonT(60)
  <2> QED BY <2>1, <2>2
<1>15. ChildPlan(s) = ab \o r
  BY <1>12
<1> HIDE DEF ab
<1>16. Reaches(w, s, ab \o r, v)
  BY <1>12, <1>13, <1>14, ReachesOn, ZenonT(60)
<1> QED BY <1>10, <1>15, <1>16 DEF w

IsPlanned(way, s) ==
  /\ IsWay(way, s, ChildPlan(s)) /\ way[0] = Start(s)
  /\ EndsWell(way[Len(ChildPlan(s))], s)
Way(s) == CHOOSE way : IsPlanned(way, s)

(* The child is where its plan has brought it, and its program runs in the *)
(* world that is asked for.                                                *)
WorldInv ==
  /\ kid.refused = FALSE
  /\ kid.state \in {"none", "setup"} => SameWorld(kid, Way(spawn)[kid.at - 1])
  /\ kid.ran => EndsWell(kid, spawn)

(* There is a way for every spawn.                                         *)
LEMMA WayPlanned == ASSUME NEW s \in Setups PROVE IsPlanned(Way(s), s)
<1>1. PICK v : Reaches(Start(s), s, ChildPlan(s), v) /\ EndsWell(v, s)
  BY PlanReaches
<1>2. PICK way : IsWay(way, s, ChildPlan(s)) /\ way[0] = Start(s) /\ way[Len(ChildPlan(s))] = v
  BY <1>1 DEF Reaches
<1>3. IsPlanned(way, s)
  BY <1>1, <1>2 DEF IsPlanned
<1> QED BY <1>3 DEF Way

(* The world is the same for a child that dies, is killed or is reaped.    *)
Unmoved(k) ==
  /\ SameWorld(k, kid) /\ k.refused = kid.refused /\ k.at = kid.at /\ k.ran = kid.ran
  /\ k.state \in {"none", "setup"} => kid.state \in {"none", "setup"}

(* A program's world is in these fields.                                   *)
LEMMA SameEnd == ASSUME NEW k, NEW w, SameWorld(k, w), NEW s, EndsWell(w, s) PROVE EndsWell(k, s)
BY DEF SameWorld, EndsWell

(* A child that has not moved is where it was.                             *)
LEMMA UnmovedKeeps == ASSUME WorldInv, spawn' = spawn, Unmoved(kid') PROVE WorldInv'
<1>1. kid'.refused = FALSE
  BY DEF Unmoved, WorldInv
<1>2. ASSUME kid'.state \in {"none", "setup"} PROVE SameWorld(kid', Way(spawn)[kid.at - 1])
  BY <1>2 DEF Unmoved, WorldInv, SameWorld
<1>3. kid'.ran => EndsWell(kid', spawn)
  BY SameEnd DEF Unmoved, WorldInv
<1>4. kid'.at = kid.at
  BY DEF Unmoved
<1> QED BY <1>1, <1>2, <1>3, <1>4 DEF WorldInv

(* The start.                                                              *)
LEMMA WorldStarts == ChildInit => WorldInv
<1> SUFFICES ASSUME ChildInit PROVE WorldInv
  OBVIOUS
<1>1. /\ spawn \in Setups /\ kid.at = 1 /\ kid.ran = FALSE /\ kid.refused = FALSE
      /\ kid.fds = Inherited(spawn) /\ kid.cred = RootCred /\ kid.session = FALSE
      /\ kid.terminal = FALSE /\ kid.dir = FALSE /\ kid.cgroup = FALSE
  BY DEF ChildInit
<1>2. SameWorld(kid, Start(spawn))
  BY <1>1 DEF SameWorld, Start
<1>3. Way(spawn)[kid.at - 1] = Start(spawn)
  <2>1. kid.at - 1 = 0
    BY <1>1
  <2> QED BY <1>1, <2>1, WayPlanned DEF IsPlanned
<1> QED BY <1>1, <1>2, <1>3 DEF WorldInv

(* The steps of the parent, and the end of the child.                      *)
LEMMA OthersKeepWorld ==
  ASSUME ChildInv, WorldInv,
         \/ spawn_sandboxed_begin \/ Murder \/ Die \/ Finish \/ reap_children \/ Interrupt \/ ParentStep
  PROVE  WorldInv'
<1>1. DOMAIN kid = KidFields
  BY ChildFacts
<1>2. waiter.at = "begin" => kid.state = "none"
  BY ChildFacts
<1>3. spawn' = spawn
  BY DEF spawn_sandboxed_begin, Murder, Die, Finish, reap_children, Interrupt, ParentStep, detach, abandon,
         drop, read_report, reap_failed_spawn, WaitpidOnce, SigKill, WaitpidLoop
<1>4. \/ kid' = kid
      \/ kid' = [kid EXCEPT !.state = "gone"]
      \/ kid' = [kid EXCEPT !.killed = TRUE]
      \/ kid' = [kid EXCEPT !.killed = TRUE, !.murdered = TRUE]
      \/ kid.state = "none" /\ kid' = [kid EXCEPT !.state = "setup"]
      \/ \E e : kid' = [kid EXCEPT !.state = "zombie", !.end = e]
  <2>1. CASE spawn_sandboxed_begin
    BY <1>2, <2>1 DEF spawn_sandboxed_begin
  <2>2. CASE Murder \/ Die \/ Finish \/ reap_children \/ Interrupt
    BY <2>2 DEF Murder, Die, Finish, reap_children, Interrupt
  <2>3. CASE detach \/ drop \/ read_report
    BY <2>3 DEF detach, drop, read_report
  <2>4. CASE abandon
    BY <2>4 DEF abandon, kill_unreaped_child
  <2>5. CASE reap_failed_spawn
    BY <2>5 DEF reap_failed_spawn, WaitpidOnce, SigKill, WaitpidLoop
  <2> QED BY <2>1, <2>2, <2>3, <2>4, <2>5 DEF ParentStep
<1>5. Unmoved(kid')
  BY <1>1, <1>4 DEF Unmoved, SameWorld, KidFields
<1> QED BY <1>3, <1>5, UnmovedKeeps

(* A step of the child: it is permitted, because the plan is.              *)
LEMMA ExecKeepsWorld == ASSUME ChildInv, WorldInv, child_exec PROVE WorldInv'
<1> DEFINE plan == ChildPlan(spawn)
           n == Len(plan)
           at == kid.at
           step == plan[at]
           next == [kid EXCEPT !.at = kid.at + 1]
           way == Way(spawn)
           w == way[at - 1]
<1>1. /\ spawn \in Setups /\ kid.state = "setup" /\ ~kid.ran /\ spawn' = spawn
      /\ at \in Nat \ {0} /\ at <= n
  BY DEF child_exec, Blocked, ChildInv, ChildTypes, KidTypes, OnItsWay
<1>2. /\ n \in Nat /\ n > 2 /\ at \in 1 .. n /\ plan[n] = "execve" /\ plan[n - 1] = "Ready"
      /\ \A i \in 1 .. n : i < n - 1 => plan[i] \in Before
  BY <1>1, PlanShape
<1>3. /\ step \in Before \cup {"Ready", "execve"}
      /\ step = "execve" => at = n
  <2>1. at < n - 1 \/ at = n - 1 \/ at = n
    BY <1>2
  <2>2. "execve" \notin Before
    BY DEF Before, Early, Terminal, Rest
  <2> QED BY <1>2, <2>1, <2>2
<1>4. IsWay(way, spawn, plan) /\ EndsWell(way[n], spawn)
  BY <1>1, WayPlanned DEF IsPlanned
<1>5. DOMAIN w = WorldFields /\ Goes(w, spawn, step) /\ way[at] = Act(w, spawn, step)
  <2>1. at - 1 \in 0 .. n
    BY <1>2
  <2> QED BY <1>2, <1>4, <2>1 DEF IsWay
<1>6. DOMAIN kid = KidFields /\ SameWorld(kid, w) /\ kid.refused = FALSE
  BY <1>1, ChildFacts DEF WorldInv
<1>7. DOMAIN next = KidFields /\ SameWorld(next, w) /\ next.refused = FALSE /\ next.at = at + 1
      /\ next.ran = kid.ran /\ next.state = kid.state
  BY <1>6 DEF KidFields, SameWorld
<1>8. (at + 1) - 1 = at
  BY <1>1
<1> HIDE DEF plan, n, next, way, w, step, at
<1>9. CASE step = "Ready"
  <2>1. write_report(next, "Ready")
    BY <1>9 DEF child_exec, next, step, at, plan
  <2>2. way[at] = w
    BY <1>5, <1>9 DEF Act
  <2>3. CASE kid' = next
    <3>1. SameWorld(kid', way[kid'.at - 1])
      BY <1>7, <1>8, <2>2, <2>3
    <3> QED BY <1>1, <1>7, <2>3, <3>1 DEF WorldInv, way
  <2>4. CASE kid' = [next EXCEPT !.state = "zombie", !.end = "SIGPIPE"]
    <3>1. kid'.refused = FALSE /\ kid'.state = "zombie" /\ kid'.ran = kid.ran
      BY <1>7, <2>4 DEF KidFields
    <3> QED BY <1>1, <3>1 DEF WorldInv
  <2> QED BY <2>1, <2>3, <2>4 DEF write_report
<1>10. CASE step # "Ready"
  <2>1. Permitted(kid, spawn, step)
    <3>1. Permitted(w, spawn, step)
      BY <1>5, <1>10 DEF Goes
    <3>2. CASE step \in Before
      BY <1>5, <1>6, <3>1, <3>2, WorldMoves
    <3>3. CASE step = "execve"
      <4>1. "execve" \notin ToSet(steps(spawn.sandbox))
        <5>1. ToSet(steps(spawn.sandbox)) \subseteq Drop
          BY DropOnly
        <5> QED BY <5>1 DEF Drop
      <4> QED BY <3>3, <4>1 DEF Permitted
    <3> QED BY <1>3, <1>10, <3>2, <3>3
  <2>2. die(kid, step) \/ kid' = Done(next, spawn, step)
    BY <1>10, <2>1 DEF child_exec, next, step, at, plan
  <2>3. CASE die(kid, step)
    <3>1. kid'.refused = FALSE /\ kid'.state = "zombie" /\ kid'.ran = kid.ran
      BY <1>6, <2>3 DEF die, write_report, KidFields
    <3> QED BY <1>1, <3>1 DEF WorldInv
  <2>4. CASE kid' = Done(next, spawn, step) /\ step \in Before
    <3>1. SameWorld(kid', Done(w, spawn, step)) /\ kid'.refused = FALSE /\ kid'.at = at + 1
      BY <1>5, <1>7, <2>4, WorldMoves
    <3>2. way[at] = Done(w, spawn, step)
      BY <1>5, <1>10 DEF Act
    <3>3. SameWorld(kid', way[kid'.at - 1])
      BY <1>8, <3>1, <3>2
    <3>4. kid'.ran = kid.ran
      <4>1. \E f, x : f # "ran" /\ kid' = [next EXCEPT ![f] = x]
        BY <2>4 DEF Done, Before, Early, Terminal, Rest
      <4> QED BY <1>7, <4>1 DEF KidFields
    <3> QED BY <1>1, <3>1, <3>3, <3>4 DEF WorldInv, way
  <2>5. CASE kid' = Done(next, spawn, step) /\ step = "execve"
    <3>1. way[n] = Done(w, spawn, "execve")
      BY <1>3, <1>5, <2>5 DEF Act
    <3>2. SameWorld(kid', way[n])
      <4>1. /\ kid'.fds = Kept(next.fds) /\ kid'.cred = Execve(next.cred)
            /\ kid'.session = next.session /\ kid'.terminal = next.terminal /\ kid'.dir = next.dir
            /\ kid'.cgroup = next.cgroup
        BY <1>7, <2>5, ExecWorld DEF KidFields
      <4>2. /\ way[n].fds = Kept(w.fds) /\ way[n].cred = Execve(w.cred)
            /\ way[n].session = w.session /\ way[n].terminal = w.terminal /\ way[n].dir = w.dir
            /\ way[n].cgroup = w.cgroup
        BY <1>5, <3>1, ExecWorld DEF WorldFields
      <4> QED BY <1>7, <4>1, <4>2 DEF SameWorld
    <3>3. EndsWell(kid', spawn)
      BY <1>4, <3>2, SameEnd
    <3>4. kid'.refused = FALSE /\ kid'.state = "running"
      <4> DEFINE F == Kept(next.fds)
                 C == Execve(next.cred)
      <4>1. kid' = [next EXCEPT !.fds = F, !.cred = C, !.state = "running", !.ran = TRUE]
        BY <2>5 DEF Done, Kept
      <4> HIDE DEF F, C
      <4> QED BY <1>7, <4>1 DEF KidFields
    <3> QED BY <1>1, <3>3, <3>4 DEF WorldInv
  <2> QED BY <1>3, <1>10, <2>2, <2>3, <2>4, <2>5
<1> QED BY <1>9, <1>10

(* posix_spawn is used only where there is nothing to drop, join or open,  *)
(* and gives the program the same world.                                   *)
LEMMA PosixKeepsWorld == ASSUME ChildInv, WorldInv, posix_spawn_full PROVE WorldInv'
<1>1. /\ spawn \in Setups /\ spawn' = spawn /\ waiter.at = "begin" /\ UsesPosixSpawn(spawn)
      /\ kid.state = "none" /\ kid.at = 1 /\ DOMAIN kid = KidFields
  BY ChildFacts DEF posix_spawn_full, ChildInv, ChildTypes, PipeIsTrue
<1>2. ~kid.ran
  BY <1>1 DEF ChildInv, OnItsWay
<1>3. SameWorld(kid, Start(spawn)) /\ kid.refused = FALSE
  <2>1. kid.at - 1 = 0
    BY <1>1
  <2> QED BY <1>1, <2>1, WayPlanned DEF WorldInv, IsPlanned
<1>4. /\ kid.fds = Inherited(spawn) /\ kid.cred = RootCred /\ kid.terminal = FALSE /\ kid.cgroup = FALSE
  BY <1>3 DEF SameWorld, Start
<1>5. /\ ~spawn.tty /\ ~spawn.cgroup /\ spawn.listen = 0 /\ is_inherited(spawn.sandbox)
      /\ spawn.tty \in BOOLEAN /\ spawn.cgroup \in BOOLEAN
  BY <1>1, ChildAssumption DEF UsesPosixSpawn
<1> DEFINE stdio == IF spawn.stdio THEN dup2(dup2(kid.fds, 5, 1), 5, 2) ELSE kid.fds
           child == [kid EXCEPT !.session = TRUE, !.dir = TRUE, !.fds = stdio]
<1>6. \/ kid' = [kid EXCEPT !.state = "gone", !.failed = spawn.fails]
      \/ kid' = Done(child, spawn, "execve")
  BY DEF posix_spawn_full
<1>7. CASE kid' = [kid EXCEPT !.state = "gone", !.failed = spawn.fails]
  <2>1. kid'.refused = FALSE /\ kid'.state = "gone" /\ kid'.ran = kid.ran
    BY <1>1, <1>3, <1>7 DEF KidFields
  <2> QED BY <1>1, <1>2, <2>1 DEF WorldInv
<1>8. CASE kid' = Done(child, spawn, "execve")
  <2>1. Dressed(stdio, spawn)
    <3>1. Plain(kid.fds, spawn, "console", FALSE)
      BY <1>1, <1>4, PlainStart
    <3>2. Plain(dup2(dup2(kid.fds, 5, 1), 5, 2), spawn, "log", FALSE)
      BY <1>1, <3>1, PlainStdio
    <3>3. CASE spawn.stdio
      BY <1>5, <3>2, <3>3 DEF Dressed, Plain, Handed, InOf, OutOf
    <3>4. CASE ~spawn.stdio
      BY <1>5, <3>1, <3>4 DEF Dressed, Plain, Handed, InOf, OutOf
    <3> QED BY <3>3, <3>4
  <2> HIDE DEF stdio
  <2>2. /\ DOMAIN child = KidFields /\ child.fds = stdio /\ child.cred = kid.cred /\ child.session = TRUE
        /\ child.dir = TRUE /\ child.terminal = kid.terminal /\ child.cgroup = kid.cgroup
        /\ child.refused = FALSE
    BY <1>1, <1>3 DEF KidFields
  <2> HIDE DEF child
  <2>3. /\ kid'.fds = Kept(stdio) /\ kid'.cred = Execve(RootCred) /\ kid'.session = TRUE /\ kid'.dir = TRUE
        /\ kid'.terminal = FALSE /\ kid'.cgroup = FALSE
    BY <1>4, <1>8, <2>2, ExecWorld DEF KidFields
  <2>4. kid'.refused = FALSE /\ kid'.state = "running"
    <3> DEFINE F == Kept(child.fds)
               C == Execve(child.cred)
    <3>1. kid' = [child EXCEPT !.fds = F, !.cred = C, !.state = "running", !.ran = TRUE]
      BY <1>8 DEF Done, Kept
    <3> HIDE DEF F, C
    <3> QED BY <2>2, <3>1 DEF KidFields
  <2>5. Dropped(spawn.sandbox) = RootCred
    <3> DEFINE w == Start(spawn)
    <3>1. IsRoot(w)
      BY DEF Start, IsRoot, WorldFields
    <3> HIDE DEF w
    <3>2. steps(spawn.sandbox) = <<>>
      BY <1>5 DEF is_inherited, steps, OptStep
    <3>3. Reaches(w, spawn, steps(spawn.sandbox), w)
      BY <3>1, <3>2, RootStays
    <3>4. w.cred = Dropped(spawn.sandbox)
      BY <3>1, <3>3, DropOnly, DroppedIs DEF IsRoot
    <3> QED BY <3>1, <3>4 DEF IsRoot
  <2>6. FilesGiven(kid'.fds, spawn)
    BY <1>1, <2>1, <2>3, DressedGiven
  <2>7. kid'.terminal = spawn.tty /\ kid'.cgroup = spawn.cgroup
    BY <1>5, <2>3
  <2>8. EndsWell(kid', spawn)
    BY <2>3, <2>5, <2>6, <2>7 DEF EndsWell
  <2> QED BY <1>1, <2>4, <2>8 DEF WorldInv
<1> QED BY <1>6, <1>7, <1>8

(* Every step keeps the world right.                                       *)
LEMMA WorldKeeps == ChildInv /\ WorldInv /\ [ChildNext]_childVars => WorldInv'
<1> SUFFICES ASSUME ChildInv, WorldInv, [ChildNext]_childVars PROVE WorldInv'
  OBVIOUS
<1>1. CASE UNCHANGED childVars
  <2>1. spawn' = spawn /\ kid' = kid
    BY <1>1 DEF childVars
  <2> QED BY <2>1 DEF WorldInv
<1>2. CASE ChildNext
  BY <1>2, PosixKeepsWorld, ExecKeepsWorld, OthersKeepWorld DEF ChildNext
<1> QED BY <1>1, <1>2

(* A spawn is what its verdict says, for every unit: a confirmed program   *)
(* runs in the world its unit asks for, no step on the way is one that the *)
(* earlier ones made impossible, a step that is named is the one that      *)
(* failed, and a start that failed leaves nothing that could still run     *)
(* (exec_child, steps, PendingSpawn, reap_failed_spawn).                   *)
THEOREM SpawnIsAlwaysTrue == ChildSpec => []SpawnIsTrue
<1>1. ChildInit => ChildInv /\ WorldInv
  BY ChildStarts, WorldStarts
<1>2. ChildInv /\ WorldInv /\ [ChildNext]_childVars => (ChildInv /\ WorldInv)'
  BY ChildStepKeeps, WorldKeeps
<1>3. WorldInv => GetsItsWorld
  <2> SUFFICES ASSUME WorldInv PROVE GetsItsWorld
    OBVIOUS
  <2>1. ~kid.refused
    BY DEF WorldInv
  <2>2. ASSUME kid.ran
        PROVE  /\ FilesOf(kid) =
                    [fd \in Fds |->
                       CASE fd = 0 -> IF spawn.tty THEN "tty" ELSE IF spawn.stdin THEN "console" ELSE "none"
                         [] fd \in {1, 2} -> Output
                         [] fd = 3 /\ spawn.listen # 0 -> "socket"
                         [] OTHER -> "none"]
               /\ kid.session /\ kid.dir /\ kid.terminal = spawn.tty /\ kid.cgroup = spawn.cgroup
               /\ kid.cred = Execve(Dropped(spawn.sandbox))
    <3>1. EndsWell(kid, spawn)
      BY <2>2 DEF WorldInv
    <3>2. OutOf(spawn) = Output
      BY DEF OutOf, Output
    <3> QED BY <3>1, <3>2 DEF EndsWell, FilesGiven, FilesOf
  <2> QED BY <2>1, <2>2 DEF GetsItsWorld
<1>4. ChildInv => VerdictIsTrue /\ FailedIsGone
  BY ToldIsTrue
<1>5. ChildInv /\ WorldInv => SpawnIsTrue
  BY <1>3, <1>4 DEF SpawnIsTrue
<1> QED BY <1>1, <1>2, <1>5, PTL DEF ChildSpec
=============================================================================
