-------------------------------- MODULE MCHost --------------------------------
(***************************************************************************)
(* Two machines between rinit and the kernel that share nothing: a child   *)
(* between fork and exec, and the cgroup of a unit.  A behaviour is one of *)
(* one of them.                                                            *)
(***************************************************************************)
EXTENDS Child, Cgroup

VARIABLE machine

(* Every combination of what a child has to set up, all of it going well;  *)
(* and a child with all of it, failing at each of its steps, under each    *)
(* way its handle can be used.                                             *)
NoDrop == [uid |-> 0, gid |-> 0, groups |-> <<>>, no_new_privileges |-> FALSE,
           bounding_set |-> <<>>, ambient |-> <<>>]
Worker == [uid |-> 6, gid |-> 5, groups |-> <<{5}>>, no_new_privileges |-> TRUE,
           bounding_set |-> <<{"net"}>>, ambient |-> <<{"net"}>>]
Worlds ==
  [stdin : BOOLEAN, listen : {0, 3, 7}, stdio : BOOLEAN, tty : BOOLEAN, cgroup : BOOLEAN,
   sandbox : {NoDrop, Worker}, mode : {"first"}, fails : {""}]
Busy ==
  [stdin |-> TRUE, listen |-> 7, stdio |-> TRUE, tty |-> TRUE, cgroup |-> TRUE,
   sandbox |-> Worker, mode |-> "first", fails |-> ""]
Faults ==
  {[Busy EXCEPT !.fails = f, !.mode = m] :
     f \in {"", "fork"} \cup (ToSet(ChildPlan(Busy)) \ {"Ready"}),
     m \in {"first", "detach", "abandon", "drop"}}
  \cup {[w EXCEPT !.fails = f] : w \in {x \in Worlds : UsesPosixSpawn(x)}, f \in {"Chdir", "execve"}}
Spawns == Worlds \cup Faults

(* A kernel with everything, and kernels that lack or refuse one thing.    *)
FullKernel ==
  [v2 |-> TRUE, offers |-> {"cpu", "memory"}, provides |-> ToSet(Attributes),
   refuses |-> {}, mkdir |-> TRUE]
SomeKernels ==
  {FullKernel, [FullKernel EXCEPT !.v2 = FALSE], [FullKernel EXCEPT !.mkdir = FALSE],
   [FullKernel EXCEPT !.offers = {"memory"}], [FullKernel EXCEPT !.provides = @ \ {"cpu.max"}],
   [FullKernel EXCEPT !.refuses = {"memory.high"}]}
SomeLimits == {{}, {"cpu.max", "memory.max"}, {"memory.max", "memory.high"}}

HostInit ==
  /\ machine \in {"child", "cgroup"}
  /\ ChildInit /\ CgroupInit
  /\ machine # "child" => spawn = Busy
  /\ machine # "cgroup" => linux = FullKernel /\ unit.asks = {} /\ unit.restarts /\ unit.impatient
HostNext ==
  /\ \/ machine = "child" /\ ChildNext /\ UNCHANGED cgroupVars
     \/ machine = "cgroup" /\ CgroupNext /\ UNCHANGED childVars
  /\ UNCHANGED machine
hostVars == <<machine, childVars, cgroupVars>>

(* The task that waits for a report polls every 10 ms until its deadline;  *)
(* the supervisor's loop reaps and looks at its deadlines in every pass;   *)
(* and a process that has its SIGKILL dies.  Nothing makes a child take    *)
(* its steps, or a service obey SIGTERM.                                   *)
ChildTurn(A) == machine = "child" /\ A /\ UNCHANGED <<machine, cgroupVars>>
CgroupTurn(A) == machine = "cgroup" /\ A /\ UNCHANGED <<machine, childVars>>
HostFairness ==
  /\ WF_hostVars(ChildTurn(ParentStep))
  /\ WF_hostVars(ChildTurn(Interrupt))
  /\ WF_hostVars(ChildTurn(Die))
  /\ WF_hostVars(ChildTurn(reap_children))
  /\ WF_hostVars(CgroupTurn(due_kills))
  /\ WF_hostVars(CgroupTurn(on_child_exit))
  /\ \A p \in Procs : WF_hostVars(CgroupTurn(Killed(p)))
FairHost == HostInit /\ [][HostNext]_hostVars /\ HostFairness

(* However long a child is stuck its spawn ends, and so does a stop whose  *)
(* main process is already gone.                                           *)
HostSettles ==
  /\ SpawnSettles
  /\ GroupStopEnds
===============================================================================
