-------------------------------- MODULE Child --------------------------------
(***************************************************************************)
(* A process between fork and exec, and the task that waits for its report *)
(* (rinit-runtime/src/syscall/process.rs, called from rinit/src/service.rs *)
(* and begin_spawn_unit of the unit manager).  The child takes its steps   *)
(* in order, reports the one that failed on a pipe that a successful exec  *)
(* closes, and may be killed or stuck at any of them; the global reaper of *)
(* the main loop runs beside both.                                         *)
(*                                                                         *)
(* Descriptors: 0, 1, 2 are the daemon's own, 5 is the log pipe of the     *)
(* service, 6 the write end of the report, 4 and (unless it is the         *)
(* listening socket) 3 are other files of the daemon, all close-on-exec.   *)
(***************************************************************************)
EXTENDS Sandbox

CONSTANT Setups   \* the spawns: what the child is to do and what fails

(* A listening socket has a descriptor the daemon uses for nothing else,   *)
(* the handle of the spawn one of four uses, and a sandbox was resolved:   *)
(* the capabilities it names exist.                                        *)
ASSUME ChildAssumption ==
  \A s \in Setups :
    /\ {s.stdin, s.stdio, s.tty, s.cgroup} \subseteq BOOLEAN
    /\ s.listen \in {0, 3, 4, 7, 8}
    /\ s.mode \in {"first", "detach", "abandon", "drop"}
    /\ resolve_caps(s.sandbox.ambient)

VARIABLES
  spawn,   \* the spawn, chosen once
  kid,     \* the child process
  report,  \* the report pipe: what is in it, whether it has a reader
  waiter   \* who holds the PendingSpawn, and what has come of it
childVars == <<spawn, kid, report, waiter>>

LISTEN_FD == 3
Fds == 0 .. 8
NoFd == [file |-> "none", cloexec |-> FALSE]
Inherited(s) ==
  [fd \in Fds |->
    CASE fd = 0 -> IF s.stdin THEN [file |-> "console", cloexec |-> FALSE] ELSE NoFd
      [] fd \in {1, 2} -> [file |-> "console", cloexec |-> FALSE]
      [] fd = s.listen /\ fd # 0 -> [file |-> "socket", cloexec |-> TRUE]
      [] fd \in {3, 4} \ {s.listen} -> [file |-> "daemon", cloexec |-> TRUE]
      [] fd = 5 -> [file |-> "log", cloexec |-> TRUE]
      [] fd = 6 -> [file |-> "report", cloexec |-> TRUE]
      [] OTHER -> NoFd]

(* posix_spawn can run no code in the child: it is for the services that   *)
(* need none.                                                              *)
UsesPosixSpawn(s) == is_inherited(s.sandbox) /\ ~s.cgroup /\ ~s.tty /\ s.listen = 0

-------------------------------------------------------------------------------
(* The child.                                                              *)

ChildPlan(s) ==
  <<"Setsid">>
  \o OptStep(s.listen # 0, <<"Listen">>)
  \o OptStep(s.stdio, <<"Stdio">>)
  \o OptStep(s.tty, <<"OpenTty", "SetControllingTerminal", "TtyDup2">>)
  \o <<"Chdir">>
  \o OptStep(s.cgroup, <<"JoinCgroup">>)
  \o steps(s.sandbox)
  \o <<"Ready", "execve">>

(* The step a report names: three of them have one code.                   *)
ChildStep(step) == IF step \in {"Listen", "Stdio", "TtyDup2"} THEN "Dup2" ELSE step

dup2(fds, from, to) ==
  IF from = to THEN fds ELSE [fds EXCEPT ![to] = [file |-> fds[from].file, cloexec |-> FALSE]]

HandListener(fds, fd) ==
  IF fd = LISTEN_FD THEN [fds EXCEPT ![fd].cloexec = FALSE] ELSE dup2(fds, fd, LISTEN_FD)

FreeFd(fds) == CHOOSE fd \in Fds : fds[fd] = NoFd /\ \A low \in 0 .. fd - 1 : fds[low] # NoFd
TtyFd(fds) == CHOOSE fd \in Fds : fds[fd].file = "tty"
CloseTty(fds, fd) == IF fd > 2 THEN [fds EXCEPT ![fd] = NoFd] ELSE fds

(* Whether the kernel lets a process in this state take a step at all.     *)
Permitted(k, s, step) ==
  CASE step \in {"OpenTty", "JoinCgroup"} -> k.cred.uid = 0
    [] step = "SetControllingTerminal" -> k.session
    [] step \in ToSet(steps(s.sandbox)) -> Take(k.cred, s.sandbox, step).ok
    [] OTHER -> TRUE

Done(k, s, step) ==
  CASE step = "Setsid" -> [k EXCEPT !.session = TRUE]
    [] step = "Listen" -> [k EXCEPT !.fds = HandListener(@, s.listen)]
    [] step = "Stdio" -> [k EXCEPT !.fds = dup2(dup2(@, 5, 1), 5, 2)]
    [] step = "OpenTty" -> [k EXCEPT !.fds = [@ EXCEPT ![FreeFd(k.fds)] = [file |-> "tty", cloexec |-> FALSE]]]
    [] step = "SetControllingTerminal" -> [k EXCEPT !.terminal = TRUE]
    [] step = "TtyDup2" ->
         LET fd == TtyFd(k.fds)
         IN [k EXCEPT !.fds = CloseTty(dup2(dup2(dup2(@, fd, 0), fd, 1), fd, 2), fd)]
    [] step = "Chdir" -> [k EXCEPT !.dir = TRUE]
    [] step = "JoinCgroup" -> [k EXCEPT !.cgroup = TRUE]
    [] step = "execve" ->
         [k EXCEPT !.fds = [fd \in Fds |-> IF @[fd].cloexec THEN NoFd ELSE @[fd]],
                   !.cred = Execve(@), !.state = "running", !.ran = TRUE]
    [] OTHER -> [k EXCEPT !.cred = Take(@, s.sandbox, step)]

(* A report to a pipe nobody reads raises SIGPIPE.  It is blocked during   *)
(* the write and pending after it: restoring the mask delivers it, with    *)
(* the default disposition the child has given every signal.               *)
write_report(k, what) ==
  IF report.reader
  THEN report' = [report EXCEPT !.sent = Append(@, what)] /\ kid' = k
  ELSE UNCHANGED report /\ kid' = [k EXCEPT !.state = "zombie", !.end = "SIGPIPE"]

die(k, step) ==
  write_report([k EXCEPT !.state = "zombie", !.end = "exit 127", !.failed = ChildStep(step)],
               ChildStep(step))

Blocked(k) == k.state # "setup" \/ k.killed

child_exec ==
  LET step == ChildPlan(spawn)[kid.at]
      next == [kid EXCEPT !.at = @ + 1]
  IN /\ ~Blocked(kid)
     /\ IF step = "Ready" THEN write_report(next, "Ready")
        ELSE IF ~Permitted(kid, spawn, step)
        THEN die([kid EXCEPT !.refused = TRUE], step)
        ELSE IF spawn.fails = step THEN die(kid, step)
        ELSE kid' = Done(next, spawn, step) /\ UNCHANGED report
     /\ UNCHANGED <<spawn, waiter>>

(* Somebody kills the child: an operator, the OOM killer, a stop.          *)
Murder ==
  /\ kid.state \in {"setup", "running"} /\ ~kid.killed
  /\ kid' = [kid EXCEPT !.killed = TRUE, !.murdered = TRUE]
  /\ UNCHANGED <<spawn, report, waiter>>
(* A killed process dies, however long the kernel takes; a program ends.   *)
Die ==
  /\ kid.killed /\ kid.state \in {"setup", "running"}
  /\ kid' = [kid EXCEPT !.state = "zombie", !.end = "killed"]
  /\ UNCHANGED <<spawn, report, waiter>>
Finish ==
  /\ kid.state = "running" /\ ~kid.killed
  /\ kid' = [kid EXCEPT !.state = "zombie", !.end = "finished"]
  /\ UNCHANGED <<spawn, report, waiter>>

reap_children ==
  /\ kid.state = "zombie"
  /\ kid' = [kid EXCEPT !.state = "gone"]
  /\ UNCHANGED <<spawn, report, waiter>>

-------------------------------------------------------------------------------
(* The parent.                                                             *)

ChildInit ==
  /\ spawn \in Setups
  /\ kid = [at |-> 1, fds |-> Inherited(spawn), cred |-> RootCred, session |-> FALSE,
            terminal |-> FALSE, dir |-> FALSE, cgroup |-> FALSE, state |-> "none", ran |-> FALSE,
            failed |-> "", refused |-> FALSE, killed |-> FALSE, murdered |-> FALSE, end |-> ""]
  /\ report = [sent |-> <<>>, reader |-> TRUE]
  /\ waiter = [at |-> "begin", ready |-> FALSE, verdict |-> "none", stop |-> FALSE, gaveUp |-> FALSE]

(* posix_spawn returns when the program runs or has failed to: a session   *)
(* and file actions are all it sets up.                                    *)
posix_spawn_full ==
  /\ waiter.at = "begin" /\ UsesPosixSpawn(spawn)
  /\ LET actions == {"Setsid", "Chdir", "execve"} \cup (IF spawn.stdio THEN {"Stdio"} ELSE {})
         stdio == IF spawn.stdio THEN dup2(dup2(kid.fds, 5, 1), 5, 2) ELSE kid.fds
         child == [kid EXCEPT !.session = TRUE, !.dir = TRUE, !.fds = stdio]
     IN IF spawn.fails \in actions
        THEN /\ waiter' = [waiter EXCEPT !.at = "done", !.verdict = "posix_spawn"]
             /\ kid' = [kid EXCEPT !.state = "gone", !.failed = spawn.fails]
        ELSE /\ waiter' = [waiter EXCEPT !.at = "done", !.verdict = "Exec"]
             /\ kid' = Done(child, spawn, "execve")
  /\ UNCHANGED <<spawn, report>>

spawn_sandboxed_begin ==
  /\ waiter.at = "begin" /\ ~UsesPosixSpawn(spawn)
  /\ \/ spawn.fails # "fork" /\ kid' = [kid EXCEPT !.state = "setup"]
        /\ waiter' = [waiter EXCEPT !.at = spawn.mode]
     \/ spawn.fails = "fork" /\ kid' = [kid EXCEPT !.state = "gone"]
        /\ waiter' = [waiter EXCEPT !.at = "done", !.verdict = "fork"]
  /\ UNCHANGED <<spawn, report>>

(* The handle is consumed: the read end closes with it.                    *)
Settle(verdict) ==
  /\ waiter' = [waiter EXCEPT !.at = "done", !.verdict = verdict]
  /\ report' = [report EXCEPT !.reader = FALSE]
Settled(verdict) ==
  /\ waiter' = [waiter EXCEPT !.at = "waitpid", !.verdict = verdict]
  /\ UNCHANGED report

detach ==
  /\ waiter.at = "detach"
  /\ Settle("detached")
  /\ UNCHANGED <<spawn, kid>>

kill_unreaped_child(k) ==
  CASE k.state = "zombie" -> [k EXCEPT !.state = "gone"]
    [] k.state = "gone" -> k
    [] OTHER -> [k EXCEPT !.killed = TRUE]
abandon ==
  /\ waiter.at = "abandon"
  /\ kid' = kill_unreaped_child(kid)
  /\ Settle("abandoned")
  /\ UNCHANGED spawn

(* The handle is dropped by a flow that ended.                             *)
drop ==
  /\ waiter.at = "drop"
  /\ Settled("dropped")
  /\ UNCHANGED <<spawn, kid>>

(* The deadline of the report passes or the flow is cancelled.             *)
Interrupt ==
  /\ waiter.at \in {"first", "rest"} /\ ~waiter.stop
  /\ waiter' = [waiter EXCEPT !.stop = TRUE]
  /\ UNCHANGED <<spawn, kid, report>>

Eof == report.sent = <<>> /\ \A fd \in Fds : kid.fds[fd].file # "report" \/ kid.state \in {"zombie", "gone"}
DecodeFirst ==
  \/ Eof /\ Settled("DiedBeforeExec")
  \/ /\ report.sent # <<>>
     /\ waiter' = [waiter EXCEPT !.at = "rest", !.ready = Head(report.sent) = "Ready"]
     /\ report' = [report EXCEPT !.sent = IF Head(@) = "Ready" THEN Tail(@) ELSE @]
DecodeRest ==
  \/ Eof /\ waiter.ready /\ Settle("Exec")
  \/ report.sent # <<>> /\ Settled(Head(report.sent))
read_report ==
  /\ waiter.at \in {"first", "rest"}
  /\ IF waiter.stop THEN Settled("interrupted")
     ELSE IF waiter.at = "first" THEN DecodeFirst ELSE DecodeRest
  /\ UNCHANGED <<spawn, kid>>

(* reap_failed_spawn, call by call: wait, kill what is still alive, wait   *)
(* again until it is gone or a second has passed.                          *)
Release == report' = [report EXCEPT !.reader = FALSE]
WaitpidOnce_bug ==
  /\ waiter.at = "waitpid"
  /\ kid' = IF kid.state = "zombie" THEN [kid EXCEPT !.state = "gone"] ELSE kid
  /\ waiter' = [waiter EXCEPT !.at = "done"] /\ Release
  /\ UNCHANGED spawn
WaitpidOnce ==
  /\ waiter.at = "waitpid"
  /\ IF kid.state \in {"zombie", "gone"}
     THEN /\ kid' = [kid EXCEPT !.state = "gone"]
          /\ waiter' = [waiter EXCEPT !.at = "done"] /\ Release
     ELSE waiter' = [waiter EXCEPT !.at = "kill"] /\ UNCHANGED <<kid, report>>
  /\ UNCHANGED spawn
SigKill ==
  /\ waiter.at = "kill"
  /\ kid' = IF kid.state = "gone" THEN kid ELSE [kid EXCEPT !.killed = TRUE]
  /\ waiter' = [waiter EXCEPT !.at = "loop"]
  /\ UNCHANGED <<spawn, report>>
WaitpidLoop ==
  /\ waiter.at = "loop"
  /\ \/ /\ kid.state \in {"zombie", "gone"}
        /\ kid' = [kid EXCEPT !.state = "gone"]
        /\ waiter' = [waiter EXCEPT !.at = "done"]
     \/ /\ kid.state \notin {"zombie", "gone"}
        /\ waiter' = [waiter EXCEPT !.at = "done", !.gaveUp = TRUE]
        /\ UNCHANGED kid
  /\ Release /\ UNCHANGED spawn

reap_failed_spawn == WaitpidOnce \/ SigKill \/ WaitpidLoop
ParentStep == detach \/ abandon \/ drop \/ read_report \/ reap_failed_spawn

ChildNext ==
  \/ posix_spawn_full \/ spawn_sandboxed_begin
  \/ child_exec \/ Murder \/ Die \/ Finish \/ reap_children
  \/ Interrupt \/ ParentStep
ChildSpec == ChildInit /\ [][ChildNext]_childVars

-------------------------------------------------------------------------------

(* What the parent is told is what happened: a program that was confirmed  *)
(* ran, unless something killed the child in the last step before it; a    *)
(* step that is named is the one that failed; and a start that failed by   *)
(* its report never ran anything.                                          *)
VerdictIsTrue ==
  /\ waiter.verdict = "Exec" => kid.ran \/ kid.murdered
  /\ waiter.verdict \in {ChildStep(step) : step \in ToSet(ChildPlan(spawn))} =>
       kid.failed = waiter.verdict /\ ~kid.ran
  /\ waiter.verdict \in {"DiedBeforeExec", "fork", "posix_spawn"} => ~kid.ran

(* When a spawn has ended without a confirmed program, no process is left  *)
(* to become one: it is gone, dead, or has its SIGKILL.                    *)
FailedIsGone ==
  waiter.at = "done" /\ waiter.verdict \notin {"Exec", "detached"} =>
    kid.state \in {"zombie", "gone"} \/ kid.killed

(* A program starts in the world its unit asks for: its own session, its   *)
(* directory and cgroup, the terminal if it has one, the log pipe or the   *)
(* console on 1 and 2, the socket on 3, nothing of the daemon's, and the   *)
(* user it was given; and no step before it is one that the earlier ones   *)
(* have made impossible.                                                   *)
FilesOf(k) == [fd \in Fds |-> k.fds[fd].file]
Output == IF spawn.tty THEN "tty" ELSE IF spawn.stdio THEN "log" ELSE "console"
GetsItsWorld ==
  /\ ~kid.refused
  /\ kid.ran =>
       /\ FilesOf(kid) =
            [fd \in Fds |->
               CASE fd = 0 -> IF spawn.tty THEN "tty" ELSE IF spawn.stdin THEN "console" ELSE "none"
                 [] fd \in {1, 2} -> Output
                 [] fd = 3 /\ spawn.listen # 0 -> "socket"
                 [] OTHER -> "none"]
       /\ kid.session /\ kid.dir /\ kid.terminal = spawn.tty /\ kid.cgroup = spawn.cgroup
       /\ kid.cred = Execve(Dropped(spawn.sandbox))

(* A command whose caller only wants its exit status is not killed by the  *)
(* report nobody reads: it runs, or exits with 127.                        *)
DetachedRuns == kid.end # "SIGPIPE"

(* A spawn ends however long the child is stuck, and a child that was not  *)
(* confirmed ends too and is reaped.                                       *)
SpawnSettles ==
  /\ waiter.at \in {"first", "rest", "waitpid", "drop"} ~> waiter.at = "done"
  /\ waiter.at = "done" /\ waiter.verdict \notin {"Exec", "detached"} ~> kid.state = "gone"

(* A spawn is what its verdict says: a confirmed program runs with the     *)
(* descriptors, group, terminal and credentials its unit asks for, and a   *)
(* start that failed leaves nothing that could still run (exec_child,      *)
(* PendingSpawn).                                                          *)
SpawnIsTrue ==
  /\ VerdictIsTrue
  /\ FailedIsGone
  /\ GetsItsWorld
=============================================================================
