# rinit: a TLA+ model of the init system

rinit is an init system in Rust: it runs as PID 1, mounts filesystems, reads
unit files, starts services in dependency order, supervises them, answers
`rctl`, and stops everything at shutdown.  These modules model it from the
unit-file text to the last `reboot(2)`, with the small programs that ship beside
it where they have state worth checking.  TLC checks the modules on small
instances and TLAPS proves the parts that do not depend on an instance.

Paths below are relative to the repository; `um` is
`crates/rinit/src/unit_manager.rs` and `boot` is `crates/rinit/src/boot.rs`.

## 1. The system

| Component | State | Operations | Talks to |
|---|---|---|---|
| Unit states (`rinit-core/src/unit/state`) | a state per unit | the transition table | unit manager |
| Job queue (`unit/job.rs`) | the request that holds each unit's target | submit, forget, reconcile | unit manager |
| Backoff (`unit/restart.rs`) | failure window, consecutive count, time of becoming active | on_failure, on_active, reconfigure, reset | unit manager |
| Unit files (`unit/parser.rs`, `config.rs`, `mod.rs`, `template.rs`) | none | lex, parse, name, substitute | boot, reload |
| Dependency graph (`unit/dependency.rs`, `plan.rs`) | edges | build, levels, closure, cycles | boot, control jobs |
| Unit manager (`um`) | a `UnitRuntime` per unit: config, state, pid, deadlines, probe and stop command pids, flags; queued starts | requests, spawn, notify, stop, exit, due_* deadlines, fail_start, reload | everything |
| Supervisor (`boot`, `supervise`) | start flows, control jobs, children not yet claimed | reap, advance flows, advance jobs, serve deadlines, select on an event | manager, processes, clients |
| Boot and shutdown (`boot`) | level under way, stop budget | begin_level, settle_level, stop_and_reap, shutdown_now | manager, mounts, watchdog |
| Reload (`reload.rs`) | deferred and retired definitions, cached graph, held sockets | reload, retire, prune, adopt | manager, activation |
| Spawn (`syscall/process.rs`, `wait.rs`) | a child between fork and exec, the report pipe, blocking threads | posix_spawn, fork+exec, kill, waitpid | supervisor |
| Sandbox (`unit/sandbox.rs`, `sandbox.rs`, `cred.rs`) | credentials of the child | resolve, plan, apply | spawn |
| Cgroups (`cgroup.rs`) | a directory per unit | prepare, limits, attach, count, kill | manager |
| Socket activation (`activation.rs`) | watchers, permits, cool-down, idle clocks | report, rearm, idle stop | supervisor |
| Notify hub (`notify.rs`) | a socket and a reader per unit, two channels | arm, read, recv, disarm | supervisor |
| Control server (`control.rs`) and `rctl` | connections, a queue, oneshots | accept, read, enqueue, reply, time out | supervisor |
| Logs (`logs.rs`, `logger.rs`, `ratelimit.rs`) | ring, queue, files, windows | pump, push, drain, rotate, read back | supervisor, `rctl log` |
| Signals (`signals.rs`) | self-pipe, pending flags | dispatch, recv, drop | supervisor |
| Watchdog, mounts (`watchdog.rs`, `mounts.rs`, `fstab.rs`) | device, mount table | prepare, feed, mount, unmount | boot, shutdown |
| Console (`rgetty`, `rlogin`), `cp`/`mv`/`rm`, `mount`, `swapon`, `swapoff` | terminal, utmp, files | see the modules | the kernel |

The hard part is the middle of the table.  The loop is single-threaded, yet a
unit is touched by a start flow that spans many passes, by a control job that
waits for several flows, by several kinds of deadlines, by clients at any time
and by three kinds of child processes whose exits are collected in batches and
applied one by one.  A fork+exec start adds a blocking thread that waits for
the child beside the loop's own `waitpid(-1)`.  Nothing ties these together but
the fields of the `UnitRuntime`, read again at the start of each step.  Around
it are tasks of the reactor (watchers, readers, connections) joined to the loop
by bounded channels, and code that depends on what the kernel does next: the
child between fork and exec, cgroups, signals, the watchdog, terminals, files
under somebody else's hands.

`PROJECT.json` lists the hazards at their lines, with the properties against
them.

## 2. Modules

| Module | Models | Code |
|---|---|---|
| `UnitState` | states, outcomes, policies, the whole transition table and `drive`; ranking of request sources, `supersedes`, `reconcile` | `unit_state.rs`, `transition.rs`, `config.rs`, `job.rs` |
| `JobQueue` | the queue as a state machine | `job.rs`, `um` 822-960 |
| `Breaker`, `Backoff` | the abstract start limit; `BackoffState` with sliding window and saturating delay | `restart.rs` |
| `UnitManager` | every manager method of a unit's life as an operator on the manager's state | `um` |
| `Supervisor` | the event loop, start flows, one control job, deadlines, spawn threads; what it promises, and what comments say of it | `boot`, `process.rs`, `wait.rs` |
| `Boot` | boot levels and the stopping half of the shutdown, around `Supervisor` | `boot`, `readiness.rs`, `um` |
| `Reload` | `rctl reload` under running units | `reload.rs`, `um`, `boot`, `activation.rs` |
| `Activation`, `Notify` | socket activation with its idle clock; notify sockets and channels | `activation.rs`, `notify.rs`, `unit/notify.rs`, `boot`, `um` |
| `ControlServer`, `SignalPipe`, `Power` | control socket and both timeouts; self-pipe; mounts, watchdog and the end of the shutdown | `control.rs`, `client.rs`, `signals.rs`, `mounts.rs`, `watchdog.rs`, `reboot.rs`, `boot` |
| `Child`, `Cgroup` | fork to exec with the report; the cgroup of a unit | `process.rs`, `service.rs`, `cgroup.rs`, `um` |
| `Sandbox` | names to ids and capabilities, the order of the drop, the kernel's rules | `sandbox.rs` (both), `users.rs`, `cred.rs` |
| `Dependency`, `UnitFile`, `Frames`, `Fstab` | pure algorithms as operators, each with what it is checked against; `UnitFile` has the command line of rinit too | `dependency.rs`, `plan.rs`, `parser.rs`, `mod.rs`, `template.rs`, `units.rs`, `args.rs`, `control.rs`, `parse.rs`, `fstab.rs` (both), `mount.rs`, `swapon.rs`, `swapoff.rs` |
| `Logs` | decoding and assembly of lines, ring, rate limit; queue, drain, rotation and reader of the persisted log | `logs.rs`, `logger.rs`, `ratelimit.rs`, `rctl/src/file_log.rs` |
| `Login` | rgetty, rlogin and the utmp records of one console | `rgetty.rs`, `rlogin/main.rs`, `utmp.rs` |
| `FileTools` | cp, mv and rm, one system call at a time | `cp.rs`, `mv.rs`, `rm.rs`, `fsutil.rs` |
| `Inputs` | inputs of a pure algorithm, written piece by piece | |
| `MC*` | instances for TLC; `MCRules` also holds what `Sandbox` is checked against | |
| `BackoffProofs`, `JobQueueProofs`, `SupervisorProofs`, `ReloadProofs`, `EventsProofs`, `DaemonProofs`, `HostProofs` | theorems and their lemmas | |

`Supervisor` EXTENDS `UnitManager`, which EXTENDS `UnitState`;
`Boot` EXTENDS `Supervisor`, so boot and shutdown run over the whole life of a
unit; `Child` EXTENDS `Sandbox`; `Backoff` INSTANCEs `Breaker` with a refinement
mapping.  `MCRules`, `MCEvents`, `MCDaemon` and `MCHost` put several modules that
share no state into one run: the initial state picks one of them, and a
behaviour is a behaviour of that one.

### How state and actions correspond to the code

* **Manager.** A method on `&mut self` is an operator that takes the manager's
  state `m` and yields the state it leaves.  `m.rt[u]` is the `UnitRuntime`
  with the fields that decide anything, its parsed `config` among them;
  `m.jobs[u]` is the source of the request that holds the target (the source
  determines the target, and timestamps rise, so rank alone decides);
  `m.queued` is `queued_starts`; `m.procs` are the children the kernel has.
  What a call learns from the world (a fork that works, members left in a
  cgroup, the daemon `find_daemon` finds, failures still in the window) is a
  parameter that the caller chooses nondeterministically.
* **Time.** In `Supervisor`, `Boot` and `Cgroup` a deadline is armed or not, and
  when the loop serves deadlines any subset of the armed ones has passed.  This
  allows every order of deadlines, exits and requests.  `Activation`, `Power`,
  `Backoff` and the rate limiter count ticks, because what they promise is about
  lengths of time.
* **Signals.** SIGTERM asks a process to do what it may do at any time anyway;
  the model keeps what the sender learns (ESRCH or not).  SIGKILL marks the
  process.  Pids are reused, the lowest free one first.
* **Loop.** `pc` is the place in `supervise`: reap, apply, flows, controls,
  deadlines, select.  `StartFlow::advance` runs as many stages as it can in one
  call, so `cur` is the flow that is being advanced and each stage is one
  action; nothing else of the loop interleaves, while the threads of
  `PendingSpawn::wait_blocking` do.
* **Control jobs.** `rctl start` becomes a `ControlStart` that works through
  `start_order` and waits for one unit after the other; the model keeps the set
  of units still to come and takes them in the order of the levels.  `Supervisor` has one at
  a time; stop, restart and reset-failed are handled at once, as in the code.
* **Transition table.** `UnitState!transition` has every cell.  The manager uses
  it in a few places and assigns states directly in some twenty others;
  `FollowsTable` says that what it assigns is what the table would have given
  for some event, or one of the shortcuts that `Moves` names.
* **Boot.** The schedule advances once per pass of the loop; a signal ends the
  loop in any pass, and the shutdown runs in phases of its own.
  `m.boot_in_progress` is the manager's flag: while it is set, the exit of a
  unit that is starting is final, whatever its Restart= says (`um` 2304-2317).
* **Reload.** Services are reduced to starting, running and stopping, because
  what matters is between which two of their steps a reload falls.  A reload is
  one step (the loop waits for it), a control job is several.
* **Activation.** The watcher and the loop share a report channel and a permit
  channel of one.  Readiness is edge-like, as tokio's `AsyncFd` makes it: set by
  an arrival and cleared by the watcher.
* **Notify.** A reader per unit, two bounded channels, full channels included;
  messages carry the unit and not the instance, as in the code.
* **Control server.** A connection is a task of several steps; the oneshot, the
  loop's answer, the server's timeout and the client's own are separate actions.
* **Signal pipe.** A handler is four steps on its thread: called, counted and
  descriptor loaded, byte written, uncounted.  `Drop` interleaves with them.
  Its wait for the handlers is bounded in the code, so `Close` may happen at any
  time and records in `gaveUp` that a handler was still counted.
* **Child.** The child's steps in order, each able to fail or hang; the parent's
  task polls the report; the handle may be awaited, abandoned, dropped or
  detached; the global reaper runs beside both.
* **Login, file tools.** Every system call is a step that may fail; another
  process may interrupt the session, or put a link in the place of an entry.
  Below an operand the tools do not look at the result of `fchmod` and
  `futimens`: such a failure is a step of its own (`IgnoredError`).
* **Pure algorithms.** A line is a sequence over an alphabet that has one member
  for each thing the code tells apart (quote, backslash, `#`, space, other).
  `Inputs!Write` appends a piece, so a state is an input and an invariant of
  these runs quantifies over every input up to the bound.
* **External.** `fork(2)`, epoll, accept, the kernel's treatment of credentials,
  cgroup attributes, terminals and files are modelled from how the code uses
  them and marked external in the map.

Definitions whose name ends in `_bug` (and `add_with_in_flight_now`,
`fail_start_alone`) are mistakes on purpose, one beside the definition it distorts: a
property is worth having only if such a mistake breaks it.

## 3. Runs

| Run | Instance | Properties |
|---|---|---|
| `services` | one unit, four unit files, three pids, burst 2, all requests and outcomes | `TypeOK`, `ProcessesAreKnown`, `WaitsAreBounded`, `DeadlinesBelong`, `StopSticks`, `FollowsTable` |
| `pairs` | two units that require, want or exclude each other, five pairs of unit files (fork+exec and ExecStartPre= among them), two pids, restarts without a limit | `NeverTwice`, `FailureSticks` |
| `ends` | a oneshot and a service with ExecStop= that requires it, with fairness | `StopEnds`, `StartIsAnswered` |
| `boot` | two services and their target in four directories (in one a notify service that restarts), a signal in any pass, with fairness | `RequiresReady`, `TargetMeansReached`, `NothingLeftRunning`, `BothEnd` |
| `events` | a socket unit; two notify services; thirteen consoles; errands of cp, mv and rm; with fairness | `EventsSettle`, `IdleMeansQuiet`, `LoginIsSound`, `TreesAreSafe` |
| `daemon` | two clients, two threads, seven mount points; with fairness | `ControlIsTrue`, `NoStrayWrite`, `PowerIsSafe`, `DaemonResponds` |
| `rules`, calls | the start limit: bases 0 and 8, bursts 0-3, intervals 0 and 3, u64 replaced by 20, clock to 5 | `WindowBounded`, `WindowOrdered`, `VerdictIsExact`, `ImplementsBreaker` |
| | the job queue: every request source, equal and rising timestamps | `HolderPrevails`, `EffectsAreMeant` |
| | reloads: two services and a template instance, eight directories, one job | `DirectoryDecides`, `OneDefinition`, `ListenerIsHeld` |
| `rules`, inputs | every input up to the bounds of `Rules.cfg` | `PlanIsRight`, `TextIsRead`, `ProtocolIsRight`, `FstabIsRight`, `LogsAreRight`, `DropIsRight` |
| `host` | every combination of what a child sets up, every step failing; six kernels; with fairness | `SpawnIsTrue`, `GroupIsAccounted`, `HostSettles` |
| `detached`, `conflicts`, `late_restart`, `manual_start` | one property each that a comment or document states | violated: section 5.1 |

Many of these are conjunctions of named parts, each with its own comment in the
module: `ProcessesAreKnown`, for instance, is `PidsAccurate` (a pid on record is
the child it was recorded for) and `NothingUnowned` (no child of a unit runs
unrecorded).  What they say, in one line each:

* **requests and restarts**: the request that prevails holds the target, a spent
  stop vetoes nothing, no stop starts a unit; the breaker trips exactly at the
  burst inside the interval and delays stay in bounds where arithmetic saturates;
* **a unit's life**: records and processes match; starts and stops have their
  deadline; a stop is not overtaken by a start on its way, nor is a failure, the
  unit's own or a required one's; a unit has one process, excluded units take
  turns if they can spawn at once; a promised restart comes and a SIGKILL is only
  ahead of a start or a stop, with the exceptions named there; states follow the
  table; a stop ends, a client is answered;
* **boot, shutdown, reload**: nothing starts before what it requires is ready, a
  target means what it says, both ends come, nothing is left running; the
  directory last read decides every later start, a start uses one definition,
  a removed unit stays down, a socket is held by one unit;
* **around the loop**: connections and readiness are not lost and idleness is
  earned; the control socket serves its owners, and its exit codes are true;
  handlers that `drop` could wait for never write to a closed descriptor; children are reaped; a healthy
  machine is not reset and a hung one is; unmounting is in order;
* **processes**: the verdict on a spawn is true, a failed one leaves nothing, a
  confirmed one has the descriptors and credentials asked for; limits hold, OOM
  kills are told, stops end with only stragglers left;
* **text**: plans, unit files, command lines, frames, fstab, log lines and
  privilege drops against what they mean, defined independently of the code;
* **programs**: a login is earned, clean and counted; cp, mv and rm stay inside
  their operands, move all or nothing and exit with 0 only if all was done that
  they look at the result of.

The initial state of most runs picks one of several sets of unit files or
settings, so that one run covers several kinds of services.

**Bounds.** `Pids`: three let a service, its ExecStop= and a probe (or a killed
instance, its successor and a command) exist together, and being few they are
reused all the time, which is what makes a stale pid dangerous.  `Burst`: 2
lets a unit fail, restart and trip; 0 disables the breaker, as
`StartLimitIntervalSec=0` does.  In `pairs`
it is 0, so that excluded and required units restart for ever.  In the supervisor
the window is only the number
of failures that still count, any number the breaker allows.  One
ExecStartPre= and one ExecStartPost= command exercise the loop over commands
(start, wait, next).  Two units suffice for one edge of each kind; longer chains
differ in the closure operators only, which `rules` checks over every graph of
four names and three references.  For the start limit the bounds are the clock and
`MaxFailures`; 20 in place of the largest u64 makes both the power and the sum
with the jitter saturate.  In `boot` clients only stop units (`Supervisor` has
the rest) and three levels give each a predecessor and a successor.  In `events`
channels of one are full at once; `Refresh` < `Cooldown` = `IdleTimeout` keeps
the order of the real values; one swap and two failed calls in one run of a tool
are enough for a fault inside the handling of another.  In `daemon` a pipe of
two bytes overflows with two signals.  In `rules` lines have up to five
characters, frames nine bytes, command lines three arguments, log files two
bytes of records, streams six bytes, with a line limit of three and characters
of one and of three bytes: each large enough for an escape inside a quote inside a
comment, a frame with a field cut anywhere, a value that looks like an option, a
record that crosses the end of a file, a character cut by a read, by the limit
of a line or by the end of a file.  The options of fstab lines include those on
which the two readers differ.  Of the eight
directories of a reload two add and remove a unit and what refers to it, one is
refused, and the others move a socket, pass it from one unit to another, and take
a template away.  `Rules.cfg` names every bound.

**Fairness.**  `Supervisor!Fairness`: the loop sleeps no longer than its earliest
deadline, so it keeps going round (`WF` of `Loop`); an armed deadline passes, and
from then on every pass finds it due: strong fairness of serving the SIGKILL and
start deadlines of each unit, and of each flow's own budget.  A process that was
sent SIGKILL exits and is reaped.  A spawn thread reports within its five
seconds.  Nothing is assumed of clients, of services nobody killed, or of the
control job's own deadline: `StartIsAnswered` shows that the job is answered
because its flows end.  `Boot` adds the phases of the shutdown, which are steps
of PID 1 itself.  In `events` and `daemon` a task of the reactor that can run
does, the channel serves waiters in order (strong fairness of `enqueue`, which
tokio's fair semaphore gives), delivered signals run their handlers, and the
hardware's clock runs.  For `LoginSettles` whoever sits at the console answers;
for `ToolEnds` the tool runs.  In `host` the waiting task polls until its
deadline, the loop reaps, and killed processes die; nothing makes a child take
its steps or a service obey SIGTERM.  Stops in `ends` come from `restart`
requests; the state space with `stop` as well is too large for a liveness
check, and both take the same path through `stop_unit`.

A service may run for ever without a step of its own, but the loop can always
wake, so deadlock is checked in the supervisor and boot runs.  The runs over
finished inputs (`rules`) and over machines that come to an end (`events`,
`daemon`, `host`: a closed connection, a finished tool, a machine that is off)
say `CHECK_DEADLOCK FALSE`.

## 4. Proofs

Seven modules hold the theorems; `PROJECT.json` lists them with the property each
one states.  Every one holds for all values of the CONSTANTS that satisfy the
named assumptions beside them.  A safety theorem is proved from an inductive
invariant that contains the property: it holds initially, each action keeps it
(one lemma or step per action), and it implies what is promised.

Where an operator works through a sequence (the units of a directory, the lines
of an account file, the arguments of rlogin, the steps of a privilege drop), the
model writes it as a recursive function and the proof is by contradiction: if
the claim fails at some place there is a first place where it does
(`LeastNumber`, from the well-foundedness of < on the naturals), and the step
from the place before it settles that one.

### Start limit (`BackoffProofs`)

For every set of policies, every clock and every bound.

* `WindowAlwaysBounded`: the window never holds more than `StartLimitBurst`
  entries, also after a reload that shrinks the burst.  `WindowBounded` is not
  inductive alone: the proof needs that the burst is at least one (`Typed`) and
  that the window is a sequence of times.
* `WindowAlwaysOrdered`: the window is in time order and not ahead of the clock.
  This is why expiring from the front until the first live entry removes
  exactly the expired ones.
* `BackoffImplementsBreaker`: the refinement.  Each call maps to a step of
  `Breaker` or to a stutter.
* `VerdictAlwaysExact`: the unit is tripped exactly when the failures the policy
  counts reach the burst.  The window is a bounded summary of a history that
  only grows, so the invariant `Exact` relates the two: the window embeds in the
  history (`Recorded`), and unless a reload came between it is its end, and
  every failure that is no longer in it has expired or been pushed out of a full
  window (`Summary`).

Under all of them lies `Inv == Typed /\ WindowBounded /\ WindowOrdered`; lemmas
about the parts of an ordered sequence (`PartIsOrdered`, `TrimmedIsOrdered`,
`PushedIsOrdered`) carry the steps `on_failure` and `reconfigure`.

### Job queue (`JobQueueProofs`)

* `HolderAlwaysPrevails`, for every set of units and every clock: no request made
  since the target was last forgotten supersedes the one that holds it, though
  `submit` only ever compares with the current holder.  The proof needs that
  `supersedes` is total and transitive.
* `EffectsAreAlwaysMeant`: a start of a unit that is down is never swallowed by
  an old stop, and a stop never leads to a start.  The invariant adds that the
  source of a holder fits its target (`HoldersFit`), and uses that a stop whose
  unit is down is spent.
* `TablesAgree`: the code decides twice what a start or a stop does to a unit in
  a given state, once in `job.rs` (`reconcile`) and once in `transition.rs`.  For
  every state, policy and kind the two give the same effect, and `reconcile`
  waits exactly where the table rejects the event.

### Supervisor (`SupervisorProofs`)

For every set of units, unit files, pids and requests, over every interleaving
of exits, spawn threads, flows, control jobs and deadlines.

* `SupervisorTypes`: the type invariant of the whole loop and manager.
* `StopAlwaysSticks` (`StopSticks`) and `FailedAlwaysStaysDown` (the first half
  of `FailureSticks`): no step gives a process to a unit that was told to stop,
  or to one that has failed, unless an operator asks for it after the failure
  (`RetriedByHand`; what the code makes of that is the finding `manual_start`).

The argument has two halves.  Every method of the manager but
`begin_spawn_unit` is `Quiet`: it yields a well-formed manager in which no unit
has a process that had none before; this is a lemma per method, and one for a
loop over units (`ForEach`, whose body touches only the unit it has come to).  And a
spawn happens only in the turn of a flow that has just been found to be meant:
`Inv == Types /\ TurnIsFlows /\ CurIsMeant` says that flows have a turn only in
their part of the loop and that the flow that is being advanced is for a unit
whose target is not Stopped and which has not failed.  `StopSticks` alone is not
inductive: without `CurIsMeant` a stop could fall between the check and the
spawn.  The proof also found the one exception that `StopSticks` now names: a
unit in its own `Conflicts=` (section 5.3).

### Daemon (`DaemonProofs`)

* `NeverStrayWrite`: for any finite number of threads and any number of
  `SignalSet`s, a handler that is about to write holds an open descriptor, or one
  of a set that was closed while that handler was counted.  `Drop` waits for the
  count only so long (`signals.rs:286`) and `new` does not wait when it rolls
  back, so no more is true of the code; what is proved is that the protocol has
  no other gap.  `Published` says when `WRITE_FD` names the open pipe;
  `NoneCounted`, that with no handler counted none has loaded the descriptor.
  Finiteness of the threads is what makes the counter a counter.
* `ControlIsAlwaysTrue`: for every set of clients, requests and queue length, a
  client is told what happened and only those who may ask are served.  The
  invariant: a request is in one place at a time (`OneWay`), who is past the
  check may be (`Checked`), and the reply is ok if and only if the request was
  carried out (`Told`).
* `PowerIsAlwaysSafe`: a healthy loop is never reset by its own watchdog, the
  last resort is there when the reboot fails, and mounts come off in an order
  that works.  `Fed` relates the hardware's clock to the next feed; it needs
  `2 * Late < s * TicksPerSecond`, that the loop is late by less than half of the
  shortest timeout.  `TriggerHeld` says that /proc is there until the trigger is
  open, `MountsOrdered` that what is mounted on something comes after it.
* `DaemonIsSafe`: the three together, for the specification that the run
  `daemon` checks.

### Host (`HostProofs`)

* `GroupAlwaysAccounted`: for every kernel, whatever it lacks or refuses, and
  every set of limits, a unit runs under the limits it asks for and the kernel
  can enforce, and an OOM kill is blamed on the run it happened in.  `Counted`
  is the invariant: the counter has gained, since the baseline of this run,
  exactly the kills of this run.
* `SpawnIsAlwaysTrue`: for every setup of a child, wherever it is killed or stuck
  and however its handle is used, the verdict is true (`VerdictIsTrue`), a spawn
  without a confirmed program leaves nothing that could become one
  (`FailedIsGone`), and a program that runs has the session, directory,
  terminal, cgroup, descriptors and credentials its unit asks for
  (`GetsItsWorld`).  The first two rest on `ChildInv`: what is in the pipe
  (`PipeIsTrue`: "Ready" at most once and first, a step only when it failed and
  the child is dead), that the child holds the pipe as long as it is on its way
  (`OnItsWay`, which is why an end of file means that it ran or died, and where
  every step must be seen not to close or overwrite the report's descriptor), and
  what a waiting parent may conclude (`Listening`).  `PlanShape` is what all this
  needs of the plan.  The third rests on `WorldInv`.  Because a child may stop
  anywhere, "it ends well" says nothing about a child on its way; the invariant
  says instead that there is a *way* through the whole plan, a sequence of worlds
  each of which permits the next step and leads to the next world, and that a
  child at step n is in its n-th world.  `PlanReaches` builds that way from the
  pieces of the plan (socket, standard descriptors, terminal, session, drop), and
  `PosixKeepsWorld` shows that the posix_spawn path ends in the same world.
* `DropIsExactlyAsked`: for every unit file and every user and group database in
  which its names resolve, no step of the drop is refused and the program has
  exactly the ids, groups, flag and capabilities asked for.  It needs the *order*
  of `steps`: the stage predicate `After(c, sb, n)` says what the credentials are
  once the first n kinds of step are done, and each `Take...` lemma needs what the
  earlier ones left (setgroups and the bounding set while still privileged, the
  ambient set only after the change of user has not lost the permitted one).

Assumed (`ChildAssumption`): the socket's descriptor is one the daemon uses for
nothing else, and the sandbox was resolved, so that the capabilities it names
exist; `resolve` refuses any other unit before a child is made.

### Reload (`ReloadProofs`)

For every set of units, every sequence of unit directories, every instance and
job, whichever binds fail.

* `DirectoryDecidesAlways` (`DirectoryDecides`): the next start of a unit uses the
  definition of the last directory that was accepted, whatever was deferred,
  withdrawn, removed and brought back, and a removed unit comes down and stays
  down.  A definition may be in force or wait behind a running unit, so the
  invariant speaks of what a unit is *said* to be (`Said`): the deferred
  definition if there is one and the current one otherwise.  `Wins` ties that to
  the directory, `Down` keeps a retired unit out of every flow.
* `OneDefinitionAlways` (`OneDefinition`): commands and process of a start come
  from one definition.  It needs `FlowsOK`, that the flow under way was built from
  the definition its unit still has.
* `ListenerIsHeldAlways` (`ListenerIsHeld`): the descriptor handed to a service is
  that of the socket rinit holds for it, and no path is held twice.  A reload
  binds one unit after the other, so this is an induction over the units of the
  directory (`SocketsHeld`), with `Held` at every point of it.

`ReloadInv` is the conjunction.  Assumed (`ReloadAssumption`): unit files refer to
units that can be named, and the plan of a directory names units it has.

### Socket activation (`EventsProofs`)

* `IdleAlwaysMeansQuiet` (`IdleMeansQuiet`): for every refresh, cool-down and idle
  timeout, a service is stopped as idle only if nobody has connected for its
  timeout, apart from what came within the last refresh.  The idle clock counts
  from the last *report*, and a report needs a permit, so `IdleInv` ties four
  things together: the clock to the age of the last activation (`ClocksOK`: when
  it runs out, a permit is due again), the permit to the watcher (an Active unit
  whose refresh has passed has a permit on its way, a watcher that looks, or a
  report in the channel), the clock to the connections once all are reported
  (`Counted`), and the unit's process to its flow (`UnitOK`).  Assumed
  (`ActivationAssumption`): Refresh < Cooldown <= IdleTimeout, as in the code
  (100 ms, 1 s, and a number of seconds), and that the loop and the watcher are
  quick against a tick.

### Console login (`EventsProofs`)

* `LoginIsSoundAlways` (`LoginIsSound`): for every console, every pair of account
  files and everything that may be typed, through failed tries, failing calls,
  interruptions, kills and restarts of rgetty, a shell belongs to the name typed
  last and that name has earned it; a prompt is on a fresh terminal, a shell on
  one that is its user's; utmp counts the session as long as it runs.

`LoginInv` follows a login through its phases: what the name has shown so far
(`WhoOK`: first that a password is asked for, then that it passed, then that the
account may log in, then that the identity is taken), that rlogin lives in an
rgetty that waits for it (`PhaseOK`), what state the terminal is in at each phase
(`TtyOK`), and who is on record (`UtmpOK`, which allows the record that a killed
rgetty leaves behind until the next one opens the terminal).  `LoginIsSound` alone
is not inductive: a shell at the end of the chain is earned only because each
phase kept what the one before it established.  `ShadowFound` and `NameIsOperand`
are the inductions: the line that decides is the first of that name, and a name
that starts with a dash cannot become an option.  Assumed: the number fields of
the account files are numbers or marked as unset or malformed
(`AccountsAssumption`), and the terminal is given by its own name
(`PathAssumption`; what happens behind an alias is in section 5.3).

### What is only model-checked

* Liveness (`StopEnds`, `EventsSettle` and the like): it needs fairness and
  ENABLED.
* `ProcessesAreKnown` and `WaitsAreBounded` hold for the unit files of their runs.
  They are not theorems of the model for every unit file: with a spawn thread a
  pid stays on record (`SingleReaper`, section 5.2).  An assumption that rules those files
  out is one that the parser does not make.  `NeverTwice` and `DeadlinesBelong`
  name their exceptions, which are the findings `conflicts` and `late_restart`
  and the recipe of `ReadyIsNotKilled`.
* `RequiresReady`, `TargetMeansReached` and `NothingLeftRunning` are about `Boot`
  around the whole supervisor; the last is false for some unit files (section
  5.2).
* `FollowsTable` and `RequiredNotFailed`, the second half of `FailureSticks`: both
  need, for each method of the manager, every state it can move a unit to and how
  far a failure has spread to its dependents.  The lemmas of `SupervisorProofs`
  say of each method only that it makes no process and keeps the types.
* The pure algorithms (`PlanIsRight`, `TextIsRead`, `ProtocolIsRight`,
  `FstabIsRight`, `LogsAreRight`, and of `DropIsRight` what is read from the
  databases) are recursions and folds over their input.  The library's induction
  theorems take the claim as an operator, which the provers cannot instantiate;
  an induction through `LeastNumber` is possible, but each of these parsers would
  need its own.
* `TreesAreSafe`: `FileTools` walks trees with a RECURSIVE operator, for which the
  SMT backend is not available.

## 5. Where code and comments disagree

### 5.1 With a run

* `detached` (`DetachedRuns`): `write_report` blocks SIGPIPE only during the write
  (`process.rs:873`), so the signal that a closed report pipe raises is delivered
  when the mask is restored, and a detached child dies before it executes its
  command; the comment at `process.rs:861` says the report is written "without
  letting a detached parent's closed pipe kill the child with SIGPIPE".
* `conflicts` (`ConflictsExclude`): `stop_conflicts` overlooks a unit whose flow
  waits in ExecStartPre= (`um:1132`: no pid, and a state that is not counted), and
  that flow does not look again before it spawns.  `um:1128`: "includes a unit
  waiting out a restart and a start flow that has not spawned yet".
* `late_restart` (`RestartIsComing`): a restart that falls due while
  ExecStartPost= of the dead instance runs is dropped by `begin` (`um:2373`,
  `boot:1699`).  `um:2370`: "Fire any restart whose backoff has elapsed".
* `manual_start` (`ManualStartProceeds`): `rctl start` of a failed unit clears the
  breaker but not the state, and the flow's first check ends it (`boot:1190`).
  `um:1107` calls this "the escape hatch from `Failed(StartLimitHit)`".

### 5.2 With a recipe

The definition named is in the module; put it into a copy of the run's `.cfg` as
the only property, with the changes given.  Each ends in a counterexample.
`Services.cfg` recipes set `Units = {a}`, `Pids = {1, 2}`, `Exits = {"Success",
"Failure"}` and `Requests = {"start"}` unless said otherwise.

| Property | From | Changes | What happens |
|---|---|---|---|
| `CrashIsHandled` | `Services.cfg` | `HealthFile`, `Burst = 0` | a failed probe meets ESRCH, clears the pid, and the exit already collected finds no unit: Restart=always is lost (`um:1941`); the comment says "let the normal crash path handle it" |
| `StopBeatsRestart` | `Services.cfg` | `HealthFile`, `Burst = 0`, requests start and stop | a stop during a health-triggered restart leaves `restart_after_stop` set (`boot:2405`); `um:1964`: "an explicit stop beats an automatic one" |
| `ReadyIsNotKilled` | `Services.cfg` | `NotifyFile`, `Burst = 1` | READY=1 after the start timeout makes the unit active with its SIGKILL armed (`um:1648`); `um:1675`: "A unit that already left `Starting` cannot time out starting" |
| `StartsResolve` | `Rules.cfg` | `Histories <- Removal` | a unit removed together with the reference of a running unit leaves that reference in force: every start fails to resolve (`um:752`); `reload.rs:25`: "removing a unit means removing the references to it, in the same reload" |
| `FailedIsNotRetried` | `MCEvents.cfg` | `Operator = 0` | the idle clock of a failed unit runs on, its stop makes the unit Inactive, the next connection starts it (`um:1573`); `boot:282`: "a failed unit must not be retried by the socket" |
| `ConnectionIsServed` | `MCEvents.cfg` | none | a connection that arrives while readiness is already cleared is not reported again; `boot:1024`: "The watcher is level-triggered" |
| `ReadyIsOwn` | `MCEvents.cfg` | `Instances = 2` | a READY=1 of an earlier instance waits in the channel and is taken for the next one's (`notify.rs:150`) |
| `SingleMissIsNoReset` | `MCDaemon.cfg` | none | the next feed is counted from the failed one, half a timeout later, when the timeout has passed (`watchdog.rs:150`); `:208`: "a single missed feed is not already a reset" |
| `DropWaits` | `MCDaemon.cfg` | none | `drop` gives up its wait and closes while a handler that loaded the descriptor has yet to write (`signals.rs:286`); the comment above it expects the wait never to be needed for long, and names a frozen thread as the case it gives up on |
| `NothingLeftRunning` | `MCBoot.cfg` | `Configs <- StopCommand` | the exit of the main process clears `kill_at` (`um:2212`), so ExecStop= outlives the shutdown |
| `SingleReaper` | `Services.cfg` | `ForkedFile`, `Burst = 1`, requests start and stop | a stop ends the flow of a fork+exec start; its thread then reaps the child itself (`process.rs:1075`), and the unit keeps a pid that nobody will report, its SIGKILL armed; `um:1767`: "rinit's single-reaper invariant" |
| `PreserveRestores` | `MCEvents.cfg` | none | below an operand the results of `fchmod` and `futimens` are ignored (`fsutil.rs:242`, `259`, `351`): `cp -p` exits 0 without the modes and times, and `mv` removes the source that had them; `docs/rinit-tools-spec.md:351`: "mode and timestamps are" preserved |
| `LogIsReadable` | `Rules.cfg` | none | `append_record` cuts a record where the file is full (`logs.rs:234`), inside a character if it falls there; `rctl log --file` then ends with an error and shows nothing (`file_log.rs:91`); `README.md:470`: "can read the plain text and its rotations" |
| `SelectingIsNotData` | `Rules.cfg` | none | `mount -a` passes nofail, _netdev, x- and comment= to `mount(2)` as data (`mount.rs:40`); `fstab.rs:84`: "passing them in `mount(2)`'s data makes ext4/tmpfs reject the mount" |
| `GrammarIsExact` | `Rules.cfg` | none | a value that ends in an escaped backslash takes the next line with it (`parser.rs:623`); `parser.rs:7`: "implements the EBNF in §1.0 exactly"; `:12`: "`\` is an escape everywhere" |
| `RecordsStayWhole` | `Rules.cfg` | none | `append_record` cuts a record at the file's bound; `logs.rs:208` says the file is rotated before the write |
| `ToolExitIsTrue` | `MCEvents.cfg` | `Errands <- SameFile` | `cp f f` truncates the file and exits 0, `cp -f f f` removes it; `cp.rs:69`: "Do not destroy the destination until the source has been proven readable" |

### 5.3 Seen while modelling

* Backoff: `on_failure` resets the count after one interval of uptime, where
  `unit/restart.rs:18` says a service crashing every 30 s with an interval of 10
  "should keep accumulating".
* Manager: a start queued behind a stop ("it will start afterwards",
  `boot:2058`) is dropped when the stop ends in a restart wait or a tripped
  breaker.  `rctl restart` of a unit in RestartWait whose cgroup has members sets
  `restart_after_stop` on a stop without a process, whose end never reads the
  flag (`um:986`); if a start flow is under way, it spawns on top of that stop and
  clears its deadline, which is the exception `Overtakes` of `FollowsTable`.
  `rctl stop` and then `rctl restart` of a unit that is still stopping leaves it
  in RestartWait without a deadline, Stopped being its target (`AwaitsRestart`
  leaves it out).  A
  oneshot that finishes in the pass in which its flow's deadline passes is failed
  with its dependents.
* Manager: a unit that names itself in `Conflicts=` is stopped by its own start
  and then started, with Stopped as its target; the parser does not reject it.
* Reload: an instance that is still stopping is overwritten by a new one; a
  retired unit that comes back unchanged does not invalidate the cached graph; a
  deferred definition's new Requires= is not honoured by the start that adopts
  it; two units that swap SocketActivate= paths both fail to bind
  (`docs/units.md:145`).
* Unit files: `comment_prefix` keeps its quote state per physical line.  A path
  that one unit repeats in its own Sockets= is refused as a duplicate
  (`dependency.rs:195`); `Dependency` has a set of paths per unit and cannot say so.
* Control: the reply timeouts are documented as 60 and 65 s and are 600 and 605.
* Signals: the rollback of `SignalSet::new` closes without waiting for handlers.
  `Drop` stores WRITE_FD with Release and then loads ACTIVE_HANDLERS with
  Acquire, which the two orderings do not keep apart on every machine; the model
  has them in order.  A
  SIGTERM whose byte meets a full pipe is lost, where `signals.rs` says it "is
  already latched".  The watchdog is said to be closed just before the final
  reboot and is kept armed.
* Logs: a drain whose write fails loses its batch and the count of drops; half a
  line of a failed write is glued to the next record; `rctl log --file UNIT` hides
  the second half of a torn record; a character cut by a read is decoded in two
  halves, each becoming U+FFFD (`logs.rs:566`): `CutsDoNotMatter` speaks of cuts
  between characters and of those inside one separately.
* fstab: a mount point listed twice is mounted twice at boot.  The readers of the
  boot and of the tools part ways on bind and rec (data at boot, flags for the
  tools), on dirsync, nofail and their like (the other way), on a `#` inside a
  line (a comment for the tools only), on relative mount points, missing ones
  (which the boot creates) and mounted ones (which it leaves): `PartsReaders` lists them, and `ReadersAgree` is about
  every other line.  An escape of `\4xx` and up overflows in the tools; `-r -o rw`
  keeps ro; `umount -a` and `swapoff DEVICE` do not unescape, and `swapoff -a`
  overlooks a swap file with a blank in its name that was enabled by hand
  (`swapoff.rs:55`), which `SwapOffUndoesOn` names.
* Child and cgroup: between `waitpid(WNOHANG)` and `kill` a pid may be reused; a
  report or log pipe that is descriptor 3 would be closed by the socket's dup2
  (the model assumes 4 and up); a limit that a reload removes stays in a kept
  directory; a worker's OOM kill is blamed on a main process killed later; a
  process outside the group that ignores SIGTERM survives the first stop; a unit
  with only a numeric Group= still needs a readable /etc/passwd.
* Console: `rgetty.rs` says the newly opened descriptor "survives the hangup",
  which is false when the terminal already is its controlling one; behind a
  symbolic link (/dev/serial0) or after SIGTERM a USER record is never closed;
  ttyAMA1 and ttyAMA10 share the utmp id "AMA1"; the password prompt is shown
  before the echo is off.
* File tools: of two sources with one base name the second silently overwrites
  the first; a failed `fstat` below the operand leaves the copy with the time 0
  (the model has it without its times); the times of symbolic links are not kept (`docs/rinit-tools-spec.md:351`).
* `rctl`: start, stop, restart and reset-failed take any word for a unit, an
  option too (`rctl stop --tail` asks for the unit `--tail.service`).
* Command line: `--` with nothing after it, and `--test-service=`, are accepted and
  override the environment's service (`args.rs:126` says an empty command is an
  error).

## 6. Not modelled

* The `processes` viewer, which only displays `/proc`, and the tools that are a
  loop from input to output (cat, grep, ls, ps and the like): no state whose
  order matters.
* Hash functions of passwords: a password is right or not.  The bit layout of
  capability sets, the spelling of each key, colours, time stamps and log text.
* In the supervisor: several control jobs at once, status text, the dev-mode
  exit.  Process groups apart from their leader are in `Cgroup` only.
* Of the memory model only interleavings of sequentially consistent steps.
* Two consoles whose utmp ids collide: `Login` has one console and `tty_id` names
  it.  Files that PID 1 itself holds open on a filesystem: `Power!Busy` knows of
  other processes only.
* `HealthyIsFed` says nothing after a failed feed (`SingleMissIsNoReset`, section
  5.2).  The third part of `DamageIsSeen` says that what a damaged frame is read
  as is a request of its own, and not that the damage is noticed: the protocol
  has no checksum.
* `Activation` reduces the unit to its states, and `Reload` to starting, running
  and stopping: the whole life of a process is in `Supervisor`.
* In the file tools: permissions (they run as root), hard links, changes to the
  path that leads to an operand, operands with one base name.
* `ends` leaves out probes and sockets to stay small.

## 7. Plan

1. For the supervisor, `FollowsTable` and `RequiredNotFailed`, from lemmas that say
   of each method which states it moves a unit to.
2. A composition of `Reload` with `Supervisor`, if the state space allows.
