-------------------------------- MODULE Power -------------------------------
(***************************************************************************)
(* From power-on to power-off around the main loop: the first wave of      *)
(* mounts (rinit-runtime/src/mounts.rs), the hardware watchdog             *)
(* (watchdog.rs, syscall/watchdog.rs) and the tail of a shutdown (boot.rs  *)
(* shutdown_now).  The watchdog's clock runs by itself; the loop's feeds   *)
(* are at most `Late` behind their time while it iterates.                 *)
(***************************************************************************)
EXTENDS Integers, Sequences, SequencesExt

CONSTANTS
  TicksPerSecond,    \* the grain of time
  Timeouts,          \* --watchdog-timeout, in seconds
  Late,              \* ticks an iteration of a healthy loop can take
  Feeds              \* feeds that can fail
VARIABLES
  phase,       \* how far the machine is
  points,      \* /proc/mounts without the root, oldest first
  todo,        \* in a shutdown, the points still to unmount
  inUse,       \* points with an open file or a working directory
  stuck,       \* points that refuse the lazy unmount too
  gone,        \* points unmounted lazily
  wd,          \* the watchdog: its device and what rinit knows of it
  clock,       \* ticks until the hardware resets the machine
  failures,    \* feeds that failed
  hung,        \* PID 1 has stopped making progress
  sysrq,       \* the trigger is held open
  kernel,      \* what the kernel grants: reboot(2) and the sysrq trigger
  outcome      \* "running", or how the machine ended
powerVars == <<phase, points, todo, inUse, stuck, gone, wd, clock, failures, hung, sysrq, kernel, outcome>>

FirstWave == <<"/run", "/proc", "/sys", "/dev", "/tmp", "/sys/fs/cgroup">>
Degradable == {"/tmp", "/sys/fs/cgroup"}
FstabPoint == "/run/data"
Below(p) == CASE p = "/sys/fs/cgroup" -> "/sys" [] p = "/run/data" -> "/run" [] OTHER -> "/"
NoWatchdog == [armed |-> FALSE, timeout |-> 0, known |-> TRUE, interval |-> 0, next |-> 0]

ASSUME PowerAssumption ==
  /\ {TicksPerSecond, Late, Feeds} \subseteq Nat
  /\ Timeouts \subseteq Nat \ {0}
  /\ \A s \in Timeouts : 2 * Late < s * TicksPerSecond

PowerInit ==
  /\ phase = "mounts" /\ points = <<>> /\ todo = FirstWave /\ gone = {}
  /\ inUse \in {{}, {"/tmp", FstabPoint}} /\ stuck \in {{}, inUse \cap {FstabPoint}}
  /\ wd = NoWatchdog /\ clock = 0 /\ failures = 0 /\ hung = FALSE /\ sysrq = FALSE
  /\ kernel \in {k \in [reboot : BOOLEAN, sysrq : BOOLEAN] : k.reboot => k.sysrq}
  /\ outcome = "running"

Alive == outcome = "running" /\ ~hung
\* What the loop and the mounts leave alone.
Quiet == UNCHANGED <<inUse, stuck, kernel, hung>>

-------------------------------------------------------------------------------
(* The boot.  A fatal error resets the machine, without a watchdog yet.    *)

first_wave_mounts ==
  /\ Alive /\ phase = "mounts" /\ todo # <<>>
  /\ \/ /\ points' = Append(points, Head(todo))
        /\ todo' = Tail(todo) /\ UNCHANGED phase
     \/ /\ Head(todo) \in Degradable
        /\ todo' = Tail(todo) /\ UNCHANGED <<points, phase>>
     \/ /\ Head(todo) \notin Degradable
        /\ todo' = <<>> /\ phase' = "shutdown" /\ UNCHANGED points
  /\ Quiet /\ UNCHANGED <<gone, wd, clock, failures, sysrq, outcome>>
\* report_fstab: an entry that fails is a warning.
report_fstab ==
  /\ Alive /\ phase = "mounts" /\ todo = <<>>
  /\ points' \in {points, Append(points, FstabPoint)}
  /\ phase' = "setup"
  /\ Quiet /\ UNCHANGED <<todo, gone, wd, clock, failures, sysrq, outcome>>
\* The signals and the plan: either can fail, and that is fatal.
SetupFails ==
  /\ Alive /\ phase = "setup"
  /\ phase' = "shutdown"
  /\ Quiet /\ UNCHANGED <<points, todo, gone, wd, clock, failures, sysrq, outcome>>

-------------------------------------------------------------------------------
(* The watchdog.                                                           *)

feed_interval(seconds) == (seconds * TicksPerSecond) \div 2

(* set_timeout, in seconds: what the driver settled on, which need not be  *)
(* the request; an answer of 0, or a refusal, is followed by the question  *)
(* what the timeout is.  Nobody knows if that is refused too.              *)
Settled_bug(asked, actual) == asked
Settled(asked, actual) == actual
prepare ==
  /\ Alive /\ phase = "setup" /\ phase' = "loop"
  /\ \/ wd' = NoWatchdog /\ clock' = 0
     \/ \E asked \in Timeouts, actual \in Timeouts, known \in BOOLEAN :
          LET effective == IF known THEN Settled(asked, actual) ELSE asked
          IN /\ wd' = [armed |-> TRUE, timeout |-> actual, known |-> known,
                       interval |-> feed_interval(effective), next |-> 0]
             /\ clock' = actual * TicksPerSecond
  /\ Quiet /\ UNCHANGED <<points, todo, gone, failures, sysrq, outcome>>

(* feed_if_due: the next feed is counted from now, whether or not this one *)
(* reaches the device.                                                     *)
feed_if_due ==
  /\ Alive /\ phase \in {"loop", "stopping"} /\ wd.armed /\ wd.next <= 0
  /\ wd' = [wd EXCEPT !.next = wd.interval]
  /\ \/ clock' = wd.timeout * TicksPerSecond /\ UNCHANGED failures
     \/ failures < Feeds /\ failures' = failures + 1 /\ UNCHANGED clock
  /\ Quiet /\ UNCHANGED <<phase, points, todo, gone, sysrq, outcome>>

(* Time.  The loop sleeps until the next feed at most; the tail of the     *)
(* shutdown, and a process that hangs, do not look at the clock.           *)
Tick ==
  /\ outcome = "running" /\ wd.armed
  /\ Alive /\ phase \in {"loop", "stopping"} => wd.next > -Late
  /\ clock' = clock - 1
  /\ wd' = [wd EXCEPT !.next = IF hung \/ phase \notin {"loop", "stopping"} THEN 0 ELSE @ - 1]
  /\ outcome' = IF clock = 1 THEN "reset" ELSE "running"
  /\ Quiet /\ UNCHANGED <<phase, points, todo, gone, failures, sysrq>>
Hang ==
  /\ Alive /\ wd.armed /\ phase # "paused"
  /\ hung' = TRUE
  /\ UNCHANGED <<phase, points, todo, inUse, stuck, gone, wd, clock, failures, sysrq, kernel, outcome>>

-------------------------------------------------------------------------------
(* The shutdown.                                                           *)

Request ==
  /\ Alive /\ phase = "loop" /\ phase' = "stopping"
  /\ Quiet /\ UNCHANGED <<points, todo, gone, wd, clock, failures, sysrq, outcome>>
StopDone ==
  /\ Alive /\ phase = "stopping" /\ phase' = "shutdown"
  /\ Quiet /\ UNCHANGED <<points, todo, gone, wd, clock, failures, sysrq, outcome>>

(* shutdown_now: the trigger is opened while /proc is there.               *)
unmount_order(mounts) == Reverse(mounts)
OpenTrigger ==
  /\ Alive /\ phase = "shutdown"
  /\ sysrq' = (Contains(points, "/proc") /\ kernel.sysrq)
  /\ todo' = IF Contains(points, "/proc") THEN unmount_order(points) ELSE <<>>
  /\ phase' = "unmount"
  /\ Quiet /\ UNCHANGED <<points, gone, wd, clock, failures, outcome>>

(* unmount_filesystems_with: plain, then lazily, then left alone.          *)
Topmost(mounts, p) == CHOOSE i \in DOMAIN mounts : mounts[i] = p /\ ~Contains(SubSeq(mounts, i + 1, Len(mounts)), p)
Busy(p) == p \in inUse \/ \E q \in ToSet(points) : Below(q) = p
unmount_filesystems ==
  /\ Alive /\ phase = "unmount" /\ todo # <<>>
  /\ LET p == Head(todo)
     IN /\ points' = IF Busy(p) /\ p \in stuck THEN points ELSE RemoveAt(points, Topmost(points, p))
        /\ gone' = IF Busy(p) /\ p \notin stuck THEN gone \cup {p} ELSE gone
  /\ todo' = Tail(todo)
  /\ Quiet /\ UNCHANGED <<phase, wd, clock, failures, sysrq, outcome>>

(* sync, then reboot(2) with the watchdog still armed.  A trigger that is  *)
(* not held is opened now, if /proc is still there.                        *)
sync ==
  /\ Alive /\ phase = "unmount" /\ todo = <<>> /\ phase' = "reboot"
  /\ Quiet /\ UNCHANGED <<points, todo, gone, wd, clock, failures, sysrq, outcome>>
shutdown_now ==
  /\ Alive /\ phase = "reboot"
  /\ IF kernel.reboot THEN outcome' = "reboot" /\ UNCHANGED phase
     ELSE IF sysrq \/ (kernel.sysrq /\ Contains(points, "/proc"))
     THEN outcome' = "sysrq" /\ UNCHANGED phase
     ELSE phase' = "paused" /\ UNCHANGED outcome
  /\ Quiet /\ UNCHANGED <<points, todo, gone, wd, clock, failures, sysrq>>

PowerWork ==
  \/ first_wave_mounts \/ report_fstab \/ prepare \/ SetupFails
  \/ feed_if_due \/ StopDone
  \/ OpenTrigger \/ unmount_filesystems \/ sync \/ shutdown_now
PowerNext == PowerWork \/ Tick \/ Hang \/ Request
PowerSpec == PowerInit /\ [][PowerNext]_powerVars

-------------------------------------------------------------------------------

(* The hardware never resets a machine whose loop iterates and whose feeds *)
(* reach the device, whatever timeout the driver settled on; only a driver *)
(* that will not name its timeout is left out.                             *)
HealthyIsFed ==
  outcome = "reset" /\ wd.known /\ failures = 0 =>
    hung \/ phase \notin {"loop", "stopping"}

(* PID 1 ends in the last pause only if nothing could help: reboot(2) was  *)
(* refused and, on a machine that came up with a watchdog and so with      *)
(* /proc, the trigger was refused too, though /proc is unmounted by then.  *)
LastResort ==
  phase = "paused" => ~kernel.reboot /\ (wd.timeout > 0 => ~kernel.sysrq)

(* A filesystem is detached lazily only because it is in use, or because   *)
(* what is mounted on it would not go: never because of the order.         *)
LazyOnlyIfUsed == \A p \in gone : p \in inUse \/ \E q \in stuck \cap inUse : Below(q) = p

(* A watchdog that was armed is never given up: a PID 1 that hangs, or is  *)
(* stuck in the pause after a refused reboot, is reset by the hardware.    *)
HungIsReset == wd.timeout > 0 /\ (hung \/ phase = "paused") ~> outcome # "running"

(* What the comment of feed_interval says: "half the timeout, so a single  *)
(* missed feed is not already a reset".                                    *)
SingleMissIsNoReset ==
  outcome = "reset" /\ wd.known /\ ~hung /\ phase \in {"loop", "stopping"} => failures > 1

(* From power-on to power-off: a healthy machine is never reset, a         *)
(* shutdown is not stuck while something could still end it, and no        *)
(* filesystem is detached with its data unwritten because of the order     *)
(* (feed_if_due, shutdown_now, unmount_order).                             *)
PowerIsSafe ==
  /\ HealthyIsFed
  /\ LastResort
  /\ LazyOnlyIfUsed
=============================================================================
