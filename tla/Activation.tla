------------------------------ MODULE Activation ------------------------------
(***************************************************************************)
(* One socket-activated unit: the listening socket, the watcher task of    *)
(* crates/rinit/src/activation.rs, and the parts of the supervisor loop    *)
(* (crates/rinit/src/boot.rs) that start the unit for a connection and     *)
(* stop it when it is idle.                                                *)
(*                                                                         *)
(* The watcher and the loop share a channel of reports and a channel that  *)
(* holds at most one permit.  Readiness is what tokio's AsyncFd makes of   *)
(* it: set by an arriving connection, and cleared by the watcher whether   *)
(* or not the connection has been accepted.  What a start or a stop does   *)
(* to the unit is reduced to its states; Supervisor has the whole of it.   *)
(* "Failed" also stands for a failed unit among those it requires.         *)
(***************************************************************************)
EXTENDS Naturals

CONSTANTS
  Reports,       \* bound on the reports the loop has not taken yet
  Backlog,       \* bound on the connections nobody has accepted
  Refresh,       \* SOCKET_IDLE_REFRESH, in ticks
  Cooldown,      \* SOCKET_ACTIVATION_COOLDOWN, in ticks
  IdleTimeout,   \* IdleTimeoutSec=, in ticks
  Restarts,      \* how often the unit is restarted before its start limit
  Operator       \* bound on the requests of rctl about the unit

ASSUME ActivationAssumption ==
  /\ {Reports, Backlog, Refresh, Cooldown, IdleTimeout} \subseteq Nat \ {0}
  /\ Refresh < Cooldown /\ Cooldown <= IdleTimeout
  /\ {Restarts, Operator} \subseteq Nat

VARIABLES
  s,         \* what the loop knows of the unit
  backlog,   \* connections in the listener's queue
  ready,     \* the reactor's readiness of the listener
  watcher,   \* what the watcher waits for
  permit,    \* whether the permit channel is full
  reports,   \* reports in the channel to the loop
  asked,     \* requests of rctl so far
  ran,       \* whether the loop has run since the last tick
  quiet      \* ticks since the last connection arrived

vars == <<s, backlog, ready, watcher, permit, reports, asked, ran, quiet>>

NoIdle == IdleTimeout + 1
Never == Cooldown + 1
(* Activated::bind leaves one permit in the channel. *)
Init ==
  /\ s = [booting |-> TRUE, state |-> "Inactive", proc |-> "none", work |-> "none",
          pending |-> FALSE, age |-> Never, idle |-> NoIdle, left |-> Restarts]
  /\ backlog = 0 /\ ready = FALSE /\ watcher = "permit" /\ permit = TRUE
  /\ reports = 0 /\ asked = 0 /\ ran = FALSE /\ quiet = 0

-------------------------------------------------------------------------------
(* The world. *)

Connect ==
  /\ backlog < Backlog
  /\ backlog' = backlog + 1 /\ ready' = TRUE /\ quiet' = 0
  /\ UNCHANGED <<s, watcher, permit, reports, asked, ran>>

(* The service has the listener, and accepts. *)
Accept ==
  /\ s.proc = "alive" /\ s.state = "Active" /\ backlog > 0
  /\ backlog' = backlog - 1
  /\ UNCHANGED <<s, ready, watcher, permit, reports, asked, ran, quiet>>

Exit ==
  /\ s.proc = "alive"
  /\ s' = [s EXCEPT !.proc = "dead"]
  /\ UNCHANGED <<backlog, ready, watcher, permit, reports, asked, ran, quiet>>

-------------------------------------------------------------------------------
(* The watcher. *)

take_permit ==
  /\ watcher = "permit" /\ permit
  /\ watcher' = "readable" /\ permit' = FALSE
  /\ UNCHANGED <<s, backlog, ready, reports, asked, ran, quiet>>

(* readable(), the report, and clear_ready(). *)
report ==
  /\ watcher = "readable" /\ ready /\ reports < Reports
  /\ watcher' = "permit" /\ ready' = FALSE /\ reports' = reports + 1
  /\ UNCHANGED <<s, backlog, permit, asked, ran, quiet>>

-------------------------------------------------------------------------------
(* The loop. *)

(* A mistake: a clock that runs is not set back. *)
note_connection_bug(u) == [u EXCEPT !.idle = IF @ = NoIdle THEN IdleTimeout ELSE @]
note_connection(u) == [u EXCEPT !.idle = IdleTimeout]

(* A process that has exited and is not reaped yet still runs, to the loop. *)
is_running(u) == u.proc # "none"

try_start_socket(u) ==
  LET noted == note_connection(u)
  IN IF is_running(u) THEN [noted EXCEPT !.age = 0]
     ELSE IF u.work = "flow" \/ u.state = "Failed" \/ u.age < Cooldown THEN noted
     ELSE [noted EXCEPT !.work = "job", !.age = 0]

(* The arm of select! that takes a report. *)
on_report(u) == IF u.booting THEN [u EXCEPT !.pending = TRUE] ELSE try_start_socket(u)

(* request_stop and its effect; a start flow is cancelled first. *)
request_stop(u) ==
  [u EXCEPT !.work = IF @ = "flow" THEN "none" ELSE @,
            !.state = CASE @ \in {"Starting", "Active"} /\ is_running(u) -> "Deactivating"
                        [] @ = "Deactivating" -> "Deactivating"
                        [] OTHER -> "Inactive"]

(* What rctl may ask for; changes wait for the end of the boot. *)
on_control(u, request) ==
  CASE request = "start" /\ ~is_running(u) /\ u.work = "none" ->
         [u EXCEPT !.work = "job"]
    [] request = "stop" -> request_stop(u)
    [] request = "reset-failed" /\ u.state = "Failed" -> [u EXCEPT !.state = "Inactive"]
    [] OTHER -> u

(* An exit that was not asked for is the end of the unit, a restart within *)
(* the start limit, or a failure.                                          *)
outcomes(u) ==
  IF u.proc # "dead" THEN {u.state}
  ELSE IF u.state = "Deactivating" THEN {"Inactive"}
  ELSE {"Failed"} \cup (IF u.left > 0 THEN {"RestartWait"} ELSE {})
                  \cup (IF u.state = "Active" THEN {"Inactive"} ELSE {})
reap(u, outcome) ==
  IF u.proc # "dead" THEN u
  ELSE [u EXCEPT !.proc = "none", !.work = IF u.state = "Starting" THEN "none" ELSE @,
                 !.left = IF outcome = "RestartWait" THEN @ - 1 ELSE @, !.state = outcome]

(* A start makes a step: the job makes the flow once what it requires is   *)
(* up, the flow spawns the service, which becomes ready; or it fails.      *)
advance(u, step) ==
  CASE step = "stay" \/ u.work = "none" -> u
    [] step = "fail" /\ u.work # "none" ->
         [u EXCEPT !.work = "none", !.state = IF is_running(u) THEN "Deactivating" ELSE "Failed"]
    [] step = "go" /\ u.work = "job" -> [u EXCEPT !.work = IF is_running(u) THEN "none" ELSE "flow"]
    [] step = "go" /\ u.work = "flow" ->
         IF ~is_running(u)
         THEN [u EXCEPT !.proc = "alive", !.state = "Starting", !.idle = IdleTimeout]
         ELSE [u EXCEPT !.state = "Active", !.work = "none"]

(* sync_socket_activation. *)
(* A mistake: what was activated once gets no further permit. *)
rearms_bug(u) == ~u.booting /\ u.work # "flow" /\ u.state = "Inactive" /\ u.age = Never
rearms(u) ==
  /\ ~u.booting /\ ~u.pending /\ u.work # "flow"
  /\ IF is_running(u) THEN u.age >= Refresh
     ELSE /\ u.state \notin {"Starting", "RestartWait", "Deactivating", "Failed"}
          /\ u.age >= Cooldown

due_restart(u) ==
  IF u.state = "RestartWait" /\ u.work = "none" THEN [u EXCEPT !.work = "flow"] ELSE u

due_idle_units(u) ==
  IF u.idle = 0 THEN request_stop([u EXCEPT !.idle = NoIdle]) ELSE u

wakes(u) ==
  IF ~u.booting /\ u.pending THEN try_start_socket([u EXCEPT !.pending = FALSE]) ELSE u

(* One turn: an event, and the top of the loop.  The exit of a process, a  *)
(* step of the start, the end of the boot and a due restart are chosen.    *)
Turn(event, step, over) ==
  /\ event = "report" => reports > 0
  /\ ~over => s.booting \/ s.state = "RestartWait" \/ s.proc = "dead"
  /\ LET handled == CASE event = "report" -> on_report(s)
                       [] event \in {"start", "stop", "reset-failed"} /\ ~s.booting ->
                            on_control(s, event)
                       [] OTHER -> s
     IN /\ step # "go" => handled.work # "none"
        /\ \E outcome \in outcomes(handled) :
             LET started == advance(reap(handled, outcome), step)
                 woken == wakes([started EXCEPT !.booting = @ /\ ~over])
                 restarted == IF over THEN due_restart(woken) ELSE woken
             IN /\ s' = due_idle_units(restarted)
                /\ permit' = (permit \/ rearms(woken))
  /\ reports' = IF event = "report" THEN reports - 1 ELSE reports
  /\ ran' = TRUE
  /\ UNCHANGED <<backlog, ready, watcher, quiet>>

(* A report, a request of rctl, or only a wake-up. *)
loop == \E step \in {"stay", "go", "fail"}, over \in BOOLEAN :
          \/ \E event \in {"wake", "report"} : Turn(event, step, over) /\ UNCHANGED asked
          \/ \E event \in {"start", "stop", "reset-failed"} :
               asked < Operator /\ Turn(event, step, over) /\ asked' = asked + 1

(* The watcher and the loop are quick against a tick: the loop sleeps no   *)
(* longer than Refresh while an idle clock runs.                           *)
Tick ==
  /\ ran /\ reports = 0
  /\ ~(watcher = "permit" /\ permit) /\ ~(watcher = "readable" /\ ready)
  /\ s' = [s EXCEPT !.age = IF @ < Cooldown THEN @ + 1 ELSE @,
                    !.idle = IF @ = NoIdle THEN @ ELSE @ - 1]
  /\ s.idle > 0
  /\ ran' = FALSE
  /\ quiet' = IF quiet < IdleTimeout THEN quiet + 1 ELSE quiet
  /\ UNCHANGED <<backlog, ready, watcher, permit, reports, asked>>

Next == Connect \/ Accept \/ Exit \/ take_permit \/ report \/ loop \/ Tick

Spec == Init /\ [][Next]_vars

(* The tasks run when they can and every ready arm of select! is taken in  *)
(* the end; a start, a stop, a boot and a restart delay come to an end,    *)
(* and time passes.                                                        *)
Obligations == 1 .. 7
Obligation(k) ==
  CASE k = 1 -> take_permit
    [] k = 2 -> report
    [] k = 3 -> Tick
    [] k = 4 -> \E step \in {"go", "fail"} : Turn("report", step, TRUE) /\ UNCHANGED asked
    [] k = 5 -> \E step \in {"go", "fail"} : Turn("wake", step, TRUE) /\ UNCHANGED asked
    [] k = 6 -> Exit /\ s.state = "Deactivating"
    [] k = 7 -> Accept
Fairness == \A k \in Obligations : WF_vars(Obligation(k))
FairSpec == Spec /\ Fairness

-------------------------------------------------------------------------------

(* No connection is overlooked: one the reactor has announced is reported, *)
(* unless the unit fails, through boot, cool-down, stop and restart.       *)
NotDeaf == ready ~> (~ready \/ s.state = "Failed")

(* A connection that came while the system was booting starts its unit     *)
(* once the boot is over.                                                  *)
WakeIsHonoured ==
  s.booting /\ reports > 0 ~> (s.work # "none" \/ s.proc # "none" \/ s.state = "Failed")

(* A service is stopped for being idle only if nobody has connected for    *)
(* the time its unit gives, but for those that came within one refresh.    *)
IdleMeansQuiet ==
  [][s.idle = 0 /\ s'.idle = NoIdle /\ s.state = "Active" /\ s'.state = "Deactivating"
       => quiet >= IdleTimeout \/ quiet < Refresh]_vars

(* "a failed unit must not be retried by the socket (only an explicit      *)
(* start/reset does that)", says sync_socket_activation.  Without anybody  *)
(* who uses rctl, a failed unit stays failed.                              *)
FailedIsNotRetried == [][s.state = "Failed" => s'.state = "Failed"]_vars

(* "a connection is what starts the service", says docs/units.md: one that *)
(* waits is accepted, or its unit has failed.                              *)
ConnectionIsServed == backlog > 0 ~> (backlog = 0 \/ s.state = "Failed")
===============================================================================
