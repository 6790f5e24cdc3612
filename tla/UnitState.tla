------------------------------ MODULE UnitState ------------------------------
(***************************************************************************)
(* The states of a unit, how a process can end, what `Restart=` asks for,  *)
(* and the transition table: crates/rinit-core/src/unit/state/.            *)
(***************************************************************************)
EXTENDS Naturals, Sequences

Failed == {"StartFailure", "StartLimitHit"}   \* UnitState::Failed(reason)
Satisfied == {"Active", "ActiveExited"}       \* is_satisfied
States == {"Inactive", "Starting", "Deactivating", "RestartWait"}
            \cup Satisfied \cup Failed

Outcomes == {"Success", "Failure", "Signalled"}
Policies == {"No", "Always", "OnSuccess", "OnFailure", "OnAbnormal"}
Kinds == {"Simple", "Oneshot", "Notify", "Forking"}

(* RestartPolicy::wants_restart *)
WantsRestart(policy, outcome) ==
  \/ policy = "Always"
  \/ policy = "OnSuccess" /\ outcome = "Success"
  \/ policy = "OnFailure" /\ outcome # "Success"
  \/ policy = "OnAbnormal" /\ outcome = "Signalled"

(* The result of an event the table rejects. *)
NotAllowed == "NotAllowed"

(***************************************************************************)
(* The table.  An event is a string, Exit(outcome) the outcome itself; the *)
(* cell of a state and an event is the state after it and what the caller  *)
(* has to do.  A cell that is not given is not allowed.                    *)
(***************************************************************************)
TableEvents ==
  {"Start", "StartUpComplete", "StartUpFailed", "Stop", "StopComplete", "BackoffElapsed",
   "StartLimitTripped", "ResetFailed"} \cup Outcomes

Cell(to, effect) == [to |-> to, effect |-> effect]

StartCell(state) ==
  CASE state = "Inactive" -> Cell("Starting", "SpawnProcess")
    [] state \in Satisfied \cup {"Starting"} -> Cell(state, "None")
    [] state = "RestartWait" -> Cell("Starting", "CancelBackoffAndStart")
    [] state \in Failed -> Cell("Starting", "ClearStartLimitAndStart")
    [] OTHER -> Cell(NotAllowed, "None")

StopCell(state) ==
  CASE state \in Failed \cup {"Inactive", "ActiveExited"} -> Cell("Inactive", "None")
    [] state \in {"Active", "Starting"} -> Cell("Deactivating", "SendStopSignal")
    [] state = "RestartWait" -> Cell("Deactivating", "CancelBackoffAndStop")
    [] OTHER -> Cell(NotAllowed, "None")

transition(state, event, policy, kind) ==
  CASE event = "Start" -> StartCell(state)
    [] event = "Stop" -> StopCell(state)
    [] event = "StartUpComplete" /\ state = "Starting" ->
         Cell(IF kind = "Oneshot" THEN "ActiveExited" ELSE "Active", "None")
    [] event = "StartUpFailed" /\ state = "Starting" -> Cell("StartFailure", "None")
    [] event \in Outcomes /\ state = "Active" ->
         IF WantsRestart(policy, event) THEN Cell("RestartWait", "ScheduleBackoff")
         ELSE Cell(IF event = "Success" THEN "Inactive" ELSE "StartFailure", "None")
    [] event = "StopComplete" /\ state = "Deactivating" -> Cell("Inactive", "None")
    [] event = "BackoffElapsed" /\ state = "RestartWait" -> Cell("Starting", "SpawnProcess")
    [] event = "StartLimitTripped" /\ state = "RestartWait" -> Cell("StartLimitHit", "None")
    [] event = "ResetFailed" /\ state \in Failed -> Cell("Inactive", "None")
    [] OTHER -> Cell(NotAllowed, "None")

(* A sequence of events, up to the first the table rejects. *)
drive(state, events, policy, kind) ==
  LET after[i \in 0 .. Len(events)] ==
        IF i = 0 THEN state
        ELSE IF after[i - 1] = NotAllowed THEN NotAllowed
        ELSE transition(after[i - 1], events[i], policy, kind).to
  IN after[Len(events)]

(***************************************************************************)
(* The rows the manager drives: the end of a start-up, and the end of a    *)
(* running process.                                                        *)
(***************************************************************************)
StartUpComplete(state, kind) == transition(state, "StartUpComplete", "No", kind).to

StartUpFailed(state) == transition(state, "StartUpFailed", "No", "Simple").to

Exit(state, policy, outcome) == transition(state, outcome, policy, "Simple").to

-----
(***************************************************************************)
(* The rules of the job queue, crates/rinit-core/src/unit/job.rs: which    *)
(* request holds a unit's target, and what a target means for a unit in a  *)
(* given state.                                                            *)
(***************************************************************************)

Sources == {"Dependency", "UserStart", "UserStop", "ShutdownStop"}
Targets == {"Started", "Stopped"}

(* A definition whose name ends in _bug is a plausible defect of the one   *)
(* that follows it; the runs must notice the difference.                   *)

(* RequestSource is ordered by who wins a conflict. *)
Rank(source) ==
  IF source = "Dependency" THEN 0 ELSE IF source = "UserStart" THEN 1
  ELSE IF source = "UserStop" THEN 2 ELSE 3

(* The comparison of `submit` and of `Job::supersedes`: the source first,  *)
(* and the later request within one source.                                *)
Supersedes_bug(new, old) ==
  Rank(new.source) > Rank(old.source) \/ new.at > old.at
Supersedes(new, old) ==
  \/ Rank(new.source) > Rank(old.source)
  \/ new.source = old.source /\ new.at > old.at

(* The action a target implies for a unit in a state.  "Wait" is the code's *)
(* absent effect: a stop in progress must finish first.                     *)
Reconcile(target, state) ==
  CASE state = "Deactivating" -> "Wait"
    [] target = "Started" /\ state \in Satisfied \cup {"Starting"} -> "None"
    [] target = "Started" /\ state = "Inactive" -> "SpawnProcess"
    [] target = "Started" /\ state = "RestartWait" -> "CancelBackoffAndStart"
    [] target = "Started" /\ state \in Failed -> "ClearStartLimitAndStart"
    [] target = "Stopped" /\ state \in Failed \cup {"Inactive", "ActiveExited"} -> "None"
    [] target = "Stopped" /\ state \in {"Active", "Starting"} -> "SendStopSignal"
    [] target = "Stopped" /\ state = "RestartWait" -> "CancelBackoffAndStop"
=====
