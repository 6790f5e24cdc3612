----------------------------- MODULE MCSupervisor -----------------------------
(***************************************************************************)
(* Unit files for the supervisor's runs.  Every configuration is one the   *)
(* parser accepts: a oneshot has no Restart=.                              *)
(***************************************************************************)
EXTENDS Supervisor

CONSTANTS a, b

Plain ==
  [ kind |-> "Simple", policy |-> "Always", requires |-> {}, wants |-> {}, conflicts |-> {},
    socket |-> FALSE, pre |-> FALSE, post |-> FALSE, forked |-> FALSE,
    start_timeout |-> TRUE, exec_stop |-> FALSE, at_once |-> FALSE,
    health |-> FALSE, health_restart |-> FALSE, cgroup |-> FALSE ]

All(config) == [u \in Units |-> config]

(* The units in the order of the levels: a comes before b. *)
Levels == SelectSeq(<<a, b>>, LAMBDA u : u \in Units)

(* One service with everything a running service can have. *)
Checked == All([Plain EXCEPT !.kind = "Notify", !.exec_stop = TRUE,
                             !.health = TRUE, !.health_restart = TRUE])

(* One service killed at once when it is stopped, healthy or not. *)
AtOnce == All([Plain EXCEPT !.policy = "OnFailure", !.at_once = TRUE, !.exec_stop = TRUE,
                            !.health = TRUE, !.health_restart = TRUE])

(* One daemon with every stage of a start. *)
Staged == All([Plain EXCEPT !.kind = "Forking", !.policy = "OnAbnormal", !.socket = TRUE,
                            !.pre = TRUE, !.post = TRUE, !.cgroup = TRUE])

(* A service started by fork and exec. *)
Forked == [Plain EXCEPT !.forked = TRUE, !.policy = "OnFailure"]

(* A oneshot, and a service that requires or wants it. *)
Oneshot == [Plain EXCEPT !.kind = "Oneshot", !.policy = "No"]
Required == a :> Oneshot @@ b :> [Plain EXCEPT !.requires = {a}, !.policy = "OnSuccess"]
Wanted == a :> Oneshot @@ b :> [Plain EXCEPT !.wants = {a}, !.policy = "OnSuccess"]

(* A service that may fail while one that requires it prepares to start. *)
Leaning == a :> [Plain EXCEPT !.policy = "No"] @@ b :> [Plain EXCEPT !.requires = {a}, !.pre = TRUE]

(* Two services that exclude each other; one of them may have a command to *)
(* run first.                                                              *)
Exclusive == a :> [Plain EXCEPT !.conflicts = {b}] @@ b :> [Forked EXCEPT !.conflicts = {a}]
Prepared == [Exclusive EXCEPT ![b].pre = TRUE]

(* A oneshot, and a service with a stop command that requires it. *)
Stoppable == a :> Oneshot @@ b :> [Plain EXCEPT !.exec_stop = TRUE, !.requires = {a}]

(* The unit files of the runs that pass. *)
Services == {Checked, AtOnce, Staged, All(Plain)}
Pairs == {Required, Wanted, Leaning, Exclusive, Prepared}
Ending == {Stoppable}

(* The unit files of the findings. *)
PlainFile == {All(Plain)}
HealthFile == {All([Plain EXCEPT !.health = TRUE, !.health_restart = TRUE])}
PostFile == {All([Plain EXCEPT !.post = TRUE])}
NotifyFile == {All([Plain EXCEPT !.kind = "Notify"])}
ForkedFile == {All(Forked)}
PreparedFile == {Prepared}
===============================================================================
