-------------------------------- MODULE MCBoot --------------------------------
(***************************************************************************)
(* Boots and shutdowns of two services and the target that requires them.  *)
(***************************************************************************)
EXTENDS Boot

CONSTANTS a, b, t

Plain ==
  [ kind |-> "Simple", policy |-> "No", requires |-> {}, wants |-> {}, conflicts |-> {},
    socket |-> FALSE, pre |-> FALSE, post |-> FALSE, forked |-> FALSE,
    start_timeout |-> TRUE, exec_stop |-> FALSE, at_once |-> FALSE,
    health |-> FALSE, health_restart |-> FALSE, cgroup |-> FALSE ]

Schedule == <<<<a>>, <<b>>, <<t>>>>
Flat == <<a, b, t>>

Directory(first, second) ==
  a :> first @@ b :> [second EXCEPT !.requires = {a}] @@ t :> [Plain EXCEPT !.requires = {b}]

Oneshot == [Plain EXCEPT !.kind = "Oneshot"]
Notify == [Plain EXCEPT !.kind = "Notify"]
Restarting == [Plain EXCEPT !.policy = "OnFailure"]
Forking == [Plain EXCEPT !.kind = "Forking", !.forked = TRUE, !.cgroup = TRUE]
Boots == {Directory(Oneshot, Restarting), Directory(Notify, [Plain EXCEPT !.pre = TRUE]),
          Directory([Plain EXCEPT !.at_once = TRUE], Forking),
          Directory([Notify EXCEPT !.policy = "OnFailure"], Plain)}

(* The directory of the finding. *)
StopCommand == {Directory([Plain EXCEPT !.exec_stop = TRUE], Plain)}
===============================================================================
