------------------------------- MODULE MCDaemon -------------------------------
(***************************************************************************)
(* Three machines that share nothing: the control server, the signal pipe  *)
(* and the machine's power.  A behaviour is one of one of them.            *)
(***************************************************************************)
EXTENDS ControlServer, SignalPipe, Power

VARIABLE machine

(* Every uid, and every kind of request that is handled in its own way.    *)
Requests ==
  {<<"root", r>> : r \in {"start", "status", "reboot", "version"}}
    \cup {<<"owner", "start">>, <<"other", "start">>}

DaemonInit ==
  /\ machine \in {"control", "signals", "power"}
  /\ ControlInit /\ SignalInit /\ PowerInit
  /\ machine # "control" => dev
  /\ machine # "power" => inUse \cup stuck = {} /\ kernel.reboot /\ kernel.sysrq
DaemonNext ==
  /\ \/ machine = "control" /\ ControlNext /\ UNCHANGED <<signalVars, powerVars>>
     \/ machine = "signals" /\ SignalNext /\ UNCHANGED <<controlVars, powerVars>>
     \/ machine = "power" /\ PowerNext /\ UNCHANGED <<controlVars, signalVars>>
  /\ UNCHANGED machine
daemonVars == <<machine, controlVars, signalVars, powerVars>>

(* A task of the reactor that can run does, and so does the loop; a signal *)
(* is delivered and its handler returns; the hardware's clock runs.        *)
ControlTurn(A) == machine = "control" /\ A /\ UNCHANGED <<machine, signalVars, powerVars>>
SignalTurn(A) == machine = "signals" /\ A /\ UNCHANGED <<machine, controlVars, powerVars>>
DaemonFairness ==
  /\ \A c \in Clients : WF_daemonVars(ControlTurn(ControlStep(c)))
  /\ WF_daemonVars(ControlTurn(supervise))
  /\ WF_daemonVars(ControlTurn(disarm \/ Down))
  /\ \A t \in Threads : WF_daemonVars(SignalTurn(dispatch(t)))
  /\ \A signal \in Signals : WF_daemonVars(SignalTurn(\E t \in Threads : Deliver(t, signal)))
  /\ WF_daemonVars(SignalTurn(read_pipe \/ recv_signal))
  /\ WF_daemonVars(SignalTurn(Housekeep))
  /\ WF_daemonVars(machine = "power" /\ Tick /\ UNCHANGED <<machine, controlVars, signalVars>>)
FairDaemon == DaemonInit /\ [][DaemonNext]_daemonVars /\ DaemonFairness

(* Nobody waits on PID 1 for ever: a request is answered or its connection *)
(* closed, dead children are reaped, a shutdown signal in the pipe ends    *)
(* the loop, and a hung PID 1 is reset by an armed watchdog.               *)
DaemonResponds ==
  /\ RequestIsAnswered
  /\ ChildrenAreReaped
  /\ TermIsHeard
  /\ HungIsReset
===============================================================================
