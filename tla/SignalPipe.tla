----------------------------- MODULE SignalPipe -----------------------------
(***************************************************************************)
(* The self-pipe of rinit-runtime/src/signals.rs and the loop that reads   *)
(* it.  The kernel keeps one pending instance of a signal; a handler runs  *)
(* on whichever thread takes it, in steps another thread can cut into: it  *)
(* is called, counts itself and loads the descriptor, writes a byte, and   *)
(* uncounts itself.  SignalSet::drop must not close the pipe under it.     *)
(***************************************************************************)
EXTENDS Integers, Sequences, SequencesExt, FiniteSets

CONSTANTS
  Threads,       \* where a handler can run
  PipeSize,      \* bytes the pipe holds
  ReadSize,      \* bytes one read takes
  Children,      \* children that can be dead at a time
  Sets           \* SignalSets made, one after the other

VARIABLES
  raised,        \* signals the kernel has not delivered yet
  handler,       \* the handler on each thread
  installed,     \* whether `dispatch` is the disposition of the signals
  WRITE_FD,      \* the pipe handlers write to; NoFd is -1
  open,          \* the pipes whose descriptors are not closed
  abandoned,     \* the pipes whose set was never returned by `new`
  gaveUp,        \* the pipes closed by a drop that gave up its wait for a handler
  pipe,          \* the bytes in the newest pipe
  pending,       \* SignalSet::pending
  set,           \* "none", "building", "live", "restored" or "cleared"
  made,          \* the sets made so far
  dead,          \* children that have exited and are not reaped
  ended          \* a shutdown signal ended the loop

signalVars == <<raised, handler, installed, WRITE_FD, open, abandoned, gaveUp, pipe,
                pending, set, made, dead, ended>>

Signals == {"child", "term"}        \* int and pwr end the loop as term does
NoFd == 0
Idle == [at |-> "idle", signal |-> "child", fd |-> NoFd]

ASSUME SignalAssumption ==
  /\ {PipeSize, ReadSize, Children, Sets} \subseteq Nat \ {0}
  /\ IsFiniteSet(Threads)

SignalInit ==
  /\ raised = {} /\ handler = [t \in Threads |-> Idle] /\ installed = FALSE
  /\ WRITE_FD = NoFd /\ open = {} /\ abandoned = {} /\ gaveUp = {} /\ pipe = <<>>
  /\ pending = <<>> /\ set = "none" /\ made = 0 /\ dead = 0 /\ ended = FALSE

\* A handler counts itself before it loads the descriptor; counting it after is the mistake.
ACTIVE_HANDLERS_bug == Cardinality({t \in Threads : handler[t].at = "written"})
ACTIVE_HANDLERS == Cardinality({t \in Threads : handler[t].at \in {"loaded", "written"}})

-------------------------------------------------------------------------------
(* The kernel: a child exits, or someone asks for a shutdown.              *)

Exit ==
  /\ dead < Children /\ set = "live" /\ ~ended
  /\ dead' = dead + 1
  /\ raised' = raised \cup {"child"}
  /\ UNCHANGED <<handler, installed, WRITE_FD, open, abandoned, gaveUp, pipe, pending, set, made, ended>>
\* An orphan that is dead already comes to PID 1 without a signal.
Adopt ==
  /\ dead < Children /\ set = "live" /\ ~ended
  /\ dead' = dead + 1
  /\ UNCHANGED <<raised, handler, installed, WRITE_FD, open, abandoned, gaveUp, pipe, pending, set, made, ended>>
Terminate ==
  /\ installed /\ ~ended
  /\ raised' = raised \cup {"term"}
  /\ UNCHANGED <<handler, installed, WRITE_FD, open, abandoned, gaveUp, pipe, pending, set, made, dead, ended>>

-------------------------------------------------------------------------------
(* dispatch.                                                               *)

Deliver(t, signal) ==
  /\ installed /\ signal \in raised /\ handler[t].at = "idle"
  /\ raised' = raised \ {signal}
  /\ handler' = [handler EXCEPT ![t] = [at |-> "called", signal |-> signal, fd |-> NoFd]]
  /\ UNCHANGED <<installed, WRITE_FD, open, abandoned, gaveUp, pipe, pending, set, made, dead, ended>>
Load(t) ==
  /\ handler[t].at = "called"
  /\ handler' = [handler EXCEPT ![t].at = "loaded", ![t].fd = WRITE_FD]
  /\ UNCHANGED <<raised, installed, WRITE_FD, open, abandoned, gaveUp, pipe, pending, set, made, dead, ended>>

\* A full pipe drops the byte; a descriptor that is not this pipe's any more gets it too.
WriteByte(t) ==
  /\ handler[t].at = "loaded"
  /\ handler' = [handler EXCEPT ![t].at = "written"]
  /\ pipe' = IF handler[t].fd = made /\ made \in open /\ Len(pipe) < PipeSize
             THEN Append(pipe, handler[t].signal) ELSE pipe
  /\ UNCHANGED <<raised, installed, WRITE_FD, open, abandoned, gaveUp, pending, set, made, dead, ended>>
Leave(t) ==
  /\ handler[t].at = "written"
  /\ handler' = [handler EXCEPT ![t] = Idle]
  /\ UNCHANGED <<raised, installed, WRITE_FD, open, abandoned, gaveUp, pipe, pending, set, made, dead, ended>>

-------------------------------------------------------------------------------
(* SignalSet::new: the pipe, its write end published, then the handlers.   *)
(* A handler that cannot be installed, or a pipe the reactor refuses, is   *)
(* rolled back: cleared, restored, closed.                                 *)

new ==
  /\ set = "none" /\ made < Sets /\ ~ended
  /\ set' = "building" /\ made' = made + 1
  /\ WRITE_FD' = made + 1 /\ open' = open \cup {made + 1}
  /\ UNCHANGED <<raised, handler, installed, abandoned, gaveUp, pipe, pending, dead, ended>>
install_handler ==
  /\ set = "building" /\ ~installed
  /\ installed' = TRUE
  /\ UNCHANGED <<raised, handler, WRITE_FD, open, abandoned, gaveUp, pipe, pending, set, made, dead, ended>>
\* The set is returned; the first pass of the loop reaps before it waits for a signal.
Register ==
  /\ set = "building" /\ installed
  /\ set' = "live" /\ dead' = 0
  /\ UNCHANGED <<raised, handler, installed, WRITE_FD, open, abandoned, gaveUp, pipe, pending, made, ended>>
RollBack ==
  /\ set = "building"
  /\ set' = "none" /\ installed' = FALSE /\ WRITE_FD' = NoFd
  /\ open' = open \ {made} /\ abandoned' = abandoned \cup {made} /\ pipe' = <<>>
  /\ UNCHANGED <<raised, handler, gaveUp, pending, made, dead, ended>>

(* SignalSet::recv and the arm of the loop that takes its signal.  A pass  *)
(* of the loop, for a signal or after HOUSEKEEPING_POLL, reaps every child *)
(* that is dead.                                                           *)
read_pipe_bug ==
  /\ set = "live" /\ pending = <<>> /\ pipe # <<>> /\ ~ended
  /\ LET n == IF Len(pipe) < ReadSize THEN Len(pipe) ELSE ReadSize
     IN pending' = <<pipe[1]>> /\ pipe' = SubSeq(pipe, n + 1, Len(pipe))
  /\ UNCHANGED <<raised, handler, installed, WRITE_FD, open, abandoned, gaveUp, set, made, dead, ended>>
read_pipe ==
  /\ set = "live" /\ pending = <<>> /\ pipe # <<>> /\ ~ended
  /\ LET n == IF Len(pipe) < ReadSize THEN Len(pipe) ELSE ReadSize
     IN pending' = SubSeq(pipe, 1, n) /\ pipe' = SubSeq(pipe, n + 1, Len(pipe))
  /\ UNCHANGED <<raised, handler, installed, WRITE_FD, open, abandoned, gaveUp, set, made, dead, ended>>
recv_signal ==
  /\ set = "live" /\ pending # <<>> /\ ~ended
  /\ pending' = Tail(pending)
  /\ IF Head(pending) = "child" THEN dead' = 0 /\ UNCHANGED ended
     ELSE ended' = TRUE /\ UNCHANGED dead
  /\ UNCHANGED <<raised, handler, installed, WRITE_FD, open, abandoned, gaveUp, pipe, set, made>>
Housekeep ==
  /\ set = "live" /\ ~ended /\ dead > 0
  /\ dead' = 0
  /\ UNCHANGED <<raised, handler, installed, WRITE_FD, open, abandoned, gaveUp, pipe, pending, set, made, ended>>

(* SignalSet::drop, when the loop has ended or the set goes out of scope:  *)
(* the dispositions, the global, the wait, and the fields.                 *)
drop ==
  /\ set = "live"
  /\ set' = "restored" /\ installed' = FALSE
  /\ UNCHANGED <<raised, handler, WRITE_FD, open, abandoned, gaveUp, pipe, pending, made, dead, ended>>
Clear ==
  /\ set = "restored"
  /\ set' = "cleared" /\ WRITE_FD' = NoFd
  /\ UNCHANGED <<raised, handler, installed, open, abandoned, gaveUp, pipe, pending, made, dead, ended>>
(* The wait is bounded: after 1,000,000 turns the pipe is closed under a   *)
(* handler that is still counted.                                          *)
Close ==
  /\ set = "cleared"
  /\ gaveUp' = IF ACTIVE_HANDLERS = 0 THEN gaveUp ELSE gaveUp \cup {made}
  /\ set' = "none" /\ open' = open \ {made} /\ pipe' = <<>> /\ pending' = <<>>
  /\ UNCHANGED <<raised, handler, installed, WRITE_FD, abandoned, made, dead, ended>>

dispatch(t) == Load(t) \/ WriteByte(t) \/ Leave(t)
SignalNext ==
  \/ Exit \/ Adopt \/ Terminate
  \/ \E t \in Threads : dispatch(t) \/ \E signal \in Signals : Deliver(t, signal)
  \/ new \/ install_handler \/ Register \/ RollBack
  \/ read_pipe \/ recv_signal \/ Housekeep \/ drop \/ Clear \/ Close
SignalSpec == SignalInit /\ [][SignalNext]_signalVars

-------------------------------------------------------------------------------

(* No handler is about to write to a descriptor that was closed, whatever  *)
(* thread it was stopped on while the set was dropped: the number may be   *)
(* another file's by then.  Pipes given up by `new` are not in it, nor     *)
(* those of a drop that counted a handler until it gave up: a handler      *)
(* that loaded a descriptor is never missed by the count.                  *)
NoStrayWrite ==
  \A t \in Threads :
    handler[t].at = "loaded" /\ handler[t].fd # NoFd =>
      handler[t].fd \in open \cup abandoned \cup gaveUp

(* The wait of `drop` is enough: no handler that loaded the descriptor can *)
(* write to the number once it is closed.                                  *)
DropWaits ==
  \A t \in Threads :
    handler[t].at = "loaded" /\ handler[t].fd # NoFd => handler[t].fd \in open \cup abandoned

(* Every dead child is reaped while the loop runs: the kernel folds the    *)
(* exits of several into one signal, a full pipe drops bytes, and of an    *)
(* adopted child no signal is sent.                                        *)
ChildrenAreReaped == dead > 0 ~> dead = 0 \/ ended \/ set # "live"

(* A shutdown signal that reached the pipe ends the loop, however many     *)
(* bytes of other signals the same read takes with it.                     *)
TermIsHeard ==
  Contains(pipe, "term") \/ Contains(pending, "term") ~> ended \/ set # "live"
=============================================================================
