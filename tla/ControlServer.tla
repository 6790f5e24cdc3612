---------------------------- MODULE ControlServer ---------------------------
(***************************************************************************)
(* The control socket (rinit/src/control.rs), the arm of the main loop     *)
(* that answers it (boot.rs) and rctl at its other end: one task per       *)
(* connection, a bounded queue into the loop, a oneshot back, and a        *)
(* timeout on either side of it.  What a request does to the units is the  *)
(* subject of `Supervisor` and `Reload`; here it is done or not done.      *)
(***************************************************************************)
EXTENDS Integers, Sequences, FiniteSets

CONSTANTS
  Clients,         \* runs of rctl, or of another program, on the socket
  Visits,          \* who connects, and what they send: pairs of Uids and Sent
  CONTROL_QUEUE    \* requests that may wait for the loop

VARIABLES
  dev,       \* rinit runs as a user, with --dev
  socket,    \* "unbound", "bound", "disabled" or "removed"
  conn,      \* the connections: how far each is, and its client
  queue,     \* the requests the loop has not taken, oldest first
  replies,   \* what the loop answered into each oneshot; "none" is empty
  held,      \* the clients whose start job has their oneshot
  loop,      \* "boot", "up", "stopping" or "down"
  done       \* the clients whose request was carried out

controlVars == <<dev, socket, conn, queue, replies, held, loop, done>>

Uids == {"root", "owner", "other"}
Mutations == {"start", "stop", "restart", "reset_failed", "reload"}
Queries == {"list", "status", "log"}
Power == {"reboot", "poweroff"}
\* What a client sends: a request, a frame that is refused, part of one, or nothing.
Malformed == {"too_long", "version", "unknown", "malformed"}
Sent == Mutations \cup Queries \cup Power \cup Malformed \cup {"hangup", "silence"}
Pending == -1

ASSUME ControlAssumption == Visits \subseteq Uids \X Sent /\ CONTROL_QUEUE \in Nat \ {0}

exit_code(status) ==
  CASE status = "ok" -> 0 [] status = "no_such_unit" -> 3 [] status = "conflict" -> 4 [] OTHER -> 1
status_of(error) ==
  CASE error = "version" -> "version_mismatch"
    [] error = "unknown" -> "unknown_command"
    [] OTHER -> "bad_request"
peer_allowed(uid) == uid = "root" \/ (dev /\ uid = "owner")
request_mutates_boot(request) == request \in Mutations

ControlInit ==
  /\ dev \in BOOLEAN
  /\ socket = "unbound"
  /\ conn = [c \in Clients |-> [at |-> "off", uid |-> "root", sent |-> "silence",
                                status |-> "none", exit |-> Pending]]
  /\ queue = <<>>
  /\ replies = [c \in Clients |-> "none"]
  /\ held = {} /\ done = {}
  /\ loop = "boot"

(* ControlServer::bind: what a previous run left at the path is removed;   *)
(* a failure leaves a server that never yields a request.                  *)
Bind ==
  /\ socket = "unbound" /\ loop = "boot"
  /\ socket' \in {"bound", "disabled"}
  /\ UNCHANGED <<dev, conn, queue, replies, held, loop, done>>

-------------------------------------------------------------------------------
(* The connection.                                                         *)

At(c, place) == conn' = [conn EXCEPT ![c].at = place]
Answer(c, status) == conn' = [conn EXCEPT ![c].at = "answered", ![c].status = status]

(* client::send: connect and write the request.                            *)
Connect(c, uid, sent) ==
  /\ conn[c].at = "off" /\ socket # "unbound"
  /\ IF socket = "bound"
     THEN conn' = [conn EXCEPT ![c].at = "connected", ![c].uid = uid, ![c].sent = sent]
     ELSE conn' = [conn EXCEPT ![c].at = "closed", ![c].uid = uid, ![c].sent = sent, ![c].exit = 1]
  /\ UNCHANGED <<dev, socket, queue, replies, held, loop, done>>

(* serve, before a byte is read: who is it?  The kernel may not say.       *)
serve(c) ==
  /\ conn[c].at = "connected" /\ loop # "down"
  /\ \/ Answer(c, "error")
     \/ peer_allowed(conn[c].uid) /\ At(c, "reading")
  /\ UNCHANGED <<dev, socket, queue, replies, held, loop, done>>

(* read_frame and decode_request: a client that hangs up or stays silent   *)
(* past IO_TIMEOUT is not answered; a frame that is not a request is.      *)
read_frame(c) ==
  /\ conn[c].at = "reading" /\ loop # "down"
  /\ LET sent == conn[c].sent
     IN CASE sent \in {"hangup", "silence"} -> At(c, "closed")
          [] sent \in Malformed -> Answer(c, status_of(sent))
          [] OTHER -> At(c, "sending")
  /\ UNCHANGED <<dev, socket, queue, replies, held, loop, done>>

(* sender.send: a full queue holds the task, nothing bounds the wait.      *)
send(c) ==
  /\ conn[c].at = "sending" /\ loop # "down"
  /\ Len(queue) < CONTROL_QUEUE
  /\ queue' = Append(queue, c)
  /\ At(c, "waiting")
  /\ UNCHANGED <<dev, socket, replies, held, loop, done>>

(* await_reply: the answer, or after REPLY_TIMEOUT one that says so; the   *)
(* oneshot is closed then, and what the loop puts in it is lost.           *)
await_reply(c) ==
  /\ conn[c].at = "waiting" /\ loop # "down"
  /\ Answer(c, IF replies[c] = "none" THEN "error" ELSE replies[c])
  /\ UNCHANGED <<dev, socket, queue, replies, held, loop, done>>

(* write_response and the half-close: the client reads it and exits, or    *)
(* has gone by then.                                                       *)
write_response(c) ==
  /\ conn[c].at = "answered" /\ loop # "down"
  /\ conn' = [conn EXCEPT ![c].at = "closed", ![c].status = "none",
                          ![c].exit = IF @ = Pending THEN exit_code(conn[c].status) ELSE @]
  /\ UNCHANGED <<dev, socket, queue, replies, held, loop, done>>

(* The client ends without an answer: the connection was closed, or rctl   *)
(* waited for its own REPLY_TIMEOUT.  The server sees it when it writes.   *)
GiveUp(c) ==
  /\ conn[c].at \in {"waiting", "closed"} /\ conn[c].exit = Pending
  /\ conn' = [conn EXCEPT ![c].exit = 1]
  /\ UNCHANGED <<dev, socket, queue, replies, held, loop, done>>

-------------------------------------------------------------------------------
(* The main loop.                                                          *)

(* The loop is left: StartCoordinator::shutdown releases the clients whose *)
(* start job has not ended.                                                *)
Released_bug(c) == IF c \in held THEN "ok" ELSE replies[c]
Released(c) == IF c \in held THEN "error" ELSE replies[c]
LeaveLoop(answered) ==
  /\ loop' = "stopping" /\ held' = {}
  /\ replies' = [c \in Clients |-> IF c \in answered THEN "ok" ELSE Released(c)]

(* handle_control, by the kinds of request.  A start that is accepted, and *)
(* a restart of a unit that is down, keep the oneshot until the job ends.  *)
Refusals(request) ==
  CASE request \in {"list", "log"} -> {}
    [] request = "reload" -> {"error"}
    [] request \in {"status", "reset_failed"} -> {"no_such_unit"}
    [] request = "restart" -> {"error", "no_such_unit", "conflict"}
    [] OTHER -> {"error", "no_such_unit"}
Reply(c, status) == replies' = [replies EXCEPT ![c] = status]
handle_control(c, request) ==
  \/ /\ request \notin Power
     /\ \E status \in Refusals(request) : Reply(c, status)
     /\ UNCHANGED <<held, loop, done>>
  \/ /\ request \notin Power \cup {"start"}
     /\ Reply(c, "ok")
     /\ done' = done \cup {c}
     /\ UNCHANGED <<held, loop>>
  \/ /\ request \in {"start", "restart"}
     /\ held' = held \cup {c}
     /\ UNCHANGED <<replies, loop, done>>
  \/ /\ request \in Power
     /\ done' = done \cup {c}
     /\ LeaveLoop({c})
supervise ==
  /\ loop \in {"boot", "up"} /\ queue # <<>>
  /\ queue' = Tail(queue)
  /\ LET c == Head(queue)
         request == conn[c].sent
     IN IF loop = "boot" /\ request_mutates_boot(request)
        THEN Reply(c, "conflict") /\ UNCHANGED <<held, loop, done>>
        ELSE handle_control(c, request)
  /\ UNCHANGED <<dev, socket, conn>>

(* A start job ends: its unit is up, or it failed, or a reload took it.    *)
FinishStart(c) ==
  /\ c \in held /\ loop = "up"
  /\ held' = held \ {c}
  /\ \/ Reply(c, "ok") /\ done' = done \cup {c}
     \/ (\E status \in {"error", "no_such_unit"} : Reply(c, status)) /\ UNCHANGED done
  /\ UNCHANGED <<dev, socket, conn, queue, loop>>

BootDone ==
  /\ loop = "boot" /\ socket # "unbound"
  /\ loop' = "up"
  /\ UNCHANGED <<dev, socket, conn, queue, replies, held, done>>
Signal ==
  /\ loop \in {"boot", "up"} /\ socket # "unbound"
  /\ LeaveLoop({})
  /\ UNCHANGED <<dev, socket, conn, queue, done>>

(* control.disarm after the units are down, then reboot(2) or the exit:    *)
(* what is still connected is closed.                                      *)
disarm ==
  /\ loop = "stopping" /\ socket \in {"bound", "disabled"}
  /\ socket' = "removed"
  /\ UNCHANGED <<dev, conn, queue, replies, held, loop, done>>
Down ==
  /\ loop = "stopping" /\ socket = "removed"
  /\ loop' = "down"
  /\ conn' = [c \in Clients |-> IF conn[c].at = "off" THEN conn[c] ELSE [conn[c] EXCEPT !.at = "closed"]]
  /\ UNCHANGED <<dev, socket, queue, replies, held, done>>

ControlStep(c) ==
  \/ serve(c) \/ read_frame(c) \/ send(c) \/ await_reply(c) \/ write_response(c)
ControlNext ==
  \/ Bind \/ supervise \/ BootDone \/ Signal \/ disarm \/ Down
  \/ \E c \in Clients :
       \/ \E visit \in Visits : Connect(c, visit[1], visit[2])
       \/ ControlStep(c) \/ GiveUp(c) \/ FinishStart(c)
ControlSpec == ControlInit /\ [][ControlNext]_controlVars

-------------------------------------------------------------------------------

(* Nothing is done for a peer the socket does not belong to: not by a      *)
(* request that was queued, nor by a start job that goes on later.         *)
OnlyOwners ==
  \A c \in done \cup held : conn[c].uid = "root" \/ (dev /\ conn[c].uid = "owner")

(* The exit code of rctl tells the truth: 0 is only for what was done, 3   *)
(* and 4 only for what was not, whatever timed out, was late or was        *)
(* answered while the system went down.                                    *)
ExitIsTrue ==
  \A c \in Clients :
    /\ conn[c].exit = 0 => c \in done
    /\ conn[c].exit \in {3, 4} => c \notin done

(* A connection whose request was read is answered or closed, though the   *)
(* job it asked for never ends and though the loop is left with the        *)
(* request still in its queue.                                             *)
RequestIsAnswered ==
  \A c \in Clients : conn[c].at \in {"sending", "waiting"} ~> conn[c].at \in {"answered", "closed"}

(* The control socket serves its owners only, and what it tells them is    *)
(* true, whatever timed out or was late (peer_allowed, await_reply,        *)
(* exit_code).                                                             *)
ControlIsTrue ==
  /\ OnlyOwners
  /\ ExitIsTrue
=============================================================================
