----------------------------- MODULE DaemonProofs -----------------------------
(***************************************************************************)
(* The signal pipe, the control server and the machine's power keep their  *)
(* promises for every number of threads, clients, queue places and         *)
(* watchdog timeouts.  Each has an inductive invariant of its own; the     *)
(* daemon of `MCDaemon` is one of the three at a time.                     *)
(***************************************************************************)
EXTENDS MCDaemon, FiniteSetTheorems, SequenceTheorems, TLAPS

-------------------------------------------------------------------------------
(* The signal pipe.                                                        *)

SignalTypes ==
  /\ handler \in [Threads -> [at : {"idle", "called", "loaded", "written"},
                              signal : Signals, fd : Nat]]
  /\ WRITE_FD \in Nat /\ made \in Nat
  /\ open \subseteq Nat /\ abandoned \subseteq Nat /\ gaveUp \subseteq Nat
  /\ set \in {"none", "building", "live", "restored", "cleared"}

(* WRITE_FD is published with the pipe and taken back before it is closed. *)
Published ==
  /\ set \in {"building", "live", "restored"} => WRITE_FD = made /\ made \in open
  /\ set \in {"none", "cleared"} => WRITE_FD = NoFd

SignalInv == SignalTypes /\ Published /\ NoStrayWrite

(* What SignalSet::drop waits for: with no handler counted, none has       *)
(* loaded the descriptor and not written yet.                              *)
LEMMA NoneCounted ==
  ASSUME ACTIVE_HANDLERS = 0
  PROVE  \A t \in Threads : handler[t].at # "loaded"
<1> DEFINE counted == {t \in Threads : handler[t].at \in {"loaded", "written"}}
<1>1. IsFiniteSet(counted)
  BY SignalAssumption, FS_Subset, counted \subseteq Threads
<1>2. counted = {}
  BY <1>1, FS_EmptySet DEF ACTIVE_HANDLERS
<1>3. QED
  BY <1>2

(* No handler has been called yet. *)
LEMMA SignalInitInv == SignalInit => SignalInv
BY DEF SignalInit, SignalInv, SignalTypes, Published, NoStrayWrite, Idle, NoFd, Signals

(* A step of a handler, of the loop or of drop. *)
LEMMA SignalNextInv == SignalInv /\ [SignalNext]_signalVars => SignalInv'
<1> SUFFICES ASSUME SignalInv, [SignalNext]_signalVars PROVE SignalInv'
  OBVIOUS
<1> USE DEF SignalInv, SignalTypes, Published, NoStrayWrite, NoFd
<1>1. CASE Exit \/ Adopt \/ Terminate
  BY <1>1 DEF Exit, Adopt, Terminate
<1>2. ASSUME NEW t \in Threads, NEW signal \in Signals, Deliver(t, signal)
      PROVE  SignalInv'
  BY <1>2 DEF Deliver
<1>3. ASSUME NEW t \in Threads, Load(t)
      PROVE  SignalInv'
  <2>1. WRITE_FD = NoFd \/ WRITE_FD \in open
    OBVIOUS
  <2>2. QED
    BY <1>3, <2>1 DEF Load
<1>4. ASSUME NEW t \in Threads, WriteByte(t)
      PROVE  SignalInv'
  BY <1>4 DEF WriteByte
<1>5. ASSUME NEW t \in Threads, Leave(t)
      PROVE  SignalInv'
  BY <1>5 DEF Leave, Idle, Signals
<1>6. CASE new
  BY <1>6 DEF new
<1>7. CASE install_handler \/ Register
  BY <1>7 DEF install_handler, Register
<1>8. CASE RollBack
  BY <1>8 DEF RollBack
<1>9. CASE read_pipe \/ recv_signal \/ Housekeep
  BY <1>9 DEF read_pipe, recv_signal, Housekeep
<1>10. CASE drop
  BY <1>10 DEF drop
<1>11. CASE Clear
  BY <1>11 DEF Clear
<1>12. CASE Close
  <2>1. CASE ACTIVE_HANDLERS = 0
    BY <1>12, <2>1, NoneCounted DEF Close
  <2>2. CASE ACTIVE_HANDLERS # 0
    BY <1>12, <2>2 DEF Close
  <2>3. QED
    BY <2>1, <2>2
<1>13. CASE UNCHANGED signalVars
  BY <1>13 DEF signalVars
<1>14. QED
  BY <1>1, <1>2, <1>3, <1>4, <1>5, <1>6, <1>7, <1>8, <1>9, <1>10, <1>11, <1>12, <1>13
     DEF SignalNext, dispatch

(* On every number of threads, and however the steps of a handler and of   *)
(* SignalSet::drop interleave, no handler writes to a descriptor that drop *)
(* has closed, unless it was counted when drop gave up its bounded wait    *)
(* (or its set was taken back by a failing `new`, which does not wait).    *)
THEOREM NeverStrayWrite == SignalSpec => []NoStrayWrite
<1>1. SignalInv => NoStrayWrite
  BY DEF SignalInv
<1>2. QED
  BY <1>1, SignalInitInv, SignalNextInv, PTL DEF SignalSpec

-------------------------------------------------------------------------------
(* The control server.                                                     *)

Places == {"off", "connected", "reading", "sending", "waiting", "answered", "closed"}
Replies == {"none", "ok", "error", "no_such_unit", "conflict"}
Statuses == Replies \cup {"version_mismatch", "unknown_command", "bad_request"}
Exits == {Pending, 0, 1, 3, 4}

ControlTypes ==
  /\ dev \in BOOLEAN
  /\ conn \in [Clients -> [at : Places, uid : Uids, sent : Sent, status : Statuses, exit : Exits]]
  /\ queue \in Seq(Clients)
  /\ replies \in [Clients -> Replies]
  /\ held \subseteq Clients /\ done \subseteq Clients

(* A request moves one way: from the client into the queue, from there     *)
(* into a start job or to its answer, and from a job to its answer.        *)
Queued(c) == \E i \in 1 .. Len(queue) : queue[i] = c
QueuedOnce == \A i, j \in 1 .. Len(queue) : queue[i] = queue[j] => i = j
Unasked == {"off", "connected", "reading", "sending"}
OneWay ==
  /\ \A c \in Clients :
       /\ conn[c].at \in Unasked => ~Queued(c) /\ c \notin held /\ replies[c] = "none"
       /\ Queued(c) => c \notin held /\ replies[c] = "none"
       /\ c \in held => replies[c] = "none"
  /\ QueuedOnce

(* Who is past the check of `serve` may be.                                *)
Checked ==
  \A c \in Clients :
    conn[c].at \in {"reading", "sending", "waiting"} \/ Queued(c) \/ c \in held \cup done
      => peer_allowed(conn[c].uid)

(* The oneshot says ok if and only if the request was carried out, and     *)
(* what the client was told is what is in it.                              *)
Told ==
  \A c \in Clients :
    /\ c \in done <=> replies[c] = "ok"
    /\ conn[c].status \in {"ok", "no_such_unit", "conflict"} => replies[c] = conn[c].status
    /\ conn[c].exit = 0 => replies[c] = "ok"
    /\ conn[c].exit = 3 => replies[c] = "no_such_unit"
    /\ conn[c].exit = 4 => replies[c] = "conflict"

ControlInv == ControlTypes /\ OneWay /\ Checked /\ Told

(* The queue when the loop takes its oldest request.                       *)
LEMMA TakenFromQueue ==
  ASSUME queue \in Seq(Clients), queue # <<>>, QueuedOnce, queue' = Tail(queue)
  PROVE  /\ Head(queue) \in Clients /\ Queued(Head(queue))
         /\ queue' \in Seq(Clients) /\ QueuedOnce'
         /\ \A c \in Clients : Queued(c)' <=> Queued(c) /\ c # Head(queue)
<1>1. Len(queue) \in Nat /\ Len(queue) > 0 /\ Head(queue) = queue[1]
  OBVIOUS
<1>2. /\ queue' \in Seq(Clients) /\ Len(queue') = Len(queue) - 1
      /\ \A i \in 1 .. Len(queue') : queue'[i] = queue[i + 1]
  BY <1>1
<1>3. Head(queue) \in Clients /\ Queued(Head(queue))
  BY <1>1 DEF Queued
<1>4. QueuedOnce'
  BY <1>1, <1>2 DEF QueuedOnce
<1>5. ASSUME NEW c \in Clients, Queued(c)' PROVE Queued(c) /\ c # Head(queue)
  BY <1>1, <1>2, <1>5 DEF Queued, QueuedOnce
<1>6. ASSUME NEW c \in Clients, Queued(c), c # Head(queue) PROVE Queued(c)'
  <2>1. PICK i \in 1 .. Len(queue) : queue[i] = c
    BY <1>6 DEF Queued
  <2>2. i - 1 \in 1 .. Len(queue') /\ queue'[i - 1] = c
    BY <1>1, <1>2, <1>6, <2>1
  <2>3. QED
    BY <2>2 DEF Queued
<1>7. QED
  BY <1>2, <1>3, <1>4, <1>5, <1>6

(* The queue when a connection puts its request behind the others.         *)
LEMMA PutInQueue ==
  ASSUME queue \in Seq(Clients), QueuedOnce, NEW c \in Clients, ~Queued(c),
         queue' = Append(queue, c)
  PROVE  /\ queue' \in Seq(Clients) /\ QueuedOnce'
         /\ \A d \in Clients : Queued(d)' <=> Queued(d) \/ d = c
<1>1. Len(queue) \in Nat
  OBVIOUS
<1>2. /\ queue' \in Seq(Clients) /\ Len(queue') = Len(queue) + 1
      /\ \A i \in 1 .. Len(queue) : queue'[i] = queue[i]
      /\ queue'[Len(queue) + 1] = c
  BY <1>1
<1>3. QueuedOnce'
  BY <1>1, <1>2 DEF QueuedOnce, Queued
<1>4. ASSUME NEW d \in Clients PROVE Queued(d)' <=> Queued(d) \/ d = c
  BY <1>1, <1>2 DEF Queued
<1>5. QED
  BY <1>2, <1>3, <1>4

(* What rctl exits with, by the status it was answered.                    *)
LEMMA ExitCodes ==
  ASSUME NEW status \in Statuses
  PROVE  /\ exit_code(status) \in Exits
         /\ exit_code(status) = 0 => status = "ok"
         /\ exit_code(status) = 3 => status = "no_such_unit"
         /\ exit_code(status) = 4 => status = "conflict"
BY DEF exit_code, Exits, Pending

(* No client has connected yet. *)
LEMMA ControlInitInv == ControlInit => ControlInv
BY DEF ControlInit, ControlInv, ControlTypes, OneWay, Checked, Told, Queued, QueuedOnce,
       Places, Replies, Statuses, Exits, Pending, Uids, Sent, Unasked

(* A step of one connection, which the loop does not take part in: it does *)
(* not go back, its uid stays what it was when it was checked, and it      *)
(* tells its client what is in the oneshot.                                *)
LEMMA ConnectionStep ==
  ASSUME ControlInv, UNCHANGED <<dev, queue, replies, held, done>>,
         conn' \in [Clients -> [at : Places, uid : Uids, sent : Sent, status : Statuses, exit : Exits]],
         \A c \in Clients :
           /\ conn'[c].at \in Unasked => conn[c].at \in Unasked
           /\ conn'[c].at \in {"reading", "sending", "waiting"} => peer_allowed(conn'[c].uid)
           /\ conn'[c].uid = conn[c].uid \/ conn[c].at = "off"
           /\ conn'[c].status \in {"ok", "no_such_unit", "conflict"} => replies[c] = conn'[c].status
           /\ conn'[c].exit = 0 => replies[c] = "ok"
           /\ conn'[c].exit = 3 => replies[c] = "no_such_unit"
           /\ conn'[c].exit = 4 => replies[c] = "conflict"
  PROVE  ControlInv'
<1> USE DEF ControlInv
<1>1. ControlTypes'
  BY DEF ControlTypes
<1>2. OneWay'
  BY DEF OneWay, Queued, QueuedOnce
<1>3. Told'
  BY DEF Told
<1>4. ASSUME NEW c \in Clients,
             conn'[c].at \in {"reading", "sending", "waiting"} \/ Queued(c)' \/ c \in held' \cup done'
      PROVE  peer_allowed(conn[c].uid)'
  <2>1. CASE conn'[c].at \in {"reading", "sending", "waiting"}
    BY <2>1 DEF peer_allowed
  <2>2. CASE Queued(c) \/ c \in held \cup done
    <3>1. conn[c].at # "off"
      BY <2>2 DEF OneWay, Told, Unasked
    <3>2. QED
      BY <2>2, <3>1 DEF Checked, peer_allowed
  <2>3. QED
    BY <1>4, <2>1, <2>2 DEF Queued
<1>5. QED
  BY <1>1, <1>2, <1>3, <1>4 DEF Checked

(* A step of the loop, which leaves the connections alone: it answers only *)
(* what waits in the queue or for a job, and says ok to what it has done.  *)
LEMMA LoopStep ==
  ASSUME ControlInv, UNCHANGED <<dev, conn>>,
         queue' \in Seq(Clients), QueuedOnce',
         replies' \in [Clients -> Replies], held' \subseteq Clients, done' \subseteq Clients,
         \A c \in Clients :
           /\ Queued(c)' => Queued(c) /\ c \notin held' /\ replies'[c] = "none"
           /\ c \in held' => (Queued(c) \/ c \in held) /\ replies'[c] = "none"
           /\ replies'[c] = replies[c] \/ (replies[c] = "none" /\ (Queued(c) \/ c \in held))
           /\ c \in done' <=> replies'[c] = "ok"
  PROVE  ControlInv'
<1> USE DEF ControlInv
<1>1. ControlTypes'
  BY DEF ControlTypes
<1>2. OneWay'
  BY DEF OneWay
<1>3. ASSUME NEW c \in Clients, Queued(c)' \/ c \in held' \cup done'
      PROVE  Queued(c) \/ c \in held \cup done
  BY <1>3 DEF Told
<1>4. Checked'
  BY <1>3 DEF Checked, peer_allowed
<1>5. ASSUME NEW c \in Clients, replies[c] # "none" PROVE replies'[c] = replies[c]
  BY <1>5
<1>6. Told'
  BY <1>5 DEF Told
<1>7. QED
  BY <1>1, <1>2, <1>4, <1>6

(* The main loop takes a request and handles it.                           *)
LEMMA SuperviseStep == ControlInv /\ supervise => ControlInv'
<1> SUFFICES ASSUME ControlInv, supervise PROVE ControlInv'
  OBVIOUS
<1> DEFINE c == Head(queue)
           request == conn[c].sent
<1>1. ControlTypes /\ OneWay /\ Told
  BY DEF ControlInv
<1>2. /\ c \in Clients /\ Queued(c)
      /\ queue' \in Seq(Clients) /\ QueuedOnce'
      /\ \A d \in Clients : Queued(d)' <=> Queued(d) /\ d # c
  BY <1>1, TakenFromQueue DEF supervise, ControlTypes, OneWay
<1>3. UNCHANGED <<dev, conn>>
  BY DEF supervise
<1>4. c \notin held /\ c \notin done /\ replies[c] = "none"
  BY <1>1, <1>2 DEF OneWay, Told
<1>5. \/ Reply(c, "conflict") /\ UNCHANGED <<held, loop, done>>
      \/ handle_control(c, request)
  BY DEF supervise
<1> HIDE DEF c, request
<1>6. ASSUME NEW status \in Replies \ {"none", "ok"}, Reply(c, status), UNCHANGED <<held, done>>
      PROVE  ControlInv'
  <2>1. /\ replies' \in [Clients -> Replies] /\ replies'[c] = status
        /\ \A d \in Clients : d # c => replies'[d] = replies[d]
    BY <1>1, <1>2, <1>6 DEF Reply, ControlTypes
  <2>2. \A d \in Clients : d \in done' <=> replies'[d] = "ok"
    BY <1>1, <1>4, <1>6, <2>1 DEF Told
  <2>3. QED
    BY <1>1, <1>2, <1>3, <1>4, <1>6, <2>1, <2>2, LoopStep DEF ControlTypes, OneWay
<1>7. ASSUME Reply(c, "ok"), done' = done \cup {c}, UNCHANGED held
      PROVE  ControlInv'
  <2>1. /\ replies' \in [Clients -> Replies] /\ replies'[c] = "ok"
        /\ \A d \in Clients : d # c => replies'[d] = replies[d]
    BY <1>1, <1>2, <1>7 DEF Reply, ControlTypes, Replies
  <2>2. \A d \in Clients : d \in done' <=> replies'[d] = "ok"
    BY <1>1, <1>7, <2>1 DEF Told
  <2>3. QED
    BY <1>1, <1>2, <1>3, <1>4, <1>7, <2>1, <2>2, LoopStep DEF ControlTypes, OneWay
<1>8. ASSUME held' = held \cup {c}, UNCHANGED <<replies, done>>
      PROVE  ControlInv'
  BY <1>1, <1>2, <1>3, <1>4, <1>8, LoopStep DEF ControlTypes, OneWay, Told
<1>9. ASSUME done' = done \cup {c}, LeaveLoop({c})
      PROVE  ControlInv'
  <2>1. /\ replies' \in [Clients -> Replies] /\ replies'[c] = "ok"
        /\ \A d \in Clients : d # c => replies'[d] = IF d \in held THEN "error" ELSE replies[d]
    BY <1>1, <1>2, <1>9 DEF LeaveLoop, Released, ControlTypes, Replies
  <2>2. held' = {}
    BY <1>9 DEF LeaveLoop
  <2>3. \A d \in Clients : d \in done' <=> replies'[d] = "ok"
    BY <1>1, <1>9, <2>1 DEF Told, OneWay
  <2>4. QED
    BY <1>1, <1>2, <1>3, <1>4, <1>9, <2>1, <2>2, <2>3, LoopStep DEF ControlTypes, OneWay
<1>10. \A r : Refusals(r) \subseteq Replies \ {"none", "ok"}
  BY DEF Refusals, Replies
<1>11. CASE Reply(c, "conflict") /\ UNCHANGED <<held, loop, done>>
  BY <1>6, <1>11 DEF Replies
<1>12. CASE handle_control(c, request)
  BY <1>6, <1>7, <1>8, <1>9, <1>10, <1>12 DEF handle_control
<1>13. QED
  BY <1>5, <1>11, <1>12

(* A start job ends and answers its client.                                *)
LEMMA FinishStep ==
  ASSUME ControlInv, NEW c \in Clients, FinishStart(c)
  PROVE  ControlInv'
<1>1. ControlTypes /\ OneWay /\ Told
  BY DEF ControlInv
<1>2. c \in held /\ held' = held \ {c} /\ UNCHANGED <<dev, conn, queue>>
  BY DEF FinishStart
<1>3. ~Queued(c) /\ c \notin done /\ replies[c] = "none"
  BY <1>1, <1>2 DEF OneWay, Told
<1>4. \A d \in Clients : Queued(d)' <=> Queued(d)
  BY <1>2 DEF Queued
<1>5. queue' \in Seq(Clients) /\ QueuedOnce'
  BY <1>1, <1>2 DEF ControlTypes, OneWay, QueuedOnce
<1>6. PICK status \in Replies \ {"none"} :
         /\ Reply(c, status)
         /\ IF status = "ok" THEN done' = done \cup {c} ELSE done' = done
  BY DEF FinishStart, Replies
<1>7. /\ replies' \in [Clients -> Replies] /\ replies'[c] = status
      /\ \A d \in Clients : d # c => replies'[d] = replies[d]
  BY <1>1, <1>6 DEF Reply, ControlTypes
<1>8. \A d \in Clients : d \in done' <=> replies'[d] = "ok"
  BY <1>1, <1>3, <1>6, <1>7 DEF Told
<1>9. QED
  BY <1>1, <1>2, <1>3, <1>4, <1>5, <1>6, <1>7, <1>8, LoopStep DEF ControlTypes, OneWay

(* A step of a client, of the server or of the loop. *)
LEMMA ControlNextInv == ControlInv /\ [ControlNext]_controlVars => ControlInv'
<1> SUFFICES ASSUME ControlInv, [ControlNext]_controlVars PROVE ControlInv'
  OBVIOUS
<1>1. ControlTypes /\ OneWay /\ Checked /\ Told
  BY DEF ControlInv
<1> DEFINE Conns == [at : Places, uid : Uids, sent : Sent, status : Statuses, exit : Exits]
<1>2. ASSUME UNCHANGED <<dev, conn, queue, replies, held, done>> PROVE ControlInv'
  BY <1>1, <1>2, ConnectionStep DEF ControlTypes, Checked, Told
<1>3. CASE Bind \/ BootDone \/ disarm \/ UNCHANGED controlVars
  BY <1>2, <1>3 DEF Bind, BootDone, disarm, controlVars
<1>4. CASE supervise
  BY <1>4, SuperviseStep
<1>5. CASE Signal
  <2>1. /\ replies' \in [Clients -> Replies]
        /\ \A c \in Clients : replies'[c] = IF c \in held THEN "error" ELSE replies[c]
    BY <1>1, <1>5 DEF Signal, LeaveLoop, Released, ControlTypes, Replies
  <2>2. held' = {} /\ UNCHANGED <<dev, conn, queue, done>>
    BY <1>5 DEF Signal, LeaveLoop
  <2>3. /\ queue' \in Seq(Clients) /\ QueuedOnce'
        /\ \A c \in Clients : Queued(c)' <=> Queued(c)
    BY <1>1, <2>2 DEF ControlTypes, OneWay, QueuedOnce, Queued
  <2>4. \A c \in Clients : c \in done' <=> replies'[c] = "ok"
    BY <1>1, <2>1, <2>2 DEF Told, OneWay
  <2>5. QED
    BY <1>1, <2>1, <2>2, <2>3, <2>4, LoopStep DEF ControlTypes, OneWay
<1>6. CASE Down
  <2>1. UNCHANGED <<dev, queue, replies, held, done>>
    BY <1>6 DEF Down
  <2>2. /\ conn' \in [Clients -> Conns]
        /\ \A c \in Clients :
             /\ conn'[c].at = conn[c].at \/ conn'[c].at = "closed"
             /\ conn'[c].uid = conn[c].uid /\ conn'[c].status = conn[c].status
             /\ conn'[c].exit = conn[c].exit
    BY <1>1, <1>6 DEF Down, ControlTypes, Places
  <2>3. QED
    BY <1>1, <2>1, <2>2, ConnectionStep DEF Checked, Told, Unasked
<1>7. ASSUME NEW c \in Clients, NEW visit \in Visits, Connect(c, visit[1], visit[2])
      PROVE  ControlInv'
  <2>1. visit[1] \in Uids /\ visit[2] \in Sent
    BY ControlAssumption
  <2>2. UNCHANGED <<dev, queue, replies, held, done>> /\ conn[c].at = "off"
    BY <1>7 DEF Connect
  <2>3. /\ conn' \in [Clients -> Conns]
        /\ \A d \in Clients : d # c => conn'[d] = conn[d]
        /\ conn'[c].at \in {"connected", "closed"} /\ conn'[c].status = conn[c].status
        /\ conn'[c].exit = conn[c].exit \/ conn'[c].exit = 1
    BY <1>1, <1>7, <2>1, SMTT(60) DEF Connect, ControlTypes, Places, Exits
  <2>4. QED
    BY <1>1, <2>2, <2>3, ConnectionStep DEF Checked, Told, Unasked
<1>8. ASSUME NEW c \in Clients, NEW place \in Places, At(c, place),
             UNCHANGED <<dev, queue, replies, held, done>>,
             place \in Unasked => conn[c].at \in Unasked,
             place \in {"reading", "sending", "waiting"} => peer_allowed(conn[c].uid)
      PROVE  ControlInv'
  <2>1. /\ conn' \in [Clients -> Conns]
        /\ \A d \in Clients : d # c => conn'[d] = conn[d]
        /\ conn'[c].at = place /\ conn'[c].uid = conn[c].uid
        /\ conn'[c].status = conn[c].status /\ conn'[c].exit = conn[c].exit
    BY <1>1, <1>8 DEF At, ControlTypes
  <2>2. QED
    BY <1>1, <1>8, <2>1, ConnectionStep DEF Checked, Told
<1>9. ASSUME NEW c \in Clients, NEW status \in Statuses, Answer(c, status),
             UNCHANGED <<dev, queue, replies, held, done>>,
             status \in {"ok", "no_such_unit", "conflict"} => replies[c] = status
      PROVE  ControlInv'
  <2>1. /\ conn' \in [Clients -> Conns]
        /\ \A d \in Clients : d # c => conn'[d] = conn[d]
        /\ conn'[c].at = "answered" /\ conn'[c].uid = conn[c].uid
        /\ conn'[c].status = status /\ conn'[c].exit = conn[c].exit
    BY <1>1, <1>9 DEF Answer, ControlTypes, Places
  <2>2. QED
    BY <1>1, <1>9, <2>1, ConnectionStep DEF Checked, Told, Unasked
<1>10. ASSUME NEW c \in Clients, serve(c) PROVE ControlInv'
  BY <1>8, <1>9, <1>10 DEF serve, Statuses, Replies, Places, Unasked
<1>11. ASSUME NEW c \in Clients, read_frame(c) PROVE ControlInv'
  <2>1. peer_allowed(conn[c].uid) /\ conn[c].at \in Unasked
    BY <1>1, <1>11 DEF read_frame, Checked, Unasked
  <2>2. \A e : status_of(e) \in {"version_mismatch", "unknown_command", "bad_request"}
    BY DEF status_of
  <2>3. \/ At(c, "closed") \/ At(c, "sending")
        \/ \E status \in {"version_mismatch", "unknown_command", "bad_request"} : Answer(c, status)
    BY <1>11, <2>2 DEF read_frame
  <2>4. UNCHANGED <<dev, queue, replies, held, done>>
    BY <1>11 DEF read_frame
  <2>5. QED
    BY <1>8, <1>9, <2>1, <2>3, <2>4 DEF Statuses, Places, Unasked
<1>12. ASSUME NEW c \in Clients, send(c) PROVE ControlInv'
  <2>1. ~Queued(c) /\ c \notin held /\ replies[c] = "none" /\ peer_allowed(conn[c].uid)
    BY <1>1, <1>12 DEF send, OneWay, Checked, Unasked
  <2>2. /\ queue' \in Seq(Clients) /\ QueuedOnce'
        /\ \A d \in Clients : Queued(d)' <=> Queued(d) \/ d = c
    BY <1>1, <1>12, <2>1, PutInQueue DEF send, ControlTypes, OneWay
  <2>3. UNCHANGED <<dev, replies, held, done>>
    BY <1>12 DEF send
  <2>4. /\ conn' \in [Clients -> Conns]
        /\ \A d \in Clients : d # c => conn'[d] = conn[d]
        /\ conn'[c].at = "waiting" /\ conn'[c].uid = conn[c].uid
        /\ conn'[c].status = conn[c].status /\ conn'[c].exit = conn[c].exit
    BY <1>1, <1>12 DEF send, At, ControlTypes, Places
  <2>5. ControlTypes'
    BY <1>1, <2>2, <2>3, <2>4 DEF ControlTypes
  <2>6. OneWay'
    BY <1>1, <2>1, <2>2, <2>3, <2>4 DEF OneWay, Unasked
  <2>7. Checked'
    BY <1>1, <2>1, <2>2, <2>3, <2>4 DEF Checked, peer_allowed
  <2>8. Told'
    BY <1>1, <2>3, <2>4 DEF Told
  <2>9. QED
    BY <2>5, <2>6, <2>7, <2>8 DEF ControlInv
<1>13. ASSUME NEW c \in Clients, await_reply(c) PROVE ControlInv'
  <2> DEFINE status == IF replies[c] = "none" THEN "error" ELSE replies[c]
  <2>1. status \in Statuses /\ (status \in {"ok", "no_such_unit", "conflict"} => replies[c] = status)
    BY <1>1 DEF ControlTypes, Statuses, Replies
  <2>2. Answer(c, status) /\ UNCHANGED <<dev, queue, replies, held, done>>
    BY <1>13 DEF await_reply
  <2> HIDE DEF status
  <2>3. QED
    BY <1>9, <2>1, <2>2
<1>14. ASSUME NEW c \in Clients, write_response(c) PROVE ControlInv'
  <2> DEFINE code == IF conn[c].exit = Pending THEN exit_code(conn[c].status) ELSE conn[c].exit
  <2>1. UNCHANGED <<dev, queue, replies, held, done>>
    BY <1>14 DEF write_response
  <2>2. conn[c].status \in Statuses /\ conn[c].exit \in Exits
    BY <1>1 DEF ControlTypes
  <2>3. /\ code \in Exits
        /\ code = 0 => replies[c] = "ok"
        /\ code = 3 => replies[c] = "no_such_unit"
        /\ code = 4 => replies[c] = "conflict"
    BY <1>1, <2>2, ExitCodes DEF Told
  <2>4. /\ conn' = [conn EXCEPT ![c].at = "closed", ![c].status = "none", ![c].exit = code]
    BY <1>1, <1>14 DEF write_response, ControlTypes
  <2> HIDE DEF code
  <2>5. /\ conn' \in [Clients -> Conns]
        /\ \A d \in Clients : d # c => conn'[d] = conn[d]
        /\ conn'[c].at = "closed" /\ conn'[c].uid = conn[c].uid
        /\ conn'[c].status = "none" /\ conn'[c].exit = code
    BY <1>1, <2>3, <2>4, ZenonT(60) DEF ControlTypes, Places, Statuses, Replies
  <2>6. QED
    BY <1>1, <2>1, <2>3, <2>5, ConnectionStep DEF Checked, Told, Unasked
<1>15. ASSUME NEW c \in Clients, GiveUp(c) PROVE ControlInv'
  <2>1. UNCHANGED <<dev, queue, replies, held, done>>
    BY <1>15 DEF GiveUp
  <2>2. /\ conn' \in [Clients -> Conns]
        /\ \A d \in Clients : d # c => conn'[d] = conn[d]
        /\ conn'[c].at = conn[c].at /\ conn'[c].uid = conn[c].uid
        /\ conn'[c].status = conn[c].status /\ conn'[c].exit = 1
    BY <1>1, <1>15 DEF GiveUp, ControlTypes, Exits
  <2>3. QED
    BY <1>1, <2>1, <2>2, ConnectionStep DEF Checked, Told
<1>16. ASSUME NEW c \in Clients, FinishStart(c) PROVE ControlInv'
  BY <1>16, FinishStep
<1>17. QED
  BY <1>3, <1>4, <1>5, <1>6, <1>7, <1>10, <1>11, <1>12, <1>13, <1>14, <1>15, <1>16
     DEF ControlNext, ControlStep

(* For every set of clients and every length of the queue: nothing is done *)
(* for a peer `serve` would not let in, and rctl's exit code is true,      *)
(* whatever timed out, was late or was still queued when the loop was      *)
(* left.                                                                   *)
THEOREM ControlIsAlwaysTrue == ControlSpec => []ControlIsTrue
<1>1. ControlInv => ControlIsTrue
  <2> SUFFICES ASSUME ControlInv PROVE ControlIsTrue
    OBVIOUS
  <2>1. OnlyOwners
    BY DEF ControlInv, ControlTypes, Checked, peer_allowed, OnlyOwners
  <2>2. ExitIsTrue
    BY DEF ControlInv, ControlTypes, Told, ExitIsTrue
  <2>3. QED
    BY <2>1, <2>2 DEF ControlIsTrue
<1>2. QED
  BY <1>1, ControlInitInv, ControlNextInv, PTL DEF ControlSpec

-------------------------------------------------------------------------------
(* The machine's power.                                                    *)

Phases == {"mounts", "setup", "loop", "stopping", "shutdown", "unmount", "reboot", "paused"}
WavePoints == {"/run", "/proc", "/sys", "/dev", "/tmp", "/sys/fs/cgroup"}
MountPoints == WavePoints \cup {FstabPoint}
Watchdogs == [armed : BOOLEAN, timeout : Nat, known : BOOLEAN, interval : Nat, next : Int]

PowerTypes ==
  /\ phase \in Phases
  /\ points \in Seq(MountPoints) /\ todo \in Seq(MountPoints)
  /\ wd \in Watchdogs /\ clock \in Int /\ failures \in Nat
  /\ outcome \in {"running", "reset", "reboot", "sysrq"}
  /\ hung \in BOOLEAN

(* While the loop iterates and its feeds arrive, the hardware's clock is   *)
(* ahead of the next feed by what a feed leaves it.                        *)
Healthy == wd.known /\ failures = 0 /\ ~hung /\ phase \in {"loop", "stopping"}
Fed ==
  /\ phase \in {"mounts", "setup"} => ~wd.armed
  /\ ~wd.armed => wd.timeout = 0 /\ outcome # "reset"
  /\ wd.armed => wd.timeout \in Timeouts
  /\ wd.armed /\ Healthy =>
       /\ outcome # "reset"
       /\ wd.interval = feed_interval(wd.timeout)
       /\ wd.next >= -Late
       /\ clock - wd.next >= wd.timeout * TicksPerSecond - wd.interval

(* /proc is mounted on a machine that has a watchdog, until the trigger is *)
(* open.                                                                   *)
TriggerHeld ==
  /\ phase = "mounts" => Contains(points, "/proc") \/ Contains(todo, "/proc")
  /\ phase = "setup" \/ (wd.armed /\ phase \in {"loop", "stopping", "shutdown"})
       => Contains(points, "/proc")
  /\ wd.armed /\ kernel.sysrq /\ phase \in {"unmount", "reboot", "paused"} => sysrq

(* What is mounted on something is mounted after it, and unmounted before  *)
(* it.                                                                     *)
Distinct(mounts) == \A i, j \in 1 .. Len(mounts) : mounts[i] = mounts[j] => i = j
ParentsFirst(mounts) == \A i, j \in 1 .. Len(mounts) : i <= j => Below(mounts[i]) # mounts[j]
ChildrenFirst(mounts) == \A i, j \in 1 .. Len(mounts) : i <= j => Below(mounts[j]) # mounts[i]
MountsOrdered ==
  /\ stuck \subseteq inUse
  /\ phase \in {"mounts", "setup", "loop", "stopping", "shutdown"} =>
       Distinct(points) /\ ParentsFirst(points)
  /\ phase = "mounts" =>
       /\ points \in Seq(WavePoints) /\ todo \in Seq(WavePoints)
       /\ Distinct(todo) /\ ParentsFirst(todo)
       /\ \A i \in 1 .. Len(points), j \in 1 .. Len(todo) :
            points[i] # todo[j] /\ Below(points[i]) # todo[j]
  /\ phase = "unmount" /\ todo # <<>> =>
       /\ Distinct(points) /\ Distinct(todo) /\ ChildrenFirst(todo)
       /\ \A i \in 1 .. Len(todo) : Contains(points, todo[i])
       /\ \A i \in 1 .. Len(points) : Contains(todo, points[i]) \/ points[i] \in stuck

PowerInv == PowerTypes /\ Fed /\ TriggerHeld /\ LastResort /\ MountsOrdered /\ LazyOnlyIfUsed

(* What the mount points are mounted on.                                   *)
LEMMA BelowRange ==
  /\ \A p : Below(p) \in {"/sys", "/run", "/"}
  /\ Below("/sys/fs/cgroup") = "/sys" /\ Below(FstabPoint) = "/run"
  /\ \A p \in WavePoints \ {"/sys/fs/cgroup"} : Below(p) = "/"
BY DEF Below, FstabPoint, WavePoints

(* Half of the timeout, rounded down, is within it. *)
LEMMA Halves ==
  ASSUME NEW s \in Nat
  PROVE  /\ s * TicksPerSecond \in Nat
         /\ feed_interval(s) \in Nat
         /\ 2 * feed_interval(s) <= s * TicksPerSecond
<1>1. TicksPerSecond \in Nat
  BY PowerAssumption
<1> DEFINE ticks == s * TicksPerSecond
<1>2. ticks \in Nat
  BY <1>1
<1> HIDE DEF ticks
<1>3. ticks \div 2 \in Nat /\ 2 * (ticks \div 2) <= ticks
  BY <1>2
<1>4. QED
  BY <1>2, <1>3 DEF feed_interval, ticks

(* What RemoveAt makes of a sequence.                                      *)
LEMMA RemovedFromSeq ==
  ASSUME NEW S, NEW s \in Seq(S), NEW k \in 1 .. Len(s)
  PROVE  LET rest == RemoveAt(s, k)
         IN /\ rest \in Seq(S) /\ Len(rest) = Len(s) - 1
            /\ \A i \in 1 .. Len(rest) : rest[i] = IF i < k THEN s[i] ELSE s[i + 1]
<1> DEFINE front == SubSeq(s, 1, k - 1)
           back == SubSeq(s, k + 1, Len(s))
           rest == RemoveAt(s, k)
<1>1. Len(s) \in Nat /\ \A i \in 1 .. Len(s) : s[i] \in S
  OBVIOUS
<1>2. /\ front \in Seq(S) /\ Len(front) = k - 1
      /\ \A i \in 1 .. k - 1 : front[i] = s[i]
  <2>1. k - 1 \in Int /\ 1 \in Int /\ \A i \in 1 .. k - 1 : s[i] \in S
    BY <1>1
  <2>2. /\ front \in Seq(S) /\ Len(front) = IF 1 <= k - 1 THEN (k - 1) - 1 + 1 ELSE 0
        /\ \A i \in 1 .. (k - 1) - 1 + 1 : front[i] = s[1 + i - 1]
    BY <2>1, SubSeqProperties
  <2> HIDE DEF front
  <2>3. QED
    BY <1>1, <2>2
<1>3. /\ back \in Seq(S) /\ Len(back) = Len(s) - k
      /\ \A i \in 1 .. Len(s) - k : back[i] = s[k + i]
  <2>1. k + 1 \in Int /\ Len(s) \in Int /\ \A i \in k + 1 .. Len(s) : s[i] \in S
    BY <1>1
  <2>2. /\ back \in Seq(S) /\ Len(back) = IF k + 1 <= Len(s) THEN Len(s) - (k + 1) + 1 ELSE 0
        /\ \A i \in 1 .. Len(s) - (k + 1) + 1 : back[i] = s[(k + 1) + i - 1]
    BY <2>1, SubSeqProperties
  <2> HIDE DEF back
  <2>3. \A i \in 1 .. Len(s) - k : (k + 1) + i - 1 = k + i
    BY <1>1
  <2>4. QED
    BY <1>1, <2>2, <2>3
<1>4. rest = front \o back
  BY DEF RemoveAt
<1> HIDE DEF front, back, rest
<1>5. /\ rest \in Seq(S) /\ Len(rest) = Len(front) + Len(back)
      /\ \A i \in 1 .. Len(front) + Len(back) :
           rest[i] = IF i <= Len(front) THEN front[i] ELSE back[i - Len(front)]
  BY <1>2, <1>3, <1>4, ConcatProperties
<1>6. Len(rest) = Len(s) - 1
  BY <1>1, <1>2, <1>3, <1>5
<1>7. ASSUME NEW i \in 1 .. Len(rest)
      PROVE  rest[i] = IF i < k THEN s[i] ELSE s[i + 1]
  <2>1. CASE i < k
    BY <1>1, <1>2, <1>3, <1>5, <1>6, <2>1
  <2>2. CASE ~(i < k)
    <3>1. i - (k - 1) \in 1 .. Len(s) - k /\ rest[i] = back[i - (k - 1)]
      BY <1>1, <1>2, <1>3, <1>5, <1>6, <2>2
    <3>2. k + (i - (k - 1)) = i + 1
      BY <1>6
    <3>3. QED
      BY <1>3, <2>2, <3>1, <3>2
  <2>3. QED
    BY <2>1, <2>2
<1>8. QED
  BY <1>5, <1>6, <1>7 DEF rest

(* What is left when one of the mounts is unmounted.                       *)
LEMMA UnmountedOne ==
  ASSUME NEW mounts \in Seq(MountPoints), Distinct(mounts), NEW p, Contains(mounts, p)
  PROVE  LET rest == RemoveAt(mounts, Topmost(mounts, p))
         IN /\ rest \in Seq(MountPoints) /\ Distinct(rest)
            /\ \A q : Contains(rest, q) <=> Contains(mounts, q) /\ q # p
<1> DEFINE k == Topmost(mounts, p)
           rest == RemoveAt(mounts, k)
<1>1. Len(mounts) \in Nat /\ DOMAIN mounts = 1 .. Len(mounts)
  OBVIOUS
<1>2. k \in 1 .. Len(mounts) /\ mounts[k] = p
  <2>1. PICK i \in 1 .. Len(mounts) : mounts[i] = p
    BY DEF Contains
  <2>2. ~Contains(SubSeq(mounts, i + 1, Len(mounts)), p)
    BY <1>1, <2>1 DEF Contains, Distinct
  <2>3. QED
    BY <1>1, <2>1, <2>2 DEF Topmost
<1> HIDE DEF k
<1>3. /\ rest \in Seq(MountPoints) /\ Len(rest) = Len(mounts) - 1
      /\ \A i \in 1 .. Len(rest) : rest[i] = IF i < k THEN mounts[i] ELSE mounts[i + 1]
  BY <1>1, <1>2, RemovedFromSeq
<1> HIDE DEF rest
<1>4. Distinct(rest)
  BY <1>1, <1>2, <1>3 DEF Distinct
<1>5. ASSUME NEW q, Contains(rest, q) PROVE Contains(mounts, q) /\ q # p
  <2>1. PICK i \in 1 .. Len(rest) : rest[i] = q
    BY <1>5 DEF Contains
  <2>2. CASE i < k
    BY <1>1, <1>2, <1>3, <2>1, <2>2 DEF Contains, Distinct
  <2>3. CASE ~(i < k)
    <3>1. i + 1 \in 1 .. Len(mounts) /\ mounts[i + 1] = q /\ i + 1 # k
      BY <1>1, <1>2, <1>3, <2>1, <2>3
    <3>2. QED
      BY <1>2, <3>1 DEF Contains, Distinct
  <2>4. QED
    BY <2>2, <2>3
<1>6. ASSUME NEW q, Contains(mounts, q), q # p PROVE Contains(rest, q)
  <2>1. PICK i \in 1 .. Len(mounts) : mounts[i] = q
    BY <1>6 DEF Contains
  <2>2. CASE i < k
    <3>1. i \in 1 .. Len(rest) /\ rest[i] = q
      BY <1>1, <1>2, <1>3, <2>1, <2>2
    <3>2. QED
      BY <3>1 DEF Contains
  <2>3. CASE ~(i < k)
    <3>1. i - 1 \in 1 .. Len(rest) /\ rest[i - 1] = q
      BY <1>1, <1>2, <1>3, <1>6, <2>1, <2>3
    <3>2. QED
      BY <3>1 DEF Contains
  <2>4. QED
    BY <2>2, <2>3
<1>7. QED
  BY <1>3, <1>4, <1>5, <1>6 DEF rest, k

(* The machine is switched on. *)
LEMMA PowerInitInv == PowerInit => PowerInv
<1> SUFFICES ASSUME PowerInit PROVE PowerInv
  OBVIOUS
<1>1. /\ todo \in Seq(WavePoints) /\ Len(todo) = 6 /\ points = <<>> /\ phase = "mounts"
      /\ todo[1] = "/run" /\ todo[2] = "/proc" /\ todo[3] = "/sys" /\ todo[4] = "/dev"
      /\ todo[5] = "/tmp" /\ todo[6] = "/sys/fs/cgroup"
  BY DEF PowerInit, FirstWave, WavePoints
<1>2. points \in Seq(WavePoints) /\ points \in Seq(MountPoints) /\ todo \in Seq(MountPoints)
  BY <1>1 DEF WavePoints, MountPoints
<1>3. PowerTypes
  <2>1. wd \in Watchdogs
    BY DEF PowerInit, Watchdogs, NoWatchdog
  <2>2. clock = 0 /\ failures = 0 /\ hung = FALSE /\ outcome = "running"
    BY DEF PowerInit
  <2>3. phase \in Phases /\ hung \in BOOLEAN /\ outcome \in {"running", "reset", "reboot", "sysrq"}
    BY <1>1, <2>2 DEF Phases
  <2>4. clock \in Int /\ failures \in Nat
    BY <2>2
  <2>5. QED
    BY <1>2, <2>1, <2>3, <2>4 DEF PowerTypes
<1>4. Fed /\ LastResort /\ LazyOnlyIfUsed
  BY <1>1 DEF PowerInit, Fed, LastResort, LazyOnlyIfUsed, NoWatchdog, Healthy
<1>5. TriggerHeld
  BY <1>1 DEF TriggerHeld, Contains
<1>6. MountsOrdered
  <2>1. Distinct(todo)
    BY <1>1 DEF Distinct
  <2>2. ParentsFirst(todo)
    <3>1. \A i \in 1 .. 6 : todo[i] \in WavePoints /\ (i # 6 => todo[i] # "/sys/fs/cgroup")
      BY <1>1 DEF WavePoints
    <3>2. \A i \in 1 .. 6 : i # 6 => Below(todo[i]) = "/"
      BY <3>1, BelowRange
    <3>3. Below(todo[6]) # todo[6]
      BY <1>1, BelowRange
    <3>4. ASSUME NEW i \in 1 .. 6, NEW j \in 1 .. 6, i <= j PROVE Below(todo[i]) # todo[j]
      BY <3>1, <3>2, <3>3, <3>4 DEF WavePoints
    <3>5. QED
      BY <1>1, <3>4 DEF ParentsFirst
  <2>3. Distinct(points) /\ ParentsFirst(points)
    BY <1>1 DEF Distinct, ParentsFirst
  <2>4. stuck \subseteq inUse
    BY DEF PowerInit
  <2>5. QED
    BY <1>1, <1>2, <2>1, <2>2, <2>3, <2>4 DEF MountsOrdered
<1>7. QED
  BY <1>3, <1>4, <1>5, <1>6 DEF PowerInv

(* The watchdog's clock: between two feeds it loses what the time to the   *)
(* next feed loses, and a feed is never later than Late.                   *)
LEMMA FedStep == PowerTypes /\ Fed /\ [PowerNext]_powerVars => Fed'
<1> SUFFICES ASSUME PowerTypes, Fed, [PowerNext]_powerVars PROVE Fed'
  OBVIOUS
<1>1. Late \in Nat /\ TicksPerSecond \in Nat /\ Timeouts \subseteq Nat \ {0}
      /\ \A s \in Timeouts : 2 * Late < s * TicksPerSecond
  BY PowerAssumption
<1>2. ASSUME UNCHANGED <<wd, clock, failures>>, outcome' = outcome \/ outcome' # "reset",
             phase' \in {"mounts", "setup"} => phase \in {"mounts", "setup"},
             phase' \in {"loop", "stopping"} => phase \in {"loop", "stopping"},
             hung' = hung \/ hung' = TRUE
      PROVE  Fed'
  BY <1>2 DEF Fed, Healthy
<1>3. CASE first_wave_mounts \/ report_fstab \/ SetupFails
  BY <1>2, <1>3 DEF first_wave_mounts, report_fstab, SetupFails, Quiet
<1>4. CASE StopDone \/ Request \/ Hang
  BY <1>2, <1>4 DEF StopDone, Request, Hang, Quiet
<1>5. CASE OpenTrigger \/ unmount_filesystems \/ sync \/ shutdown_now
  BY <1>2, <1>5 DEF OpenTrigger, unmount_filesystems, sync, shutdown_now, Quiet
<1>6. CASE UNCHANGED powerVars
  BY <1>2, <1>6 DEF powerVars
<1>7. CASE prepare
  <2>1. outcome' = outcome /\ outcome = "running" /\ phase' = "loop" /\ UNCHANGED failures
    BY <1>7 DEF prepare, Alive
  <2>2. CASE wd' = NoWatchdog
    BY <2>1, <2>2 DEF Fed, NoWatchdog
  <2>3. ASSUME NEW asked \in Timeouts, NEW actual \in Timeouts, NEW known \in BOOLEAN,
               wd' = [armed |-> TRUE, timeout |-> actual, known |-> known,
                      interval |-> feed_interval(IF known THEN Settled(asked, actual) ELSE asked),
                      next |-> 0],
               clock' = actual * TicksPerSecond
        PROVE  Fed'
    <3>1. feed_interval(actual) \in Nat /\ actual * TicksPerSecond \in Nat
      BY <1>1, Halves
    <3>2. /\ wd'.armed = TRUE /\ wd'.timeout = actual /\ wd'.known = known /\ wd'.next = 0
          /\ known => wd'.interval = feed_interval(actual)
      BY <2>3 DEF Settled
    <3>3. known => clock' - wd'.next >= wd'.timeout * TicksPerSecond - wd'.interval
      BY <2>3, <3>1, <3>2
    <3>4. wd'.next >= -Late
      BY <1>1, <3>2
    <3>5. QED
      BY <2>1, <3>2, <3>3, <3>4 DEF Fed, Healthy
  <2>4. QED
    BY <1>7, <2>2, <2>3 DEF prepare
<1>8. CASE feed_if_due
  <2>1. /\ wd' = [wd EXCEPT !.next = wd.interval] /\ wd.armed
        /\ UNCHANGED <<phase, outcome, hung>>
    BY <1>8 DEF feed_if_due, Quiet
  <2>2. /\ wd'.armed = wd.armed /\ wd'.timeout = wd.timeout /\ wd'.known = wd.known
        /\ wd'.interval = wd.interval /\ wd'.next = wd.interval
    BY <2>1 DEF PowerTypes, Watchdogs
  <2>3. CASE clock' = wd.timeout * TicksPerSecond /\ UNCHANGED failures
    <3>1. wd.timeout * TicksPerSecond \in Nat /\ wd.interval \in Nat
      BY <1>1, Halves DEF PowerTypes, Watchdogs
    <3>2. clock' - wd'.next >= wd'.timeout * TicksPerSecond - wd'.interval /\ wd'.next >= -Late
      BY <1>1, <2>2, <2>3, <3>1
    <3>3. QED
      BY <2>1, <2>2, <2>3, <3>2 DEF Fed, Healthy
  <2>4. CASE failures' = failures + 1
    <3>1. failures' # 0
      BY <2>4 DEF PowerTypes
    <3>2. QED
      BY <2>1, <2>2, <3>1 DEF Fed, Healthy
  <2>5. QED
    BY <1>8, <2>3, <2>4 DEF feed_if_due
<1>9. CASE Tick
  <2>1. /\ outcome = "running" /\ wd.armed /\ UNCHANGED <<phase, hung, failures>>
        /\ Alive /\ phase \in {"loop", "stopping"} => wd.next > -Late
        /\ clock' = clock - 1
        /\ wd' = [wd EXCEPT !.next = IF hung \/ phase \notin {"loop", "stopping"} THEN 0 ELSE wd.next - 1]
        /\ outcome' = IF clock = 1 THEN "reset" ELSE "running"
    BY <1>9 DEF Tick, Quiet, PowerTypes, Watchdogs
  <2>2. /\ wd'.armed = wd.armed /\ wd'.timeout = wd.timeout /\ wd'.known = wd.known
        /\ wd'.interval = wd.interval
        /\ wd'.next = IF hung \/ phase \notin {"loop", "stopping"} THEN 0 ELSE wd.next - 1
    BY <2>1 DEF PowerTypes, Watchdogs
  <2>3. CASE ~Healthy
    BY <2>1, <2>2, <2>3 DEF Fed, Healthy
  <2>4. CASE Healthy
    <3> DEFINE ticks == wd.timeout * TicksPerSecond
    <3>1. /\ wd.interval = feed_interval(wd.timeout) /\ wd.timeout \in Timeouts
          /\ clock - wd.next >= ticks - wd.interval
      BY <2>1, <2>4 DEF Fed
    <3>2. ticks \in Nat /\ wd.interval \in Nat /\ 2 * wd.interval <= ticks /\ 2 * Late < ticks
      BY <1>1, <3>1, Halves
    <3>3. wd.next > -Late /\ wd'.next = wd.next - 1
      BY <2>1, <2>2, <2>4 DEF Healthy, Alive
    <3>4. wd.next \in Int /\ clock \in Int
      BY DEF PowerTypes, Watchdogs
    <3>5. wd'.timeout * TicksPerSecond = ticks
      BY <2>2
    <3> HIDE DEF ticks
    <3>6. clock # 1 /\ wd'.next >= -Late /\ clock' - wd'.next >= ticks - wd'.interval
      BY <1>1, <2>1, <2>2, <3>1, <3>2, <3>3, <3>4
    <3>7. QED
      BY <2>1, <2>2, <3>1, <3>5, <3>6 DEF Fed
  <2>5. QED
    BY <2>3, <2>4
<1>10. QED
  BY <1>3, <1>4, <1>5, <1>6, <1>7, <1>8, <1>9 DEF PowerNext, PowerWork

(* Types are kept by every step. *)
LEMMA PowerTypesStep == PowerInv /\ [PowerNext]_powerVars => PowerTypes'
<1> SUFFICES ASSUME PowerInv, [PowerNext]_powerVars PROVE PowerTypes'
  OBVIOUS
<1>1. PowerTypes
  BY DEF PowerInv
<1> USE <1>1
<1>2. CASE first_wave_mounts
  <2>1. Head(todo) \in MountPoints /\ Tail(todo) \in Seq(MountPoints)
    BY <1>2 DEF first_wave_mounts, PowerTypes
  <2>2. /\ points' = points \/ points' = Append(points, Head(todo))
        /\ todo' = Tail(todo) \/ todo' = <<>>
        /\ phase' = phase \/ phase' = "shutdown"
    BY <1>2 DEF first_wave_mounts
  <2>3. points' \in Seq(MountPoints)
    BY <2>1, <2>2 DEF PowerTypes
  <2>4. todo' \in Seq(MountPoints)
    <3>1. CASE todo' = Tail(todo)
      BY <2>1, <3>1
    <3>2. CASE todo' = <<>>
      BY <3>2
    <3>3. QED
      BY <2>2, <3>1, <3>2
  <2>5. QED
    BY <1>2, <2>2, <2>3, <2>4 DEF first_wave_mounts, PowerTypes, Phases, Quiet
<1>3. CASE report_fstab
  <2>1. points' \in Seq(MountPoints) /\ phase' \in Phases
    BY <1>3 DEF report_fstab, PowerTypes, MountPoints, Phases
  <2>2. QED
    BY <1>3, <2>1 DEF report_fstab, PowerTypes, Quiet
<1>4. CASE SetupFails \/ StopDone \/ Request \/ sync
  BY <1>4 DEF SetupFails, StopDone, Request, sync, PowerTypes, Phases, Quiet
<1>5. CASE prepare
  <2>1. wd' \in Watchdogs /\ clock' \in Int
    <3>1. CASE wd' = NoWatchdog /\ clock' = 0
      BY <3>1 DEF NoWatchdog, Watchdogs
    <3>2. ASSUME NEW asked \in Timeouts, NEW actual \in Timeouts, NEW known \in BOOLEAN,
                 wd' = [armed |-> TRUE, timeout |-> actual, known |-> known,
                        interval |-> feed_interval(IF known THEN Settled(asked, actual) ELSE asked),
                        next |-> 0],
                 clock' = actual * TicksPerSecond
          PROVE  wd' \in Watchdogs /\ clock' \in Int
      <4>1. asked \in Nat /\ actual \in Nat
        BY PowerAssumption
      <4>2. feed_interval(IF known THEN Settled(asked, actual) ELSE asked) \in Nat
            /\ actual * TicksPerSecond \in Nat
        BY <4>1, Halves DEF Settled
      <4>3. QED
        BY <3>2, <4>1, <4>2 DEF Watchdogs
    <3>3. QED
      BY <1>5, <3>1, <3>2 DEF prepare
  <2>2. QED
    BY <1>5, <2>1 DEF prepare, PowerTypes, Phases, Quiet
<1>6. CASE feed_if_due
  <2>1. wd.timeout * TicksPerSecond \in Nat
    BY Halves DEF PowerTypes, Watchdogs
  <2>2. wd' \in Watchdogs /\ clock' \in Int /\ failures' \in Nat
    BY <1>6, <2>1 DEF feed_if_due, PowerTypes, Watchdogs
  <2>3. QED
    BY <1>6, <2>2 DEF feed_if_due, PowerTypes, Quiet
<1>7. CASE Tick
  <2>1. wd' \in Watchdogs /\ clock' \in Int
    BY <1>7 DEF Tick, PowerTypes, Watchdogs
  <2>2. QED
    BY <1>7, <2>1 DEF Tick, PowerTypes, Quiet
<1>8. CASE Hang
  BY <1>8 DEF Hang, PowerTypes
<1>9. CASE OpenTrigger
  <2>1. Reverse(points) \in Seq(MountPoints)
    BY DEF Reverse, PowerTypes
  <2>2. todo' \in Seq(MountPoints) /\ phase' \in Phases
    BY <1>9, <2>1 DEF OpenTrigger, unmount_order, Phases
  <2>3. QED
    BY <1>9, <2>2 DEF OpenTrigger, PowerTypes, Quiet
<1>10. CASE unmount_filesystems
  <2> DEFINE p == Head(todo)
  <2>1. Contains(points, p) /\ Distinct(points)
    BY <1>10 DEF unmount_filesystems, PowerInv, PowerTypes, MountsOrdered
  <2>2. points' = points \/ points' = RemoveAt(points, Topmost(points, p))
    BY <1>10 DEF unmount_filesystems
  <2>3. points' \in Seq(MountPoints)
    BY <2>1, <2>2, UnmountedOne DEF PowerTypes
  <2>4. todo' \in Seq(MountPoints)
    BY <1>10 DEF unmount_filesystems, PowerTypes
  <2>5. QED
    BY <1>10, <2>3, <2>4 DEF unmount_filesystems, PowerTypes, Quiet
<1>11. CASE shutdown_now
  BY <1>11 DEF shutdown_now, PowerTypes, Phases, Quiet
<1>12. CASE UNCHANGED powerVars
  BY <1>12 DEF powerVars, PowerTypes
<1>13. QED
  BY <1>2, <1>3, <1>4, <1>5, <1>6, <1>7, <1>8, <1>9, <1>10, <1>11, <1>12 DEF PowerNext, PowerWork

(* The trigger is open when reboot(2) is refused, unless the kernel has    *)
(* refused it too.                                                         *)
LEMMA TriggerStep ==
  PowerInv /\ [PowerNext]_powerVars => TriggerHeld' /\ LastResort'
<1> SUFFICES ASSUME PowerInv, [PowerNext]_powerVars PROVE TriggerHeld' /\ LastResort'
  OBVIOUS
<1>1. PowerTypes /\ Fed /\ TriggerHeld /\ LastResort
  BY DEF PowerInv
<1>2. wd.timeout > 0 => wd.armed
  BY <1>1 DEF Fed
<1>3. ASSUME UNCHANGED <<phase, points, todo, sysrq, kernel>>, wd'.armed = wd.armed,
             wd'.timeout = wd.timeout
      PROVE  TriggerHeld' /\ LastResort'
  BY <1>1, <1>3 DEF TriggerHeld, LastResort
<1>4. CASE first_wave_mounts
  <2>1. phase = "mounts" /\ todo \in Seq(MountPoints) /\ todo # <<>> /\ points \in Seq(MountPoints)
    BY <1>1, <1>4 DEF first_wave_mounts, PowerTypes
  <2>2. ~wd.armed /\ UNCHANGED <<wd, kernel>>
    BY <1>1, <1>4, <2>1 DEF first_wave_mounts, Fed, Quiet
  <2>3. Head(todo) = "/proc" \/ Contains(Tail(todo), "/proc") \/ Contains(points, "/proc")
    <3>1. CASE Contains(points, "/proc")
      BY <3>1
    <3>2. ASSUME NEW i \in 1 .. Len(todo), todo[i] = "/proc"
          PROVE  Head(todo) = "/proc" \/ Contains(Tail(todo), "/proc")
      <4>1. CASE i = 1
        BY <2>1, <3>2, <4>1
      <4>2. CASE i # 1
        <5>1. i - 1 \in 1 .. Len(Tail(todo)) /\ Tail(todo)[i - 1] = "/proc"
          BY <2>1, <3>2, <4>2
        <5>2. QED
          BY <5>1 DEF Contains
      <4>3. QED
        BY <4>1, <4>2
    <3>3. QED
      BY <1>1, <2>1, <3>1, <3>2 DEF TriggerHeld, Contains
  <2>4. CASE points' = Append(points, Head(todo)) /\ todo' = Tail(todo) /\ UNCHANGED phase
    <3>1. Contains(points, "/proc") \/ Head(todo) = "/proc" => Contains(points', "/proc")
      BY <2>1, <2>4 DEF Contains
    <3>2. QED
      BY <2>1, <2>2, <2>3, <2>4, <3>1 DEF TriggerHeld, LastResort
  <2>5. CASE Head(todo) \in Degradable /\ todo' = Tail(todo) /\ UNCHANGED <<points, phase>>
    BY <2>1, <2>2, <2>3, <2>5 DEF TriggerHeld, LastResort, Degradable
  <2>6. CASE phase' = "shutdown"
    BY <1>2, <2>2, <2>6 DEF TriggerHeld, LastResort
  <2>7. QED
    BY <1>4, <2>4, <2>5, <2>6 DEF first_wave_mounts
<1>5. CASE report_fstab
  <2>1. phase = "mounts" /\ todo = <<>> /\ phase' = "setup" /\ UNCHANGED <<wd, kernel>>
    BY <1>5 DEF report_fstab, Quiet
  <2>2. Contains(points, "/proc") /\ ~wd.armed
    BY <1>1, <2>1 DEF TriggerHeld, Fed, Contains
  <2>3. Contains(points', "/proc")
    BY <1>1, <1>5, <2>2 DEF report_fstab, PowerTypes, Contains
  <2>4. QED
    BY <2>1, <2>2, <2>3 DEF TriggerHeld, LastResort
<1>6. CASE SetupFails
  BY <1>1, <1>6 DEF SetupFails, TriggerHeld, LastResort, Fed, Quiet
<1>7. CASE prepare
  <2>1. phase = "setup" /\ phase' = "loop" /\ UNCHANGED <<points, kernel>>
    BY <1>7 DEF prepare, Quiet
  <2>2. QED
    BY <1>1, <2>1 DEF TriggerHeld, LastResort
<1>8. CASE feed_if_due
  <2>1. wd'.armed = wd.armed /\ wd'.timeout = wd.timeout
    BY <1>1, <1>8 DEF feed_if_due, PowerTypes, Watchdogs
  <2>2. QED
    BY <1>3, <1>8, <2>1 DEF feed_if_due, Quiet
<1>9. CASE Tick
  <2>1. wd'.armed = wd.armed /\ wd'.timeout = wd.timeout
    BY <1>1, <1>9 DEF Tick, PowerTypes, Watchdogs
  <2>2. QED
    BY <1>3, <1>9, <2>1 DEF Tick, Quiet
<1>10. CASE Hang \/ UNCHANGED powerVars
  BY <1>3, <1>10 DEF Hang, powerVars
<1>11. CASE Request \/ StopDone
  BY <1>1, <1>11 DEF Request, StopDone, TriggerHeld, LastResort, Quiet
<1>12. CASE OpenTrigger
  <2>1. phase = "shutdown" /\ phase' = "unmount" /\ UNCHANGED <<wd, kernel>>
        /\ sysrq' = (Contains(points, "/proc") /\ kernel.sysrq)
    BY <1>12 DEF OpenTrigger, Quiet
  <2>2. wd.armed => Contains(points, "/proc")
    BY <1>1, <2>1 DEF TriggerHeld
  <2>3. QED
    BY <2>1, <2>2 DEF TriggerHeld, LastResort
<1>13. CASE unmount_filesystems
  BY <1>1, <1>13 DEF unmount_filesystems, TriggerHeld, LastResort, Quiet
<1>14. CASE sync
  BY <1>1, <1>14 DEF sync, TriggerHeld, LastResort, Quiet
<1>15. CASE shutdown_now
  <2>1. phase = "reboot" /\ UNCHANGED <<points, wd, sysrq, kernel>>
    BY <1>15 DEF shutdown_now, Quiet
  <2>2. UNCHANGED phase \/ (phase' = "paused" /\ ~kernel.reboot /\ ~sysrq)
    BY <1>15 DEF shutdown_now
  <2>3. wd.armed /\ kernel.sysrq => sysrq
    BY <1>1, <2>1 DEF TriggerHeld
  <2>4. QED
    BY <1>1, <1>2, <2>1, <2>2, <2>3 DEF TriggerHeld, LastResort
<1>16. QED
  BY <1>4, <1>5, <1>6, <1>7, <1>8, <1>9, <1>10, <1>11, <1>12, <1>13, <1>14, <1>15
     DEF PowerNext, PowerWork

(* The mounts are made parents first, read back in that order and          *)
(* unmounted in the reverse of it: what is still mounted on the point that *)
(* is due has refused both unmounts.                                       *)
LEMMA MountsStep ==
  PowerInv /\ [PowerNext]_powerVars => MountsOrdered' /\ LazyOnlyIfUsed'
<1> SUFFICES ASSUME PowerInv, [PowerNext]_powerVars PROVE MountsOrdered' /\ LazyOnlyIfUsed'
  OBVIOUS
<1>1. PowerTypes /\ MountsOrdered /\ LazyOnlyIfUsed
  BY DEF PowerInv
<1> DEFINE Early == {"setup", "loop", "stopping", "shutdown"}
<1>2. ASSUME UNCHANGED <<points, todo, inUse, stuck, gone>>,
             \/ phase' = phase
             \/ phase' \in Early /\ phase \in Early
             \/ phase' \in {"reboot", "paused"}
      PROVE  MountsOrdered' /\ LazyOnlyIfUsed'
  BY <1>1, <1>2 DEF MountsOrdered, LazyOnlyIfUsed, Distinct, ParentsFirst, ChildrenFirst, Contains
<1>3. CASE SetupFails \/ prepare \/ Request \/ StopDone
  BY <1>2, <1>3 DEF SetupFails, prepare, Request, StopDone, Quiet
<1>4. CASE feed_if_due \/ Tick \/ Hang \/ UNCHANGED powerVars
  BY <1>2, <1>4 DEF feed_if_due, Tick, Hang, powerVars, Quiet
<1>5. CASE sync \/ shutdown_now
  BY <1>2, <1>5 DEF sync, shutdown_now, Quiet
<1>6. CASE first_wave_mounts
  <2> DEFINE p == Head(todo)
  <2>1. /\ phase = "mounts" /\ todo # <<>> /\ UNCHANGED <<inUse, stuck, gone>>
        /\ points \in Seq(WavePoints) /\ todo \in Seq(WavePoints)
        /\ Distinct(points) /\ ParentsFirst(points) /\ Distinct(todo) /\ ParentsFirst(todo)
        /\ \A i \in 1 .. Len(points), j \in 1 .. Len(todo) :
             points[i] # todo[j] /\ Below(points[i]) # todo[j]
    BY <1>1, <1>6 DEF first_wave_mounts, PowerTypes, MountsOrdered, Quiet
  <2>2. /\ Len(todo) \in Nat \ {0} /\ p = todo[1] /\ Tail(todo) \in Seq(WavePoints)
        /\ Len(Tail(todo)) = Len(todo) - 1
        /\ \A j \in 1 .. Len(Tail(todo)) : Tail(todo)[j] = todo[j + 1] /\ j + 1 \in 1 .. Len(todo)
    BY <2>1
  <2>3. Distinct(Tail(todo)) /\ ParentsFirst(Tail(todo))
    BY <2>1, <2>2 DEF Distinct, ParentsFirst
  <2>4. LazyOnlyIfUsed' /\ stuck' \subseteq inUse'
    BY <1>1, <2>1 DEF LazyOnlyIfUsed, MountsOrdered
  <2>5. CASE points' = Append(points, p) /\ todo' = Tail(todo) /\ UNCHANGED phase
    <3>1. p \in WavePoints
      BY <2>1, <2>2
    <3>2. Len(points) \in Nat
      BY <2>1
    <3>3. /\ points' \in Seq(WavePoints) /\ Len(points') = Len(points) + 1
          /\ points'[Len(points) + 1] = p
          /\ \A i \in 1 .. Len(points) : points'[i] = points[i]
          /\ Len(points) \in Nat
      BY <2>1, <2>5, <3>1, <3>2
    <3>4. Distinct(points') /\ ParentsFirst(points')
      <4>1. Distinct(points')
        BY <2>1, <2>2, <3>3 DEF Distinct
      <4>2. Below(p) # p
        BY <2>1, <2>2 DEF ParentsFirst
      <4>3. ParentsFirst(points')
        BY <2>1, <2>2, <3>3, <4>2 DEF ParentsFirst
      <4>4. QED
        BY <4>1, <4>3
    <3>5. \A i \in 1 .. Len(points'), j \in 1 .. Len(todo') :
            points'[i] # todo'[j] /\ Below(points'[i]) # todo'[j]
      <4>1. ASSUME NEW j \in 1 .. Len(Tail(todo))
            PROVE  p # Tail(todo)[j] /\ Below(p) # Tail(todo)[j]
        BY <2>1, <2>2 DEF Distinct, ParentsFirst
      <4>2. ASSUME NEW i \in 1 .. Len(points), NEW j \in 1 .. Len(Tail(todo))
            PROVE  points[i] # Tail(todo)[j] /\ Below(points[i]) # Tail(todo)[j]
        BY <2>1, <2>2
      <4>3. ASSUME NEW i \in 1 .. Len(points')
            PROVE  i \in 1 .. Len(points) \/ i = Len(points) + 1
        BY <3>3
      <4>4. ASSUME NEW i \in 1 .. Len(points'), NEW j \in 1 .. Len(todo')
            PROVE  points'[i] # todo'[j] /\ Below(points'[i]) # todo'[j]
        <5>1. todo' = Tail(todo)
          BY <2>5
        <5>2. CASE i \in 1 .. Len(points)
          BY <3>3, <4>2, <5>1, <5>2
        <5>3. CASE i = Len(points) + 1
          BY <3>3, <4>1, <5>1, <5>3
        <5>4. QED
          BY <4>3, <5>2, <5>3
      <4>5. QED
        BY <4>4
    <3>6. QED
      BY <2>1, <2>2, <2>3, <2>4, <2>5, <3>3, <3>4, <3>5 DEF MountsOrdered
  <2>6. CASE todo' = Tail(todo) /\ UNCHANGED <<points, phase>>
    <3>1. \A i \in 1 .. Len(points'), j \in 1 .. Len(todo') :
            points'[i] # todo'[j] /\ Below(points'[i]) # todo'[j]
      BY <2>1, <2>2, <2>6
    <3>2. QED
      BY <2>1, <2>2, <2>3, <2>4, <2>6, <3>1 DEF MountsOrdered
  <2>7. CASE phase' = "shutdown" /\ UNCHANGED points
    BY <2>1, <2>4, <2>7 DEF MountsOrdered
  <2>8. QED
    BY <1>6, <2>5, <2>6, <2>7 DEF first_wave_mounts
<1>7. CASE report_fstab
  <2>1. /\ phase = "mounts" /\ phase' = "setup" /\ UNCHANGED <<inUse, stuck, gone>>
        /\ points' = points \/ points' = Append(points, FstabPoint)
    BY <1>7 DEF report_fstab, Quiet
  <2>2. points \in Seq(WavePoints) /\ Distinct(points) /\ ParentsFirst(points) /\ Len(points) \in Nat
    BY <1>1, <2>1 DEF MountsOrdered
  <2>3. LazyOnlyIfUsed' /\ stuck' \subseteq inUse'
    BY <1>1, <2>1 DEF LazyOnlyIfUsed, MountsOrdered
  <2>4. CASE points' = Append(points, FstabPoint)
    <3>1. /\ Len(points') = Len(points) + 1 /\ points'[Len(points) + 1] = FstabPoint
          /\ \A i \in 1 .. Len(points) : points'[i] = points[i] /\ points[i] \in WavePoints
      BY <2>2, <2>4
    <3>2. FstabPoint \notin WavePoints /\ \A q : Below(q) # FstabPoint
      BY BelowRange DEF FstabPoint, WavePoints
    <3>3. Distinct(points')
      BY <2>2, <3>1, <3>2 DEF Distinct
    <3>4. ParentsFirst(points')
      BY <2>2, <3>1, <3>2 DEF ParentsFirst
    <3>5. QED
      BY <2>1, <2>3, <3>3, <3>4 DEF MountsOrdered
  <2>5. CASE points' = points
    BY <2>1, <2>2, <2>3, <2>5 DEF MountsOrdered
  <2>6. QED
    BY <2>1, <2>4, <2>5
<1>8. CASE OpenTrigger
  <2>1. /\ phase = "shutdown" /\ phase' = "unmount" /\ UNCHANGED <<points, inUse, stuck, gone>>
        /\ todo' = Reverse(points) \/ todo' = <<>>
    BY <1>8 DEF OpenTrigger, Quiet, unmount_order
  <2>2. /\ points \in Seq(MountPoints) /\ Distinct(points) /\ ParentsFirst(points)
        /\ Len(points) \in Nat
    BY <1>1, <2>1 DEF PowerTypes, MountsOrdered
  <2>3. LazyOnlyIfUsed' /\ stuck' \subseteq inUse'
    BY <1>1, <2>1 DEF LazyOnlyIfUsed, MountsOrdered
  <2>4. CASE todo' = Reverse(points)
    <3>1. /\ Len(todo') = Len(points)
          /\ \A i \in 1 .. Len(points) : /\ todo'[i] = points[Len(points) - i + 1]
                                         /\ Len(points) - i + 1 \in 1 .. Len(points)
                                         /\ Len(points) - (Len(points) - i + 1) + 1 = i
      BY <2>2, <2>4 DEF Reverse
    <3>2. Distinct(todo')
      BY <2>2, <3>1 DEF Distinct
    <3>3. ASSUME NEW i \in 1 .. Len(points), NEW j \in 1 .. Len(points), i <= j
          PROVE  Below(todo'[j]) # todo'[i]
      <4> DEFINE a == Len(points) - j + 1
                 b == Len(points) - i + 1
      <4>1. a <= b
        BY <2>2, <3>3
      <4>2. a \in 1 .. Len(points) /\ b \in 1 .. Len(points)
        BY <3>1
      <4>3. todo'[j] = points[a] /\ todo'[i] = points[b]
        BY <3>1
      <4> HIDE DEF a, b
      <4>4. Below(points[a]) # points[b]
        BY <2>2, <4>1, <4>2 DEF ParentsFirst
      <4>5. QED
        BY <4>3, <4>4
    <3>4. ChildrenFirst(todo')
      BY <3>1, <3>3 DEF ChildrenFirst
    <3>5. \A i \in 1 .. Len(todo') : Contains(points', todo'[i])
      BY <2>1, <3>1 DEF Contains
    <3>6. ASSUME NEW i \in 1 .. Len(points) PROVE Contains(todo', points[i])
      <4>1. todo'[Len(points) - i + 1] = points[i]
        BY <3>1
      <4>2. QED
        BY <3>1, <4>1 DEF Contains
    <3>7. QED
      BY <2>1, <2>2, <2>3, <3>2, <3>4, <3>5, <3>6 DEF MountsOrdered
  <2>5. CASE todo' = <<>>
    BY <2>1, <2>3, <2>5 DEF MountsOrdered
  <2>6. QED
    BY <2>1, <2>4, <2>5
<1>9. CASE unmount_filesystems
  <2> DEFINE p == Head(todo)
  <2>1. /\ phase = "unmount" /\ todo # <<>> /\ UNCHANGED <<phase, inUse, stuck>>
        /\ todo' = Tail(todo)
        /\ points' = IF Busy(p) /\ p \in stuck THEN points ELSE RemoveAt(points, Topmost(points, p))
        /\ gone' = IF Busy(p) /\ p \notin stuck THEN gone \cup {p} ELSE gone
    BY <1>9 DEF unmount_filesystems, Quiet
  <2>2. /\ points \in Seq(MountPoints) /\ todo \in Seq(MountPoints)
        /\ Distinct(points) /\ Distinct(todo) /\ ChildrenFirst(todo)
        /\ \A i \in 1 .. Len(todo) : Contains(points, todo[i])
        /\ \A i \in 1 .. Len(points) : Contains(todo, points[i]) \/ points[i] \in stuck
        /\ stuck \subseteq inUse
    BY <1>1, <2>1 DEF PowerTypes, MountsOrdered
  <2>3. /\ Len(todo) \in Nat \ {0} /\ p = todo[1] /\ Len(todo') = Len(todo) - 1
        /\ \A j \in 1 .. Len(todo') : todo'[j] = todo[j + 1] /\ j + 1 \in 1 .. Len(todo)
    BY <2>1, <2>2
  <2> HIDE DEF p
  <2>4. Contains(points, p)
    BY <2>2, <2>3
  <2>5. /\ points' \in Seq(MountPoints) /\ Distinct(points')
        /\ \A q : q # p => (Contains(points', q) <=> Contains(points, q))
        /\ p \in stuck \/ ~Contains(points', p)
    <3>1. CASE Busy(p) /\ p \in stuck
      BY <2>1, <2>2, <3>1
    <3>2. CASE ~(Busy(p) /\ p \in stuck)
      <4>1. points' = RemoveAt(points, Topmost(points, p))
        BY <2>1, <3>2
      <4>2. QED
        BY <2>2, <2>4, <4>1, UnmountedOne
    <3>3. QED
      BY <3>1, <3>2
  <2>6. Distinct(todo') /\ ChildrenFirst(todo')
    <3>1. Distinct(todo')
      BY <2>2, <2>3 DEF Distinct
    <3>2. ASSUME NEW i \in 1 .. Len(todo'), NEW j \in 1 .. Len(todo'), i <= j
          PROVE  Below(todo'[j]) # todo'[i]
      <4>1. i + 1 <= j + 1
        BY <3>2
      <4>2. QED
        BY <2>2, <2>3, <4>1 DEF ChildrenFirst
    <3>3. QED
      BY <3>1, <3>2 DEF ChildrenFirst
  <2>7. ASSUME NEW i \in 1 .. Len(todo') PROVE Contains(points', todo'[i])
    <3>1. todo'[i] # p /\ Contains(points, todo'[i])
      BY <2>2, <2>3, SMTT(60) DEF Distinct
    <3>2. QED
      BY <2>5, <3>1
  <2>8. ASSUME NEW q, Contains(todo, q), q # p PROVE Contains(todo', q)
    <3>1. PICK i \in 1 .. Len(todo) : todo[i] = q
      BY <2>8 DEF Contains
    <3>2. i - 1 \in 1 .. Len(todo') /\ todo'[i - 1] = q
      BY <2>3, <2>8, <3>1
    <3>3. QED
      BY <3>2 DEF Contains
  <2>9. ASSUME NEW i \in 1 .. Len(points') PROVE Contains(todo', points'[i]) \/ points'[i] \in stuck'
    <3>1. Contains(points', points'[i])
      BY DEF Contains
    <3>2. CASE points'[i] = p
      BY <2>1, <2>5, <3>1, <3>2
    <3>3. CASE points'[i] # p
      <4>1. Contains(points, points'[i])
        BY <2>5, <3>1, <3>3
      <4>2. Contains(todo, points'[i]) \/ points'[i] \in stuck
        BY <2>2, <4>1 DEF Contains
      <4>3. QED
        BY <2>1, <2>8, <3>3, <4>2
    <3>4. QED
      BY <3>2, <3>3
  <2>10. MountsOrdered'
    BY <2>1, <2>2, <2>5, <2>6, <2>7, <2>9 DEF MountsOrdered
  <2>11. LazyOnlyIfUsed'
    <3>1. ASSUME Busy(p) PROVE p \in inUse \/ \E q \in stuck \cap inUse : Below(q) = p
      <4>1. CASE p \in inUse
        BY <4>1
      <4>2. ASSUME NEW q \in ToSet(points), Below(q) = p
            PROVE  \E r \in stuck \cap inUse : Below(r) = p
        <5>1. PICK i \in 1 .. Len(points) : points[i] = q
          BY <2>2, <4>2 DEF ToSet
        <5>2. ASSUME NEW j \in 1 .. Len(todo), todo[j] = q PROVE FALSE
          BY <2>2, <2>3, <4>2, <5>2 DEF ChildrenFirst
        <5>3. q \in stuck
          BY <2>2, <5>1, <5>2 DEF Contains
        <5>4. QED
          BY <2>2, <4>2, <5>3
      <4>3. QED
        BY <3>1, <4>1, <4>2 DEF Busy
    <3>2. QED
      BY <1>1, <2>1, <3>1 DEF LazyOnlyIfUsed
  <2>12. QED
    BY <2>10, <2>11
<1>10. QED
  BY <1>3, <1>4, <1>5, <1>6, <1>7, <1>8, <1>9 DEF PowerNext, PowerWork

(* From power-on to power-off, for every timeout the driver may settle on  *)
(* and every feed that may fail: a loop that iterates is never reset, the  *)
(* last pause is entered only when nothing could help, and a filesystem is *)
(* detached lazily only because it is in use (feed_if_due, shutdown_now,   *)
(* unmount_filesystems_with).                                              *)
THEOREM PowerIsAlwaysSafe == PowerSpec => []PowerIsSafe
<1>1. PowerInv /\ [PowerNext]_powerVars => PowerInv'
  BY FedStep, PowerTypesStep, TriggerStep, MountsStep DEF PowerInv
<1>2. PowerInv => PowerIsSafe
  <2>1. PowerInv => HealthyIsFed
    BY DEF PowerInv, PowerTypes, Fed, HealthyIsFed, Healthy
  <2>2. QED
    BY <2>1 DEF PowerInv, PowerIsSafe
<1>3. QED
  BY <1>1, <1>2, PowerInitInv, PTL DEF PowerSpec

(* The three hold together in the specification that is model-checked: a   *)
(* step of one machine leaves the others as they are.                      *)
THEOREM DaemonIsSafe == FairDaemon => [](ControlIsTrue /\ NoStrayWrite /\ PowerIsSafe)
<1>1. DaemonInit => ControlInit /\ SignalInit /\ PowerInit
  BY DEF DaemonInit
<1>2. [DaemonNext]_daemonVars =>
        [ControlNext]_controlVars /\ [SignalNext]_signalVars /\ [PowerNext]_powerVars
  BY DEF DaemonNext, daemonVars
<1>3. QED
  BY <1>1, <1>2, ControlIsAlwaysTrue, NeverStrayWrite, PowerIsAlwaysSafe, PTL
     DEF FairDaemon, ControlSpec, SignalSpec, PowerSpec
===============================================================================
