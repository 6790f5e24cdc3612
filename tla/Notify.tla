-------------------------------- MODULE Notify --------------------------------
(***************************************************************************)
(* The notify sockets: crates/rinit/src/notify.rs, the datagrams of        *)
(* crates/rinit-core/src/unit/notify.rs, and what the supervisor loop does *)
(* with a message.  A reader task per armed unit moves datagrams from the  *)
(* unit's socket to one of two bounded channels, which the loop empties.   *)
(* The channels carry the name of the unit and not which of its processes  *)
(* has sent; `from` is there for the properties.                           *)
(***************************************************************************)
EXTENDS Naturals, Sequences, SequencesExt

CONSTANTS
  Services,     \* the Type=notify units
  Datagrams,    \* what a service may send, each a sequence of lines
  Queue,        \* NOTIFY_QUEUE
  Buffer,       \* bound on the datagrams the kernel keeps for a socket
  Instances     \* how many processes of a unit are told apart

ASSUME NotifyAssumption == {Queue, Buffer, Instances} \subseteq Nat \ {0}

VARIABLES
  unit,      \* per unit: the instance it is at, and its state
  socket,    \* per unit: datagrams in its socket, <<>> when it is not armed
  reader,    \* per unit: the reader task and the message it could not send yet
  readyq,    \* the channel of READY=1
  statusq    \* the channel of everything else

hub == <<unit, socket, reader, readyq, statusq>>

Nothing == [kind |-> "none", from |-> 0]
HubInit ==
  /\ unit = [u \in Services |-> [instance |-> 0, state |-> "Down"]]
  /\ socket = [u \in Services |-> <<>>]
  /\ reader = [u \in Services |-> [armed |-> FALSE, holds |-> Nothing]]
  /\ readyq = <<>> /\ statusq = <<>>

(* parse: the last READY= of the datagram counts, a line without `=` makes *)
(* it a bad one, and what is not known is passed over.                     *)
parse_notify(lines) ==
  IF "bad" \in ToSet(lines) THEN "bad"
  ELSE LET Ready == {i \in DOMAIN lines : lines[i] \in {"READY=1", "READY=0"}}
       IN IF Ready # {} /\ lines[CHOOSE i \in Ready : \A j \in Ready : j <= i] = "READY=1"
          THEN "ready" ELSE "status"

(* NotifyHub::arm, before the unit's process is started: the old socket    *)
(* and its reader are gone, with what they held.                           *)
arm(u) ==
  /\ unit[u].state = "Down"
  /\ unit' = [unit EXCEPT ![u] = [instance |-> (@.instance % Instances) + 1, state |-> "Starting"]]
  /\ socket' = [socket EXCEPT ![u] = <<>>]
  /\ reader' = [reader EXCEPT ![u] = [armed |-> TRUE, holds |-> Nothing]]
  /\ UNCHANGED <<readyq, statusq>>

send(u, lines) ==
  /\ unit[u].state # "Down" /\ reader[u].armed /\ Len(socket[u]) < Buffer
  /\ socket' = [socket EXCEPT ![u] = Append(@, [kind |-> parse_notify(lines),
                                                from |-> unit[u].instance])]
  /\ UNCHANGED <<unit, reader, readyq, statusq>>

(* spawn_reader: a bad datagram is dropped with a warning. *)
read(u) ==
  /\ reader[u].armed /\ reader[u].holds = Nothing /\ socket[u] # <<>>
  /\ socket' = [socket EXCEPT ![u] = Tail(@)]
  /\ reader' = [reader EXCEPT ![u].holds =
                  IF Head(socket[u]).kind = "bad" THEN Nothing ELSE Head(socket[u])]
  /\ UNCHANGED <<unit, readyq, statusq>>

(* The bounded send: the reader waits while the channel is full. *)
enqueue(u) ==
  /\ reader[u].holds # Nothing
  /\ LET item == [unit |-> u, msg |-> reader[u].holds]
     IN \/ /\ item.msg.kind = "ready" /\ Len(readyq) < Queue
           /\ readyq' = Append(readyq, item) /\ UNCHANGED statusq
        \/ /\ item.msg.kind = "status" /\ Len(statusq) < Queue
           /\ statusq' = Append(statusq, item) /\ UNCHANGED readyq
  /\ reader' = [reader EXCEPT ![u].holds = Nothing]
  /\ UNCHANGED <<unit, socket>>

(* recv, readiness first, and on_notify. *)
Heard(q) ==
  LET item == Head(q)
  IN unit' = [unit EXCEPT ![item.unit].state =
                IF item.msg.kind = "ready" /\ @ = "Starting" THEN "Active" ELSE @]
recv ==
  /\ \/ /\ readyq # <<>> /\ Heard(readyq)
        /\ readyq' = Tail(readyq) /\ UNCHANGED statusq
     \/ /\ readyq = <<>> /\ statusq # <<>> /\ Heard(statusq)
        /\ statusq' = Tail(statusq) /\ UNCHANGED readyq
  /\ UNCHANGED <<socket, reader>>

(* The service dies; its socket stays armed until the next start. *)
gone(u) ==
  /\ unit[u].state # "Down"
  /\ unit' = [unit EXCEPT ![u].state = "Down"]
  /\ UNCHANGED <<socket, reader, readyq, statusq>>

(* NotifyHub::disarm, by a reload or the shutdown. *)
disarm(u) ==
  /\ unit[u].state = "Down" /\ reader[u].armed
  /\ reader' = [reader EXCEPT ![u] = [armed |-> FALSE, holds |-> Nothing]]
  /\ socket' = [socket EXCEPT ![u] = <<>>]
  /\ UNCHANGED <<unit, readyq, statusq>>

HubNext ==
  \/ recv
  \/ \E u \in Services :
       \/ arm(u) \/ read(u) \/ enqueue(u) \/ gone(u) \/ disarm(u)
       \/ \E lines \in Datagrams : send(u, lines)

HubSpec == HubInit /\ [][HubNext]_hub

-------------------------------------------------------------------------------

(* A service that says it is ready is heard, however much the others send: *)
(* its unit becomes Active, or it is gone before that.                     *)
ReadyIsHeard ==
  \A u \in Services :
    unit[u].state = "Starting" /\ reader[u].holds.kind = "ready" ~> unit[u].state # "Starting"

(* "started when the service sends READY=1", says docs/units.md, and "a    *)
(* previous socket for the same unit is stale by definition", says arm: a  *)
(* unit becomes ready by a message of the process it has now.              *)
ReadyIsOwn ==
  [][\A u \in Services :
       unit[u].state = "Starting" /\ unit'[u].state = "Active" =>
         readyq # <<>> /\ Head(readyq).msg.from = unit[u].instance]_hub
===============================================================================
