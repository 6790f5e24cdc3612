------------------------------- MODULE MCEvents -------------------------------
(***************************************************************************)
(* Four machines that share nothing, `Activation`, `Notify`, `Login` and   *)
(* `FileTools`: a behaviour is one of one of them.                         *)
(***************************************************************************)
EXTENDS Activation, Notify, Login, FileTools

CONSTANTS a, b

VARIABLE machine

Sent == {<<"READY=1">>, <<"STATUS">>, <<"READY=1", "bad">>}

(* Accounts: an administrator, a user with a broken line before the right  *)
(* one and an old one after it, a guest without a password, and a name     *)
(* that looks like an option.  The consoles differ in one thing each.      *)
User(name, uid, password) == [name |-> name, uid |-> uid, password |-> password]
Dates(name, hash, last, max, expire) ==
  [name |-> name, hash |-> hash, last |-> last, max |-> max, expire |-> expire]
Passwd ==
  <<User("root", 0, "x"), User("alice", Malformed, ""), User("alice", 6, "x"), User("guest", 7, ""),
    User("-f", 8, "!")>>
ShadowOf(line) ==
  <<Dates("root", "secret", Unset, Unset, Unset), line, Dates("alice", "", Unset, Unset, Unset),
    Dates("guest", "", Unset, 0, Unset)>>
Serial ==
  [path |-> [dev |-> FALSE, line |-> "ttyAMA0"], kind |-> "tty", ctty |-> FALSE, prompt |-> TRUE,
   timeout |-> FALSE, host |-> FALSE, passwd |-> Passwd,
   shadow |-> ShadowOf(Dates("alice", "wonder", 3, 4, Unset)), secure |-> TRUE, nologin |-> FALSE,
   writable |-> TRUE]
Dated(last, max, expire) == [Serial EXCEPT !.shadow = ShadowOf(Dates("alice", "wonder", last, max, expire))]
SomeConsoles ==
  {Serial, [Serial EXCEPT !.path.dev = TRUE], [Serial EXCEPT !.kind = "file"],
   [Serial EXCEPT !.kind = "outside"], [Serial EXCEPT !.ctty = TRUE],
   [Serial EXCEPT !.prompt = FALSE, !.secure = FALSE, !.host = TRUE],
   [Serial EXCEPT !.timeout = TRUE, !.nologin = TRUE], [Serial EXCEPT !.writable = FALSE],
   Dated(3, 2, Unset), Dated(3, Malformed, Unset), Dated(3, 0, 5), Dated(3, 0, 6),
   Dated(Malformed, 9, 9)}
SomeInput ==
  [names |-> {"root", "alice", "nobody", "guest", "-f", ""}, passwords |-> {"secret", "wonder"}]

Node(kind, list, data, mode) ==
  [kind |-> kind, list |-> list, data |-> data, mode |-> mode, time |-> "old"]
Folder(list, mode) == Node("dir", list, Empty, mode)
Plain(data, mode) == Node("file", <<>>, data, mode)
Link(to) == Node("link", <<>>, to, "")
Bare == <<>>

(* Inodes 1 to 4 are the root, `work`, the directory outside and its file. *)
(* The source is a tree of a file, a link and a directory with a file, or  *)
(* one of these alone, or a tree with a pipe in it.                        *)
Around(work) ==
  <<Folder([work |-> 2, away |-> 3], "rw"), Folder(work, "rw"), Folder([keep |-> 4], "rw"), Plain(7, "rw")>>
Tree == <<Folder([f |-> 6, l |-> 7, d |-> 8], "ro"), Plain(1, "ro"), Link(3), Folder([g |-> 9], "rw"), Plain(2, "rw")>>
Piped == <<Folder([f |-> 6, p |-> 7], "ro"), Plain(1, "rw"), Node("other", <<>>, Empty, "rw")>>
Small == <<Folder([g |-> 6], "ro"), Plain(1, "ro")>>

(* A destination is a name that is new, a file, an empty or a full         *)
(* directory, a link out, or a directory that has the source's name in it. *)
Dst(n) ==
  [new |-> <<>>, file |-> <<Plain(5, "rw")>>, empty |-> <<Folder(Bare, "rw")>>,
   full |-> <<Folder([x |-> n + 1], "rw"), Plain(5, "rw")>>,
   holds |-> <<Folder([s |-> n + 1], "rw"), Folder([f |-> n + 2, d |-> n + 3], "rw"), Link(3), Plain(6, "rw")>>,
   merge |-> <<Folder([s |-> n + 1], "rw"), Folder([f |-> n + 2, l |-> n + 3, d |-> n + 4], "rw"), Plain(6, "rw"),
               Link(0), Folder([h |-> n + 5], "ro"), Plain(8, "rw")>>]
Disk(src, dst) ==
  LET n == Len(src) + 5
      d == Dst(n)[dst]
  IN Around(IF d = <<>> THEN [s |-> 5] ELSE [s |-> 5, t |-> n]) \o src \o d

Work(name) == [in |-> 2, name |-> name]
Line(name, srcs, dst, dk) ==
  [tool |-> name, srcs |-> srcs, dst |-> dst, recursive |-> TRUE, preserve |-> FALSE, force |-> FALSE,
   no_clobber |-> FALSE, dir |-> FALSE, cross |-> TRUE, disk |-> dk, shared |-> {}, away |-> 3,
   outside |-> {3, 4}]

Copies ==
  LET cp(src, dst) == Line("cp", <<Work("s")>>, Work("t"), Disk(src, dst)) IN
  {[cp(Tree, dst) EXCEPT !.preserve = p] : dst \in {"new", "empty", "holds", "merge"}, p \in BOOLEAN}
  \cup {[cp(src, dst) EXCEPT !.force = f, !.no_clobber = n] :
          src \in {<<Plain(1, "ro")>>, <<Link(3)>>, Piped}, dst \in {"new", "file", "full"},
          f \in BOOLEAN, n \in BOOLEAN}
  \cup {[cp(Small, "new") EXCEPT !.recursive = FALSE]}

(* Into itself: under its own name, below it, and below it through a link. *)
Selves ==
  LET at(name) == [Disk(Tree, "new") \o <<Link(8)>> EXCEPT ![2].list = [s |-> 5, t |-> 10]] IN
  {Line("cp", <<Work("s")>>, dst, at("t")) : dst \in {Work("s"), Work("t"), [in |-> 8, name |-> "new"]}}

Moves ==
  LET mv(src, dst) == Line("mv", <<Work("s")>>, Work("t"), Disk(src, dst)) IN
  {[mv(src, dst) EXCEPT !.cross = c] :
     src \in {Small, <<Plain(1, "ro")>>, <<Link(3)>>, Piped, Tree}, dst \in {"new", "file", "full", "holds"}, c \in BOOLEAN}
  \cup {[mv(Small, "file") EXCEPT !.no_clobber = TRUE]}
  \* a temporary tree of an earlier process, and two sources
  \cup {Line("mv", <<Work("s")>>, Work("t"),
             Around([s |-> 5, t |-> 7, tmp |-> 8]) \o Small \o <<Plain(5, "rw"), Folder([x |-> 9], "rw"), Plain(9, "rw")>>)}
  \cup {Line("mv", <<Work("s"), Work("o")>>, Work("t"),
             Around([s |-> 5, o |-> 6, t |-> 7]) \o <<Plain(1, "rw"), Plain(2, "rw")>> \o <<t>>) :
          t \in {Folder(Bare, "rw"), Plain(5, "rw")}}

Removals ==
  {[Line("rm", <<Work("s"), Work("gone")>>, Nowhere, Disk(src, "new")) EXCEPT
      !.recursive = r, !.force = f, !.dir = d] :
     src \in {Tree, <<Link(3)>>, <<Folder(Bare, "rw")>>}, r \in BOOLEAN, f \in BOOLEAN, d \in BOOLEAN}
  \cup {[Line("rm", <<Work(".."), Work("s")>>, Nowhere, Disk(<<Link(1)>>, "new")) EXCEPT
           !.outside = {1, 2, 3, 4}]}

(* The same trees, with somebody else at work in them.                     *)
Races ==
  {[Line("rm", <<Work("s")>>, Nowhere, Disk(Tree, "new")) EXCEPT !.shared = {2, 5, 8}],
   [Line("cp", <<Work("s")>>, Work("t"), Disk(Tree, "new")) EXCEPT !.shared = {2, 5, 8}],
   [Line("cp", <<Work("s")>>, Work("t"), Disk(Small, "holds")) EXCEPT !.shared = {5, 7, 8}],
   [Line("cp", <<Work("s")>>, Work("t"), Disk(<<Plain(1, "rw")>>, "file")) EXCEPT !.shared = {2}, !.force = TRUE],
   [Line("mv", <<Work("s")>>, Work("t"), Disk(Small, "full")) EXCEPT !.shared = {5, 7}],
   [Line("mv", <<Work("s")>>, Work("t"), Disk(Small, "new")) EXCEPT !.shared = {2, 5}]}

(* Nothing to do.                                                          *)
OneErrand == [Line("rm", <<>>, Nowhere, <<>>) EXCEPT !.outside = {}]
SomeErrands == {OneErrand} \cup Copies \cup Selves \cup Moves \cup Removals \cup Races

(* Not in the run: a file copied onto itself.                              *)
SameFile ==
  {[Line("cp", <<Work("s")>>, Work("s"), Disk(<<Plain(1, "rw")>>, "new")) EXCEPT !.force = f] : f \in BOOLEAN}

EventsInit ==
  /\ machine \in {"socket", "hub", "login", "tool"}
  /\ Init /\ HubInit /\ LoginInit /\ FileInit
  /\ machine # "login" => console = Serial
  /\ machine # "tool" => errand = OneErrand
EventsNext ==
  /\ \/ machine = "socket" /\ Next /\ UNCHANGED <<hub, loginVars, fileVars>>
     \/ machine = "hub" /\ HubNext /\ UNCHANGED <<vars, loginVars, fileVars>>
     \/ machine = "login" /\ LoginNext /\ UNCHANGED <<vars, hub, fileVars>>
     \/ machine = "tool" /\ FileNext /\ UNCHANGED <<vars, hub, loginVars>>
  /\ UNCHANGED machine
all == <<machine, vars, hub, loginVars, fileVars>>

(* The tasks of the reactor run when they can.  A full channel serves      *)
(* those who wait for it in the order they came, so a reader gets its turn *)
(* even if the channel is full again and again.  rgetty, rlogin and the    *)
(* tools run, and who sits at the console answers.                         *)
EventsFairness ==
  /\ \A k \in Obligations : WF_all(machine = "socket" /\ Obligation(k) /\ UNCHANGED <<machine, hub, loginVars, fileVars>>)
  /\ WF_all(machine = "hub" /\ recv /\ UNCHANGED <<machine, vars, loginVars, fileVars>>)
  /\ \A u \in Services :
       /\ WF_all(machine = "hub" /\ read(u) /\ UNCHANGED <<machine, vars, loginVars, fileVars>>)
       /\ SF_all(machine = "hub" /\ enqueue(u) /\ UNCHANGED <<machine, vars, loginVars, fileVars>>)
  /\ WF_all(machine = "login" /\ (RgettyStep \/ RloginStep \/ Answer) /\ UNCHANGED <<machine, vars, hub, fileVars>>)
  /\ WF_all(machine = "tool" /\ ToolStep /\ UNCHANGED <<machine, vars, hub, loginVars>>)
FairEvents == EventsInit /\ [][EventsNext]_all /\ EventsFairness

(* What happens outside has its effect: a connection is reported, and is   *)
(* honoured though it came during the boot; a service that says it is      *)
(* ready is heard in any flood; a login that is answered comes to a shell  *)
(* or to its end; and cp, mv and rm finish (watch, supervise, NotifyHub,   *)
(* rgetty, rlogin, and the three tools).                                   *)
EventsSettle ==
  /\ NotDeaf
  /\ WakeIsHonoured
  /\ ReadyIsHeard
  /\ LoginSettles
  /\ ToolEnds
===============================================================================
