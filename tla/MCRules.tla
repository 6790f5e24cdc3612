------------------------------- MODULE MCRules -------------------------------
(***************************************************************************)
(* The rules of the system, one at a time: its pure algorithms on every    *)
(* small input, the persisted log, the start limit and the job queue on    *)
(* every short sequence of calls, and the reload of a directory.           *)
(***************************************************************************)
EXTENDS Dependency, UnitFile, Frames, Fstab, Logs, Sandbox, Backoff, JobQueue, Reload

-----------------------------------------------------------------------------
(***************************************************************************)
(* `Sandbox` on every configuration of a unit and every small user and     *)
(* group database.                                                         *)
(***************************************************************************)
CONSTANT MaxRows   \* bound on the rows of the two databases

UserRows == {[file |-> "passwd", name |-> "www", uid |-> u, gid |-> g, members |-> {}] :
               u \in {"6"}, g \in {"5", ""}}
            \union {[file |-> "passwd", name |-> "www", uid |-> "8", gid |-> "0", members |-> {}]}
GroupRows == {[file |-> "group", name |-> n, uid |-> "", gid |-> g, members |-> m] :
                n \in {"adm"}, g \in {"7", ""}, m \in {{}, {"www"}}}
SandboxAlphabet == [sandbox |-> UserRows \union GroupRows]
SandboxLongest == [sandbox |-> MaxRows]

CapSettings == {<<>>, <<{}>>, <<{"net"}>>, <<{"typo"}>>}
UnitConfigs ==
  [user : {"", "0", "7", "www"}, group : {"", "8", "adm"}, nnp : BOOLEAN,
   bounding : CapSettings, ambient : CapSettings]

RowsOf(file) == SelectSeq(input, LAMBDA r : r.file = file)

-------------------------------------------------------------------------------

(* What a unit asks for: a name stands for its first complete row, a group *)
(* follows the user unless it is named, and no name is ever guessed.       *)
Rows(file, name) == {r \in ToSet(RowsOf(file)) : r.name = name /\ IsNumber(r.gid)}
NameOfNone(file, name) == name # "" /\ ~IsNumber(name) /\ Rows(file, name) = {}
Unresolvable(config) ==
  \/ NameOfNone("passwd", config.user)
  \/ NameOfNone("group", config.group)
  \/ \E set \in {config.bounding, config.ambient} : set = <<{"typo"}>>

(* A child of a root daemon is refused none of its steps, whatever was     *)
(* combined, and its program starts with exactly the user, the groups and  *)
(* the capabilities asked for: no group of root's under another user, no   *)
(* capability but the ambient ones there, and under root those that are    *)
(* bounded or ambient.  A name that is in no complete row, or an unknown   *)
(* capability, fails the start.                                            *)
Asked(set, default) == IF set = <<>> THEN default ELSE set[1]
ChildIsAsked(config, child) ==
  LET own == supplementary_gids(RowsOf("group"), config.user)
  IN /\ child.ok
     /\ child.nnp = config.nnp
     /\ config.user = "www" => child.uid # 0 /\ child.groups = own \union {child.gid}
     /\ config.user \in {"0", "7"} => child.groups = {child.gid}
     /\ config.user = "" => child.uid = 0 /\ child.groups = RootGroups
     /\ config.group = "8" => child.gid = 8
     /\ config.group = "adm" => child.gid = 7
     /\ config.group = "" /\ config.user \in {"7", "0"} => child.gid = child.uid
     /\ child.effective =
          Asked(config.ambient, {})
            \union (IF child.uid = 0 THEN Asked(config.bounding, Caps) ELSE {})
DropIsExact ==
  subject = "sandbox" =>
    \A config \in UnitConfigs :
      LET s == resolve_from(config, RowsOf("passwd"), RowsOf("group"))
      IN /\ (s = <<>>) = Unresolvable(config)
         /\ s # <<>> => ChildIsAsked(config, Execve(Dropped(s[1])))

(* A child that is started without a drop is one whose credentials a drop  *)
(* would have left alone, and a unit that names nobody does not depend on  *)
(* the databases.                                                          *)
InheritedIsUnchanged ==
  subject = "sandbox" =>
    \A config \in UnitConfigs :
      LET s == resolve(config, RowsOf("passwd"), RowsOf("group"), {})
          t == resolve_from(config, RowsOf("passwd"), RowsOf("group"))
      IN /\ t # <<>> /\ is_inherited(t[1]) => Dropped(t[1]) = RootCred /\ steps(t[1]) = <<>>
         /\ s # <<>> => s = t
         /\ config.user # "www" /\ config.group # "adm" => s = t

(* A privilege drop leaves a service what its unit asks for and nothing    *)
(* else, in every combination of keys, and a unit that asks for none takes *)
(* the path without one (steps, is_inherited).                             *)
DropIsRight ==
  /\ DropIsExact
  /\ InheritedIsUnchanged

-----------------------------------------------------------------------------
(***************************************************************************)
(* `Reload` with a service, another it may require, and an instance of a   *)
(* template, in directories that differ in one or more of them.            *)
(***************************************************************************)
CONSTANTS web, store, inst

Sorted == <<web, store, inst>>
RequiredFirst == <<store, web, inst>>

Unit(version, requires, path) == [version |-> version, requires |-> requires, path |-> path]
Dir(files, order, templated) ==
  [ok |-> TRUE, files |-> files, levels |-> order, template |-> templated]

(* web requires store, which has a socket; store is gone and its socket is *)
(* web's; that socket has moved; a directory that is refused.              *)
Both == Dir(web :> Unit(1, {store}, None) @@ store :> Unit(1, {}, "p"), <<store, web>>, FALSE)
Alone == Dir(web :> Unit(2, {}, "p"), <<web>>, FALSE)
Moved == Dir(web :> Unit(2, {}, "q"), <<web>>, FALSE)
Broken == [Both EXCEPT !.ok = FALSE]

(* A socket passes from a unit to one that comes before it, and back. *)
Later == Dir(web :> Unit(1, {}, None) @@ store :> Unit(1, {}, "p"), <<store, web>>, FALSE)
Sooner == Dir(web :> Unit(1, {}, "p") @@ store :> Unit(1, {}, None), <<store, web>>, FALSE)

(* A template that comes and goes. *)
Template == Dir(web :> Unit(1, {}, None), <<web>>, TRUE)
NoTemplate == Dir(web :> Unit(1, {}, None), <<web>>, FALSE)

Changes == {{Both, Alone, Broken}, {Alone, Moved}, {Later, Sooner}, {Template, NoTemplate}}

(* The directories of the finding: store is removed, and the reference.    *)
Removal == {{Both, Alone}}

-----------------------------------------------------------------------------

Alphabet == TextAlphabet @@ ProtocolAlphabet @@ FstabAlphabet @@ LogAlphabet
            @@ SandboxAlphabet @@ ArgsAlphabet
Longest == TextLongest @@ ProtocolLongest @@ FstabLongest @@ LogLongest
           @@ SandboxLongest @@ ArgsLongest

(* The initial state picks the subject, and nothing moves but the subject. *)
planVars == <<dir, refs, plan>>
Calls == {"plan", "logs", "limit", "queue", "reload"}
Init ==
  /\ input = <<>>
  /\ subject \in DOMAIN Alphabet \cup Calls
  /\ LogInit /\ BackoffInit /\ JobInit /\ ReloadInit
  /\ IF subject = "plan" THEN PlanInit ELSE dir = <<>> /\ refs = 0 /\ plan = <<>>
  /\ subject # "logs" => log.keep = 0 /\ log.written = 0
  /\ subject # "limit" => base = 0 /\ burst = 1 /\ interval = 0
  /\ subject # "reload" => loaded = Template
Next ==
  \/ /\ subject = "plan" /\ PlanNext
     /\ UNCHANGED <<subject, input, logVars, backoffVars, jobVars, reloadVars>>
  \/ /\ subject = "logs" /\ LogNext
     /\ UNCHANGED <<subject, input, planVars, backoffVars, jobVars, reloadVars>>
  \/ /\ subject = "limit" /\ BackoffNext
     /\ UNCHANGED <<subject, input, planVars, logVars, jobVars, reloadVars>>
  \/ /\ subject = "queue" /\ JobNext
     /\ UNCHANGED <<subject, input, planVars, logVars, backoffVars, reloadVars>>
  \/ /\ subject = "reload" /\ ReloadNext
     /\ UNCHANGED <<subject, input, planVars, logVars, backoffVars, jobVars>>
  \/ /\ subject \notin Calls
     /\ Write(Alphabet[subject], Longest[subject])
     /\ UNCHANGED <<planVars, logVars, backoffVars, jobVars, reloadVars>>
Spec == Init /\ [][Next]_<<subject, input, planVars, logVars, backoffVars, jobVars, reloadVars>>

(* What an operator writes, in a unit file or on the command line of       *)
(* rinit, is read as it is meant or refused: comments, quotes and          *)
(* continuations, names and their templates, keys, and arguments that      *)
(* belong to a service.                                                    *)
TextIsRead ==
  /\ CommentsAgree
  /\ QuotedIsLiteral
  /\ LinesKeepTheirNumber
  /\ NameRoundTrips
  /\ SubstituteIsLocal
  /\ NothingSilent
  /\ AcceptedRuns
  /\ ArgumentsMean

(* The output of a service survives its way to rctl log: however it is     *)
(* read in pieces, limited, queued, dropped, rotated and cut, what is      *)
(* shown is in order, of that service, and what is missing is told.        *)
LogsAreRight ==
  /\ CutsDoNotMatter
  /\ RingHoldsNewest
  /\ SuppressionIsTold
  /\ BurstHolds
  /\ InOrder
  /\ OwnLinesOnly
  /\ GapsAreTold
  /\ HistoryIsKept
  /\ FileIsBounded
=============================================================================
