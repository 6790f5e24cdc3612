------------------------------- MODULE Sandbox -------------------------------
(***************************************************************************)
(* The privilege drop of a service: how the unit file's names become ids   *)
(* and capability sets (rinit/src/sandbox.rs over rinit-core/src/users.rs),*)
(* the order of the steps the child takes before it executes its program   *)
(* (rinit-core/src/unit/sandbox.rs), and what the kernel makes of each     *)
(* (the calls of rinit-runtime/src/syscall/cred.rs).                       *)
(***************************************************************************)
EXTENDS Naturals, FiniteSets, SequencesExt

(* The capabilities of the kernel, three of them needed by the drop        *)
(* itself.                                                                 *)
Caps == {"setgid", "setuid", "setpcap", "net"}
RootGroups == {0, 1}

(* Text that is a number, and what it says; everything else is a name.     *)
Numbers == [text \in {"0", "5", "6", "7", "8"} |->
  CASE text = "0" -> 0 [] text = "5" -> 5 [] text = "6" -> 6 [] text = "7" -> 7 [] OTHER -> 8]
IsNumber(text) == text \in DOMAIN Numbers

-------------------------------------------------------------------------------

(* Rows of the user and the group database.  A row that is too short has   *)
(* an empty field, which is no number either.                              *)
FirstRow(rows, Good(_)) ==
  SelectInSeq(rows, Good)

passwd_ids(passwd, name) ==
  LET i == FirstRow(passwd, LAMBDA r : r.name = name /\ IsNumber(r.uid) /\ IsNumber(r.gid))
  IN IF name = "" \/ i = 0 THEN <<>> ELSE <<Numbers[passwd[i].uid], Numbers[passwd[i].gid]>>

group_gid(groups, name) ==
  LET i == FirstRow(groups, LAMBDA r : r.name = name /\ IsNumber(r.gid))
  IN IF name = "" \/ i = 0 THEN <<>> ELSE <<Numbers[groups[i].gid]>>

supplementary_gids(groups, name) ==
  {Numbers[r.gid] : r \in {r \in ToSet(groups) : IsNumber(r.gid) /\ name \in r.members}}

(* What `User=` turned out to be; no ids when it is in no row.             *)
classify(user, passwd) ==
  CASE user = "" -> [kind |-> "Root", ids |-> <<0, 0>>]
    [] IsNumber(user) -> [kind |-> "Id", ids |-> <<Numbers[user], Numbers[user]>>]
    [] OTHER -> [kind |-> "Named", ids |-> passwd_ids(passwd, user)]

(* A directive that is unset is <<>>, one that is set holds its set.       *)
resolve_caps(names) == names = <<>> \/ names[1] \subseteq Caps

GroupOf(config, user, groups) ==
  CASE config.group = "" -> <<user.ids[2]>>
    [] IsNumber(config.group) -> <<Numbers[config.group]>>
    [] OTHER -> group_gid(groups, config.group)

(* Nothing when a name cannot be resolved.                                 *)
resolve_from(config, passwd, groups) ==
  LET user == classify(config.user, passwd)
      gid == GroupOf(config, user, groups)
      list == CASE user.kind = "Root" -> <<>>
                [] user.kind = "Id" -> <<{gid[1]}>>
                [] OTHER -> <<supplementary_gids(groups, config.user) \union {gid[1]}>>
  IN IF user.ids = <<>> \/ gid = <<>> \/ ~resolve_caps(config.bounding) \/ ~resolve_caps(config.ambient)
     THEN <<>>
     ELSE <<[uid |-> user.ids[1], gid |-> gid[1], groups |-> list,
             no_new_privileges |-> config.nnp,
             bounding_set |-> config.bounding, ambient |-> config.ambient]>>

(* A database is read only for a name that needs it; one that cannot be    *)
(* read is a failure.                                                      *)
needs_user_database(config) ==
  \E name \in {config.user, config.group} : name # "" /\ ~IsNumber(name)
resolve(config, passwd, groups, readable) ==
  LET named == ~IsNumber(config.user)
  IN CASE ~needs_user_database(config) -> resolve_from(config, <<>>, <<>>)
       [] (named /\ "passwd" \notin readable) \/ "group" \notin readable -> <<>>
       [] OTHER -> resolve_from(config, IF named THEN passwd ELSE <<>>, groups)

-------------------------------------------------------------------------------

OptStep(asked, step) == IF asked THEN step ELSE <<>>
steps_bug(s) ==
  OptStep(s.no_new_privileges, <<"NoNewPrivileges">>)
  \o OptStep(s.bounding_set # <<>>, <<"SetBoundingSet">>)
  \o OptStep(s.ambient # <<>>, <<"KeepCapabilities", "SetInheritable">>)
  \o OptStep(s.gid # 0, <<"SetGroup">>)
  \o OptStep(s.groups # <<>>, <<"SetGroups">>)
  \o OptStep(s.uid # 0, <<"SetUser">>)
  \o OptStep(s.ambient # <<>>, <<"RaiseAmbient">>)
steps(s) ==
  OptStep(s.no_new_privileges, <<"NoNewPrivileges">>)
  \o OptStep(s.ambient # <<>>, <<"KeepCapabilities", "SetInheritable">>)
  \o OptStep(s.bounding_set # <<>>, <<"SetBoundingSet">>)
  \o OptStep(s.gid # 0, <<"SetGroup">>)
  \o OptStep(s.groups # <<>>, <<"SetGroups">>)
  \o OptStep(s.uid # 0, <<"SetUser">>)
  \o OptStep(s.ambient # <<>>, <<"RaiseAmbient">>)

is_inherited(s) ==
  /\ ~s.no_new_privileges /\ s.ambient = <<>> /\ s.bounding_set = <<>>
  /\ s.gid = 0 /\ s.groups = <<>> /\ s.uid = 0

-------------------------------------------------------------------------------

(* The credentials of a process: its ids, the no-new-privileges and the    *)
(* keep-capabilities flag, and the five capability sets.  `ok` is false    *)
(* once a step was refused.                                                *)
RootCred ==
  [uid |-> 0, gid |-> 0, groups |-> RootGroups, nnp |-> FALSE, keep |-> FALSE,
   permitted |-> Caps, effective |-> Caps, inheritable |-> {}, bounding |-> Caps,
   ambient |-> {}, ok |-> TRUE]

Refuse(c) == [c EXCEPT !.ok = FALSE]
Allowed(c, cap, then) == IF cap \in c.effective THEN then ELSE Refuse(c)

set_inheritable(c, caps) ==
  IF c.inheritable \union caps \subseteq c.inheritable \union c.bounding
  THEN [c EXCEPT !.inheritable = @ \union caps]
  ELSE Refuse(c)

set_bounding_set(c, keep) ==
  IF Caps \subseteq keep THEN c
  ELSE Allowed(c, "setpcap", [c EXCEPT !.bounding = @ \intersect keep])

(* The kernel empties the ambient set at every change from root to another *)
(* user, and the permitted one unless it was told to keep it.              *)
set_uid(c, uid) ==
  IF uid = c.uid THEN c
  ELSE Allowed(c, "setuid",
         [c EXCEPT !.uid = uid, !.effective = {}, !.ambient = {},
                   !.permitted = IF c.keep THEN @ ELSE {}])

set_ambient(c, caps) ==
  IF caps = {} THEN [c EXCEPT !.ambient = {}]
  ELSE IF caps \subseteq c.permitted \intersect c.inheritable THEN [c EXCEPT !.ambient = @ \union caps]
  ELSE Refuse(c)

Take(c, s, step) ==
  CASE step = "NoNewPrivileges"  -> [c EXCEPT !.nnp = TRUE]
    [] step = "KeepCapabilities" -> [c EXCEPT !.keep = TRUE]
    [] step = "SetInheritable"   -> set_inheritable(c, s.ambient[1])
    [] step = "SetBoundingSet"   -> set_bounding_set(c, s.bounding_set[1])
    [] step = "SetGroup"         -> Allowed(c, "setgid", [c EXCEPT !.gid = s.gid])
    [] step = "SetGroups"        -> Allowed(c, "setgid", [c EXCEPT !.groups = s.groups[1]])
    [] step = "SetUser"          -> set_uid(c, s.uid)
    [] step = "RaiseAmbient"     -> set_ambient(c, s.ambient[1])

(* What the kernel gives the program: root starts with everything bounded  *)
(* or inheritable, any other user with the ambient set alone.              *)
Execve(c) ==
  LET given == IF c.uid = 0 THEN c.inheritable \union c.bounding ELSE {}
      held == IF c.nnp /\ ~(given \subseteq c.permitted) THEN given \intersect c.permitted ELSE given
  IN [c EXCEPT !.permitted = held \union c.ambient, !.effective = held \union c.ambient, !.keep = FALSE]

(* The child runs its steps in order and dies of the first refusal.        *)
Dropped(s) ==
  LET cred[n \in 0 .. Len(steps(s))] ==
        IF n = 0 THEN RootCred
        ELSE IF cred[n - 1].ok THEN Take(cred[n - 1], s, steps(s)[n]) ELSE cred[n - 1]
  IN cred[Len(steps(s))]
=============================================================================
