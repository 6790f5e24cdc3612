------------------------------- MODULE FileTools ------------------------------
(***************************************************************************)
(* cp, mv and rm (rinit-tools/src/bin) over the tree operations of         *)
(* rinit-tools/src/fsutil.rs, a system call at a time.  Another process    *)
(* may put a symbolic link in the place of an entry between two calls, and *)
(* a call may fail.  The tools run as root, so permissions refuse nothing. *)
(*                                                                         *)
(* A file system is a sequence of inodes.  An operand is a directory and a *)
(* name in it: nobody changes the path that leads there.                   *)
(***************************************************************************)
EXTENDS Naturals, FiniteSets, Sequences, SequencesExt

CONSTANTS
  Errands,   \* command lines, each with the disk it finds
  Swaps,     \* bound on the links that the other process makes
  IoErrors   \* bound on the calls that fail

VARIABLES
  errand,    \* the command line, chosen once
  disk,      \* the inodes: kind, list, data, mode, time
  tool,      \* the process
  mishaps    \* swaps and failed calls so far, and those of them whose result is not looked at
fileVars == <<errand, disk, tool, mishaps>>

Root == 1
Empty == 0   \* the contents of a truncated file
Part == 99   \* the contents of a file whose copy stopped half-way

-------------------------------------------------------------------------------
(* The kernel's view of a directory.  Changing one changes its time.       *)
KindAt(fs, in, name) ==
  IF name \in DOMAIN fs[in].list THEN fs[fs[in].list[name]].kind ELSE "none"
Inode(fs, path) == fs[path.in].list[path.name]
Kind(fs, path) == KindAt(fs, path.in, path.name)
Follow(fs, i) == IF fs[i].kind = "link" THEN fs[i].data ELSE i
IsDir(fs, path) ==
  /\ Kind(fs, path) # "none"
  /\ LET i == Follow(fs, Inode(fs, path)) IN i # 0 /\ fs[i].kind = "dir"
Put(fs, in, name, i) ==
  [fs EXCEPT ![in].list = [n \in DOMAIN @ \cup {name} |-> IF n = name THEN i ELSE @[n]],
             ![in].time = "new"]
Unlink(fs, in, name) ==
  [fs EXCEPT ![in].list = [n \in DOMAIN @ \ {name} |-> @[n]], ![in].time = "new"]
Create(fs, in, name, kind, data, mode) ==
  Put(Append(fs, [kind |-> kind, list |-> <<>>, data |-> data, mode |-> mode, time |-> "new"]),
      in, name, Len(fs) + 1)

RECURSIVE Below(_, _)
Below(fs, i) == {i} \cup UNION {Below(fs, fs[i].list[n]) : n \in DOMAIN fs[i].list}

(* rename(2) on one file system.                                           *)
Renamed(fs, src, dst) == Put(Unlink(fs, src.in, src.name), dst.in, dst.name, Inode(fs, src))
RenameAllowed(fs, src, dst) ==
  /\ Kind(fs, src) # "none"
  /\ IF Kind(fs, src) = "dir"
       THEN /\ Kind(fs, dst) = "none" \/ (Kind(fs, dst) = "dir" /\ fs[Inode(fs, dst)].list = <<>>)
            /\ dst.in \notin Below(fs, Inode(fs, src))
       ELSE Kind(fs, dst) # "dir"

-------------------------------------------------------------------------------
(* The process: where it is, the operands left, the operand at hand with   *)
(* its target, the entry at hand, the directories it is in, the result of  *)
(* the last call and where it goes.                                        *)
Nowhere == [in |-> 0, name |-> ""]
FileInit ==
  /\ errand \in Errands /\ disk = errand.disk
  /\ tool = [pc |-> "run", todo |-> errand.srcs, into |-> FALSE, src |-> Nowhere, dst |-> Nowhere,
             to |-> Nowhere, item |-> Nowhere, stack |-> <<>>, ok |-> TRUE, then |-> "", bad |-> FALSE]
  /\ mishaps = [swaps |-> 0, errors |-> 0, ignored |-> 0]

Went(to) == tool' = to /\ UNCHANGED errand
Goes(to) == Went(to) /\ UNCHANGED mishaps
NextOperand(ok) == [tool EXCEPT !.pc = "operand", !.todo = Tail(@), !.bad = @ \/ ~ok]
After(ok) == [tool EXCEPT !.pc = tool.then, !.ok = ok, !.stack = <<>>, !.item = Nowhere]
Fail == Goes(After(FALSE)) /\ UNCHANGED disk
CallCopy(to, then) ==
  [tool EXCEPT !.pc = "copy", !.to = to, !.then = then, !.item = Nowhere]
CallRemove(path, then) == [tool EXCEPT !.pc = "remove", !.item = path, !.then = then]

(* The loop over the operands, after a look at DEST that is made once.     *)
(* More than one source needs a directory.                                 *)
run ==
  /\ tool.pc = "run"
  /\ LET into == errand.tool # "rm" /\ IsDir(disk, errand.dst) IN
     Goes(IF errand.tool # "rm" /\ Len(errand.srcs) > 1 /\ ~into
            THEN [tool EXCEPT !.pc = "exit", !.bad = TRUE]
            ELSE [tool EXCEPT !.pc = "operand", !.into = into])
  /\ UNCHANGED disk
target_for(src) ==
  IF tool.into THEN [in |-> Follow(disk, Inode(disk, errand.dst)), name |-> src.name] ELSE errand.dst
operand ==
  /\ tool.pc = "operand"
  /\ Goes(IF tool.todo = <<>>
            THEN [tool EXCEPT !.pc = "exit"]
            ELSE [tool EXCEPT !.pc = errand.tool, !.src = Head(tool.todo),
                              !.dst = IF errand.tool = "rm" THEN Nowhere ELSE target_for(Head(tool.todo))])
  /\ UNCHANGED disk
done ==
  /\ tool.pc = "done"
  /\ Goes(NextOperand(tool.ok)) /\ UNCHANGED disk

-------------------------------------------------------------------------------
(* cp.  The canonical destination is the directory that the path leads to, *)
(* or its parent's and a name that is not there yet.                       *)
canonical_destination(dst) ==
  IF Kind(disk, dst) = "none" \/ Follow(disk, Inode(disk, dst)) = 0
    THEN dst.in
    ELSE Follow(disk, Inode(disk, dst))
IntoItself(src, dst) == canonical_destination(dst) \in Below(disk, Inode(disk, src))

Recursive == errand.tool = "mv" \/ errand.recursive
Preserve == errand.tool = "mv" \/ errand.preserve
Refused(src, dst) ==
  \/ Kind(disk, src) = "none"
  \/ Kind(disk, src) = "dir" /\ (~Recursive \/ IntoItself(src, dst))
copy_one ==
  /\ tool.pc = "cp"
  /\ LET kind == Kind(disk, tool.src) IN
     Goes(IF errand.no_clobber /\ Kind(disk, tool.dst) # "none"
            THEN NextOperand(TRUE)
            ELSE IF Refused(tool.src, tool.dst)
                   THEN NextOperand(FALSE)
                   ELSE IF errand.force /\ kind \in {"file", "link"}
                          THEN [CallCopy(tool.dst, "done") EXCEPT !.pc = "force", !.item = [kind |-> kind]]
                          ELSE CallCopy(tool.dst, "done"))
  /\ UNCHANGED disk

(* -f: the source opens, then the old destination goes.                    *)
Opens(path, kind) ==
  /\ Kind(disk, path) # "none"
  /\ IF kind = "link" THEN Kind(disk, path) = "link" ELSE Follow(disk, Inode(disk, path)) # 0
force ==
  /\ tool.pc = "force"
  /\ IF Kind(disk, tool.dst) \in {"none", "dir"}
       THEN Goes(CallCopy(tool.dst, "done")) /\ UNCHANGED disk
       ELSE IF Opens(tool.src, tool.item.kind)
              THEN /\ disk' = Unlink(disk, tool.dst.in, tool.dst.name)
                   /\ Goes(CallCopy(tool.dst, "done"))
              ELSE Fail

-------------------------------------------------------------------------------
(* Copying a tree.  The entry at hand is a name in an open directory; what *)
(* was seen of it by its stat decides what is done with it.                *)
Stat(in, name, to, as) ==
  LET node == disk[disk[in].list[name]] IN
  [pc |-> node.kind,
   item |-> [in |-> in, name |-> name, to |-> to, as |-> as, mode |-> node.mode,
             time |-> node.time, open |-> 0, out |-> 0, new |-> TRUE]]
Handle(stat) == [tool EXCEPT !.pc = stat.pc, !.item = stat.item]
copy_entry ==
  /\ tool.pc = "copy"
  /\ IF Kind(disk, tool.src) = "none" \/ (Kind(disk, tool.src) = "dir" /\ ~Recursive)
       THEN Fail
       ELSE /\ Goes(Handle(Stat(tool.src.in, tool.src.name, tool.to.in, tool.to.name)))
            /\ UNCHANGED disk

ItemDone == IF tool.stack = <<>> THEN After(TRUE) ELSE [tool EXCEPT !.pc = "entries"]
Meta(fs, i, set, item) ==
  [fs EXCEPT ![i].mode = IF "mode" \in set THEN item.mode ELSE @,
             ![i].time = IF "time" \in set /\ Preserve THEN item.time ELSE @]
AllMeta == {"mode", "time"}

(* A directory is opened and made, or found there; its copy is opened      *)
(* without following a link, filled, and gets its mode and time last.  The *)
(* top one gets its mode first, unless it was there.  What is made has the *)
(* mode that the umask leaves until it is set.                             *)
open_directory_bug(in, name) ==
  CASE KindAt(disk, in, name) = "dir" -> disk[in].list[name]
    [] KindAt(disk, in, name) = "link" -> disk[disk[in].list[name]].data
    [] OTHER -> 0
open_directory(in, name) ==
  IF KindAt(disk, in, name) = "dir" THEN disk[in].list[name] ELSE 0
copy_directory ==
  /\ tool.pc = "dir"
  /\ LET i == open_directory(tool.item.in, tool.item.name)
         there == KindAt(disk, tool.item.to, tool.item.as) # "none"
     IN IF i = 0
          THEN Fail
          ELSE /\ disk' = IF there
                            THEN disk
                            ELSE Create(disk, tool.item.to, tool.item.as, "dir", Empty, "masked")
               /\ Goes([tool EXCEPT !.pc = "enter", !.item.open = i,
                                    !.item.new = ~there])
enter ==
  /\ tool.pc = "enter"
  /\ LET o == open_directory(tool.item.to, tool.item.as) IN
     IF o = 0
       THEN Fail
       ELSE /\ Goes([tool EXCEPT !.pc = "entries",
                                 !.stack = <<[from |-> tool.item.open, into |-> o, seen |-> {},
                                              item |-> tool.item]>> \o @])
            /\ disk' = IF tool.stack = <<>> /\ tool.item.new
                         THEN Meta(disk, o, {"mode"}, tool.item) ELSE disk
LeftIn(d) == DOMAIN disk[d.from].list \ d.seen
NextEntry ==
  /\ tool.pc = "entries"
  /\ LET d == Head(tool.stack) IN
     \E n \in LeftIn(d) :
       Goes([Handle(Stat(d.from, n, d.into, n)) EXCEPT !.stack[1].seen = @ \cup {n}])
  /\ UNCHANGED disk
EndEntries(set) ==
  /\ tool.pc = "entries" /\ LeftIn(Head(tool.stack)) = {}
  /\ LET d == Head(tool.stack) IN
     disk' = Meta(disk, d.into, IF Len(tool.stack) = 1 THEN set \ {"mode"} ELSE set, d.item)
  /\ Went(IF Len(tool.stack) = 1 THEN After(TRUE) ELSE [tool EXCEPT !.stack = Tail(@)])
copy_dir_entries == NextEntry \/ (EndEntries(AllMeta) /\ UNCHANGED mishaps)

(* A symbolic link is made again, not followed.                            *)
copy_link ==
  /\ tool.pc = "link"
  /\ IF KindAt(disk, tool.item.in, tool.item.name) # "link"
       THEN Fail
       ELSE /\ disk' = IF KindAt(disk, tool.item.to, tool.item.as) \in {"none", "dir"}
                         THEN disk
                         ELSE Unlink(disk, tool.item.to, tool.item.as)
            /\ Goes([tool EXCEPT !.pc = "symlink",
                                 !.item.open = disk[disk[tool.item.in].list[tool.item.name]].data])
symlink ==
  /\ tool.pc = "symlink"
  /\ IF KindAt(disk, tool.item.to, tool.item.as) # "none"
       THEN Fail
       ELSE /\ disk' = Create(disk, tool.item.to, tool.item.as, "link", tool.item.open, "")
            /\ Goes(ItemDone)

(* A file: both sides are opened, the destination is truncated or made,    *)
(* and neither is followed.  A directory opens for reading, but cannot be  *)
(* read.                                                                   *)
copy_file ==
  /\ tool.pc = "file"
  /\ LET from == KindAt(disk, tool.item.in, tool.item.name)
         old == KindAt(disk, tool.item.to, tool.item.as)
     IN IF from \in {"none", "link"} \/ old \notin {"none", "file"}
          THEN Fail
          ELSE /\ disk' = IF old = "none"
                            THEN Create(disk, tool.item.to, tool.item.as, "file", Empty, "masked")
                            ELSE [disk EXCEPT ![disk[tool.item.to].list[tool.item.as]] =
                                    [@ EXCEPT !.data = Empty, !.time = "new"]]
               /\ Goes([tool EXCEPT !.pc = "data",
                                    !.item.open = disk[tool.item.in].list[tool.item.name],
                                    !.item.out = IF old = "none" THEN Len(disk) + 1
                                                   ELSE disk[tool.item.to].list[tool.item.as]])
EndData(set) ==
  /\ tool.pc = "data" /\ disk[tool.item.open].kind # "dir"
  /\ disk' = Meta([disk EXCEPT ![tool.item.out].data = disk[tool.item.open].data],
                  tool.item.out, set, tool.item)
  /\ Went(ItemDone)
Unreadable == tool.pc = "data" /\ disk[tool.item.open].kind = "dir" /\ Fail
copy_data == Unreadable \/ (EndData(AllMeta) /\ UNCHANGED mishaps)

(* A pipe, a socket or a device is not copied.                             *)
unsupported == tool.pc = "other" /\ Fail

-------------------------------------------------------------------------------
(* Removing a tree.                                                        *)
Condemn(in, name) ==
  [tool EXCEPT !.pc = "unlink",
               !.item = [in |-> in, name |-> name, dir |-> KindAt(disk, in, name) = "dir"]]
remove_entry ==
  /\ tool.pc = "remove"
  /\ IF Kind(disk, tool.item) = "none"
       THEN Fail
       ELSE Goes(Condemn(tool.item.in, tool.item.name)) /\ UNCHANGED disk
Unlinked == IF tool.stack = <<>> THEN After(TRUE) ELSE [tool EXCEPT !.pc = "victims"]
unlink ==
  /\ tool.pc = "unlink"
  /\ LET i == open_directory(tool.item.in, tool.item.name)
         kind == KindAt(disk, tool.item.in, tool.item.name)
     IN IF tool.item.dir
          THEN IF i = 0
                 THEN Fail
                 ELSE /\ Goes([tool EXCEPT !.pc = "victims",
                                           !.stack = <<[dir |-> i, seen |-> {}, item |-> tool.item]>> \o @])
                      /\ UNCHANGED disk
          ELSE IF kind \in {"none", "dir"}
                 THEN Fail
                 ELSE disk' = Unlink(disk, tool.item.in, tool.item.name) /\ Goes(Unlinked)
remove_tree_fd ==
  /\ tool.pc = "victims"
  /\ LET d == Head(tool.stack)
         left == DOMAIN disk[d.dir].list \ d.seen
     IN \/ \E n \in left : Goes([Condemn(d.dir, n) EXCEPT !.stack[1].seen = @ \cup {n}])
        \/ left = {} /\ Goes([tool EXCEPT !.pc = "rmdir", !.item = d.item, !.stack = Tail(@)])
  /\ UNCHANGED disk
rmdir ==
  /\ tool.pc = "rmdir"
  /\ IF /\ Kind(disk, tool.item) = "dir"
        /\ disk[Inode(disk, tool.item)].list = <<>>
       THEN disk' = Unlink(disk, tool.item.in, tool.item.name) /\ Goes(Unlinked)
       ELSE Fail

(* rm, which refuses the root under every name.                            *)
protected(path) ==
  \/ path.name \in {".", ".."}
  \/ Kind(disk, path) # "none" /\ Follow(disk, Inode(disk, path)) = Root
remove_path ==
  /\ tool.pc = "rm"
  /\ LET kind == Kind(disk, tool.src) IN
     Goes(CASE protected(tool.src) -> NextOperand(FALSE)
            [] kind = "none" /\ ~protected(tool.src) -> NextOperand(errand.force)
            [] kind = "dir" /\ ~protected(tool.src) ->
                 CASE errand.recursive -> CallRemove(tool.src, "done")
                   [] ~errand.recursive /\ errand.dir ->
                        [tool EXCEPT !.pc = "rmdir", !.item = tool.src, !.then = "done"]
                   [] OTHER -> NextOperand(FALSE)
            [] OTHER -> [Condemn(tool.src.in, tool.src.name) EXCEPT !.then = "done"])
  /\ UNCHANGED disk

-------------------------------------------------------------------------------
(* mv.  Across file systems the source is copied to a name of its own      *)
(* beside the destination, which is renamed over it, and removed last.     *)
Temporary == [in |-> tool.dst.in, name |-> "tmp"]
move_one ==
  /\ tool.pc = "mv"
  /\ IF errand.no_clobber /\ Kind(disk, tool.dst) # "none"
       THEN Goes(NextOperand(TRUE)) /\ UNCHANGED disk
       ELSE IF errand.cross
              THEN Goes(CallRemove(Temporary, "cleaned")) /\ UNCHANGED disk
              ELSE IF RenameAllowed(disk, tool.src, tool.dst)
                     THEN Goes(NextOperand(TRUE)) /\ disk' = Renamed(disk, tool.src, tool.dst)
                     ELSE Goes(NextOperand(FALSE)) /\ UNCHANGED disk
cleaned ==
  /\ tool.pc = "cleaned"
  /\ Goes(CallCopy(Temporary, "copied")) /\ UNCHANGED disk
copied ==
  /\ tool.pc = "copied"
  /\ Goes(IF tool.ok THEN [tool EXCEPT !.pc = "rename", !.then = "undo"]
                     ELSE CallRemove(Temporary, "undone"))
  /\ UNCHANGED disk
rename ==
  /\ tool.pc = "rename"
  /\ IF RenameAllowed(disk, Temporary, tool.dst)
       THEN /\ disk' = Renamed(disk, Temporary, tool.dst)
            /\ Goes(CallRemove(tool.src, "done"))
       ELSE Fail
undo ==
  /\ tool.pc = "undo"
  /\ Goes(CallRemove(Temporary, "undone")) /\ UNCHANGED disk
undone ==
  /\ tool.pc = "undone"
  /\ Goes(NextOperand(FALSE)) /\ UNCHANGED disk

move_across_filesystems == cleaned \/ copied \/ rename \/ undo \/ undone
copy_tree ==
  \/ copy_entry \/ copy_directory \/ enter \/ copy_dir_entries
  \/ copy_link \/ symlink \/ copy_file \/ copy_data \/ unsupported
remove_tree == remove_entry \/ unlink \/ remove_tree_fd \/ rmdir

-------------------------------------------------------------------------------
(* A call fails; the copy of a file may stop half-way.  Below the operand  *)
(* nobody looks at the result of the calls that set the mode and the time  *)
(* of a directory and the time of a file.                                  *)
IoError ==
  /\ mishaps.errors < IoErrors
  /\ tool.pc \in {"copy", "force", "dir", "enter", "entries", "link", "symlink", "file", "data",
                  "remove", "unlink", "victims", "rmdir", "rename"}
  /\ tool' = After(FALSE)
  /\ disk' = IF tool.pc = "data" THEN [disk EXCEPT ![tool.item.out].data = Part] ELSE disk
  /\ mishaps' = [mishaps EXCEPT !.errors = @ + 1]
  /\ UNCHANGED errand
IgnoredError ==
  /\ mishaps.errors < IoErrors
  /\ \/ Len(tool.stack) > 1 /\ \E set \in SUBSET AllMeta \ {AllMeta} : EndEntries(set)
     \/ tool.stack # <<>> /\ Preserve /\ EndData({"mode"})
  /\ mishaps' = [mishaps EXCEPT !.errors = @ + 1, !.ignored = @ + 1]

(* Another process replaces an entry by a link that leads out of the tree, *)
(* once DEST has been looked at: a link that is there before is a          *)
(* directory that the operator named.                                      *)
Swap ==
  /\ mishaps.swaps < Swaps /\ errand.shared # {} /\ tool.pc \notin {"run", "exit"}
  /\ \E in \in errand.shared \cup (Len(errand.disk) + 1)..Len(disk) :
       \E name \in DOMAIN disk[in].list :
         disk' = Create(disk, in, name, "link", errand.away, "")
  /\ mishaps' = [mishaps EXCEPT !.swaps = @ + 1]
  /\ UNCHANGED <<errand, tool>>

ToolStep ==
  run \/ operand \/ done \/ copy_one \/ force \/ copy_tree \/ remove_path \/ remove_tree
  \/ move_one \/ move_across_filesystems
FileNext == ToolStep \/ IoError \/ IgnoredError \/ Swap
-------------------------------------------------------------------------------
(* Node j of `fs` is what node i of the first disk was: the same files,    *)
(* links and directories under it, maybe among others, with the modes and  *)
(* times that `top` asks for, and with those that `below` asks for under   *)
(* it.  Links have neither.                                                *)
RECURSIVE Has(_, _, _, _, _)
Has(fs, j, i, top, below) ==
  LET old == errand.disk[i]
      new == fs[j]
  IN /\ new.kind = old.kind /\ new.data = old.data
     /\ old.kind # "link" => /\ "mode" \in top => new.mode = old.mode
                             /\ "time" \in top => new.time = old.time
     /\ \A n \in DOMAIN old.list :
          n \in DOMAIN new.list /\ Has(fs, new.list[n], old.list[n], below, below)
HasAt(path, i, top, below) == Kind(disk, path) # "none" /\ Has(disk, Inode(disk, path), i, top, below)
\* What is promised of the entries of a tree: a failure to set it may go unnoticed.
Noticed(set) == IF mishaps.ignored = 0 THEN set ELSE {}
Sources == ToSet(errand.srcs)
Before(path) == Kind(errand.disk, path)
Was(path) == Inode(errand.disk, path)
TargetOf(src) ==
  IF IsDir(errand.disk, errand.dst)
    THEN [in |-> Follow(errand.disk, Was(errand.dst)), name |-> src.name]
    ELSE errand.dst
Untouched(path) ==
  IF Before(path) = "none"
    THEN Kind(disk, path) = "none"
    ELSE /\ HasAt(path, Was(path), AllMeta, AllMeta)
         /\ Cardinality(Below(disk, Inode(disk, path))) = Cardinality(Below(errand.disk, Was(path)))

(* What a link leads to is not part of the tree: whatever another process  *)
(* puts in the place of an entry, at whatever moment, nothing is written   *)
(* or removed outside of the operands (fsutil.rs: every child is opened    *)
(* relative to its directory, with O_NOFOLLOW).                            *)
OutsideUntouched == \A i \in errand.outside : disk[i] = errand.disk[i]

(* A copy ends: it makes one node for each node of its sources, so it      *)
(* never meets its own output (cp.rs copy_one, canonical_destination).     *)
CopyIsFinite ==
  Len(disk) <= Len(errand.disk) + mishaps.swaps
               + Cardinality(UNION {Below(errand.disk, Was(s)) : s \in {x \in Sources : Before(x) # "none"}})

(* Whatever fails, and if the machine stops at any moment: what is moved   *)
(* is there in full, with its mode and time, at the old place or at the    *)
(* new one; and who looks at the new place finds what was there or all of  *)
(* what comes, never a part of it (mv.rs move_across_filesystems).  The    *)
(* modes and times of what is below it go along, but for calls that failed *)
(* unnoticed.                                                              *)
MoveIsWhole ==
  errand.tool = "mv" /\ errand.shared = {} =>
    \A s \in {x \in Sources : Before(x) # "none"} :
      LET arrived == HasAt(TargetOf(s), Was(s), AllMeta, Noticed(AllMeta)) IN
      /\ HasAt(s, Was(s), AllMeta, AllMeta) \/ arrived
      /\ Untouched(TargetOf(s)) \/ arrived

(* Exit status 0 is the truth: every source was copied with its modes, and *)
(* with -p its times; or moved; or is gone (the loops of cp, mv and rm,    *)
(* and every result that fsutil.rs passes on; the results that it does not *)
(* look at are left out).  A directory that was there before keeps its own *)
(* mode.                                                                   *)
ToolExitIsTrue ==
  tool.pc = "exit" /\ ~tool.bad /\ errand.shared = {} =>
    \A s \in Sources :
      LET t == TargetOf(s)
          kept == errand.no_clobber /\ Before(t) # "none"
      IN CASE errand.tool = "rm" -> Kind(disk, s) = "none"
           [] errand.tool = "cp" ->
                LET asked == IF errand.preserve THEN AllMeta ELSE {"mode"} IN
                kept \/ HasAt(t, Was(s), IF Before(t) = "dir" THEN asked \ {"mode"} ELSE asked, Noticed(asked))
           [] errand.tool = "mv" ->
                kept \/ (Kind(disk, s) = "none" /\ HasAt(t, Was(s), AllMeta, Noticed(AllMeta)))

(* `preserve` restores mode and timestamps: a copy or a move that keeps    *)
(* them and exits with 0 has kept them all.                                *)
PreserveRestores ==
  tool.pc = "exit" /\ ~tool.bad /\ Preserve /\ errand.tool # "rm" /\ ~errand.no_clobber /\ errand.shared = {} =>
    \A s \in Sources : HasAt(TargetOf(s), Was(s), AllMeta \ {"mode"}, AllMeta)

(* The tool comes to its end (the readdir loops of fsutil.rs).             *)
ToolEnds == tool.pc = "operand" ~> tool.pc = "exit"

(* Whatever fails and whatever is swapped: the tools touch nothing outside *)
(* of their operands, do not copy their own output, never leave a moved    *)
(* tree in two halves, and exit with 0 only if all was done.               *)
TreesAreSafe ==
  /\ OutsideUntouched
  /\ CopyIsFinite
  /\ MoveIsWhole
  /\ ToolExitIsTrue
===============================================================================
