------------------------------- MODULE Fstab --------------------------------
(***************************************************************************)
(* /etc/fstab has two readers: the second wave of mounts of the boot       *)
(* (rinit-runtime/src/fstab.rs) and the tools mount -a, swapon -a and      *)
(* swapoff -a (rinit-tools).  A line is a sequence of fields, a field a    *)
(* word and, if it is the fourth, a sequence of options.  The octal        *)
(* escapes of a field are decoded at the end of the module.                *)
(***************************************************************************)
EXTENDS Naturals, Sequences, SequencesExt, FiniteSetsExt, Inputs

FstabEntry(line) == [device |-> line[1].word, point |-> line[2].word,
                     fstype |-> line[3].word, options |-> line[4].options]
Absolute(point) == point \in {"/", "/data", "/new"}

(* mount(2)'s flags, by the options that set and clear them.  The other    *)
(* flags of access times, and nodev, noexec and sync, are like these;      *)
(* dirsync stands for those only the boot knows, bind for the tool's.      *)
Sets == [ro |-> "MS_RDONLY", nosuid |-> "MS_NOSUID", noatime |-> "MS_NOATIME"]
Clears == [rw |-> "MS_RDONLY", suid |-> "MS_NOSUID", atime |-> "MS_NOATIME"]
BootSets == Sets @@ [dirsync |-> "MS_DIRSYNC"]
ToolSets == Sets @@ [bind |-> "MS_BIND"]

(* Options for the reader of the file: which entries to mount.             *)
Selecting == {"defaults", "auto", "noauto", "user", "users", "owner", "group"}
BootIgnores == Selecting \cup {"nofail", "_netdev", "x-", "comment="}

Translate(options, sets, clears, ignored) ==
  FoldLeft(LAMBDA acc, o :
             CASE o \in DOMAIN sets -> [acc EXCEPT !.flags = @ \cup {sets[o]}]
               [] o \in DOMAIN clears -> [acc EXCEPT !.flags = @ \ {clears[o]}]
               [] o \in ignored -> acc
               [] OTHER -> [acc EXCEPT !.data = Append(@, o)],
           [flags |-> {}, data |-> <<>>], options)

(* What mount(2) makes of an entry on a machine: the devices that are      *)
(* `broken`, the `dirs` there are, those that cannot be made (`sealed`)    *)
(* and the points that are `mounted`.  A filesystem rejects data that it   *)
(* does not know.                                                          *)
Mount(entry, how) == [device |-> entry.device, point |-> entry.point, how |-> how]
Mounts(m, machine, dirs) ==
  /\ m.device \notin machine.broken /\ m.point \in dirs
  /\ ToSet(m.how.data) \subseteq {"size=1"}

-------------------------------------------------------------------------------
(* The boot.                                                               *)

\* Entry::flags_and_data.
flags_and_data_bug(options) ==
  Translate(options, [o \in DOMAIN BootSets \ {"nosuid"} |-> BootSets[o]], Clears, BootIgnores)
flags_and_data(options) == Translate(options, BootSets, Clears, BootIgnores)

(* parse: a `#` is a comment where a line begins; a line is used if it has *)
(* four fields, an absolute mount point unless it is swap, and no noauto.  *)
parse_fstab(lines) ==
  LET Usable(line) ==
        /\ Len(line) >= 4 /\ line[1].word # "#"
        /\ line[3].word = "swap" \/ Absolute(line[2].word)
        /\ "noauto" \notin ToSet(line[4].options)
      kept == SelectSeq(lines, Usable)
  IN [i \in DOMAIN kept |-> FstabEntry(kept[i])]

(* mount_with_mounted, in the order of the file: the points it mounts.     *)
(* `mounted` was read once, before the first mount; a point that is not    *)
(* there is made.                                                          *)
mount_with_mounted(lines, machine) ==
  LET meant == SelectSeq(parse_fstab(lines),
                         LAMBDA e : e.fstype # "swap" /\ e.point \notin machine.mounted)
      tried == [i \in DOMAIN meant |-> Mount(meant[i], flags_and_data(meant[i].options))]
  IN SelectSeq(tried, LAMBDA m : Mounts(m, machine, machine.dirs \cup ({m.point} \ machine.sealed)))

-------------------------------------------------------------------------------
(* The tools.                                                              *)

(* A `#` ends a line wherever it is, inside a word too.                    *)
BeforeHash == ("#" :> "") @@ ("/d#1" :> "/d")
Uncommented(line) ==
  LET marks == {i \in DOMAIN line : line[i].word \in DOMAIN BeforeHash}
      first == Min(marks)
      piece == BeforeHash[line[first].word]
  IN IF marks = {} THEN line
     ELSE SubSeq(line, 1, first - 1)
            \o (IF piece = "" THEN <<>> ELSE <<[line[first] EXCEPT !.word = piece]>>)
parse_tools(lines) ==
  LET cut == [i \in DOMAIN lines |-> Uncommented(lines[i])]
      kept == SelectSeq(cut, LAMBDA line : Len(line) >= 4)
  IN [i \in DOMAIN kept |-> FstabEntry(kept[i])]
has_option(options, option) == option \in ToSet(options)
parse_options(options) == Translate(options, ToolSets, Clears, Selecting)

(* mount -a.  It makes no directory, does not look what is mounted, and a  *)
(* point that is not absolute is one of the working directory.             *)
mount_fstab(lines, machine) ==
  LET meant == SelectSeq(parse_tools(lines),
                         LAMBDA e : e.fstype # "swap" /\ ~has_option(e.options, "noauto"))
      tried == [i \in DOMAIN meant |-> Mount(meant[i], parse_options(meant[i].options))]
  IN SelectSeq(tried, LAMBDA m : Mounts(m, machine, machine.dirs))

read_swap_entries(lines, include_noauto) ==
  SelectSeq(parse_tools(lines),
            LAMBDA e : e.fstype = "swap" /\ (include_noauto \/ ~has_option(e.options, "noauto")))

\* The last priority and the last discard policy count; one that is wrong refuses the entry.
LastOf(options, good, bad) ==
  FoldLeft(LAMBDA acc, o : IF acc = "refused" THEN acc
                           ELSE IF o \in bad THEN "refused"
                           ELSE IF o \in good THEN o ELSE acc, "none", options)
priority_from_options(options) == LastOf(options, {"pri=1"}, {"pri=bad"})
discard_flags(options) == LastOf(options, {"discard", "discard=once"}, {"discard=bad"})
entry_flags(options, override) ==
  <<IF override # "none" THEN override ELSE priority_from_options(options), discard_flags(options)>>

(* swapon -a: the devices in use after it.  A device already in use, and   *)
(* one that does not work, are passed over.                                *)
activate_all(lines, active, broken, override) ==
  LET usable == {e \in ToSet(read_swap_entries(lines, FALSE)) :
                   "refused" \notin ToSet(entry_flags(e.options, override))}
  IN active \cup ({e.device : e \in usable} \ broken)

(* swapoff -a: first the devices the kernel lists, whose names are taken   *)
(* as /proc/swaps escapes them, then those of the file.  A name that is    *)
(* not a device in use is taken for one that is off already.               *)
active_swaps(active) == {d \in active : d # "/s w"}
deactivate_all(lines, active, stuck) ==
  LET listed == {e.device : e \in ToSet(read_swap_entries(lines, TRUE))}
  IN active \ ((active_swaps(active) \cup listed) \ stuck)

-------------------------------------------------------------------------------
(* A field is unescaped in one pass.  The boot knows the four escapes of   *)
(* fstab(5), of which two are modelled, the tools any three octal digits;  *)
(* "bs" is the backslash, "sp" the blank.                                  *)

Octal == {"0", "1", "3", "4"}
Digits(field, i) == SubSeq(field, i + 1, i + 3)
Escapes(field, i, known) ==
  field[i] = "bs" /\ i + 3 <= Len(field) /\ Digits(field, i) \in known
Decoded(digits) ==
  CASE digits = <<"0", "4", "0">> -> "sp" [] digits = <<"1", "3", "4">> -> "bs" [] OTHER -> "byte"
Unescaped(field, known) ==
  FoldLeft(LAMBDA s, i :
             IF s.skip > 0 THEN [s EXCEPT !.skip = @ - 1]
             ELSE IF Escapes(field, i, known)
             THEN [out |-> Append(s.out, Decoded(Digits(field, i))), skip |-> 3]
             ELSE [s EXCEPT !.out = Append(@, field[i])],
           [out |-> <<>>, skip |-> 0], [i \in DOMAIN field |-> i]).out
unescape_mount_field(field) == Unescaped(field, {<<"0", "4", "0">>, <<"1", "3", "4">>})
unescape(field) == Unescaped(field, [1 .. 3 -> Octal])

-------------------------------------------------------------------------------

CONSTANTS
  MaxOptions,   \* bound on the options of a list
  MaxPath       \* bound on the characters of a path

Common == DOMAIN Sets \cup DOMAIN Clears \cup {"defaults", "size=1"}
Line(device, point, fstype, options) ==
  <<[word |-> device, options |-> <<>>], [word |-> point, options |-> <<>>],
    [word |-> fstype, options |-> <<>>], [word |-> "options", options |-> options]>>
Remark == [word |-> "#", options |-> <<"#">>]
FstabLines ==
  {Line("/d", "/data", "ext4", <<o>>) :
     o \in {"defaults", "ro", "noauto", "nofail", "_netdev", "x-", "comment=", "bind", "dirsync"}}
    \cup {Line("/e", point, "ext4", <<"rw">>) : point \in {"/data", "/new", "data"}}
    \cup {Line("#", "/data", "ext4", <<"ro">>), Line("/d#1", "/data", "ext4", <<"ro">>),
          Append(Line("/e", "/data", "ext4", <<"ro">>), Remark),
          Append(SubSeq(Line("/d", "/data", "ext4", <<>>), 1, 3), Remark), <<>>}
    \cup {Line(d, "none", "swap", o) : d \in {"/sw", "/s w"},
                                       o \in {<<"sw">>, <<"noauto">>, <<"pri=bad">>, <<"pri=1", "discard">>}}
Machines ==
  {[broken |-> broken, dirs |-> {"/", "/data", "data"}, sealed |-> sealed, mounted |-> mounted] :
     broken \in SUBSET {"/d"}, sealed \in SUBSET {"/new"}, mounted \in SUBSET {"/data"}}

FstabAlphabet ==
  [options |-> Common \cup {"nofail", "bind", "x-", "dirsync"},
   fstab |-> FstabLines,
   path |-> {"a", "sp", "bs", "0", "4"}]
FstabLongest == [options |-> MaxOptions, fstab |-> 3, path |-> MaxPath]

-------------------------------------------------------------------------------

(* The options of a line reach mount(2) as they are meant: of two that     *)
(* contradict each other the later one counts, and no flag that the reader *)
(* knows is handed to the filesystem as data; bind at the boot and dirsync *)
(* in mount -a are.  On the options that both know they agree.             *)
Mentions(flag, sets) ==
  {i \in DOMAIN input : \/ input[i] \in DOMAIN sets /\ sets[input[i]] = flag
                        \/ input[i] \in DOMAIN Clears /\ Clears[input[i]] = flag}
Wins(how, sets) ==
  /\ how.flags = {flag \in Range(sets) :
                    Mentions(flag, sets) # {} /\ input[Max(Mentions(flag, sets))] \in DOMAIN sets}
  /\ ToSet(how.data) \cap (DOMAIN sets \cup DOMAIN Clears) = {}
OptionsWin ==
  subject = "options" =>
    /\ Wins(flags_and_data(input), BootSets)
    /\ Wins(parse_options(input), ToolSets)
    /\ ToSet(flags_and_data(input).data) \subseteq {"size=1", "bind"}
    /\ ToSet(input) \subseteq Common => flags_and_data(input) = parse_options(input)

(* Options for the reader of the file select which entries to mount; none  *)
(* is passed to mount(2), whose filesystem would reject it.                *)
SelectingIsNotData ==
  subject = "options" =>
    \A how \in {flags_and_data(input), parse_options(input)} :
      ToSet(how.data) \cap {"nofail", "_netdev", "x-", "comment="} = {}

(* A line that does not mount takes no other with it.  mount -a makes of a *)
(* line what the second wave of the boot makes of it, the same filesystem  *)
(* in the same way, whichever devices are broken.  They part on an option  *)
(* that only one knows, a `#` that is not at the beginning, a point that   *)
(* is not absolute, one that has to be made and one that is mounted.       *)
PartsReaders(line, machine) ==
  \/ \E i \in DOMAIN line : i <= 4 /\ line[i].word \in DOMAIN BeforeHash /\ line[1].word # "#"
  \/ /\ Len(line) >= 4 /\ line[3].word # "swap"
     /\ \/ ~(ToSet(line[4].options) \subseteq Common \cup {"noauto"})
        \/ line[2].word \notin ({"/", "/data"} \cap machine.dirs) \ machine.mounted
ReadersAgree ==
  subject = "fstab" =>
    \A machine \in Machines :
      LET boot == [i \in DOMAIN input |-> mount_with_mounted(<<input[i]>>, machine)]
          tool == [i \in DOMAIN input |-> mount_fstab(<<input[i]>>, machine)]
      IN /\ mount_with_mounted(input, machine) = FlattenSeq(boot)
         /\ mount_fstab(input, machine) = FlattenSeq(tool)
         /\ \A i \in DOMAIN input : PartsReaders(input[i], machine) \/ boot[i] = tool[i]

(* swapoff -a leaves in use, of what swapon -a took into use and of what   *)
(* was enabled by hand, only what the kernel will not let go: a device     *)
(* whose name the kernel lists with an escape is found through the file,   *)
(* and is missed if it was enabled by hand and is not in the file.         *)
SwapOffUndoesOn ==
  subject = "fstab" =>
    \A stuck \in SUBSET {"/sw"}, broken \in SUBSET {"/s w"}, byHand \in SUBSET {"/hand", "/s w"} :
      LET listed == {e.device : e \in ToSet(read_swap_entries(input, TRUE))}
          missed == (byHand \cap {"/s w"}) \ listed
          active == activate_all(input, byHand, broken, "none")
      IN deactivate_all(input, active, stuck) \subseteq stuck \cup missed

(* A path that the kernel escaped is decoded to itself, by both readers,   *)
(* whatever digits follow a blank or a backslash in it.                    *)
Escaped(path) ==
  FlattenSeq([i \in DOMAIN path |-> CASE path[i] = "sp" -> <<"bs", "0", "4", "0">>
                                      [] path[i] = "bs" -> <<"bs", "1", "3", "4">>
                                      [] OTHER -> <<path[i]>>])
PathRoundTrips ==
  subject = "path" =>
    unescape_mount_field(Escaped(input)) = input /\ unescape(Escaped(input)) = input

(* Both readers of fstab make the same of the lines they both can read,    *)
(* the one that counts of contradicting options is the later, and swapoff  *)
(* -a finds what swapon -a took into use, blanks and backslashes in the    *)
(* names included.                                                         *)
FstabIsRight ==
  /\ OptionsWin
  /\ ReadersAgree
  /\ SwapOffUndoesOn
  /\ PathRoundTrips
=============================================================================
