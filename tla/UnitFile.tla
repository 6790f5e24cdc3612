------------------------------- MODULE UnitFile -------------------------------
(***************************************************************************)
(* Unit files: the lexer and the parser of                                 *)
(* crates/rinit-core/src/unit/parser.rs, the values of config.rs, the      *)
(* names of mod.rs and the specifiers of template.rs.                      *)
(*                                                                         *)
(* A line is a sequence of characters, of which the lexer tells apart the  *)
(* quote "q", the backslash "b", "#", the space and everything else.       *)
(* Above the lexer a file is a sequence of statements, each a header or an *)
(* entry, and a token is known by what the directives see in it.           *)
(***************************************************************************)
EXTENDS Naturals, Sequences, SequencesExt, FiniteSets, FiniteSetsExt, Inputs

-------------------------------------------------------------------------------
(* Lexing. *)

(* The part of a line before the first unquoted, unescaped `#`. *)
comment_prefix(line) ==
  LET Step(s, c) ==
        CASE s.cut -> s
          [] ~s.cut /\ s.escaped -> [s EXCEPT !.escaped = FALSE, !.at = @ + 1]
          [] ~s.cut /\ ~s.escaped /\ c = "#" /\ ~s.quoted -> [s EXCEPT !.cut = TRUE]
          [] OTHER -> [s EXCEPT !.at = @ + 1, !.escaped = c = "b",
                                !.quoted = IF c = "q" THEN ~@ ELSE @]
      end == FoldLeft(Step, [at |-> 0, quoted |-> FALSE, escaped |-> FALSE, cut |-> FALSE], line)
  IN SubSeq(line, 1, end.at)

trim_end(s) ==
  LET kept == {i \in DOMAIN s : s[i] # " "}
  IN SubSeq(s, 1, IF kept = {} THEN 0 ELSE Max(kept))
trim(s) == Reverse(trim_end(Reverse(trim_end(s))))

(* Physical lines into statements, each with the line it starts on; one    *)
(* that ends in a backslash goes on.                                       *)
logical_lines(lines) ==
  LET Step(s, i) ==
        LET code == comment_prefix(lines[i])
            head == trim_end(code)
            start == IF s.cur = <<>> THEN i ELSE s.start
        IN IF head # <<>> /\ Last(head) = "b"
           THEN [s EXCEPT !.cur = @ \o Front(head) \o <<" ">>, !.start = start]
           ELSE [out |-> Append(s.out, [line |-> start, text |-> s.cur \o code]),
                 cur |-> <<>>, start |-> start]
      end == FoldLeft(Step, [out |-> <<>>, cur |-> <<>>, start |-> 0],
                      [i \in DOMAIN lines |-> i])
  IN IF end.cur = <<>> THEN end.out
     ELSE Append(end.out, [line |-> end.start, text |-> end.cur])

Unterminated == <<<<"unterminated">>>>

(* A backslash makes the next character a literal one; \s is a space. *)
escape(c) == IF c = "s" THEN " " ELSE c

tokenize(value) ==
  LET Push(s, c) == [s EXCEPT !.cur = Append(@, c), !.started = TRUE, !.escaped = FALSE]
      Step(s, c) ==
        CASE s.over -> s
          [] ~s.over /\ s.escaped -> Push(s, escape(c))
          [] ~s.over /\ ~s.escaped /\ c = "b" -> [s EXCEPT !.escaped = TRUE, !.started = TRUE]
          [] ~s.over /\ ~s.escaped /\ c = "q" -> [s EXCEPT !.quoted = ~@, !.started = TRUE]
          [] ~s.over /\ ~s.escaped /\ s.quoted /\ c \notin {"b", "q"} -> Push(s, c)
          [] ~s.over /\ ~s.escaped /\ ~s.quoted /\ c = "#" -> [s EXCEPT !.over = TRUE]
          [] ~s.over /\ ~s.escaped /\ ~s.quoted /\ c = " " ->
               [s EXCEPT !.started = FALSE, !.cur = <<>>,
                         !.out = IF s.started THEN Append(@, s.cur) ELSE @]
          [] OTHER -> Push(s, c)
      end == FoldLeft(Step, [out |-> <<>>, cur |-> <<>>, started |-> FALSE, quoted |-> FALSE,
                             escaped |-> FALSE, over |-> FALSE], value)
      cur == IF end.escaped THEN Append(end.cur, "b") ELSE end.cur
  IN IF end.quoted THEN Unterminated
     ELSE IF end.started THEN Append(end.out, cur) ELSE end.out

-------------------------------------------------------------------------------
(* Names. A name is a sequence of characters; ".service" and ".target" are *)
(* written as one each, "S" and "T", and count as the bytes they have.     *)

Bytes(name) == FoldLeft(LAMBDA n, c : n + (CASE c = "S" -> 8 [] c = "T" -> 7 [] OTHER -> 1),
                        0, name)
is_valid_unit_name(name) == name # <<>> /\ ToSet(name) \cap {" ", "/", "#", "%"} = {}

NoName == <<>>
(* UnitName::parse, to the canonical name or NoName; the longest name the  *)
(* control protocol carries has max bytes.                                 *)
parse_name(text, max) ==
  LET name == trim(text)
      canonical == IF Last(name) \in {"S", "T"} THEN name ELSE Append(name, "S")
  IN IF ~is_valid_unit_name(name) \/ canonical \in {<<"S">>, <<"T">>} \/ Bytes(canonical) > max
     THEN NoName ELSE canonical

stem(name) == Front(name)
At(name) == SelectInSeq(stem(name), LAMBDA c : c = "@")
prefix(name) == IF At(name) = 0 THEN stem(name) ELSE SubSeq(name, 1, At(name) - 1)
instance(name) == IF At(name) = 0 THEN <<>> ELSE SubSeq(name, At(name) + 1, Len(name) - 1)
is_template(name) == At(name) # 0 /\ instance(name) = <<>>
template(name, max) ==
  IF instance(name) = <<>> THEN NoName
  ELSE parse_name(Append(Append(prefix(name), "@"), Last(name)), max)

(* substitute: the text of a template for an instance, or Refused for a    *)
(* specifier it does not know.                                             *)
Refused == <<"refused">>
substitute(text, name) ==
  LET Value(c) == CASE c = "i" -> instance(name) [] c = "n" -> name
                    [] c = "p" -> prefix(name) [] c = "%" -> <<"%">>
      Step(s, c) ==
        CASE s.err -> s
          [] ~s.err /\ ~s.mark ->
               IF c = "%" THEN [s EXCEPT !.mark = TRUE] ELSE [s EXCEPT !.out = Append(@, c)]
          [] ~s.err /\ s.mark ->
               IF c \in {"i", "n", "p", "%"} THEN [s EXCEPT !.mark = FALSE, !.out = @ \o Value(c)]
               ELSE [s EXCEPT !.err = TRUE]
      end == FoldLeft(Step, [out |-> <<>>, mark |-> FALSE, err |-> FALSE], text)
  IN IF end.err \/ end.mark \/ instance(name) = <<>> THEN Refused ELSE end.out

(* load_unit_files: a directory entry is [file, readable]; what is not a   *)
(* unit file by its suffix is no candidate, and one that cannot be read,   *)
(* is no regular file or is too large is left out with a warning.          *)
unit_name_of(file, max) ==
  IF file # <<>> /\ Last(file) \in {"S", "T"} THEN parse_name(file, max) ELSE NoName
load_unit_files(entries, max) ==
  {unit_name_of(e.file, max) : e \in {x \in entries : x.readable}} \ {NoName}

-------------------------------------------------------------------------------
(* Directives. *)

Lists == {"Requires", "Wants", "After", "Before", "Conflicts"}
REPEATABLE == Lists \cup {"Environment", "Sockets", "NeedsSocket", "ExecStartPre", "ExecStartPost"}

(* What a directive takes: the arms of Parser::entry. *)
Takes(section, key) ==
  CASE section = "Unit" /\ key \in {"Description", "Documentation"} -> "text"
    [] section = "Unit" /\ key = "Type" -> "unit type"
    [] section = "Unit" /\ key \in Lists -> "names"
    [] section = "Service" /\ key = "Type" -> "kind"
    [] section = "Service" /\ key \in {"ExecStart", "ExecStop", "HealthCheck"} -> "command"
    [] section = "Service" /\ key \in {"ExecStartPre", "ExecStartPost"} -> "commands"
    [] section = "Service" /\ key = "Restart" -> "policy"
    [] section = "Service" /\ key \in {"RestartSec", "StartLimitIntervalSec", "TimeoutStartSec",
                                       "TimeoutStopSec", "IdleTimeoutSec"} -> "number"
    [] section = "Service" /\ key \in {"HealthIntervalSec", "HealthTimeoutSec",
                                       "CgroupTasksMax"} -> "positive"
    [] section = "Service" /\ key = "StartLimitBurst" -> "burst"
    [] section = "Service" /\ key \in {"User", "Group"} -> "text"
    [] section = "Service" /\ key \in {"NoNewPrivileges", "HealthRestartOnFailure",
                                       "TTYReset"} -> "boolean"
    [] section = "Service" /\ key \in {"CapabilityBoundingSet", "AmbientCapabilities"} -> "caps"
    [] section = "Service" /\ key = "Environment" -> "environment"
    [] section = "Service" /\ key \in {"EnvironmentFile", "WorkingDirectory", "SocketActivate",
                                       "TTYPath", "PIDFile"} -> "path"
    [] section = "Service" /\ key \in {"Sockets", "NeedsSocket"} -> "paths"
    [] section = "Service" /\ key \in {"CgroupMemoryMax", "CgroupMemoryHigh"} -> "size"
    [] section = "Service" /\ key = "CgroupCPUMax" -> "quota"
    [] OTHER -> "nothing"

(* The values a token is read as. "large" is a number of more than 32      *)
(* bits, "" a pair of quotes with nothing in it.                           *)
number(tokens) == tokens \in {<<"0">>, <<"5">>, <<"large">>}
command(tokens) == IF \A t \in ToSet(tokens) : t = "" THEN <<>> ELSE tokens
Accepts(takes, tokens) ==
  CASE takes \in {"text", "command", "commands"} -> TRUE
    [] takes = "unit type" -> tokens \in {<<"service">>, <<"target">>}
    [] takes = "names" -> ToSet(tokens) \cap {"", "/p", "A=1"} = {}
    [] takes = "kind" -> tokens \in {<<"simple">>, <<"oneshot">>, <<"notify">>, <<"forking">>}
    [] takes = "policy" -> tokens \in {<<p>> : p \in {"no", "always", "on-success", "on-failure", "on-abnormal"}}
    [] takes = "number" -> number(tokens)
    [] takes \in {"positive", "size"} -> number(tokens) /\ tokens # <<"0">>
    [] takes = "burst" -> tokens = <<"5">>
    [] takes = "boolean" -> tokens \in {<<"true">>, <<"false">>}
    [] takes = "caps" -> ToSet(tokens) \cap {"", "/p", "A=1"} = {}
    [] takes = "environment" -> ToSet(tokens) \subseteq {"A=1"}
    [] takes \in {"path", "paths"} -> tokens = <<>> \/ tokens[1] = "/p"
    [] takes = "quota" -> tokens = <<"5", "5">>
    [] OTHER -> FALSE

(* What an accepted entry does to the value of its directive. *)
Stored(takes, old, tokens) ==
  CASE takes \in {"names", "environment"} -> old \o tokens
    [] takes = "commands" -> IF command(tokens) = <<>> THEN old ELSE Append(old, tokens)
    [] takes = "paths" -> IF tokens = <<>> THEN old ELSE Append(old, tokens)
    [] takes = "path" -> IF tokens = <<>> THEN old ELSE tokens
    [] takes = "command" -> command(tokens)
    [] OTHER -> tokens

NewParser == [err |-> "none", line |-> 0, section |-> "none", cfg |-> <<>>, seen |-> {}]
Value(cfg, section, key) ==
  IF <<section, key>> \in DOMAIN cfg THEN cfg[<<section, key>>] ELSE <<>>

Fail(p, err, line) == [p EXCEPT !.err = err, !.line = line]

(* A mistake: a key that is repeated keeps its last value. *)
entry_bug(p, key, tokens, line) ==
  LET takes == Takes(p.section, key)
      at == <<p.section, key>>
  IN IF ~Accepts(takes, tokens) THEN Fail(p, "InvalidValue", line)
     ELSE [p EXCEPT !.cfg = [x \in DOMAIN @ \cup {at} |->
                               IF x = at THEN Stored(takes, Value(p.cfg, p.section, key), tokens)
                               ELSE p.cfg[x]]]
entry(p, key, tokens, line) ==
  LET takes == Takes(p.section, key)
      at == <<p.section, key>>
  IN CASE p.section = "none" -> Fail(p, "EntryOutsideSection", line)
       [] p.section # "none" /\ at \in p.seen -> Fail(p, "DuplicateKey", line)
       [] p.section # "none" /\ at \notin p.seen /\ takes = "nothing" -> Fail(p, "UnknownKey", line)
       [] p.section # "none" /\ at \notin p.seen /\ takes # "nothing" /\ ~Accepts(takes, tokens) ->
            Fail(p, "InvalidValue", line)
       [] OTHER ->
            [p EXCEPT !.cfg = [x \in DOMAIN @ \cup {at} |->
                                 IF x = at
                                 THEN Stored(takes, Value(p.cfg, p.section, key), tokens)
                                 ELSE p.cfg[x]],
                      !.seen = IF key \in REPEATABLE THEN @ ELSE @ \cup {at}]

section_header(p, name, line) ==
  IF name \in {"Unit", "Service"} THEN [p EXCEPT !.section = name]
  ELSE Fail(p, "UnknownSection", line)

(* Parser::finish, for a unit whose name has the given suffix; what it      *)
(* finds is no statement's own, so it has no line here.                    *)
finish(p, suffix) ==
  LET declared == Value(p.cfg, "Unit", "Type")
  IN CASE p.err # "none" -> p
       [] p.err = "none" /\ declared \notin {<<>>, <<suffix>>} -> Fail(p, "TypeSuffixConflict", 0)
       [] p.err = "none" /\ declared \in {<<>>, <<suffix>>} /\ suffix = "service"
            /\ Value(p.cfg, "Service", "ExecStart") = <<>> -> Fail(p, "MissingExecStart", 0)
       [] OTHER ->
            IF /\ Value(p.cfg, "Service", "Type") = <<"oneshot">>
               /\ Value(p.cfg, "Service", "Restart") \notin {<<>>, <<"no">>}
            THEN Fail(p, "InvalidValue", 0) ELSE p

(* A file is a sequence of [header] and [key, tokens] statements. *)
parse(file, suffix) ==
  LET Step(p, i) ==
        IF p.err # "none" THEN p
        ELSE IF file[i].header # "none" THEN section_header(p, file[i].header, i)
        ELSE entry(p, file[i].key, file[i].tokens, i)
  IN finish(FoldLeft(Step, NewParser, [i \in DOMAIN file |-> i]), suffix)

-------------------------------------------------------------------------------
(***************************************************************************)
(* `UnitFile` on every short input: a line, a few lines, a name, the text  *)
(* of a template or a unit file grows by one character or statement at a   *)
(* time, and the invariants compare what the parser makes of it with what  *)
(* was written.                                                            *)
(***************************************************************************)

CONSTANTS
  MaxLine,    \* bound on the characters of a line, of lines and of a template
  MaxName,    \* bound on the characters of a name
  MaxFile,    \* bound on the statements of a file
  MaxBytes    \* the longest name

Header(name) == [header |-> name, key |-> "none", tokens |-> <<>>]
Statement(key, tokens) == [header |-> "none", key |-> key, tokens |-> tokens]
Statements ==
  {Header(s) : s \in {"Unit", "Service", "Install"}} \cup
  {Statement("Type", <<t>>) : t \in {"service", "target", "oneshot"}} \cup
  {Statement("ExecStart", t) : t \in {<<>>, <<"">>, <<"/p">>, <<"/p", "">>}} \cup
  {Statement("Restart", <<t>>) : t \in {"no", "always", "maybe"}} \cup
  {Statement("After", t) : t \in {<<"a">>, <<"/p">>}} \cup
  {Statement("Environment", <<"A=1">>), Statement("CgroupTasksMax", <<"0">>),
   Statement("PIDFile", <<"a">>), Statement("Bogus", <<>>)}

TextAlphabet ==
  [line |-> {"a", "s", " ", "q", "b", "#"},
   lines |-> {"a", "b", " ", "#", "q", "newline"},
   name |-> {"a", "@", "/", " ", "%", "S", "T"},
   text |-> {"a", "@", "i", "n", "p", "%"},
   file |-> Statements]
TextLongest ==
  [line |-> MaxLine, lines |-> MaxLine, name |-> MaxName, text |-> MaxLine, file |-> MaxFile]

-------------------------------------------------------------------------------

(* A value with a comment and the same value without it are the same       *)
(* tokens: the two scanners that know about quotes and backslashes,        *)
(* comment_prefix over the line and tokenize over the value, agree.        *)
CommentsAgree ==
  subject = "line" => tokenize(comment_prefix(input)) = tokenize(input)

(* What is quoted reaches the service unchanged whatever is in it: the     *)
(* line is read back as one token, with a comment after it or without.     *)
Quoted(text) ==
  <<"q">> \o FlattenSeq([i \in DOMAIN text |->
                           IF text[i] \in {"q", "b"} THEN <<"b", text[i]>> ELSE <<text[i]>>])
         \o <<"q">>
QuotedIsLiteral ==
  subject = "line" =>
    \A comment \in {<<>>, <<" ", "#", "q", "b">>} :
      LET statements == logical_lines(<<Quoted(input) \o comment>>)
      IN Len(statements) = 1 /\ tokenize(trim(statements[1].text)) = <<input>>

(* The grammar of continuation (plan section 1.0): a backslash escapes the *)
(* character after it, another backslash or a blank too, and continues the *)
(* line if that is the end of the line; a comment has neither.             *)
Lines ==
  FoldLeft(LAMBDA ls, c : IF c = "newline" THEN Append(ls, <<>>)
                          ELSE Append(Front(ls), Append(Last(ls), c)), <<<<>>>>, input)
EndRun(line) ==
  Len(line) - Max({0} \cup {i \in DOMAIN line : line[i] # "b"})
Continued(line) == EndRun(line) % 2 = 1 /\ comment_prefix(line) = line
StartsMeant == {i \in DOMAIN Lines : i = 1 \/ ~Continued(Lines[i - 1])}
StartsRead == LET read == logical_lines(Lines) IN {read[k].line : k \in DOMAIN read}

(* An error names the line its statement starts on, and no line is lost: a *)
(* line starts a statement exactly if the line before it is not continued. *)
(* Left out are texts with a line whose code ends in an escaped backslash  *)
(* or an escaped blank, which logical_lines takes for a continuation.      *)
EscapedEnd(line) ==
  LET code == trim_end(comment_prefix(line))
  IN code # <<>> /\ Last(code) = "b" /\ ~Continued(line)
LinesKeepTheirNumber ==
  subject = "lines" /\ (\A i \in DOMAIN Lines : ~EscapedEnd(Lines[i])) =>
    /\ StartsRead = StartsMeant
    /\ Len(logical_lines(Lines)) = Cardinality(StartsMeant)

(* The lexer implements the grammar exactly: a backslash is an escape      *)
(* everywhere, so only one that is not itself escaped continues a line.    *)
GrammarIsExact == subject = "lines" => StartsRead = StartsMeant

(* A name has one canonical form, which is read as itself and fits the     *)
(* control protocol; prefix and instance of a unit make it up again, and   *)
(* the template of an instance is a template with the same prefix.         *)
NameRoundTrips ==
  subject = "name" =>
    LET name == parse_name(input, MaxBytes)
    IN name # NoName =>
         /\ parse_name(name, MaxBytes) = name
         /\ Bytes(name) <= MaxBytes
         /\ instance(name) # <<>> =>
              /\ Append(prefix(name) \o <<"@">> \o instance(name), Last(name)) = name
              /\ is_template(template(name, MaxBytes))
              /\ prefix(template(name, MaxBytes)) = prefix(name)

(* Specifiers are replaced once, where they stand: a text whose halves are *)
(* both good is replaced as its halves are, whatever the name of the       *)
(* instance contains.                                                      *)
InstanceNames == {<<"a", "@", "i", "S">>, <<"p", "@", "n", "@", "i", "S">>}
SubstituteIsLocal ==
  subject = "text" =>
    \A name \in InstanceNames, i \in 0 .. Len(input) :
      LET left == substitute(SubSeq(input, 1, i), name)
          right == substitute(SubSeq(input, i + 1, Len(input)), name)
      IN left # Refused /\ right # Refused => substitute(input, name) = left \o right

(* Nothing that is written is silently dropped: in a file that is accepted *)
(* each entry is in the configuration, and one that can be given once is   *)
(* given once, however the sections alternate.                             *)
Accepted(suffix) == parse(input, suffix).err = "none"
SectionOf(i) ==
  input[Max({j \in 1 .. i : input[j].header # "none"})].header
NothingSilent ==
  subject = "file" =>
    \A suffix \in {"service", "target"} : Accepted(suffix) =>
      \A i \in DOMAIN input : input[i].header = "none" =>
        LET cfg == parse(input, suffix).cfg
            key == input[i].key
            same == {j \in DOMAIN input : /\ input[j].key = key
                                          /\ input[j].header = "none"
                                          /\ SectionOf(j) = SectionOf(i)}
        IN /\ ToSet(command(input[i].tokens)) \subseteq ToSet(Value(cfg, SectionOf(i), key))
           /\ key \in REPEATABLE \/ Cardinality(same) = 1

(* A file that is accepted can be run: a service has a program to execute, *)
(* nothing that runs once is to be restarted, and a unit is of the type    *)
(* its name says.                                                          *)
AcceptedRuns ==
  subject = "file" =>
    \A suffix \in {"service", "target"} : Accepted(suffix) =>
      LET Written(section, key) == Value(parse(input, suffix).cfg, section, key)
      IN /\ suffix = "service" => \E t \in ToSet(Written("Service", "ExecStart")) : t # ""
         /\ Written("Service", "Type") = <<"oneshot">> => Written("Service", "Restart") # <<"always">>
         /\ Written("Unit", "Type") \in {<<>>, <<suffix>>}

-------------------------------------------------------------------------------
(***************************************************************************)
(* The command line of PID 1 (rinit/src/args.rs).  An argument is an       *)
(* option, a word, or an option and its value joined by "="; the kernel    *)
(* splits what it passes on at spaces, so a service command arrives as     *)
(* arguments among the others.                                             *)
(***************************************************************************)

CONSTANTS
  MIN_LOG_FILE_MAX_BYTES,   \* logs.rs, scaled
  MAX_LOG_KEEP              \* logger.rs, scaled

ArgWord(text) == [opt |-> "", text |-> text]
NoPath == ArgWord("none")
ArgNumbers == [zero |-> 0, few |-> 3, many |-> 9]
IsDigits(value) == value.opt = "" /\ value.text \in DOMAIN ArgNumbers
ArgSwitches == {"-h", "-V", "--dev"}
ArgOptions ==
  {"--units", "--default", "--cgroup-root", "--watchdog", "--fstab", "--log-file",
   "--log-max-bytes", "--log-keep", "--watchdog-timeout", "--test-service"}

(* The value of an option, or what is wrong with it.                       *)
Bad == <<>>
Good(value) == <<value>>
validate_target(value) == IF value = ArgWord("a.target") THEN Good(value) ELSE Bad
log_file_path(value) == Good(IF value.opt = "" /\ value.text \in {"", "none"} THEN NoPath ELSE value)
parse_log_max_bytes(value) ==
  IF IsDigits(value) /\ ArgNumbers[value.text] >= MIN_LOG_FILE_MAX_BYTES THEN Good(value) ELSE Bad
parse_log_keep(value) ==
  IF IsDigits(value) /\ ArgNumbers[value.text] <= MAX_LOG_KEEP THEN Good(value) ELSE Bad
parse_seconds(value) == IF IsDigits(value) /\ ArgNumbers[value.text] # 0 THEN Good(value) ELSE Bad
split_whitespace(value) ==
  CASE value = ArgWord("") -> <<>>
    [] value = ArgWord("svc x") -> <<ArgWord("svc"), ArgWord("x")>>
    [] OTHER -> <<value>>
Converted(opt, value) ==
  CASE opt = "--default" -> validate_target(value)
    [] opt \in {"--fstab", "--log-file"} -> log_file_path(value)
    [] opt = "--log-max-bytes" -> parse_log_max_bytes(value)
    [] opt = "--log-keep" -> parse_log_keep(value)
    [] opt = "--watchdog-timeout" -> parse_seconds(value)
    [] opt = "--test-service" -> Good(split_whitespace(value))
    [] OTHER -> Good(value)

(* The configuration holds the options that were given, and the service's  *)
(* arguments, which the environment may have set.                          *)
NewConfig(service) == [on |-> {}, set |-> <<>>, service |-> service]
Set(cfg, opt, value) ==
  IF opt = "--test-service"
    THEN [cfg EXCEPT !.service = value]
    ELSE [cfg EXCEPT !.set = [o \in DOMAIN @ \cup {opt} |-> IF o = opt THEN value ELSE @[o]]]
service_argv_from_env(value) == split_whitespace(value)

(* The loop over the arguments: `want` is the option that takes the next   *)
(* one, `rest` says that the remaining ones are the service's.             *)
Given(p, opt, value) ==
  IF Converted(opt, value) = Bad
    THEN [p EXCEPT !.error = TRUE]
    ELSE [p EXCEPT !.want = "", !.cfg = Set(@, opt, Converted(opt, value)[1])]
PlainArgument(p, arg) ==
  CASE arg.text \in ArgSwitches -> [p EXCEPT !.cfg.on = @ \cup {arg.text}]
    [] arg.text \in ArgOptions -> [p EXCEPT !.want = arg.text]
    [] arg.text = "--" -> [p EXCEPT !.cfg.service = <<>>, !.rest = TRUE]
    [] arg.text = "--bad" -> [p EXCEPT !.error = TRUE]
    [] OTHER -> [p EXCEPT !.cfg.service = <<arg>>, !.rest = TRUE]
TakeArgument(p, arg) ==
  IF p.want # "" THEN Given(p, p.want, arg)
  ELSE IF p.rest THEN [p EXCEPT !.cfg.service = Append(@, arg)]
  ELSE IF arg.opt # "" THEN Given(p, arg.opt, ArgWord(arg.text))
  ELSE PlainArgument(p, arg)
parse_with_default(args, default) ==
  LET step(p, arg) == IF p.error THEN p ELSE TakeArgument(p, arg)
      p == FoldLeft(step, [cfg |-> NewConfig(default), want |-> "", rest |-> FALSE, error |-> FALSE], args)
  IN IF \/ p.error \/ p.want # ""
        \/ p.cfg.service # <<>> /\ Head(p.cfg.service) = ArgWord("")
       THEN Bad
       ELSE Good(p.cfg)

-------------------------------------------------------------------------------

CONSTANT MaxArgs   \* bound on the pieces of a command line

Values ==
  [o \in ArgOptions |->
     CASE o = "--default" -> {"a.target", "svc"}
       [] o \in {"--fstab", "--log-file"} -> {"none", "svc"}
       [] o \in {"--log-max-bytes", "--log-keep", "--watchdog-timeout"} -> {"zero", "many"}
       [] o = "--test-service" -> {"svc x", ""}
       [] OTHER -> {"--dev"}]
Plainly == {"-h", "--dev", "--", "--bad", "svc", "", "few"}
ArgsAlphabet ==
  [args |-> UNION {[spelled : {"split", "joined"}, opt : {o}, text : Values[o]] : o \in ArgOptions}
            \cup [spelled : {"plain"}, opt : {""}, text : Plainly]]
ArgsLongest == [args |-> MaxArgs]

Spelled(piece) ==
  CASE piece.spelled = "split" -> <<ArgWord(piece.opt), ArgWord(piece.text)>>
    [] piece.spelled = "joined" -> <<[opt |-> piece.opt, text |-> piece.text]>>
    [] OTHER -> <<ArgWord(piece.text)>>
Argv(pieces) == FlattenSeq([i \in DOMAIN pieces |-> Spelled(pieces[i])])

(* What the line means: the pieces before the service's first are settings *)
(* of which the last one of a kind counts, all of them must be good, and   *)
(* the service has everything else as it stands.                           *)
Starts(piece) == piece.spelled = "plain" /\ piece.text \notin ArgSwitches \cup {"--bad"}
FirstWord == {i \in DOMAIN input : Starts(input[i]) /\ \A j \in 1..(i - 1) : ~Starts(input[j])}
Settings == {i \in DOMAIN input : \A f \in FirstWord : i < f}
Latest(opt) == {i \in Settings : input[i].opt = opt /\ \A j \in Settings : input[j].opt = opt => j <= i}
ValueAt(i) == Converted(input[i].opt, ArgWord(input[i].text))
ServiceMeant(default) ==
  IF FirstWord # {}
    THEN LET f == CHOOSE i \in FirstWord : TRUE IN
         Argv(SubSeq(input, IF input[f].text = "--" THEN f + 1 ELSE f, Len(input)))
    ELSE IF Latest("--test-service") # {}
           THEN ValueAt(CHOOSE i \in Latest("--test-service") : TRUE)[1]
           ELSE default
Meant(default) ==
  IF \/ \E i \in Settings : input[i].text = "--bad" \/ (input[i].opt # "" /\ ValueAt(i) = Bad)
     \/ ServiceMeant(default) # <<>> /\ Head(ServiceMeant(default)) = ArgWord("")
    THEN Bad
    ELSE Good([on |-> {input[i].text : i \in {j \in Settings : input[j].spelled = "plain"}},
               set |-> [o \in {input[i].opt : i \in Settings} \ {"", "--test-service"} |->
                          ValueAt(CHOOSE i \in Latest(o) : TRUE)[1]],
               service |-> ServiceMeant(default)])

(* The command line is read as it is meant, however it is spelled: no      *)
(* option is read out of the service's arguments, no value is taken for an *)
(* option, no bad value becomes a default or is hidden by a later good     *)
(* one, and a line that breaks off before a value is refused (args.rs      *)
(* parse_with_default).  A service command without a word, after "--" or   *)
(* as the value of --test-service, is no service command: a boot of the    *)
(* unit directory, as the tests have it, and no error, as the comment on   *)
(* the function still says.                                                *)
ArgumentsMean ==
  subject = "args" =>
    /\ \A default \in {<<>>, service_argv_from_env(ArgWord("svc x"))} :
         parse_with_default(Argv(input), default) = Meant(default)
    /\ FirstWord = {} =>
         \A o \in ArgOptions : parse_with_default(Append(Argv(input), ArgWord(o)), <<>>) = Bad
===============================================================================
