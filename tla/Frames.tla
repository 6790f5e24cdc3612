------------------------------- MODULE Frames -------------------------------
(***************************************************************************)
(* The control protocol of rinit-core/src/control.rs and rctl's use of it: *)
(* requests and responses as bytes, their bounds-checked decoder, and the  *)
(* command line that makes a request.  A byte is a number; the name of a   *)
(* unit is a sequence of letters, one byte each, `CanonicalName` completing*)
(* it as UnitName::parse does.  A character of a response is its width in  *)
(* bytes, encoded as its width and continuation bytes.                     *)
(***************************************************************************)
EXTENDS Integers, Sequences, SequencesExt, FiniteSetsExt, Inputs

PROTOCOL_VERSION == 2
LENGTH_PREFIX_BYTES == 4
MAX_UNIT_NAME_BYTES == 200
DEFAULT_STATUS_TAIL == 10
NoUnit == <<>>
NoTail == -1

\* Letters of a name; a name without a suffix is completed with ".service".
Dash == 45
Digit == 48 .. 57
Letter == Digit \cup 97 .. 122 \cup {Dash}
Suffix == 0
CanonicalName(name) == IF Last(name) = Suffix THEN name ELSE Append(name, Suffix)
ParsesAsUnit(name) ==
  /\ name # <<>> /\ Len(name) <= MAX_UNIT_NAME_BYTES
  /\ \A i \in DOMAIN name : name[i] \in Letter \/ (i = Len(name) /\ i > 1 /\ name[i] = Suffix)

Command ==
  [list |-> 1, status |-> 2, start |-> 3, stop |-> 4, restart |-> 5, reset_failed |-> 6,
   log |-> 7, reload |-> 8, status_formatted |-> 9, list_formatted |-> 10,
   reboot |-> 11, poweroff |-> 12]
StatusFormat == [systemd |-> 0, plain |-> 1, short |-> 2, json |-> 3, card |-> 4]
ListFormat == [table |-> 0, plain |-> 1, short |-> 2, json |-> 3]
Status ==
  [ok |-> 0, error |-> 1, version_mismatch |-> 2, unknown_command |-> 3,
   no_such_unit |-> 4, conflict |-> 5, bad_request |-> 6]
exit_code(status) ==
  CASE status = "ok" -> 0
    [] status = "no_such_unit" -> 3
    [] status = "conflict" -> 4
    [] OTHER -> 1

\* The fields a request of each command carries, in the order on the wire.
Fields(command) ==
  CASE command \in {"start", "stop", "restart", "reset_failed"} -> <<"unit">>
    [] command \in {"status", "log"} -> <<"opt_unit", "tail">>
    [] command = "status_formatted" -> <<"opt_unit", "tail", "status_format">>
    [] command = "list_formatted" -> <<"list_format">>
    [] OTHER -> <<>>
Request(command, unit, tail, format) ==
  [command |-> command, unit |-> unit, tail |-> tail, format |-> format]

-------------------------------------------------------------------------------
(* Bytes.                                                                  *)

LittleEndian(n, width) == [i \in 1 .. width |-> (n \div 256^(i - 1)) % 256]
Number(bytes) ==
  FoldLeft(LAMBDA acc, i : acc + bytes[i] * 256^(i - 1), 0, [i \in DOMAIN bytes |-> i])

frame(body) == LittleEndian(Len(body), LENGTH_PREFIX_BYTES) \o body
TooLong == -1
frame_len(prefix, max) == IF Number(prefix) > max THEN TooLong ELSE Number(prefix)

put_unit(name) == <<Len(name)>> \o name
put_opt_unit(name) == IF name = NoUnit THEN <<0>> ELSE <<1>> \o put_unit(name)

put_field(field, r) ==
  CASE field = "unit" -> put_unit(r.unit)
    [] field = "opt_unit" -> put_opt_unit(r.unit)
    [] field = "tail" -> LittleEndian(r.tail, 4)
    [] field = "status_format" -> <<StatusFormat[r.format]>>
    [] field = "list_format" -> <<ListFormat[r.format]>>
encode_request(r) ==
  LET fields == Fields(r.command)
  IN LittleEndian(PROTOCOL_VERSION, 2) \o <<Command[r.command]>>
       \o FlattenSeq([i \in DOMAIN fields |-> put_field(fields[i], r)])

(* The decoder: a position in the body, the error that stopped it, and the *)
(* request so far.                                                         *)
take(d, count) ==
  IF d.err # "none" THEN d
  ELSE IF d.pos + count > Len(d.bytes) THEN [d EXCEPT !.err = "TooShort"]
  ELSE [d EXCEPT !.pos = @ + count, !.got = SubSeq(d.bytes, d.pos + 1, d.pos + count)]
FromByte(codes, byte) ==
  LET found == {c \in DOMAIN codes : codes[c] = byte}
  IN IF found = {} THEN "unknown" ELSE CHOOSE c \in found : TRUE
Coded(d, codes, field) ==
  LET read == take(d, 1)
      code == FromByte(codes, read.got[1])
  IN CASE read.err # "none" -> read
       [] code = "unknown" -> [read EXCEPT !.err = "UnknownCode"]
       [] OTHER -> [read EXCEPT !.request[field] = code]
unit(d) ==
  LET size == take(d, 1)
      read == take(size, size.got[1])
  IN CASE size.err # "none" -> size
       [] size.got[1] \notin 1 .. MAX_UNIT_NAME_BYTES -> [size EXCEPT !.err = "BadUnitName"]
       [] read.err # "none" -> read
       [] ~ParsesAsUnit(read.got) -> [read EXCEPT !.err = "BadUnitName"]
       [] OTHER -> [read EXCEPT !.request.unit = CanonicalName(read.got)]
opt_unit(d) ==
  LET flag == take(d, 1)
  IN CASE flag.err # "none" -> flag
       [] flag.got[1] = 0 -> flag
       [] flag.got[1] = 1 -> unit(flag)
       [] OTHER -> [flag EXCEPT !.err = "BadUnitName"]
get_field(d, field) ==
  CASE d.err # "none" -> d
    [] field = "unit" -> unit(d)
    [] field = "opt_unit" -> opt_unit(d)
    [] field = "tail" ->
         LET read == take(d, 4)
         IN IF read.err # "none" THEN read ELSE [read EXCEPT !.request.tail = Number(read.got)]
    [] field = "status_format" -> Coded(d, StatusFormat, "format")
    [] field = "list_format" -> Coded(d, ListFormat, "format")

Decoder(body) ==
  [bytes |-> body, pos |-> 0, got |-> <<>>, err |-> "none",
   request |-> Request("none", NoUnit, 0, "none")]
decode_request_bug(body) ==
  LET version == take(Decoder(body), 2)
      command == Coded(version, Command, "command")
  IN CASE version.err # "none" -> version
       [] Number(version.got) # PROTOCOL_VERSION -> [version EXCEPT !.err = "VersionMismatch"]
       [] OTHER -> FoldLeft(get_field, command, Fields(command.request.command))
decode_request(body) ==
  LET version == take(Decoder(body), 2)
      command == Coded(version, Command, "command")
      read == FoldLeft(get_field, command, Fields(command.request.command))
  IN CASE version.err # "none" -> version
       [] Number(version.got) # PROTOCOL_VERSION -> [version EXCEPT !.err = "VersionMismatch"]
       [] read.err = "none" /\ read.pos # Len(body) -> [read EXCEPT !.err = "TrailingBytes"]
       [] OTHER -> read

-------------------------------------------------------------------------------
(* Responses.  A character of width w is the byte w followed by w - 1      *)
(* continuation bytes.                                                     *)

Continuation == 0
Utf8(text) ==
  FlattenSeq([i \in DOMAIN text |-> <<text[i]>> \o [j \in 1 .. text[i] - 1 |-> Continuation]])
is_char_boundary(bytes, end) == end = Len(bytes) \/ bytes[end + 1] # Continuation

encode_response(status, text, max, marker) ==
  LET bytes == Utf8(text)
      keep == Max({0, max - 1 - Len(marker)})
      end == Max({e \in 0 .. Min({Len(bytes), keep}) : e = 0 \/ is_char_boundary(bytes, e)})
  IN <<Status[status]>> \o
       IF Len(bytes) <= max - 1 THEN bytes ELSE SubSeq(bytes, 1, end) \o marker

\* Whether bytes are the encoding of some text: every character is complete.
IsUtf8(bytes) ==
  \A i \in DOMAIN bytes :
    IF bytes[i] = Continuation
    THEN \E j \in 1 .. i - 1 : /\ bytes[j] > i - j
                               /\ \A k \in j + 1 .. i : bytes[k] = Continuation
    ELSE /\ i + bytes[i] - 1 <= Len(bytes)
         /\ \A k \in i + 1 .. i + bytes[i] - 1 : bytes[k] = Continuation
decode_response(body) ==
  IF body = <<>> THEN [err |-> "TooShort", status |-> "none", text |-> <<>>]
  ELSE LET status == FromByte(Status, body[1])
           text == Tail(body)
       IN CASE status = "unknown" -> [err |-> "UnknownCode", status |-> "none", text |-> <<>>]
            [] ~IsUtf8(text) -> [err |-> "BadText", status |-> "none", text |-> <<>>]
            [] OTHER -> [err |-> "none", status |-> status, text |-> text]

(* The log lines of a reply, newest kept, in a budget of bytes; lines are  *)
(* their lengths, each with a newline.  TRUE: older ones are left out.     *)
render_logs_with_budget(lines, tail, budget) ==
  LET wanted == IF tail = 0 THEN lines
                ELSE SubSeq(lines, Max({1, Len(lines) - tail + 1}), Len(lines))
      Used(k) == FoldLeft(LAMBDA acc, n : acc + n + 1, 0, SubSeq(wanted, k, Len(wanted)))
      from == Min({k \in 1 .. Len(wanted) + 1 : Used(k) <= budget})
  IN <<SubSeq(wanted, from, Len(wanted)), from > 1>>

-------------------------------------------------------------------------------
(* rctl: the words after argv[0].  A word is an option with or without a   *)
(* value after `=`, or ("none") a plain one, whose text is its letters; a  *)
(* format is spelled by its letter in `Spelling`.                          *)

Word(opt, eq, val) == [opt |-> opt, eq |-> eq, val |-> val]
Spelling ==
  [systemd |-> 121, plain |-> 112, short |-> 115, json |-> 106, card |-> 99, table |-> 116]
FormatsOf(command) == DOMAIN (IF command = "list" THEN ListFormat ELSE StatusFormat)
Options(command) ==
  CASE command = "log" -> {"--tail", "--file"}
    [] command = "list" -> {"--format", "--table", "--plain", "--short", "--json"}
    [] command = "status" -> {"--tail", "--format", "--plain", "--short", "--json", "--card"}

Wrong(acc) == [acc EXCEPT !.ok = FALSE]
parse_tail(acc, val) ==
  IF val # <<>> /\ \A i \in DOMAIN val : val[i] \in Digit
  THEN [acc EXCEPT !.tail = FoldLeft(LAMBDA n, d : 10 * n + (d - 48), 0, val), !.wants = "none"]
  ELSE Wrong(acc)
parse_format(acc, val, command) ==
  LET formats == {f \in FormatsOf(command) : val = <<Spelling[f]>>}
  IN IF formats = {} THEN Wrong(acc)
     ELSE [acc EXCEPT !.format = CHOOSE f \in formats : TRUE, !.wants = "none"]
parse_value(acc, option, val, command) ==
  IF option = "--tail" THEN parse_tail(acc, val) ELSE parse_format(acc, val, command)
Alias(option) ==
  CASE option = "--table" -> "table" [] option = "--plain" -> "plain"
    [] option = "--short" -> "short" [] option = "--json" -> "json"
    [] option = "--card" -> "card"

positional(command, acc, val) ==
  IF command = "list" \/ val[1] = Dash \/ acc.unit # NoUnit \/ ~ParsesAsUnit(val) THEN Wrong(acc)
  ELSE [acc EXCEPT !.unit = CanonicalName(val)]

(* One more word of log, list or status; `wants` is the option whose value *)
(* it is.                                                                  *)
parse_word(command, acc, w) ==
  CASE ~acc.ok -> acc
    [] acc.ok /\ acc.wants # "none" ->
         IF w.opt = "none" THEN parse_value(acc, acc.wants, w.val, command) ELSE Wrong(acc)
    [] acc.ok /\ acc.wants = "none" /\ w.opt = "none" -> positional(command, acc, w.val)
    [] acc.ok /\ acc.wants = "none" /\ w.opt # "none" ->
         CASE w.opt \notin Options(command) -> Wrong(acc)
           [] w.opt \in {"--tail", "--format"} ->
                IF w.eq THEN parse_value(acc, w.opt, w.val, command)
                ELSE [acc EXCEPT !.wants = w.opt]
           [] w.opt = "--file" ->
                IF w.eq /\ w.val = <<>> THEN Wrong(acc) ELSE [acc EXCEPT !.file = TRUE]
           [] OTHER -> IF w.eq THEN Wrong(acc) ELSE [acc EXCEPT !.format = Alias(w.opt)]
parse_words(command, words) ==
  FoldLeft(LAMBDA acc, w : parse_word(command, acc, w),
           [ok |-> TRUE, wants |-> "none", unit |-> NoUnit, tail |-> NoTail, file |-> FALSE,
            format |-> IF command = "list" THEN "table" ELSE "systemd"], words)

Parsed(kind, request) == [kind |-> kind, request |-> request]
Usage == Parsed("usage", Request("none", NoUnit, 0, "none"))
\* A command that takes one unit takes any word for its name, an option's
\* too; of those only the dashes are told apart, and "=" is in no name.
Text(w) == IF w.opt = "none" THEN w.val ELSE <<Dash, Dash>>
required_unit(command, words) ==
  IF Len(words) = 1 /\ ~words[1].eq /\ ParsesAsUnit(Text(words[1]))
  THEN Parsed("request", Request(command, CanonicalName(Text(words[1])), 0, "none")) ELSE Usage
parse_log(words) ==
  LET acc == parse_words("log", words)
      kind == IF acc.file THEN "file_log" ELSE "request"
  IN IF ~acc.ok \/ acc.wants # "none" THEN Usage
     ELSE Parsed(kind, Request("log", acc.unit, Max({0, acc.tail}), "none"))
parse_list(words) ==
  LET acc == parse_words("list", words)
  IN IF ~acc.ok \/ acc.wants # "none" THEN Usage
     ELSE Parsed("request", Request("list_formatted", NoUnit, 0, acc.format))
parse_status(words) ==
  LET acc == parse_words("status", words)
      default == IF acc.unit # NoUnit /\ acc.format = "systemd" THEN DEFAULT_STATUS_TAIL ELSE 0
  IN IF ~acc.ok \/ acc.wants # "none" THEN Usage
     ELSE Parsed("request", Request("status_formatted", acc.unit,
                                    IF acc.tail = NoTail THEN default ELSE acc.tail, acc.format))
command_line(command, words) ==
  CASE command = "list" -> parse_list(words)
    [] command = "status" -> parse_status(words)
    [] command = "log" -> parse_log(words)
    [] command \in {"start", "stop", "restart", "reset_failed"} -> required_unit(command, words)
    [] command \in {"reload", "reboot", "poweroff"} ->
         IF words = <<>> THEN Parsed("request", Request(command, NoUnit, 0, "none")) ELSE Usage
    [] OTHER -> Usage

-----------------------------------------------------------------------------
(***************************************************************************)
(* `Frames` on every short command line, request and reply: what rctl asks *)
(* for is what the main loop reads, and what the loop answers is what rctl *)
(* reads.                                                                  *)
(***************************************************************************)

CONSTANTS
  MaxWords,   \* bound on the words of a command line
  MaxText,    \* bound on the characters of a reply, and on the lines of a log
  MaxFrame    \* the frame limit the replies are cut to

Words ==
  {Word("none", FALSE, val) : val \in {<<117>>, <<53>>, <<106>>, <<117, Suffix>>, <<45>>}} \cup
  {Word(opt, FALSE, <<>>) : opt \in {"--tail", "--format", "--json", "--file", "--card"}} \cup
  {Word("--tail", TRUE, val) : val \in {<<>>, <<51, 48, 48>>}} \cup
  {Word("--format", TRUE, <<116>>), Word("--file", TRUE, <<>>), Word("--json", TRUE, <<106>>)}
ProtocolAlphabet ==
  [list |-> Words, status |-> Words, log |-> Words, start |-> Words, reboot |-> Words,
   reply |-> 1 .. 3, loglines |-> 1 .. 3]
ProtocolLongest ==
  [list |-> MaxWords, status |-> MaxWords, log |-> MaxWords, start |-> 2,
   reboot |-> 1, reply |-> MaxText, loglines |-> MaxText]
Commands == {"list", "status", "log", "start", "reboot"}
Marker == <<1, 1>>

(* What a command line asks for is what the loop is asked: the request     *)
(* survives its encoding, and the body framed by its length.               *)
Sent == command_line(subject, input)
Says(read, request) == read.err = "none" /\ read.request = request
Reads(body, request) == Says(decode_request(body), request)
RequestArrives ==
  subject \in Commands /\ Sent.kind = "request" =>
    LET body == encode_request(Sent.request)
    IN /\ Reads(body, Sent.request)
       /\ frame_len(SubSeq(frame(body), 1, LENGTH_PREFIX_BYTES), 2 * Len(body)) = Len(body)

(* A body cut short, run on, or with one byte changed is refused or names  *)
(* one request, the one its own encoding names: a torn or corrupted frame  *)
(* never acts on another unit than the one it spells.                      *)
NamesOne(read) == read.err = "none" => Reads(encode_request(read.request), read.request)
DamageIsSeen ==
  subject \in Commands /\ Sent.kind = "request" =>
    LET body == encode_request(Sent.request)
    IN /\ \A n \in 0 .. Len(body) - 1 : decode_request(SubSeq(body, 1, n)).err # "none"
       /\ \A b \in {0, 1, 117} : decode_request(Append(body, b)).err = "TrailingBytes"
       /\ \A i \in DOMAIN body, b \in {0, 1, 2, 3, 9, 117} :
            NamesOne(decode_request([body EXCEPT ![i] = b]))

(* The order in which unit and options are given does not matter, unless   *)
(* an option is given twice: an option never takes the name of the unit.   *)
Chunks(words) ==
  LET Pairs(i) == words[i].opt \in {"--tail", "--format"} /\ ~words[i].eq
      starts == {i \in DOMAIN words : i = 1 \/ ~Pairs(i - 1)}
  IN [k \in 1 .. Cardinality(starts) |->
        LET i == SetToSortSeq(starts, <)[k]
        IN IF Pairs(i) /\ i < Len(words) THEN <<words[i], words[i + 1]>> ELSE <<words[i]>>]
Means(chunk) ==
  CASE chunk[1].opt \in {"--tail", "--file", "none"} -> chunk[1].opt [] OTHER -> "--format"
OrderIsFree ==
  subject \in Commands /\ Sent.kind # "usage" =>
    LET chunks == Chunks(input)
    IN (\A i, j \in DOMAIN chunks : i # j /\ Means(chunks[i]) = Means(chunks[j])
                                     => Means(chunks[i]) = "none") =>
         command_line(subject, FlattenSeq(Reverse(chunks))) = Sent

(* A reply always fits its frame and is always text: the client reads the  *)
(* status that was sent, and the beginning of the text or all of it, cut   *)
(* between two characters.                                                 *)
ReplyFits ==
  subject = "reply" =>
    \A status \in DOMAIN Status :
      LET body == encode_response(status, input, MaxFrame, Marker)
          read == decode_response(body)
          whole == Utf8(input)
      IN /\ Len(body) <= MaxFrame
         /\ read.err = "none" /\ read.status = status
         /\ read.text = whole \/ \E n \in 0 .. Len(whole) - 1 : read.text = SubSeq(whole, 1, n) \o Marker
         /\ Len(whole) < MaxFrame => read.text = whole

(* The log lines of a reply are the newest ones, as many as were asked for *)
(* and fit, and the reply says so exactly if an older one was left out.    *)
Size(s) == FoldLeft(LAMBDA n, l : n + l + 1, 0, s)
NewestKept ==
  subject = "loglines" =>
    \A tail \in 0 .. MaxText :
      LET shown == render_logs_with_budget(input, tail, MaxFrame)[1]
          omitted == render_logs_with_budget(input, tail, MaxFrame)[2]
          n == Len(input)
          asked == IF tail = 0 \/ tail > n THEN n ELSE tail
      IN /\ shown = SubSeq(input, n - Len(shown) + 1, n)
         /\ Size(shown) <= MaxFrame
         /\ omitted <=> Len(shown) < asked
         /\ omitted => Size(SubSeq(input, n - Len(shown), n)) > MaxFrame

(* What rctl asks is what rinit reads and what rinit answers is what rctl  *)
(* shows: damaged frames are seen, the order of options does not matter,   *)
(* and an answer at the limit is cut between characters and keeps the      *)
(* newest lines.                                                           *)
ProtocolIsRight ==
  /\ RequestArrives
  /\ DamageIsSeen
  /\ OrderIsFree
  /\ ReplyFits
  /\ NewestKept
=============================================================================
