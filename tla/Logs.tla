--------------------------------- MODULE Logs ---------------------------------
(***************************************************************************)
(* The output of the services.  What happens to a line before it is        *)
(* stored: the pump of a service's pipe (rinit/src/logs.rs), the ring that *)
(* rctl log reads (rinit-core/src/logger.rs) and the limiter of rinit's    *)
(* own console lines (rinit-core/src/ratelimit.rs, rinit/src/log.rs).      *)
(*                                                                         *)
(* Then the persisted log (rinit/src/logs.rs) and its reader, rctl log     *)
(* --file (rctl/src/file_log.rs).  A captured line waits in a bounded      *)
(* queue until a pass of the supervisor writes it; the file is bounded     *)
(* too, by rotation or by truncation.  A record of size n is the pieces    *)
(* k = 1..n of it, the first with its unit and the last with its newline.  *)
(* A batch is written in one step: rinit has one thread.                   *)
(***************************************************************************)
EXTENDS Integers, Sequences, SequencesExt, FiniteSets, FiniteSetsExt, Inputs

CONSTANTS
  MAX_PENDING_LINE,
  RING_MAX_BYTES, RING_MAX_LINE,   \* the bounds of the ring
  LINE_OVERHEAD,                   \* what a line costs besides its text
  RATE_WINDOW_MS, RATE_BURST

-------------------------------------------------------------------------------
(* The pump.  A service writes bytes: "x", "nl" and "cr" are characters,   *)
(* "lead" and "cont" together are one.  A piece of a character that is     *)
(* read without the other becomes the replacement character, "lost", of    *)
(* three bytes.  "[truncated]" is one mark.                                *)

Decode(acc, c) ==
  LET told == IF acc.lead THEN Append(acc.text, "lost") ELSE acc.text
  IN CASE c = "lead" -> [text |-> told, lead |-> TRUE]
       [] c = "cont" -> [text |-> Append(acc.text, IF acc.lead THEN "wide" ELSE "lost"), lead |-> FALSE]
       [] OTHER -> [text |-> Append(told, c), lead |-> FALSE]
from_utf8_lossy(bytes) ==
  LET d == FoldLeft(Decode, [text |-> <<>>, lead |-> FALSE], bytes)
  IN IF d.lead THEN Append(d.text, "lost") ELSE d.text
BytesIn(text) ==
  LET count(c) == Cardinality({i \in DOMAIN text : text[i] = c})
  IN Len(text) + count("wide") + 2 * count("lost")

trim_line(line) ==
  LET text == {i \in DOMAIN line : line[i] \notin {"nl", "cr"}}
  IN SubSeq(line, 1, Max({0} \cup text))

(* split_inclusive: the lines of a text, each with its newline.            *)
SplitInclusive(text) ==
  FoldLeft(LAMBDA acc, c :
             IF c = "nl" THEN [done |-> Append(acc.done, Append(acc.open, c)), open |-> <<>>]
             ELSE [acc EXCEPT !.open = Append(@, c)],
           [done |-> <<>>, open |-> <<>>], text)

cap_pending(pending) ==
  LET cut == Max({n \in 0 .. Len(pending) : BytesIn(SubSeq(pending, 1, n)) <= MAX_PENDING_LINE})
  IN IF cut = Len(pending) THEN pending
     ELSE SubSeq(pending, 1, cut) \o <<"[truncated]", "nl">>

(* One read, decoded by itself: whole lines are pushed, the rest waits,    *)
(* bounded.                                                                *)
Read(s) ==
  LET split == SplitInclusive(s.pending \o from_utf8_lossy(s.buf))
  IN [lines |-> s.lines \o [i \in DOMAIN split.done |-> trim_line(split.done[i])],
      pending |-> cap_pending(split.open), buf |-> <<>>]

(* The stream, of which each read returns what is before the next "cut".   *)
pump(stream) ==
  FoldLeft(LAMBDA s, c : IF c = "cut" THEN Read(s) ELSE [s EXCEPT !.buf = Append(@, c)],
           [lines |-> <<>>, pending |-> <<>>, buf |-> <<>>], stream)
(* The last read, and at end of file a line without its newline.           *)
Pumped(stream) ==
  LET s == Read(pump(stream))
  IN IF s.pending = <<>> THEN s.lines ELSE Append(s.lines, trim_line(s.pending))

-------------------------------------------------------------------------------
(* The ring.                                                               *)

line_cost(line) == line.size + LINE_OVERHEAD
Shortened(line) ==
  [line EXCEPT !.size = Min({@, RING_MAX_LINE, Max({0, RING_MAX_BYTES - LINE_OVERHEAD})})]
RingPush(ring, line) ==
  LET kept == Append(ring.kept, Shortened(line))
      after(n) == ring.bytes + line_cost(Shortened(line))
                    - FoldLeft(LAMBDA sum, l : sum + line_cost(l), 0, SubSeq(kept, 1, n))
      drop == Min({n \in 0 .. Len(kept) : after(n) <= RING_MAX_BYTES \/ n = Len(kept)})
  IN [kept |-> SubSeq(kept, drop + 1, Len(kept)), bytes |-> after(drop)]
Ring(pushed) == FoldLeft(RingPush, [kept |-> <<>>, bytes |-> 0], pushed)

(* A count of 0 asks for everything.                                       *)
tail(ring, unit, count) ==
  LET own == SelectSeq(ring.kept, LAMBDA l : unit = "any" \/ l.unit = unit)
  IN IF count = 0 THEN own ELSE SubSeq(own, Max({1, Len(own) - count + 1}), Len(own))

-------------------------------------------------------------------------------
(* The limiter.  A call site is its window, what it has printed in it and  *)
(* what it has dropped; `console` gets messages and notices.               *)

Unseen == [start |-> -1, printed |-> 0, suppressed |-> 0]
Printed(at) == [what |-> "message", at |-> at, count |-> 1]
Told(at, count) == [what |-> "notice", at |-> at, count |-> count]

admit(site, now) ==
  IF site.start >= 0 /\ now - site.start >= RATE_WINDOW_MS
  THEN [site |-> [start |-> now, printed |-> 1, suppressed |-> 0],
        out |-> (IF site.suppressed > 0 THEN <<Told(now, site.suppressed)>> ELSE <<>>)
                  \o <<Printed(now)>>]
  ELSE IF site.printed < RATE_BURST
  THEN [site |-> [site EXCEPT !.start = IF @ < 0 THEN now ELSE @, !.printed = @ + 1],
        out |-> <<Printed(now)>>]
  ELSE [site |-> [site EXCEPT !.suppressed = @ + 1], out |-> <<>>]
flush_suppressed(site, now) ==
  IF site.suppressed > 0 THEN <<Told(now, site.suppressed)>> ELSE <<>>

(* The console of one call site: `gaps` are the times between messages.    *)
Console(gaps) ==
  LET s == FoldLeft(LAMBDA acc, gap :
                      LET step == admit(acc.site, acc.now + gap)
                      IN [site |-> step.site, now |-> acc.now + gap, console |-> acc.console \o step.out],
                    [site |-> Unseen, now |-> 0, console |-> <<>>], gaps)
  IN s.console \o flush_suppressed(s.site, s.now)

-------------------------------------------------------------------------------

CONSTANTS
  MaxStream,   \* bound on the bytes and cuts of a stream
  MaxPushes,   \* bound on the lines pushed to the ring
  MaxFlood     \* bound on the messages of a call site

LogAlphabet ==
  [stream |-> {"x", "lead", "cont", "nl", "cr", "cut"},
   ring |-> [unit : {"a", "b"}, size : {0, 1, 4}],
   flood |-> {0, 1, 2}]
LogLongest == [stream |-> MaxStream, ring |-> MaxPushes, flood |-> MaxFlood]

-------------------------------------------------------------------------------

(* How the reads cut a service's output does not change its lines, unless  *)
(* one of them was longer than the bound or a cut is inside a character:   *)
(* that character is lost, and no line or other character with it.  What   *)
(* is waiting for its newline is bounded, and a line that was cut ends in  *)
(* its mark.                                                               *)
Uncut(stream) == SelectSeq(stream, LAMBDA c : c # "cut")
WholeLines(stream) ==
  LET split == SplitInclusive(from_utf8_lossy(Uncut(stream)))
      all == IF split.open = <<>> THEN split.done ELSE Append(split.done, split.open)
  IN [i \in DOMAIN all |-> trim_line(all[i])]
CutsBetween(stream) ==
  \A i, j \in DOMAIN stream :
    i + 1 < j /\ stream[i] = "lead" /\ stream[j] = "cont" => \E k \in i + 1 .. j - 1 : stream[k] # "cut"
Narrow(line) == SelectSeq(line, LAMBDA c : c \notin {"wide", "lost"})
LinesAreWhole(shown, whole) ==
  LET marked == {i \in DOMAIN shown : "[truncated]" \in ToSet(shown[i])}
  IN /\ marked = {} =>
          /\ Len(shown) = Len(whole) /\ \A i \in DOMAIN shown : Narrow(shown[i]) = Narrow(whole[i])
          /\ CutsBetween(input) => shown = whole
     /\ /\ \A i \in DOMAIN whole : BytesIn(whole[i]) <= MAX_PENDING_LINE
        /\ "cr" \notin ToSet(input) /\ CutsBetween(input)
        => marked = {}
     /\ \A i \in marked : /\ BytesIn(Front(shown[i])) \in MAX_PENDING_LINE - 2 .. MAX_PENDING_LINE
                          /\ Last(shown[i]) = "[truncated]"
CutsDoNotMatter ==
  subject = "stream" =>
    /\ LinesAreWhole(Pumped(input), WholeLines(input))
    /\ BytesIn(pump(input).pending) <= MAX_PENDING_LINE + 2

(* The ring holds the newest lines, as many as its budget has room for,    *)
(* and of a unit's lines rctl gets the newest.                             *)
Fits(kept) == FoldLeft(LAMBDA sum, l : sum + line_cost(l), 0, kept) <= RING_MAX_BYTES
RingHoldsNewest ==
  subject = "ring" =>
    LET all == [i \in DOMAIN input |-> Shortened(input[i])]
        last(n) == SubSeq(all, Len(all) - n + 1, Len(all))
        most == Max({n \in 0 .. Len(all) : Fits(last(n))})
    IN /\ tail(Ring(input), "any", 0) = last(most)
       /\ input # <<>> => tail(Ring(input), Last(input).unit, 1) = last(1)

(* Every message of a call site is printed or counted in a notice, the     *)
(* last of which comes at shutdown, and the notice comes after what it     *)
(* counts.                                                                 *)
SuppressionIsTold ==
  subject = "flood" =>
    FoldLeft(LAMBDA sum, o : sum + o.count, 0, Console(input)) = Len(input)

(* No flood gets more than two bursts less one through in the time of a    *)
(* window, wherever that time begins.                                      *)
BurstHolds ==
  subject = "flood" =>
    LET messages == SelectSeq(Console(input), LAMBDA o : o.what = "message")
    IN \A i \in DOMAIN messages :
         i + 2 * RATE_BURST - 1 \in DOMAIN messages =>
           messages[i + 2 * RATE_BURST - 1].at - messages[i].at >= RATE_WINDOW_MS

-------------------------------------------------------------------------------
(* The persisted log.                                                      *)

CONSTANTS
  LogUnits,              \* the services that write
  Captured,              \* bound on the lines captured
  Widest,                \* bound on the size of a line
  LOG_QUEUE_MAX_LINES, LOG_QUEUE_MAX_BYTES,
  LOG_DRAIN_MAX_LINES, LOG_DRAIN_MAX_BYTES,
  LOG_MAX_BYTES,         \* --log-max-bytes
  LogKeeps,              \* the values of --log-keep
  FlushPasses,           \* the passes of a flush, 64 in the code
  WideSizes,             \* the sizes of lines that have a character in parts of pieces 2 and 3
  Failures               \* bound on the drains in which the disk fails

VARIABLES
  captured,  \* how many lines have been captured
  queued,    \* the lines that wait for the writer
  lost,      \* how many lines the full queue has dropped since the last drain
  log,       \* the writer: open, written, keep, files (files[1] the current one)
  uncounted, \* bytes of writes that failed part of the way
  faults,  \* drains in which the disk failed
  flushed    \* the log has been flushed for shutdown
logVars == <<captured, queued, lost, log, uncounted, faults, flushed>>

Record(line) == [k \in 1 .. line.size |-> [id |-> line.id, unit |-> line.unit, k |-> k, of |-> line.size]]
Notice(id, k) == <<[id |-> id, unit |-> "rinit", k |-> k, of |-> k]>>
DropNotice(n) == Notice(0, n)
TruncateMarker == Notice(-1, 1)
Earlier(n) == [k \in 1 .. n |-> [id |-> -2, unit |-> "rinit", k |-> k, of |-> n]]
SizeOf(waiting) == FoldLeft(LAMBDA sum, line : sum + line.size, 0, waiting)

(* The disk in one drain: the calls that fail and the bytes that fit.      *)
Healthy == [fails |-> {}, space |-> 100]
Disks == {[fails |-> {c}, space |-> 100] : c \in {"open", "shift", "rename", "set_len"}}
           \cup {[fails |-> {}, space |-> n] : n \in 0 .. 1}

-------------------------------------------------------------------------------
(* LogFile.  `w` is the writer with the disk's `space`, whether it is `ok` *)
(* and the bytes that went `astray`.                                       *)

reopen(w, disk) ==
  IF "open" \in disk.fails THEN [w EXCEPT !.open = FALSE, !.ok = FALSE]
  ELSE [w EXCEPT !.open = TRUE, !.written = Len(w.files[1])]

truncate(w, needed, disk) ==
  LET o == IF w.open THEN w ELSE reopen(w, disk)
      marker == IF Len(TruncateMarker) + needed <= LOG_MAX_BYTES THEN TruncateMarker ELSE <<>>
  IN IF ~o.ok \/ "set_len" \in disk.fails THEN [o EXCEPT !.ok = FALSE]
     ELSE IF Len(marker) > o.space
     THEN [o EXCEPT !.files[1] = <<>>, !.ok = FALSE]
     ELSE [o EXCEPT !.files[1] = marker, !.written = Len(marker), !.space = @ - Len(marker)]

(* The files path.1 .. path.keep move up by one, the oldest first.  One    *)
(* that cannot be moved stays and is overwritten by the next.              *)
ShiftOrder(keep) == [n \in 1 .. keep - 1 |-> keep + 1 - n]
Shift(files, i, disk) ==
  IF "shift" \in disk.fails THEN files
  ELSE [files EXCEPT ![i + 1] = files[i], ![i] = <<>>]
rotate(w, needed, disk) ==
  IF w.keep = 0 THEN truncate(w, needed, disk)
  ELSE LET cleared == IF "shift" \in disk.fails THEN w.files ELSE [w.files EXCEPT ![w.keep + 1] = <<>>]
           shifted == FoldLeft(LAMBDA files, i : Shift(files, i, disk), cleared,
                               ShiftOrder(w.keep))
           moved == [shifted EXCEPT ![2] = w.files[1], ![1] = <<>>]
       IN IF "rename" \in disk.fails
          THEN truncate([w EXCEPT !.files = shifted], needed, disk)
          ELSE reopen([w EXCEPT !.files = moved, !.open = FALSE], disk)

(* One turn of append_record's loop: what fits under the bound is written, *)
(* the rest is for the next turn, after a rotation.                        *)
AppendChunk(w, disk) ==
  LET o == IF w.open THEN w ELSE reopen(w, disk)
      r == IF o.ok /\ o.written >= LOG_MAX_BYTES THEN rotate(o, Len(w.rest), disk) ELSE o
      take == Min({LOG_MAX_BYTES - r.written, Len(w.rest)})
      fits == Min({take, r.space})
      wrote == [r EXCEPT !.files[1] = @ \o SubSeq(w.rest, 1, fits), !.space = @ - fits]
  IN IF ~r.ok THEN r
     ELSE IF fits < take THEN [wrote EXCEPT !.ok = FALSE, !.astray = fits]
     ELSE [wrote EXCEPT !.written = @ + take, !.rest = SubSeq(@, take + 1, Len(@))]
append_record(w, record, disk) ==
  FoldLeft(LAMBDA acc, i : IF acc.ok /\ acc.rest # <<>> THEN AppendChunk(acc, disk) ELSE acc,
           [w EXCEPT !.rest = record], record)
append_text(w, records, disk) ==
  FoldLeft(LAMBDA acc, record : IF acc.ok THEN append_record(acc, record, disk) ELSE acc, w, records)

-------------------------------------------------------------------------------
(* FileQueue.  The byte bound of a batch lets its first line pass.         *)

enqueue_bug(waiting) ==
  LET extra == {n \in 0 .. Len(waiting) : /\ Len(waiting) - n <= LOG_QUEUE_MAX_LINES
                                      /\ SizeOf(SubSeq(waiting, n + 1, Len(waiting))) <= LOG_QUEUE_MAX_BYTES}
  IN [queued |-> SubSeq(waiting, Min(extra) + 1, Len(waiting)), dropped |-> Min({Min(extra), 1})]
enqueue(waiting) ==
  LET extra == {n \in 0 .. Len(waiting) : /\ Len(waiting) - n <= LOG_QUEUE_MAX_LINES
                                      /\ SizeOf(SubSeq(waiting, n + 1, Len(waiting))) <= LOG_QUEUE_MAX_BYTES}
  IN [queued |-> SubSeq(waiting, Min(extra) + 1, Len(waiting)), dropped |-> Min(extra)]

max_batch == Max({1, Min({LOG_MAX_BYTES, LOG_DRAIN_MAX_BYTES})})
BatchLen(waiting) ==
  Max({n \in 0 .. Min({Len(waiting), LOG_DRAIN_MAX_LINES}) :
         n <= 1 \/ SizeOf(SubSeq(waiting, 1, n)) <= max_batch})

(* One drain of [queued, lost, log, uncounted].                            *)
drain(s, disk) ==
  LET n == BatchLen(s.queued)
      records == (IF s.lost > 0 THEN <<DropNotice(s.lost)>> ELSE <<>>)
                   \o [i \in 1 .. n |-> Record(s.queued[i])]
      w == append_text([s.log EXCEPT !.ok = TRUE, !.space = disk.space, !.astray = 0], records, disk)
  IN [queued |-> SubSeq(s.queued, n + 1, Len(s.queued)), lost |-> 0,
      log |-> [w EXCEPT !.ok = TRUE, !.space = 0, !.astray = 0, !.rest = <<>>],
      uncounted |-> s.uncounted + w.astray, left |-> n = 0]

-------------------------------------------------------------------------------

\* LogFile::open, on what an earlier run left.
LogInit ==
  /\ captured = 0 /\ queued = <<>> /\ lost = 0 /\ uncounted = 0 /\ faults = 0 /\ flushed = FALSE
  /\ \E keep \in LogKeeps, found \in {0, LOG_MAX_BYTES + 1} :
       log = [open |-> TRUE, written |-> found, keep |-> keep, ok |-> TRUE, space |-> 0,
              astray |-> 0, rest |-> <<>>,
              files |-> [i \in 1 .. keep + 1 |-> IF i = 1 THEN Earlier(found) ELSE <<>>]]

(* push_captured: the queue keeps the newest.                              *)
push_captured(unit, size) ==
  /\ ~flushed /\ captured < Captured
  /\ captured' = captured + 1
  /\ LET entered == enqueue(Append(queued, [id |-> captured + 1, unit |-> unit, size |-> size]))
     IN queued' = entered.queued /\ lost' = lost + entered.dropped
  /\ UNCHANGED <<log, uncounted, faults, flushed>>

Drained(s) ==
  /\ queued' = s.queued /\ lost' = s.lost /\ log' = s.log /\ uncounted' = s.uncounted
  /\ UNCHANGED captured
Undrained == [queued |-> queued, lost |-> lost, log |-> log, uncounted |-> uncounted, left |-> FALSE]

drain_file ==
  /\ ~flushed /\ queued # <<>>
  /\ Drained(drain(Undrained, Healthy))
  /\ UNCHANGED <<faults, flushed>>
FailedDrain ==
  /\ ~flushed /\ queued # <<>> /\ faults < Failures
  /\ \E disk \in Disks : Drained(drain(Undrained, disk))
  /\ faults' = faults + 1
  /\ UNCHANGED flushed

(* flush_file: passes until there is nothing to write, the 50 ms are over  *)
(* or there were too many.                                                 *)
flush_file ==
  /\ ~flushed /\ flushed' = TRUE
  /\ \E passes \in {0, FlushPasses} :
       Drained(FoldLeft(LAMBDA s, i : IF s.left THEN s ELSE drain(s, Healthy), Undrained,
                        [i \in 1 .. passes |-> i]))
  /\ UNCHANGED faults

LogNext ==
  \/ \E unit \in LogUnits, size \in 1 .. Widest : push_captured(unit, size)
  \/ drain_file \/ FailedDrain \/ flush_file

-------------------------------------------------------------------------------
(* rctl log --file.                                                        *)

log_paths(files) == Reverse(files)

(* The lines of one file: each ends with a newline or with the file.       *)
LinesOf(file) ==
  LET ends == {i \in DOMAIN file : file[i].k = file[i].of \/ i = Len(file)}
      from(e) == Max({0} \cup {i \in ends : i < e}) + 1
  IN [n \in 1 .. Cardinality(ends) |->
        LET e == CHOOSE i \in ends : Cardinality({j \in ends : j <= i}) = n
        IN SubSeq(file, from(e), e)]
(* A line with half a character in it ends the reading with an error.      *)
IsHalf(byte, k) == byte.id > 0 /\ byte.of \in WideSizes /\ byte.k = k
Unreadable(line) ==
  \E i \in DOMAIN line :
    \/ IsHalf(line[i], 2) /\ (i = Len(line) \/ line[i + 1] # [line[i] EXCEPT !.k = 3])
    \/ IsHalf(line[i], 3) /\ (i = 1 \/ line[i - 1] # [line[i] EXCEPT !.k = 2])
write_log(files, unit, count) ==
  LET all == FlattenSeq([i \in DOMAIN files |-> LinesOf(log_paths(files)[i])])
      bad == {i \in DOMAIN all : Unreadable(all[i])}
      read == IF bad = {} THEN all ELSE SubSeq(all, 1, Min(bad) - 1)
      own == SelectSeq(read, LAMBDA line : unit = "any" \/ (line[1].unit = unit /\ line[1].k = 1))
  IN [error |-> bad # {},
      lines |-> IF count = 0 THEN own
                ELSE IF bad # {} THEN <<>>
                ELSE SubSeq(own, Max({1, Len(own) - count + 1}), Len(own))]

-------------------------------------------------------------------------------

(* However the disk fails and the files move, rctl shows the lines of the  *)
(* services in the order they were captured and none of them twice.        *)
InOrder ==
  LET stream == FlattenSeq(write_log(log.files, "any", 0).lines)
      own == SelectSeq(stream, LAMBDA b : b.id > 0)
  IN \A i \in 1 .. Len(own) - 1 :
       \/ own[i].id < own[i + 1].id
       \/ own[i].id = own[i + 1].id /\ own[i].k < own[i + 1].k

(* On a disk that works, what rctl shows of one service was written by it, *)
(* wherever the files were cut.                                            *)
OwnLinesOnly ==
  faults = 0 =>
    \A unit \in LogUnits : \A line \in ToSet(write_log(log.files, unit, 1).lines) :
      \A i \in DOMAIN line : line[i].unit = unit

(* On a disk that works, nothing is missing between the oldest byte that   *)
(* is kept and the last line captured, except lines that a full queue      *)
(* dropped, and where they are missing a notice says how many.             *)
GapsAreTold ==
  faults = 0 /\ ~flushed =>
    LET waiting == FlattenSeq([i \in DOMAIN queued |-> Record(queued[i])])
        stream == SelectSeq(FlattenSeq(log_paths(log.files))
                              \o (IF lost > 0 THEN DropNotice(lost) ELSE <<>>) \o waiting,
                            LAMBDA b : b.id >= 0)
    IN /\ \A i \in 1 .. Len(stream) - 1 :
            LET a == stream[i]  b == stream[i + 1]
            IN a.id > 0 => \/ b.id = a.id /\ b.k = a.k + 1
                           \/ b.id = a.id + 1 /\ b.k = 1 /\ a.k = a.of
                           \/ /\ b.id = 0 /\ i + 1 < Len(stream) /\ a.k = a.of
                              /\ stream[i + 2].id = a.id + b.k + 1 /\ stream[i + 2].k = 1
       /\ captured > 0 => stream # <<>> /\ Last(stream).id = captured

(* With --log-keep nothing is given up while there is a file to spare: if  *)
(* the oldest line on a disk that works is gone, every rotated file is in  *)
(* use.                                                                    *)
HistoryIsKept ==
  LET stream == SelectSeq(FlattenSeq(log_paths(log.files)), LAMBDA b : b.id >= 0)
  IN faults = 0 /\ stream # <<>> /\ Head(stream).id > 0 /\ Head(stream) # [Head(stream) EXCEPT !.id = 1, !.k = 1]
       => \A i \in 2 .. log.keep + 1 : log.files[i] # <<>>

(* The file that is written stays within --log-max-bytes, the marker of a  *)
(* truncation included, but for bytes of writes that failed part of the    *)
(* way; and a file found larger than that is not written to.               *)
FileIsBounded ==
  \A i \in DOMAIN log.files :
    LET own == SelectSeq(log.files[i], LAMBDA b : b.id > -2)
    IN own # <<>> => Len(log.files[i]) <= LOG_MAX_BYTES + uncounted

(* On a disk that works, rctl log --file can read the plain text of the    *)
(* log and of its rotations.                                               *)
LogIsReadable == faults = 0 => ~write_log(log.files, "any", 0).error

(* A line of the log is one record: the file is rotated or truncated       *)
(* before the write that would pass its bound.                             *)
RecordsStayWhole ==
  faults = 0 =>
    \A i \in DOMAIN log.files : \A line \in ToSet(LinesOf(log.files[i])) :
      line[1].id > 0 => Len(line) = line[1].of
===============================================================================
