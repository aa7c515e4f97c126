------------------------------- MODULE DailyLog -------------------------------
(***************************************************************************)
(* The request log of the API: one file a day, which is trimmed when it    *)
(* grows too long and removed after some days, and the usage summary that  *)
(* the operations page computes from the files.                            *)
(*                                                                         *)
(* One process writes, one record at a time (logging.Handler holds a       *)
(* lock), and the page is computed on the same event loop, so it reads     *)
(* between two records.  What interleaves with the steps of a record is    *)
(* midnight, an error of the file system and a crash.                      *)
(*                                                                         *)
(* A line has three bytes: one of its time stamp, the first of its JSON,   *)
(* and its end with the newline; a file is a sequence of bytes.  An empty  *)
(* file stands for a missing one too.                                      *)
(***************************************************************************)
EXTENDS Integers, FiniteSets, SequencesExt

CONSTANTS
    MaxBytes,       \* MAX_DAILY_LOG_BYTES
    TrimmedBytes,   \* TRIMMED_DAILY_LOG_BYTES
    KeepDays,       \* LOG_RETENTION_DAYS
    RecentLimit,    \* clamp_log_limit
    LastDay,        \* bound: the last day of the model
    MaxLines,       \* bound: records logged
    MaxFailures     \* bound: crashes and errors

LineBytes == 3

ASSUME SizeAssumption ==
    /\ MaxBytes \in Nat /\ TrimmedBytes \in Nat
    /\ 2 * LineBytes - 1 <= TrimmedBytes /\ TrimmedBytes < MaxBytes
ASSUME BoundAssumption ==
    /\ {KeepDays, RecentLimit, LastDay} \subseteq Nat \ {0}
    /\ {MaxLines, MaxFailures} \subseteq Nat

VARIABLES
    today,        \* the day in Singapore
    log,          \* every record: its day, and whether it is an arrivals call
                  \* with all of its JSON in the line
    files,        \* files[d]: the bytes of the file of day d
    left,         \* old files that the last removal could not remove (history)
    activeDate,   \* _active_date of the handler, 0 for None
    emit,         \* where the record being written is
    written,      \* written[d]: the records appended to file d (history)
    broken,       \* the files in which a write failed (history)
    done,         \* the file of the last record, 0 if it failed (history)
    failures

vars == <<today, log, files, left, activeDate, emit, written, broken, done, failures>>

Day == 1..LastDay
Idle == [at |-> "idle", file |-> 0, kept |-> <<>>]

Byte(line, pos) == [line |-> line, pos |-> pos]
Bytes(line) == [pos \in 1..LineBytes |-> Byte(line, pos)]
IsNewline(byte) == byte.pos = LineBytes

\* A record is written, or given up.
End == emit' = Idle

-----------------------------------------------------------------------------
(* emit. *)

\* http_logging_middleware: one record for each call, also for one that raises,
\* but for none of the excluded paths; _truncate_log_line cuts its JSON if it is
\* long.  The record takes its time stamp here.
Logged(path) == path # "health"

Create ==
    /\ emit.at = "idle"
    /\ Len(log) < MaxLines
    /\ \E path \in {"arrivals", "other", "health"}, truncated \in BOOLEAN :
        /\ Logged(path)
        /\ log' = Append(log, [day |-> today, arrivals |-> path = "arrivals" /\ ~truncated])
    /\ emit' = [Idle EXCEPT !.at = "path"]
    /\ UNCHANGED <<today, files, left, activeDate, written, broken, done, failures>>

\* Mutant: off by one.
ExpiredLate(d) == d < today - KeepDays
Expired(d) == d < today - (KeepDays - 1)

\* _dated_path: the first record of a day, or of a process, removes old files;
\* one whose unlink raises OSError is passed over.
DatedPath ==
    /\ emit.at = "path"
    /\ \/ today = activeDate /\ UNCHANGED <<files, left>>
       \/ /\ today # activeDate
          /\ left' \in SUBSET {d \in Day : Expired(d) /\ files[d] # <<>>}
          /\ files' = [d \in Day |-> IF Expired(d) /\ d \notin left' THEN <<>> ELSE files[d]]
    /\ activeDate' = today
    /\ emit' = [emit EXCEPT !.at = "append", !.file = today]
    /\ UNCHANGED <<today, log, written, broken, done, failures>>

TooLong(file) == Len(file) > MaxBytes

AppendLine ==
    LET d == emit.file
        file == files[d] \o Bytes(Len(log))
    IN  /\ emit.at = "append"
        /\ files' = [files EXCEPT ![d] = file]
        /\ written' = [written EXCEPT ![d] = Append(@, Len(log))]
        /\ IF TooLong(file)
           THEN /\ emit' = [emit EXCEPT !.at = "trim"]
                /\ UNCHANGED done
           ELSE /\ End
                /\ done' = d
        /\ UNCHANGED <<today, log, left, activeDate, broken, failures>>

\* The bytes after the first newline: readline, then read.
AfterNewline(bytes) ==
    LET ends == {i \in DOMAIN bytes : IsNewline(bytes[i])}
    IN  IF ends = {} THEN <<>>
        ELSE SubSeq(bytes, (CHOOSE i \in ends : \A j \in ends : i <= j) + 1, Len(bytes))

LastBytes(file) == SubSeq(file, Len(file) - TrimmedBytes + 1, Len(file))

\* Mutant: the cut line that the position falls in is not dropped.
RetainedRaw(file) == LastBytes(file)
Retained(file) == AfterNewline(LastBytes(file))

\* _trim_oldest_lines: reads the end of the file, opens it for writing, which
\* empties it, and writes what it read.
Trim ==
    /\ emit.at = "trim"
    /\ emit' = [emit EXCEPT !.at = "rewrite", !.kept = Retained(files[emit.file])]
    /\ files' = [files EXCEPT ![emit.file] = <<>>]
    /\ UNCHANGED <<today, log, left, activeDate, written, broken, done, failures>>

Rewrite ==
    /\ emit.at = "rewrite"
    /\ files' = [files EXCEPT ![emit.file] = emit.kept]
    /\ End
    /\ done' = emit.file
    /\ UNCHANGED <<today, log, left, activeDate, written, broken, failures>>

Emit == Create \/ DatedPath \/ AppendLine \/ Trim \/ Rewrite

-----------------------------------------------------------------------------
(* Faults and time. *)

\* A step of emit raises (handleError drops the record) or the process dies in
\* it; a write may have stored some of its bytes.
Fail ==
    /\ emit.at # "idle" /\ failures < MaxFailures
    /\ failures' = failures + 1
    /\ \E restart \in BOOLEAN : activeDate' = IF restart THEN 0 ELSE activeDate
    /\ \/ /\ emit.at = "path"
          /\ UNCHANGED <<files, broken>>
       \/ /\ emit.at \in {"append", "rewrite"}
          /\ \E bytes \in Prefixes(IF emit.at = "append" THEN Bytes(Len(log)) ELSE emit.kept) :
                files' = [files EXCEPT ![emit.file] = @ \o bytes]
          /\ broken' = broken \cup {emit.file}
       \/ /\ emit.at = "trim"
          /\ broken' = broken \cup {emit.file}
          /\ UNCHANGED files
    /\ End
    /\ done' = 0
    /\ UNCHANGED <<today, log, left, written>>

\* The container is replaced between two records.
Restart ==
    /\ emit.at = "idle"
    /\ activeDate' = 0
    /\ UNCHANGED <<today, log, files, left, emit, written, broken, done, failures>>

\* Midnight; writing a record takes less than a day.
NewDay ==
    /\ today < LastDay
    /\ emit.at # "idle" => log[Len(log)].day = today
    /\ today' = today + 1
    /\ UNCHANGED <<log, files, left, activeDate, emit, written, broken, done, failures>>

Init ==
    /\ today = 1
    /\ log = <<>>
    /\ files = [d \in Day |-> <<>>]
    /\ left = {}
    /\ activeDate = 0
    /\ emit = Idle
    /\ written = [d \in Day |-> <<>>]
    /\ broken = {}
    /\ done = 0
    /\ failures = 0

Next == Emit \/ Fail \/ Restart \/ NewDay

Spec == Init /\ [][Next]_vars

-----------------------------------------------------------------------------
(* log_service: what the operations page reads. *)

\* The position after the previous newline, for the line that ends at i.
LineStart(file, i) ==
    1 + Cardinality({j \in 1..(i - 1) : \E k \in j..(i - 1) : IsNewline(file[k])})

\* parse_log_line for the physical line that ends at i: its date is that of its
\* first byte, and its record is what the first brace opens, provided that it
\* ends with the line.
ParsedDay(file, i) ==
    LET first == file[LineStart(file, i)]
    IN  IF first.pos = 1 THEN log[first.line].day ELSE 0

ParsedRecord(file, i) ==
    LET braces == {j \in LineStart(file, i)..i : file[j].pos = 2}
    IN  IF braces = {} THEN 0
        ELSE LET j == CHOOSE j \in braces : \A k \in braces : j <= k
             IN  IF j = i - 1 /\ file[i].line = file[j].line THEN file[i].line ELSE 0

LineEnds(file) == {i \in DOMAIN file : IsNewline(file[i])}

IsArrivals(line) == line # 0 /\ log[line].arrivals

\* Mutant: every arrivals call in today's file counts, whatever its date.
SummaryOfFile == {ParsedRecord(files[today], i) : i \in {i \in LineEnds(files[today]) :
                            IsArrivals(ParsedRecord(files[today], i))}}

\* build_today_usage_summary: the arrivals calls of today in all files.
Summary ==
    {line \in 1..Len(log) : IsArrivals(line)
        /\ \E d \in Day : \E i \in LineEnds(files[d]) :
              ParsedRecord(files[d], i) = line /\ ParsedDay(files[d], i) = today}

\* read_recent_arrivals_log_lines: the last lines of today's file.
Recent ==
    LET ends == {i \in LineEnds(files[today]) : IsArrivals(ParsedRecord(files[today], i))}
        last == {i \in ends : Cardinality({j \in ends : j > i}) < RecentLimit}
    IN  {ParsedRecord(files[today], i) : i \in last}

-----------------------------------------------------------------------------
(* Properties. *)

\* No file is ahead of the calendar, the handler's date neither, and nothing of
\* a record is left when it is over.
TypeOK ==
    /\ today \in Day
    /\ Len(log) <= MaxLines
    /\ \A d \in Day : d > today => files[d] = <<>>
    /\ activeDate \in 0..today
    /\ emit.at \in {"idle", "path", "append", "trim", "rewrite"}
    /\ emit.file \in 0..today
    /\ emit.at = "idle" => emit = Idle
    /\ done \in 0..today
    /\ failures \in 0..MaxFailures

\* The bytes of the lines written to a file, one line after the other.
Lines(d) == [n \in 1..(LineBytes * Len(written[d])) |->
                Byte(written[d][(n + LineBytes - 1) \div LineBytes], 1 + ((n - 1) % LineBytes))]

\* README: "Each daily file keeps the newest complete log lines and is trimmed
\* when it exceeds 10 MB".  A file that no write failed in holds the end of what
\* was written to it, from the start of a line on, and unless nothing was
\* dropped it is not shorter than what a trim reads, less one line: the line the
\* position falls in, a whole one if it falls at its start.  It is within its
\* limit when a record has been written to it, although the limit is checked
\* after the line is appended.
KeepsNewestLines ==
    emit.at = "idle" =>
        /\ done # 0 => Len(files[done]) <= MaxBytes
        /\ \A d \in Day \ broken :
            files[d] # <<>> =>
                /\ files[d] \in Suffixes(Lines(d))
                /\ files[d][1].pos = 1
                /\ \/ files[d] = Lines(d)
                   \/ Len(files[d]) >= TrimmedBytes - LineBytes

\* README: "Logs older than seven days are removed automatically".  Once a
\* record has been written on a day, also if the process was restarted or the
\* day had no record before, no older file is there but those whose removal failed
\* on that day or a later one, and the younger ones are.
RemovedInTime ==
    emit.at = "idle" /\ done # 0 =>
        \A d \in Day :
            /\ d <= done - KeepDays => files[d] = <<>> \/ d \in left
            /\ d > today - KeepDays /\ d \notin broken /\ written[d] # <<>> => files[d] # <<>>

\* The lines whose bytes are all in a file, one after the other.
Whole(d) == {line \in 1..Len(log) :
                \E i \in DOMAIN files[d] : i + LineBytes <= Len(files[d]) + 1
                    /\ SubSeq(files[d], i, i + LineBytes - 1) = Bytes(line)}

\* The summary counts arrivals calls of today only, each once, and misses one
\* that is in a file, and not truncated, only if a failed write left the start of a line before it:
\* a failure hides no more than the line that follows it.
SummaryIsOfToday ==
    LET ofToday == {line \in 1..Len(log) : log[line].arrivals /\ log[line].day = today}
    IN  /\ Summary \subseteq ofToday
        /\ Cardinality((ofToday \cap UNION {Whole(d) : d \in Day}) \ Summary) <= failures
        /\ \A line \in Recent : log[line].day = today /\ broken = {} => line \in Summary
=============================================================================
