----------------------------- MODULE DailyLogProofs -----------------------------
(***************************************************************************)
(* Theorems about DailyLog, for any sizes, days, lines and failures.       *)
(*                                                                         *)
(* The arguments: a file that no write failed in consists of the lines     *)
(* written to it but for the first few, since a trim cuts just after a     *)
(* newline; while it is rewritten, this is said of the bytes in memory.    *)
(* A line in a file is read as what it is if a line begins where it does;  *)
(* each failure leaves at most one place where the next line does not.     *)
(***************************************************************************)
EXTENDS DailyLog, FiniteSetTheorems, SequenceTheorems, WellFoundedInduction, TLAPS

LogByte == [line : Nat, pos : 1..LineBytes]
File == Seq(LogByte)
Entry == [day : Day, arrivals : BOOLEAN]

Emitting == emit.at \in {"append", "trim", "rewrite"}

\* What a file holds, or is about to hold again.
Content(d) == IF emit.at = "rewrite" /\ d = emit.file THEN emit.kept ELSE files[d]

(***************************************************************************)
(* Bytes, suffixes and prefixes.                                           *)
(***************************************************************************)
LEMMA ByteFields ==
    ASSUME NEW l, NEW p
    PROVE  /\ Byte(l, p).line = l /\ Byte(l, p).pos = p
           /\ l \in Nat /\ p \in 1..3 => Byte(l, p) \in LogByte
BY DEF Byte, LogByte, LineBytes

LEMMA LineOfBytes ==
    ASSUME NEW l \in Nat
    PROVE  /\ Bytes(l) \in File /\ Len(Bytes(l)) = 3 /\ DOMAIN Bytes(l) = 1..3
           /\ \A p \in 1..3 : Bytes(l)[p] = Byte(l, p)
<1>1. Bytes(l) = [p \in 1..3 |-> Byte(l, p)]
  BY DEF Bytes, LineBytes
<1>2. \A p \in 1..3 : Byte(l, p) \in LogByte
  BY ByteFields
<1>3. Bytes(l) \in Seq(LogByte)
  BY <1>1, <1>2
<1> QED  BY <1>1, <1>3 DEF File

LEMMA FileIsFunction ==
    ASSUME NEW f \in File
    PROVE  /\ Len(f) \in Nat /\ DOMAIN f = 1..Len(f)
           /\ \A i \in 1..Len(f) : f[i] \in LogByte /\ f[i].line \in Nat /\ f[i].pos \in 1..3
           /\ (f = <<>>) <=> (Len(f) = 0)
<1>1. Len(f) \in Nat /\ DOMAIN f = 1..Len(f) /\ \A i \in 1..Len(f) : f[i] \in LogByte
  BY DEF File
<1>2. \A b \in LogByte : b.line \in Nat /\ b.pos \in 1..3
  BY DEF LogByte, LineBytes
<1> QED  BY <1>1, <1>2 DEF File

\* A line appended to a file.
LEMMA AppendedLine ==
    ASSUME NEW f \in File, NEW g \in File
    PROVE  /\ f \o g \in File /\ Len(f \o g) = Len(f) + Len(g)
           /\ \A i \in 1..Len(f) : (f \o g)[i] = f[i]
           /\ \A i \in 1..Len(g) : (f \o g)[Len(f) + i] = g[i]
BY ConcatProperties DEF File

LEMMA SuffixOfFile ==
    ASSUME NEW f \in File, NEW c \in 0..Len(f)
    PROVE  /\ SubSeq(f, c + 1, Len(f)) \in File
           /\ Len(SubSeq(f, c + 1, Len(f))) = Len(f) - c
           /\ \A i \in 1..(Len(f) - c) : SubSeq(f, c + 1, Len(f))[i] = f[c + i]
<1>1. Len(f) \in Nat /\ \A i \in (c + 1)..Len(f) : f[i] \in LogByte
  BY FileIsFunction
<1> DEFINE m == c + 1  n == Len(f)
<1>2. m \in Int /\ n \in Int /\ \A i \in m..n : f[i] \in LogByte
  BY <1>1
<1>3. m <= n \/ n - c = 0
  BY <1>1
<1> HIDE DEF m, n
<1>4. /\ SubSeq(f, m, n) \in Seq(LogByte)
      /\ Len(SubSeq(f, m, n)) = IF m <= n THEN n - m + 1 ELSE 0
      /\ \A i \in 1..n - m + 1 : SubSeq(f, m, n)[i] = f[m + i - 1]
  BY <1>2, SubSeqProperties
<1> QED  BY <1>1, <1>2, <1>3, <1>4 DEF m, n, File

LEMMA PrefixOfFile ==
    ASSUME NEW f \in File, NEW g \in Prefixes(f)
    PROVE  /\ g \in File /\ Len(g) <= Len(f)
           /\ \A i \in 1..Len(g) : g[i] = f[i]
<1>1. PICK n \in 0..Len(f) : g = SubSeq(f, 1, n)
  BY DEF Prefixes
<1>2. Len(f) \in Nat /\ \A i \in 1..n : f[i] \in LogByte
  BY <1>1, FileIsFunction
<1>3. /\ SubSeq(f, 1, n) \in Seq(LogByte)
      /\ Len(SubSeq(f, 1, n)) = IF 1 <= n THEN n - 1 + 1 ELSE 0
      /\ \A i \in 1..n - 1 + 1 : SubSeq(f, 1, n)[i] = f[1 + i - 1]
  BY <1>2, SubSeqProperties
<1> QED  BY <1>1, <1>2, <1>3 DEF File

LEMMA LeastOfNaturals ==
    ASSUME NEW T, T \subseteq Nat, T # {}
    PROVE  \E x \in T : \A y \in T : x <= y
<1> DEFINE R == OpToRel(<, Nat)
<1>1. IsWellFoundedOn(R, Nat)
  BY NatLessThanWellFounded
<1>2. \A x, y \in Nat : <<y, x>> \in R <=> y < x
  BY DEF OpToRel
<1> HIDE DEF R
<1>3. PICK x \in T : \A y \in T : ~(<<y, x>> \in R)
  BY <1>1, WFMin
<1>4. ASSUME NEW y \in T PROVE x <= y
  <2>1. x \in Nat /\ y \in Nat
    OBVIOUS
  <2>2. ~(y < x)
    BY <1>2, <1>3, <2>1
  <2> QED  BY <2>1, <2>2
<1> QED  BY <1>4

\* A trim keeps the end of a file, from just after a newline or nothing.
LEMMA RetainedIsSuffix ==
    ASSUME NEW f \in File, Len(f) > TrimmedBytes
    PROVE  \E c \in 0..Len(f) :
            /\ Retained(f) = SubSeq(f, c + 1, Len(f))
            /\ Len(f) - c <= TrimmedBytes
            /\ \/ c = Len(f) /\ f[Len(f)].pos # 3
               \/ /\ c > Len(f) - TrimmedBytes /\ f[c].pos = 3
                  /\ \A i \in (Len(f) - TrimmedBytes + 1)..(c - 1) : f[i].pos # 3
<1> DEFINE n == Len(f)  b == n - TrimmedBytes  last == LastBytes(f)
<1>1. n \in Nat /\ b \in 1..n /\ TrimmedBytes \in Nat
  BY FileIsFunction, SizeAssumption
<1>2. last \in File /\ Len(last) = TrimmedBytes /\ \A i \in 1..TrimmedBytes : last[i] = f[b + i]
  <2>1. last = SubSeq(f, b + 1, n)
    BY DEF LastBytes
  <2>2. b \in 0..Len(f) /\ Len(f) - b = TrimmedBytes
    BY <1>1
  <2> QED  BY <2>1, <2>2, SuffixOfFile
<1> DEFINE ends == {i \in DOMAIN last : IsNewline(last[i])}
<1>3. \A i : i \in ends <=> i \in 1..TrimmedBytes /\ f[b + i].pos = 3
  BY <1>2, FileIsFunction DEF IsNewline, LineBytes
<1>4. Retained(f) = IF ends = {} THEN <<>>
                    ELSE SubSeq(last, (CHOOSE i \in ends : \A j \in ends : i <= j) + 1, Len(last))
  BY DEF Retained, AfterNewline
<1>5. CASE ends = {}
  <2>1. SubSeq(f, n + 1, n) = <<>>
    BY <1>1, SuffixOfFile, FileIsFunction
  <2>2. b + TrimmedBytes = n /\ TrimmedBytes \in 1..TrimmedBytes
    BY <1>1, SizeAssumption DEF LineBytes
  <2>3. f[n].pos # 3
    BY <1>3, <1>5, <2>2
  <2> QED  BY <1>1, <1>4, <1>5, <2>1, <2>3
<1>6. CASE ends # {}
  <2>1. ends \subseteq Nat
    BY <1>1, <1>3
  <2>2. PICK i \in ends : \A j \in ends : i <= j
    BY <1>6, <2>1, LeastOfNaturals
  <2>3. (CHOOSE j \in ends : \A k \in ends : j <= k) = i
    <3> DEFINE j == CHOOSE j \in ends : \A k \in ends : j <= k
    <3>1. j \in ends /\ \A k \in ends : j <= k
      BY <2>2
    <3> QED  BY <2>1, <2>2, <3>1
  <2>4. Retained(f) = SubSeq(last, i + 1, TrimmedBytes) /\ i \in 1..TrimmedBytes
    BY <1>2, <1>3, <1>4, <1>6, <2>3
  <2>5. SubSeq(last, i + 1, TrimmedBytes) = SubSeq(f, b + i + 1, n)
    <3>1. /\ SubSeq(last, i + 1, Len(last)) \in File
          /\ Len(SubSeq(last, i + 1, Len(last))) = TrimmedBytes - i
          /\ \A k \in 1..(TrimmedBytes - i) : SubSeq(last, i + 1, Len(last))[k] = last[i + k]
      BY <1>2, <2>4, SuffixOfFile
    <3>2. /\ SubSeq(f, b + i + 1, n) \in File
          /\ Len(SubSeq(f, b + i + 1, n)) = n - (b + i)
          /\ \A k \in 1..(n - (b + i)) : SubSeq(f, b + i + 1, n)[k] = f[b + i + k]
      <4>1. b + i \in 0..Len(f)
        BY <1>1, <2>4
      <4> QED  BY <4>1, SuffixOfFile
    <3>3. \A k \in 1..(TrimmedBytes - i) : last[i + k] = f[b + i + k]
      BY <1>1, <1>2, <2>4
    <3> QED  BY <1>1, <1>2, <2>4, <3>1, <3>2, <3>3, SeqEqual, SMTT(40) DEF File
  <2>6. /\ b + i \in 0..n /\ n - (b + i) <= TrimmedBytes /\ b + i > b /\ f[b + i].pos = 3
        /\ \A k \in (b + 1)..(b + i - 1) : f[k].pos # 3
    <3>1. ASSUME NEW k \in (b + 1)..(b + i - 1) PROVE f[k].pos # 3
      <4>1. k - b \in 1..TrimmedBytes /\ k - b < i /\ b + (k - b) = k
        BY <1>1, <2>4, <3>1
      <4> QED  BY <1>3, <2>1, <2>2, <4>1
    <3> QED  BY <1>1, <1>3, <2>2, <2>4, <3>1
  <2>7. Retained(f) = SubSeq(f, (b + i) + 1, n)
    <3>1. b + i + 1 = (b + i) + 1
      BY <1>1, <2>4
    <3> QED  BY <2>4, <2>5, <3>1
  <2> DEFINE c == b + i
  <2>8. c \in 0..n /\ Retained(f) = SubSeq(f, c + 1, n) /\ f[c].pos = 3 /\ n - c <= TrimmedBytes
        /\ c > n - TrimmedBytes /\ \A k \in (n - TrimmedBytes + 1)..(c - 1) : f[k].pos # 3
    BY <1>1, <2>4, <2>6, <2>7
  <2> HIDE DEF c
  <2> QED  BY <2>8
<1> QED  BY <1>5, <1>6

(***************************************************************************)
(* The invariant.                                                          *)
(***************************************************************************)
EmitOK ==
    /\ emit = [at |-> emit.at, file |-> emit.file, kept |-> emit.kept]
    /\ emit.at \in {"idle", "path", "append", "trim", "rewrite"}
    /\ emit.file \in 0..today /\ emit.kept \in File
    /\ emit.at = "idle" => emit = Idle
    /\ emit.at # "idle" => log # <<>>
    /\ Emitting => emit.file \in Day /\ emit.file = activeDate /\ done <= emit.file

LogOK ==
    /\ log \in Seq(Entry) /\ Len(log) <= MaxLines
    /\ \A i \in 1..Len(log) : log[i].day <= today
    /\ \A i, j \in 1..Len(log) : i <= j => log[i].day <= log[j].day

FilesOK ==
    /\ files \in [Day -> File] /\ written \in [Day -> Seq(Nat)] /\ broken \subseteq Day
    /\ \A d \in Day : d > today => files[d] = <<>>
    /\ emit.at = "rewrite" => files[emit.file] = <<>>

Shape ==
    /\ today \in Day /\ activeDate \in 0..today /\ done \in 0..today
    /\ failures \in 0..MaxFailures
    /\ LogOK /\ EmitOK /\ FilesOK

\* What was removed for a day stays so.
OldGone(day) ==
    day # 0 => \A d \in Day : d <= day - KeepDays => files[d] = <<>> \/ d \in left
Removed == OldGone(activeDate) /\ OldGone(done)

\* The lines written to a file, but for the first m.
RestOf(f, w, m) ==
    /\ m \in 0..Len(w) /\ Len(f) = 3 * (Len(w) - m)
    /\ \A k \in 1..(Len(w) - m), p \in 1..3 : f[3 * (k - 1) + p] = Byte(w[m + k], p)

\* A file that was not trimmed has them all, another one no less than a trim keeps.
Kept(f, w) ==
    \E m \in Nat : RestOf(f, w, m) /\ (m = 0 \/ f = <<>> \/ Len(f) >= TrimmedBytes - 3)

NewestKept ==
    \A d \in Day \ broken :
        /\ Kept(Content(d), written[d])
        /\ Content(d) = <<>> /\ written[d] # <<>> =>
            d <= today - KeepDays /\ (Emitting => d # emit.file)

Limited ==
    /\ emit.at = "trim" => Len(files[emit.file]) > MaxBytes
    /\ emit.at = "rewrite" => Len(emit.kept) <= TrimmedBytes
    /\ emit.at = "idle" /\ done # 0 => Len(files[done]) <= MaxBytes

\* Lines come in the order they were logged in.
InOrder(f, n) ==
    /\ \A i \in 1..Len(f) : f[i].line \in 1..n
    /\ \A i, j \in 1..Len(f) : i <= j => f[i].line <= f[j].line

FilesInOrder == \A d \in Day : InOrder(Content(d), Len(log))

\* Lines that begin where another has not ended, and files that end so.
WholeAt(f, i) ==
    /\ i \in 1..(Len(f) - 2)
    /\ f[i].pos = 1 /\ f[i + 1].pos = 2 /\ f[i + 2].pos = 3
    /\ f[i + 1].line = f[i].line /\ f[i + 2].line = f[i].line
HiddenIn(f) == {f[i].line : i \in {i \in 2..Len(f) : WholeAt(f, i) /\ f[i - 1].pos # 3}}
CutOff(f) == f # <<>> /\ f[Len(f)].pos # 3

Hidden == UNION {HiddenIn(Content(d)) : d \in Day}
CutFiles == {d \in Day : CutOff(Content(d))}

OneCutEach ==
    /\ IsFiniteSet(Hidden)
    /\ Cardinality(Hidden) + Cardinality(CutFiles) <= failures

LogInv == Shape /\ Removed /\ NewestKept /\ Limited /\ FilesInOrder /\ OneCutEach
-----------------------------------------------------------------------------
LEMMA Bounds ==
    /\ KeepDays \in Nat /\ KeepDays > 0 /\ LastDay \in Nat /\ 1 \in Day /\ Day \subseteq Nat
    /\ \A d \in Day : d # 0 /\ d >= 1 /\ d <= LastDay
    /\ MaxLines \in Nat /\ MaxFailures \in Nat
    /\ MaxBytes \in Nat /\ TrimmedBytes \in Nat /\ 5 <= TrimmedBytes /\ TrimmedBytes < MaxBytes
BY SizeAssumption, BoundAssumption DEF Day, LineBytes

LEMMA EmptyFile == <<>> \in File /\ Len(<<>>) = 0
BY DEF File

LEMMA IdleFields == Idle.at = "idle" /\ Idle.file = 0 /\ Idle.kept = <<>>
BY DEF Idle

LEMMA InitLog == Init => LogInv
<1> SUFFICES ASSUME Init PROVE LogInv
  OBVIOUS
<1> USE Bounds, EmptyFile
<1>1. LogOK
  BY DEF Init, LogOK
<1>2. EmitOK
  BY DEF Init, EmitOK, Idle, Emitting
<1>3. FilesOK
  BY DEF Init, FilesOK, Idle
<1>4. Shape
  BY <1>1, <1>2, <1>3 DEF Init, Shape
<1>5. \A d \in Day : Content(d) = <<>> /\ written[d] = <<>>
  BY DEF Init, Content, Idle
<1>6. Removed /\ Limited
  BY DEF Init, Removed, OldGone, Limited, Idle
<1>7. NewestKept
  <2>1. RestOf(<<>>, <<>>, 0) /\ 0 \in Nat
    BY DEF RestOf
  <2> QED  BY <1>5, <2>1 DEF NewestKept, Kept
<1>8. FilesInOrder
  BY <1>5 DEF FilesInOrder, InOrder
<1>9. Hidden = {} /\ CutFiles = {}
  <2>1. HiddenIn(<<>>) = {} /\ ~CutOff(<<>>)
    BY DEF HiddenIn, CutOff
  <2> QED  BY <1>5, <2>1 DEF Hidden, CutFiles
<1>10. OneCutEach
  BY <1>9, FS_EmptySet DEF OneCutEach, Init
<1> QED  BY <1>4, <1>6, <1>7, <1>8, <1>10 DEF LogInv

-----------------------------------------------------------------------------
(* The shape. *)

\* Records stay as they are when one is added.
LEMMA LogGrows ==
    ASSUME Shape, Create
    PROVE  LogOK' /\ log' \in Seq(Entry) /\ Len(log') = Len(log) + 1
           /\ \A i \in 1..Len(log) : log'[i] = log[i]
<1>1. PICK path \in {"arrivals", "other", "health"} :
        log' = Append(log, [day |-> today, arrivals |-> path = "arrivals"])
  BY DEF Create
<1> DEFINE e == [day |-> today, arrivals |-> path = "arrivals"]
<1>2. e \in Entry /\ e.day = today
  BY DEF Shape, Entry
<1>3. log \in Seq(Entry) /\ log' = Append(log, e)
  BY <1>1 DEF Shape, LogOK
<1> HIDE DEF e
<1>4. /\ log' \in Seq(Entry) /\ Len(log') = Len(log) + 1 /\ Len(log) \in Nat
      /\ \A i \in 1..Len(log) : log'[i] = log[i]
      /\ log'[Len(log) + 1] = e
  BY <1>2, <1>3, AppendProperties, LenProperties
<1>5. today' = today /\ Len(log) < MaxLines /\ today \in Nat /\ MaxLines \in Nat
  BY Bounds DEF Create, Shape
<1>6. \A i \in 1..Len(log) : log[i] \in Entry
  BY <1>3, ElementOfSeq
<1>7. \A i \in 1..Len(log') : log'[i].day <= today /\ (i = Len(log) + 1 => log'[i].day = today)
  BY <1>2, <1>4, <1>5 DEF Shape, LogOK
<1>8. \A i, j \in 1..Len(log') : i <= j => log'[i].day <= log'[j].day
  <2> SUFFICES ASSUME NEW i \in 1..Len(log'), NEW j \in 1..Len(log'), i <= j
               PROVE  log'[i].day <= log'[j].day
    OBVIOUS
  <2>1. CASE j = Len(log) + 1
    BY <1>7, <2>1
  <2>2. CASE j # Len(log) + 1
    <3>1. i \in 1..Len(log) /\ j \in 1..Len(log)
      BY <1>4, <2>2
    <3> QED  BY <1>4, <3>1 DEF Shape, LogOK
  <2> QED  BY <2>1, <2>2
<1> QED  BY <1>4, <1>5, <1>7, <1>8 DEF LogOK

LEMMA LogStays ==
    ASSUME LogOK, log' = log, today <= today', today \in Int, today' \in Int,
           \A i \in 1..Len(log) : log[i].day \in Int
    PROVE  LogOK'
BY DEF LogOK

LEMMA DaysOfEntries ==
    ASSUME LogOK
    PROVE  \A i \in 1..Len(log) :
              log[i].day \in Day /\ log[i].day \in Int /\ log[i].arrivals \in BOOLEAN
<1>1. \A i \in 1..Len(log) : log[i] \in Entry
  BY ElementOfSeq DEF LogOK
<1>2. \A e \in Entry : e.day \in Day /\ e.arrivals \in BOOLEAN
  BY DEF Entry
<1>3. Day \subseteq Int
  BY Bounds
<1> QED  BY <1>1, <1>2, <1>3

LEMMA StepShape == Shape /\ Limited /\ [Next]_vars => Shape'
<1> SUFFICES ASSUME Shape, Limited, [Next]_vars PROVE Shape'
  OBVIOUS
<1> USE Bounds, IdleFields, EmptyFile
<1>0. /\ today \in Day /\ today \in Nat /\ activeDate \in Nat /\ done \in Nat
      /\ LogOK /\ EmitOK /\ FilesOK /\ emit.kept \in File
  BY DEF Shape, EmitOK
<1>a. today' = today /\ log' = log => LogOK'
  BY <1>0 DEF LogOK
<1>b. emit' = Idle /\ today' = today => EmitOK'
  <2>1. emit' = Idle => emit' = [at |-> "idle", file |-> 0, kept |-> <<>>]
    BY DEF Idle
  <2> QED  BY <1>0, <2>1 DEF EmitOK, Emitting
<1>1. CASE Create
  <2>1. LogOK' /\ log' # <<>>
    BY <1>1, LogGrows, LenProperties DEF LogOK
  <2>2. emit' = [at |-> "path", file |-> 0, kept |-> <<>>]
    BY <1>1 DEF Create, Idle
  <2>3. EmitOK'
    <3>1. emit'.at = "path" /\ emit'.file = 0 /\ emit'.kept = <<>>
      BY <2>2
    <3> QED  BY <1>0, <1>1, <2>1, <2>2, <3>1 DEF Create, EmitOK, Emitting
  <2> QED  BY <1>0, <1>1, <2>1, <2>2, <2>3 DEF Create, Shape, FilesOK
<1>2. CASE DatedPath
  <2>1. emit' = [at |-> "append", file |-> today, kept |-> emit.kept] /\ activeDate' = today
    BY <1>0, <1>2 DEF DatedPath, EmitOK
  <2>2. EmitOK'
    <3>1. emit'.at = "append" /\ emit'.file = today /\ emit'.kept = emit.kept
      BY <2>1
    <3>2. UNCHANGED <<today, log, done>> /\ log # <<>> /\ done <= today
      BY <1>0, <1>2 DEF DatedPath, EmitOK, Shape
    <3> QED  BY <1>0, <2>1, <3>1, <3>2 DEF EmitOK, Emitting
  <2>3. FilesOK'
    <3>1. files' \in [Day -> File] /\ \A d \in Day : files'[d] = files[d] \/ files'[d] = <<>>
      <4>1. CASE files' = files
        BY <1>0, <4>1 DEF FilesOK
      <4>2. CASE files' = [d \in Day |-> IF Expired(d) /\ d \notin left' THEN <<>> ELSE files[d]]
        BY <1>0, <4>2 DEF FilesOK
      <4> QED  BY <1>2, <4>1, <4>2 DEF DatedPath
    <3> QED  BY <1>0, <1>2, <2>1, <3>1 DEF DatedPath, FilesOK
  <2> QED  BY <1>0, <1>a, <1>2, <2>1, <2>2, <2>3 DEF DatedPath, Shape
<1>3. CASE AppendLine
  <2> DEFINE d == emit.file  f == files[d] \o Bytes(Len(log))
  <2>1. d \in Day /\ Len(log) \in Nat /\ emit.at = "append"
    BY <1>0, <1>3 DEF AppendLine, EmitOK, Emitting, LogOK
  <2>2. f \in File
    BY <1>0, <2>1, LineOfBytes, AppendedLine DEF FilesOK
  <2>3. /\ files' = [files EXCEPT ![d] = f] /\ written' = [written EXCEPT ![d] = Append(@, Len(log))]
        /\ UNCHANGED <<today, log, left, activeDate, broken, failures>>
        /\ \/ emit' = [emit EXCEPT !.at = "trim"] /\ done' = done
           \/ emit' = Idle /\ done' = d
    BY <1>3 DEF AppendLine, End
  <2> HIDE DEF f
  <2>4. EmitOK' /\ done' \in 0..today
    <3>1. CASE emit' = [emit EXCEPT !.at = "trim"] /\ done' = done
      <4>1. emit' = [at |-> "trim", file |-> emit.file, kept |-> emit.kept]
        BY <1>0, <3>1 DEF EmitOK
      <4> QED  BY <1>0, <2>1, <2>3, <3>1, <4>1 DEF EmitOK, Emitting, Shape
    <3>2. CASE emit' = Idle /\ done' = d
      BY <1>0, <1>b, <2>1, <2>3, <3>2 DEF EmitOK
    <3> QED  BY <2>3, <3>1, <3>2
  <2>5. FilesOK'
    <3>1. written' \in [Day -> Seq(Nat)]
      <4>1. written[d] \in Seq(Nat)
        BY <1>0, <2>1 DEF FilesOK
      <4>2. Append(written[d], Len(log)) \in Seq(Nat)
        BY <2>1, <4>1, AppendProperties
      <4> QED  BY <1>0, <2>1, <2>3, <4>2 DEF FilesOK
    <3>2. files' \in [Day -> File] /\ \A e \in Day : e # d => files'[e] = files[e]
      BY <1>0, <2>1, <2>2, <2>3 DEF FilesOK
    <3>3. emit'.at # "rewrite"
      BY <1>0, <2>3 DEF EmitOK
    <3>4. d <= today
      BY <1>0, <2>1 DEF EmitOK
    <3>5. \A e \in Day : e > today => files'[e] = <<>>
      <4>1. \A e \in Day : e > today => e # d /\ files[e] = <<>>
        BY <1>0, <3>4 DEF FilesOK
      <4> QED  BY <3>2, <4>1
    <3> QED  BY <1>0, <2>3, <3>1, <3>2, <3>3, <3>5 DEF FilesOK
  <2> QED  BY <1>0, <1>a, <2>3, <2>4, <2>5 DEF Shape
<1>4. CASE Trim
  <2> DEFINE d == emit.file  f == files[d]
  <2>1. d \in Day /\ emit.at = "trim" /\ f \in File
    BY <1>0, <1>4 DEF Trim, EmitOK, Emitting, FilesOK
  <2>2. Retained(f) \in File
    <3>1. Len(f) > TrimmedBytes /\ Len(f) \in Nat
      BY <2>1, FileIsFunction DEF Limited
    <3>2. PICK c \in 0..Len(f) : Retained(f) = SubSeq(f, c + 1, Len(f))
      BY <2>1, <3>1, RetainedIsSuffix
    <3> QED  BY <2>1, <3>2, SuffixOfFile
  <2>3. /\ emit' = [at |-> "rewrite", file |-> d, kept |-> Retained(f)]
        /\ files' = [files EXCEPT ![d] = <<>>]
        /\ UNCHANGED <<today, log, left, activeDate, written, broken, done, failures>>
    BY <1>0, <1>4 DEF Trim, EmitOK
  <2>4. EmitOK'
    BY <1>0, <2>1, <2>2, <2>3 DEF EmitOK, Emitting
  <2>5. FilesOK'
    BY <1>0, <2>1, <2>3 DEF FilesOK
  <2> QED  BY <1>0, <1>a, <2>3, <2>4, <2>5 DEF Shape
<1>5. CASE Rewrite
  <2>1. emit.file \in Day /\ emit.file \in 0..today
    BY <1>0, <1>5 DEF Rewrite, EmitOK, Emitting
  <2>2. FilesOK'
    BY <1>0, <1>5, <2>1 DEF Rewrite, FilesOK, End
  <2> QED  BY <1>0, <1>a, <1>b, <1>5, <2>1, <2>2 DEF Rewrite, End, Shape
<1>6. CASE Fail
  <2>1. /\ emit' = Idle /\ done' = 0 /\ UNCHANGED <<today, log, written>>
        /\ failures' \in 0..MaxFailures /\ activeDate' \in 0..today
    <3>1. PICK restart \in BOOLEAN : activeDate' = IF restart THEN 0 ELSE activeDate
      BY <1>6 DEF Fail
    <3> QED  BY <1>0, <1>6, <3>1 DEF Fail, End, Shape
  <2>2. broken' \subseteq Day /\ files' \in [Day -> File] /\ \A d \in Day : d > today => files'[d] = <<>>
    <3>1. CASE emit.at = "path" /\ UNCHANGED <<files, broken>>
      BY <1>0, <3>1 DEF FilesOK
    <3>2. CASE emit.at = "trim" /\ UNCHANGED files /\ broken' = broken \cup {emit.file}
      BY <1>0, <3>2 DEF FilesOK, EmitOK, Emitting
    <3>3. CASE /\ emit.at \in {"append", "rewrite"} /\ broken' = broken \cup {emit.file}
               /\ \E bytes \in Prefixes(IF emit.at = "append" THEN Bytes(Len(log)) ELSE emit.kept) :
                    files' = [files EXCEPT ![emit.file] = @ \o bytes]
      <4>1. PICK bytes \in Prefixes(IF emit.at = "append" THEN Bytes(Len(log)) ELSE emit.kept) :
              files' = [files EXCEPT ![emit.file] = @ \o bytes]
        BY <3>3
      <4>2. bytes \in File
        <5>1. Bytes(Len(log)) \in File /\ emit.kept \in File
          BY <1>0, LineOfBytes DEF LogOK
        <5> QED  BY <4>1, <5>1, PrefixOfFile
      <4>3. emit.file \in Day /\ emit.file <= today
        BY <1>0, <3>3 DEF EmitOK, Emitting
      <4>4. files[emit.file] \o bytes \in File
        BY <1>0, <4>2, <4>3, AppendedLine DEF FilesOK
      <4>5. files' \in [Day -> File] /\ \A d \in Day : d # emit.file => files'[d] = files[d]
        BY <1>0, <4>1, <4>3, <4>4 DEF FilesOK
      <4>6. ASSUME NEW d \in Day, d > today PROVE d # emit.file
        <5>1. d \in Nat /\ today \in Nat
          BY <1>0, Bounds
        <5> QED  BY <4>3, <4>6, <5>1
      <4> QED  BY <1>0, <3>3, <4>3, <4>5, <4>6 DEF FilesOK
    <3> QED  BY <1>6, <3>1, <3>2, <3>3 DEF Fail
  <2>3. FilesOK'
    BY <1>0, <2>1, <2>2 DEF FilesOK
  <2> QED  BY <1>0, <1>a, <1>b, <2>1, <2>3 DEF Shape
<1>7. CASE Restart
  BY <1>0, <1>a, <1>7 DEF Restart, Shape, EmitOK, FilesOK, Emitting
<1>8. CASE NewDay
  <2>1. today' \in Day /\ today' = today + 1
    BY <1>0, <1>8 DEF NewDay, Day
  <2>2. LogOK'
    BY <1>0, <1>8, <2>1, LogStays, DaysOfEntries DEF NewDay
  <2>3. emit' = emit /\ files' = files /\ UNCHANGED <<log, activeDate, written, broken, done>>
    BY <1>8 DEF NewDay
  <2>4. EmitOK'
    BY <1>0, <2>1, <2>3, SMTT(40) DEF EmitOK, Emitting
  <2>5. FilesOK'
    BY <1>0, <2>1, <2>3, SMTT(40) DEF FilesOK
  <2> QED  BY <1>0, <1>8, <2>1, <2>2, <2>4, <2>5 DEF NewDay, Shape
<1>9. CASE UNCHANGED vars
  BY <1>0, <1>a, <1>9 DEF vars, Shape, EmitOK, FilesOK, Emitting
<1> QED  BY <1>1, <1>2, <1>3, <1>4, <1>5, <1>6, <1>7, <1>8, <1>9 DEF Next, Emit
-----------------------------------------------------------------------------
(* What becomes of the bytes. *)

Becomes(d, f) == \A e \in Day : Content(e)' = IF e = d THEN f ELSE Content(e)
ContentStays == \A d \in Day : Content(d)' = Content(d)

LEMMA ContentIsFile == ASSUME Shape PROVE \A d \in Day : Content(d) \in File
BY DEF Shape, FilesOK, EmitOK, Content

LEMMA SameContent ==
    ASSUME Shape, Create \/ Rewrite \/ Restart \/ NewDay \/ UNCHANGED vars
    PROVE  ContentStays
<1> USE IdleFields
<1>1. CASE Create
  <2>1. emit.at = "idle" /\ emit'.at = "path" /\ files' = files
    BY <1>1 DEF Create, Idle
  <2> QED  BY <2>1 DEF ContentStays, Content
<1>2. CASE Rewrite
  <2>1. emit.at = "rewrite" /\ emit'.at = "idle" /\ files' = [files EXCEPT ![emit.file] = emit.kept]
    BY <1>2 DEF Rewrite, End
  <2> QED  BY <2>1 DEF Shape, FilesOK, ContentStays, Content
<1>3. CASE Restart \/ NewDay \/ UNCHANGED vars
  BY <1>3 DEF Restart, NewDay, vars, ContentStays, Content
<1> QED  BY <1>1, <1>2, <1>3

LEMMA DatedContent ==
    ASSUME Shape, DatedPath
    PROVE  \A d \in Day : \/ Content(d)' = Content(d)
                          \/ Content(d)' = <<>> /\ d <= today - KeepDays
<1>1. emit.at = "path" /\ emit'.at = "append"
  BY DEF DatedPath, Shape, EmitOK
<1>2. \A d \in Day : Content(d)' = files'[d] /\ Content(d) = files[d]
  BY <1>1 DEF Content
<1>3. \A d \in Day : files'[d] = files[d] \/ (files'[d] = <<>> /\ Expired(d))
  BY DEF DatedPath
<1>4. \A d \in Day : Expired(d) => d <= today - KeepDays
  BY Bounds DEF Expired, Shape
<1> QED  BY <1>2, <1>3, <1>4

LEMMA AppendContent ==
    ASSUME Shape, AppendLine
    PROVE  /\ emit.file \in Day /\ Len(log) \in Nat \ {0}
           /\ Becomes(emit.file, Content(emit.file) \o Bytes(Len(log)))
<1>1. emit.at = "append" /\ emit.file \in Day /\ emit'.at \in {"trim", "idle"}
  BY IdleFields DEF AppendLine, End, Shape, EmitOK, Emitting
<1>2. \A d \in Day : Content(d)' = files'[d] /\ Content(d) = files[d]
  BY <1>1 DEF Content
<1>3. files' = [files EXCEPT ![emit.file] = files[emit.file] \o Bytes(Len(log))]
  BY DEF AppendLine
<1>4. Len(log) \in Nat \ {0}
  BY <1>1 DEF Shape, EmitOK, LogOK
<1>5. \A d \in Day : files'[d] = IF d = emit.file THEN files[emit.file] \o Bytes(Len(log)) ELSE files[d]
  BY <1>1, <1>3 DEF Shape, FilesOK
<1>6. ASSUME NEW e \in Day
      PROVE  Content(e)' = IF e = emit.file THEN Content(emit.file) \o Bytes(Len(log)) ELSE Content(e)
  BY <1>1, <1>2, <1>5
<1> QED  BY <1>1, <1>4, <1>6 DEF Becomes

LEMMA TrimContent ==
    ASSUME Shape, Limited, Trim
    PROVE  /\ emit.file \in Day /\ Len(Content(emit.file)) > MaxBytes
           /\ emit'.file = emit.file /\ emit'.at = "rewrite"
           /\ Becomes(emit.file, Retained(Content(emit.file)))
<1>1. emit.at = "trim" /\ emit.file \in Day
  BY DEF Trim, Shape, EmitOK, Emitting
<1>2. emit'.at = "rewrite" /\ emit'.file = emit.file /\ emit'.kept = Retained(files[emit.file])
  BY DEF Trim, Shape, EmitOK
<1>3. files' = [files EXCEPT ![emit.file] = <<>>]
  BY DEF Trim
<1>4. \A d \in Day : Content(d) = files[d]
  BY <1>1 DEF Content
<1>5. \A d \in Day : Content(d)' = IF d = emit.file THEN emit'.kept ELSE files'[d]
  BY <1>2 DEF Content
<1> QED  BY <1>1, <1>2, <1>3, <1>4, <1>5 DEF Becomes, Limited, Shape, FilesOK

LEMMA FailContent ==
    ASSUME Shape, Fail
    PROVE  \/ ContentStays
           \/ /\ emit.file \in Day /\ emit.file \in broken' /\ Len(log) \in Nat \ {0}
              /\ \E g \in Prefixes(Bytes(Len(log))) : Becomes(emit.file, Content(emit.file) \o g)
           \/ /\ emit.file \in Day /\ emit.file \in broken'
              /\ \E g \in Prefixes(Content(emit.file)) : Becomes(emit.file, g)
<1>0. emit'.at = "idle"
  BY IdleFields DEF Fail, End
<1>1. \A d \in Day : Content(d)' = files'[d]
  BY <1>0 DEF Content
<1>2. CASE emit.at \in {"path", "trim"} /\ UNCHANGED files
  BY <1>1, <1>2 DEF ContentStays, Content
<1>3. CASE emit.at = "append"
  <2>1. PICK g \in Prefixes(Bytes(Len(log))) : files' = [files EXCEPT ![emit.file] = @ \o g]
    BY <1>3 DEF Fail
  <2>2. emit.file \in Day /\ Len(log) \in Nat \ {0} /\ emit.file \in broken'
    BY <1>3 DEF Fail, Shape, EmitOK, Emitting, LogOK
  <2>3. \A d \in Day : Content(d) = files[d]
    BY <1>3 DEF Content
  <2>4. Becomes(emit.file, Content(emit.file) \o g)
    <3>1. \A d \in Day : files'[d] = IF d = emit.file THEN files[emit.file] \o g ELSE files[d]
      BY <2>1, <2>2 DEF Shape, FilesOK
    <3>2. Content(emit.file) = files[emit.file]
      BY <2>2, <2>3
    <3>3. \A d \in Day : Content(d)' = IF d = emit.file THEN Content(emit.file) \o g ELSE Content(d)
      <4> TAKE d \in Day
      <4>1. CASE d = emit.file
        BY ONLY <1>1, <3>1, <3>2, <4>1
      <4>2. CASE d # emit.file
        BY <1>1, <2>3, <3>1, <4>2
      <4> QED  BY <4>1, <4>2
    <3> QED  BY <3>3 DEF Becomes
  <2> QED  BY <2>2, <2>4
<1>4. CASE emit.at = "rewrite"
  <2>1. PICK g \in Prefixes(emit.kept) : files' = [files EXCEPT ![emit.file] = @ \o g]
    BY <1>4 DEF Fail
  <2>2. emit.file \in Day /\ emit.file \in broken' /\ emit.kept \in File /\ files[emit.file] = <<>>
    BY <1>4 DEF Fail, Shape, EmitOK, Emitting, FilesOK
  <2>3. g \in File /\ <<>> \o g = g
    BY <2>2, PrefixOfFile, ConcatEmptySeq DEF File
  <2>4. \A d \in Day : Content(d) = IF d = emit.file THEN emit.kept ELSE files[d]
    BY <1>4 DEF Content
  <2>5. Becomes(emit.file, g)
    <3>1. \A d \in Day : files'[d] = IF d = emit.file THEN g ELSE files[d]
      BY <2>1, <2>2, <2>3 DEF Shape, FilesOK
    <3> QED  BY <1>1, <2>4, <3>1 DEF Becomes
  <2> QED  BY <2>2, <2>4, <2>5
<1> QED  BY <1>2, <1>3, <1>4 DEF Fail

-----------------------------------------------------------------------------
(* What was removed, and how long a file may be. *)

LEMMA FilesChange ==
    ASSUME Shape, [Next]_vars
    PROVE  \A d \in Day : \/ files'[d] = files[d] \/ files'[d] = <<>>
                          \/ Emitting /\ d = emit.file
<1>1. CASE AppendLine \/ Trim \/ Rewrite
  BY <1>1 DEF AppendLine, Trim, Rewrite, Emitting, Shape, FilesOK
<1>2. CASE DatedPath
  BY <1>2 DEF DatedPath
<1>3. CASE Fail
  BY <1>3 DEF Fail, Emitting, Shape, FilesOK
<1>4. CASE Create \/ Restart \/ NewDay \/ UNCHANGED vars
  BY <1>4 DEF Create, Restart, NewDay, vars
<1> QED  BY <1>1, <1>2, <1>3, <1>4 DEF Next, Emit

LEMMA DatesChange ==
    ASSUME Shape, [Next]_vars
    PROVE  /\ \/ left' = left /\ activeDate' \in {activeDate, 0}
              \/ DatedPath /\ activeDate' = today
           /\ done' = done \/ done' = 0 \/ (Emitting /\ done' = emit.file)
<1>1. CASE AppendLine \/ Trim \/ Rewrite
  BY <1>1 DEF AppendLine, Trim, Rewrite, Emitting
<1>2. CASE Fail
  BY <1>2 DEF Fail
<1>3. CASE DatedPath
  BY <1>3 DEF DatedPath
<1>4. CASE Create \/ Restart \/ NewDay \/ UNCHANGED vars
  BY <1>4 DEF Create, Restart, NewDay, vars
<1> QED  BY <1>1, <1>2, <1>3, <1>4 DEF Next, Emit

LEMMA StepRemoved == Shape /\ Removed /\ [Next]_vars => Removed'
<1> SUFFICES ASSUME Shape, Removed, [Next]_vars PROVE Removed'
  OBVIOUS
<1> USE Bounds
<1>1. /\ activeDate \in Nat /\ done \in Nat /\ today \in Nat /\ done <= today
      /\ Emitting => emit.file = activeDate /\ done <= emit.file /\ emit.file \in Nat
  BY DEF Shape, EmitOK
<1>2. ASSUME left' = left, NEW day \in Nat, Emitting => day <= emit.file, OldGone(day), day # 0,
             NEW d \in Day, d <= day - KeepDays
      PROVE  files'[d] = <<>> \/ d \in left'
  <2>1. (files[d] = <<>> \/ d \in left) /\ d \in Nat
    BY <1>2 DEF OldGone
  <2>2. ~(Emitting /\ d = emit.file)
    BY <1>1, <1>2, <2>1
  <2> QED  BY <1>2, <2>1, <2>2, FilesChange
<1>3. ASSUME DatedPath, NEW d \in Day, d <= today - KeepDays
      PROVE  files'[d] = <<>> \/ d \in left'
  <2>1. CASE today = activeDate
    <3>1. UNCHANGED <<files, left>> /\ today # 0
      BY <1>3, <2>1 DEF DatedPath, Shape
    <3> QED  BY <1>3, <2>1, <3>1 DEF Removed, OldGone
  <2>2. CASE today # activeDate
    <3>1. d < today - (KeepDays - 1)
      <4>1. d \in Nat /\ today \in Nat /\ KeepDays \in Nat
        BY <1>1
      <4> QED  BY <1>3, <4>1
    <3>2. Expired(d)
      BY <3>1 DEF Expired
    <3>3. files' = [e \in Day |-> IF Expired(e) /\ e \notin left' THEN <<>> ELSE files[e]]
      BY <1>3, <2>2 DEF DatedPath
    <3> QED  BY <3>2, <3>3
  <2> QED  BY <2>1, <2>2
<1>4. OldGone(activeDate)'
  <2>1. CASE left' = left /\ activeDate' = activeDate
    <3>1. activeDate # 0 => \A d \in Day : d <= activeDate - KeepDays => files'[d] = <<>> \/ d \in left'
      <4>1. OldGone(activeDate) /\ (Emitting => activeDate <= emit.file)
        BY <1>1 DEF Removed
      <4> QED  BY <1>1, <1>2, <2>1, <4>1
    <3> QED  BY <2>1, <3>1 DEF OldGone
  <2>2. CASE DatedPath /\ activeDate' = today
    BY <1>3, <2>2 DEF OldGone
  <2> QED  BY <2>1, <2>2, DatesChange DEF OldGone
<1>5. OldGone(done)'
  <2>1. CASE left' = left /\ done' = done
    BY <1>1, <1>2, <2>1 DEF Removed, OldGone
  <2>2. CASE left' = left /\ Emitting /\ done' = emit.file
    BY <1>1, <1>2, <2>2 DEF Removed, OldGone
  <2>3. CASE DatedPath
    <3>1. done' = done
      BY <2>3 DEF DatedPath
    <3>2. \A d \in Day : d \in Nat /\ (d <= done - KeepDays => d <= today - KeepDays)
      BY <1>1
    <3> QED  BY <1>3, <2>3, <3>1, <3>2 DEF OldGone
  <2> QED  BY <2>1, <2>2, <2>3, DatesChange DEF OldGone
<1> QED  BY <1>4, <1>5 DEF Removed

LEMMA StepLimited == Shape /\ Limited /\ [Next]_vars => Limited'
<1> SUFFICES ASSUME Shape, Limited, [Next]_vars PROVE Limited'
  OBVIOUS
<1> USE Bounds, IdleFields
<1>1. CASE Create \/ DatedPath \/ Fail
  <2>1. emit'.at \in {"path", "append"} \/ (emit'.at = "idle" /\ done' = 0)
    BY <1>1 DEF Create, DatedPath, Fail, End, Idle, Shape, EmitOK
  <2> QED  BY <2>1 DEF Limited
<1>2. CASE AppendLine
  <2> DEFINE d == emit.file  f == files[d] \o Bytes(Len(log))
  <2>1. emit.at = "append" /\ d \in Day /\ f \in File
    <3>1. emit.at = "append" /\ d \in Day /\ files[d] \in File /\ Len(log) \in Nat
      BY <1>2 DEF AppendLine, Shape, EmitOK, Emitting, FilesOK, LogOK
    <3> QED  BY <3>1, LineOfBytes, AppendedLine
  <2>2. files'[d] = f /\ Len(f) \in Nat
    BY <1>2, <2>1, FileIsFunction DEF AppendLine, Shape, FilesOK
  <2>3. \/ Len(f) > MaxBytes /\ emit'.at = "trim" /\ emit'.file = d
        \/ Len(f) <= MaxBytes /\ emit'.at = "idle" /\ done' = d
    BY <1>2, <2>2, SMTT(40) DEF AppendLine, TooLong, End, Shape, EmitOK
  <2> HIDE DEF f, d
  <2> QED  BY <2>2, <2>3 DEF Limited
<1>3. CASE Trim
  <2> DEFINE f == files[emit.file]
  <2>1. f \in File /\ Len(f) > MaxBytes /\ Len(f) \in Nat
    BY <1>3, FileIsFunction DEF Trim, Shape, EmitOK, Emitting, FilesOK, Limited
  <2>2. emit'.at = "rewrite" /\ emit'.kept = Retained(f)
    BY <1>3 DEF Trim, Shape, EmitOK
  <2> HIDE DEF f
  <2>3. PICK c \in 0..Len(f) : Retained(f) = SubSeq(f, c + 1, Len(f)) /\ Len(f) - c <= TrimmedBytes
    BY <2>1, RetainedIsSuffix
  <2> QED  BY <2>1, <2>2, <2>3, SuffixOfFile DEF Limited
<1>4. CASE Rewrite
  <2>1. /\ emit'.at = "idle" /\ done' = emit.file /\ emit.file \in Day
        /\ files'[emit.file] = emit.kept /\ Len(emit.kept) <= TrimmedBytes /\ Len(emit.kept) \in Nat
    BY <1>4, FileIsFunction DEF Rewrite, End, Shape, EmitOK, Emitting, FilesOK, Limited
  <2> QED  BY <2>1 DEF Limited
<1>5. CASE Restart \/ NewDay \/ UNCHANGED vars
  BY <1>5 DEF Restart, NewDay, vars, Limited
<1> QED  BY <1>1, <1>2, <1>3, <1>4, <1>5 DEF Next, Emit

-----------------------------------------------------------------------------
(* The newest lines. *)

LEMMA Thirds ==
    ASSUME NEW n \in Nat, NEW i \in 1..(3 * n)
    PROVE  \E k \in 1..n, p \in 1..3 : i = 3 * (k - 1) + p
<1> DEFINE k == (i + 2) \div 3  p == i - 3 * (k - 1)
<1>1. k \in Int /\ 3 * k <= i + 2 /\ i + 2 < 3 * k + 3
  OBVIOUS
<1>2. k \in 1..n /\ p \in 1..3 /\ i = 3 * (k - 1) + p
  BY <1>1
<1> QED  BY <1>2

\* Where the newlines of such a file are.
LEMMA RestNewlines ==
    ASSUME NEW f \in File, NEW w \in Seq(Nat), NEW m \in Nat, RestOf(f, w, m),
           NEW i \in 1..Len(f), f[i].pos = 3
    PROVE  \E k \in 1..(Len(w) - m) : i = 3 * k
<1> DEFINE n == Len(w) - m
<1>1. n \in Nat /\ Len(f) = 3 * n
  BY LenProperties DEF RestOf
<1> HIDE DEF n
<1>2. i \in 1..(3 * n) /\ n \in Nat
  BY <1>1
<1>3. PICK k \in 1..n, p \in 1..3 : i = 3 * (k - 1) + p
  BY ONLY <1>2, Thirds, Zenon
<1>4. f[i] = Byte(w[m + k], p)
  BY <1>1, <1>3 DEF RestOf, n
<1>5. p = 3
  BY <1>4, ByteFields
<1>6. i = 3 * k /\ k \in 1..(Len(w) - m)
  BY <1>1, <1>3, <1>5 DEF n
<1> QED  BY <1>6

LEMMA KeptEmpty == ASSUME NEW w \in Seq(Nat) PROVE Kept(<<>>, w)
<1>1. Len(w) \in Nat /\ RestOf(<<>>, w, Len(w))
  BY EmptyFile DEF RestOf
<1> QED  BY <1>1 DEF Kept

LEMMA KeptGrows ==
    ASSUME NEW f \in File, NEW w \in Seq(Nat), NEW l \in Nat, Kept(f, w),
           f # <<>> \/ w = <<>>
    PROVE  /\ Kept(f \o Bytes(l), Append(w, l))
           /\ f \o Bytes(l) # <<>>
<1> DEFINE g == f \o Bytes(l)  v == Append(w, l)
<1>1. /\ g \in File /\ Len(g) = Len(f) + 3 /\ Len(f) \in Nat
      /\ \A i \in 1..Len(f) : g[i] = f[i]
      /\ \A p \in 1..3 : g[Len(f) + p] = Byte(l, p)
  <2>1. Bytes(l) \in File /\ Len(Bytes(l)) = 3 /\ \A p \in 1..3 : Bytes(l)[p] = Byte(l, p)
    BY LineOfBytes
  <2> DEFINE b == Bytes(l)
  <2> HIDE DEF b
  <2>2. /\ f \o b \in File /\ Len(f \o b) = Len(f) + Len(b)
        /\ \A i \in 1..Len(f) : (f \o b)[i] = f[i]
        /\ \A i \in 1..Len(b) : (f \o b)[Len(f) + i] = b[i]
    BY <2>1, AppendedLine DEF b
  <2>3. Len(f) \in Nat
    BY FileIsFunction
  <2>4. Len(b) = 3 /\ \A p \in 1..3 : b[p] = Byte(l, p)
    BY <2>1 DEF b
  <2>5. g = f \o b
    BY DEF b
  <2> QED  BY <2>2, <2>3, <2>4, <2>5
<1>2. /\ v \in Seq(Nat) /\ Len(v) = Len(w) + 1 /\ Len(w) \in Nat
      /\ \A i \in 1..Len(w) : v[i] = w[i]
      /\ v[Len(w) + 1] = l
  BY AppendProperties, LenProperties
<1>3. PICK m \in Nat : RestOf(f, w, m) /\ (m = 0 \/ f = <<>> \/ Len(f) >= TrimmedBytes - 3)
  BY DEF Kept
<1>4. /\ m \in 0..Len(w) /\ Len(f) = 3 * (Len(w) - m)
      /\ \A k \in 1..(Len(w) - m), p \in 1..3 : f[3 * (k - 1) + p] = Byte(w[m + k], p)
  BY <1>3 DEF RestOf
<1> HIDE DEF g, v
<1>5. RestOf(g, v, m)
  <2>1. ASSUME NEW k \in 1..(Len(v) - m), NEW p \in 1..3
        PROVE  g[3 * (k - 1) + p] = Byte(v[m + k], p)
    <3>1. CASE k = Len(v) - m
      <4>1. 3 * (k - 1) + p = Len(f) + p /\ m + k = Len(w) + 1
        BY <1>2, <1>4, <3>1
      <4> QED  BY <1>1, <1>2, <4>1
    <3>2. CASE k # Len(v) - m
      <4>1. k \in 1..(Len(w) - m) /\ 3 * (k - 1) + p \in 1..Len(f) /\ m + k \in 1..Len(w)
        <5>1. m \in Int /\ Len(w) \in Nat /\ Len(v) = Len(w) + 1 /\ m <= Len(w)
              /\ Len(f) = 3 * (Len(w) - m)
          BY <1>2, <1>4
        <5>2. k \in Int /\ 1 <= k /\ k <= Len(w) - m
          BY <5>1, <3>2
        <5> QED  BY <5>1, <5>2
      <4> QED  BY <1>1, <1>2, <1>4, <4>1
    <3> QED  BY <3>1, <3>2
  <2> QED  BY <1>1, <1>2, <1>4, <2>1 DEF RestOf
<1>6. m = 0 \/ Len(g) >= TrimmedBytes - 3
  <2>1. f = <<>> => Len(w) = 0
    BY <1>1
  <2> QED  BY <1>1, <1>2, <1>3, <1>4, <2>1, Bounds
<1>7. g # <<>>
  BY <1>1, FileIsFunction
<1> QED  BY <1>5, <1>6, <1>7 DEF Kept, g, v

LEMMA KeptTrimmed ==
    ASSUME NEW f \in File, NEW w \in Seq(Nat), Kept(f, w), Len(f) > MaxBytes
    PROVE  Kept(Retained(f), w) /\ Retained(f) # <<>>
<1> DEFINE n == Len(f)
<1>1. PICK m \in Nat : RestOf(f, w, m)
  BY DEF Kept
<1>2. /\ m \in 0..Len(w) /\ n = 3 * (Len(w) - m) /\ Len(w) \in Nat /\ n \in Nat
      /\ \A k \in 1..(Len(w) - m), p \in 1..3 : f[3 * (k - 1) + p] = Byte(w[m + k], p)
  BY <1>1, LenProperties DEF RestOf
<1>3. n > TrimmedBytes /\ TrimmedBytes \in Nat /\ TrimmedBytes >= 5
  BY <1>2, Bounds
<1>4. \A k \in 1..(Len(w) - m) : 3 * k \in 1..n /\ f[3 * k].pos = 3
  <2> TAKE k \in 1..(Len(w) - m)
  <2>1. 3 * k = 3 * (k - 1) + 3 /\ 3 * k \in 1..n /\ 3 \in 1..3
    BY <1>2
  <2> QED  BY <1>2, <2>1, ByteFields
<1>5. PICK c \in 0..n :
        /\ Retained(f) = SubSeq(f, c + 1, n) /\ n - c <= TrimmedBytes
        /\ \/ c = n /\ f[n].pos # 3
           \/ /\ c > n - TrimmedBytes /\ f[c].pos = 3
              /\ \A i \in (n - TrimmedBytes + 1)..(c - 1) : f[i].pos # 3
  BY <1>3, RetainedIsSuffix
<1>6. /\ c > n - TrimmedBytes /\ f[c].pos = 3
      /\ \A i \in (n - TrimmedBytes + 1)..(c - 1) : f[i].pos # 3
  <2>1. Len(w) - m \in 1..(Len(w) - m) /\ n = 3 * (Len(w) - m)
    BY <1>2, <1>3
  <2> QED  BY <1>4, <1>5, <2>1
<1>7. PICK q \in 1..(Len(w) - m) : c = 3 * q
  <2>1. c \in 1..Len(f)
    BY <1>2, <1>3, <1>6
  <2>2. f[c].pos = 3 /\ m \in Nat
    BY <1>6
  <2> QED  BY <1>1, <2>1, <2>2, RestNewlines, Zenon
<1>8. n - c >= TrimmedBytes - 3
  <2>1. CASE q = 1
    BY <1>2, <1>3, <1>7, <2>1
  <2>2. CASE q # 1
    <3>1. q - 1 \in 1..(Len(w) - m) /\ 3 * (q - 1) = c - 3
      BY <1>2, <1>7, <2>2
    <3>2. f[c - 3].pos = 3
      BY <1>4, <3>1
    <3>3. ~(c - 3 \in (n - TrimmedBytes + 1)..(c - 1))
      BY <1>6, <3>2
    <3> QED  BY <1>2, <1>3, <1>5, <3>3
  <2> QED  BY <2>1, <2>2
<1> DEFINE g == Retained(f)
<1>9. /\ g \in File /\ Len(g) = n - c
      /\ \A i \in 1..(n - c) : g[i] = f[c + i]
  BY <1>5, SuffixOfFile
<1> HIDE DEF g
<1>10. RestOf(g, w, m + q)
  <2>1. m + q \in 0..Len(w) /\ Len(g) = 3 * (Len(w) - (m + q))
    BY <1>2, <1>7, <1>9
  <2>2. ASSUME NEW k \in 1..(Len(w) - (m + q)), NEW p \in 1..3
        PROVE  g[3 * (k - 1) + p] = Byte(w[m + q + k], p)
    <3>1. 3 * (k - 1) + p \in 1..(n - c) /\ c + (3 * (k - 1) + p) = 3 * ((k + q) - 1) + p
          /\ k + q \in 1..(Len(w) - m) /\ m + (k + q) = m + q + k
      BY <1>2, <1>7
    <3>2. f[3 * ((k + q) - 1) + p] = Byte(w[m + (k + q)], p)
      BY <1>2, <3>1
    <3> QED  BY <1>9, <3>1, <3>2
  <2> QED  BY <2>1, <2>2 DEF RestOf
<1>11. g # <<>> /\ m + q \in Nat /\ Len(g) >= TrimmedBytes - 3
  BY <1>2, <1>3, <1>7, <1>8, <1>9, EmptyFile
<1> QED  BY <1>10, <1>11 DEF Kept, g

LEMMA LaterStill == \A d, k, y, z \in Nat : y <= z /\ d <= y - k => d <= z - k
OBVIOUS

\* What a file holds is not removed before its time.
Survives(d) ==
    Content(d) = <<>> /\ written[d] # <<>> =>
        d <= today - KeepDays /\ (Emitting => d # emit.file)

LEMMA StepNewest == Shape /\ Limited /\ NewestKept /\ [Next]_vars => NewestKept'
<1> SUFFICES ASSUME Shape, Limited, NewestKept, [Next]_vars,
                    NEW d \in Day, d \notin broken'
             PROVE  Kept(Content(d)', written'[d]) /\ Survives(d)'
  BY DEF NewestKept, Survives
<1> USE Bounds, IdleFields
<1>1. /\ broken \subseteq broken' /\ d \notin broken /\ today \in Nat /\ today' \in Nat /\ today <= today'
      /\ d \in Nat /\ Content(d) \in File /\ written[d] \in Seq(Nat) /\ emit.at' = emit'.at
  <2>1. broken \subseteq broken' /\ (today' = today \/ today' = today + 1)
    BY DEF Next, Emit, Create, DatedPath, AppendLine, Trim, Rewrite, Fail, Restart, NewDay, vars
  <2> QED  BY <2>1, ContentIsFile DEF Shape, FilesOK
<1>2. Kept(Content(d), written[d]) /\ Survives(d)
  BY <1>1 DEF NewestKept, Survives
<1>3. ASSUME Content(d)' = Content(d), written'[d] = written[d],
             Emitting' => (Emitting /\ emit'.file = emit.file) \/ emit'.file = today
      PROVE  Kept(Content(d)', written'[d]) /\ Survives(d)'
  <2>1. Kept(Content(d)', written'[d])
    BY <1>2, <1>3
  <2>2. Survives(d)'
    <3>1. CASE Content(d) = <<>> /\ written[d] # <<>>
      <4>1. d <= today - KeepDays /\ (Emitting => d # emit.file)
        BY <1>2, <3>1 DEF Survives
      <4>2. d <= today' - KeepDays
        <5>1. d \in Nat /\ KeepDays \in Nat /\ today \in Nat /\ today' \in Nat /\ today <= today'
          BY <1>1
        <5>2. d <= today - KeepDays
          BY <4>1
        <5> QED  BY ONLY <5>1, <5>2, LaterStill, Zenon
      <4>3. Emitting' => d # emit'.file
        BY <1>1, <1>3, <4>1
      <4> QED  BY <4>2, <4>3 DEF Survives
    <3>2. CASE ~(Content(d) = <<>> /\ written[d] # <<>>)
      BY <1>3, <3>2 DEF Survives
    <3> QED  BY <3>1, <3>2
  <2> QED  BY <2>1, <2>2
<1>4. CASE Create \/ Rewrite \/ Restart \/ NewDay \/ UNCHANGED vars
  <2>1. Content(d)' = Content(d)
    BY <1>4, SameContent DEF ContentStays
  <2>2. written' = written /\ (emit'.at \in {"path", "idle"} \/ emit' = emit)
    BY <1>4 DEF Create, Rewrite, End, Restart, NewDay, vars, Shape, EmitOK, Idle
  <2> QED  BY <1>3, <2>1, <2>2 DEF Emitting
<1>5. CASE DatedPath
  <2>1. written' = written /\ today' = today /\ emit'.file = today
    BY <1>5 DEF DatedPath, Shape, EmitOK
  <2>2. CASE Content(d)' = Content(d)
    BY <1>3, <2>1, <2>2
  <2>3. CASE Content(d)' = <<>> /\ d <= today - KeepDays
    BY <1>1, <2>1, <2>3, KeptEmpty DEF Survives
  <2> QED  BY <1>5, <2>2, <2>3, DatedContent
<1>6. CASE AppendLine
  <2>1. /\ emit.file \in Day /\ Len(log) \in Nat \ {0}
        /\ Content(d)' = IF d = emit.file THEN Content(emit.file) \o Bytes(Len(log)) ELSE Content(d)
    BY <1>6, AppendContent DEF Becomes
  <2>2. /\ written' = [written EXCEPT ![emit.file] = Append(@, Len(log))]
        /\ Emitting /\ (emit'.file = emit.file \/ ~Emitting')
    BY <1>6 DEF AppendLine, Emitting, End, Shape, EmitOK
  <2>3. CASE d = emit.file
    <3>1. Content(d) # <<>> \/ written[d] = <<>>
      BY <1>2, <2>2, <2>3, EmptySeq DEF Survives
    <3>2. Content(d)' = Content(d) \o Bytes(Len(log)) /\ written'[d] = Append(written[d], Len(log))
      BY <2>1, <2>2, <2>3 DEF Shape, FilesOK
    <3>3. Kept(Content(d)', written'[d]) /\ Content(d)' # <<>>
      BY <1>1, <1>2, <2>1, <3>1, <3>2, KeptGrows
    <3> QED  BY <3>3 DEF Survives
  <2>4. CASE d # emit.file
    BY <1>3, <2>1, <2>2, <2>4 DEF Shape, FilesOK
  <2> QED  BY <2>3, <2>4
<1>7. CASE Trim
  <2>1. /\ emit.file \in Day /\ Len(Content(emit.file)) > MaxBytes
        /\ Content(d)' = IF d = emit.file THEN Retained(Content(emit.file)) ELSE Content(d)
    BY <1>7, TrimContent DEF Becomes
  <2>2. written' = written /\ Emitting /\ emit'.file = emit.file
    BY <1>7 DEF Trim, Emitting, Shape, EmitOK
  <2>3. CASE d = emit.file
    <3>1. Kept(Content(d)', written'[d]) /\ Content(d)' # <<>>
      BY <1>1, <1>2, <2>1, <2>2, <2>3, KeptTrimmed
    <3> QED  BY <3>1 DEF Survives
  <2>4. CASE d # emit.file
    BY <1>3, <2>1, <2>2, <2>4
  <2> QED  BY <2>3, <2>4
<1>8. CASE Fail
  <2>1. Content(d)' = Content(d)
    BY <1>8, FailContent DEF ContentStays, Becomes
  <2>2. written' = written /\ ~Emitting'
    BY <1>8 DEF Fail, End, Emitting
  <2> QED  BY <1>3, <2>1, <2>2
<1> QED  BY <1>4, <1>5, <1>6, <1>7, <1>8 DEF Next, Emit

-----------------------------------------------------------------------------
(* The order of the lines. *)

LEMMA PrefixOfLine ==
    ASSUME NEW l \in Nat, NEW g \in Prefixes(Bytes(l))
    PROVE  /\ g \in File /\ Len(g) \in 0..3
           /\ \A p \in 1..Len(g) : g[p] = Byte(l, p) /\ g[p].line = l /\ g[p].pos = p
<1>1. /\ Bytes(l) \in File /\ Len(Bytes(l)) = 3
      /\ \A p \in 1..3 : Bytes(l)[p] = Byte(l, p)
  BY LineOfBytes
<1>2. g \in File /\ Len(g) <= 3 /\ Len(g) \in Nat /\ \A p \in 1..Len(g) : g[p] = Bytes(l)[p]
  BY <1>1, PrefixOfFile, FileIsFunction
<1>3. \A p \in 1..Len(g) : g[p] = Byte(l, p)
  BY <1>1, <1>2
<1>4. \A p \in 1..Len(g) : g[p].line = l /\ g[p].pos = p
  BY ONLY <1>3, ByteFields
<1>5. Len(g) \in 0..3
  <2>1. Len(g) \in Nat /\ Len(g) <= 3
    BY <1>2
  <2>2. \A n \in Nat : n <= 3 => n \in 0..3
    OBVIOUS
  <2> QED  BY <2>1, <2>2, Zenon
<1> QED  BY <1>2, <1>3, <1>4, <1>5, Zenon

LEMMA LineIsPrefix == ASSUME NEW l \in Nat PROVE Bytes(l) \in Prefixes(Bytes(l))
<1>1. Bytes(l) \in File /\ Len(Bytes(l)) = 3
  BY LineOfBytes
<1>2. Bytes(l) = SubSeq(Bytes(l), 1, Len(Bytes(l)))
  BY <1>1, SubSeqFull DEF File
<1> QED  BY <1>1, <1>2 DEF Prefixes

LEMMA OrderGrows ==
    ASSUME NEW f \in File, NEW n \in Nat \ {0}, InOrder(f, n), NEW g \in Prefixes(Bytes(n))
    PROVE  InOrder(f \o g, n)
<1> DEFINE h == f \o g
<1>1. /\ g \in File /\ Len(g) \in 0..3 /\ \A p \in 1..Len(g) : g[p].line = n
  BY PrefixOfLine
<1>2. /\ h \in File /\ Len(h) = Len(f) + Len(g) /\ Len(f) \in Nat
      /\ \A i \in 1..Len(f) : h[i] = f[i]
      /\ \A i \in 1..Len(g) : h[Len(f) + i] = g[i]
  BY <1>1, AppendedLine, FileIsFunction
<1> HIDE DEF h
<1>3. ASSUME NEW i \in 1..Len(h)
      PROVE  \/ i \in 1..Len(f) /\ h[i].line = f[i].line /\ f[i].line \in 1..n
             \/ i > Len(f) /\ h[i].line = n
  <2>1. CASE i <= Len(f)
    BY <1>2, <2>1 DEF InOrder
  <2>2. CASE i > Len(f)
    <3>1. i - Len(f) \in 1..Len(g) /\ i = Len(f) + (i - Len(f))
      BY <1>1, <1>2, <2>2
    <3> QED  BY <1>1, <1>2, <2>2, <3>1
  <2> QED  BY <1>2, <2>1, <2>2
<1>4. \A i, j \in 1..Len(h) : i <= j => h[i].line <= h[j].line
  BY <1>2, <1>3 DEF InOrder
<1>5. \A i \in 1..Len(h) : h[i].line \in 1..n
  BY <1>3
<1> QED  BY <1>4, <1>5 DEF InOrder, h

LEMMA OrderOfPart ==
    ASSUME NEW f \in File, NEW n \in Nat, InOrder(f, n),
           NEW g \in File, NEW c \in Nat, c + Len(g) <= Len(f),
           \A i \in 1..Len(g) : g[i] = f[c + i]
    PROVE  InOrder(g, n)
<1>1. Len(f) \in Nat /\ Len(g) \in Nat
  BY FileIsFunction
<1>2. \A i \in 1..Len(g) : c + i \in 1..Len(f)
  BY <1>1
<1>3. \A i \in 1..Len(g) : g[i].line \in 1..n
  BY <1>2 DEF InOrder
<1>4. ASSUME NEW i \in 1..Len(g), NEW j \in 1..Len(g), i <= j PROVE g[i].line <= g[j].line
  <2>1. c + i <= c + j /\ c + i \in 1..Len(f) /\ c + j \in 1..Len(f)
    BY <1>2, <1>4
  <2>2. f[c + i].line <= f[c + j].line
    BY <2>1 DEF InOrder
  <2> QED  BY <2>2
<1> QED  BY <1>3, <1>4 DEF InOrder

LEMMA RetainedIsPart ==
    ASSUME NEW f \in File, Len(f) > TrimmedBytes
    PROVE  /\ Retained(f) \in File
           /\ \E c \in Nat : /\ c + Len(Retained(f)) = Len(f)
                             /\ \A i \in 1..Len(Retained(f)) : Retained(f)[i] = f[c + i]
<1>1. PICK c \in 0..Len(f) : Retained(f) = SubSeq(f, c + 1, Len(f))
  BY RetainedIsSuffix
<1>2. /\ SubSeq(f, c + 1, Len(f)) \in File /\ Len(SubSeq(f, c + 1, Len(f))) = Len(f) - c
      /\ \A i \in 1..(Len(f) - c) : SubSeq(f, c + 1, Len(f))[i] = f[c + i]
  BY SuffixOfFile
<1>3. c + (Len(f) - c) = Len(f) /\ c \in Nat
  BY FileIsFunction
<1> QED  BY <1>1, <1>2, <1>3

LEMMA StepInOrder == Shape /\ Limited /\ FilesInOrder /\ [Next]_vars => FilesInOrder'
<1> SUFFICES ASSUME Shape, Limited, FilesInOrder, [Next]_vars, NEW d \in Day
             PROVE  InOrder(Content(d)', Len(log'))
  BY DEF FilesInOrder
<1>1. Content(d) \in File /\ InOrder(Content(d), Len(log)) /\ Len(log) \in Nat
  BY ContentIsFile, LenProperties DEF FilesInOrder, Shape, LogOK
<1>2. CASE Content(d)' = Content(d) /\ (log' = log \/ Create)
  <2>1. Len(log') \in Nat /\ Len(log) <= Len(log')
    BY <1>1, <1>2, LogGrows
  <2>2. InOrder(Content(d), Len(log'))
    BY <1>1, <2>1, FileIsFunction DEF InOrder
  <2> QED  BY <1>2, <2>2
<1>3. CASE Create \/ Rewrite \/ Restart \/ NewDay \/ UNCHANGED vars
  <2>1. Content(d)' = Content(d)
    BY <1>3, SameContent DEF ContentStays
  <2>2. log' = log \/ Create
    BY <1>3 DEF Rewrite, Restart, NewDay, vars
  <2> QED  BY <1>2, <2>1, <2>2
<1>4. CASE DatedPath
  <2>1. log' = log /\ (Content(d)' = Content(d) \/ Content(d)' = <<>>)
    BY <1>4, DatedContent DEF DatedPath
  <2>2. InOrder(<<>>, Len(log))
    BY EmptyFile DEF InOrder
  <2> QED  BY <1>2, <2>1, <2>2
<1>5. CASE AppendLine
  <2>1. /\ Len(log) \in Nat \ {0} /\ log' = log
        /\ Content(d)' = IF d = emit.file THEN Content(emit.file) \o Bytes(Len(log)) ELSE Content(d)
    BY <1>5, AppendContent DEF Becomes, AppendLine
  <2>2. InOrder(Content(d) \o Bytes(Len(log)), Len(log))
    BY <1>1, <2>1, OrderGrows, LineIsPrefix
  <2> QED  BY <1>1, <2>1, <2>2
<1>6. CASE Trim
  <2>1. /\ log' = log /\ Len(Content(emit.file)) > MaxBytes /\ emit.file \in Day
        /\ Content(d)' = IF d = emit.file THEN Retained(Content(emit.file)) ELSE Content(d)
    BY <1>6, TrimContent DEF Becomes, Trim
  <2>2. ASSUME d = emit.file PROVE InOrder(Retained(Content(d)), Len(log))
    <3>1. Len(Content(d)) > TrimmedBytes /\ Len(Content(d)) \in Nat
      BY <1>1, <2>1, <2>2, Bounds, FileIsFunction
    <3> DEFINE f == Content(d)  g == Retained(Content(d))
    <3>2. g \in File /\ \E c \in Nat : /\ c + Len(g) = Len(f)
                                      /\ \A i \in 1..Len(g) : g[i] = f[c + i]
      BY <1>1, <3>1, RetainedIsPart
    <3>3. f \in File /\ InOrder(f, Len(log)) /\ Len(f) \in Nat
      BY <1>1, <3>1
    <3> HIDE DEF f, g
    <3>4. InOrder(g, Len(log))
      BY <1>1, <3>2, <3>3, OrderOfPart
    <3> QED  BY <3>4 DEF g
  <2> QED  BY <1>1, <2>1, <2>2
<1>7. CASE Fail
  <2>1. log' = log
    BY <1>7 DEF Fail
  <2>2. CASE ContentStays
    BY <1>2, <2>1, <2>2 DEF ContentStays
  <2>3. ASSUME Len(log) \in Nat \ {0}, NEW g \in Prefixes(Bytes(Len(log))),
               Becomes(emit.file, Content(emit.file) \o g)
        PROVE  InOrder(Content(d)', Len(log'))
    <3>1. InOrder(Content(d) \o g, Len(log))
      BY <1>1, <2>3, OrderGrows
    <3>2. Content(d)' = IF d = emit.file THEN Content(emit.file) \o g ELSE Content(d)
      BY <2>3 DEF Becomes
    <3> QED  BY <1>1, <2>1, <3>1, <3>2
  <2>4. ASSUME emit.file \in Day, NEW g \in Prefixes(Content(emit.file)), Becomes(emit.file, g)
        PROVE  InOrder(Content(d)', Len(log'))
    <3>1. Content(d)' = IF d = emit.file THEN g ELSE Content(d)
      BY <2>4 DEF Becomes
    <3>2. ASSUME d = emit.file PROVE InOrder(g, Len(log))
      <4> DEFINE f == Content(d)
      <4>1. f \in File /\ InOrder(f, Len(log)) /\ g \in Prefixes(f)
        BY <1>1, <2>4, <3>2
      <4> HIDE DEF f
      <4>2. g \in File /\ Len(g) <= Len(f) /\ \A i \in 1..Len(g) : g[i] = f[i]
        BY <4>1, PrefixOfFile
      <4>3. Len(f) \in Nat /\ Len(g) \in Nat
        BY <4>1, <4>2, FileIsFunction
      <4>4. 0 \in Nat /\ 0 + Len(g) <= Len(f) /\ \A i \in 1..Len(g) : g[i] = f[0 + i]
        BY <4>2, <4>3
      <4> QED  BY <1>1, <4>1, <4>2, <4>4, OrderOfPart
    <3> QED  BY <1>1, <2>1, <3>1, <3>2
  <2> QED  BY <1>7, <2>2, <2>3, <2>4, FailContent
<1> QED  BY <1>3, <1>4, <1>5, <1>6, <1>7 DEF Next, Emit

-----------------------------------------------------------------------------
(* What a failed write hides. *)

LEMMA HiddenGrows ==
    ASSUME NEW f \in File, NEW n \in Nat, NEW g \in Prefixes(Bytes(n))
    PROVE  /\ HiddenIn(f \o g) \subseteq
                HiddenIn(f) \cup (IF CutOff(f) /\ Len(g) = 3 THEN {n} ELSE {})
           /\ CutOff(f \o g) => (Len(g) = 0 /\ CutOff(f)) \/ Len(g) \in 1..2
<1> DEFINE h == f \o g
<1>1. /\ g \in File /\ Len(g) \in 0..3
      /\ \A p \in 1..Len(g) : g[p].line = n /\ g[p].pos = p
  BY PrefixOfLine
<1>2. /\ h \in File /\ Len(h) = Len(f) + Len(g) /\ Len(f) \in Nat
      /\ \A i \in 1..Len(f) : h[i] = f[i]
      /\ \A i \in 1..Len(g) : h[Len(f) + i] = g[i]
  BY <1>1, AppendedLine, FileIsFunction
<1> HIDE DEF h
<1>3. ASSUME NEW i \in 2..Len(h), WholeAt(h, i), h[i - 1].pos # 3
      PROVE  h[i].line \in HiddenIn(f) \cup (IF CutOff(f) /\ Len(g) = 3 THEN {n} ELSE {})
  <2>1. i \in 1..(Len(h) - 2) /\ h[i + 2].pos = 3 /\ i >= 2
    BY <1>3 DEF WholeAt
  <2>2. CASE i + 2 <= Len(f)
    <3>1. i - 1 \in 1..Len(f) /\ i \in 1..Len(f) /\ i + 1 \in 1..Len(f) /\ i + 2 \in 1..Len(f)
      BY <1>2, <2>1, <2>2
    <3>a. h[i - 1] = f[i - 1] /\ h[i] = f[i] /\ h[i + 1] = f[i + 1] /\ h[i + 2] = f[i + 2]
      BY <1>2, <3>1
    <3>b. i \in 1..(Len(f) - 2) /\ i \in 2..Len(f)
      BY <1>2, <2>1, <2>2
    <3>2. WholeAt(f, i) /\ f[i - 1].pos # 3 /\ h[i].line = f[i].line /\ i \in 2..Len(f)
      BY <1>3, <3>a, <3>b DEF WholeAt
    <3> QED  BY <3>2 DEF HiddenIn
  <2>3. CASE i + 2 > Len(f)
    <3>1. PICK q \in 1..Len(g) : i + 2 = Len(f) + q
      <4>1. i + 2 - Len(f) \in 1..Len(g) /\ i + 2 = Len(f) + (i + 2 - Len(f))
        BY <1>1, <1>2, <2>1, <2>3
      <4> QED  BY <4>1
    <3>2. q = 3
      BY <1>1, <1>2, <2>1, <3>1
    <3>3. Len(g) = 3 /\ i = Len(f) + 1 /\ 1 \in 1..Len(g) /\ i - 1 = Len(f) /\ Len(f) \in 1..Len(f)
      BY <1>1, <1>2, <2>1, <3>1, <3>2
    <3>4. h[i].line = n /\ f[Len(f)].pos # 3
      BY <1>1, <1>2, <1>3, <3>3
    <3>5. CutOff(f)
      BY <3>3, <3>4, EmptyFile DEF CutOff
    <3> QED  BY <3>3, <3>4, <3>5
  <2> QED  BY <1>2, <2>1, <2>2, <2>3
<1>4. CutOff(h) => (Len(g) = 0 /\ CutOff(f)) \/ Len(g) \in 1..2
  <2>1. CASE Len(g) = 0
    <3>1. Len(h) = Len(f) /\ (Len(f) # 0 => Len(f) \in 1..Len(f))
      BY <1>2, <2>1
    <3> QED  BY <1>2, <2>1, <3>1, FileIsFunction DEF CutOff
  <2>2. CASE Len(g) = 3
    <3>1. 3 \in 1..Len(g) /\ Len(h) = Len(f) + 3
      BY <1>2, <2>2
    <3> QED  BY <1>1, <1>2, <3>1 DEF CutOff
  <2> QED  BY <1>1, <2>1, <2>2
<1> QED  BY <1>3, <1>4 DEF HiddenIn, h

LEMMA HiddenInPart ==
    ASSUME NEW f \in File, NEW g \in File, NEW c \in Nat, c + Len(g) <= Len(f),
           \A i \in 1..Len(g) : g[i] = f[c + i]
    PROVE  HiddenIn(g) \subseteq HiddenIn(f)
<1>1. Len(f) \in Nat /\ Len(g) \in Nat
  BY FileIsFunction
<1>2. ASSUME NEW i \in 2..Len(g), WholeAt(g, i), g[i - 1].pos # 3
      PROVE  g[i].line \in HiddenIn(f)
  <2>1. i \in 1..(Len(g) - 2)
    BY <1>2 DEF WholeAt
  <2>2. /\ i - 1 \in 1..Len(g) /\ i \in 1..Len(g) /\ i + 1 \in 1..Len(g) /\ i + 2 \in 1..Len(g)
        /\ c + (i - 1) = (c + i) - 1 /\ c + (i + 1) = (c + i) + 1 /\ c + (i + 2) = (c + i) + 2
        /\ c + i \in 1..(Len(f) - 2) /\ c + i \in 2..Len(f)
    BY <1>1, <1>2, <2>1
  <2>3. /\ g[i - 1] = f[(c + i) - 1] /\ g[i] = f[c + i]
        /\ g[i + 1] = f[(c + i) + 1] /\ g[i + 2] = f[(c + i) + 2]
    BY <2>2
  <2>4. WholeAt(f, c + i) /\ f[(c + i) - 1].pos # 3 /\ g[i].line = f[c + i].line
    BY <1>2, <2>2, <2>3 DEF WholeAt
  <2> QED  BY <2>2, <2>4 DEF HiddenIn
<1> QED  BY <1>2 DEF HiddenIn

LEMMA CutOffSuffix ==
    ASSUME NEW f \in File, NEW g \in File, NEW c \in Nat, c + Len(g) = Len(f),
           \A i \in 1..Len(g) : g[i] = f[c + i], CutOff(g)
    PROVE  CutOff(f)
<1>1. Len(g) \in 1..Len(g) /\ Len(f) # 0
  BY FileIsFunction DEF CutOff
<1> QED  BY <1>1, FileIsFunction DEF CutOff

LEMMA OneMore ==
    ASSUME NEW A, IsFiniteSet(A), NEW x
    PROVE  /\ IsFiniteSet(A \cup {x}) /\ Cardinality(A \cup {x}) \in Nat
           /\ Cardinality(A \cup {x}) <= Cardinality(A) + 1
<1>1. Cardinality(A) \in Nat
  BY FS_CardinalityType
<1>2. CASE x \in A
  <2>1. A \cup {x} = A
    BY <1>2
  <2> QED  BY <1>1, <2>1
<1>3. CASE x \notin A
  BY <1>1, <1>3, FS_AddElement
<1> QED  BY <1>2, <1>3

LEMMA CountCuts ==
    ASSUME NEW H, NEW C, NEW H2, NEW C2, NEW k \in Nat,
           IsFiniteSet(H), IsFiniteSet(C), Cardinality(H) + Cardinality(C) <= k
    PROVE  /\ H2 \subseteq H /\ C2 \subseteq C =>
                IsFiniteSet(H2) /\ Cardinality(H2) + Cardinality(C2) <= k
           /\ \A y : H2 \subseteq H /\ C2 \subseteq C \cup {y} =>
                IsFiniteSet(H2) /\ Cardinality(H2) + Cardinality(C2) <= k + 1
<1>1. Cardinality(H) \in Nat /\ Cardinality(C) \in Nat
  BY FS_CardinalityType
<1>2. ASSUME NEW A, NEW B, IsFiniteSet(B), A \subseteq B
      PROVE  IsFiniteSet(A) /\ Cardinality(A) \in Nat /\ Cardinality(A) <= Cardinality(B)
  BY <1>2, FS_Subset, FS_CardinalityType
<1>3. H2 \subseteq H /\ C2 \subseteq C =>
        IsFiniteSet(H2) /\ Cardinality(H2) + Cardinality(C2) <= k
  BY <1>1, <1>2
<1>4. ASSUME NEW y, H2 \subseteq H, C2 \subseteq C \cup {y}
      PROVE  IsFiniteSet(H2) /\ Cardinality(H2) + Cardinality(C2) <= k + 1
  <2>1. IsFiniteSet(H2) /\ Cardinality(H2) \in Nat /\ Cardinality(H2) <= Cardinality(H)
    BY <1>2, <1>4
  <2>2. Cardinality(C2) \in Nat /\ Cardinality(C2) <= Cardinality(C) + 1
    <3> DEFINE B == C \cup {y}
    <3>1. IsFiniteSet(B) /\ Cardinality(B) \in Nat /\ Cardinality(B) <= Cardinality(C) + 1
      BY OneMore
    <3>2. C2 \subseteq B
      BY <1>4
    <3> HIDE DEF B
    <3>3. Cardinality(C2) <= Cardinality(B) /\ Cardinality(C2) \in Nat
      BY <1>2, <3>1, <3>2
    <3> QED  BY <1>1, <3>1, <3>3
  <2> QED  BY <1>1, <2>1, <2>2
<1> QED  BY <1>3, <1>4

\* How the cut files and the hidden lines change when bytes of a line are
\* appended, and when a file loses some of its bytes.
LEMMA CutsOfAppend ==
    ASSUME Shape, NEW d \in Day, NEW n \in Nat, NEW g \in Prefixes(Bytes(n)),
           Becomes(d, Content(d) \o g)
    PROVE  \/ Hidden' \subseteq Hidden /\ CutFiles' \subseteq CutFiles
           \/ Hidden' \subseteq Hidden \cup {n} /\ CutFiles' \subseteq CutFiles \ {d} /\ d \in CutFiles
           \/ Len(g) # 3 /\ Hidden' \subseteq Hidden /\ CutFiles' \subseteq CutFiles \cup {d}
<1> DEFINE f == Content(d)  h == f \o g
<1>1. f \in File /\ Len(g) \in 0..3
  BY ContentIsFile, PrefixOfLine
<1>2. \A e \in Day : Content(e)' = IF e = d THEN h ELSE Content(e)
  BY DEF Becomes
<1>3. /\ HiddenIn(h) \subseteq HiddenIn(f) \cup (IF CutOff(f) /\ Len(g) = 3 THEN {n} ELSE {})
      /\ CutOff(h) => (Len(g) = 0 /\ CutOff(f)) \/ Len(g) \in 1..2
  BY <1>1, HiddenGrows
<1>4. HiddenIn(f) \subseteq Hidden /\ (CutOff(f) <=> d \in CutFiles)
  BY DEF Hidden, CutFiles
<1> HIDE DEF h, f
<1>5. Hidden' \subseteq Hidden \cup HiddenIn(h)
  <2>1. \A e \in Day : HiddenIn(Content(e)') = IF e = d THEN HiddenIn(h) ELSE HiddenIn(Content(e))
    BY <1>2
  <2>2. Hidden' = UNION {HiddenIn(Content(e)') : e \in Day}
    BY DEF Hidden, HiddenIn, WholeAt
  <2> QED  BY <2>1, <2>2 DEF Hidden
<1>6. /\ CutFiles' \subseteq CutFiles \cup {d}
      /\ ~CutOff(h) => CutFiles' \subseteq CutFiles \ {d}
  <2>1. \A e \in Day : CutOff(Content(e)') <=> IF e = d THEN CutOff(h) ELSE CutOff(Content(e))
    BY <1>2
  <2>2. CutFiles' = {e \in Day : CutOff(Content(e)')}
    BY DEF CutFiles, CutOff
  <2> QED  BY <2>1, <2>2 DEF CutFiles
<1>7. CASE CutOff(f) /\ Len(g) = 3
  BY <1>3, <1>4, <1>5, <1>6, <1>7
<1>8. CASE ~(CutOff(f) /\ Len(g) = 3)
  <2>1. Hidden' \subseteq Hidden
    BY <1>3, <1>4, <1>5, <1>8
  <2>2. Len(g) = 3 => ~CutOff(h)
    BY <1>3
  <2> QED  BY <1>6, <2>1, <2>2
<1> QED  BY <1>7, <1>8

LEMMA CutsOfPart ==
    ASSUME Shape,
           \A e \in Day : HiddenIn(Content(e)') \subseteq HiddenIn(Content(e))
    PROVE  /\ Hidden' \subseteq Hidden
           /\ \A d : (\A e \in Day : CutOff(Content(e)') => e = d \/ CutOff(Content(e)))
                        => CutFiles' \subseteq CutFiles \cup {d}
           /\ (\A e \in Day : CutOff(Content(e)') => CutOff(Content(e)))
                        => CutFiles' \subseteq CutFiles
<1>1. Hidden' = UNION {HiddenIn(Content(e)') : e \in Day}
  BY DEF Hidden, HiddenIn, WholeAt
<1>2. CutFiles' = {e \in Day : CutOff(Content(e)')}
  BY DEF CutFiles, CutOff
<1> QED  BY <1>1, <1>2 DEF Hidden, CutFiles

LEMMA StepCuts == Shape /\ Limited /\ OneCutEach /\ [Next]_vars => OneCutEach'
<1> SUFFICES ASSUME Shape, Limited, OneCutEach, [Next]_vars PROVE OneCutEach'
  OBVIOUS
<1>1. /\ failures \in Nat /\ failures' \in Nat /\ failures <= failures'
      /\ Fail => failures' = failures + 1
  <2>1. failures \in Nat
    BY Bounds DEF Shape
  <2>2. CASE Fail
    BY <2>1, <2>2 DEF Fail
  <2>3. CASE ~Fail
    BY <2>1, <2>3 DEF Next, Emit, Create, DatedPath, AppendLine, Trim, Rewrite, Restart, NewDay, vars
  <2> QED  BY <2>2, <2>3
<1>2. IsFiniteSet(Hidden) /\ IsFiniteSet(CutFiles) /\ Cardinality(Hidden) + Cardinality(CutFiles) <= failures
  <2>1. IsFiniteSet(Day)
    BY Bounds, FS_Interval DEF Day
  <2> QED  BY <2>1, FS_Subset DEF OneCutEach, CutFiles
<1>3. ASSUME Hidden' \subseteq Hidden, CutFiles' \subseteq CutFiles PROVE OneCutEach'
  <2>1. IsFiniteSet(Hidden') /\ Cardinality(Hidden') + Cardinality(CutFiles') <= failures
    BY <1>1, <1>2, <1>3, CountCuts
  <2>2. Cardinality(Hidden') \in Nat /\ Cardinality(CutFiles') \in Nat
    BY <1>2, <1>3, <2>1, FS_Subset, FS_CardinalityType
  <2> QED  BY <1>1, <2>1, <2>2 DEF OneCutEach
<1>4. ASSUME NEW n, NEW d \in CutFiles, Hidden' \subseteq Hidden \cup {n}, CutFiles' \subseteq CutFiles \ {d}
      PROVE  OneCutEach'
  <2>1. IsFiniteSet(Hidden') /\ Cardinality(Hidden') + Cardinality(CutFiles') <= failures
    <3> DEFINE H == Hidden \cup {n}  C == CutFiles \ {d}
    <3>1. IsFiniteSet(H) /\ Cardinality(H) \in Nat /\ Cardinality(H) <= Cardinality(Hidden) + 1
      BY <1>2, OneMore
    <3>2. IsFiniteSet(C) /\ Cardinality(C) = Cardinality(CutFiles) - 1
      BY <1>2, <1>4, FS_RemoveElement
    <3>3. Hidden' \subseteq H /\ CutFiles' \subseteq C
      BY <1>4
    <3> HIDE DEF H, C
    <3>4. /\ IsFiniteSet(Hidden') /\ Cardinality(Hidden') <= Cardinality(H)
          /\ Cardinality(CutFiles') <= Cardinality(C)
          /\ Cardinality(Hidden') \in Nat /\ Cardinality(CutFiles') \in Nat
          /\ Cardinality(Hidden) \in Nat /\ Cardinality(CutFiles) \in Nat
      BY <1>2, <3>1, <3>2, <3>3, FS_Subset, FS_CardinalityType
    <3> QED  BY <1>1, <1>2, <3>1, <3>2, <3>4
  <2>2. Cardinality(Hidden') \in Nat /\ Cardinality(CutFiles') \in Nat
    <3>1. CutFiles' \subseteq CutFiles
      BY <1>4
    <3> QED  BY <1>2, <2>1, <3>1, FS_Subset, FS_CardinalityType
  <2> QED  BY <1>1, <2>1, <2>2 DEF OneCutEach
<1>5. ASSUME Fail, NEW d, Hidden' \subseteq Hidden, CutFiles' \subseteq CutFiles \cup {d}
      PROVE  OneCutEach'
  <2>1. IsFiniteSet(Hidden') /\ Cardinality(Hidden') + Cardinality(CutFiles') <= failures + 1
    BY <1>1, <1>2, <1>5, CountCuts
  <2> QED  BY <1>1, <1>5, <2>1 DEF OneCutEach
<1>6. ASSUME \A d \in Day : Content(d)' = Content(d) \/ Content(d)' = <<>>
      PROVE  OneCutEach'
  <2>1. \A d \in Day : /\ HiddenIn(Content(d)') \subseteq HiddenIn(Content(d))
                       /\ CutOff(Content(d)') => CutOff(Content(d))
    <3>1. HiddenIn(<<>>) = {} /\ ~CutOff(<<>>)
      BY EmptyFile DEF HiddenIn, CutOff
    <3> QED  BY <1>6, <3>1
  <2> QED  BY <1>3, <2>1, CutsOfPart
<1>7. CASE Create \/ Rewrite \/ Restart \/ NewDay \/ UNCHANGED vars
  BY <1>6, <1>7, SameContent DEF ContentStays
<1>8. CASE DatedPath
  BY <1>6, <1>8, DatedContent
<1>9. CASE AppendLine
  <2>1. PICK d \in Day : d = emit.file /\ Len(log) \in Nat /\ Becomes(d, Content(d) \o Bytes(Len(log)))
    BY <1>9, AppendContent DEF Becomes
  <2>2. Bytes(Len(log)) \in Prefixes(Bytes(Len(log))) /\ Len(Bytes(Len(log))) = 3
    BY <2>1, LineIsPrefix, LineOfBytes
  <2> QED  BY <1>3, <1>4, <2>1, <2>2, CutsOfAppend
<1>10. CASE Trim
  <2>1. PICK d \in Day : Len(Content(d)) > MaxBytes /\ Becomes(d, Retained(Content(d)))
    BY <1>10, TrimContent DEF Becomes
  <2> DEFINE f == Content(d)  g == Retained(f)
  <2>2. f \in File /\ Len(f) > TrimmedBytes
    BY <2>1, ContentIsFile, FileIsFunction, Bounds
  <2>3. g \in File /\ \E c \in Nat : /\ c + Len(g) = Len(f)
                                    /\ \A i \in 1..Len(g) : g[i] = f[c + i]
    BY <2>2, RetainedIsPart
  <2>4. \A e \in Day : Content(e)' = IF e = d THEN g ELSE Content(e)
    BY <2>1 DEF Becomes
  <2>5. HiddenIn(g) \subseteq HiddenIn(f) /\ (CutOff(g) => CutOff(f))
    <3>1. PICK c \in Nat : c + Len(g) = Len(f) /\ \A i \in 1..Len(g) : g[i] = f[c + i]
      BY <2>3
    <3>2. c + Len(g) <= Len(f)
      BY <2>2, <3>1, FileIsFunction
    <3> HIDE DEF f, g
    <3> QED  BY <2>2, <2>3, <3>1, <3>2, HiddenInPart, CutOffSuffix
  <2>6. \A e \in Day : /\ HiddenIn(Content(e)') \subseteq HiddenIn(Content(e))
                       /\ CutOff(Content(e)') => CutOff(Content(e))
    BY <2>4, <2>5
  <2> QED  BY <1>3, <2>6, CutsOfPart
<1>11. CASE Fail
  <2>1. CASE ContentStays
    BY <1>6, <2>1 DEF ContentStays
  <2>2. ASSUME emit.file \in Day, Len(log) \in Nat \ {0}, NEW g \in Prefixes(Bytes(Len(log))),
               Becomes(emit.file, Content(emit.file) \o g)
        PROVE  OneCutEach'
    <3>1. PICK d \in Day : d = emit.file /\ Becomes(d, Content(d) \o g)
      BY <2>2 DEF Becomes
    <3> QED  BY <1>3, <1>4, <1>5, <1>11, <2>2, <3>1, CutsOfAppend
  <2>3. ASSUME emit.file \in Day, NEW g \in Prefixes(Content(emit.file)), Becomes(emit.file, g)
        PROVE  OneCutEach'
    <3>1. PICK d \in Day : d = emit.file /\ Becomes(d, g)
      BY <2>3 DEF Becomes
    <3> DEFINE f == Content(d)
    <3>2. f \in File /\ g \in Prefixes(f)
      BY <2>3, <3>1, ContentIsFile
    <3>3. \A e \in Day : Content(e)' = IF e = d THEN g ELSE Content(e)
      BY <3>1 DEF Becomes
    <3>4. HiddenIn(g) \subseteq HiddenIn(f)
      <4> HIDE DEF f
      <4>1. g \in File /\ Len(g) <= Len(f) /\ \A i \in 1..Len(g) : g[i] = f[i]
        BY <3>2, PrefixOfFile
      <4>2. 0 \in Nat /\ 0 + Len(g) <= Len(f) /\ \A i \in 1..Len(g) : g[i] = f[0 + i]
        BY <3>2, <4>1, FileIsFunction
      <4> QED  BY <3>2, <4>1, <4>2, HiddenInPart
    <3>5. \A e \in Day : HiddenIn(Content(e)') \subseteq HiddenIn(Content(e))
      BY <3>3, <3>4
    <3>6. \A e \in Day : CutOff(Content(e)') => e = d \/ CutOff(Content(e))
      BY <3>3
    <3> QED  BY <1>5, <1>11, <3>5, <3>6, CutsOfPart
  <2> QED  BY <1>11, <2>1, <2>2, <2>3, FailContent
<1> QED  BY <1>7, <1>8, <1>9, <1>10, <1>11 DEF Next, Emit

LEMMA LogAlways == Spec => []LogInv
<1>1. LogInv /\ [Next]_vars => LogInv'
  BY StepShape, StepRemoved, StepLimited, StepNewest, StepInOrder, StepCuts DEF LogInv
<1> QED  BY InitLog, <1>1, PTL DEF Spec

-----------------------------------------------------------------------------
(* The theorems. *)

\* No file and no date is ahead of the calendar, and nothing of a record is
\* left over when its writing has ended.
THEOREM TypeCorrect == Spec => []TypeOK
<1>1. LogInv => TypeOK
  BY DEF LogInv, Shape, LogOK, EmitOK, FilesOK, TypeOK
<1> QED  BY <1>1, LogAlways, PTL

\* When a record has been written, no file is left that was too old on its day,
\* and none of the younger ones is lost.
THEOREM OldFilesAreRemoved == Spec => []RemovedInTime
<1>1. LogInv => RemovedInTime
  <2> SUFFICES ASSUME LogInv, emit.at = "idle", done # 0, NEW d \in Day
               PROVE  /\ d <= done - KeepDays => files[d] = <<>> \/ d \in left
                      /\ d > today - KeepDays /\ d \notin broken /\ written[d] # <<>> => files[d] # <<>>
    BY DEF RemovedInTime
  <2>1. d <= done - KeepDays => files[d] = <<>> \/ d \in left
    BY DEF LogInv, Removed, OldGone
  <2>2. ASSUME d > today - KeepDays, d \notin broken, written[d] # <<>> PROVE files[d] # <<>>
    <3>1. Content(d) = files[d] /\ d \in Nat /\ today \in Nat
      BY Bounds DEF Content, LogInv, Shape
    <3>2. Content(d) = <<>> => d <= today - KeepDays
      BY <2>2 DEF LogInv, NewestKept
    <3>3. ~(d <= today - KeepDays)
      BY <2>2, <3>1, Bounds
    <3> QED  BY <3>1, <3>2, <3>3
  <2> QED  BY <2>1, <2>2
<1> QED  BY <1>1, LogAlways, PTL

LEMMA BytesOfLines ==
    ASSUME Shape, NEW d \in Day
    PROVE  Lines(d) \in File /\ RestOf(Lines(d), written[d], 0)
<1> DEFINE w == written[d]  n == Len(w)
<1>1. w \in Seq(Nat) /\ n \in Nat
  BY LenProperties DEF Shape, FilesOK
<1> DEFINE B(i) == Byte(w[(i + 2) \div 3], 1 + ((i - 1) % 3))
<1>2. Lines(d) = [i \in 1..(3 * n) |-> B(i)]
  <2>1. \A i \in 1..(3 * n) : i + 3 - 1 = i + 2
    OBVIOUS
  <2> QED  BY <2>1 DEF Lines, LineBytes
<1>3. ASSUME NEW k \in 1..n, NEW p \in 1..3
      PROVE  3 * (k - 1) + p \in 1..(3 * n) /\ B(3 * (k - 1) + p) = Byte(w[k], p)
  <2>1. (3 * (k - 1) + p + 2) \div 3 = k /\ (3 * (k - 1) + p - 1) % 3 = p - 1
    BY <1>1
  <2>2. 3 * (k - 1) + p \in 1..(3 * n)
    BY <1>1
  <2>3. 1 + (p - 1) = p
    OBVIOUS
  <2> QED  BY <2>1, <2>2, <2>3
<1>4. \A i \in 1..(3 * n) : B(i) \in LogByte
  <2> TAKE i \in 1..(3 * n)
  <2>1. PICK k \in 1..n, p \in 1..3 : i = 3 * (k - 1) + p
    BY <1>1, Thirds
  <2>2. B(i) = Byte(w[k], p) /\ w[k] \in Nat
    BY <1>1, <1>3, <2>1, ElementOfSeq
  <2> QED  BY <2>2, ByteFields
<1> HIDE DEF B
<1>5. Lines(d) \in Seq(LogByte) /\ Len(Lines(d)) = 3 * n
  BY <1>1, <1>2, <1>4
<1>6. \A i \in 1..(3 * n) : Lines(d)[i] = B(i)
  BY <1>2
<1>7. \A k \in 1..n : 0 + k = k
  BY <1>1
<1>8. /\ 0 \in 0..Len(w) /\ Len(Lines(d)) = 3 * (Len(w) - 0)
      /\ \A k \in 1..(Len(w) - 0), p \in 1..3 : Lines(d)[3 * (k - 1) + p] = Byte(w[0 + k], p)
  <2>1. Len(w) - 0 = n /\ 0 \in 0..Len(w)
    BY <1>1
  <2>2. ASSUME NEW k \in 1..n, NEW p \in 1..3
        PROVE  Lines(d)[3 * (k - 1) + p] = Byte(w[0 + k], p)
    BY <1>3, <1>6, <1>7
  <2> QED  BY <1>5, <2>1, <2>2
<1> QED  BY <1>5, <1>8 DEF File, RestOf

\* A file that no write failed in holds the end of what was written to it.
LEMMA RestIsSuffix ==
    ASSUME NEW f \in File, NEW w \in Seq(Nat), NEW m \in Nat, RestOf(f, w, m), f # <<>>,
           NEW g \in File, RestOf(g, w, 0)
    PROVE  f \in Suffixes(g) /\ f[1].pos = 1 /\ (m = 0 => f = g)
<1>1. /\ m \in 0..Len(w) /\ Len(f) = 3 * (Len(w) - m) /\ Len(f) # 0 /\ Len(w) \in Nat
      /\ \A k \in 1..(Len(w) - m), p \in 1..3 : f[3 * (k - 1) + p] = Byte(w[m + k], p)
  BY FileIsFunction, LenProperties DEF RestOf
<1>0. /\ Len(g) = 3 * Len(w)
      /\ \A k \in 1..Len(w), p \in 1..3 : g[3 * (k - 1) + p] = Byte(w[k], p)
  <2>1. \A k \in 1..Len(w) : 0 + k = k
    OBVIOUS
  <2> QED  BY <1>1, <2>1 DEF RestOf
<1> DEFINE c == 3 * m  r == Len(w) - m
<1>2. c \in 0..Len(g) /\ Len(g) - c = Len(f) /\ r \in Nat /\ r # 0 /\ Len(f) = 3 * r
  BY <1>0, <1>1
<1>3. \A i \in 1..Len(f) : f[i] = g[c + i]
  <2> TAKE i \in 1..Len(f)
  <2>1. i \in 1..(3 * r) /\ r \in Nat
    BY <1>2
  <2>2. PICK k \in 1..r, p \in 1..3 : i = 3 * (k - 1) + p
    BY ONLY <2>1, Thirds, Zenon
  <2>3. m + k \in 1..Len(w) /\ c + i = 3 * ((m + k) - 1) + p
    BY <1>1, <2>2
  <2>4. f[i] = Byte(w[m + k], p)
    BY <1>1, <2>2
  <2>5. g[3 * ((m + k) - 1) + p] = Byte(w[m + k], p)
    BY <1>0, <2>3
  <2> QED  BY <2>3, <2>4, <2>5
<1> HIDE DEF c
<1>4. f = SubSeq(g, c + 1, Len(g))
  <2>1. /\ SubSeq(g, c + 1, Len(g)) \in File /\ Len(SubSeq(g, c + 1, Len(g))) = Len(f)
        /\ \A i \in 1..Len(f) : SubSeq(g, c + 1, Len(g))[i] = g[c + i]
    BY <1>2, SuffixOfFile
  <2> QED  BY <1>3, <2>1, SeqEqual DEF File
<1>5. c + 1 \in 1..Len(g)
  BY <1>0, <1>1, <1>2
<1>6. f[1].pos = 1
  <2>1. 1 \in 1..r /\ 1 \in 1..3 /\ 3 * (1 - 1) + 1 = 1
    BY <1>2
  <2>2. f[1] = Byte(w[m + 1], 1)
    BY <1>1, <2>1
  <2> QED  BY <2>2, ByteFields
<1>7. m = 0 => f = g
  <2> SUFFICES ASSUME m = 0 PROVE f = g
    OBVIOUS
  <2>1. c = 0 /\ Len(f) = Len(g) /\ \A i \in 1..Len(f) : c + i = i
    BY <1>1, <1>2 DEF c
  <2> QED  BY <1>3, <2>1, SeqEqual DEF File
<1> QED  BY <1>4, <1>5, <1>6, <1>7 DEF Suffixes

\* When a record has been written, its file is within its limit, and a file that
\* no write failed in holds the newest lines, whole ones, and not too few.
THEOREM NewestLinesAreKept == Spec => []KeepsNewestLines
<1>1. LogInv => KeepsNewestLines
  <2> SUFFICES ASSUME LogInv, emit.at = "idle", NEW d \in Day \ broken, files[d] # <<>>
               PROVE  /\ files[d] \in Suffixes(Lines(d)) /\ files[d][1].pos = 1
                      /\ files[d] = Lines(d) \/ Len(files[d]) >= TrimmedBytes - LineBytes
    BY DEF KeepsNewestLines, LogInv, Limited
  <2>1. Kept(files[d], written[d])
    BY DEF LogInv, NewestKept, Content
  <2>2. PICK m \in Nat : /\ RestOf(files[d], written[d], m)
                         /\ m = 0 \/ Len(files[d]) >= TrimmedBytes - 3
    BY <2>1 DEF Kept
  <2>3. files[d] \in File /\ written[d] \in Seq(Nat) /\ Shape
    BY DEF LogInv, Shape, FilesOK
  <2>4. files[d] \in Suffixes(Lines(d)) /\ files[d][1].pos = 1 /\ (m = 0 => files[d] = Lines(d))
    <3> DEFINE f == files[d]  w == written[d]  g == Lines(d)
    <3>1. f \in File /\ f # <<>> /\ w \in Seq(Nat) /\ RestOf(f, w, m)
      BY <2>2, <2>3
    <3>2. g \in File /\ RestOf(g, w, 0)
      BY <2>3, BytesOfLines
    <3> HIDE DEF f, w, g
    <3>3. f \in Suffixes(g) /\ f[1].pos = 1 /\ (m = 0 => f = g)
      BY <3>1, <3>2, RestIsSuffix, Zenon
    <3> QED  BY <3>3 DEF f, g
  <2> QED  BY <2>2, <2>4 DEF LineBytes
<1> QED  BY <1>1, LogAlways, PTL

-----------------------------------------------------------------------------
(* The operations page. *)

LEMMA LineStartIsBefore ==
    ASSUME NEW f \in File, NEW i \in 1..Len(f)
    PROVE  LineStart(f, i) \in 1..i
<1> DEFINE S == {j \in 1..(i - 1) : \E k \in j..(i - 1) : IsNewline(f[k])}
<1>1. i \in Nat /\ i >= 1
  BY FileIsFunction
<1>2. IsFiniteSet(1..(i - 1)) /\ Cardinality(1..(i - 1)) = i - 1
  BY <1>1, FS_Interval
<1>3. Cardinality(S) <= i - 1 /\ Cardinality(S) \in Nat
  <2>1. S \subseteq 1..(i - 1)
    OBVIOUS
  <2> HIDE DEF S
  <2>2. IsFiniteSet(S) /\ Cardinality(S) <= Cardinality(1..(i - 1))
    BY <1>2, <2>1, FS_Subset
  <2> QED  BY <1>2, <2>2, FS_CardinalityType
<1>4. LineStart(f, i) = 1 + Cardinality(S)
  BY DEF LineStart
<1> HIDE DEF S
<1> QED  BY <1>1, <1>3, <1>4

\* A line that begins at the start of the file or after a newline is read as
\* what it is.
LEMMA ReadAsItself ==
    ASSUME NEW f \in File, NEW i \in 1..Len(f), WholeAt(f, i), i = 1 \/ f[i - 1].pos = 3
    PROVE  /\ i + 2 \in LineEnds(f)
           /\ ParsedRecord(f, i + 2) = f[i].line /\ ParsedDay(f, i + 2) = log[f[i].line].day
<1>1. /\ i \in 1..(Len(f) - 2) /\ Len(f) \in Nat
      /\ f[i].pos = 1 /\ f[i + 1].pos = 2 /\ f[i + 2].pos = 3
      /\ f[i + 1].line = f[i].line /\ f[i + 2].line = f[i].line
  BY FileIsFunction DEF WholeAt
<1>2. i + 2 \in LineEnds(f)
  <2>1. i + 2 \in 1..Len(f)
    BY <1>1
  <2> QED  BY <1>1, <2>1, FileIsFunction DEF LineEnds, IsNewline, LineBytes
<1>3. LineStart(f, i + 2) = i
  <2> DEFINE S == {j \in 1..(i + 2 - 1) : \E k \in j..(i + 2 - 1) : IsNewline(f[k])}
  <2>1. ASSUME NEW j PROVE j \in S <=> j \in 1..(i - 1)
    <3>1. ASSUME j \in 1..(i - 1) PROVE j \in S
      <4>1. j \in 1..(i + 2 - 1) /\ i - 1 \in j..(i + 2 - 1) /\ i # 1
        BY <1>1, <3>1
      <4> QED  BY <4>1 DEF IsNewline, LineBytes
    <3>2. ASSUME j \in S, j \notin 1..(i - 1) PROVE FALSE
      <4>1. PICK k \in j..(i + 2 - 1) : IsNewline(f[k])
        BY <3>2
      <4>2. k = i \/ k = i + 1
        BY <1>1, <3>2, <4>1
      <4> QED  BY <1>1, <4>1, <4>2 DEF IsNewline, LineBytes
    <3> QED  BY <3>1, <3>2
  <2>2. LineStart(f, i + 2) = 1 + Cardinality(S)
    BY DEF LineStart
  <2> HIDE DEF S
  <2>3. S = 1..(i - 1)
    BY <2>1
  <2>4. Cardinality(1..(i - 1)) = i - 1
    <3>1. i - 1 \in Nat /\ 1 \in Int
      BY <1>1
    <3>2. Cardinality(1..(i - 1)) = IF 1 > i - 1 THEN 0 ELSE (i - 1) - 1 + 1
      BY <3>1, FS_Interval
    <3> QED  BY <3>1, <3>2
  <2> QED  BY <1>1, <2>2, <2>3, <2>4
<1>4. ParsedDay(f, i + 2) = log[f[i].line].day
  BY <1>1, <1>3 DEF ParsedDay
<1>5. ParsedRecord(f, i + 2) = f[i].line
  <2> DEFINE T == {j \in LineStart(f, i + 2)..(i + 2) : f[j].pos = 2}
  <2>1. ASSUME NEW j PROVE j \in T <=> j = i + 1
    <3>1. j \in i..(i + 2) <=> j = i \/ j = i + 1 \/ j = i + 2
      BY <1>1
    <3>2. i + 1 \in i..(i + 2)
      BY <1>1
    <3> QED  BY <1>1, <1>3, <3>1, <3>2
  <2>2. ParsedRecord(f, i + 2) =
          IF T = {} THEN 0
          ELSE LET j == CHOOSE j \in T : \A k \in T : j <= k
               IN  IF j = i + 2 - 1 /\ f[i + 2].line = f[j].line THEN f[i + 2].line ELSE 0
    BY SMTT(40) DEF ParsedRecord
  <2> HIDE DEF T
  <2>3. (CHOOSE j \in T : \A k \in T : j <= k) = i + 1
    <3>1. i + 1 \in T /\ \A k \in T : i + 1 <= k
      BY <1>1, <2>1
    <3> QED  BY <2>1, <3>1
  <2>4. T # {} /\ i + 2 - 1 = i + 1
    <3>1. i + 1 \in T
      BY <2>1
    <3> QED  BY <1>1, <3>1
  <2> QED  BY <1>1, <2>2, <2>3, <2>4
<1> QED  BY <1>2, <1>4, <1>5

LEMMA RecordIsOfEnd ==
    ASSUME NEW f, NEW i
    PROVE  ParsedRecord(f, i) = 0 \/ ParsedRecord(f, i) = f[i].line
BY DEF ParsedRecord

\* Where the bytes of a line are.
LEMMA WholeLine ==
    ASSUME NEW f \in File, NEW l \in Nat, NEW i \in DOMAIN f, i + LineBytes <= Len(f) + 1,
           SubSeq(f, i, i + LineBytes - 1) = Bytes(l)
    PROVE  i \in 1..Len(f) /\ WholeAt(f, i) /\ f[i].line = l
<1>1. Len(f) \in Nat /\ i \in 1..Len(f) /\ i + 3 <= Len(f) + 1 /\ \A k \in 1..Len(f) : f[k] \in LogByte
  BY FileIsFunction DEF LineBytes
<1> DEFINE n == i + 2
<1>2. n \in Int /\ i <= n /\ n - i + 1 = 3 /\ \A k \in i..n : f[k] \in LogByte
  BY <1>1
<1>3. i + LineBytes - 1 = n
  BY <1>1 DEF LineBytes
<1> HIDE DEF n
<1> DEFINE m == i
<1>a. m \in Int /\ n \in Int /\ \A k \in m..n : f[k] \in LogByte
  BY <1>1, <1>2
<1> HIDE DEF m
<1>b. /\ SubSeq(f, m, n) \in Seq(LogByte)
      /\ Len(SubSeq(f, m, n)) = IF m <= n THEN n - m + 1 ELSE 0
      /\ \A k \in 1..n - m + 1 : SubSeq(f, m, n)[k] = f[m + k - 1]
  BY <1>a, SubSeqProperties
<1>4. \A k \in 1..(n - i + 1) : SubSeq(f, i, n)[k] = f[i + k - 1]
  BY <1>b DEF m
<1>5. \A k \in 1..3 : f[i + k - 1] = Byte(l, k)
  <2>1. SubSeq(f, i, n) = Bytes(l) /\ \A k \in 1..3 : Bytes(l)[k] = Byte(l, k)
    BY <1>3, LineOfBytes
  <2> QED  BY <1>2, <1>4, <2>1
<1>6. f[i] = Byte(l, 1) /\ f[i + 1] = Byte(l, 2) /\ f[i + 2] = Byte(l, 3)
  <2>1. 1 \in 1..3 /\ 2 \in 1..3 /\ 3 \in 1..3 /\ i + 1 - 1 = i /\ i + 2 - 1 = i + 1 /\ i + 3 - 1 = i + 2
    BY <1>1
  <2>2. f[i + 1 - 1] = Byte(l, 1) /\ f[i + 2 - 1] = Byte(l, 2) /\ f[i + 3 - 1] = Byte(l, 3)
    BY <1>5, <2>1
  <2> QED  BY <2>1, <2>2
<1>7. i \in 1..(Len(f) - 2)
  BY <1>1
<1> QED  BY <1>1, <1>6, <1>7, ByteFields DEF WholeAt

\* What the page finds in the files.
LEMMA FilesOfPage ==
    ASSUME LogInv
    PROVE  \A d \in Day : /\ files[d] \in File /\ InOrder(files[d], Len(log))
                          /\ files[d] # <<>> => files[d] = Content(d)
<1> TAKE d \in Day
<1>1. files[d] \in File
  BY DEF LogInv, Shape, FilesOK
<1>2. InOrder(<<>>, Len(log))
  BY EmptyFile DEF InOrder
<1>3. files[d] = <<>> \/ files[d] = Content(d)
  BY DEF Content, LogInv, Shape, FilesOK
<1>4. InOrder(Content(d), Len(log))
  BY DEF LogInv, FilesInOrder
<1> QED  BY <1>1, <1>2, <1>3, <1>4

LEMMA IncludedInSummary ==
    ASSUME LogInv, NEW d \in Day, NEW i \in 1..Len(files[d]), WholeAt(files[d], i),
           i = 1 \/ files[d][i - 1].pos = 3,
           NEW l, l = files[d][i].line, log[l].arrivals, log[l].day = today
    PROVE  l \in Summary
<1> DEFINE f == files[d]
<1>1. f \in File /\ InOrder(f, Len(log))
  BY FilesOfPage
<1>2. /\ i + 2 \in LineEnds(f)
      /\ ParsedRecord(f, i + 2) = l /\ ParsedDay(f, i + 2) = today
  BY <1>1, ReadAsItself
<1>3. l \in 1..Len(log)
  BY <1>1 DEF InOrder
<1>4. IsArrivals(l)
  BY <1>3 DEF IsArrivals
<1> QED  BY <1>2, <1>3, <1>4 DEF Summary

LEMMA SummaryIsToday ==
    ASSUME LogInv, NEW l \in Summary
    PROVE  l \in 1..Len(log) /\ log[l].arrivals /\ log[l].day = today
<1>1. /\ l \in 1..Len(log) /\ l # 0 /\ log[l].arrivals
      /\ \E d \in Day : \E i \in LineEnds(files[d]) :
            ParsedRecord(files[d], i) = l /\ ParsedDay(files[d], i) = today
  BY DEF Summary, IsArrivals
<1>2. PICK d \in Day : \E i \in LineEnds(files[d]) :
            ParsedRecord(files[d], i) = l /\ ParsedDay(files[d], i) = today
  BY <1>1
<1> DEFINE f == files[d]
<1>3. PICK i \in LineEnds(f) : ParsedRecord(f, i) = l /\ ParsedDay(f, i) = today
  BY <1>2
<1>4. f \in File /\ InOrder(f, Len(log)) /\ LogOK /\ today \in Day /\ today # 0 /\ today \in Nat
  BY FilesOfPage, Bounds DEF LogInv, Shape
<1> HIDE DEF f
<1>5. i \in 1..Len(f)
  BY <1>4, FileIsFunction DEF LineEnds
<1>6. f[i].line = l
  BY <1>1, <1>3, RecordIsOfEnd
<1> DEFINE j == LineStart(f, i)
<1>7. j \in 1..i
  BY <1>4, <1>5, LineStartIsBefore
<1>8. j \in 1..Len(f) /\ j <= i
  BY <1>4, <1>5, <1>7, FileIsFunction
<1>9. log[f[j].line].day = today
  BY <1>3, <1>4 DEF ParsedDay
<1> HIDE DEF j
<1>10. f[j].line <= l /\ f[j].line \in 1..Len(log)
  BY <1>4, <1>5, <1>6, <1>8 DEF InOrder
<1>11. log[f[j].line].day <= log[l].day /\ log[l].day <= today /\ log[l].day \in Int
  BY <1>1, <1>4, <1>10, DaysOfEntries DEF LogOK
<1> QED  BY <1>1, <1>4, <1>9, <1>11

\* A line that is missed stands where a failed write cut the one before it.
LEMMA MissedIsHidden ==
    ASSUME LogInv, NEW d \in Day, NEW l \in Whole(d), log[l].arrivals, log[l].day = today,
           l \notin Summary
    PROVE  l \in Hidden
<1> DEFINE f == files[d]
<1>1. f \in File /\ (f # <<>> => f = Content(d)) /\ l \in Nat
  BY FilesOfPage, LenProperties DEF Whole, LogInv, Shape, LogOK
<1>2. PICK i \in DOMAIN f : /\ i + LineBytes <= Len(f) + 1
                            /\ SubSeq(f, i, i + LineBytes - 1) = Bytes(l)
  BY DEF Whole
<1>3. i \in 1..Len(f) /\ WholeAt(f, i) /\ f[i].line = l
  <2>1. f \in File /\ l \in Nat
    BY <1>1
  <2> HIDE DEF f
  <2> QED  BY ONLY <1>2, <2>1, WholeLine, Zenon
<1>4. i # 1 /\ f[i - 1].pos # 3
  BY <1>3, IncludedInSummary
<1>5. i \in 2..Len(f) /\ f # <<>>
  BY <1>1, <1>3, <1>4, FileIsFunction
<1>6. l \in HiddenIn(f)
  BY <1>3, <1>4, <1>5 DEF HiddenIn
<1> QED  BY <1>1, <1>5, <1>6 DEF Hidden

\* Where no write failed, every newline ends a line that is read as what it is.
LEMMA RecentIsCounted ==
    ASSUME LogInv, broken = {}, NEW l \in Recent, log[l].day = today
    PROVE  l \in Summary
<1> DEFINE f == files[today]
<1>1. PICK i \in LineEnds(f) : IsArrivals(ParsedRecord(f, i)) /\ l = ParsedRecord(f, i)
  BY DEF Recent
<1>2. today \in Day /\ f \in File /\ (f # <<>> => f = Content(today)) /\ written[today] \in Seq(Nat)
  BY FilesOfPage DEF LogInv, Shape, FilesOK
<1>3. i \in 1..Len(f) /\ f[i].pos = 3
  BY <1>2, FileIsFunction DEF LineEnds, IsNewline, LineBytes
<1>4. l = f[i].line /\ log[l].arrivals
  BY <1>1, RecordIsOfEnd DEF IsArrivals
<1> DEFINE w == written[today]
<1>5. PICK m \in Nat : RestOf(f, w, m)
  <2>1. f # <<>>
    BY <1>2, <1>3, FileIsFunction
  <2> QED  BY <1>2, <2>1 DEF LogInv, NewestKept, Kept
<1>6. w \in Seq(Nat)
  BY <1>2
<1> HIDE DEF f, w
<1>7. PICK k \in 1..(Len(w) - m) : i = 3 * k
  BY <1>2, <1>3, <1>5, <1>6, RestNewlines, ZenonT(60)
<1>8. /\ m \in 0..Len(w) /\ Len(f) = 3 * (Len(w) - m) /\ Len(w) \in Nat
      /\ \A q \in 1..(Len(w) - m), p \in 1..3 : f[3 * (q - 1) + p] = Byte(w[m + q], p)
  BY <1>5, <1>6, LenProperties DEF RestOf
<1> DEFINE j == 3 * (k - 1) + 1
<1>9. /\ j \in 1..(Len(f) - 2) /\ j \in 1..Len(f) /\ i = j + 2
      /\ 3 * (k - 1) + 2 = j + 1 /\ 3 * (k - 1) + 3 = j + 2
  BY <1>7, <1>8
<1>10. /\ f[j] = Byte(w[m + k], 1) /\ f[j + 1] = Byte(w[m + k], 2)
       /\ f[j + 2] = Byte(w[m + k], 3)
  <2>1. /\ f[3 * (k - 1) + 1] = Byte(w[m + k], 1) /\ f[3 * (k - 1) + 2] = Byte(w[m + k], 2)
        /\ f[3 * (k - 1) + 3] = Byte(w[m + k], 3)
    BY <1>8
  <2> QED  BY <1>9, <2>1
<1>11. WholeAt(f, j) /\ f[j].line = l
  BY <1>4, <1>9, <1>10, ByteFields DEF WholeAt
<1>12. j = 1 \/ f[j - 1].pos = 3
  <2>1. CASE k = 1
    BY <2>1
  <2>2. CASE k # 1
    <3>1. k - 1 \in 1..(Len(w) - m) /\ 3 * ((k - 1) - 1) + 3 = j - 1 /\ 3 \in 1..3
      BY <1>8, <2>2
    <3>2. f[j - 1] = Byte(w[m + (k - 1)], 3)
      BY <1>8, <3>1
    <3> QED  BY <3>2, ByteFields
  <2> QED  BY <2>1, <2>2
<1> HIDE DEF j
<1> QED  BY <1>2, <1>4, <1>9, <1>11, <1>12, IncludedInSummary DEF f

\* The summary counts arrivals calls of today only, it misses no more lines than
\* there were failures, and counts what the page shows.
THEOREM SummaryIsAlwaysOfToday == Spec => []SummaryIsOfToday
<1>1. LogInv => SummaryIsOfToday
  <2> SUFFICES ASSUME LogInv PROVE SummaryIsOfToday
    OBVIOUS
  <2> DEFINE ofToday == {l \in 1..Len(log) : log[l].arrivals /\ log[l].day = today}
             missed == (ofToday \cap UNION {Whole(d) : d \in Day}) \ Summary
  <2>1. Summary \subseteq ofToday
    BY SummaryIsToday
  <2>2. Cardinality(missed) <= failures
    <3>1. missed \subseteq Hidden
      BY MissedIsHidden
    <3>2. IsFiniteSet(Hidden) /\ Cardinality(Hidden) + Cardinality(CutFiles) <= failures
          /\ failures \in Nat
      BY Bounds DEF LogInv, OneCutEach, Shape
    <3>3. Cardinality(CutFiles) \in Nat
      <4>1. IsFiniteSet(Day)
        BY Bounds, FS_Interval DEF Day
      <4> QED  BY <4>1, FS_Subset, FS_CardinalityType DEF CutFiles
    <3> HIDE DEF missed
    <3>4. Cardinality(missed) <= Cardinality(Hidden) /\ Cardinality(missed) \in Nat
          /\ Cardinality(Hidden) \in Nat
      BY <3>1, <3>2, FS_Subset, FS_CardinalityType
    <3> QED  BY <3>2, <3>3, <3>4
  <2>3. \A line \in Recent : log[line].day = today /\ broken = {} => line \in Summary
    BY RecentIsCounted
  <2> QED  BY <2>1, <2>2, <2>3 DEF SummaryIsOfToday
<1> QED  BY <1>1, LogAlways, PTL
=============================================================================
