--------------------------- MODULE LogFileProofs ---------------------------
(***************************************************************************)
(* Proofs about the files of the incident log (LogFile): that they stay    *)
(* small, that what is read back is the newest part of what was written,   *)
(* in order, with nothing missing, that nothing is lost before a whole     *)
(* generation is kept, and what a torn line costs, for every max_bytes and *)
(* however many lines are written and failures met.                        *)
(***************************************************************************)
EXTENDS LogFile, SetLemmas, SequenceTheorems

-----------------------------------------------------------------------------
(* The inductive invariant *)

Record ==
    [event : {"started", "stopped", "watching", "opened"}, ts : Int, key : {Records!Nobody, <<"job", "ratio">>}, openedTs : Int]
Line == [record : Record, whole : BOOLEAN]
Step == {"closed", "fresh", "idle", "rename", "reopen"}

Typed ==
    /\ disk \in Seq(Seq(Line))
    /\ name \in [{"log", "old"} -> Nat]
    /\ handle \in [Handle -> [file : Nat, written : Nat, step : Step]]
    /\ stage \in {"down", "running", "stopping"}
    /\ written \in Seq(Record)
    /\ faults \in Nat
    /\ torn \in Nat
    /\ ends \in Nat
    /\ overlap \in BOOLEAN
    /\ stray \in Nat
    /\ reader \in [file : Nat, lines : Nat]

\* The files are numbered as they were created: the newest is the log, or was the
\* last to be renamed, and the one before it is the previous generation.
Numbered ==
    IF name["log"] = 0
    THEN name["old"] = Len(disk)
    ELSE name["log"] = Len(disk) /\ name["old"] = Len(disk) - 1

\* Which handles are open.
Opens ==
    /\ \A h \in Handle : handle[h].step # "closed" => handle[h].file \in 1..Len(disk)
    /\ handle["evaluator"].step = "closed" <=> stage = "down"
    /\ handle["shutdown"].step # "closed" <=> stage = "stopping"
    /\ stage = "running" /\ handle["evaluator"].step = "fresh" =>
            handle["evaluator"].file = name["log"]

\* The handle lines are written through.
Active == IF stage = "running" THEN "evaluator" ELSE "shutdown"

\* One handle writes at a time, to the newest file.
OneWriter ==
    ~overlap =>
        /\ stage = "stopping" => handle["evaluator"].step = "idle"
        /\ stage # "down" =>
            /\ handle[Active].file = Len(disk)
            /\ handle[Active].step = "reopen" => name["log"] = 0
            /\ handle[Active].step = "fresh" => name["log"] # 0

\* What a file may have, but for what the upsets have cost.
Limit == MaxBytes + LongLine - 1

\* A log that is found full takes one more short line, at least. Here, as below, log is
\* the size of the log and x what the upsets have cost in it.
Spare(log, x) == log >= MaxBytes => log + 1 <= Limit + x

\* The log of a process that runs, at a step and a count of its handle. While the log
\* is away it is empty, and what is written instead is stray.
FitsRunning(log, x, step, count) ==
    \/ step = "fresh" /\ log <= count + x /\ Spare(log, x)
    \/ step = "idle" /\ log <= count + x /\ (count >= MaxBytes => log + LongLine <= Limit + x)
    \/ step = "rename" /\ log <= count + x
    \/ step = "reopen" /\ log <= x

\* The log of a process that stops, polling being the step of the poll that was not
\* waited for, step and count those of the handle of the shutdown. A poll that is
\* to rename a full log will take it away, or fail to.
FitsStopping(log, x, polling, step, count) ==
    /\ polling = "reopen" => log <= x
    /\ \/ step = "fresh" /\ log <= count + x /\ (polling = "rename" \/ Spare(log, x))
       \/ step = "idle" /\ (polling = "rename" \/ Spare(log, x))
       \/ step = "rename"
       \/ step = "reopen" /\ log <= x

\* The sizes of the two files, xo and xl being what the upsets have cost in the one and
\* in the other.
Fits(xo, xl, old, log, now, polling, count, step, closing, through) ==
    /\ old <= Limit + xo
    /\ log <= Limit + xl
    /\ \/ through
       \/ now = "down" /\ Spare(log, xl)
       \/ now = "running" /\ FitsRunning(log, xl, polling, count)
       \/ now = "stopping" /\ FitsStopping(log, xl, polling, step, closing)

Room(xo, xl) ==
    Fits(xo, xl, SizeOf(Contents("old")), SizeOf(Contents("log")), stage,
         handle["evaluator"].step, handle["evaluator"].written,
         handle["shutdown"].step, handle["shutdown"].written, Len(written) = MaxLines)

\* What kills, torn lines, failures and stray lines can have cost.
Cost == ends + (torn + faults) * LongLine + stray

Sized == \E xo, xl \in 0..Cost : xo + xl <= Cost /\ Room(xo, xl)

-----------------------------------------------------------------------------
(* What was written, file by file *)

\* start[f] lines were written before the first line of file f.
Follow(start) ==
    /\ \A f \in DOMAIN disk :
        /\ start[f + 1] = start[f] + Len(disk[f])
        /\ \A i \in DOMAIN disk[f] : disk[f][i] = Whole(written[start[f] + i])
    /\ start[1] = 0
    /\ start[Len(disk) + 1] = Len(written)

Kept ==
    torn = 0 /\ ~overlap =>
        /\ \E start \in [1..(Len(disk) + 1) -> 0..Len(written)] : Follow(start)
        /\ \A k \in DOMAIN written : written[k].ts = k - 1

\* A file that was renamed was full, and the count of a handle is the size of its file.
Counted ==
    torn = 0 /\ ~overlap =>
        /\ \A f \in 1..name["old"] : SizeOf(disk[f]) >= MaxBytes
        /\ stage # "down" => handle[Active].written = SizeOf(disk[Len(disk)])
        /\ stage # "down" /\ handle[Active].step = "rename" =>
                handle[Active].written >= MaxBytes

\* The reader has the first lines of a file that was renamed by then.
Reading ==
    /\ reader.file <= name["old"]
    /\ reader.file # 0 => reader.lines <= Len(disk[reader.file])
    /\ torn = 0 /\ ~overlap /\ reader.file # 0 => reader.lines >= 1

-----------------------------------------------------------------------------
(* Torn lines *)

\* The place of every line.
PlacesIn(files) == UNION {{f} \X (DOMAIN files[f]) : f \in DOMAIN files}
Places == PlacesIn(disk)
At(p) == disk[p[1]][p[2]]

TornPlaces == {p \in Places : ~At(p).whole}

\* No two lines are written at one time.
Separate ==
    /\ \A p \in Places : At(p).record.ts < Clock
    /\ \A p, q \in Places : At(p).record.ts = At(q).record.ts => p = q

TornCounted == IsFiniteSet(TornPlaces) /\ Cardinality(TornPlaces) = torn

-----------------------------------------------------------------------------
(* Bytes *)

LEMMA BytesTyped ==
  \A line : Bytes(line) \in Nat \ {0} /\ Bytes(line) <= LongLine /\ (line.record.event # "opened" => Bytes(line) = 1)
  BY LogFileAssumption DEF Bytes

SizeStep(lines) == [i \in DOMAIN lines |-> [n \in Nat |-> n + Bytes(lines[i])]]

\* SizeOf adds up the lines from the first to the last.
LEMMA SizeIsFold ==
  ASSUME NEW L, NEW lines \in Seq(L)
  PROVE  \E g \in [SUBSET (1..Len(lines)) -> Nat] :
            /\ FromLeft(g, Len(lines), 0, SizeStep(lines))
            /\ SizeOf(lines) = g[1..Len(lines)]
<1> DEFINE D == 1..Len(lines)
           Eq(g) == g = [s \in SUBSET DOMAIN lines |->
                IF s = {} THEN 0 ELSE g[s \ {Max(s)}] + Bytes(lines[Max(s)])]
<1>1. SizeOf(lines) = (CHOOSE g : Eq(g))[DOMAIN lines]
  BY Zenon DEF SizeOf, FoldLeft, MapThenFoldSet
<1>2. DOMAIN lines = D /\ IsFiniteSet(D) /\ Len(lines) \in Nat
  BY FS_Interval
<1>3. /\ IsPick(Greatest(Len(lines)), D)
      /\ \A s \in SUBSET D : Greatest(Len(lines))[s] = Max(s)
  BY <1>2, GreatestIsPick
<1>4. \A i \in D, n \in Nat :
        SizeStep(lines)[i][n] \in Nat /\ SizeStep(lines)[i][n] = n + Bytes(lines[i])
  BY <1>2, BytesTyped DEF SizeStep
<1> HIDE DEF D
<1>5. \A g \in [SUBSET D -> Nat] : IsFold(g, D, 0, SizeStep(lines), Greatest(Len(lines))) <=> Eq(g)
  <2>1. SUFFICES ASSUME NEW g \in [SUBSET D -> Nat]
                 PROVE  IsFold(g, D, 0, SizeStep(lines), Greatest(Len(lines))) <=> Eq(g)
    OBVIOUS
  <2>2. ASSUME NEW s \in SUBSET D, s # {}
        PROVE  SizeStep(lines)[Greatest(Len(lines))[s]][g[s \ {Greatest(Len(lines))[s]}]]
                  = g[s \ {Max(s)}] + Bytes(lines[Max(s)])
    <3>1. Greatest(Len(lines))[s] = Max(s) /\ Max(s) \in D
      BY <1>3, <2>2 DEF IsPick
    <3>2. g[s \ {Max(s)}] \in Nat
      OBVIOUS
    <3> QED
      BY <1>4, <3>1, <3>2
  <2>3. IsFold(g, D, 0, SizeStep(lines), Greatest(Len(lines)))
          <=> \A s \in SUBSET D :
                g[s] = IF s = {} THEN 0 ELSE g[s \ {Max(s)}] + Bytes(lines[Max(s)])
    BY <2>2, Zenon DEF IsFold
  <2>4. Eq(g) <=> g = [s \in SUBSET D |->
                IF s = {} THEN 0 ELSE g[s \ {Max(s)}] + Bytes(lines[Max(s)])]
    BY <1>2, Zenon
  <2> HIDE DEF Eq
  <2> QED
    BY <2>3, <2>4
<1>6. \E g \in [SUBSET D -> Nat] : IsFold(g, D, 0, SizeStep(lines), Greatest(Len(lines)))
  <2> DEFINE step == SizeStep(lines)
             pick == Greatest(Len(lines))
  <2>1. IsFiniteSet(D) /\ (\A i \in D, n \in Nat : step[i][n] \in Nat) /\ IsPick(pick, D) /\ 0 \in Nat
    BY <1>2, <1>3, <1>4
  <2> HIDE DEF step, pick
  <2>2. \E g \in [SUBSET D -> Nat] : IsFold(g, D, 0, step, pick)
    BY <2>1, FoldExists
  <2> QED
    BY <2>2 DEF step, pick
<1>7. ASSUME NEW g, Eq(g) PROVE g \in [SUBSET D -> Nat]
  <2>1. ASSUME NEW s \in SUBSET D
        PROVE  g[s] = IF s = {} THEN 0 ELSE g[s \ {Max(s)}] + Bytes(lines[Max(s)])
    BY <1>2, <1>7, Zenon
  <2>2. \A s \in SUBSET D : g[s] \in Nat
    <3> DEFINE Bad == {s \in SUBSET D : g[s] \notin Nat}
    <3> SUFFICES ASSUME Bad # {} PROVE FALSE
      OBVIOUS
    <3>1. PICK t \in Bad : \A u \in Bad : u \subseteq t => u = t
      <4>1. Bad \subseteq SUBSET D
        OBVIOUS
      <4> HIDE DEF Bad
      <4> QED
        BY <1>2, <4>1, LeastSubset
    <3>2. CASE t = {}
      <4>1. g[t] = 0
        BY <2>1, <3>2
      <4> QED
        BY <3>1, <4>1
    <3>3. CASE t # {}
      <4>1. Max(t) \in t
        BY <1>3, <3>3 DEF IsPick
      <4>2. g[t \ {Max(t)}] \in Nat
        BY <3>1, <4>1
      <4>3. g[t] = g[t \ {Max(t)}] + Bytes(lines[Max(t)])
        BY <2>1, <3>3
      <4> QED
        BY <3>1, <4>2, <4>3, BytesTyped
    <3> QED
      BY <3>2, <3>3
  <2>3. g = [s \in SUBSET D |-> g[s]]
    BY <1>2, <1>7, Zenon
  <2> HIDE DEF Eq
  <2> QED
    BY <2>2, <2>3
<1>8. Eq(CHOOSE g : Eq(g))
  BY <1>5, <1>6, Zenon
<1> HIDE DEF Eq
<1> QED
  BY <1>1, <1>2, <1>5, <1>7, <1>8, Zenon DEF D, FromLeft

LEMMA SizeTyped ==
  ASSUME NEW L, NEW lines \in Seq(L)
  PROVE  SizeOf(lines) \in Nat
<1> DEFINE D == 1..Len(lines)
<1>1. D \in SUBSET D
  OBVIOUS
<1>2. PICK g \in [SUBSET D -> Nat] : SizeOf(lines) = g[D]
  BY SizeIsFold, Zenon
<1> HIDE DEF D
<1> QED
  BY <1>1, <1>2

LEMMA SizeOfNone == SizeOf(<<>>) = 0
<1>1. <<>> \in Seq({}) /\ 1..Len(<<>>) = {} /\ {} \in SUBSET {}
  OBVIOUS
<1>2. PICK g : /\ FromLeft(g, Len(<<>>), 0, SizeStep(<<>>))
               /\ SizeOf(<<>>) = g[1..Len(<<>>)]
  BY <1>1, SizeIsFold, Zenon
<1> QED
  BY <1>1, <1>2, Zenon DEF FromLeft, IsFold

LEMMA SizeOneMore ==
  ASSUME NEW L, NEW lines \in Seq(L), NEW line \in L
  PROVE  SizeOf(Append(lines, line)) = SizeOf(lines) + Bytes(line)
<1> DEFINE more == Append(lines, line)
           n == Len(lines)
           m == Len(more)
<1>1. /\ more \in Seq(L) /\ n \in Nat /\ m = n + 1
      /\ DOMAIN lines = 1..n /\ DOMAIN more = 1..m
      /\ more[m] = line /\ \A i \in 1..n : more[i] = lines[i]
  OBVIOUS
<1>2. PICK g : /\ FromLeft(g, m, 0, SizeStep(more))
               /\ SizeOf(more) = g[1..m]
  BY <1>1, SizeIsFold, Zenon
<1>3. PICK h \in [SUBSET (1..n) -> Nat] :
            /\ FromLeft(h, n, 0, SizeStep(lines))
            /\ SizeOf(lines) = h[1..n]
  BY SizeIsFold
<1> HIDE DEF more, n, m
<1>4. \A i \in 1..n : SizeStep(more)[i] = SizeStep(lines)[i]
  BY <1>1 DEF SizeStep
<1>5. g[1..m] = SizeStep(more)[m][h[1..n]]
  BY <1>1, <1>2, <1>3, <1>4, FoldOneMore
<1>6. SizeStep(more)[m][h[1..n]] = h[1..n] + Bytes(line)
  <2>1. h[1..n] \in Nat
    BY <1>3
  <2>2. m \in DOMAIN more
    BY <1>1
  <2> QED
    BY <1>1, <2>1, <2>2 DEF SizeStep
<1> QED
  BY <1>2, <1>3, <1>5, <1>6 DEF more

-----------------------------------------------------------------------------
(* Which files there are and who writes to them *)

Files == Typed /\ Numbered /\ Opens /\ OneWriter

LEMMA TypedNumbers ==
  ASSUME Typed
  PROVE  /\ Len(disk) \in Nat /\ Len(written) \in Nat
         /\ name["log"] \in Nat /\ name["old"] \in Nat
         /\ torn \in Nat /\ ends \in Nat /\ faults \in Nat /\ stray \in Nat
         /\ stage \in {"down", "running", "stopping"}
         /\ \A h \in Handle : handle[h].file \in Nat /\ handle[h].written \in Nat /\ handle[h].step \in Step
<1>1. Len(disk) \in Nat /\ Len(written) \in Nat
  BY DEF Typed
<1>2. name["log"] \in Nat /\ name["old"] \in Nat
  BY DEF Typed
<1>3. \A h \in Handle : handle[h].file \in Nat /\ handle[h].written \in Nat /\ handle[h].step \in Step
  BY DEF Typed
<1> QED
  BY <1>1, <1>2, <1>3 DEF Typed

\* A record that comes next is dated by the clock, and that of a fresh handle is short.
LEMMA NextRecordsTyped ==
  ASSUME Typed, NEW h \in Handle, NEW record \in NextRecords(h)
  PROVE  /\ record \in Record
         /\ record.ts = Clock
         /\ handle[h].step = "fresh" => record.event # "opened"
<1>1. Clock \in Int /\ Clock \div 1 = Clock
  BY DEF Typed, Clock
<1>2. Records!Unix(Clock) = Clock
  BY <1>1 DEF Records!Unix
<1>3. \/ record = Records!Started(Clock)
      \/ record = Records!Stopped(Clock)
      \/ record = Records!Watching(Clock)
      \/ record = Records!Opened(<<"job", "ratio">>, Clock) /\ handle[h].step # "fresh"
  BY DEF NextRecords
<1> HIDE DEF Clock
<1>4. /\ Records!Started(Clock) \in Record /\ Records!Started(Clock).ts = Clock
      /\ Records!Started(Clock).event # "opened"
  BY <1>1, <1>2 DEF Records!Started, Records!None, Record
<1>5. /\ Records!Stopped(Clock) \in Record /\ Records!Stopped(Clock).ts = Clock
      /\ Records!Stopped(Clock).event # "opened"
  BY <1>1, <1>2 DEF Records!Stopped, Records!None, Record
<1>6. /\ Records!Watching(Clock) \in Record /\ Records!Watching(Clock).ts = Clock
      /\ Records!Watching(Clock).event # "opened"
  BY <1>1, <1>2 DEF Records!Watching, Records!None, Record
<1>7. /\ Records!Opened(<<"job", "ratio">>, Clock) \in Record
      /\ Records!Opened(<<"job", "ratio">>, Clock).ts = Clock
  BY <1>1, <1>2 DEF Records!Opened, Records!None, Record
<1> QED
  BY <1>3, <1>4, <1>5, <1>6, <1>7, Zenon

\* A line goes to the end of one file, and the others are as they were.
Extended(f, line) ==
    /\ Len(disk') = Len(disk)
    /\ disk'[f] = Append(disk[f], line)
    /\ \A g \in 1..Len(disk) : g # f => disk'[g] = disk[g]

LEMMA LineGoesToOneFile ==
  ASSUME Typed, NEW f \in 1..Len(disk), NEW line \in Line,
         disk' = [disk EXCEPT ![f] = Append(@, line)]
  PROVE  disk' \in Seq(Seq(Line)) /\ Extended(f, line)
<1>1. disk[f] \in Seq(Line)
  BY DEF Typed
<1>2. Append(disk[f], line) \in Seq(Line)
  BY <1>1
<1> QED
  BY <1>2 DEF Typed, Extended

\* A file that is created is empty, and the others are as they were.
Created ==
    /\ Len(disk') = Len(disk) + 1
    /\ disk'[Len(disk) + 1] = <<>>
    /\ \A g \in 1..Len(disk) : disk'[g] = disk[g]

LEMMA ReopenedFiles ==
  ASSUME Typed, Numbered, NEW h \in Handle, NEW count \in Nat, NEW step \in Step,
         Reopened(h, count, step)
  PROVE  /\ disk' \in Seq(Seq(Line))
         /\ name' \in [{"log", "old"} -> Nat]
         /\ Numbered'
         /\ name'["log"] = Len(disk') /\ name'["log"] # 0 /\ name'["old"] = name["old"]
         /\ \A g \in Handle \ {h} : handle'[g] = handle[g]
         /\ handle' \in [Handle -> [file : Nat, written : Nat, step : Step]]
         /\ handle'[h].file = Len(disk') /\ handle'[h].step = step
         /\ Len(disk') >= Len(disk)
         /\ IF name["log"] = 0
            THEN Created /\ handle'[h].written = 0
            ELSE disk' = disk /\ name' = name /\ handle'[h].written = count
<1>1. <<>> \in Seq(Line) /\ Len(disk) \in Nat
  BY DEF Typed
<1>2. CASE name["log"] = 0
  <2> DEFINE opened == [file |-> Len(disk) + 1, written |-> 0, step |-> step]
  <2>1. /\ disk' = Append(disk, <<>>)
        /\ name' = [name EXCEPT !["log"] = Len(disk) + 1]
        /\ handle' = [handle EXCEPT ![h] = opened]
    BY <1>2 DEF Reopened
  <2>2. disk \in Seq(Seq(Line)) /\ name \in [{"log", "old"} -> Nat]
        /\ handle \in [Handle -> [file : Nat, written : Nat, step : Step]]
    BY DEF Typed
  <2>3. /\ disk' \in Seq(Seq(Line)) /\ Created
        /\ Len(disk') = Len(disk) + 1 /\ Len(disk') >= Len(disk)
    BY <1>1, <2>1, <2>2 DEF Created
  <2>4. /\ name' \in [{"log", "old"} -> Nat]
        /\ name'["log"] = Len(disk) + 1 /\ name'["old"] = name["old"]
    BY <1>1, <2>1, <2>2
  <2>5. opened \in [file : Nat, written : Nat, step : Step]
    BY <1>1
  <2> HIDE DEF opened
  <2>6. /\ handle' \in [Handle -> [file : Nat, written : Nat, step : Step]]
        /\ handle'[h] = opened
        /\ \A g \in Handle \ {h} : handle'[g] = handle[g]
    BY <2>1, <2>2, <2>5
  <2>7. /\ handle'[h].file = Len(disk) + 1 /\ handle'[h].step = step /\ handle'[h].written = 0
    BY <2>6 DEF opened
  <2>8. Numbered'
    BY <1>1, <1>2, <2>3, <2>4 DEF Numbered
  <2> QED
    BY <1>1, <1>2, <2>3, <2>4, <2>6, <2>7, <2>8
<1>3. CASE name["log"] # 0
  <2> DEFINE opened == [file |-> name["log"], written |-> count, step |-> step]
  <2>1. disk' = disk /\ name' = name /\ handle' = [handle EXCEPT ![h] = opened]
    BY <1>3 DEF Reopened
  <2>2. /\ handle \in [Handle -> [file : Nat, written : Nat, step : Step]]
        /\ opened \in [file : Nat, written : Nat, step : Step]
    BY DEF Typed
  <2>3. opened.file = Len(disk) /\ opened.step = step /\ opened.written = count
    BY <1>3 DEF Numbered
  <2> HIDE DEF opened
  <2>4. /\ handle' \in [Handle -> [file : Nat, written : Nat, step : Step]]
        /\ handle'[h] = opened
        /\ \A g \in Handle \ {h} : handle'[g] = handle[g]
    BY <2>1, <2>2
  <2>5. Numbered'
    BY <2>1, Zenon DEF Numbered
  <2>6. /\ name["log"] = Len(disk) /\ disk \in Seq(Seq(Line)) /\ Len(disk) >= Len(disk)
        /\ name \in [{"log", "old"} -> Nat]
    BY <1>1, <1>3 DEF Numbered, Typed
  <2> QED
    BY <1>3, <2>1, <2>3, <2>4, <2>5, <2>6, Zenon
<1> QED
  BY <1>2, <1>3

LEMMA LengthTyped ==
  ASSUME Typed, Numbered
  PROVE  Length \in Nat
<1>1. Contents("log") \in Seq(Line)
  BY DEF Typed, Numbered, Contents
<1> QED
  BY <1>1, SizeTyped DEF Length

\* A step of a handle that writes nothing.
LEMMA StepTaken ==
  ASSUME Typed, NEW h \in Handle, NEW step \in Step,
         handle' = [handle EXCEPT ![h].step = step]
  PROVE  /\ handle' \in [Handle -> [file : Nat, written : Nat, step : Step]]
         /\ \A g \in Handle \ {h} : handle'[g] = handle[g]
         /\ handle'[h].file = handle[h].file
         /\ handle'[h].written = handle[h].written
         /\ handle'[h].step = step
<1>1. handle \in [Handle -> [file : Nat, written : Nat, step : Step]]
  BY DEF Typed
<1> QED
  BY <1>1

\* A line that is written whole.
LEMMA LineWritten ==
  ASSUME Typed, Opens, NEW h \in Handle, AppendLine(h)
  PROVE  \E record \in NextRecords(h) :
            /\ handle[h].file \in 1..Len(disk)
            /\ disk' \in Seq(Seq(Line))
            /\ Whole(record) \in Line
            /\ Extended(handle[h].file, Whole(record))
            /\ handle' \in [Handle -> [file : Nat, written : Nat, step : Step]]
            /\ \A g \in Handle \ {h} : handle'[g] = handle[g]
            /\ handle'[h].file = handle[h].file
            /\ handle'[h].written = handle[h].written + Bytes(Whole(record))
            /\ handle'[h].step = IF handle'[h].written >= MaxBytes THEN "rename" ELSE "idle"
            /\ written' = Append(written, record)
            /\ written' \in Seq(Record)
            /\ stray' = IF Astray(h) THEN stray + Bytes(Whole(record)) ELSE stray
            /\ stray' \in Nat
<1>1. PICK record \in NextRecords(h) :
        /\ disk' = [disk EXCEPT ![handle[h].file] = Append(@, Whole(record))]
        /\ handle' = [handle EXCEPT
                ![h].written = handle[h].written + Bytes(Whole(record)),
                ![h].step = IF handle[h].written + Bytes(Whole(record)) >= MaxBytes
                            THEN "rename" ELSE "idle"]
        /\ written' = Append(written, record)
        /\ stray' = IF Astray(h) THEN stray + Bytes(Whole(record)) ELSE stray
  BY DEF AppendLine
<1>2. handle[h].file \in 1..Len(disk)
  BY DEF AppendLine, Opens
<1>3. record \in Record
  BY NextRecordsTyped
<1>4. Whole(record) \in Line
  BY <1>3 DEF Whole, Line
<1>5. disk' \in Seq(Seq(Line)) /\ Extended(handle[h].file, Whole(record))
  BY <1>1, <1>2, <1>4, LineGoesToOneFile
<1>6. handle \in [Handle -> [file : Nat, written : Nat, step : Step]] /\ written \in Seq(Record)
  BY DEF Typed
<1>7. Bytes(Whole(record)) \in Nat /\ "rename" \in Step /\ "idle" \in Step
  BY BytesTyped DEF Step
<1>8. written' \in Seq(Record)
  BY <1>1, <1>3, <1>6
<1>9. stray' \in Nat
  BY <1>1, <1>7 DEF Typed
<1> QED
  <2> DEFINE count == handle[h].written + Bytes(Whole(record))
             step == IF count >= MaxBytes THEN "rename" ELSE "idle"
  <2>1. count \in Nat /\ step \in Step
    BY <1>6, <1>7
  <2>2. handle' = [handle EXCEPT ![h].written = count, ![h].step = step]
    BY <1>1
  <2> HIDE DEF count, step
  <2>3. /\ handle' \in [Handle -> [file : Nat, written : Nat, step : Step]]
        /\ \A g \in Handle \ {h} : handle'[g] = handle[g]
        /\ handle'[h].file = handle[h].file
        /\ handle'[h].written = count
        /\ handle'[h].step = step
    BY <1>6, <2>1, <2>2
  <2> QED
    BY <1>1, <1>2, <1>4, <1>5, <1>8, <1>9, <2>3, Zenon DEF count, step

LEMMA LineTorn ==
  ASSUME Typed, Opens, NEW h \in Handle, TearLine(h)
  PROVE  \E record \in NextRecords(h) :
            /\ handle[h].file \in 1..Len(disk)
            /\ disk' \in Seq(Seq(Line))
            /\ Torn(record) \in Line
            /\ Extended(handle[h].file, Torn(record))
            /\ handle' \in [Handle -> [file : Nat, written : Nat, step : Step]]
            /\ \A g \in Handle \ {h} : handle'[g] = handle[g]
            /\ handle'[h].file = handle[h].file
            /\ handle'[h].written = handle[h].written
            /\ handle'[h].step = "idle"
<1>1. PICK record \in NextRecords(h) :
        disk' = [disk EXCEPT ![handle[h].file] = Append(@, Torn(record))]
  BY DEF TearLine
<1>2. handle[h].file \in 1..Len(disk) /\ handle' = [handle EXCEPT ![h].step = "idle"]
  BY DEF TearLine, Opens
<1>3. record \in Record
  BY NextRecordsTyped
<1>4. Torn(record) \in Line
  BY <1>3 DEF Torn, Line
<1>5. disk' \in Seq(Seq(Line)) /\ Extended(handle[h].file, Torn(record))
  BY <1>1, <1>2, <1>4, LineGoesToOneFile
<1>6. "idle" \in Step
  BY DEF Step
<1> QED
  BY <1>2, <1>4, <1>5, <1>6, StepTaken

LEMMA FilesInit ==
  ASSUME Init
  PROVE  Files
<1>0. Closed \in [file : Nat, written : Nat, step : Step]
  BY DEF Closed, Step
<1>1. Typed
  <2>1. disk \in Seq(Seq(Line)) /\ written \in Seq(Record)
    BY DEF Init
  <2>2. /\ name \in [{"log", "old"} -> Nat]
        /\ handle \in [Handle -> [file : Nat, written : Nat, step : Step]]
        /\ reader \in [file : Nat, lines : Nat]
    BY <1>0 DEF Init
  <2>3. /\ stage \in {"down", "running", "stopping"}
        /\ faults \in Nat /\ torn \in Nat /\ ends \in Nat /\ overlap \in BOOLEAN /\ stray \in Nat
    BY DEF Init
  <2> QED
    BY <2>1, <2>2, <2>3 DEF Typed
<1>2. Numbered /\ Opens /\ OneWriter
  BY DEF Init, Numbered, Opens, OneWriter, Closed, Handle
<1> QED
  BY <1>1, <1>2 DEF Files

LEMMA FilesNext ==
  ASSUME Files, [Next]_vars
  PROVE  Files'
<1> USE DEF Files
<1>1. CASE Start
  <2>1. Length \in Nat /\ "fresh" \in Step /\ "evaluator" \in Handle
    BY LengthTyped DEF Step, Handle
  <2>2. /\ stage = "down" /\ stage' = "running" /\ Reopened("evaluator", Length, "fresh")
        /\ UNCHANGED <<written, faults, torn, ends, overlap, stray, reader>>
    BY <1>1 DEF Start
  <2>3. /\ disk' \in Seq(Seq(Line)) /\ name' \in [{"log", "old"} -> Nat] /\ Numbered'
        /\ name'["log"] = Len(disk') /\ name'["log"] # 0
        /\ \A g \in Handle \ {"evaluator"} : handle'[g] = handle[g]
        /\ handle' \in [Handle -> [file : Nat, written : Nat, step : Step]]
        /\ handle'["evaluator"].file = Len(disk') /\ handle'["evaluator"].step = "fresh"
    BY <2>1, <2>2, ReopenedFiles
  <2>4. Typed'
    <3>1. stage' \in {"down", "running", "stopping"}
      BY <2>2
    <3> QED
      BY <2>2, <2>3, <3>1, Zenon DEF Typed
  <2>5. Opens'
    <3>1. handle'["shutdown"] = handle["shutdown"] /\ handle["shutdown"].step = "closed"
      BY <2>2, <2>3 DEF Opens, Handle
    <3>2. Len(disk') \in Nat
      BY <2>4, TypedNumbers
    <3> QED
      BY <2>2, <2>3, <3>1, <3>2 DEF Opens, Handle
  <2>6. OneWriter'
    BY <2>2, <2>3 DEF OneWriter, Active
  <2> QED
    BY <2>3, <2>4, <2>5, <2>6
<1>2. CASE Stop
  <2>1. Length \in Nat /\ "fresh" \in Step /\ "shutdown" \in Handle
    BY LengthTyped DEF Step, Handle
  <2>2. /\ stage = "running" /\ stage' = "stopping" /\ Reopened("shutdown", Length, "fresh")
        /\ overlap' = (overlap \/ handle["evaluator"].step # "idle")
        /\ UNCHANGED <<written, faults, torn, ends, stray, reader>>
    BY <1>2 DEF Stop, Overlaps
  <2>3. /\ disk' \in Seq(Seq(Line)) /\ name' \in [{"log", "old"} -> Nat] /\ Numbered'
        /\ name'["log"] = Len(disk') /\ name'["log"] # 0
        /\ \A g \in Handle \ {"shutdown"} : handle'[g] = handle[g]
        /\ handle' \in [Handle -> [file : Nat, written : Nat, step : Step]]
        /\ handle'["shutdown"].file = Len(disk') /\ handle'["shutdown"].step = "fresh"
        /\ Len(disk') >= Len(disk)
    BY <2>1, <2>2, ReopenedFiles
  <2>4. Typed'
    BY <2>2, <2>3 DEF Typed
  <2>5. Opens'
    <3>1. Len(disk) \in Nat /\ Len(disk') \in Nat /\ Len(disk') # 0
      BY <2>3 DEF Typed
    <3> QED
      BY <2>2, <2>3, <3>1 DEF Opens, Handle
  <2>6. OneWriter'
    BY <2>2, <2>3 DEF OneWriter, Active, Handle
  <2> QED
    BY <2>3, <2>4, <2>5, <2>6
<1>3. ASSUME NEW h \in Handle, AppendLine(h) PROVE Files'
  <2>1. PICK record \in NextRecords(h) :
            /\ disk' \in Seq(Seq(Line)) /\ Len(disk') = Len(disk)
            /\ handle' \in [Handle -> [file : Nat, written : Nat, step : Step]]
            /\ \A g \in Handle \ {h} : handle'[g] = handle[g]
            /\ handle'[h].file = handle[h].file
            /\ handle'[h].step \in {"rename", "idle"}
            /\ written' \in Seq(Record)
            /\ stray' \in Nat
    BY <1>3, LineWritten DEF Extended
  <2>2. /\ handle[h].step \in {"fresh", "idle"}
        /\ overlap' = (overlap \/ (h = "evaluator" /\ stage = "stopping"))
        /\ UNCHANGED <<name, stage, faults, torn, ends, reader>>
    BY <1>3 DEF AppendLine, Overlaps
  <2>3. Typed' /\ Numbered'
    BY <2>1, <2>2 DEF Typed, Numbered
  <2>4. Opens'
    BY <2>1, <2>2 DEF Opens, Handle
  <2>5. OneWriter'
    BY <2>1, <2>2 DEF OneWriter, Active, Handle, Opens, Typed
  <2> QED
    BY <2>3, <2>4, <2>5
<1>4. ASSUME NEW h \in Handle, TearLine(h) PROVE Files'
  <2>1. /\ disk' \in Seq(Seq(Line)) /\ Len(disk') = Len(disk)
        /\ handle' \in [Handle -> [file : Nat, written : Nat, step : Step]]
        /\ \A g \in Handle \ {h} : handle'[g] = handle[g]
        /\ handle'[h].file = handle[h].file
        /\ handle'[h].step = "idle"
    BY <1>4, LineTorn DEF Extended
  <2>2. /\ handle[h].step \in {"fresh", "idle"}
        /\ overlap' = (overlap \/ (h = "evaluator" /\ stage = "stopping"))
        /\ torn' = torn + 1
        /\ UNCHANGED <<name, stage, written, faults, ends, stray, reader>>
    BY <1>4 DEF TearLine, Overlaps
  <2>3. Typed' /\ Numbered'
    BY <2>1, <2>2 DEF Typed, Numbered
  <2>4. Opens'
    BY <2>1, <2>2 DEF Opens, Handle
  <2>5. OneWriter'
    BY <2>1, <2>2 DEF OneWriter, Active, Handle, Opens, Typed
  <2> QED
    BY <2>3, <2>4, <2>5
<1>5. ASSUME NEW h \in Handle, Rename(h) PROVE Files'
  <2>1. /\ handle[h].step = "rename" /\ name["log"] # 0
        /\ name' = [log |-> 0, old |-> name["log"]]
        /\ handle' = [handle EXCEPT ![h].step = "reopen"] /\ "reopen" \in Step
        /\ UNCHANGED <<disk, stage, written, faults, torn, ends, overlap, stray, reader>>
    BY <1>5 DEF Rename, Step
  <2>2. /\ handle' \in [Handle -> [file : Nat, written : Nat, step : Step]]
        /\ \A g \in Handle \ {h} : handle'[g] = handle[g]
        /\ handle'[h].file = handle[h].file
        /\ handle'[h].step = "reopen"
    BY <2>1, StepTaken
  <2>3. name' \in [{"log", "old"} -> Nat] /\ name'["log"] = 0 /\ name'["old"] = name["log"]
    BY <2>1 DEF Typed
  <2>4. Typed' /\ Numbered'
    BY <2>1, <2>2, <2>3 DEF Typed, Numbered
  <2>5. Opens'
    BY <2>1, <2>2 DEF Opens, Handle
  <2>6. OneWriter'
    BY <2>1, <2>2, <2>3 DEF OneWriter, Active, Handle, Opens, Typed
  <2> QED
    BY <2>4, <2>5, <2>6
<1>6. ASSUME NEW h \in Handle, RenameFails(h) PROVE Files'
  <2>1. /\ handle[h].step = "rename"
        /\ faults' \in Nat /\ (faults' = 0 => faults = 0 /\ name["log"] = 0)
        /\ handle' = [handle EXCEPT ![h].step = "idle"] /\ "idle" \in Step
        /\ UNCHANGED <<disk, name, stage, written, torn, ends, overlap, stray, reader>>
    BY <1>6 DEF RenameFails, Step, Typed
  <2>2. /\ handle' \in [Handle -> [file : Nat, written : Nat, step : Step]]
        /\ \A g \in Handle \ {h} : handle'[g] = handle[g]
        /\ handle'[h].file = handle[h].file
        /\ handle'[h].step = "idle"
    BY <2>1, StepTaken
  <2>3. Typed' /\ Numbered'
    BY <2>1, <2>2 DEF Typed, Numbered
  <2>4. Opens'
    BY <2>1, <2>2 DEF Opens, Handle
  <2>5. OneWriter'
    BY <2>1, <2>2 DEF OneWriter, Active, Handle, Opens, Typed
  <2> QED
    BY <2>3, <2>4, <2>5
<1>7. ASSUME NEW h \in Handle, Reopen(h) PROVE Files'
  <2>1. /\ handle[h].step = "reopen" /\ Reopened(h, 0, "idle") /\ "idle" \in Step /\ 0 \in Nat
        /\ UNCHANGED <<stage, written, faults, torn, ends, overlap, stray, reader>>
    BY <1>7 DEF Reopen, Step
  <2>2. /\ disk' \in Seq(Seq(Line)) /\ name' \in [{"log", "old"} -> Nat] /\ Numbered'
        /\ name'["log"] = Len(disk') /\ name'["log"] # 0
        /\ \A g \in Handle \ {h} : handle'[g] = handle[g]
        /\ handle' \in [Handle -> [file : Nat, written : Nat, step : Step]]
        /\ handle'[h].file = Len(disk') /\ handle'[h].step = "idle"
        /\ Len(disk') >= Len(disk)
    BY <2>1, ReopenedFiles
  <2>3. Typed'
    BY <2>1, <2>2 DEF Typed
  <2>4. Opens'
    <3>1. Len(disk) \in Nat /\ Len(disk') \in Nat /\ Len(disk') # 0
      BY <2>2 DEF Typed
    <3> QED
      BY <2>1, <2>2, <3>1 DEF Opens, Handle
  <2>5. OneWriter'
    BY <2>1, <2>2 DEF OneWriter, Active, Handle, Opens, Typed
  <2> QED
    BY <2>2, <2>3, <2>4, <2>5
<1>8. ASSUME NEW h \in Handle, ReopenFails(h) PROVE Files'
  <2>1. /\ handle[h].step = "reopen" /\ faults' = faults + 1
        /\ handle' = [handle EXCEPT ![h].step = "idle"] /\ "idle" \in Step
        /\ UNCHANGED <<disk, name, stage, written, torn, ends, overlap, stray, reader>>
    BY <1>8 DEF ReopenFails, Step
  <2>2. /\ handle' \in [Handle -> [file : Nat, written : Nat, step : Step]]
        /\ \A g \in Handle \ {h} : handle'[g] = handle[g]
        /\ handle'[h].file = handle[h].file
        /\ handle'[h].step = "idle"
    BY <2>1, StepTaken
  <2>3. Typed' /\ Numbered'
    <3>1. Numbered'
      BY <2>1 DEF Numbered
    <3>2. faults' \in Nat
      BY <2>1, TypedNumbers
    <3>3. Typed'
      BY <2>1, <2>2, <3>2, Zenon DEF Typed
    <3> QED
      BY <3>1, <3>3
  <2>4. Opens'
    BY <2>1, <2>2 DEF Opens, Handle
  <2>5. OneWriter'
    BY <2>1, <2>2 DEF OneWriter, Active, Handle, Opens
  <2> QED
    BY <2>3, <2>4, <2>5
<1>9. CASE End
  <2>1. /\ stage' = "down" /\ handle' = [h \in Handle |-> Closed]
        /\ ends' \in Nat
        /\ UNCHANGED <<disk, name, written, faults, torn, overlap, stray, reader>>
    BY <1>9 DEF End, Typed
  <2>2. Closed \in [file : Nat, written : Nat, step : Step] /\ Closed.step = "closed"
    BY DEF Closed, Step
  <2>3. Typed' /\ Numbered'
    BY <2>1, <2>2 DEF Typed, Numbered
  <2>4. Opens'
    BY <2>1, <2>2 DEF Opens, Handle
  <2>5. OneWriter'
    BY <2>1 DEF OneWriter
  <2> QED
    BY <2>3, <2>4, <2>5
<1>10. CASE ReadFirst
  <2>1. UNCHANGED <<disk, name, handle, stage, written, faults, torn, ends, overlap, stray>>
    BY <1>10 DEF ReadFirst
  <2>2. reader' \in [file : Nat, lines : Nat]
    <3>1. Contents("old") \in Seq(Line) /\ name["old"] \in Nat
      BY DEF Contents, Typed, Numbered
    <3>2. Len(Contents("old")) \in Nat
      BY <3>1
    <3> QED
      BY <1>10, <3>1, <3>2 DEF ReadFirst, ReadOrder
  <2>3. Typed' /\ Numbered' /\ Opens' /\ OneWriter'
    BY <2>1, <2>2 DEF Typed, Numbered, Opens, OneWriter, Active
  <2> QED
    BY <2>3
<1>11. CASE UNCHANGED vars
  BY <1>11 DEF vars, Typed, Numbered, Opens, OneWriter, Active
<1> QED
  BY <1>1, <1>2, <1>3, <1>4, <1>5, <1>6, <1>7, <1>8, <1>9, <1>10, <1>11 DEF Next

\* What has gone wrong has gone wrong for good.
LEMMA UpsetsStay ==
  ASSUME Typed, [Next]_vars
  PROVE  /\ faults' = 0 => faults = 0
         /\ torn' = 0 => torn = 0
         /\ ~overlap' => ~overlap
<1> DEFINE Stay == (faults' = 0 => faults = 0) /\ (torn' = 0 => torn = 0) /\ (~overlap' => ~overlap)
<1>0. faults \in Nat /\ torn \in Nat
  BY DEF Typed
<1>1. CASE Start
  BY <1>1 DEF Start
<1>2. CASE Stop
  BY <1>2 DEF Stop, Overlaps
<1>3. ASSUME NEW h \in Handle, AppendLine(h) PROVE Stay
  BY <1>3 DEF AppendLine, Overlaps
<1>4. ASSUME NEW h \in Handle, TearLine(h) PROVE Stay
  <2>1. torn' = torn + 1 /\ faults' = faults /\ overlap' = (overlap \/ (h = "evaluator" /\ stage = "stopping"))
    BY <1>4 DEF TearLine, Overlaps
  <2>2. torn' # 0
    BY <1>0, <2>1
  <2>3. ~overlap' => ~overlap
    BY <2>1, Zenon
  <2> QED
    BY <2>1, <2>2, <2>3, Zenon
<1>5. ASSUME NEW h \in Handle, Rename(h) PROVE Stay
  BY <1>5 DEF Rename
<1>6. ASSUME NEW h \in Handle, RenameFails(h) PROVE Stay
  BY <1>0, <1>6 DEF RenameFails
<1>7. ASSUME NEW h \in Handle, Reopen(h) PROVE Stay
  BY <1>7 DEF Reopen
<1>8. ASSUME NEW h \in Handle, ReopenFails(h) PROVE Stay
  BY <1>0, <1>8 DEF ReopenFails
<1>9. CASE End
  BY <1>9 DEF End
<1>10. CASE ReadFirst
  BY <1>10 DEF ReadFirst
<1>11. CASE UNCHANGED vars
  BY <1>11 DEF vars
<1> HIDE DEF Stay
<1>12. (Start \/ Stop \/ End \/ ReadFirst \/ UNCHANGED vars) => Stay
  BY <1>1, <1>2, <1>9, <1>10, <1>11 DEF Stay
<1>13. Stay
  BY <1>3, <1>4, <1>5, <1>6, <1>7, <1>8, <1>12 DEF Next
<1> QED
  BY <1>13 DEF Stay

-----------------------------------------------------------------------------
(* Bounded *)

LEMMA SizesTyped ==
  ASSUME Typed, Numbered
  PROVE  \A n \in {"log", "old"} : Contents(n) \in Seq(Line) /\ SizeOf(Contents(n)) \in Nat
<1>1. ASSUME NEW n \in {"log", "old"} PROVE Contents(n) \in Seq(Line)
  BY DEF Typed, Numbered, Contents
<1> QED
  BY <1>1, SizeTyped

\* What another upset adds to the cost.
LEMMA CostOf ==
  ASSUME NEW e \in Nat, NEW t \in Nat, NEW f \in Nat, NEW a \in Nat
  PROVE  /\ e + (t + f) * LongLine + a \in Nat
         /\ e + 1 + (t + f) * LongLine + a = e + (t + f) * LongLine + a + 1
         /\ e + (t + 1 + f) * LongLine + a = e + (t + f) * LongLine + a + LongLine
         /\ e + (t + (f + 1)) * LongLine + a = e + (t + f) * LongLine + a + LongLine
         /\ \A b \in Nat : e + (t + f) * LongLine + (a + b) = e + (t + f) * LongLine + a + b
<1>1. LongLine \in Nat
  BY LogFileAssumption
<1>2. (t + f) * LongLine \in Nat
  BY <1>1
<1>3. /\ (t + 1 + f) * LongLine = (t + f) * LongLine + LongLine
      /\ (t + (f + 1)) * LongLine = (t + f) * LongLine + LongLine
  BY <1>1
<1> DEFINE c == (t + f) * LongLine
<1> HIDE DEF c
<1>4. c \in Nat
  BY <1>2 DEF c
<1>5. /\ e + c + a \in Nat
      /\ e + 1 + c + a = e + c + a + 1
      /\ e + (c + LongLine) + a = e + c + a + LongLine
      /\ \A b \in Nat : e + c + (a + b) = e + c + a + b
  BY <1>1, <1>4
<1> QED
  BY <1>3, <1>5 DEF c

LEMMA SizedByRoom ==
  ASSUME Typed', NEW xo \in Nat, NEW xl \in Nat, xo + xl <= Cost', Room(xo, xl)'
  PROVE  Sized'
<1>1. torn' \in Nat /\ ends' \in Nat /\ faults' \in Nat /\ stray' \in Nat
  BY DEF Typed
<1>2. Cost' \in Nat
  BY <1>1, CostOf DEF Cost
<1>3. xo \in 0..Cost' /\ xl \in 0..Cost'
  BY <1>2
<1> QED
  BY <1>3 DEF Sized

\* Opening the log changes nothing that can be read.
LEMMA ReopenedContents ==
  ASSUME Typed, Numbered, NEW h \in Handle, NEW count \in Nat, NEW step \in Step,
         Reopened(h, count, step)
  PROVE  \A n \in {"log", "old"} : Contents(n)' = Contents(n)
<1>1. /\ name' \in [{"log", "old"} -> Nat]
      /\ name'["log"] = Len(disk') /\ name'["log"] # 0 /\ name'["old"] = name["old"]
      /\ IF name["log"] = 0 THEN Created ELSE disk' = disk /\ name' = name
  BY ReopenedFiles
<1>2. CASE name["log"] = 0
  <2>1. Contents("log")' = <<>> /\ Contents("log") = <<>>
    BY <1>1, <1>2 DEF Created, Contents
  <2>2. name["old"] # 0 => name["old"] \in 1..Len(disk)
    BY <1>2 DEF Numbered, Typed
  <2>3. Contents("old")' = Contents("old")
    BY <1>1, <1>2, <2>2 DEF Created, Contents
  <2> QED
    BY <2>1, <2>3
<1>3. CASE name["log"] # 0
  BY <1>1, <1>3 DEF Contents
<1> QED
  BY <1>2, <1>3

\* A line that goes to the log, to the previous generation or to neither.
LEMMA LineContents ==
  ASSUME Typed, Numbered, name' = name, NEW f \in 1..Len(disk), NEW line \in Line,
         Extended(f, line)
  PROVE  \E a, b \in 0..LongLine :
            /\ SizeOf(Contents("old"))' = SizeOf(Contents("old")) + a
            /\ SizeOf(Contents("log"))' = SizeOf(Contents("log")) + b
            /\ a + b <= Bytes(line)
            /\ f = name["log"] => a = 0 /\ b = Bytes(line)
            /\ f # name["log"] => b = 0
<1>1. /\ f # 0 /\ Len(disk) \in Nat /\ name["log"] \in Nat /\ name["old"] \in Nat
      /\ name["old"] # 0 => name["old"] \in 1..Len(disk) /\ name["old"] # name["log"]
      /\ name["log"] # 0 => name["log"] \in 1..Len(disk)
  BY DEF Numbered, Typed
<1>2. ASSUME NEW n \in {"log", "old"}, f # name[n]
      PROVE  SizeOf(Contents(n))' = SizeOf(Contents(n))
  BY <1>1, <1>2 DEF Contents, Extended
<1>3. ASSUME NEW n \in {"log", "old"}, f = name[n]
      PROVE  SizeOf(Contents(n))' = SizeOf(Contents(n)) + Bytes(line)
  <2>1. Contents(n)' = Append(Contents(n), line)
    BY <1>1, <1>3 DEF Contents, Extended
  <2>2. Contents(n) \in Seq(Line)
    BY SizesTyped
  <2> QED
    BY <2>1, <2>2, SizeOneMore
<1>4. Bytes(line) \in 0..LongLine /\ 0 \in 0..LongLine
  BY BytesTyped, LogFileAssumption
<1>5. SizeOf(Contents("old")) \in Nat /\ SizeOf(Contents("log")) \in Nat
  BY SizesTyped
<1>6. CASE f = name["log"]
  <2>1. f # name["old"]
    BY <1>1, <1>6
  <2>2. /\ SizeOf(Contents("old"))' = SizeOf(Contents("old")) + 0
        /\ SizeOf(Contents("log"))' = SizeOf(Contents("log")) + Bytes(line)
        /\ 0 + Bytes(line) <= Bytes(line)
    BY <1>2, <1>3, <1>4, <1>5, <1>6, <2>1
  <2> QED
    BY <1>4, <1>6, <2>2
<1>7. CASE f # name["log"] /\ f = name["old"]
  <2>1. /\ SizeOf(Contents("old"))' = SizeOf(Contents("old")) + Bytes(line)
        /\ SizeOf(Contents("log"))' = SizeOf(Contents("log")) + 0
        /\ Bytes(line) + 0 <= Bytes(line)
    BY <1>2, <1>3, <1>4, <1>5, <1>7
  <2> QED
    BY <1>4, <1>7, <2>1
<1>8. CASE f # name["log"] /\ f # name["old"]
  <2>1. /\ SizeOf(Contents("old"))' = SizeOf(Contents("old")) + 0
        /\ SizeOf(Contents("log"))' = SizeOf(Contents("log")) + 0
        /\ 0 + 0 <= Bytes(line)
    BY <1>2, <1>4, <1>5, <1>8
  <2> QED
    BY <1>4, <1>8, <2>1
<1> QED
  BY <1>6, <1>7, <1>8

\* A line costs the log no more room than it is charged with.
LEMMA SpareKept ==
  ASSUME NEW log \in Nat, NEW x \in Nat, NEW b \in Nat, NEW y \in Nat, b <= y,
         Spare(log, x)
  PROVE  Spare(log + b, x + y)
<1>1. MaxBytes \in Nat \ {0} /\ LongLine \in Nat \ {0}
  BY LogFileAssumption
<1>2. log + 1 <= Limit + x \/ log + 1 <= MaxBytes
  BY <1>1 DEF Spare
<1>3. MaxBytes <= Limit /\ Limit \in Nat
  BY <1>1 DEF Limit
<1>4. log + b + 1 <= Limit + (x + y)
  BY <1>1, <1>2, <1>3
<1> QED
  BY <1>4 DEF Spare

LEMMA SizedNext ==
  ASSUME Files, Files', Sized, [Next]_vars
  PROVE  Sized'
<1> DEFINE old == SizeOf(Contents("old"))
           log == SizeOf(Contents("log"))
           polling == handle["evaluator"].step
           count == handle["evaluator"].written
           step == handle["shutdown"].step
           closing == handle["shutdown"].written
           through == Len(written) = MaxLines
<1>1. PICK xo, xl \in 0..Cost :
            xo + xl <= Cost /\ Fits(xo, xl, old, log, stage, polling, count, step, closing, through)
  BY Zenon DEF Sized, Room
<1>2. /\ xo \in Nat /\ xl \in Nat /\ old \in Nat /\ log \in Nat
      /\ MaxBytes \in Nat \ {0} /\ LongLine \in Nat \ {0}
      /\ torn \in Nat /\ ends \in Nat /\ faults \in Nat /\ stray \in Nat /\ Len(written) \in Nat
  BY <1>1, SizesTyped, TypedNumbers, LogFileAssumption DEF Files
<1>3. Cost \in Nat
  BY <1>2, CostOf DEF Cost
<1>4. /\ count \in Nat /\ closing \in Nat /\ polling \in Step /\ step \in Step
      /\ "evaluator" \in Handle /\ "shutdown" \in Handle /\ Handle = {"evaluator", "shutdown"}
  BY TypedNumbers DEF Files, Handle
<1>5. /\ polling = "closed" <=> stage = "down"
      /\ step # "closed" <=> stage = "stopping"
      /\ stage \in {"down", "running", "stopping"}
  BY TypedNumbers DEF Files, Opens
<1> HIDE DEF old, log, polling, count, step, closing, through
<1>6. CASE Start
  <2>1. /\ stage = "down" /\ stage' = "running" /\ Reopened("evaluator", Length, "fresh")
        /\ UNCHANGED <<written, torn, ends, faults, stray>>
    BY <1>6 DEF Start
  <2>2. "fresh" \in Step /\ Length \in Nat
    BY LengthTyped DEF Step, Files
  <2>3. /\ handle'["evaluator"].step = "fresh"
        /\ handle'["evaluator"].written = IF name["log"] = 0 THEN 0 ELSE Length
        /\ handle'["shutdown"] = handle["shutdown"]
    BY <1>4, <2>1, <2>2, ReopenedFiles DEF Files
  <2>4. SizeOf(Contents("old"))' = old /\ SizeOf(Contents("log"))' = log
    BY <1>4, <2>1, <2>2, ReopenedContents DEF Files, old, log
  <2>5. Length = log /\ (name["log"] = 0 => log = 0)
    BY SizeOfNone DEF Length, log, Contents
  <2>6. Fits(xo, xl, old, log, "running", "fresh", log, step, closing, through)
    BY <1>1, <1>2, <2>1 DEF Fits, FitsRunning, Spare, Limit
  <2>7. Room(xo, xl)'
    BY <2>1, <2>3, <2>4, <2>5, <2>6 DEF Room, through, step, closing
  <2>8. Cost' = Cost
    BY <2>1 DEF Cost
  <2> QED
    BY <1>1, <1>2, <2>7, <2>8, SizedByRoom DEF Files
<1>7. CASE Stop
  <2>1. /\ stage = "running" /\ stage' = "stopping" /\ Reopened("shutdown", Length, "fresh")
        /\ handle["evaluator"].step # "fresh"
        /\ UNCHANGED <<written, torn, ends, faults, stray>>
    BY <1>7 DEF Stop
  <2>2. "fresh" \in Step /\ Length \in Nat
    BY LengthTyped DEF Step, Files
  <2>3. /\ handle'["shutdown"].step = "fresh"
        /\ handle'["shutdown"].written = IF name["log"] = 0 THEN 0 ELSE Length
        /\ handle'["evaluator"] = handle["evaluator"]
    BY <1>4, <2>1, <2>2, ReopenedFiles DEF Files
  <2>4. SizeOf(Contents("old"))' = old /\ SizeOf(Contents("log"))' = log
    BY <1>4, <2>1, <2>2, ReopenedContents DEF Files, old, log
  <2>5. Length = log /\ (name["log"] = 0 => log = 0)
    BY SizeOfNone DEF Length, log, Contents
  <2>6. polling # "fresh"
    BY <2>1 DEF polling
  <2>7. Fits(xo, xl, old, log, "stopping", polling, count, "fresh", log, through)
    BY <1>1, <1>2, <1>4, <2>1, <2>6 DEF Fits, FitsRunning, FitsStopping, Spare, Limit
  <2>8. Room(xo, xl)'
    BY <2>1, <2>3, <2>4, <2>5, <2>7 DEF Room, through, polling, count
  <2>9. Cost' = Cost
    BY <2>1 DEF Cost
  <2> QED
    BY <1>1, <1>2, <2>8, <2>9, SizedByRoom DEF Files
<1>8. ASSUME NEW h \in Handle, AppendLine(h) PROVE Sized'
  <2>1. PICK record \in NextRecords(h) :
            /\ handle[h].file \in 1..Len(disk)
            /\ Whole(record) \in Line
            /\ Extended(handle[h].file, Whole(record))
            /\ \A g \in Handle \ {h} : handle'[g] = handle[g]
            /\ handle'[h].written = handle[h].written + Bytes(Whole(record))
            /\ handle'[h].step = IF handle'[h].written >= MaxBytes THEN "rename" ELSE "idle"
            /\ stray' = IF Astray(h) THEN stray + Bytes(Whole(record)) ELSE stray
    BY <1>8, LineWritten DEF Files
  <2>2. /\ handle[h].step \in {"fresh", "idle"} /\ Len(written) < MaxLines
        /\ NextRecords(h) # {}
        /\ UNCHANGED <<name, stage, torn, ends, faults>>
    BY <1>8, <2>1 DEF AppendLine
  <2> DEFINE bytes == Bytes(Whole(record))
  <2>3. PICK a, b \in 0..LongLine :
            /\ SizeOf(Contents("old"))' = old + a
            /\ SizeOf(Contents("log"))' = log + b
            /\ a + b <= bytes
            /\ handle[h].file = name["log"] => a = 0 /\ b = bytes
            /\ handle[h].file # name["log"] => b = 0
    BY <2>1, <2>2, LineContents DEF Files, old, log
  <2>4. bytes \in Nat \ {0} /\ bytes <= LongLine /\ (handle[h].step = "fresh" => bytes = 1)
    BY BytesTyped, NextRecordsTyped DEF Files, Whole
  <2>5. stray' = IF Astray(h) THEN stray + bytes ELSE stray
    BY <2>1
  <2>6. \/ h = "evaluator" /\ stage # "down"
        \/ h = "shutdown" /\ stage = "stopping" /\ step = "fresh"
    BY <1>4, <1>5, <2>2 DEF NextRecords, polling, step
  <2>7. ~through
    BY <1>2, <2>2, LogFileAssumption DEF through
  <2>8. a \in Nat /\ b \in Nat /\ b <= b
    BY <1>2, <2>3
  <2>9. old <= Limit + xo /\ log <= Limit + xl /\ Limit \in Nat
    BY <1>1, <1>2 DEF Fits, Limit
  <2> DEFINE After(n) == IF n >= MaxBytes THEN "rename" ELSE "idle"
             more == Len(written') = MaxLines
  <2>10. CASE h = "evaluator"
    <3>1. polling \in {"fresh", "idle"} /\ (polling = "fresh" => bytes = 1)
      BY <2>2, <2>4, <2>10 DEF polling
    <3>2. /\ handle'["shutdown"] = handle["shutdown"]
          /\ handle'["evaluator"].written = count + bytes
          /\ handle'["evaluator"].step = After(count + bytes)
      BY <1>4, <2>1, <2>10 DEF count
    <3>3. CASE Astray(h)
      <4>1. Cost' = Cost + bytes
        BY <1>2, <2>2, <2>4, <2>5, <3>3, CostOf DEF Cost
      <4>2. stage = "running" => b = 0
        BY <2>3, <2>10, <3>3 DEF Astray
      <4> HIDE DEF bytes, more
      <4>3. xo + a \in Nat /\ xl + b \in Nat /\ (xo + a) + (xl + b) <= Cost'
        BY <1>1, <1>2, <1>3, <2>3, <2>4, <4>1
      <4>4. Fits(xo + a, xl + b, old + a, log + b, stage, After(count + bytes), count + bytes,
                 step, closing, more)
        <5>1. old + a <= Limit + (xo + a) /\ log + b <= Limit + (xl + b)
          BY <1>2, <2>8, <2>9
        <5>2. ASSUME stage = "running"
              PROVE  FitsRunning(log + b, xl + b, After(count + bytes), count + bytes)
          BY <1>1, <1>2, <1>4, <2>4, <2>7, <3>1, <4>2, <5>2 DEF Fits, FitsRunning
        <5>3. ASSUME stage = "stopping"
              PROVE  FitsStopping(log + b, xl + b, After(count + bytes), step, closing)
          <6>1. FitsStopping(log, xl, polling, step, closing)
            BY <1>1, <2>7, <5>3 DEF Fits
          <6>2. Spare(log, xl) => Spare(log + b, xl + b)
            BY <1>2, <2>8, SpareKept
          <6>3. log <= closing + xl => log + b <= closing + (xl + b)
            BY <1>2, <1>4, <2>3
          <6>4. log <= xl => log + b <= xl + b
            BY <1>2, <2>3
          <6> QED
            BY <3>1, <6>1, <6>2, <6>3, <6>4 DEF FitsStopping
        <5> QED
          BY <1>5, <2>6, <2>10, <5>1, <5>2, <5>3 DEF Fits
      <4>5. Room(xo + a, xl + b)'
        BY <2>2, <2>3, <3>2, <4>4 DEF Room, step, closing, more
      <4> QED
        BY <4>3, <4>5, SizedByRoom DEF Files
    <3>4. CASE ~Astray(h)
      <4>1. stage = "running" /\ a = 0 /\ b = bytes
        BY <1>5, <2>3, <2>6, <2>10, <3>4 DEF Astray
      <4>2. Cost' = Cost
        BY <2>2, <2>5, <3>4 DEF Cost
      <4> HIDE DEF bytes, more
      <4>3. Fits(xo, xl, old + a, log + b, stage, After(count + bytes), count + bytes,
                 step, closing, more)
        BY <1>1, <1>2, <1>4, <2>3, <2>4, <2>7, <3>1, <4>1 DEF Fits, FitsRunning, Spare, Limit
      <4>4. Room(xo, xl)'
        BY <2>2, <2>3, <3>2, <4>3 DEF Room, step, closing, more
      <4> QED
        BY <1>1, <1>2, <4>2, <4>4, SizedByRoom DEF Files
    <3> QED
      BY <3>3, <3>4
  <2>11. CASE h = "shutdown"
    <3>1. stage = "stopping" /\ step = "fresh" /\ bytes = 1
      BY <2>4, <2>6, <2>11 DEF step
    <3>2. /\ handle'["evaluator"] = handle["evaluator"]
          /\ handle'["shutdown"].written = closing + bytes
          /\ handle'["shutdown"].step = After(closing + bytes)
      BY <1>4, <2>1, <2>11 DEF closing
    <3>3. CASE Astray(h)
      <4>1. Cost' = Cost + bytes
        BY <1>2, <2>2, <2>4, <2>5, <3>3, CostOf DEF Cost
      <4> HIDE DEF bytes, more
      <4>2. xo + a \in Nat /\ xl + b \in Nat /\ (xo + a) + (xl + b) <= Cost'
        BY <1>1, <1>2, <1>3, <2>3, <2>4, <4>1
      <4>3. Fits(xo + a, xl + b, old + a, log + b, stage, polling, count,
                 After(closing + bytes), closing + bytes, more)
        <5>1. old + a <= Limit + (xo + a) /\ log + b <= Limit + (xl + b)
          BY <1>2, <2>8, <2>9
        <5>2. FitsStopping(log, xl, polling, step, closing)
          BY <1>1, <2>7, <3>1 DEF Fits
        <5>3. Spare(log, xl) => Spare(log + b, xl + b)
          BY <1>2, <2>8, SpareKept
        <5>4. log <= xl => log + b <= xl + b
          BY <1>2, <2>3
        <5>5. FitsStopping(log + b, xl + b, polling, After(closing + bytes), closing + bytes)
          BY <3>1, <5>2, <5>3, <5>4 DEF FitsStopping
        <5> QED
          BY <3>1, <5>1, <5>5 DEF Fits
      <4>4. Room(xo + a, xl + b)'
        BY <2>2, <2>3, <3>2, <4>3 DEF Room, polling, count, more
      <4> QED
        BY <4>2, <4>4, SizedByRoom DEF Files
    <3>4. CASE ~Astray(h)
      <4>1. polling = "idle" /\ a = 0 /\ b = bytes
        BY <2>3, <3>1, <3>4 DEF Astray, polling
      <4>2. Cost' = Cost
        BY <2>2, <2>5, <3>4 DEF Cost
      <4> HIDE DEF bytes, more
      <4>3. Fits(xo, xl, old + a, log + b, stage, polling, count,
                 After(closing + bytes), closing + bytes, more)
        BY <1>1, <1>2, <1>4, <2>3, <2>4, <2>7, <3>1, <4>1 DEF Fits, FitsStopping, Spare, Limit
      <4>4. Room(xo, xl)'
        BY <2>2, <2>3, <3>2, <4>3 DEF Room, polling, count, more
      <4> QED
        BY <1>1, <1>2, <4>2, <4>4, SizedByRoom DEF Files
    <3> QED
      BY <3>3, <3>4
  <2> QED
    BY <2>6, <2>10, <2>11
<1>9. ASSUME NEW h \in Handle, TearLine(h) PROVE Sized'
  <2>1. PICK record \in NextRecords(h) :
            /\ handle[h].file \in 1..Len(disk)
            /\ Torn(record) \in Line
            /\ Extended(handle[h].file, Torn(record))
            /\ \A g \in Handle \ {h} : handle'[g] = handle[g]
            /\ handle'[h].written = handle[h].written
            /\ handle'[h].step = "idle"
    BY <1>9, LineTorn DEF Files
  <2>2. /\ handle[h].step \in {"fresh", "idle"} /\ torn' = torn + 1
        /\ NextRecords(h) # {}
        /\ UNCHANGED <<name, stage, written, ends, faults, stray>>
    BY <1>9, <2>1 DEF TearLine
  <2> DEFINE bytes == Bytes(Torn(record))
  <2>3. PICK a, b \in 0..LongLine :
            /\ SizeOf(Contents("old"))' = old + a
            /\ SizeOf(Contents("log"))' = log + b
            /\ a + b <= bytes
            /\ handle[h].file = name["log"] => a = 0 /\ b = bytes
            /\ handle[h].file # name["log"] => b = 0
    BY <2>1, <2>2, LineContents DEF Files, old, log
  <2>4. bytes \in Nat \ {0} /\ bytes <= LongLine /\ (handle[h].step = "fresh" => bytes = 1)
    BY BytesTyped, NextRecordsTyped DEF Files, Torn
  <2>5. \/ h = "evaluator" /\ stage # "down"
        \/ h = "shutdown" /\ stage = "stopping" /\ step = "fresh"
    BY <1>4, <1>5, <2>2 DEF NextRecords, polling, step
  <2>6. Cost' = Cost + LongLine
    BY <1>2, <2>2, CostOf DEF Cost
  <2> HIDE DEF bytes
  <2>7. a = 0 \/ b = 0
    BY <2>3
  <2> DEFINE ya == xo + a
             yb == xl + (LongLine - a)
  <2>8. ya \in Nat /\ yb \in Nat /\ ya + yb <= Cost'
    <3>1. a \in Nat /\ LongLine - a \in Nat
      BY <1>2, <2>3
    <3>2. ya + yb = xo + xl + LongLine
      BY <1>2, <3>1
    <3> QED
      BY <1>1, <1>2, <1>3, <2>6, <3>1, <3>2
  <2>9. CASE h = "evaluator"
    <3>1. /\ polling \in {"fresh", "idle"} /\ (polling = "fresh" => bytes = 1)
          /\ polling = "fresh" /\ stage = "running" => a = 0 /\ b = bytes
      BY <2>2, <2>3, <2>4, <2>9 DEF polling, Files, Opens
    <3>2. /\ handle'["shutdown"] = handle["shutdown"]
          /\ handle'["evaluator"].written = count
          /\ handle'["evaluator"].step = "idle"
      BY <1>4, <2>1, <2>9 DEF count
    <3>3. Fits(ya, yb, old + a, log + b, stage, "idle", count, step, closing, through)
      <4>1. old + a <= Limit + ya /\ log + b <= Limit + yb
        BY <1>1, <1>2, <2>3, <2>7 DEF Fits, Limit
      <4>2. ASSUME stage = "running", ~through
            PROVE  FitsRunning(log + b, yb, "idle", count)
        <5>1. FitsRunning(log, xl, polling, count)
          BY <1>1, <4>2 DEF Fits
        <5>2. log + b <= count + yb
          BY <1>2, <1>4, <2>3, <2>7, <3>1, <5>1 DEF FitsRunning
        <5>3. CASE polling = "fresh"
          BY <1>2, <1>4, <2>3, <2>4, <3>1, <4>2, <5>1, <5>2, <5>3 DEF FitsRunning, Spare, Limit
        <5>4. CASE polling = "idle"
          <6>1. count >= MaxBytes => log + LongLine <= Limit + xl
            BY <5>1, <5>4 DEF FitsRunning
          <6>2. Limit \in Nat /\ LongLine - a \in Nat /\ b <= LongLine - a /\ b \in Nat
            BY <1>2, <2>3, <2>7 DEF Limit
          <6>3. count >= MaxBytes => log + b + LongLine <= Limit + yb
            BY <1>2, <6>1, <6>2
          <6> QED
            BY <5>2, <6>3 DEF FitsRunning
        <5> QED
          BY <3>1, <5>3, <5>4
      <4>3. ASSUME stage = "stopping", ~through
            PROVE  FitsStopping(log + b, yb, "idle", step, closing)
        <5>1. FitsStopping(log, xl, polling, step, closing)
          BY <1>1, <4>3 DEF Fits
        <5>2. LongLine - a \in Nat /\ b <= LongLine - a /\ b \in Nat
          BY <1>2, <2>3, <2>7
        <5>3. Spare(log, xl) => Spare(log + b, yb)
          BY <1>2, <5>2, SpareKept
        <5>4. log <= closing + xl => log + b <= closing + yb
          BY <1>2, <1>4, <5>2
        <5>5. log <= xl => log + b <= yb
          BY <1>2, <5>2
        <5> QED
          BY <3>1, <5>1, <5>3, <5>4, <5>5 DEF FitsStopping
      <4> QED
        BY <1>5, <2>5, <2>9, <4>1, <4>2, <4>3 DEF Fits
    <3> HIDE DEF ya, yb
    <3>4. Room(ya, yb)'
      BY <2>2, <2>3, <3>2, <3>3 DEF Room, step, closing, through
    <3> QED
      BY <2>8, <3>4, SizedByRoom DEF Files
  <2>10. CASE h = "shutdown"
    <3>1. stage = "stopping" /\ step = "fresh" /\ bytes = 1
      BY <2>4, <2>5, <2>10 DEF step
    <3>2. /\ handle'["evaluator"] = handle["evaluator"]
          /\ handle'["shutdown"].written = closing
          /\ handle'["shutdown"].step = "idle"
      BY <1>4, <2>1, <2>10 DEF closing
    <3>3. Fits(ya, yb, old + a, log + b, stage, polling, count, "idle", closing, through)
      BY <1>1, <1>2, <1>4, <2>3, <2>4, <2>7, <3>1 DEF Fits, FitsStopping, Spare, Limit
    <3> HIDE DEF ya, yb
    <3>4. Room(ya, yb)'
      BY <2>2, <2>3, <3>2, <3>3 DEF Room, polling, count, through
    <3> QED
      BY <2>8, <3>4, SizedByRoom DEF Files
  <2> QED
    BY <2>5, <2>9, <2>10
<1>10. ASSUME NEW h \in Handle, Rename(h) PROVE Sized'
  <2>1. /\ handle[h].step = "rename" /\ name["log"] # 0
        /\ name' = [log |-> 0, old |-> name["log"]]
        /\ handle' = [handle EXCEPT ![h].step = "reopen"] /\ "reopen" \in Step
        /\ UNCHANGED <<disk, stage, written, torn, ends, faults, stray>>
    BY <1>10 DEF Rename, Step
  <2>2. /\ \A g \in Handle \ {h} : handle'[g] = handle[g]
        /\ handle'[h].written = handle[h].written
        /\ handle'[h].step = "reopen"
    BY <2>1, StepTaken DEF Files
  <2>3. Contents("old")' = Contents("log") /\ Contents("log")' = <<>>
    BY <2>1 DEF Contents
  <2>4. SizeOf(Contents("old"))' = log /\ SizeOf(Contents("log"))' = 0
    BY <2>3, SizeOfNone DEF log
  <2>5. Cost' = Cost
    BY <2>1 DEF Cost
  <2>6. 0 \in Nat /\ xl + 0 <= Cost'
    BY <1>1, <1>2, <1>3, <2>5
  <2>7. CASE h = "evaluator"
    <3>1. polling = "rename"
      BY <2>1, <2>7 DEF polling
    <3>2. Fits(xl, 0, log, 0, stage, "reopen", count, step, closing, through)
      BY <1>1, <1>2, <1>4, <1>5, <3>1 DEF Fits, FitsRunning, FitsStopping, Spare, Limit
    <3>3. Room(xl, 0)'
      BY <1>4, <2>1, <2>2, <2>4, <2>7, <3>2 DEF Room, count, step, closing, through
    <3> QED
      BY <1>2, <2>6, <3>3, SizedByRoom DEF Files
  <2>8. CASE h = "shutdown"
    <3>1. step = "rename"
      BY <2>1, <2>8 DEF step
    <3>2. Fits(xl, 0, log, 0, stage, polling, count, "reopen", closing, through)
      BY <1>1, <1>2, <1>4, <1>5, <3>1 DEF Fits, FitsStopping, Spare, Limit
    <3>3. Room(xl, 0)'
      BY <1>4, <2>1, <2>2, <2>4, <2>8, <3>2 DEF Room, count, polling, closing, through
    <3> QED
      BY <1>2, <2>6, <3>3, SizedByRoom DEF Files
  <2> QED
    BY <1>4, <2>7, <2>8
<1>11. ASSUME NEW h \in Handle, RenameFails(h) PROVE Sized'
  <2>1. /\ handle[h].step = "rename"
        /\ IF name["log"] = 0 THEN faults' = faults ELSE faults' = faults + 1
        /\ handle' = [handle EXCEPT ![h].step = "idle"] /\ "idle" \in Step
        /\ UNCHANGED <<disk, name, stage, written, torn, ends, stray>>
    BY <1>11 DEF RenameFails, Step
  <2>2. /\ \A g \in Handle \ {h} : handle'[g] = handle[g]
        /\ handle'[h].written = handle[h].written
        /\ handle'[h].step = "idle"
    BY <2>1, StepTaken DEF Files
  <2>3. SizeOf(Contents("old"))' = old /\ SizeOf(Contents("log"))' = log
    BY <2>1 DEF old, log, Contents
  <2>4. PICK y \in Nat : xo + y <= Cost' /\ ((log = 0 /\ y = xl) \/ y = xl + LongLine)
    <3>1. CASE name["log"] = 0
      BY <1>1, <1>2, <2>1, <3>1, SizeOfNone DEF Cost, log, Contents
    <3>2. CASE name["log"] # 0
      <4>1. Cost' = Cost + LongLine
        BY <1>2, <2>1, <3>2, CostOf DEF Cost
      <4>2. xl + LongLine \in Nat /\ xo + (xl + LongLine) <= Cost'
        BY <1>1, <1>2, <1>3, <4>1
      <4> QED
        BY <4>2
    <3> QED
      BY <3>1, <3>2
  <2>5. CASE h = "evaluator"
    <3>1. polling = "rename"
      BY <2>1, <2>5 DEF polling
    <3>2. Fits(xo, y, old, log, stage, "idle", count, step, closing, through)
      BY <1>1, <1>2, <1>4, <1>5, <2>4, <3>1 DEF Fits, FitsRunning, FitsStopping, Spare, Limit
    <3>3. Room(xo, y)'
      BY <1>4, <2>1, <2>2, <2>3, <2>5, <3>2 DEF Room, count, step, closing, through
    <3> QED
      BY <1>2, <2>4, <3>3, SizedByRoom DEF Files
  <2>6. CASE h = "shutdown"
    <3>1. step = "rename"
      BY <2>1, <2>6 DEF step
    <3>2. Fits(xo, y, old, log, stage, polling, count, "idle", closing, through)
      BY <1>1, <1>2, <1>4, <1>5, <2>4, <3>1 DEF Fits, FitsStopping, Spare, Limit
    <3>3. Room(xo, y)'
      BY <1>4, <2>1, <2>2, <2>3, <2>6, <3>2 DEF Room, count, polling, closing, through
    <3> QED
      BY <1>2, <2>4, <3>3, SizedByRoom DEF Files
  <2> QED
    BY <1>4, <2>5, <2>6
<1>12. ASSUME NEW h \in Handle, Reopen(h) PROVE Sized'
  <2>1. /\ handle[h].step = "reopen" /\ Reopened(h, 0, "idle") /\ "idle" \in Step /\ 0 \in Nat
        /\ UNCHANGED <<stage, written, torn, ends, faults, stray>>
    BY <1>12 DEF Reopen, Step
  <2>2. /\ \A g \in Handle \ {h} : handle'[g] = handle[g]
        /\ handle'[h].written = 0
        /\ handle'[h].step = "idle"
    BY <2>1, ReopenedFiles DEF Files
  <2>3. SizeOf(Contents("old"))' = old /\ SizeOf(Contents("log"))' = log
    BY <2>1, ReopenedContents DEF Files, old, log
  <2>4. Cost' = Cost
    BY <2>1 DEF Cost
  <2>5. CASE h = "evaluator"
    <3>1. polling = "reopen"
      BY <2>1, <2>5 DEF polling
    <3>2. Fits(xo, xl, old, log, stage, "idle", 0, step, closing, through)
      BY <1>1, <1>2, <1>4, <1>5, <3>1 DEF Fits, FitsRunning, FitsStopping, Spare, Limit
    <3>3. Room(xo, xl)'
      BY <1>4, <2>1, <2>2, <2>3, <2>5, <3>2 DEF Room, step, closing, through
    <3> QED
      BY <1>1, <1>2, <2>4, <3>3, SizedByRoom DEF Files
  <2>6. CASE h = "shutdown"
    <3>1. step = "reopen"
      BY <2>1, <2>6 DEF step
    <3>2. Fits(xo, xl, old, log, stage, polling, count, "idle", 0, through)
      BY <1>1, <1>2, <1>4, <1>5, <3>1 DEF Fits, FitsStopping, Spare, Limit
    <3>3. Room(xo, xl)'
      BY <1>4, <2>1, <2>2, <2>3, <2>6, <3>2 DEF Room, count, polling, through
    <3> QED
      BY <1>1, <1>2, <2>4, <3>3, SizedByRoom DEF Files
  <2> QED
    BY <1>4, <2>5, <2>6
<1>13. ASSUME NEW h \in Handle, ReopenFails(h) PROVE Sized'
  <2>1. /\ handle[h].step = "reopen" /\ faults' = faults + 1
        /\ handle' = [handle EXCEPT ![h].step = "idle"] /\ "idle" \in Step
        /\ UNCHANGED <<disk, name, stage, written, torn, ends, stray>>
    BY <1>13 DEF ReopenFails, Step
  <2>2. /\ \A g \in Handle \ {h} : handle'[g] = handle[g]
        /\ handle'[h].written = handle[h].written
        /\ handle'[h].step = "idle"
    BY <2>1, StepTaken DEF Files
  <2>3. SizeOf(Contents("old"))' = old /\ SizeOf(Contents("log"))' = log
    BY <2>1 DEF old, log, Contents
  <2>4. Cost' = Cost + LongLine
    BY <1>2, <2>1, CostOf DEF Cost
  <2>5. xo + xl <= Cost'
    BY <1>1, <1>2, <1>3, <2>4
  <2>6. CASE h = "evaluator"
    <3>1. polling = "reopen"
      BY <2>1, <2>6 DEF polling
    <3>2. Fits(xo, xl, old, log, stage, "idle", count, step, closing, through)
      BY <1>1, <1>2, <1>4, <1>5, <3>1 DEF Fits, FitsRunning, FitsStopping, Spare, Limit
    <3>3. Room(xo, xl)'
      BY <1>4, <2>1, <2>2, <2>3, <2>6, <3>2 DEF Room, count, step, closing, through
    <3> QED
      BY <1>2, <2>5, <3>3, SizedByRoom DEF Files
  <2>7. CASE h = "shutdown"
    <3>1. step = "reopen"
      BY <2>1, <2>7 DEF step
    <3>2. Fits(xo, xl, old, log, stage, polling, count, "idle", closing, through)
      BY <1>1, <1>2, <1>4, <1>5, <3>1 DEF Fits, FitsStopping, Spare, Limit
    <3>3. Room(xo, xl)'
      BY <1>4, <2>1, <2>2, <2>3, <2>7, <3>2 DEF Room, count, polling, closing, through
    <3> QED
      BY <1>2, <2>5, <3>3, SizedByRoom DEF Files
  <2> QED
    BY <1>4, <2>6, <2>7
<1>14. CASE End
  <2>1. /\ stage # "down" /\ stage' = "down" /\ handle' = [h \in Handle |-> Closed]
        /\ UNCHANGED <<disk, name, written, torn, faults, stray>>
        /\ \/ Through /\ ends' = ends
           \/ ends' = ends + 1
    BY <1>14 DEF End
  <2>2. SizeOf(Contents("old"))' = old /\ SizeOf(Contents("log"))' = log
    BY <2>1 DEF old, log, Contents
  <2> DEFINE gone == Closed.step
             none == Closed.written
  <2>3. /\ (handle["evaluator"].step)' = gone /\ (handle["evaluator"].written)' = none
        /\ (handle["shutdown"].step)' = gone /\ (handle["shutdown"].written)' = none
    BY <1>4, <2>1
  <2> HIDE DEF gone, none
  <2>4. CASE Through /\ ends' = ends
    <3>1. (stage = "stopping" /\ polling = "idle" /\ step = "idle") \/ through
      BY <1>4, <2>4 DEF Through, step, polling, through
    <3>2. Fits(xo, xl, old, log, "down", gone, none, gone, none, through)
      BY <1>1, <1>2, <3>1 DEF Fits, FitsStopping, Spare, Limit
    <3>3. Room(xo, xl)'
      BY <2>1, <2>2, <2>3, <3>2 DEF Room, through
    <3>4. Cost' = Cost
      BY <2>1, <2>4 DEF Cost
    <3> QED
      BY <1>1, <1>2, <3>3, <3>4, SizedByRoom DEF Files
  <2>5. CASE ends' = ends + 1
    <3>1. Fits(xo, xl + 1, old, log, "down", gone, none, gone, none, through)
      BY <1>1, <1>2 DEF Fits, Spare, Limit
    <3>2. Room(xo, xl + 1)'
      BY <2>1, <2>2, <2>3, <3>1 DEF Room, through
    <3>3. Cost' = Cost + 1
      BY <1>2, <2>1, <2>5, CostOf DEF Cost
    <3>4. xl + 1 \in Nat /\ xo + (xl + 1) <= Cost'
      BY <1>1, <1>2, <1>3, <3>3
    <3> QED
      BY <1>2, <3>2, <3>4, SizedByRoom DEF Files
  <2> QED
    BY <2>1, <2>4, <2>5
<1>15. CASE ReadFirst \/ UNCHANGED vars
  <2>1. UNCHANGED <<disk, name, handle, stage, written, torn, ends, faults, stray>>
    BY <1>15 DEF ReadFirst, vars
  <2>2. Room(xo, xl)' /\ Cost' = Cost
    BY <1>1, <2>1 DEF Room, old, log, count, step, polling, closing, through, Cost, Contents
  <2> QED
    BY <1>1, <1>2, <2>2, SizedByRoom DEF Files
<1> QED
  BY <1>6, <1>7, <1>8, <1>9, <1>10, <1>11, <1>12, <1>13, <1>14, <1>15 DEF Next

LEMMA SizedInit ==
  ASSUME Init
  PROVE  Sized
<1>1. Contents("old") = <<>> /\ Contents("log") = <<>> /\ stage = "down"
  BY DEF Init, Contents
<1>2. /\ MaxBytes \in Nat \ {0} /\ LongLine \in Nat \ {0} /\ (0 + 0) * LongLine = 0
  BY LogFileAssumption
<1>3. Room(0, 0)
  BY <1>1, <1>2, SizeOfNone DEF Room, Fits, Spare, Limit
<1>4. Cost = 0
  BY <1>2 DEF Cost, Init
<1>5. 0 \in 0..Cost /\ 0 + 0 <= Cost
  BY <1>4
<1> QED
  BY <1>3, <1>5 DEF Sized

\* Where a sum of two is at most a number, each is.
LEMMA SizedIsBounded ==
  ASSUME Files, Sized
  PROVE  Bounded
<1>1. PICK xo, xl \in 0..Cost : xo + xl <= Cost /\ Room(xo, xl)
  BY DEF Sized
<1>2. /\ SizeOf(Contents("old")) \in Nat /\ SizeOf(Contents("log")) \in Nat
      /\ MaxBytes \in Nat /\ LongLine \in Nat
  BY SizesTyped, LogFileAssumption DEF Files, Typed
<1>3. Cost \in Nat
  BY CostOf DEF Cost, Files, Typed
<1>4. /\ SizeOf(Contents("old")) <= MaxBytes + LongLine - 1 + xo
      /\ SizeOf(Contents("log")) <= MaxBytes + LongLine - 1 + xl
  BY <1>1 DEF Room, Fits, Limit
<1>5. SizeOf(Contents("old")) + SizeOf(Contents("log")) <= 2 * (MaxBytes + LongLine - 1) + Cost
  BY <1>1, <1>2, <1>3, <1>4
<1>6. 2 * (MaxBytes + LongLine - 1) + Cost
        = 2 * (MaxBytes + LongLine - 1) + ends + (torn + faults) * LongLine + stray
  <2> DEFINE c == (torn + faults) * LongLine
  <2>1. c \in Nat /\ ends \in Nat /\ stray \in Nat
    BY LogFileAssumption DEF Files, Typed
  <2>2. Cost = ends + c + stray
    BY DEF Cost
  <2> HIDE DEF c
  <2>3. 2 * (MaxBytes + LongLine - 1) + Cost = 2 * (MaxBytes + LongLine - 1) + ends + c + stray
    BY <1>2, <2>1, <2>2
  <2> QED
    BY <2>3 DEF c
<1> QED
  BY <1>5, <1>6 DEF Bounded

\* The two files of the log outgrow twice max_bytes by no more than their last lines, and
\* what kills, torn lines, failures of rotate and stray lines account for, each once:
\* append and rotate of src/src/incidents.rs, watch_mode of src/src/main.rs.
THEOREM BoundedAlways == Spec => []Bounded
<1>1. Init => Files /\ Sized
  BY FilesInit, SizedInit
<1>2. Files /\ Sized /\ [Next]_vars => (Files /\ Sized)'
  BY FilesNext, SizedNext
<1>3. Files /\ Sized => Bounded
  BY SizedIsBounded
<1> QED
  BY <1>1, <1>2, <1>3, PTL DEF Spec

-----------------------------------------------------------------------------
(* Lines in the order they were written *)

LEMMA DiskProperty ==
  ASSUME NEW d \in Seq(Seq(Line))
  PROVE  /\ Len(d) \in Nat
         /\ DOMAIN d = 1..Len(d)
         /\ \A f \in 1..Len(d) :
                d[f] \in Seq(Line) /\ Len(d[f]) \in Nat /\ DOMAIN d[f] = 1..Len(d[f])
<1>1. ASSUME NEW f \in 1..Len(d) PROVE d[f] \in Seq(Line)
  OBVIOUS
<1>2. ASSUME NEW f \in 1..Len(d) PROVE Len(d[f]) \in Nat /\ DOMAIN d[f] = 1..Len(d[f])
  BY <1>1
<1> QED
  BY <1>1, <1>2

LEMMA AppendProperty ==
  ASSUME NEW L, NEW s \in Seq(L), NEW e \in L
  PROVE  /\ Append(s, e) \in Seq(L)
         /\ Len(s) \in Nat /\ DOMAIN s = 1..Len(s)
         /\ Len(Append(s, e)) = Len(s) + 1
         /\ DOMAIN Append(s, e) = 1..(Len(s) + 1)
         /\ Append(s, e)[Len(s) + 1] = e
         /\ \A i \in 1..Len(s) : Append(s, e)[i] = s[i]
  OBVIOUS

LEMMA ConcatProperty ==
  ASSUME NEW L, NEW s \in Seq(L), NEW t \in Seq(L)
  PROVE  /\ s \o t \in Seq(L) /\ Len(s \o t) = Len(s) + Len(t)
         /\ \A k \in 1..(Len(s) + Len(t)) : (s \o t)[k] = IF k <= Len(s) THEN s[k] ELSE t[k - Len(s)]
  OBVIOUS

LEMMA KeptInit ==
  ASSUME Init
  PROVE  Kept /\ Counted /\ Reading
<1>1. Kept
  <2> DEFINE start == [f \in 1..1 |-> 0]
  <2>1. disk = <<>> /\ written = <<>> /\ Len(disk) = 0 /\ DOMAIN disk = {} /\ DOMAIN written = {}
    BY DEF Init
  <2>2. start \in [1..(Len(disk) + 1) -> 0..Len(written)] /\ start[1] = 0
    BY <2>1
  <2> HIDE DEF start
  <2>3. Follow(start)
    BY <2>1, <2>2 DEF Follow
  <2> QED
    BY <2>1, <2>2, <2>3 DEF Kept
<1>2. Counted
  BY DEF Init, Counted
<1>3. Reading
  BY DEF Init, Reading
<1> QED
  BY <1>1, <1>2, <1>3

\* A file that is created starts where the writing is.
LEMMA KeptCreated ==
  ASSUME Typed, Typed', Kept, Created \/ disk' = disk, UNCHANGED <<written, torn>>,
         ~overlap' => ~overlap
  PROVE  Kept'
<1> SUFFICES ASSUME torn' = 0, ~overlap' PROVE Kept'
  BY DEF Kept
<1>1. PICK start \in [1..(Len(disk) + 1) -> 0..Len(written)] : Follow(start)
  BY DEF Kept
<1>2. \A k \in DOMAIN written' : written'[k].ts = k - 1
  BY DEF Kept
<1>3. CASE disk' = disk
  <2>1. Follow(start)'
    BY <1>1, <1>3 DEF Follow
  <2> QED
    BY <1>1, <1>2, <1>3, <2>1 DEF Kept
<1>4. CASE Created
  <2> DEFINE n == Len(disk)
  <2>0. PICK begin : begin = [f \in 1..(n + 2) |-> IF f = n + 2 THEN Len(written) ELSE start[f]]
    OBVIOUS
  <2>1. /\ n \in Nat /\ Len(written) \in Nat /\ Len(disk') = n + 1 /\ disk'[n + 1] = <<>>
        /\ \A g \in 1..n : disk'[g] = disk[g]
        /\ DOMAIN disk = 1..n /\ DOMAIN disk' = 1..(n + 1)
    <3>1. disk \in Seq(Seq(Line)) /\ disk' \in Seq(Seq(Line)) /\ written \in Seq(Record)
      BY DEF Typed
    <3> QED
      BY <1>4, <3>1 DEF Created
  <2>2. /\ start[1] = 0 /\ start[n + 1] = Len(written)
        /\ \A f \in 1..n : start[f + 1] = start[f] + Len(disk[f])
        /\ \A f \in 1..n : \A i \in DOMAIN disk[f] : disk[f][i] = Whole(written[start[f] + i])
    BY <1>1, <2>1 DEF Follow
  <2> HIDE DEF n
  <2>3. /\ \A f \in 1..(n + 1) : begin[f] = start[f]
        /\ begin[n + 2] = Len(written) /\ begin[1] = 0
        /\ begin \in [1..(n + 2) -> 0..Len(written)]
    BY <1>1, <2>0, <2>1, <2>2 DEF n
  <2>4. ASSUME NEW f \in 1..(n + 1)
        PROVE  /\ begin[f + 1] = begin[f] + Len(disk'[f])
               /\ \A i \in DOMAIN disk'[f] : disk'[f][i] = Whole(written[begin[f] + i])
    <3>1. CASE f = n + 1
      <4>1. disk'[f] = <<>> /\ Len(disk'[f]) = 0 /\ DOMAIN disk'[f] = {}
        BY <2>1, <3>1
      <4>2. begin[f + 1] = Len(written) /\ begin[f] = Len(written)
        BY <2>1, <2>2, <2>3, <3>1
      <4> QED
        BY <2>1, <4>1, <4>2
    <3>2. CASE f # n + 1
      <4>1. f \in 1..n /\ f \in 1..(n + 1) /\ f + 1 \in 1..(n + 1)
        BY <2>1, <3>2
      <4>2. disk'[f] = disk[f] /\ begin[f] = start[f] /\ begin[f + 1] = start[f + 1]
        BY <2>1, <2>3, <4>1
      <4> QED
        BY <2>2, <4>1, <4>2
    <3> QED
      BY <3>1, <3>2
  <2>5. Len(disk') + 1 = n + 2 /\ DOMAIN disk' = 1..(n + 1) /\ written' = written
    BY <2>1
  <2>6. Follow(begin)'
    BY <2>3, <2>4, <2>5 DEF Follow
  <2>7. begin \in [1..(Len(disk') + 1) -> 0..Len(written')]
    BY <2>3, <2>5
  <2> QED
    BY <1>2, <2>6, <2>7 DEF Kept
<1> QED
  BY <1>3, <1>4

\* A line that is written whole comes next, in the newest file.
LEMMA KeptAppend ==
  ASSUME Files, Files', Kept, NEW h \in Handle, AppendLine(h)
  PROVE  Kept'
<1> SUFFICES ASSUME torn' = 0, ~overlap' PROVE Kept'
  BY DEF Kept
<1> DEFINE n == Len(disk)
           m == Len(written)
<1>1. PICK record \in NextRecords(h) :
        /\ handle[h].file \in 1..n
        /\ Whole(record) \in Line
        /\ Extended(handle[h].file, Whole(record))
        /\ written' = Append(written, record)
  BY LineWritten DEF Files
<1>2. /\ ~overlap /\ torn = 0 /\ ~(h = "evaluator" /\ stage = "stopping")
      /\ handle[h].step \in {"fresh", "idle"}
  BY DEF AppendLine, Overlaps
<1>3. handle[h].file = n
  BY <1>2, TypedNumbers DEF Active, Files, Opens, OneWriter, Handle
<1>4. record \in Record /\ record.ts = m
  BY <1>2, NextRecordsTyped, TypedNumbers DEF Files, Clock
<1>5. /\ n \in 1..n /\ m \in Nat /\ Len(disk') = n /\ DOMAIN disk = 1..n /\ DOMAIN disk' = 1..n
      /\ disk[n] \in Seq(Line) /\ disk'[n] = Append(disk[n], Whole(record))
      /\ \A g \in 1..n : g # n => disk'[g] = disk[g]
  <2>1. disk \in Seq(Seq(Line)) /\ disk' \in Seq(Seq(Line)) /\ written \in Seq(Record)
    BY DEF Files, Typed
  <2>2. n \in 1..n /\ m \in Nat
    BY <1>1, <1>3, <2>1
  <2>3. /\ Len(disk') = n /\ disk'[n] = Append(disk[n], Whole(record))
        /\ \A g \in 1..n : g # n => disk'[g] = disk[g]
    BY <1>1, <1>3 DEF Extended
  <2> QED
    BY <2>1, <2>2, <2>3, DiskProperty
<1>6. /\ Len(written') = m + 1 /\ DOMAIN written = 1..m /\ DOMAIN written' = 1..(m + 1)
      /\ written'[m + 1] = record /\ \A k \in 1..m : written'[k] = written[k]
  BY <1>1, <1>4 DEF Files, Typed
<1>7. /\ Len(disk[n]) \in Nat /\ DOMAIN disk[n] = 1..Len(disk[n])
      /\ Len(disk'[n]) = Len(disk[n]) + 1 /\ DOMAIN disk'[n] = 1..(Len(disk[n]) + 1)
      /\ disk'[n][Len(disk[n]) + 1] = Whole(record)
      /\ \A i \in 1..Len(disk[n]) : disk'[n][i] = disk[n][i]
  <2> DEFINE last == disk[n]
             line == Whole(record)
  <2>1. last \in Seq(Line) /\ line \in Line /\ disk'[n] = Append(last, line)
    BY <1>1, <1>5
  <2> HIDE DEF last, line
  <2>2. /\ Len(last) \in Nat /\ DOMAIN last = 1..Len(last)
        /\ Len(disk'[n]) = Len(last) + 1 /\ DOMAIN disk'[n] = 1..(Len(last) + 1)
        /\ disk'[n][Len(last) + 1] = line /\ \A i \in 1..Len(last) : disk'[n][i] = last[i]
    BY <2>1, AppendProperty
  <2> QED
    BY <2>2, Zenon DEF last, line
<1>8. PICK start \in [1..(n + 1) -> 0..m] : Follow(start)
  BY <1>2 DEF Kept
<1>9. /\ start[1] = 0 /\ start[n + 1] = m
      /\ \A f \in 1..n : start[f + 1] = start[f] + Len(disk[f])
      /\ \A f \in 1..n : \A i \in DOMAIN disk[f] : disk[f][i] = Whole(written[start[f] + i])
  BY <1>5, <1>8 DEF Follow
<1>10. \A k \in DOMAIN written' : written'[k].ts = k - 1
  BY <1>2, <1>4, <1>6 DEF Kept
<1>11. \A f \in 1..n : disk[f] \in Seq(Line)
  BY DiskProperty DEF Files, Typed
<1> HIDE DEF n, m
<1>20. PICK begin : begin = [f \in 1..(n + 1) |-> IF f = n + 1 THEN m + 1 ELSE start[f]]
  OBVIOUS
<1>12. /\ \A f \in 1..n : begin[f] = start[f]
       /\ begin[n + 1] = m + 1
       /\ begin \in [1..(n + 1) -> 0..(m + 1)]
       /\ n + 1 # 1
  BY <1>5, <1>8, <1>20
<1>13. ASSUME NEW f \in 1..n
       PROVE  /\ begin[f + 1] = begin[f] + Len(disk'[f])
              /\ \A i \in DOMAIN disk'[f] : disk'[f][i] = Whole(written'[begin[f] + i])
  <2>0. /\ start[f] \in 0..m /\ start[f + 1] \in 0..m /\ start[f + 1] = start[f] + Len(disk[f])
        /\ begin[f] = start[f]
    <3>1. f \in 1..(n + 1) /\ f + 1 \in 1..(n + 1)
      BY <1>5
    <3> QED
      BY <1>8, <1>9, <1>12, <3>1
  <2>1. ASSUME NEW i \in DOMAIN disk[f]
        PROVE  disk[f][i] = Whole(written'[begin[f] + i])
    <3>1. i \in 1..Len(disk[f]) /\ Len(disk[f]) \in Nat
      BY <1>11
    <3>2. start[f] + i \in 1..m
      BY <1>5, <2>0, <3>1
    <3> QED
      BY <1>6, <1>9, <2>0, <3>2
  <2>2. CASE f = n
    <3>1. start[n + 1] = m /\ m = start[n] + Len(disk[n]) /\ begin[n + 1] = m + 1
      BY <1>9, <1>12, <2>0, <2>2
    <3>2. begin[f + 1] = begin[f] + Len(disk'[f])
      <4>1. Len(disk[n]) \in Nat /\ start[n] \in Nat /\ m \in Nat
        BY <1>5, <1>7, <2>0, <2>2
      <4>2. Len(disk'[n]) = Len(disk[n]) + 1
        BY <1>7
      <4> QED
        BY <2>0, <2>2, <3>1, <4>1, <4>2
    <3>3. ASSUME NEW i \in DOMAIN disk'[f]
          PROVE  disk'[f][i] = Whole(written'[begin[f] + i])
      <4>1. CASE i = Len(disk[n]) + 1
        <5>1. begin[f] + i = m + 1
          BY <1>5, <1>7, <2>0, <2>2, <3>1, <4>1
        <5> QED
          BY <1>6, <1>7, <2>2, <4>1, <5>1
      <4>2. CASE i # Len(disk[n]) + 1
        <5>1. i \in 1..Len(disk[n])
          BY <1>7, <2>2, <3>3, <4>2
        <5> QED
          BY <1>7, <2>1, <2>2, <5>1
      <4> QED
        BY <4>1, <4>2
    <3> QED
      BY <3>2, <3>3
  <2>3. CASE f # n
    <3>1. f + 1 \in 1..n /\ disk'[f] = disk[f]
      BY <1>5, <2>3
    <3>2. begin[f + 1] = start[f + 1]
      BY <1>12, <3>1
    <3> QED
      BY <2>0, <2>1, <3>1, <3>2
  <2> QED
    BY <2>2, <2>3
<1>14. begin[1] = 0
  BY <1>5, <1>9, <1>12
<1>15. Follow(begin)'
  BY <1>5, <1>6, <1>12, <1>13, <1>14 DEF Follow
<1>16. begin \in [1..(Len(disk') + 1) -> 0..Len(written')]
  BY <1>5, <1>6, <1>12
<1> QED
  BY <1>10, <1>15, <1>16 DEF Kept

LEMMA KeptNext ==
  ASSUME Files, Files', Kept, [Next]_vars
  PROVE  Kept'
<1> SUFFICES ASSUME torn' = 0 PROVE Kept'
  BY DEF Kept
<1>1. ~overlap' => ~overlap
  BY UpsetsStay DEF Files
<1>2. CASE Start \/ Stop
  <2>1. PICK h \in Handle : Reopened(h, Length, "fresh") /\ UNCHANGED <<written, torn>>
    BY <1>2 DEF Start, Stop, Handle
  <2>2. Created \/ disk' = disk
    BY <2>1, ReopenedFiles, LengthTyped DEF Files, Step
  <2> QED
    BY <1>1, <2>1, <2>2, KeptCreated DEF Files
<1>3. ASSUME NEW h \in Handle, AppendLine(h) PROVE Kept'
  BY <1>3, KeptAppend
<1>4. ASSUME NEW h \in Handle, TearLine(h) PROVE Kept'
  <2>1. torn' = torn + 1 /\ torn \in Nat
    BY <1>4 DEF TearLine, Files, Typed
  <2> QED
    BY <2>1
<1>5. ASSUME NEW h \in Handle, Reopen(h) PROVE Kept'
  <2>1. Reopened(h, 0, "idle") /\ UNCHANGED <<written, torn>> /\ "idle" \in Step /\ 0 \in Nat
    BY <1>5 DEF Reopen, Step
  <2>2. Created \/ disk' = disk
    BY <2>1, ReopenedFiles DEF Files
  <2> QED
    BY <1>1, <2>1, <2>2, KeptCreated DEF Files
<1>6. ASSUME NEW h \in Handle, Rename(h) \/ RenameFails(h) \/ ReopenFails(h) PROVE Kept'
  <2>1. UNCHANGED <<disk, written, torn>>
    BY <1>6 DEF Rename, RenameFails, ReopenFails
  <2> QED
    BY <1>1, <2>1, KeptCreated DEF Files
<1>7. CASE End \/ ReadFirst \/ UNCHANGED vars
  <2>1. UNCHANGED <<disk, written, torn>>
    BY <1>7 DEF End, ReadFirst, vars
  <2> QED
    BY <1>1, <2>1, KeptCreated DEF Files
<1> QED
  BY <1>2, <1>3, <1>4, <1>5, <1>6, <1>7 DEF Next

\* A file that is not empty is larger than nothing, and the other way round.
LEMMA FullIsNotEmpty ==
  ASSUME NEW lines \in Seq(Line), SizeOf(lines) >= MaxBytes
  PROVE  Len(lines) >= 1
<1> SUFFICES ASSUME ~(Len(lines) >= 1) PROVE FALSE
  OBVIOUS
<1>1. lines = <<>>
  OBVIOUS
<1>2. SizeOf(lines) = 0
  BY <1>1, SizeOfNone
<1> QED
  BY <1>2, LogFileAssumption

\* What a line does to the size of its file.
LEMMA ExtendedSizes ==
  ASSUME Typed, NEW f \in 1..Len(disk), NEW line \in Line, Extended(f, line)
  PROVE  /\ SizeOf(disk'[f]) = SizeOf(disk[f]) + Bytes(line)
         /\ \A g \in 1..Len(disk) :
                /\ SizeOf(disk[g]) \in Nat /\ SizeOf(disk'[g]) \in Nat
                /\ SizeOf(disk'[g]) >= SizeOf(disk[g])
                /\ Len(disk'[g]) >= Len(disk[g]) /\ Len(disk[g]) \in Nat /\ Len(disk'[g]) \in Nat
<1>1. \A g \in 1..Len(disk) : disk[g] \in Seq(Line) /\ Len(disk[g]) \in Nat
  BY DiskProperty DEF Typed
<1>2. Bytes(line) \in Nat
  BY BytesTyped
<1>3. SizeOf(disk'[f]) = SizeOf(disk[f]) + Bytes(line)
  <2>1. disk'[f] = Append(disk[f], line) /\ disk[f] \in Seq(Line)
    BY <1>1 DEF Extended
  <2> QED
    BY <2>1, SizeOneMore
<1>4. Len(disk'[f]) = Len(disk[f]) + 1
  <2>1. disk'[f] = Append(disk[f], line) /\ disk[f] \in Seq(Line)
    BY <1>1 DEF Extended
  <2> QED
    BY <2>1, AppendProperty
<1>5. ASSUME NEW g \in 1..Len(disk)
      PROVE  /\ SizeOf(disk[g]) \in Nat /\ SizeOf(disk'[g]) \in Nat
             /\ SizeOf(disk'[g]) >= SizeOf(disk[g])
             /\ Len(disk'[g]) >= Len(disk[g]) /\ Len(disk[g]) \in Nat /\ Len(disk'[g]) \in Nat
  <2>1. SizeOf(disk[g]) \in Nat
    BY <1>1, SizeTyped
  <2>2. CASE g = f
    BY <1>1, <1>2, <1>3, <1>4, <2>1, <2>2
  <2>3. CASE g # f
    <3>1. disk'[g] = disk[g]
      BY <2>3 DEF Extended
    <3> QED
      BY <1>1, <2>1, <3>1
  <2> QED
    BY <2>2, <2>3
<1> QED
  BY <1>3, <1>5

LEMMA CountedNext ==
  ASSUME Files, Files', Counted, [Next]_vars
  PROVE  Counted'
<1> SUFFICES ASSUME torn' = 0, ~overlap' PROVE Counted'
  BY DEF Counted
<1> DEFINE n == Len(disk)
<1>1. torn = 0 /\ ~overlap
  BY UpsetsStay DEF Files
<1>2. /\ \A f \in 1..name["old"] : SizeOf(disk[f]) >= MaxBytes
      /\ stage # "down" => handle[Active].written = SizeOf(disk[n])
      /\ stage # "down" /\ handle[Active].step = "rename" => handle[Active].written >= MaxBytes
  BY <1>1 DEF Counted
<1>3. /\ n \in Nat /\ name["old"] \in Nat /\ 1..name["old"] \subseteq 1..n
      /\ MaxBytes \in Nat
  BY TypedNumbers, LogFileAssumption DEF Files, Numbered
\* Opening the log: its handle counts from the length of it.
<1>4. ASSUME NEW h \in Handle, NEW step \in {"fresh", "idle"}, NEW count \in Nat,
             Reopened(h, count, step), (Active)' = h,
             name["log"] # 0 => count = SizeOf(disk[n])
      PROVE  Counted'
  <2>1. "fresh" \in Step /\ "idle" \in Step
    BY DEF Step
  <2>2. /\ name'["old"] = name["old"] /\ handle'[h].step = step
        /\ IF name["log"] = 0 THEN Created /\ handle'[h].written = 0
           ELSE disk' = disk /\ handle'[h].written = count
    BY <1>4, <2>1, ReopenedFiles DEF Files
  <2>3. \A f \in 1..n : disk'[f] = disk[f]
    BY <2>2 DEF Created
  <2>4. \A f \in 1..name'["old"] : SizeOf(disk'[f]) >= MaxBytes
    BY <1>2, <1>3, <2>2, <2>3
  <2>5. handle'[h].written = SizeOf(disk'[Len(disk')])
    BY <1>4, <2>2, SizeOfNone DEF Created
  <2> QED
    BY <1>4, <2>2, <2>4, <2>5 DEF Counted
<1>5. name["log"] # 0 => Length = SizeOf(disk[n])
  BY DEF Length, Contents, Files, Numbered
<1>6. CASE Start
  <2>1. Reopened("evaluator", Length, "fresh") /\ stage' = "running" /\ "evaluator" \in Handle
    BY <1>6 DEF Start, Handle
  <2>2. Length \in Nat /\ Active' = "evaluator"
    BY <2>1, LengthTyped DEF Files, Active
  <2> QED
    BY <1>4, <1>5, <2>1, <2>2
<1>7. CASE Stop
  <2>1. Reopened("shutdown", Length, "fresh") /\ stage' = "stopping" /\ "shutdown" \in Handle
    BY <1>7 DEF Stop, Handle
  <2>2. Length \in Nat /\ Active' = "shutdown"
    BY <2>1, LengthTyped DEF Files, Active
  <2> QED
    BY <1>4, <1>5, <2>1, <2>2
<1>8. ASSUME NEW h \in Handle, AppendLine(h) PROVE Counted'
  <2>1. PICK record \in NextRecords(h) :
            /\ handle[h].file \in 1..n
            /\ Whole(record) \in Line
            /\ Extended(handle[h].file, Whole(record))
            /\ handle'[h].written = handle[h].written + Bytes(Whole(record))
            /\ handle'[h].step = IF handle'[h].written >= MaxBytes THEN "rename" ELSE "idle"
    BY <1>8, LineWritten DEF Files
  <2>2. /\ handle[h].step \in {"fresh", "idle"} /\ ~(h = "evaluator" /\ stage = "stopping")
        /\ UNCHANGED <<name, stage>>
    BY <1>8 DEF AppendLine, Overlaps
  <2>3. h = Active /\ stage # "down" /\ handle[h].file = n
    BY <1>1, <2>2, TypedNumbers DEF Active, Files, Opens, OneWriter, Handle
  <2>4. /\ SizeOf(disk'[n]) = SizeOf(disk[n]) + Bytes(Whole(record))
        /\ \A g \in 1..n : /\ SizeOf(disk[g]) \in Nat /\ SizeOf(disk'[g]) \in Nat
                           /\ SizeOf(disk'[g]) >= SizeOf(disk[g])
        /\ Len(disk') = n
    BY <2>1, <2>3, ExtendedSizes DEF Files, Extended
  <2> HIDE DEF n
  <2>5. \A f \in 1..name'["old"] : SizeOf(disk'[f]) >= MaxBytes
    <3>1. SUFFICES ASSUME NEW f \in 1..name["old"] PROVE SizeOf(disk'[f]) >= MaxBytes
      BY <2>2
    <3>2. f \in 1..n /\ SizeOf(disk[f]) >= MaxBytes
      BY <1>2, <1>3
    <3>3. /\ SizeOf(disk[f]) \in Nat /\ SizeOf(disk'[f]) \in Nat
          /\ SizeOf(disk'[f]) >= SizeOf(disk[f])
      BY <2>4, <3>2
    <3> QED
      BY <1>3, <3>2, <3>3
  <2>6. (handle[Active].written)' = SizeOf(disk'[n])
    BY <1>2, <2>1, <2>2, <2>3, <2>4 DEF Active
  <2>7. (handle[Active].step)' = "rename" => (handle[Active].written)' >= MaxBytes
    BY <2>1, <2>2, <2>3 DEF Active
  <2> QED
    BY <2>4, <2>5, <2>6, <2>7 DEF Counted
<1>9. ASSUME NEW h \in Handle, TearLine(h) PROVE Counted'
  <2>1. torn' = torn + 1
    BY <1>9 DEF TearLine
  <2> QED
    BY <1>1, <2>1
<1>10. ASSUME NEW h \in Handle, Rename(h) PROVE Counted'
  <2>1. /\ handle[h].step = "rename" /\ name["log"] # 0
        /\ name' = [log |-> 0, old |-> name["log"]]
        /\ handle' = [handle EXCEPT ![h].step = "reopen"] /\ "reopen" \in Step
        /\ UNCHANGED <<disk, stage>>
    BY <1>10 DEF Rename, Step
  <2>2. h = Active /\ stage # "down"
    BY <1>1, <2>1, TypedNumbers DEF Active, Files, Opens, OneWriter, Handle
  <2>3. handle'[h].step = "reopen" /\ handle'[h].written = handle[h].written
    BY <2>1, StepTaken DEF Files
  <2>4. name["log"] = n /\ name["old"] = n - 1 /\ name'["old"] = n
    BY <2>1 DEF Files, Numbered
  <2>5. SizeOf(disk[n]) >= MaxBytes
    BY <1>2, <2>1, <2>2
  <2>6. \A f \in 1..name'["old"] : f \in 1..name["old"] \/ f = n
    BY <1>3, <2>4
  <2>7. \A f \in 1..name'["old"] : SizeOf(disk'[f]) >= MaxBytes
    BY <1>2, <2>1, <2>5, <2>6
  <2>8. (handle[Active].written)' = SizeOf(disk'[Len(disk')]) /\ (handle[Active].step)' = "reopen"
    BY <1>2, <2>1, <2>2, <2>3 DEF Active
  <2> QED
    BY <2>7, <2>8 DEF Counted
<1>11. ASSUME NEW h \in Handle, RenameFails(h) \/ ReopenFails(h) PROVE Counted'
  <2>1. /\ handle[h].step \in {"rename", "reopen"}
        /\ handle' = [handle EXCEPT ![h].step = "idle"] /\ "idle" \in Step
        /\ UNCHANGED <<disk, name, stage>>
    BY <1>11 DEF RenameFails, ReopenFails, Step
  <2>2. h = Active /\ stage # "down"
    BY <1>1, <2>1, TypedNumbers DEF Active, Files, Opens, OneWriter, Handle
  <2>3. handle'[h].step = "idle" /\ handle'[h].written = handle[h].written
    BY <2>1, StepTaken DEF Files
  <2>4. (handle[Active].written)' = SizeOf(disk'[Len(disk')]) /\ (handle[Active].step)' = "idle"
    BY <1>2, <2>1, <2>2, <2>3 DEF Active
  <2> QED
    BY <1>2, <2>1, <2>4 DEF Counted
<1>12. ASSUME NEW h \in Handle, Reopen(h) PROVE Counted'
  <2>1. /\ handle[h].step = "reopen" /\ Reopened(h, 0, "idle") /\ 0 \in Nat
        /\ UNCHANGED stage
    BY <1>12 DEF Reopen
  <2>2. h = Active /\ stage # "down" /\ Active' = Active
    BY <1>1, <2>1, TypedNumbers DEF Active, Files, Opens, OneWriter, Handle
  <2>3. name["log"] = 0
    BY <1>1, <2>1, <2>2 DEF Files, OneWriter
  <2> QED
    BY <1>4, <2>1, <2>2, <2>3
<1>13. CASE End
  <2>1. stage' = "down" /\ UNCHANGED <<disk, name>>
    BY <1>13 DEF End
  <2> QED
    BY <1>2, <2>1 DEF Counted
<1>14. CASE ReadFirst \/ UNCHANGED vars
  <2>1. UNCHANGED <<disk, name, handle, stage>>
    BY <1>14 DEF ReadFirst, vars
  <2> QED
    BY <1>2, <2>1 DEF Counted, Active
<1> QED
  BY <1>6, <1>7, <1>8, <1>9, <1>10, <1>11, <1>12, <1>13, <1>14 DEF Next

LEMMA ReadingNext ==
  ASSUME Files, Files', Counted, Reading, [Next]_vars
  PROVE  Reading'
<1> DEFINE Lines(f) == disk[f]
           Longer == /\ name["old"] <= name'["old"]
                     /\ \A f \in 1..Len(disk) : Len(disk[f]) <= Len(disk'[f])
                     /\ reader' = reader
<1>0. ~overlap' => ~overlap
  BY UpsetsStay DEF Files
<1>1. torn' = 0 => torn = 0
  BY UpsetsStay DEF Files
<1>2. /\ name["old"] \in Nat /\ name'["old"] \in Nat /\ name["old"] <= Len(disk) /\ Len(disk) \in Nat
      /\ reader.file \in Nat /\ reader.lines \in Nat
      /\ \A f \in 1..Len(disk) : disk[f] \in Seq(Line) /\ Len(disk[f]) \in Nat
      /\ Len(disk') \in Nat
      /\ \A f \in 1..Len(disk') : Len(disk'[f]) \in Nat
  <2>1. /\ disk \in Seq(Seq(Line)) /\ disk' \in Seq(Seq(Line))
        /\ name \in [{"log", "old"} -> Nat] /\ name' \in [{"log", "old"} -> Nat]
        /\ reader \in [file : Nat, lines : Nat]
    BY DEF Files, Typed
  <2>2. Len(disk) \in Nat /\ name["old"] <= Len(disk)
    BY <2>1 DEF Files, Numbered
  <2> QED
    BY <2>1, <2>2, DiskProperty
<1>3. ASSUME Longer, Len(disk') >= Len(disk) PROVE Reading'
  <2>1. reader.file <= name'["old"]
    BY <1>2, <1>3 DEF Reading
  <2>2. reader.file # 0 => reader.lines <= Len(disk'[reader.file])
    <3>1. SUFFICES ASSUME reader.file # 0 PROVE reader.lines <= Len(disk'[reader.file])
      OBVIOUS
    <3>2. reader.file \in 1..Len(disk) /\ reader.file \in 1..Len(disk')
      BY <1>2, <1>3, <3>1 DEF Reading
    <3>3. /\ reader.lines <= Len(disk[reader.file]) /\ Len(disk[reader.file]) <= Len(disk'[reader.file])
          /\ Len(disk[reader.file]) \in Nat /\ Len(disk'[reader.file]) \in Nat
      BY <1>2, <1>3, <3>1, <3>2 DEF Reading
    <3> QED
      BY <1>2, <3>3
  <2>3. torn' = 0 /\ ~overlap' /\ reader.file # 0 => reader.lines >= 1
    BY <1>0, <1>1 DEF Reading
  <2> QED
    BY <1>3, <2>1, <2>2, <2>3 DEF Reading
<1> HIDE DEF Longer
<1>4. ASSUME NEW h \in Handle, NEW count \in Nat, NEW step \in Step, Reopened(h, count, step),
             reader' = reader
      PROVE  Reading'
  <2>1. /\ name'["old"] = name["old"] /\ Len(disk') >= Len(disk)
        /\ Created \/ disk' = disk
    BY <1>4, ReopenedFiles DEF Files
  <2>2. \A f \in 1..Len(disk) : disk'[f] = disk[f]
    BY <2>1 DEF Created
  <2>3. Longer
    BY <1>2, <1>4, <2>1, <2>2 DEF Longer
  <2> QED
    BY <1>3, <2>1, <2>3
<1>5. ASSUME NEW f \in 1..Len(disk), NEW line \in Line, Extended(f, line), UNCHANGED <<name, reader>>
      PROVE  Reading'
  <2>1. Longer /\ Len(disk') >= Len(disk)
    BY <1>2, <1>5, ExtendedSizes DEF Longer, Files, Extended
  <2> QED
    BY <1>3, <2>1
<1>6. ASSUME disk' = disk, name["old"] <= name'["old"], reader' = reader
      PROVE  Reading'
  <2>1. Longer /\ Len(disk') >= Len(disk)
    BY <1>2, <1>6 DEF Longer
  <2> QED
    BY <1>3, <2>1
<1>7. CASE Start \/ Stop
  <2>1. PICK h \in Handle : Reopened(h, Length, "fresh") /\ reader' = reader
    BY <1>7 DEF Start, Stop, Handle
  <2>2. Length \in Nat /\ "fresh" \in Step
    BY LengthTyped DEF Files, Step
  <2> QED
    BY <1>4, <2>1, <2>2
<1>8. ASSUME NEW h \in Handle, AppendLine(h) PROVE Reading'
  <2>1. PICK record \in NextRecords(h) :
            /\ handle[h].file \in 1..Len(disk) /\ Whole(record) \in Line
            /\ Extended(handle[h].file, Whole(record))
    BY <1>8, LineWritten DEF Files
  <2>2. UNCHANGED <<name, reader>>
    BY <1>8 DEF AppendLine
  <2> QED
    BY <1>5, <2>1, <2>2
<1>9. ASSUME NEW h \in Handle, TearLine(h) PROVE Reading'
  <2>1. PICK record \in NextRecords(h) :
            /\ handle[h].file \in 1..Len(disk) /\ Torn(record) \in Line
            /\ Extended(handle[h].file, Torn(record))
    BY <1>9, LineTorn DEF Files
  <2>2. UNCHANGED <<name, reader>>
    BY <1>9 DEF TearLine
  <2> QED
    BY <1>5, <2>1, <2>2
<1>10. ASSUME NEW h \in Handle, Rename(h) PROVE Reading'
  <2>1. /\ name["log"] # 0 /\ name' = [log |-> 0, old |-> name["log"]]
        /\ UNCHANGED <<disk, reader>>
    BY <1>10 DEF Rename
  <2>2. name["old"] <= name'["old"]
    BY <1>2, <2>1 DEF Files, Numbered
  <2> QED
    BY <1>6, <2>1, <2>2
<1>11. ASSUME NEW h \in Handle, Reopen(h) PROVE Reading'
  <2>1. Reopened(h, 0, "idle") /\ reader' = reader /\ "idle" \in Step /\ 0 \in Nat
    BY <1>11 DEF Reopen, Step
  <2> QED
    BY <1>4, <2>1
<1>12. ASSUME NEW h \in Handle, RenameFails(h) \/ ReopenFails(h) PROVE Reading'
  <2>1. UNCHANGED <<disk, name, reader>>
    BY <1>12 DEF RenameFails, ReopenFails
  <2> QED
    BY <1>2, <1>6, <2>1
<1>13. CASE End \/ UNCHANGED vars
  <2>1. UNCHANGED <<disk, name, reader>>
    BY <1>13 DEF End, vars
  <2> QED
    BY <1>2, <1>6, <2>1
<1>14. CASE ReadFirst
  <2>1. /\ reader' = [file |-> name["old"], lines |-> Len(Contents("old"))]
        /\ UNCHANGED <<disk, name, torn, overlap>>
    BY <1>14 DEF ReadFirst, ReadOrder
  <2>2. reader'.file = name["old"] /\ reader'.lines = Len(Contents("old"))
    BY <2>1
  <2>3. CASE name["old"] = 0
    BY <1>2, <2>1, <2>2, <2>3 DEF Reading
  <2>4. CASE name["old"] # 0
    <3>1. name["old"] \in 1..Len(disk) /\ name["old"] \in 1..name["old"]
      BY <1>2, <2>4
    <3>2. Contents("old") = disk[name["old"]]
      BY <2>4 DEF Contents
    <3>3. torn = 0 /\ ~overlap => Len(disk[name["old"]]) >= 1
      BY <1>2, <3>1, FullIsNotEmpty DEF Counted
    <3>4. Len(disk[name["old"]]) \in Nat
      BY <1>2, <3>1
    <3> QED
      BY <1>2, <2>1, <2>2, <3>2, <3>3, <3>4 DEF Reading
  <2> QED
    BY <2>3, <2>4
<1> QED
  BY <1>7, <1>8, <1>9, <1>10, <1>11, <1>12, <1>13, <1>14 DEF Next

-----------------------------------------------------------------------------
(* What is read back *)

\* The lines of a file that parse, and which of them comes in which place.
Good(lines) == {i \in DOMAIN lines : lines[i].whole /\ (i > 1 => lines[i - 1].whole)}

\* Each of the lines that parse has a place in what is read, in the order of the lines.
LEMMA ParsedProperty ==
  ASSUME NEW lines \in Seq(Line)
  PROVE  \E c \in Nat : \E pos \in [1..c -> Good(lines)] :
            /\ \A i \in Good(lines) : \E n \in 1..c : pos[n] = i
            /\ \A n, m \in 1..c : n < m => pos[n] < pos[m]
            /\ Parsed(lines) = [n \in 1..c |-> lines[pos[n]].record]
            /\ Parsed(lines) \in Seq(Record)
<1> DEFINE D == Good(lines)
           c == Cardinality(D)
           key == [i \in D |-> i]
           rank == [i \in D |-> Cardinality({j \in D : j <= i})]
           chosen(n) == CHOOSE i \in D : Cardinality({j \in D : j <= i}) = n
<1>0. PICK pos : pos = [n \in 1..c |-> chosen(n)]
  OBVIOUS
<1>1. D \subseteq 1..Len(lines) /\ Len(lines) \in Nat /\ D \subseteq Nat
  BY DEF Good
<1>2. IsFiniteSet(D) /\ c \in Nat
  <2>1. IsFiniteSet(1..Len(lines))
    BY <1>1, FS_Interval
  <2> HIDE DEF D
  <2>2. IsFiniteSet(D)
    BY <1>1, <2>1, FS_Subset
  <2> QED
    BY <2>2, FS_CardinalityType
<1>3. /\ \A i \in D : key[i] \in Int
      /\ \A i, j \in D : key[i] = key[j] => i = j
      /\ \A i, j \in D : key[i] < key[j] <=> i < j
  BY <1>1
<1>4. IsRank(rank, D, key)
  <2>1. ASSUME NEW i \in D PROVE rank[i] = Cardinality({j \in D : key[j] <= key[i]})
    <3>1. {j \in D : key[j] <= key[i]} = {j \in D : j <= i}
      OBVIOUS
    <3> QED
      BY <3>1
  <2> HIDE DEF rank, D, key
  <2> QED
    BY <2>1, Zenon DEF IsRank
<1>5. Parsed(lines) = [n \in 1..c |-> lines[CHOOSE i \in D : Cardinality({j \in D : j <= i}) = n].record]
  BY Zenon DEF Parsed, Good
<1>6. \A n \in 1..c : pos[n] = CHOOSE i \in D : rank[i] = n
  <2>1. \A n \in 1..c : chosen(n) = CHOOSE i \in D : rank[i] = n
    OBVIOUS
  <2> HIDE DEF chosen
  <2> QED
    BY <1>0, <2>1
<1>7. Parsed(lines) = [n \in 1..c |-> lines[pos[n]].record]
  <2>1. \A n \in 1..c : pos[n] = chosen(n)
    <3> HIDE DEF chosen
    <3> QED
      BY <1>0
  <2>2. Parsed(lines) = [n \in 1..c |-> lines[chosen(n)].record]
    BY <1>5
  <2> HIDE DEF chosen
  <2> QED
    BY <2>1, <2>2
<1>8. pos = [n \in 1..c |-> pos[n]]
  <2> HIDE DEF chosen
  <2> QED
    BY <1>0
<1> HIDE DEF D, c, key, rank, chosen
<1>9. /\ \A i \in D : rank[i] \in 1..c
      /\ \A i, j \in D : key[i] < key[j] <=> rank[i] < rank[j]
      /\ \A n \in 1..c : \E i \in D : rank[i] = n
  BY <1>2, <1>3, <1>4, Ranks DEF c
<1>10. \A n \in 1..c : pos[n] \in D /\ rank[pos[n]] = n
  BY <1>6, <1>9
<1>11. pos \in [1..c -> D]
  BY <1>8, <1>10
<1>12. \A n, m \in 1..c : n < m => pos[n] < pos[m]
  BY <1>3, <1>9, <1>10
<1>13. ASSUME NEW i \in D PROVE \E n \in 1..c : pos[n] = i
  <2>1. rank[i] \in 1..c /\ pos[rank[i]] \in D /\ rank[pos[rank[i]]] = rank[i]
    BY <1>9, <1>10
  <2>2. rank[i] \in Nat
    BY <1>2, <2>1
  <2>3. ~(key[i] < key[pos[rank[i]]]) /\ ~(key[pos[rank[i]]] < key[i])
    BY <1>9, <2>1, <2>2
  <2>4. pos[rank[i]] = i
    <3> DEFINE p == pos[rank[i]]
    <3>1. p \in D /\ p \in Nat /\ i \in Nat
      BY <1>1, <2>1
    <3> HIDE DEF p
    <3>2. ~(i < p) /\ ~(p < i)
      BY <1>3, <2>3, <3>1 DEF p
    <3> QED
      BY <3>1, <3>2 DEF p
  <2> QED
    BY <2>1, <2>4
<1>14. Parsed(lines) \in Seq(Record)
  <2>1. \A n \in 1..c : lines[pos[n]].record \in Record
    <3>1. \A i \in 1..Len(lines) : lines[i].record \in Record
      <4>1. \A i \in 1..Len(lines) : lines[i] \in Line
        OBVIOUS
      <4> QED
        BY <4>1 DEF Line
    <3> QED
      BY <1>1, <1>10, <3>1
  <2> QED
    BY <1>2, <1>7, <2>1
<1> QED
  BY <1>2, <1>7, <1>11, <1>12, <1>13, <1>14 DEF D

\* If every line is whole, each is read.
LEMMA ParsedWhole ==
  ASSUME NEW lines \in Seq(Line), \A i \in 1..Len(lines) : lines[i].whole
  PROVE  Parsed(lines) = [i \in 1..Len(lines) |-> lines[i].record]
<1> DEFINE c == Len(lines)
           D == 1..c
           upTo(i) == {j \in D : j <= i}
<1>1. c \in Nat /\ DOMAIN lines = D
  OBVIOUS
<1>2. Good(lines) = D
  BY <1>1 DEF Good
<1>3. Cardinality(D) = c
  BY <1>1, IntervalSize
<1>4. ASSUME NEW i \in D PROVE Cardinality(upTo(i)) = i
  <2>1. i \in Nat /\ i # 0 /\ i <= c
    BY <1>1
  <2>2. upTo(i) = 1..i
    BY <1>1, <2>1
  <2>3. Cardinality(1..i) = i
    BY <2>1, IntervalSize
  <2> QED
    BY <2>2, <2>3
<1>5. \A n \in D : (CHOOSE i \in D : Cardinality(upTo(i)) = n) = n
  <2> HIDE DEF D, upTo
  <2> QED
    BY <1>4
<1>6. Parsed(lines) = [n \in 1..Cardinality(D) |-> lines[CHOOSE i \in D : Cardinality({j \in D : j <= i}) = n].record]
  <2>1. Parsed(lines) = [n \in 1..Cardinality(Good(lines)) |->
            lines[CHOOSE i \in Good(lines) : Cardinality({j \in Good(lines) : j <= i}) = n].record]
    BY Zenon DEF Parsed, Good
  <2> HIDE DEF D
  <2> QED
    BY <1>2, <2>1
<1>7. Parsed(lines) = [n \in D |-> lines[CHOOSE i \in D : Cardinality(upTo(i)) = n].record]
  BY <1>3, <1>6
<1> HIDE DEF upTo, D
<1>8. Parsed(lines) = [n \in D |-> lines[n].record]
  BY <1>5, <1>7
<1> QED
  BY <1>8 DEF D

-----------------------------------------------------------------------------
(* The records by date *)

Earlier(file, i) == {j \in DOMAIN file : \/ file[j].ts < file[i].ts
                                         \/ file[j].ts = file[i].ts /\ j < i}

LEMMA RecordProperty ==
  ASSUME NEW file \in Seq(Record)
  PROVE  Len(file) \in Nat /\ DOMAIN file = 1..Len(file) /\ \A i \in 1..Len(file) : file[i].ts \in Int
<1>1. \A i \in 1..Len(file) : file[i] \in Record
  OBVIOUS
<1>2. \A r \in Record : r.ts \in Int
  BY DEF Record
<1> QED
  BY <1>1, <1>2

LEMMA DatedByPlace ==
  \A file : Records!Dated(file) =
    [n \in DOMAIN file |->
        file[CHOOSE i \in DOMAIN file : [k \in DOMAIN file |-> 1 + Cardinality(Earlier(file, k))][i] = n]]
  BY Zenon DEF Records!Dated, Earlier, Records!Cardinality, Cardinality

\* Records that are in order stay where they are.
LEMMA DatedInOrder ==
  ASSUME NEW file \in Seq(Record),
         \A i, j \in 1..Len(file) : i < j => file[i].ts < file[j].ts
  PROVE  Records!Dated(file) = file
<1> DEFINE c == Len(file)
           D == DOMAIN file
           place == [k \in D |-> 1 + Cardinality(Earlier(file, k))]
<1>1. c \in Nat /\ D = 1..c /\ \A i \in D : file[i].ts \in Int
  BY RecordProperty
<1>2. ASSUME NEW i \in D PROVE place[i] = i
  <2>1. i \in Nat /\ i # 0 /\ i <= c
    BY <1>1
  <2>2. ASSUME NEW j \in D PROVE j \in Earlier(file, i) <=> j < i
    <3>1. j < i \/ i = j \/ i < j
      BY <1>1
    <3>2. j < i => file[j].ts < file[i].ts
      OBVIOUS
    <3>3. i < j => file[i].ts < file[j].ts
      OBVIOUS
    <3> QED
      BY <1>1, <3>1, <3>2, <3>3 DEF Earlier
  <2>3. Earlier(file, i) = 1..(i - 1)
    <3>1. Earlier(file, i) \subseteq D
      BY <1>1 DEF Earlier
    <3>2. ASSUME NEW j \in 1..(i - 1) PROVE j \in D /\ j < i
      BY <1>1, <2>1
    <3>3. ASSUME NEW j \in D, j < i PROVE j \in 1..(i - 1)
      BY <1>1, <2>1, <3>3
    <3> HIDE DEF D
    <3> QED
      BY <2>2, <3>1, <3>2, <3>3
  <2>4. Cardinality(1..(i - 1)) = i - 1
    <3>1. i - 1 \in Nat
      BY <2>1
    <3> QED
      BY <3>1, IntervalSize
  <2> QED
    BY <2>1, <2>3, <2>4
<1>3. Records!Dated(file) = [n \in D |-> file[CHOOSE i \in D : place[i] = n]]
  BY DatedByPlace, Zenon
<1>4. ASSUME NEW n \in D PROVE (CHOOSE i \in D : place[i] = n) = n
  <2> HIDE DEF place, D
  <2> QED
    BY <1>2
<1> HIDE DEF place, D
<1>5. Records!Dated(file) = [n \in D |-> file[n]]
  BY <1>3, <1>4
<1> QED
  BY <1>1, <1>5

\* Records of different dates are put in the order of the dates, none of them lost.
LEMMA DatedProperty ==
  ASSUME NEW file \in Seq(Record),
         \A i, j \in 1..Len(file) : file[i].ts = file[j].ts => i = j
  PROVE  /\ Len(Records!Dated(file)) = Len(file)
         /\ InOrder(Records!Dated(file))
         /\ \A i \in 1..Len(file) : file[i] \in ToSet(Records!Dated(file))
<1> DEFINE c == Len(file)
           D == DOMAIN file
           place == [k \in D |-> 1 + Cardinality(Earlier(file, k))]
           key == [i \in D |-> file[i].ts]
<1>1. /\ c \in Nat /\ D = 1..c /\ \A i \in D : file[i].ts \in Int
      /\ IsFiniteSet(D) /\ Cardinality(D) = c
  <2>1. c \in Nat /\ D = 1..c /\ \A i \in D : file[i].ts \in Int
    BY RecordProperty
  <2>2. IsFiniteSet(1..c) /\ Cardinality(1..c) = c
    BY <2>1, IntervalSize
  <2> QED
    BY <2>1, <2>2
<1>2. /\ \A i \in D : key[i] \in Int
      /\ \A i, j \in D : key[i] = key[j] => i = j
  BY <1>1
<1>3. IsRank(place, D, key)
  <2>1. ASSUME NEW i \in D PROVE place[i] = Cardinality({j \in D : key[j] <= key[i]})
    <3> DEFINE before == Earlier(file, i)
               upTo == {j \in D : key[j] <= key[i]}
    <3>1. ASSUME NEW j \in D PROVE j \in before <=> key[j] < key[i]
      <4>1. file[j].ts = file[i].ts => j = i
        OBVIOUS
      <4> QED
        BY <1>1, <4>1 DEF Earlier
    <3>2. before \subseteq D
      BY <1>1 DEF Earlier
    <3>3. upTo = before \cup {i} /\ i \notin before
      <4>1. ASSUME NEW j \in D PROVE key[j] <= key[i] <=> key[j] < key[i] \/ j = i
        BY <1>2
      <4>2. ~(key[i] < key[i])
        BY <1>2
      <4> HIDE DEF key, before
      <4> QED
        BY <3>1, <3>2, <4>1, <4>2
    <3>4. IsFiniteSet(before)
      <4> HIDE DEF before, D
      <4> QED
        BY <1>1, <3>2, FS_Subset
    <3>5. Cardinality(before \cup {i}) = Cardinality(before) + 1 /\ Cardinality(before) \in Nat
      <4> HIDE DEF before
      <4> QED
        BY <3>3, <3>4, FS_AddElement, FS_CardinalityType
    <3>6. place[i] = 1 + Cardinality(before)
      OBVIOUS
    <3>7. 1 + Cardinality(before) = Cardinality(before) + 1
      <4> HIDE DEF before
      <4> QED
        BY <3>5
    <3> HIDE DEF place, before, upTo
    <3> QED
      BY <3>3, <3>5, <3>6, <3>7, Zenon DEF upTo
  <2> HIDE DEF place, D, key
  <2> QED
    BY <2>1, Zenon DEF IsRank
<1>4. PICK at : at = [n \in D |-> CHOOSE i \in D : place[i] = n]
  OBVIOUS
<1>5. Records!Dated(file) = [n \in D |-> file[at[n]]]
  <2>1. Records!Dated(file) = [n \in D |-> file[CHOOSE i \in D : place[i] = n]]
    BY DatedByPlace, Zenon
  <2> HIDE DEF place, D
  <2> QED
    BY <1>4, <2>1
<1>6. \A i \in D : key[i] = file[i].ts
  OBVIOUS
<1> HIDE DEF D, place, key
<1>7. /\ \A i \in D : place[i] \in 1..c
      /\ \A i, j \in D : key[i] < key[j] <=> place[i] < place[j]
      /\ \A n \in 1..c : \E i \in D : place[i] = n
  <2> HIDE DEF c
  <2>1. /\ \A i \in D : place[i] \in 1..Cardinality(D)
        /\ \A i, j \in D : key[i] < key[j] <=> place[i] < place[j]
        /\ \A n \in 1..Cardinality(D) : \E i \in D : place[i] = n
    <3>1. IsFiniteSet(D)
      BY <1>1
    <3> QED
      BY <3>1, <1>2, <1>3, Ranks
  <2> QED
    BY <1>1, <2>1
<1> HIDE DEF c
<1>8. \A n \in D : at[n] \in D /\ place[at[n]] = n
  BY <1>1, <1>4, <1>7
<1>9. ASSUME NEW i \in D PROVE \E n \in D : at[n] = i
  <2>1. place[i] \in D /\ at[place[i]] \in D /\ place[at[place[i]]] = place[i]
    BY <1>1, <1>7, <1>8
  <2>2. place[i] \in Nat
    BY <1>1, <2>1
  <2>3. ~(key[i] < key[at[place[i]]]) /\ ~(key[at[place[i]]] < key[i])
    BY <1>7, <2>1, <2>2
  <2>4. key[i] \in Int /\ key[at[place[i]]] \in Int
    BY <1>2, <2>1
  <2>5. key[i] = key[at[place[i]]]
    BY <2>3, <2>4
  <2> QED
    BY <1>2, <2>1, <2>5
<1>10. DOMAIN Records!Dated(file) = D /\ Len(Records!Dated(file)) = c
  BY <1>1, <1>5
<1>11. InOrder(Records!Dated(file))
  <2>1. ASSUME NEW n \in 1..(c - 1)
        PROVE  Records!Dated(file)[n].ts < Records!Dated(file)[n + 1].ts
    <3>1. n \in D /\ n + 1 \in D /\ n < n + 1
      BY <1>1
    <3>2. key[at[n]] < key[at[n + 1]]
      <4>1. /\ at[n] \in D /\ at[n + 1] \in D
            /\ place[at[n]] = n /\ place[at[n + 1]] = n + 1
        BY <1>8, <3>1
      <4> QED
        BY <1>7, <3>1, <4>1
    <3>3. Records!Dated(file)[n] = file[at[n]] /\ Records!Dated(file)[n + 1] = file[at[n + 1]]
      BY <1>5, <3>1
    <3> QED
      BY <1>6, <1>8, <3>1, <3>2, <3>3
  <2> QED
    BY <1>10, <2>1 DEF InOrder
<1>12. ASSUME NEW i \in D PROVE file[i] \in ToSet(Records!Dated(file))
  <2>1. PICK n \in D : at[n] = i
    BY <1>9
  <2>2. Records!Dated(file)[n] = file[i]
    BY <1>5, <2>1
  <2> QED
    BY <1>10, <2>2 DEF ToSet
<1> QED
  BY <1>1, <1>10, <1>11, <1>12 DEF c

-----------------------------------------------------------------------------
(* The newest part of what was written *)

\* start[f] lines were written before file f, all of them whole, the k-th at time k - 1.
Stored(start) ==
    /\ start \in [1..(Len(disk) + 1) -> 0..Len(written)]
    /\ Follow(start)
    /\ \A k \in DOMAIN written : written[k].ts = k - 1

\* The files grow one after the other.
LEMMA StartGrows ==
  ASSUME NEW m \in Nat, NEW start, \A f \in 1..m : start[f] \in Nat,
         \A f \in 1..(m - 1) : start[f] <= start[f + 1]
  PROVE  \A f, g \in 1..m : f <= g => start[f] <= start[g]
<1> SUFFICES ASSUME NEW f \in 1..m,
                    {g \in 1..m : f <= g /\ ~(start[f] <= start[g])} # {}
             PROVE  FALSE
  OBVIOUS
<1> DEFINE Bad == {g \in 1..m : f <= g /\ ~(start[f] <= start[g])}
<1>1. PICK t \in Bad : \A u \in Bad : t <= u
  <2>1. Bad \subseteq Nat /\ Bad # {}
    OBVIOUS
  <2> HIDE DEF Bad
  <2> QED
    BY <2>1, FirstExists
<1>2. t # f /\ t \in 1..m /\ f <= t /\ ~(start[f] <= start[t])
  OBVIOUS
<1> DEFINE p == t - 1
<1>3. p \in 1..(m - 1) /\ p \in 1..m /\ p + 1 = t /\ f <= p /\ ~(t <= p)
  BY <1>2
<1>4. start[f] <= start[p]
  <2>1. p \notin Bad
    BY <1>1, <1>3
  <2> HIDE DEF p
  <2> QED
    BY <1>3, <2>1
<1> HIDE DEF p
<1>5. start[p] <= start[t]
  BY <1>3
<1>6. start[f] \in Nat /\ start[p] \in Nat /\ start[t] \in Nat
  BY <1>2, <1>3
<1> QED
  BY <1>2, <1>4, <1>5, <1>6

LEMMA StoredProperty ==
  ASSUME Typed, NEW start, Stored(start)
  PROVE  /\ Len(disk) \in Nat /\ Len(written) \in Nat
         /\ DOMAIN disk = 1..Len(disk) /\ DOMAIN written = 1..Len(written)
         /\ \A f \in 1..(Len(disk) + 1) : start[f] \in Nat /\ start[f] <= Len(written)
         /\ \A f \in 1..Len(disk) : /\ start[f + 1] = start[f] + Len(disk[f])
                                    /\ Len(disk[f]) \in Nat
                                    /\ \A i \in 1..Len(disk[f]) : disk[f][i] = Whole(written[start[f] + i])
         /\ start[1] = 0
         /\ start[Len(disk) + 1] = Len(written)
         /\ \A k \in 1..Len(written) : written[k] \in Record /\ written[k].ts = k - 1
<1>1. disk \in Seq(Seq(Line)) /\ written \in Seq(Record)
  BY DEF Typed
<1>2. /\ Len(disk) \in Nat /\ DOMAIN disk = 1..Len(disk)
      /\ \A f \in 1..Len(disk) : Len(disk[f]) \in Nat /\ DOMAIN disk[f] = 1..Len(disk[f])
  BY <1>1, DiskProperty
<1>3. Len(written) \in Nat /\ DOMAIN written = 1..Len(written)
      /\ \A k \in 1..Len(written) : written[k] \in Record
  BY <1>1
<1>4. \A f \in 1..(Len(disk) + 1) : start[f] \in Nat /\ start[f] <= Len(written)
  BY <1>2, <1>3 DEF Stored
<1> QED
  BY <1>2, <1>3, <1>4 DEF Stored, Follow

LEMMA StoredGrows ==
  ASSUME Typed, NEW start, Stored(start)
  PROVE  \A f, g \in 1..(Len(disk) + 1) : f <= g => start[f] <= start[g]
<1> DEFINE m == Len(disk) + 1
<1>1. /\ m \in Nat /\ \A f \in 1..m : start[f] \in Nat
      /\ \A f \in 1..Len(disk) : start[f + 1] = start[f] + Len(disk[f]) /\ Len(disk[f]) \in Nat
      /\ 1..(m - 1) = 1..Len(disk) /\ Len(disk) \in Nat
  BY StoredProperty
<1>2. ASSUME NEW f \in 1..(m - 1) PROVE start[f] <= start[f + 1]
  <2>1. f \in 1..Len(disk) /\ f \in 1..m
    BY <1>1
  <2>2. start[f + 1] = start[f] + Len(disk[f]) /\ Len(disk[f]) \in Nat /\ start[f] \in Nat
    BY <1>1, <2>1
  <2> QED
    BY <2>2
<1> HIDE DEF m
<1>3. \A f, g \in 1..m : f <= g => start[f] <= start[g]
  BY <1>1, <1>2, StartGrows
<1> QED
  BY <1>3 DEF m

\* Every line that was written is in a file.
LEMMA WhichFile ==
  ASSUME Typed, NEW start, Stored(start), NEW k \in 1..Len(written)
  PROVE  \E f \in 1..Len(disk) : start[f] < k /\ k <= start[f + 1]
<1> DEFINE n == Len(disk)
           In == {f \in 1..n : k <= start[f + 1]}
<1>1. /\ n \in Nat /\ start[1] = 0 /\ start[n + 1] = Len(written) /\ Len(written) \in Nat
      /\ \A f \in 1..(n + 1) : start[f] \in Nat
  BY StoredProperty
<1>2. n # 0
  <2>1. start[n + 1] # 0 /\ start[0 + 1] = 0
    BY <1>1
  <2> HIDE DEF n
  <2> QED
    BY <2>1
<1>3. PICK t \in In : \A u \in In : t <= u
  <2> HIDE DEF n
  <2>1. n \in 1..n /\ k <= start[n + 1]
    BY <1>1, <1>2
  <2>2. In \subseteq Nat /\ In # {}
    BY <2>1
  <2> HIDE DEF In
  <2> QED
    BY <2>2, FirstExists
<1>4. t \in 1..n /\ k <= start[t + 1]
  OBVIOUS
<1>5. start[t] < k
  <2>1. CASE t = 1
    BY <1>1, <2>1
  <2>2. CASE t # 1
    <3> HIDE DEF n
    <3> DEFINE p == t - 1
    <3>1. p \in 1..n /\ p + 1 = t /\ ~(t <= p) /\ t \in 1..(n + 1)
      BY <1>1, <1>4, <2>2
    <3>2. ~(k <= start[p + 1])
      BY <1>3, <3>1
    <3>3. start[t] \in Nat
      BY <1>1, <3>1
    <3> HIDE DEF p, In
    <3> QED
      BY <3>1, <3>2, <3>3
  <2> QED
    BY <2>1, <2>2
<1> QED
  BY <1>4, <1>5

\* What was written after the first a lines, up to the b-th.
Slice(a, b) == [i \in 1..(b - a) |-> written[a + i]]

LEMMA SliceProperty ==
  ASSUME Typed, NEW a \in Nat, NEW b \in Nat, a <= b, b <= Len(written)
  PROVE  /\ Slice(a, b) \in Seq(Record)
         /\ Len(Slice(a, b)) = b - a
         /\ DOMAIN Slice(a, b) = 1..(b - a)
         /\ \A i \in 1..(b - a) : Slice(a, b)[i] = written[a + i] /\ a + i \in 1..Len(written)
<1>1. Len(written) \in Nat /\ \A k \in 1..Len(written) : written[k] \in Record
  BY DEF Typed
<1>2. \A i \in 1..(b - a) : a + i \in 1..Len(written)
  BY <1>1
<1>3. b - a \in Nat
  OBVIOUS
<1> QED
  BY <1>1, <1>2, <1>3 DEF Slice

\* What a reader gets of the first n lines of a file.
LEMMA FileIsSlice ==
  ASSUME Typed, NEW start, Stored(start), NEW f \in 1..Len(disk), NEW n \in 0..Len(disk[f])
  PROVE  /\ Parsed(SubSeq(disk[f], 1, n)) = Slice(start[f], start[f] + n)
         /\ start[f] \in Nat /\ start[f] + n \in Nat /\ start[f] + n <= Len(written)
<1> DEFINE lines == SubSeq(disk[f], 1, n)
<1>1. /\ start[f + 1] = start[f] + Len(disk[f]) /\ Len(disk[f]) \in Nat
      /\ \A i \in 1..Len(disk[f]) : disk[f][i] = Whole(written[start[f] + i])
      /\ start[f] \in Nat /\ start[f + 1] <= Len(written) /\ Len(written) \in Nat
  <2>1. f \in 1..(Len(disk) + 1) /\ f + 1 \in 1..(Len(disk) + 1)
    BY StoredProperty
  <2> QED
    BY <2>1, StoredProperty
<1>2. disk[f] \in Seq(Line)
  BY DiskProperty DEF Typed
<1>3. /\ lines \in Seq(Line) /\ Len(lines) = n /\ n \in Nat
      /\ \A i \in 1..n : lines[i] = disk[f][i]
  BY <1>1, <1>2
<1> HIDE DEF lines
<1>4. ASSUME NEW i \in 1..n PROVE lines[i] = Whole(written[start[f] + i])
  <2>1. i \in 1..Len(disk[f])
    BY <1>1, <1>3
  <2>2. disk[f][i] = Whole(written[start[f] + i]) /\ lines[i] = disk[f][i]
    BY <1>1, <1>3, <2>1
  <2> QED
    BY <2>2, Zenon
<1>5. Parsed(lines) = [i \in 1..n |-> lines[i].record]
  <2>1. \A i \in 1..Len(lines) : lines[i].whole
    BY <1>3, <1>4 DEF Whole
  <2> QED
    BY <1>3, <2>1, ParsedWhole
<1>6. Parsed(lines) = [i \in 1..n |-> written[start[f] + i]]
  <2>1. ASSUME NEW i \in 1..n PROVE lines[i].record = written[start[f] + i]
    <3>1. lines[i] = Whole(written[start[f] + i])
      BY <1>4
    <3>2. \A r : Whole(r).record = r
      BY DEF Whole
    <3> QED
      BY <3>1, <3>2, Zenon
  <2> QED
    BY <1>5, <2>1
<1>7. 1..n = 1..((start[f] + n) - start[f])
  BY <1>1, <1>3
<1>8. Parsed(lines) = Slice(start[f], start[f] + n)
  <2> DEFINE a == start[f]
             D == 1..n
  <2>1. D = 1..((a + n) - a) /\ Parsed(lines) = [i \in D |-> written[a + i]]
    BY <1>6, <1>7
  <2>2. Slice(a, a + n) = [i \in 1..((a + n) - a) |-> written[a + i]]
    BY DEF Slice
  <2> HIDE DEF a, D
  <2>3. Parsed(lines) = Slice(a, a + n)
    BY <2>1, <2>2, Zenon
  <2> QED
    BY <2>3 DEF a
<1> QED
  BY <1>1, <1>3, <1>8 DEF lines

LEMMA NoLines ==
  ASSUME NEW a \in Nat
  PROVE  Parsed(<<>>) = Slice(a, a)
<1>1. <<>> \in Seq(Line) /\ Len(<<>>) = 0 /\ 1..0 = {} /\ a - a = 0
  OBVIOUS
<1>2. Parsed(<<>>) = [i \in {} |-> <<>>[i].record]
  BY <1>1, ParsedWhole
<1>3. Slice(a, a) = [i \in {} |-> written[a + i]]
  BY <1>1 DEF Slice
<1> QED
  BY <1>2, <1>3

\* Two slices, one after the other, and how long they are.
Slices(a, b, c, d) == Slice(a, b) \o Slice(c, d)
Lengths(a, b, c, d) == (b - a) + (d - c)

SlicesHold(a, b, c, d) ==
    LET got == Slices(a, b, c, d)
        m == b - a
        n == Lengths(a, b, c, d)
    IN  /\ got \in Seq(Record) /\ Len(got) = n /\ DOMAIN got = 1..n /\ n \in Nat /\ m \in Nat
        /\ \A i \in 1..n : got[i] = IF i <= m THEN written[a + i] ELSE written[c + (i - m)]
        /\ \A k \in (a + 1)..b : got[k - a] = written[k] /\ k - a \in 1..n
        /\ \A k \in (c + 1)..d : got[m + (k - c)] = written[k] /\ m + (k - c) \in 1..n

LEMMA SlicesProperty ==
  ASSUME Typed, NEW a \in Nat, NEW b \in Nat, NEW c \in Nat, NEW d \in Nat,
         a <= b, b <= c, c <= d, d <= Len(written)
  PROVE  SlicesHold(a, b, c, d)
<1> DEFINE s == Slice(a, b)
           t == Slice(c, d)
           q == d - c
           got == Slices(a, b, c, d)
           m == b - a
           n == Lengths(a, b, c, d)
<1>0. got = s \o t /\ n = m + q
  BY DEF Slices, Lengths
<1>1. /\ s \in Seq(Record) /\ Len(s) = m /\ m \in Nat
      /\ t \in Seq(Record) /\ Len(t) = q /\ q \in Nat /\ n \in Nat
      /\ \A i \in 1..m : s[i] = written[a + i]
      /\ \A i \in 1..q : t[i] = written[c + i]
  <2>1. b <= Len(written) /\ c <= Len(written)
    BY DEF Typed
  <2>2. /\ s \in Seq(Record) /\ Len(s) = m /\ \A i \in 1..m : s[i] = written[a + i]
    BY <2>1, SliceProperty
  <2>3. /\ t \in Seq(Record) /\ Len(t) = q /\ \A i \in 1..q : t[i] = written[c + i]
    BY <2>1, SliceProperty
  <2>4. m \in Nat /\ q \in Nat /\ n \in Nat
    BY <1>0
  <2> QED
    BY <2>2, <2>3, <2>4
<1> HIDE DEF s, t, got, n
<1>2. /\ got \in Seq(Record) /\ Len(got) = n /\ DOMAIN got = 1..n
      /\ \A i \in 1..n : got[i] = IF i <= m THEN s[i] ELSE t[i - m]
  <2> DEFINE l == m
  <2>1. n = l + q /\ l \in Nat /\ q \in Nat /\ Len(s) = l
    BY <1>0, <1>1
  <2> HIDE DEF q, l
  <2>2. /\ got \in Seq(Record) /\ Len(got) = n /\ DOMAIN got = 1..n
        /\ \A i \in 1..n : got[i] = IF i <= l THEN s[i] ELSE t[i - l]
    <3>1. /\ s \o t \in Seq(Record) /\ Len(s \o t) = Len(s) + Len(t)
          /\ \A k \in 1..(Len(s) + Len(t)) :
                (s \o t)[k] = IF k <= Len(s) THEN s[k] ELSE t[k - Len(s)]
      BY <1>1, ConcatProperty, Zenon
    <3>2. DOMAIN (s \o t) = 1..Len(s \o t)
      BY <3>1
    <3>3. Len(t) = q
      BY <1>1
    <3> QED
      BY <1>0, <2>1, <3>1, <3>2, <3>3, Zenon
  <2> QED
    BY <2>2 DEF l
<1>3. ASSUME NEW i \in 1..n
      PROVE  got[i] = IF i <= m THEN written[a + i] ELSE written[c + (i - m)]
  <2>1. CASE i <= m
    <3>1. i \in 1..m
      BY <2>1
    <3> QED
      BY <1>1, <1>2, <2>1, <3>1
  <2>2. CASE ~(i <= m)
    <3>1. i - m \in 1..q
      BY <1>0, <1>1, <2>2
    <3>2. t[i - m] = written[c + (i - m)]
      BY <1>1, <3>1
    <3> QED
      BY <1>2, <2>2, <3>2, Zenon
  <2> QED
    BY <2>1, <2>2
<1>4. \A i \in 1..n : got[i] = IF i <= m THEN written[a + i] ELSE written[c + (i - m)]
  BY <1>3
<1>5. ASSUME NEW k \in (a + 1)..b PROVE got[k - a] = written[k] /\ k - a \in 1..n
  <2>1. k - a \in 1..n /\ k - a <= m /\ a + (k - a) = k
    BY <1>0
  <2> QED
    BY <1>4, <2>1
<1>6. ASSUME NEW k \in (c + 1)..d PROVE got[m + (k - c)] = written[k] /\ m + (k - c) \in 1..n
  <2>1. m + (k - c) \in 1..n /\ ~(m + (k - c) <= m) /\ c + ((m + (k - c)) - m) = k
    BY <1>0
  <2>2. got[m + (k - c)] = written[c + ((m + (k - c)) - m)]
    BY <1>4, <2>1
  <2> QED
    BY <2>1, <2>2, Zenon
<1> QED
  BY <1>1, <1>2, <1>4, <1>5, <1>6 DEF got, n, SlicesHold

\* What was written is in the order of the dates, and so is what is read of it.
LEMMA SlicesInOrder ==
  ASSUME Typed, NEW start, Stored(start),
         NEW a \in Nat, NEW b \in Nat, NEW c \in Nat, NEW d \in Nat,
         a <= b, b <= c, c <= d, d <= Len(written)
  PROVE  LET got == Slices(a, b, c, d)
         IN  Records!Dated(got) = got /\ InOrder(got)
<1> DEFINE got == Slices(a, b, c, d)
           m == b - a
           n == Lengths(a, b, c, d)
           at(i) == IF i <= m THEN a + i ELSE c + (i - m)
<1>1. /\ got \in Seq(Record) /\ Len(got) = n /\ n \in Nat /\ m \in Nat
      /\ \A i \in 1..n : got[i] = IF i <= m THEN written[a + i] ELSE written[c + (i - m)]
  <2>1. SlicesHold(a, b, c, d)
    BY SlicesProperty
  <2> QED
    BY <2>1, Zenon DEF SlicesHold
<1>0. n = m + (d - c)
  BY DEF Lengths
<1> HIDE DEF got, n
<1>2. \A k \in 1..Len(written) : written[k].ts = k - 1
  BY StoredProperty
<1>3. ASSUME NEW i \in 1..n PROVE got[i].ts = at(i) - 1 /\ at(i) \in 1..Len(written)
  <2>1. at(i) \in 1..Len(written)
    BY <1>0 DEF Typed
  <2>2. got[i] = written[at(i)]
    BY <1>1
  <2> HIDE DEF at
  <2> QED
    BY <1>2, <2>1, <2>2
<1>4. \A i, j \in 1..n : i < j => at(i) < at(j)
  BY <1>0
<1>5. ASSUME NEW i \in 1..n, NEW j \in 1..n, i < j PROVE got[i].ts < got[j].ts
  <2>1. at(i) < at(j) /\ at(i) \in Nat /\ at(j) \in Nat
    BY <1>3, <1>4, <1>5
  <2>2. got[i].ts = at(i) - 1 /\ got[j].ts = at(j) - 1
    BY <1>3
  <2> HIDE DEF at
  <2> QED
    BY <2>1, <2>2
<1> HIDE DEF m, at
<1>6. Records!Dated(got) = got
  BY <1>1, <1>5, DatedInOrder
<1>7. ASSUME NEW i \in 1..(Len(got) - 1) PROVE got[i].ts < got[i + 1].ts
  <2>1. i \in 1..n /\ i + 1 \in 1..n /\ i < i + 1
    BY <1>1
  <2> QED
    BY <1>5, <2>1
<1> QED
  BY <1>6, <1>7 DEF InOrder, got

\* What the two files hold: the log what comes after the previous generation.
LEMMA FilesHold ==
  ASSUME Files, NEW start, Stored(start),
         NEW from, from = IF name["old"] = 0 THEN 0 ELSE start[name["old"]],
         NEW mid, mid = start[name["old"] + 1]
  PROVE  /\ from \in Nat /\ mid \in Nat /\ Len(written) \in Nat
         /\ from <= mid /\ mid <= Len(written)
         /\ Parsed(Contents("old")) = Slice(from, mid)
         /\ Parsed(Contents("log")) = Slice(mid, Len(written))
<1> DEFINE n == Len(disk)
           old == name["old"]
           log == name["log"]
<1>1. /\ n \in Nat /\ old \in Nat /\ log \in Nat /\ Len(written) \in Nat
      /\ start[1] = 0 /\ start[n + 1] = Len(written)
      /\ \A f \in 1..(n + 1) : start[f] \in Nat /\ start[f] <= Len(written)
      /\ \A f \in 1..n : start[f + 1] = start[f] + Len(disk[f]) /\ Len(disk[f]) \in Nat
      /\ \A f \in 1..n : disk[f] \in Seq(Line)
  <2>1. old \in Nat /\ log \in Nat
    BY DEF Files, Typed
  <2>2. \A f \in 1..n : disk[f] \in Seq(Line)
    BY DiskProperty DEF Files, Typed
  <2> QED
    BY <2>1, <2>2, StoredProperty DEF Files
<1>2. (log = 0 /\ old = n) \/ (log = n /\ old = n - 1)
  BY DEF Files, Numbered
<1>3. ASSUME NEW f \in 1..n
      PROVE  Parsed(disk[f]) = Slice(start[f], start[f + 1])
  <2>1. Len(disk[f]) \in 0..Len(disk[f]) /\ SubSeq(disk[f], 1, Len(disk[f])) = disk[f]
    BY <1>1
  <2>2. Parsed(SubSeq(disk[f], 1, Len(disk[f]))) = Slice(start[f], start[f] + Len(disk[f]))
    BY <2>1, FileIsSlice DEF Files
  <2> QED
    BY <1>1, <2>1, <2>2
<1>4. mid \in Nat /\ mid <= Len(written)
  <2>1. old + 1 \in 1..(n + 1)
    BY <1>1, <1>2
  <2> QED
    BY <1>1, <2>1
<1>5. from \in Nat /\ from <= mid /\ Parsed(Contents("old")) = Slice(from, mid)
  <2>1. CASE old = 0
    <3>1. from = 0 /\ mid = 0 /\ Contents("old") = <<>>
      BY <1>1, <2>1 DEF Contents
    <3> QED
      BY <3>1, NoLines
  <2>2. CASE old # 0
    <3>1. old \in 1..n /\ old \in 1..(n + 1) /\ Contents("old") = disk[old] /\ from = start[old]
      BY <1>1, <1>2, <2>2 DEF Contents
    <3>2. start[old] \in Nat /\ start[old] <= start[old + 1]
      <4>1. start[old] \in Nat /\ start[old + 1] = start[old] + Len(disk[old]) /\ Len(disk[old]) \in Nat
        BY <1>1, <3>1
      <4> QED
        BY <4>1
    <3> QED
      BY <1>3, <3>1, <3>2
  <2> QED
    BY <2>1, <2>2
<1>6. Parsed(Contents("log")) = Slice(mid, Len(written))
  <2>1. CASE log = 0
    <3>1. mid = Len(written) /\ Contents("log") = <<>>
      BY <1>1, <1>2, <2>1 DEF Contents
    <3> QED
      BY <1>1, <3>1, NoLines
  <2>2. CASE log # 0
    <3>1. log \in 1..n /\ log = old + 1 /\ log + 1 = n + 1 /\ Contents("log") = disk[log]
      BY <1>1, <1>2, <2>2 DEF Contents
    <3>2. Parsed(disk[log]) = Slice(start[log], start[log + 1])
      BY <1>3, <3>1
    <3> QED
      BY <1>1, <3>1, <3>2
  <2> QED
    BY <2>1, <2>2
<1> QED
  BY <1>1, <1>4, <1>5, <1>6

\* All that comes after the first lines is the newest part.
LEMMA SliceIsSuffix ==
  ASSUME Typed, NEW a \in Nat, a <= Len(written)
  PROVE  IsSuffix(Slice(a, Len(written)), written)
<1> DEFINE s == Slice(a, Len(written))
           n == Len(written)
           m == n - a
           rs == Reverse(s)
           rw == Reverse(written)
<1>1. /\ n \in Nat /\ written \in Seq(Record) /\ m \in Nat /\ m <= n
      /\ Len(s) = m /\ \A i \in 1..m : s[i] = written[a + i]
  <2>1. written \in Seq(Record) /\ n \in Nat /\ n = Len(written)
    BY DEF Typed
  <2>2. n <= Len(written) /\ m \in Nat /\ m <= n
    BY <2>1
  <2>3. Len(s) = m
    BY <2>1, <2>2, SliceProperty
  <2>4. \A i \in 1..m : s[i] = written[a + i]
    BY <2>1 DEF Slice
  <2> HIDE DEF s, m, n
  <2> QED
    BY <2>1, <2>2, <2>3, <2>4
<1>2. rs = [i \in 1..m |-> s[(m - i) + 1]]
  BY <1>1 DEF Reverse
<1>3. rw = [i \in 1..n |-> written[(n - i) + 1]]
  BY DEF Reverse
<1> HIDE DEF s, rs, rw
<1>4. ASSUME NEW i \in 1..m PROVE rs[i] = rw[i]
  <2>1. (m - i) + 1 \in 1..m /\ a + ((m - i) + 1) = (n - i) + 1 /\ i \in 1..n
    BY <1>1
  <2>2. rs[i] = s[(m - i) + 1] /\ rw[i] = written[(n - i) + 1]
    BY <1>2, <1>3, <2>1
  <2>3. s[(m - i) + 1] = written[a + ((m - i) + 1)]
    BY <1>1, <2>1
  <2> QED
    BY <2>1, <2>2, <2>3
<1>5. Len(rs) = m /\ Len(rw) = n
  <2> HIDE DEF m, n
  <2> QED
    BY <1>1, <1>2, <1>3
<1>6. SubSeq(rs, 1, Len(rs)) = SubSeq(rw, 1, Len(rs))
  <2> HIDE DEF m, n
  <2>1. SubSeq(rs, 1, m) = [i \in 1..m |-> rs[i]]
    BY <1>1, <1>2, SubSeqProperties
  <2>2. SubSeq(rw, 1, m) = [i \in 1..m |-> rw[i]]
    BY <1>1, <1>3, SubSeqProperties
  <2> QED
    BY <1>4, <1>5, <2>1, <2>2
<1>7. IsPrefix(rs, rw)
  BY <1>1, <1>5, <1>6 DEF IsPrefix
<1> QED
  BY <1>7 DEF IsSuffix, s, rs, rw

\* What is read back is what comes after the lines of the files before the two.
LEMMA ReadAllIsSlice ==
  ASSUME Files, NEW start, Stored(start),
         NEW from, from = IF name["old"] = 0 THEN 0 ELSE start[name["old"]]
  PROVE  /\ from \in Nat /\ Len(written) \in Nat /\ from <= Len(written)
         /\ ReadAll = Slice(from, Len(written))
<1>1. PICK mid : mid = start[name["old"] + 1]
  OBVIOUS
<1>2. PICK n : n = Len(written)
  OBVIOUS
<1>3. /\ from \in Nat /\ mid \in Nat /\ n \in Nat /\ from <= mid /\ mid <= n
      /\ Parsed(Contents("old")) = Slice(from, mid)
      /\ Parsed(Contents("log")) = Slice(mid, n)
  BY <1>1, <1>2, FilesHold
<1>4. Typed
  BY DEF Files
<1> DEFINE got == Slices(from, mid, mid, n)
<1>5. ReadAll = Records!Dated(got)
  BY <1>3, Zenon DEF ReadAll, ReadOrder, Slices
<1>6. Records!Dated(got) = got
  BY <1>2, <1>3, <1>4, SlicesInOrder
<1>7. SlicesHold(from, mid, mid, n)
  BY <1>2, <1>3, <1>4, SlicesProperty
<1>8. /\ got \in Seq(Record) /\ Len(got) = Lengths(from, mid, mid, n)
      /\ \A i \in 1..Lengths(from, mid, mid, n) :
            got[i] = IF i <= mid - from THEN written[from + i] ELSE written[mid + (i - (mid - from))]
  BY <1>7, Zenon DEF SlicesHold
<1>9. Lengths(from, mid, mid, n) = n - from
  BY <1>3 DEF Lengths
<1> HIDE DEF got
<1>10. ASSUME NEW i \in 1..(n - from) PROVE got[i] = written[from + i]
  <2>1. mid + (i - (mid - from)) = from + i
    BY <1>3
  <2> QED
    BY <1>8, <1>9, <2>1
<1>11. got = [i \in 1..(n - from) |-> got[i]]
  BY <1>3, <1>8, <1>9
<1>12. got = Slice(from, n)
  BY <1>10, <1>11 DEF Slice
<1> QED
  BY <1>2, <1>3, <1>5, <1>6, <1>12

\* A report that began earlier misses nothing but what was rotated since, and what is
\* older than all it has.
LEMMA GotProperty ==
  ASSUME Files, Reading, torn = 0, ~overlap, NEW start, Stored(start)
  PROVE  /\ InOrder(Got)
         /\ \A record \in ToSet(written) \ (ToSet(Got) \cup Rotated) :
                Got # <<>> /\ record.ts < Got[1].ts
<1> DEFINE old == name["old"]
           file == reader.file
<1>1. PICK mid : mid = start[old + 1]
  OBVIOUS
<1>2. PICK n : n = Len(written)
  OBVIOUS
<1>3. PICK a : a = IF file = 0 THEN 0 ELSE start[file]
  OBVIOUS
<1>4. PICK b : b = IF file = 0 THEN 0 ELSE start[file] + reader.lines
  OBVIOUS
<1>5. /\ Typed /\ old \in Nat /\ file \in Nat /\ reader.lines \in Nat /\ n \in Nat
      /\ file <= old /\ old <= Len(disk) /\ Len(disk) \in Nat
      /\ mid \in Nat /\ mid <= n
      /\ Parsed(Contents("log")) = Slice(mid, n)
  <2>1. PICK from : from = IF name["old"] = 0 THEN 0 ELSE start[name["old"]]
    OBVIOUS
  <2>2. mid \in Nat /\ mid <= n /\ n \in Nat /\ Parsed(Contents("log")) = Slice(mid, n)
    BY <1>1, <1>2, <2>1, FilesHold
  <2>3. Typed /\ old \in Nat /\ file \in Nat /\ reader.lines \in Nat /\ file <= old
    BY DEF Files, Typed, Reading
  <2>4. Len(disk) \in Nat
    BY <2>3, StoredProperty
  <2>5. old <= Len(disk)
    BY <2>3, <2>4 DEF Files, Numbered
  <2> QED
    BY <2>2, <2>3, <2>4, <2>5
<1>6. /\ a \in Nat /\ b \in Nat /\ a <= b /\ b <= mid
      /\ Parsed(IF file = 0 THEN <<>> ELSE SubSeq(disk[file], 1, reader.lines)) = Slice(a, b)
      /\ file # 0 => a = start[file] /\ a < b
  <2>1. CASE file = 0
    <3>1. a = 0 /\ b = 0 /\ Parsed(<<>>) = Slice(0, 0)
      BY <1>3, <1>4, <2>1, NoLines
    <3> QED
      BY <1>5, <2>1, <3>1
  <2>2. CASE file # 0
    <3>1. file \in 1..Len(disk) /\ file + 1 \in 1..(Len(disk) + 1) /\ old + 1 \in 1..(Len(disk) + 1)
          /\ file + 1 <= old + 1
      BY <1>5, <2>2
    <3>2. reader.lines <= Len(disk[file]) /\ reader.lines >= 1
      BY <2>2 DEF Reading
    <3>3. /\ start[file + 1] = start[file] + Len(disk[file]) /\ Len(disk[file]) \in Nat
          /\ start[file + 1] \in Nat
      BY <1>5, <3>1, StoredProperty
    <3>4. reader.lines \in 0..Len(disk[file])
      BY <1>5, <3>2, <3>3
    <3>5. /\ Parsed(SubSeq(disk[file], 1, reader.lines)) = Slice(start[file], start[file] + reader.lines)
          /\ start[file] \in Nat
      BY <1>5, <3>1, <3>4, FileIsSlice
    <3>6. start[file + 1] <= mid
      BY <1>1, <1>5, <3>1, StoredGrows
    <3>7. a = start[file] /\ b = a + reader.lines
      BY <1>3, <1>4, <2>2
    <3>8. a <= b /\ b <= mid /\ a < b /\ a \in Nat /\ b \in Nat
      <4> DEFINE x == start[file]
                 y == start[file + 1]
                 l == reader.lines
                 w == Len(disk[file])
      <4>1. /\ x \in Nat /\ y \in Nat /\ l \in Nat /\ w \in Nat /\ mid \in Nat
            /\ y = x + w /\ l <= w /\ l >= 1 /\ y <= mid /\ a = x /\ b = a + l
        BY <1>5, <3>2, <3>3, <3>5, <3>6, <3>7
      <4> HIDE DEF x, y, l, w
      <4> QED
        BY <4>1
    <3> QED
      BY <2>2, <3>5, <3>7, <3>8
  <2> QED
    BY <2>1, <2>2
<1> DEFINE got == Slices(a, b, mid, n)
           s == IF file = 0 THEN <<>> ELSE SubSeq(disk[file], 1, reader.lines)
<1>7. Got = got /\ InOrder(got)
  <2>1. Got = Records!Dated(Parsed(s) \o Parsed(Contents("log")))
    BY Zenon DEF Got, ReadOrder
  <2> HIDE DEF s, file
  <2>2. Got = Records!Dated(got)
    BY <1>5, <1>6, <2>1, Zenon DEF Slices, s, file
  <2>3. Records!Dated(got) = got /\ InOrder(got)
    BY <1>2, <1>5, <1>6, SlicesInOrder
  <2> QED
    BY <2>2, <2>3
<1>8. SlicesHold(a, b, mid, n)
  BY <1>2, <1>5, <1>6, SlicesProperty
<1>9. /\ DOMAIN got = 1..Lengths(a, b, mid, n)
      /\ \A k \in (a + 1)..b : got[k - a] = written[k] /\ k - a \in 1..Lengths(a, b, mid, n)
      /\ \A k \in (mid + 1)..n :
            got[(b - a) + (k - mid)] = written[k] /\ (b - a) + (k - mid) \in 1..Lengths(a, b, mid, n)
  BY <1>8, Zenon DEF SlicesHold
<1> HIDE DEF got
<1>10. \A k \in 1..n : written[k].ts = k - 1
  BY <1>2, <1>5, StoredProperty
<1>11. ASSUME NEW k \in 1..n,
              written[k] \notin ToSet(got), written[k] \notin Rotated
       PROVE  got # <<>> /\ written[k].ts < got[1].ts
  <2>1. k <= mid
    <3>1. SUFFICES ASSUME ~(k <= mid) PROVE FALSE
      OBVIOUS
    <3>2. k \in (mid + 1)..n
      BY <1>5, <3>1
    <3>3. written[k] \in ToSet(got)
      BY <1>9, <3>2 DEF ToSet
    <3> QED
      BY <1>11, <3>3
  <2>2. PICK f \in 1..Len(disk) : start[f] < k /\ k <= start[f + 1]
    BY <1>2, <1>5, WhichFile
  <2>3. /\ f \in 1..(Len(disk) + 1) /\ start[f] \in Nat /\ start[f + 1] \in Nat
        /\ start[f + 1] = start[f] + Len(disk[f]) /\ Len(disk[f]) \in Nat
    <3>1. f \in 1..(Len(disk) + 1) /\ f + 1 \in 1..(Len(disk) + 1)
      BY <1>5
    <3> QED
      BY <1>5, <3>1, StoredProperty
  <2>4. f <= old
    <3>1. SUFFICES ASSUME ~(f <= old) PROVE FALSE
      OBVIOUS
    <3>2. old + 1 \in 1..(Len(disk) + 1) /\ old + 1 <= f
      BY <1>5, <3>1
    <3>3. start[old + 1] <= start[f]
      BY <1>5, <2>3, <3>2, StoredGrows
    <3> QED
      BY <1>1, <1>5, <2>1, <2>2, <2>3, <3>3
  <2>5. f < file
    <3>1. SUFFICES ASSUME ~(f < file) PROVE FALSE
      OBVIOUS
    <3>2. f \in {g \in DOMAIN disk : file <= g /\ g <= old}
      <4>1. DOMAIN disk = 1..Len(disk)
        BY <1>5, StoredProperty
      <4> QED
        BY <1>5, <2>4, <3>1, <4>1
    <3>3. disk[f] \in Seq(Line) /\ Len(disk[f]) \in 0..Len(disk[f])
      BY <2>3, DiskProperty DEF Files, Typed
    <3>4. Parsed(disk[f]) = Slice(start[f], start[f + 1])
      <4>1. SubSeq(disk[f], 1, Len(disk[f])) = disk[f]
        BY <3>3
      <4>2. Parsed(SubSeq(disk[f], 1, Len(disk[f]))) = Slice(start[f], start[f] + Len(disk[f]))
        BY <1>5, <3>3, FileIsSlice
      <4> QED
        BY <2>3, <4>1, <4>2
    <3>5. /\ DOMAIN Slice(start[f], start[f + 1]) = 1..(start[f + 1] - start[f])
          /\ Slice(start[f], start[f + 1])[k - start[f]] = written[k]
          /\ k - start[f] \in 1..(start[f + 1] - start[f])
      <4> DEFINE x == start[f]
                 y == start[f + 1]
      <4>1. x \in Nat /\ y \in Nat /\ x < k /\ k <= y
        BY <2>2, <2>3
      <4> HIDE DEF x, y
      <4>2. k - x \in 1..(y - x) /\ x + (k - x) = k
        BY <4>1
      <4>3. DOMAIN Slice(x, y) = 1..(y - x) /\ Slice(x, y)[k - x] = written[k]
        BY <4>2 DEF Slice
      <4> QED
        BY <4>2, <4>3 DEF x, y
    <3>6. written[k] \in ToSet(Parsed(disk[f]))
      BY <3>4, <3>5 DEF ToSet
    <3>7. written[k] \in Rotated
      BY <3>2, <3>6 DEF Rotated
    <3> QED
      BY <1>11, <3>7
  <2>6. file # 0 /\ a = start[file] /\ a < b
    <3>1. file # 0
      BY <1>5, <2>5
    <3> QED
      BY <1>6, <3>1
  <2>7. k <= a
    <3>1. f + 1 <= file /\ f + 1 \in 1..(Len(disk) + 1) /\ file \in 1..(Len(disk) + 1)
      BY <1>5, <2>5, <2>6
    <3>2. start[f + 1] <= start[file]
      BY <1>5, <3>1, StoredGrows
    <3>3. start[f + 1] \in Nat /\ k <= start[f + 1] /\ start[f + 1] <= a
      BY <2>2, <2>3, <2>6, <3>2
    <3> DEFINE y == start[f + 1]
    <3> HIDE DEF y
    <3>4. y \in Nat /\ k <= y /\ y <= a /\ a \in Nat /\ k \in Nat
      BY <1>5, <1>6, <3>3 DEF y
    <3> QED
      BY <3>4
  <2>8. got[1] = written[a + 1] /\ 1 \in DOMAIN got /\ a + 1 \in 1..n
    <3>1. a + 1 \in (a + 1)..b /\ (a + 1) - a = 1 /\ a + 1 \in 1..n
      BY <1>5, <1>6, <2>6
    <3> QED
      BY <1>9, <3>1
  <2>9. written[k].ts = k - 1 /\ got[1].ts = (a + 1) - 1
    BY <1>10, <2>8
  <2> QED
    BY <1>6, <2>7, <2>8, <2>9
<1>12. ASSUME NEW record \in ToSet(written) \ (ToSet(got) \cup Rotated)
       PROVE  got # <<>> /\ record.ts < got[1].ts
  <2>1. PICK k \in 1..n : record = written[k]
    <3>1. DOMAIN written = 1..n
      BY <1>2, <1>5, StoredProperty
    <3> QED
      BY <3>1 DEF ToSet
  <2> QED
    BY <1>11, <2>1
<1> QED
  BY <1>7, <1>12

LEMMA ReadsNewestHolds ==
  ASSUME Files, Kept, Reading
  PROVE  ReadsNewest
<1> SUFFICES ASSUME torn = 0, ~overlap
             PROVE  /\ IsSuffix(ReadAll, written)
                    /\ InOrder(Got)
                    /\ \A record \in ToSet(written) \ (ToSet(Got) \cup Rotated) :
                            Got # <<>> /\ record.ts < Got[1].ts
  BY Zenon DEF ReadsNewest
<1>1. PICK start : Stored(start)
  BY DEF Kept, Stored
<1>2. PICK from : from = IF name["old"] = 0 THEN 0 ELSE start[name["old"]]
  OBVIOUS
<1>3. from \in Nat /\ from <= Len(written) /\ ReadAll = Slice(from, Len(written))
  BY <1>1, <1>2, ReadAllIsSlice
<1>4. IsSuffix(ReadAll, written)
  BY <1>3, SliceIsSuffix DEF Files
<1> QED
  BY <1>1, <1>4, GotProperty

\* What a report reads back is the newest part of what was written, in order and with
\* nothing missing in the middle, whatever rename or reopen failed and wherever a
\* process ended, for every max_bytes, and a report that began before the log was
\* rotated misses nothing but what was (rotate, read_all).
THEOREM ReadsNewestAlways == Spec => []ReadsNewest
<1>1. Init => Files /\ Kept /\ Counted /\ Reading
  BY FilesInit, KeptInit
<1>2. Files /\ Kept /\ Counted /\ Reading /\ [Next]_vars => (Files /\ Kept /\ Counted /\ Reading)'
  BY FilesNext, KeptNext, CountedNext, ReadingNext
<1>3. Files /\ Kept /\ Counted /\ Reading => ReadsNewest
  BY ReadsNewestHolds
<1> QED
  BY <1>1, <1>2, <1>3, PTL DEF Spec

-----------------------------------------------------------------------------
(* What is not lost *)

\* The first lines of a file are no longer than the file.
LEMMA SizeOfFirst ==
  ASSUME NEW lines \in Seq(Line), NEW n \in 0..Len(lines)
  PROVE  SizeOf(SubSeq(lines, 1, n)) <= SizeOf(lines)
<1> DEFINE c == Len(lines)
           size(m) == SizeOf(SubSeq(lines, 1, m))
           Bad == {m \in n..c : ~(size(n) <= size(m))}
<1>1. c \in Nat /\ n \in Nat /\ n <= c
  OBVIOUS
<1>2. ASSUME NEW m \in 0..c PROVE SubSeq(lines, 1, m) \in Seq(Line) /\ size(m) \in Nat
  <2>1. SubSeq(lines, 1, m) \in Seq(Line)
    OBVIOUS
  <2> QED
    BY <2>1, SizeTyped
<1>3. ASSUME Bad # {} PROVE FALSE
  <2>1. PICK t \in Bad : \A u \in Bad : t <= u
    <3>1. Bad \subseteq Nat
      OBVIOUS
    <3> HIDE DEF Bad
    <3> QED
      BY <1>3, <3>1, FirstExists
  <2>2. t \in n..c /\ ~(size(n) <= size(t))
    OBVIOUS
  <2>3. t # n
    BY <1>2, <2>2
  <2> DEFINE p == t - 1
             head == SubSeq(lines, 1, p)
  <2>4. p \in n..c /\ p \in 0..c /\ t \in 0..c /\ ~(t <= p) /\ t \in 1..c /\ p + 1 = t
    BY <1>1, <2>2, <2>3
  <2>5. size(n) <= size(p)
    BY <2>1, <2>4
  <2>6. SubSeq(lines, 1, t) = Append(head, lines[t]) /\ lines[t] \in Line /\ head \in Seq(Line)
    BY <1>1, <2>4
  <2> HIDE DEF head
  <2>7. size(t) = SizeOf(head) + Bytes(lines[t])
    BY <2>6, SizeOneMore
  <2>8. SizeOf(head) = size(p)
    BY DEF head
  <2>9. size(p) \in Nat /\ size(n) \in Nat /\ Bytes(lines[t]) \in Nat
    BY <1>1, <1>2, <2>4, BytesTyped
  <2> HIDE DEF size, p
  <2> QED
    BY <2>2, <2>5, <2>7, <2>8, <2>9
<1>4. c \in n..c /\ SubSeq(lines, 1, c) = lines
  BY <1>1
<1>5. size(n) <= size(c)
  BY <1>3, <1>4
<1> QED
  BY <1>4, <1>5

LEMMA HistoryKeptHolds ==
  ASSUME Files, Kept, Counted
  PROVE  HistoryKept
<1> SUFFICES ASSUME torn = 0, ~overlap, ReadAll # written
             PROVE  SizeOf([i \in DOMAIN ReadAll |-> Whole(ReadAll[i])]) >= MaxBytes
  BY Zenon DEF HistoryKept
<1>1. PICK start : Stored(start)
  BY DEF Kept, Stored
<1>2. PICK from : from = IF name["old"] = 0 THEN 0 ELSE start[name["old"]]
  OBVIOUS
<1>3. PICK n : n = Len(written)
  OBVIOUS
<1>4. from \in Nat /\ n \in Nat /\ from <= n /\ ReadAll = Slice(from, n)
  BY <1>1, <1>2, <1>3, ReadAllIsSlice
<1>5. written \in Seq(Record) /\ Typed
  BY DEF Files, Typed
<1>6. name["old"] # 0
  <2>1. SUFFICES ASSUME name["old"] = 0 PROVE FALSE
    OBVIOUS
  <2>2. from = 0 /\ 1..(n - 0) = 1..n
    BY <1>2, <1>4, <2>1
  <2>3. ReadAll = [i \in 1..n |-> written[0 + i]]
    BY <1>4, <2>2 DEF Slice
  <2>4. \A i \in 1..n : 0 + i = i
    BY <1>4
  <2>5. ReadAll = [i \in 1..n |-> written[i]]
    BY <2>3, <2>4
  <2>6. written = [i \in 1..n |-> written[i]]
    BY <1>3, <1>5
  <2> QED
    BY <2>5, <2>6
<1>7. PICK old : old = name["old"]
  OBVIOUS
<1>8. old \in 1..Len(disk) /\ old \in 1..(Len(disk) + 1) /\ old \in 1..name["old"] /\ from = start[old]
  <2>1. Len(disk) \in Nat /\ old \in Nat
    BY <1>1, <1>5, <1>7, StoredProperty DEF Typed
  <2> QED
    BY <1>2, <1>6, <1>7, <2>1 DEF Files, Numbered
<1>9. PICK c : c = Len(disk[old])
  OBVIOUS
<1>10. /\ c \in Nat /\ disk[old] \in Seq(Line) /\ from + c <= n
       /\ \A i \in 1..c : disk[old][i] = Whole(written[from + i])
  <2>1. disk[old] \in Seq(Line) /\ c \in 0..Len(disk[old]) /\ c \in Nat
    BY <1>5, <1>8, <1>9, DiskProperty DEF Typed
  <2>2. \A i \in 1..Len(disk[old]) : disk[old][i] = Whole(written[start[old] + i])
    BY <1>1, <1>5, <1>8, StoredProperty
  <2>3. from + c <= n
    BY <1>1, <1>3, <1>5, <1>8, <2>1, FileIsSlice
  <2> QED
    BY <1>8, <1>9, <2>1, <2>2, <2>3
<1> DEFINE lines == [i \in DOMAIN ReadAll |-> Whole(ReadAll[i])]
<1>11. /\ lines \in Seq(Line) /\ Len(lines) = n - from
       /\ \A i \in 1..(n - from) : lines[i] = Whole(written[from + i])
  <2>1. /\ DOMAIN ReadAll = 1..(n - from)
        /\ \A i \in 1..(n - from) : /\ ReadAll[i] = written[from + i]
                                    /\ from + i \in 1..n
    <3>1. ReadAll = [i \in 1..(n - from) |-> written[from + i]]
      BY <1>4 DEF Slice
    <3>2. \A i \in 1..(n - from) : from + i \in 1..n
      BY <1>4
    <3> QED
      BY <3>1, <3>2
  <2>2. \A k \in 1..n : Whole(written[k]) \in Line
    <3>1. \A k \in 1..n : written[k] \in Record
      BY <1>3, <1>5
    <3> QED
      BY <3>1 DEF Line, Whole
  <2>3. lines = [i \in 1..(n - from) |-> Whole(written[from + i])]
    BY <2>1
  <2>4. n - from \in Nat
    BY <1>4
  <2> HIDE DEF lines
  <2> QED
    BY <2>1, <2>2, <2>3, <2>4
<1> HIDE DEF lines
<1>12. c \in 0..Len(lines) /\ SubSeq(lines, 1, c) = disk[old]
  <2>1. c \in 0..(n - from) /\ n - from \in Nat
    BY <1>4, <1>10
  <2>2. \A i \in 1..c : lines[i] = disk[old][i]
    <3>1. \A i \in 1..c : i \in 1..(n - from)
      BY <2>1
    <3> QED
      BY <1>10, <1>11, <3>1, Zenon
  <2>3. SubSeq(lines, 1, c) \in Seq(Line) /\ Len(SubSeq(lines, 1, c)) = c
        /\ \A i \in 1..c : SubSeq(lines, 1, c)[i] = lines[i]
    BY <1>11, <2>1
  <2> QED
    BY <1>9, <1>10, <1>11, <2>1, <2>2, <2>3
<1>13. SizeOf(disk[old]) <= SizeOf(lines)
  BY <1>11, <1>12, SizeOfFirst
<1>14. SizeOf(disk[old]) >= MaxBytes
  BY <1>8 DEF Counted
<1>15. SizeOf(disk[old]) \in Nat /\ SizeOf(lines) \in Nat /\ MaxBytes \in Nat
  BY <1>10, <1>11, SizeTyped, LogFileAssumption
<1>16. SizeOf(lines) >= MaxBytes
  BY <1>13, <1>14, <1>15
<1> QED
  BY <1>16 DEF lines

\* Nothing is lost until a whole generation of max_bytes is kept instead, for every
\* max_bytes (rotate).
THEOREM HistoryKeptAlways == Spec => []HistoryKept
<1>1. Init => Files /\ Kept /\ Counted
  BY FilesInit, KeptInit
<1>2. Files /\ Kept /\ Counted /\ [Next]_vars => (Files /\ Kept /\ Counted)'
  BY FilesNext, KeptNext, CountedNext
<1>3. Files /\ Kept /\ Counted => HistoryKept
  BY HistoryKeptHolds
<1> QED
  BY <1>1, <1>2, <1>3, PTL DEF Spec

-----------------------------------------------------------------------------
(* What a torn line costs *)

LEMMA PlaceProperty ==
  ASSUME NEW d \in Seq(Seq(Line))
  PROVE  \A p : p \in PlacesIn(d) <=>
            p = <<p[1], p[2]>> /\ p[1] \in 1..Len(d) /\ p[2] \in 1..Len(d[p[1]])
<1>1. DOMAIN d = 1..Len(d) /\ \A f \in 1..Len(d) : DOMAIN d[f] = 1..Len(d[f])
  BY DiskProperty
<1>2. \A p : p \in PlacesIn(d) <=> \E f \in 1..Len(d) : p \in {f} \X (1..Len(d[f]))
  BY <1>1 DEF PlacesIn
<1> QED
  BY <1>2

\* A line that is written takes a new place, and every other stays where it is.
LEMMA NewPlace ==
  ASSUME Typed, Typed', NEW f \in 1..Len(disk), NEW line \in Line, Extended(f, line),
         NEW new, new = <<f, Len(disk[f]) + 1>>
  PROVE  /\ Places' = Places \cup {new}
         /\ new \notin Places
         /\ At(new)' = line
         /\ \A p \in Places : At(p)' = At(p)
<1>1. disk \in Seq(Seq(Line)) /\ disk' \in Seq(Seq(Line))
  BY DEF Typed
<1>2. /\ Len(disk) \in Nat /\ Len(disk') = Len(disk)
      /\ \A g \in 1..Len(disk) : disk[g] \in Seq(Line) /\ Len(disk[g]) \in Nat
  BY <1>1, DiskProperty DEF Extended
<1> DEFINE n == Len(disk[f])
<1>3. /\ disk'[f] = Append(disk[f], line) /\ n \in Nat /\ Len(disk'[f]) = n + 1
      /\ disk'[f][n + 1] = line /\ \A i \in 1..n : disk'[f][i] = disk[f][i]
  <2>1. disk[f] \in Seq(Line) /\ disk'[f] = Append(disk[f], line)
    BY <1>2 DEF Extended
  <2> QED
    BY <2>1, AppendProperty
<1>4. \A g \in 1..Len(disk) : g # f => disk'[g] = disk[g]
  BY DEF Extended
<1>5. \A p : p \in Places <=>
            p = <<p[1], p[2]>> /\ p[1] \in 1..Len(disk) /\ p[2] \in 1..Len(disk[p[1]])
  BY <1>1, PlaceProperty DEF Places
<1>6. \A p : p \in Places' <=>
            p = <<p[1], p[2]>> /\ p[1] \in 1..Len(disk) /\ p[2] \in 1..Len(disk'[p[1]])
  BY <1>1, <1>2, PlaceProperty DEF Places
<1>7. new \notin Places /\ new \in Places'
  <2>1. new[1] = f /\ new[2] = n + 1 /\ ~(n + 1 \in 1..n) /\ n + 1 \in 1..(n + 1)
    BY <1>3
  <2> QED
    BY <1>3, <1>5, <1>6, <2>1
<1>8. ASSUME NEW p \in Places PROVE p \in Places' /\ At(p)' = At(p)
  <2>1. p = <<p[1], p[2]>> /\ p[1] \in 1..Len(disk) /\ p[2] \in 1..Len(disk[p[1]])
    BY <1>5
  <2>2. CASE p[1] = f
    <3>1. p[2] \in 1..n /\ p[2] \in 1..(n + 1)
      BY <1>3, <2>1, <2>2
    <3>2. disk'[f][p[2]] = disk[f][p[2]]
      BY <1>3, <3>1
    <3>3. p \in Places'
      BY <1>3, <1>6, <2>1, <2>2, <3>1
    <3> QED
      BY <2>2, <3>2, <3>3 DEF At
  <2>3. CASE p[1] # f
    <3>1. disk'[p[1]] = disk[p[1]]
      BY <1>4, <2>1, <2>3
    <3> QED
      BY <1>6, <2>1, <3>1 DEF At
  <2> QED
    BY <2>2, <2>3
<1>9. ASSUME NEW p \in Places', p # new PROVE p \in Places
  <2>1. p = <<p[1], p[2]>> /\ p[1] \in 1..Len(disk) /\ p[2] \in 1..Len(disk'[p[1]])
    BY <1>6
  <2>2. CASE p[1] = f
    <3>1. p[2] \in 1..(n + 1) /\ p[2] # n + 1
      BY <1>3, <1>9, <2>1, <2>2
    <3>2. p[2] \in 1..n
      BY <1>3, <3>1
    <3> QED
      BY <1>5, <2>1, <2>2, <3>2
  <2>3. CASE p[1] # f
    <3>1. disk'[p[1]] = disk[p[1]]
      BY <1>4, <2>1, <2>3
    <3> QED
      BY <1>5, <2>1, <3>1
  <2> QED
    BY <2>2, <2>3
<1>10. At(new)' = line
  <2>1. new[1] = f /\ new[2] = n + 1
    OBVIOUS
  <2>2. disk'[new[1]][new[2]] = line
    BY <1>3, <2>1
  <2> QED
    BY <2>2 DEF At
<1> QED
  BY <1>7, <1>8, <1>9, <1>10

Apart == Separate /\ TornCounted

\* A line that is written has a date of its own, and is counted if it is torn.
LEMMA ApartOneMore ==
  ASSUME Typed, Typed', Apart, NEW f \in 1..Len(disk), NEW line \in Line, Extended(f, line),
         line.record.ts = Clock, Clock' = Clock + 1,
         torn' = IF line.whole THEN torn ELSE torn + 1
  PROVE  Apart'
<1>1. PICK new : new = <<f, Len(disk[f]) + 1>>
  OBVIOUS
<1>2. /\ Places' = Places \cup {new} /\ new \notin Places
      /\ At(new)' = line /\ \A p \in Places : At(p)' = At(p)
  BY <1>1, NewPlace
<1>3. Clock \in Int
  BY DEF Typed, Clock
<1>4. \A p \in Places : At(p) \in Line
  <2>1. \A p \in Places : p[1] \in 1..Len(disk) /\ p[2] \in 1..Len(disk[p[1]])
    BY PlaceProperty DEF Typed, Places
  <2>2. \A g \in 1..Len(disk) : disk[g] \in Seq(Line)
    <3>1. disk \in Seq(Seq(Line))
      BY DEF Typed
    <3> HIDE DEF Typed
    <3> QED
      BY <3>1, DiskProperty
  <2>3. \A g \in 1..Len(disk) : \A i \in 1..Len(disk[g]) : disk[g][i] \in Line
    BY <2>2
  <2> QED
    BY <2>1, <2>3 DEF At
<1>5. \A p \in Places : At(p).record.ts \in Int
  <2>1. \A l \in Line : l.record.ts \in Int
    BY DEF Line, Record
  <2> QED
    BY <1>4, <2>1
<1>6. Separate'
  <2>1. ASSUME NEW p \in Places' PROVE At(p)'.record.ts < Clock'
    <3>1. CASE p = new
      BY <1>2, <1>3, <3>1
    <3>2. CASE p # new
      <4>1. p \in Places /\ At(p)' = At(p) /\ At(p).record.ts < Clock /\ At(p).record.ts \in Int
        BY <1>2, <1>5, <3>2 DEF Apart, Separate
      <4> QED
        BY <1>3, <4>1
    <3> QED
      BY <3>1, <3>2
  <2>2. ASSUME NEW p \in Places', NEW q \in Places', At(p)'.record.ts = At(q)'.record.ts
        PROVE  p = q
    <3>1. ASSUME NEW r \in Places PROVE At(r)' = At(r) /\ At(r).record.ts # Clock
      BY <1>2, <1>3, <1>5 DEF Apart, Separate
    <3>2. At(new)'.record.ts = Clock
      BY <1>2
    <3>3. p \in Places \/ p = new
      BY <1>2
    <3>4. q \in Places \/ q = new
      BY <1>2
    <3> QED
      BY <2>2, <3>1, <3>2, <3>3, <3>4 DEF Apart, Separate
  <2> QED
    BY <2>1, <2>2 DEF Separate
<1>7. TornCounted'
  <2>1. TornPlaces' = IF line.whole THEN TornPlaces ELSE TornPlaces \cup {new}
    <3>1. \A p : p \in TornPlaces' <=> p \in Places' /\ ~At(p)'.whole
      BY DEF TornPlaces
    <3>2. \A p : p \in TornPlaces <=> p \in Places /\ ~At(p).whole
      BY DEF TornPlaces
    <3> QED
      BY <1>2, <3>1, <3>2
  <2>2. new \notin TornPlaces
    BY <1>2 DEF TornPlaces
  <2>3. CASE line.whole
    BY <2>1, <2>3 DEF Apart, TornCounted
  <2>4. CASE ~line.whole
    <3>1. IsFiniteSet(TornPlaces \cup {new}) /\ Cardinality(TornPlaces \cup {new}) = torn + 1
      BY <2>2, FS_AddElement DEF Apart, TornCounted
    <3> QED
      BY <2>1, <2>4, <3>1 DEF TornCounted
  <2> QED
    BY <2>3, <2>4
<1> QED
  BY <1>6, <1>7 DEF Apart

\* A file that is created holds no line.
LEMMA ApartCreated ==
  ASSUME Typed, Typed', Apart, Created \/ disk' = disk, UNCHANGED <<written, torn>>
  PROVE  Apart'
<1>1. disk \in Seq(Seq(Line)) /\ disk' \in Seq(Seq(Line)) /\ Len(disk) \in Nat
  BY DEF Typed
<1>2. \A p : p \in Places <=>
            p = <<p[1], p[2]>> /\ p[1] \in 1..Len(disk) /\ p[2] \in 1..Len(disk[p[1]])
  BY <1>1, PlaceProperty DEF Places
<1>3. \A p : p \in Places' <=>
            p = <<p[1], p[2]>> /\ p[1] \in 1..Len(disk') /\ p[2] \in 1..Len(disk'[p[1]])
  BY <1>1, PlaceProperty DEF Places
<1>4. Places' = Places /\ \A p \in Places : At(p)' = At(p)
  <2>1. CASE disk' = disk
    BY <1>2, <1>3, <2>1 DEF At
  <2>2. CASE Created
    <3>1. /\ Len(disk') = Len(disk) + 1 /\ Len(disk'[Len(disk) + 1]) = 0
          /\ \A g \in 1..Len(disk) : disk'[g] = disk[g]
      BY <2>2 DEF Created
    <3>2. ASSUME NEW p \in Places PROVE p \in Places' /\ At(p)' = At(p)
      <4>0. p[1] \in 1..Len(disk)
        BY <1>2
      <4>1. p[1] \in 1..Len(disk) /\ p[1] \in 1..Len(disk') /\ disk'[p[1]] = disk[p[1]]
        BY <1>1, <3>1, <4>0
      <4> QED
        BY <1>2, <1>3, <4>1 DEF At
    <3>3. ASSUME NEW p \in Places' PROVE p \in Places
      <4>1. p[1] # Len(disk) + 1
        BY <1>3, <3>1
      <4>2. p[1] \in 1..Len(disk)
        BY <1>1, <1>3, <3>1, <4>1
      <4> QED
        BY <1>2, <1>3, <3>1, <4>2
    <3> QED
      BY <3>2, <3>3
  <2> QED
    BY <2>1, <2>2
<1>5. Clock' = Clock
  BY DEF Clock
<1>6. TornPlaces' = TornPlaces
  <2>1. \A p : p \in TornPlaces' <=> p \in Places' /\ ~At(p)'.whole
    BY DEF TornPlaces
  <2>2. \A p : p \in TornPlaces <=> p \in Places /\ ~At(p).whole
    BY DEF TornPlaces
  <2> QED
    BY <1>4, <2>1, <2>2
<1>7. Separate'
  <2>1. \A p \in Places' : At(p)'.record.ts < Clock'
    BY <1>4, <1>5 DEF Apart, Separate
  <2>2. \A p, q \in Places' : At(p)'.record.ts = At(q)'.record.ts => p = q
    BY <1>4 DEF Apart, Separate
  <2> QED
    BY <2>1, <2>2 DEF Separate
<1> QED
  BY <1>6, <1>7 DEF Apart, TornCounted

LEMMA ApartInit ==
  ASSUME Init
  PROVE  Apart
<1>1. disk = <<>> /\ torn = 0
  BY DEF Init
<1>2. Places = {}
  BY <1>1 DEF Places, PlacesIn
<1>3. TornPlaces = {}
  BY <1>2 DEF TornPlaces
<1> QED
  BY <1>1, <1>2, <1>3, FS_EmptySet DEF Apart, Separate, TornCounted

LEMMA ApartNext ==
  ASSUME Files, Files', Apart, [Next]_vars
  PROVE  Apart'
<1>0. Typed /\ Typed' /\ Opens /\ Numbered /\ Len(written) \in Nat /\ torn \in Nat
  BY DEF Files, Typed
<1>1. CASE Start \/ Stop
  <2>1. PICK h \in Handle : Reopened(h, Length, "fresh") /\ UNCHANGED <<written, torn>>
    BY <1>1 DEF Start, Stop, Handle
  <2>2. Length \in Nat /\ "fresh" \in Step
    BY <1>0, LengthTyped DEF Step
  <2>3. Created \/ disk' = disk
    BY <1>0, <2>1, <2>2, ReopenedFiles
  <2> QED
    BY <1>0, <2>1, <2>3, ApartCreated
<1>2. ASSUME NEW h \in Handle, Reopen(h) PROVE Apart'
  <2>1. Reopened(h, 0, "idle") /\ 0 \in Nat /\ "idle" \in Step /\ UNCHANGED <<written, torn>>
    BY <1>2 DEF Reopen, Step
  <2>2. Created \/ disk' = disk
    BY <1>0, <2>1, ReopenedFiles
  <2> QED
    BY <1>0, <2>1, <2>2, ApartCreated
<1>3. ASSUME NEW h \in Handle, AppendLine(h) PROVE Apart'
  <2>1. PICK record \in NextRecords(h) :
            /\ handle[h].file \in 1..Len(disk) /\ Whole(record) \in Line
            /\ Extended(handle[h].file, Whole(record))
            /\ written' = Append(written, record)
            /\ written' \in Seq(Record)
    BY <1>0, <1>3, LineWritten
  <2>2. torn' = torn
    BY <1>3 DEF AppendLine
  <2>3. record.ts = Clock /\ record \in Record
    BY <1>0, NextRecordsTyped
  <2>4. Clock' = Clock + 1
    <3>1. written \in Seq(Record)
      BY <1>0 DEF Typed
    <3>2. Len(written') = Len(written) + 1
      BY <2>1, <2>3, <3>1
    <3> QED
      BY <1>0, <2>2, <3>2 DEF Clock
  <2>5. Whole(record).record.ts = Clock /\ Whole(record).whole
    BY <2>3 DEF Whole
  <2> DEFINE line == Whole(record)
             f == handle[h].file
  <2>6. /\ f \in 1..Len(disk) /\ line \in Line /\ Extended(f, line) /\ line.record.ts = Clock
        /\ torn' = IF line.whole THEN torn ELSE torn + 1
    BY <2>1, <2>2, <2>5
  <2> HIDE DEF line, f
  <2> QED
    BY <1>0, <2>4, <2>6, ApartOneMore
<1>4. ASSUME NEW h \in Handle, TearLine(h) PROVE Apart'
  <2>1. PICK record \in NextRecords(h) :
            /\ handle[h].file \in 1..Len(disk) /\ Torn(record) \in Line
            /\ Extended(handle[h].file, Torn(record))
    BY <1>0, <1>4, LineTorn
  <2>2. torn' = torn + 1 /\ written' = written
    BY <1>4 DEF TearLine
  <2>3. record.ts = Clock
    BY <1>0, NextRecordsTyped
  <2>4. Clock' = Clock + 1
    BY <1>0, <2>2 DEF Clock
  <2>5. Torn(record).record.ts = Clock /\ ~Torn(record).whole
    BY <2>3 DEF Torn
  <2> DEFINE line == Torn(record)
             f == handle[h].file
  <2>6. /\ f \in 1..Len(disk) /\ line \in Line /\ Extended(f, line) /\ line.record.ts = Clock
        /\ torn' = IF line.whole THEN torn ELSE torn + 1
    BY <2>1, <2>2, <2>5
  <2> HIDE DEF line, f
  <2> QED
    BY <1>0, <2>4, <2>6, ApartOneMore
<1>5. ASSUME UNCHANGED <<disk, written, torn>> PROVE Apart'
  BY <1>0, <1>5, ApartCreated
<1>6. ASSUME NEW h \in Handle, Rename(h) \/ RenameFails(h) \/ ReopenFails(h) PROVE Apart'
  <2>1. UNCHANGED <<disk, written, torn>>
    BY <1>6 DEF Rename, RenameFails, ReopenFails
  <2> QED
    BY <1>5, <2>1
<1>7. CASE End \/ ReadFirst \/ UNCHANGED vars
  <2>1. UNCHANGED <<disk, written, torn>>
    BY <1>7 DEF End, ReadFirst, vars
  <2> QED
    BY <1>5, <2>1
<1> QED
  BY <1>1, <1>2, <1>3, <1>4, <1>6, <1>7 DEF Next

\* The places of the lines that parse of the two files, one after the other.
LEMMA ParsedApart ==
  ASSUME Files, Separate
  PROVE  LET file == Parsed(Contents("old")) \o Parsed(Contents("log"))
         IN  /\ file \in Seq(Record)
             /\ \A i, j \in 1..Len(file) : file[i].ts = file[j].ts => i = j
             /\ \A n \in {"old", "log"} : \A i \in Good(Contents(n)) :
                    \E k \in 1..Len(file) : file[k] = Contents(n)[i].record
<1> DEFINE A == Contents("old")
           B == Contents("log")
           file == Parsed(A) \o Parsed(B)
<1>1. A \in Seq(Line) /\ B \in Seq(Line)
  BY SizesTyped DEF Files
<1>2. PICK c \in Nat : \E pos \in [1..c -> Good(A)] :
            /\ \A i \in Good(A) : \E n \in 1..c : pos[n] = i
            /\ \A n, m \in 1..c : n < m => pos[n] < pos[m]
            /\ Parsed(A) = [n \in 1..c |-> A[pos[n]].record]
            /\ Parsed(A) \in Seq(Record)
  <2> HIDE DEF A
  <2> QED
    BY <1>1, ParsedProperty
<1>3. PICK pos \in [1..c -> Good(A)] :
            /\ \A i \in Good(A) : \E n \in 1..c : pos[n] = i
            /\ \A n, m \in 1..c : n < m => pos[n] < pos[m]
            /\ Parsed(A) = [n \in 1..c |-> A[pos[n]].record]
            /\ Parsed(A) \in Seq(Record)
  BY <1>2, Zenon
<1>4. PICK d \in Nat : \E qos \in [1..d -> Good(B)] :
            /\ \A i \in Good(B) : \E n \in 1..d : qos[n] = i
            /\ \A n, m \in 1..d : n < m => qos[n] < qos[m]
            /\ Parsed(B) = [n \in 1..d |-> B[qos[n]].record]
            /\ Parsed(B) \in Seq(Record)
  <2> HIDE DEF B
  <2> QED
    BY <1>1, ParsedProperty
<1>5. PICK qos \in [1..d -> Good(B)] :
            /\ \A i \in Good(B) : \E n \in 1..d : qos[n] = i
            /\ \A n, m \in 1..d : n < m => qos[n] < qos[m]
            /\ Parsed(B) = [n \in 1..d |-> B[qos[n]].record]
            /\ Parsed(B) \in Seq(Record)
  BY <1>4, Zenon
<1> DEFINE place(k) == IF k <= c THEN <<name["old"], pos[k]>> ELSE <<name["log"], qos[k - c]>>
<1>6. /\ \A i \in Good(A) : i \in 1..Len(A) /\ name["old"] \in 1..Len(disk)
                            /\ A = disk[name["old"]]
      /\ \A i \in Good(B) : i \in 1..Len(B) /\ name["log"] \in 1..Len(disk)
                            /\ B = disk[name["log"]] /\ name["log"] # name["old"]
  <2>1. /\ name["old"] \in Nat /\ name["log"] \in Nat /\ Len(disk) \in Nat
    BY DEF Files, Typed
  <2>2. /\ name["old"] # 0 => name["old"] \in 1..Len(disk)
        /\ name["log"] # 0 => name["log"] \in 1..Len(disk) /\ name["log"] # name["old"]
    BY <2>1 DEF Files, Numbered
  <2>3. /\ IF name["old"] = 0 THEN A = <<>> ELSE A = disk[name["old"]]
        /\ IF name["log"] = 0 THEN B = <<>> ELSE B = disk[name["log"]]
    BY DEF Contents
  <2> HIDE DEF A, B
  <2>4. /\ Good(A) \subseteq 1..Len(A) /\ Good(B) \subseteq 1..Len(B)
    BY <1>1 DEF Good
  <2>5. 1..Len(<<>>) = {}
    OBVIOUS
  <2> QED
    BY <2>2, <2>3, <2>4, <2>5
<1> HIDE DEF A, B
<1>7. /\ file \in Seq(Record) /\ Len(file) = c + d
      /\ \A k \in 1..(c + d) : file[k] = IF k <= c THEN A[pos[k]].record ELSE B[qos[k - c]].record
  <2> DEFINE s == Parsed(A)
             t == Parsed(B)
  <2>1. /\ s \in Seq(Record) /\ Len(s) = c /\ \A k \in 1..c : s[k] = A[pos[k]].record
    BY <1>3
  <2>2. /\ t \in Seq(Record) /\ Len(t) = d /\ \A k \in 1..d : t[k] = B[qos[k]].record
    BY <1>5
  <2> HIDE DEF s, t
  <2>3. /\ s \o t \in Seq(Record) /\ Len(s \o t) = c + d
        /\ \A k \in 1..(c + d) : (s \o t)[k] = IF k <= c THEN s[k] ELSE t[k - c]
    <3>1. /\ s \o t \in Seq(Record) /\ Len(s \o t) = Len(s) + Len(t)
          /\ \A k \in 1..(Len(s) + Len(t)) :
                (s \o t)[k] = IF k <= Len(s) THEN s[k] ELSE t[k - Len(s)]
      BY <2>1, <2>2, ConcatProperty, Zenon
    <3>2. Len(s) = c /\ Len(t) = d
      BY <2>1, <2>2
    <3> QED
      BY <3>1, <3>2
  <2>4. ASSUME NEW k \in 1..(c + d)
        PROVE  (s \o t)[k] = IF k <= c THEN A[pos[k]].record ELSE B[qos[k - c]].record
    <3>1. CASE k <= c
      BY <2>1, <2>3, <3>1
    <3>2. CASE ~(k <= c)
      <4>1. k - c \in 1..d
        BY <3>2
      <4>2. t[k - c] = B[qos[k - c]].record
        BY <2>2, <4>1
      <4> QED
        BY <2>3, <3>2, <4>2, Zenon
    <3> QED
      BY <3>1, <3>2
  <2> QED
    BY <2>3, <2>4 DEF s, t
<1> HIDE DEF file
<1>8. \A p : p \in Places <=>
            p = <<p[1], p[2]>> /\ p[1] \in 1..Len(disk) /\ p[2] \in 1..Len(disk[p[1]])
  BY PlaceProperty DEF Files, Typed, Places
<1>9. ASSUME NEW k \in 1..(c + d)
      PROVE  place(k) \in Places /\ file[k] = At(place(k)).record
  <2>1. CASE k <= c
    <3>1. k \in 1..c /\ place(k) = <<name["old"], pos[k]>>
      BY <2>1
    <3>2. pos[k] \in Good(A)
      BY <3>1
    <3> HIDE DEF place
    <3>3. /\ place(k)[1] = name["old"] /\ place(k)[2] = pos[k]
          /\ place(k) = <<place(k)[1], place(k)[2]>>
      BY <3>1
    <3>4. /\ place(k)[1] \in 1..Len(disk) /\ place(k)[2] \in 1..Len(disk[place(k)[1]])
          /\ At(place(k)) = A[pos[k]]
      BY <1>6, <3>2, <3>3 DEF At
    <3> QED
      BY <1>7, <1>8, <2>1, <3>3, <3>4
  <2>2. CASE ~(k <= c)
    <3>1. k - c \in 1..d /\ place(k) = <<name["log"], qos[k - c]>>
      BY <2>2
    <3>2. qos[k - c] \in Good(B)
      BY <3>1
    <3> HIDE DEF place
    <3>3. /\ place(k)[1] = name["log"] /\ place(k)[2] = qos[k - c]
          /\ place(k) = <<place(k)[1], place(k)[2]>>
      BY <3>1
    <3>4. /\ place(k)[1] \in 1..Len(disk) /\ place(k)[2] \in 1..Len(disk[place(k)[1]])
          /\ At(place(k)) = B[qos[k - c]]
      BY <1>6, <3>2, <3>3 DEF At
    <3> QED
      BY <1>7, <1>8, <2>2, <3>3, <3>4
  <2> QED
    BY <2>1, <2>2
<1>10. ASSUME NEW i \in 1..(c + d), NEW j \in 1..(c + d), place(i) = place(j)
       PROVE  i = j
  <2>1. CASE i <= c /\ j <= c
    <3>1. pos[i] = pos[j] /\ i \in 1..c /\ j \in 1..c
      BY <1>10, <2>1
    <3>2. pos[i] \in Nat /\ pos[j] \in Nat
      BY <1>6, <3>1
    <3>3. ~(i < j) /\ ~(j < i)
      BY <1>3, <3>1, <3>2
    <3> QED
      BY <3>3
  <2>2. CASE ~(i <= c) /\ ~(j <= c)
    <3>1. qos[i - c] = qos[j - c] /\ i - c \in 1..d /\ j - c \in 1..d
      BY <1>10, <2>2
    <3>2. qos[i - c] \in Nat /\ qos[j - c] \in Nat
      BY <1>6, <3>1
    <3>3. ~(i - c < j - c) /\ ~(j - c < i - c)
      BY <1>5, <3>1, <3>2
    <3> QED
      BY <3>3
  <2>3. CASE (i <= c) # (j <= c)
    <3>1. \E k \in 1..d : qos[k] \in Good(B)
      <4>1. i - c \in 1..d \/ j - c \in 1..d
        BY <2>3
      <4> QED
        BY <4>1
    <3>2. name["log"] # name["old"]
      BY <1>6, <3>1
    <3>3. place(i)[1] # place(j)[1]
      BY <2>3, <3>2
    <3> QED
      BY <1>10, <3>3
  <2> QED
    BY <2>1, <2>2, <2>3
<1> HIDE DEF place
<1>11. ASSUME NEW i \in 1..(c + d), NEW j \in 1..(c + d), file[i].ts = file[j].ts
       PROVE  i = j
  BY <1>9, <1>10, <1>11 DEF Separate
<1>12. \A i \in Good(A) : \E k \in 1..(c + d) : file[k] = A[i].record
  <2>1. SUFFICES ASSUME NEW i \in Good(A) PROVE \E k \in 1..(c + d) : file[k] = A[i].record
    OBVIOUS
  <2>2. PICK k \in 1..c : pos[k] = i
    BY <1>3
  <2>3. k \in 1..(c + d) /\ k <= c
    OBVIOUS
  <2> QED
    BY <1>7, <2>2, <2>3
<1>13. \A i \in Good(B) : \E k \in 1..(c + d) : file[k] = B[i].record
  <2>1. SUFFICES ASSUME NEW i \in Good(B) PROVE \E k \in 1..(c + d) : file[k] = B[i].record
    OBVIOUS
  <2>2. PICK k \in 1..d : qos[k] = i
    BY <1>5
  <2>3. c + k \in 1..(c + d) /\ ~(c + k <= c) /\ (c + k) - c = k
    OBVIOUS
  <2>4. file[c + k] = B[qos[(c + k) - c]].record
    BY <1>7, <2>3
  <2> QED
    BY <2>2, <2>3, <2>4
<1> QED
  BY <1>7, <1>11, <1>12, <1>13 DEF file, A, B

\* A line that is whole and not read back comes after a torn one.
LEMMA TearCostsHolds ==
  ASSUME Files, Apart
  PROVE  TearCostsOneMore
<1> DEFINE file == Parsed(Contents("old")) \o Parsed(Contents("log"))
<1>1. /\ file \in Seq(Record)
      /\ \A i, j \in 1..Len(file) : file[i].ts = file[j].ts => i = j
      /\ \A n \in {"old", "log"} : \A i \in Good(Contents(n)) :
            \E k \in 1..Len(file) : file[k] = Contents(n)[i].record
  BY ParsedApart, Zenon DEF Apart
<1>2. ReadAll = Records!Dated(file)
  BY Zenon DEF ReadAll, ReadOrder
<1> HIDE DEF file
<1>3. /\ InOrder(ReadAll)
      /\ \A k \in 1..Len(file) : file[k] \in ToSet(ReadAll)
  BY <1>1, <1>2, DatedProperty
<1>4. ASSUME NEW n \in {"old", "log"}
      PROVE  /\ \A i \in Good(Contents(n)) : Contents(n)[i].record \in ToSet(ReadAll)
             /\ Contents(n) \in Seq(Line) /\ DOMAIN Contents(n) = 1..Len(Contents(n))
             /\ Len(Contents(n)) \in Nat
             /\ DOMAIN Contents(n) # {} => name[n] \in 1..Len(disk) /\ Contents(n) = disk[name[n]]
  <2>1. \A i \in Good(Contents(n)) : Contents(n)[i].record \in ToSet(ReadAll)
    BY <1>1, <1>3, Zenon
  <2>2. Contents(n) \in Seq(Line)
    BY SizesTyped DEF Files
  <2>3. DOMAIN Contents(n) = 1..Len(Contents(n)) /\ Len(Contents(n)) \in Nat
    BY <2>2
  <2>4. name[n] # 0 => name[n] \in 1..Len(disk)
    BY DEF Files, Typed, Numbered
  <2>5. name[n] = 0 => DOMAIN Contents(n) = {}
    BY DEF Contents
  <2>6. name[n] # 0 => Contents(n) = disk[name[n]]
    BY DEF Contents
  <2> QED
    BY <2>1, <2>2, <2>3, <2>4, <2>5, <2>6
<1>5. ASSUME NEW p \in Unread
      PROVE  /\ p = <<p[1], p[2]>> /\ p[1] \in {"old", "log"} /\ p[2] \in DOMAIN Contents(p[1])
             /\ p[2] \notin Good(Contents(p[1])) /\ Contents(p[1])[p[2]].whole
  <2>1. p \in UNION {{n} \X (DOMAIN Contents(n)) : n \in {"old", "log"}}
    BY DEF Unread
  <2>2. PICK n \in {"old", "log"} : p \in {n} \X (DOMAIN Contents(n))
    BY <2>1
  <2>3. p = <<p[1], p[2]>> /\ p[1] = n /\ p[2] \in DOMAIN Contents(n)
    BY <2>2
  <2>4. Contents(p[1])[p[2]].whole /\ Contents(p[1])[p[2]].record \notin ToSet(ReadAll)
    BY DEF Unread
  <2>5. p[2] \notin Good(Contents(p[1]))
    BY <1>4, <2>3, <2>4
  <2> QED
    BY <2>3, <2>4, <2>5
<1>6. ASSUME NEW p \in Unread
      PROVE  /\ p[2] \in Nat /\ p[2] - 1 \in 1..Len(disk[name[p[1]]])
             /\ name[p[1]] \in 1..Len(disk)
             /\ ~disk[name[p[1]]][p[2] - 1].whole
  <2>1. PICK n : n = p[1]
    OBVIOUS
  <2>2. PICK i : i = p[2]
    OBVIOUS
  <2>3. n \in {"old", "log"} /\ i \in 1..Len(Contents(n)) /\ i \notin Good(Contents(n))
        /\ Contents(n)[i].whole
    BY <1>4, <1>5, <2>1, <2>2
  <2>4. /\ name[n] \in 1..Len(disk) /\ Contents(n) = disk[name[n]]
        /\ DOMAIN Contents(n) = 1..Len(Contents(n)) /\ Len(Contents(n)) \in Nat
    BY <1>4, <2>3
  <2>5. i > 1 /\ ~Contents(n)[i - 1].whole
    BY <2>3, <2>4, Zenon DEF Good
  <2>6. i \in Nat /\ i - 1 \in 1..Len(Contents(n))
    BY <2>3, <2>4, <2>5
  <2> QED
    BY <2>1, <2>2, <2>4, <2>5, <2>6
<1> DEFINE before == [p \in Unread |-> <<name[p[1]], p[2] - 1>>]
<1>7. before \in [Unread -> TornPlaces]
  <2>1. ASSUME NEW p \in Unread PROVE before[p] \in TornPlaces
    <3> DEFINE q == before[p]
    <3>1. q = <<q[1], q[2]>> /\ q[1] = name[p[1]] /\ q[2] = p[2] - 1
      OBVIOUS
    <3> HIDE DEF before
    <3>2. q[1] \in 1..Len(disk) /\ q[2] \in 1..Len(disk[q[1]]) /\ ~At(q).whole
      BY <1>6, <3>1 DEF At
    <3>3. q \in Places
      BY <3>1, <3>2, PlaceProperty DEF Files, Typed, Places
    <3> QED
      BY <3>2, <3>3 DEF TornPlaces
  <2> QED
    BY <2>1
<1>8. ASSUME NEW p \in Unread, NEW q \in Unread, before[p] = before[q]
      PROVE  p = q
  <2>1. name[p[1]] = name[q[1]] /\ p[2] - 1 = q[2] - 1
    BY <1>8
  <2>2. p[2] = q[2]
    BY <1>6, <2>1
  <2>3. p[1] = q[1]
    <3>1. p[1] \in {"old", "log"} /\ q[1] \in {"old", "log"} /\ name[p[1]] # 0
      BY <1>5, <1>6
    <3>2. name["log"] # 0 => name["log"] # name["old"]
      BY DEF Files, Typed, Numbered
    <3> QED
      BY <2>1, <3>1, <3>2
  <2> QED
    BY <1>5, <2>2, <2>3
<1>9. before \in Injection(Unread, TornPlaces)
  BY <1>7, <1>8 DEF Injection, IsInjective
<1>10. Cardinality(Unread) <= torn
  <2> HIDE DEF before
  <2>1. Cardinality(Unread) <= Cardinality(TornPlaces)
    BY <1>9, FS_Injection DEF Apart, TornCounted
  <2> QED
    BY <2>1 DEF Apart, TornCounted
<1> QED
  BY <1>3, <1>10 DEF TearCostsOneMore

\* Each torn line makes at most one other unreadable, the one after it, and all the
\* others are read back in the order they were written, however many are torn and
\* wherever, and also while two handles write at one time (read_all).
THEOREM TearCostsOneMoreAlways == Spec => []TearCostsOneMore
<1>1. Init => Files /\ Apart
  BY FilesInit, ApartInit
<1>2. Files /\ Apart /\ [Next]_vars => (Files /\ Apart)'
  BY FilesNext, ApartNext
<1>3. Files /\ Apart => TearCostsOneMore
  BY TearCostsHolds
<1> QED
  BY <1>1, <1>2, <1>3, PTL DEF Spec

=============================================================================
