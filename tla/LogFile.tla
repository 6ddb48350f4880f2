------------------------------ MODULE LogFile ------------------------------
(***************************************************************************)
(* The files under the incident log (Log of src/src/incidents.rs): a       *)
(* handle that appends lines and rotates the file when it is large, one    *)
(* generation kept aside, a second handle at shutdown (watch_mode of       *)
(* src/src/main.rs), and what read_all gets back, which opens one file     *)
(* after the other, in a process of its own. A handle refers to a file,    *)
(* not to its name: a renamed file is still written to.                    *)
(***************************************************************************)
EXTENDS Integers, Sequences, FiniteSets, SequencesExt

CONSTANTS
    MaxBytes,    \* incidents.max_bytes
    LongLine,    \* the length of an `opened` line; every other is one byte long
    MaxLines,    \* bound: lines written whole, in all
    MaxUpsets    \* bound: failures, kills, torn lines and overlaps, in all

ASSUME LogFileAssumption ==
    /\ MaxBytes \in Nat \ {0}
    /\ LongLine \in Nat \ {0}
    /\ MaxLines \in Nat
    /\ MaxUpsets \in Nat

Records == INSTANCE Report WITH Interval <- 1, Grain <- 1

\* The evaluator's handle, opened at startup, and that of the shutdown.
Handle == {"evaluator", "shutdown"}

VARIABLES
    disk,     \* the files that were ever created: each a sequence of lines
    name,     \* which of them "log" and "old" (jsonl, jsonl.1) name, or 0
    handle,   \* [Handle -> [file, written, step]]
    stage,    \* "down", "running", or "stopping"
    written,  \* all lines written whole, oldest first
    faults,   \* renames and reopens that failed so far
    torn,     \* lines torn so far
    ends,     \* processes killed so far
    overlap,  \* whether an evaluator was still in a poll during a shutdown
    stray,    \* bytes of whole lines that went astray so far (Astray)
    reader    \* [file, lines]: what a report has read of the first of its files
vars == <<disk, name, handle, stage, written, faults, torn, ends, overlap,
          stray, reader>>

\* What has gone wrong so far.
Upsets == faults + torn + ends + IF overlap THEN 1 ELSE 0

\* A handle: the file it appends to, its count of bytes, and what it does next.
\* Through a fresh one comes the `started` or the `stopped` of the process; from
\* "idle" a line can lead to "rename" and from there to "reopen".
Closed == [file |-> 0, written |-> 0, step |-> "closed"]

\* A line: its record, and whether it is whole and ends in a newline.
Whole(record) == [record |-> record, whole |-> TRUE]
Torn(record) == [record |-> record, whole |-> FALSE]

Bytes(line) == IF line.record.event = "opened" THEN LongLine ELSE 1
SizeOf(lines) == FoldLeft(LAMBDA n, line : n + Bytes(line), 0, lines)

-----------------------------------------------------------------------------
(* read_all *)

\* The bug of giving up on a file at the first line that does not parse.
ParsedToTear(lines) ==
    LET clear == {i \in DOMAIN lines : \A j \in 1..i : lines[j].whole}
    IN  [n \in 1..Cardinality(clear) |-> lines[n].record]

\* The records of a file: a line that follows a torn one is part of it, and
\* neither will parse.
Parsed(lines) ==
    LET good == {i \in DOMAIN lines :
                    lines[i].whole /\ (i > 1 => lines[i - 1].whole)}
    IN  [n \in 1..Cardinality(good) |->
            lines[CHOOSE i \in good : Cardinality({j \in good : j <= i}) = n].record]

Contents(n) == IF name[n] = 0 THEN <<>> ELSE disk[name[n]]

\* The bug of reading the log first, and then what was rotated.
LogFirst == <<"log", "old">>

\* The rotated generation first.
ReadOrder == <<"old", "log">>

\* What a report has if it reads the second file now, by date.
Got == Records!Dated(Parsed(IF reader.file = 0 THEN <<>>
                            ELSE SubSeq(disk[reader.file], 1, reader.lines))
                     \o Parsed(Contents(ReadOrder[2])))

\* What it has if nothing has happened since it read the first.
ReadAll == Records!Dated(Parsed(Contents(ReadOrder[1])) \o Parsed(Contents(ReadOrder[2])))

-----------------------------------------------------------------------------
(* Actions *)

Init ==
    /\ disk = <<>>
    /\ name = [n \in {"log", "old"} |-> 0]
    /\ handle = [h \in Handle |-> Closed]
    /\ stage = "down"
    /\ written = <<>>
    /\ faults = 0
    /\ torn = 0
    /\ ends = 0
    /\ overlap = FALSE
    /\ stray = 0
    /\ reader = [file |-> 0, lines |-> 0]

\* The files, names and handle of h after it has opened the log for appending,
\* which creates a file that is not there.
Reopened(h, count, step) ==
    IF name["log"] = 0
    THEN /\ disk' = Append(disk, <<>>)
         /\ name' = [name EXCEPT !["log"] = Len(disk) + 1]
         /\ handle' = [handle EXCEPT ![h] =
                [file |-> Len(disk) + 1, written |-> 0, step |-> step]]
    ELSE /\ handle' = [handle EXCEPT ![h] =
                [file |-> name["log"], written |-> count, step |-> step]]
         /\ UNCHANGED <<disk, name>>

\* The bug of counting only the bytes written through the handle.
LengthForgotten == 0

\* The length of the log, where the count of a handle begins.
Length == SizeOf(Contents("log"))

\* The evaluator is in a poll during a shutdown.
Overlaps(now) ==
    /\ now /\ ~overlap => Upsets < MaxUpsets
    /\ overlap' = (overlap \/ now)

\* Log::open, by a process that starts.
Start ==
    /\ stage = "down"
    /\ stage' = "running"
    /\ Reopened("evaluator", Length, "fresh")
    /\ UNCHANGED <<written, faults, torn, ends, overlap, stray, reader>>

\* Log::open, by a process that stops. Its evaluator has been aborted; a poll it
\* was in may still be running, and is not waited for.
Stop ==
    /\ stage = "running"
    /\ handle["evaluator"].step # "fresh"
    /\ stage' = "stopping"
    /\ Reopened("shutdown", Length, "fresh")
    /\ Overlaps(handle["evaluator"].step # "idle")
    /\ UNCHANGED <<written, faults, torn, ends, stray, reader>>

\* Dates are the order of writing here.
Clock == Len(written) + torn

\* The records that may come next through h.
NextRecords(h) ==
    IF handle[h].step = "fresh"
    THEN IF h = "evaluator" THEN {Records!Started(Clock)} ELSE {Records!Stopped(Clock)}
    ELSE IF h = "evaluator"
    THEN {Records!Watching(Clock), Records!Opened(<<"job", "ratio">>, Clock)}
    ELSE {}

\* What h writes goes to a file that is not the log, or is written while a poll of
\* the evaluator overlaps with a shutdown.
Astray(h) ==
    \/ handle[h].file # name["log"]
    \/ stage = "stopping" /\ (h = "evaluator" \/ handle["evaluator"].step # "idle")

\* append: the line is written and counted, and the log rotated when it is full.
AppendLine(h) ==
    /\ handle[h].step \in {"fresh", "idle"}
    /\ Len(written) < MaxLines
    /\ \E record \in NextRecords(h) :
        LET line  == Whole(record)
            count == handle[h].written + Bytes(line)
        IN  /\ disk' = [disk EXCEPT ![handle[h].file] = Append(@, line)]
            /\ handle' = [handle EXCEPT
                    ![h].written = count,
                    ![h].step = IF count >= MaxBytes THEN "rename" ELSE "idle"]
            /\ written' = Append(written, record)
            /\ stray' = IF Astray(h) THEN stray + Bytes(line) ELSE stray
    /\ Overlaps(h = "evaluator" /\ stage = "stopping")
    /\ UNCHANGED <<name, stage, faults, torn, ends, reader>>

\* The disk is full, or the process is killed, in the middle of a line: what was
\* written of it stays, and is not counted.
TearLine(h) ==
    /\ handle[h].step \in {"fresh", "idle"}
    /\ Upsets < MaxUpsets
    /\ torn' = torn + 1
    /\ \E record \in NextRecords(h) :
        disk' = [disk EXCEPT ![handle[h].file] = Append(@, Torn(record))]
    /\ handle' = [handle EXCEPT ![h].step = "idle"]
    /\ Overlaps(h = "evaluator" /\ stage = "stopping")
    /\ UNCHANGED <<name, stage, written, faults, ends, stray, reader>>

\* The bug of keeping the first generation instead of the last.
RenameKeepsOld(h) ==
    /\ handle[h].step = "rename"
    /\ name["log"] # 0
    /\ name' = [log |-> 0, old |-> IF name["old"] = 0 THEN name["log"] ELSE name["old"]]
    /\ handle' = [handle EXCEPT ![h].step = "reopen"]
    /\ UNCHANGED <<disk, stage, written, faults, torn, ends, overlap, stray, reader>>

\* The bug of starting afresh without keeping a generation.
RenameDrops(h) ==
    /\ handle[h].step = "rename"
    /\ name["log"] # 0
    /\ name' = [log |-> 0, old |-> 0]
    /\ handle' = [handle EXCEPT ![h].step = "reopen"]
    /\ UNCHANGED <<disk, stage, written, faults, torn, ends, overlap, stray, reader>>

\* rotate, first half: the log takes the name of the previous generation, whose
\* file is gone. It fails if there is no log, or for reasons of its own.
Rename(h) ==
    /\ handle[h].step = "rename"
    /\ name["log"] # 0
    /\ name' = [log |-> 0, old |-> name["log"]]
    /\ handle' = [handle EXCEPT ![h].step = "reopen"]
    /\ UNCHANGED <<disk, stage, written, faults, torn, ends, overlap, stray, reader>>

RenameFails(h) ==
    /\ handle[h].step = "rename"
    /\ IF name["log"] = 0 THEN faults' = faults
       ELSE Upsets < MaxUpsets /\ faults' = faults + 1
    /\ handle' = [handle EXCEPT ![h].step = "idle"]
    /\ UNCHANGED <<disk, name, stage, written, torn, ends, overlap, stray, reader>>

\* rotate, second half: a new log. If it cannot be opened the handle goes on
\* writing to the file that was renamed.
Reopen(h) ==
    /\ handle[h].step = "reopen"
    /\ Reopened(h, 0, "idle")
    /\ UNCHANGED <<stage, written, faults, torn, ends, overlap, stray, reader>>

ReopenFails(h) ==
    /\ handle[h].step = "reopen"
    /\ Upsets < MaxUpsets
    /\ faults' = faults + 1
    /\ handle' = [handle EXCEPT ![h].step = "idle"]
    /\ UNCHANGED <<disk, name, stage, written, torn, ends, overlap, stray, reader>>

\* Nothing is left to be done by the process, or nothing more can be written.
Through == \/ stage = "stopping" /\ \A h \in Handle : handle[h].step = "idle"
           \/ Len(written) = MaxLines

\* The process ends, or is killed between any two steps.
End ==
    /\ stage # "down"
    /\ \/ Through /\ ends' = ends
       \/ ~Through /\ Upsets < MaxUpsets /\ ends' = ends + 1
    /\ stage' = "down"
    /\ handle' = [h \in Handle |-> Closed]
    /\ UNCHANGED <<disk, name, written, faults, torn, overlap, stray, reader>>

\* read_all, the first file. It is read to its end, whatever its name is by then;
\* so the second is, with which the report is done (Got).
ReadFirst ==
    /\ reader' = [file |-> name[ReadOrder[1]], lines |-> Len(Contents(ReadOrder[1]))]
    /\ UNCHANGED <<disk, name, handle, stage, written, faults, torn, ends, overlap, stray>>

Next ==
    \/ Start
    \/ Stop
    \/ \E h \in Handle :
        \/ AppendLine(h)
        \/ TearLine(h)
        \/ Rename(h)
        \/ RenameFails(h)
        \/ Reopen(h)
        \/ ReopenFails(h)
    \/ End
    \/ ReadFirst

Spec == Init /\ [][Next]_vars

-----------------------------------------------------------------------------
(* Safety *)

InOrder(records) == \A i \in 1..(Len(records) - 1) : records[i].ts < records[i + 1].ts

\* The lines that were in the files that were renamed since the reader read one.
Rotated ==
    UNION {ToSet(Parsed(disk[f])) : f \in {g \in DOMAIN disk : reader.file <= g /\ g <= name["old"]}}

\* What is read back is the newest part of what was written, in order and with
\* nothing missing in the middle, whatever rename or reopen failed and wherever a
\* process ended, as long as no poll of the evaluator overlaps with a shutdown
\* (rotate, read_all). A log that is rotated while it is read can cost a report what
\* was rotated, but nothing else, and no line is read twice.
ReadsNewest ==
    torn = 0 /\ ~overlap =>
        /\ IsSuffix(ReadAll, written)
        /\ LET got == Got
           IN  /\ InOrder(got)
               /\ \A record \in ToSet(written) \ (ToSet(got) \cup Rotated) :
                        got # <<>> /\ record.ts < got[1].ts

\* Nothing is lost until a whole generation of max_bytes is kept instead, as long
\* as no poll of the evaluator overlaps with a shutdown: README, "keeps exactly one
\* previous generation".
HistoryKept ==
    torn = 0 /\ ~overlap /\ ReadAll # written =>
        SizeOf([i \in DOMAIN ReadAll |-> Whole(ReadAll[i])]) >= MaxBytes

\* Each of the two files outgrows max_bytes by less than its last line, or by the
\* first line of a process that found it full. What is torn, or could not be
\* rotated, costs a line more, and what goes astray, after a reopen that failed or
\* in an overlap, its own bytes, and nothing multiplies them: rotate, "the total on
\* disk is bounded at twice `max_bytes` and cannot creep".
Bounded ==
    SizeOf(Contents("old")) + SizeOf(Contents("log"))
        <= 2 * (MaxBytes + LongLine - 1) + ends + (torn + faults) * LongLine + stray

\* The whole lines of the files that are not read back.
Unread ==
    LET read == ToSet(ReadAll)
    IN  {p \in UNION {{n} \X (DOMAIN Contents(n)) : n \in {"old", "log"}} :
            LET line == Contents(p[1])[p[2]]
            IN  line.whole /\ line.record \notin read}

\* Each torn line makes at most one other unreadable, the one after it, and all
\* the others are read back in the order they were written (read_all).
TearCostsOneMore ==
    /\ Cardinality(Unread) <= torn
    /\ InOrder(ReadAll)

=============================================================================
