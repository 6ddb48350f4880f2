-------------------------------- MODULE Tail --------------------------------
(***************************************************************************)
(* How the passive watcher follows a log it does not own: Tail::poll and   *)
(* Tail::scan of src/src/passive.rs, with State::record_log of             *)
(* src/src/state.rs. A look is two system calls, a stat and an open, and   *)
(* the job that writes the log, the tool that rotates it and whoever sets  *)
(* its permissions act between them and between looks.                     *)
(*                                                                         *)
(* A line is written in two halves, so that a look can fall inside it;     *)
(* sizes and offsets count halves. What matters about a line is whether it *)
(* matches error_regex, and on which halves that depends.                  *)
(***************************************************************************)
EXTENDS Integers, Sequences, FiniteSetsExt

CONSTANTS
    MaxScan,     \* MAX_SCAN_BYTES
    MaxLines,    \* bound: lines the job writes
    MaxUpsets    \* bound: rotations, truncations, removals, changes of
                 \* permission, and restarts of stillwatch

ASSUME TailAssumption ==
    /\ MaxScan \in Nat \ {0}
    /\ MaxLines \in Nat
    /\ MaxUpsets \in Nat

\* "error": the first half matches; "wide": only the whole line does;
\* "garbled": the first half is not UTF-8.
Kind == {"plain", "error", "wide", "garbled"}

NoId == 0
NoLine == 0

VARIABLES
    there,      \* there is a file at the path
    inode,      \* its identity, the last one given out
    content,    \* its halves, oldest first
    access,     \* "full", "stat": it cannot be opened, "none": not even looked at
    kind,       \* of the lines written so far
    upsets      \* so far
world == <<there, inode, content, access, kind, upsets>>

VARIABLES
    id,         \* Tail::id, or NoId
    offset,     \* Tail::offset
    phase,      \* "idle", or "scanning" between the stat and the open
    size,       \* while scanning: the size the stat found, else 0
    rotated,    \* while scanning: LogSample::rotated, else FALSE
    log,        \* PassiveState::log
    lastError,  \* PassiveState::log_last_error, or NoLine
    rotations   \* PassiveState::log_rotations
tail == <<id, offset, phase, size, rotated, log, lastError, rotations>>

\* Observers.
VARIABLES
    emptied,    \* the file was emptied under its identity since the last stat
    replaced,   \* it was replaced or removed since the last stat
    before,     \* lines whole in the file at the last stat but one
    atStat,     \* lines whole in the file at the last stat
    news,       \* the line the last look reported, or NoLine
    lost        \* lines no look can report any more
observers == <<emptied, replaced, before, atStat, news, lost>>

vars == <<world, tail, observers>>

-----------------------------------------------------------------------------
(* The file *)

\* Lines whose second half is there.
Whole(c) == {c[i].line : i \in {j \in DOMAIN c : c[j].half = 2}}

\* Both, or the first, of the last line of a file; a chunk can begin with a second.
HalvesOf(c, n) == {c[i].half : i \in {j \in DOMAIN c : c[j].line = n}}

LinesIn(c) == {c[i].line : i \in DOMAIN c}

IsError(n) == kind[n] \in {"error", "wide"}

Smaller(a, b) == IF a <= b THEN a ELSE b

-----------------------------------------------------------------------------
(* Reading *)

\* identify, for a file that is there: device and inode.
Identify == inode

\* The bug of following the file by name only.
ReplacedNever == FALSE

Replaced == id # NoId /\ Identify # id

\* The bug of trusting the identity alone.
TruncatedNever == FALSE

Truncated == Len(content) < offset

\* The bug of seeking to the new size less the bound, whatever has been read.
ScanFromEnd(from, to) == IF to > MaxScan THEN to - MaxScan ELSE from

\* Where scan starts reading: at the offset, or so that it reads MaxScan.
ScanFrom(from, to) == IF to - from > MaxScan THEN to - MaxScan ELSE from

\* What it reads: up to MaxScan, of the file that is there now.
Chunk(c, from) == SubSeq(c, from + 1, Smaller(from + MaxScan, Len(c)))

\* A chunk's lines up to the first that is not UTF-8, where reading stops.
Legible(c) ==
    {n \in LinesIn(c) :
        ~\E m \in LinesIn(c) : m <= n /\ kind[m] = "garbled" /\ 1 \in HalvesOf(c, m)}

Matches(c, n) ==
    \/ kind[n] = "error" /\ 1 \in HalvesOf(c, n)
    \/ kind[n] = "wide" /\ HalvesOf(c, n) = {1, 2}

\* The last line of the chunk that matches.
LastMatch(c) ==
    LET hits == {n \in Legible(c) : Matches(c, n)}
    IN  IF hits = {} THEN NoLine ELSE Max(hits)

\* record_log.
Record(finding, wasRotated, line) ==
    /\ log' = finding
    /\ rotations' = IF wasRotated THEN rotations + 1 ELSE rotations
    /\ lastError' = IF line = NoLine THEN lastError ELSE line

-----------------------------------------------------------------------------
(* The world *)

Init ==
    /\ there \in BOOLEAN
    /\ inode = 1
    /\ content = <<>>
    /\ access = "full"
    /\ kind = <<>>
    /\ upsets = 0
    /\ id = NoId
    /\ offset = 0
    /\ phase = "idle"
    /\ size = 0
    /\ rotated = FALSE
    /\ log = "unknown"
    /\ lastError = NoLine
    /\ rotations = 0
    /\ emptied = FALSE
    /\ replaced = FALSE
    /\ before = {}
    /\ atStat = {}
    /\ news = NoLine
    /\ lost = {}

\* The job starts a line, or ends the one it has started.
WriteHalf ==
    /\ there
    /\ IF content # <<>> /\ content[Len(content)].half = 1
       THEN /\ content' = Append(content, [line |-> content[Len(content)].line, half |-> 2])
            /\ UNCHANGED kind
       ELSE /\ Len(kind) < MaxLines
            /\ \E k \in Kind : kind' = Append(kind, k)
            /\ content' = Append(content, [line |-> Len(kind'), half |-> 1])
    /\ UNCHANGED <<there, inode, access, upsets, tail, observers>>

Upset == upsets < MaxUpsets /\ upsets' = upsets + 1

\* The log is renamed and a new one begun in its place.
Rotate ==
    /\ Upset
    /\ there
    /\ inode' = inode + 1
    /\ content' = <<>>
    /\ replaced' = TRUE
    /\ UNCHANGED <<there, access, kind, tail, emptied, before, atStat, news, lost>>

\* It is copied and emptied in place (copytruncate).
Truncate ==
    /\ Upset
    /\ there /\ content # <<>>
    /\ content' = <<>>
    /\ emptied' = TRUE
    /\ UNCHANGED <<there, inode, access, kind, tail, replaced, before, atStat, news, lost>>

\* It is removed, or renamed and not yet begun again.
Remove ==
    /\ Upset
    /\ there
    /\ there' = FALSE
    /\ content' = <<>>
    /\ replaced' = TRUE
    /\ emptied' = TRUE
    /\ UNCHANGED <<inode, access, kind, tail, before, atStat, news, lost>>

\* It is begun again: the identity of a removed file may be given out anew.
Create ==
    /\ ~there
    /\ there' = TRUE
    /\ inode' \in {inode, inode + 1}
    /\ UNCHANGED <<content, access, kind, upsets, tail, observers>>

Chmod ==
    /\ Upset
    /\ access' \in {"full", "stat", "none"} \ {access}
    /\ UNCHANGED <<there, inode, content, kind, tail, observers>>

-----------------------------------------------------------------------------
(* A look *)

\* The observers' view of a stat: lines that no look can report, because the
\* file was emptied and is as long as it was, or more than MaxScan was written,
\* or they follow one that is not UTF-8, or a look falls inside them.
StatIsSeen ==
    LET hidden == emptied /\ Identify = id /\ Len(content) >= offset
        seen == IF Replaced \/ Truncated THEN 0 ELSE offset
        from == ScanFrom(seen, Len(content))
        Within(a, b) == LinesIn(SubSeq(content, a + 1, b))
        skipped == Within(seen, from)
        blocked == LET chunk == Within(from, Len(content))
                   IN  {n \in chunk : \E m \in chunk : m < n /\ kind[m] = "garbled"}
        cut == {n \in LinesIn(content) \ Whole(content) : kind[n] = "wide"}
    IN  /\ lost' = lost \cup (IF hidden THEN Within(0, offset) ELSE {})
                        \cup skipped \cup blocked \cup cut
        /\ atStat' = Whole(content)

ForgetUpsets == emptied' = FALSE /\ replaced' = FALSE

\* The bug of keeping the position in a file that is gone.
StatMissingKept ==
    /\ phase = "idle"
    /\ ~there /\ access # "none"
    /\ Record("missing", FALSE, NoLine)
    /\ before' = {} /\ atStat' = {} /\ news' = NoLine
    /\ ForgetUpsets
    /\ UNCHANGED <<id, offset, world, phase, size, rotated, lost>>

\* poll, no file: it forgets where it was.
StatMissing ==
    /\ phase = "idle"
    /\ ~there /\ access # "none"
    /\ id' = NoId
    /\ offset' = 0
    /\ Record("missing", FALSE, NoLine)
    /\ before' = {} /\ atStat' = {} /\ news' = NoLine
    /\ ForgetUpsets
    /\ UNCHANGED <<world, phase, size, rotated, lost>>

\* poll, the stat is refused: everything stays as it was.
StatRefused ==
    /\ phase = "idle"
    /\ access = "none"
    /\ Record("unreadable", FALSE, NoLine)
    /\ UNCHANGED <<world, id, offset, phase, size, rotated, observers>>

\* poll up to the scan, which opens the file only if it has grown.
StatPresent ==
    /\ phase = "idle"
    /\ there /\ access # "none"
    /\ id' = Identify
    /\ LET from == IF Replaced \/ Truncated THEN 0 ELSE offset
       IN  IF Len(content) > from
           THEN /\ phase' = "scanning"
                /\ offset' = from
                /\ size' = Len(content)
                /\ rotated' = (Replaced \/ Truncated)
                /\ UNCHANGED <<log, lastError, rotations>>
           ELSE /\ offset' = Len(content)
                /\ Record("present", Replaced \/ Truncated, NoLine)
                /\ UNCHANGED <<phase, size, rotated>>
    /\ StatIsSeen
    /\ before' = atStat
    /\ news' = NoLine
    /\ ForgetUpsets
    /\ UNCHANGED world

EndScan == phase' = "idle" /\ size' = 0 /\ rotated' = FALSE

\* The bug of leaving the offset to the lines that were read.
ScanKeepsOffset ==
    /\ phase = "scanning"
    /\ there /\ access = "full"
    /\ LET line == LastMatch(Chunk(content, ScanFrom(offset, size)))
       IN  /\ Record("present", rotated, line)
           /\ news' = line
    /\ offset' = ScanFrom(offset, size)
    /\ EndScan
    /\ UNCHANGED <<world, id, emptied, replaced, before, atStat, lost>>

\* The bug of accounting for what was there at the read, and not at the stat.
ScanToEnd ==
    /\ phase = "scanning"
    /\ there /\ access = "full"
    /\ LET line == LastMatch(SubSeq(content, ScanFrom(offset, size) + 1, Smaller(size, Len(content))))
       IN  /\ Record("present", rotated, line)
           /\ news' = line
    /\ offset' = Len(content)
    /\ EndScan
    /\ UNCHANGED <<world, id, emptied, replaced, before, atStat, lost>>

\* scan opens whatever is at the path by now, and what it reads can go past
\* `size`; everything up to `size` is then accounted for.
Scan ==
    /\ phase = "scanning"
    /\ there /\ access = "full"
    /\ LET line == LastMatch(Chunk(content, ScanFrom(offset, size)))
       IN  /\ Record("present", rotated, line)
           /\ news' = line
    /\ offset' = size
    /\ EndScan
    /\ UNCHANGED <<world, id, emptied, replaced, before, atStat, lost>>

\* The open fails: no line, and nothing says so.
ScanFails ==
    /\ phase = "scanning"
    /\ ~there \/ access # "full"
    /\ Record("present", rotated, NoLine)
    /\ offset' = size
    /\ EndScan
    /\ lost' = lost \cup LinesIn(SubSeq(content, offset + 1, Smaller(size, Len(content))))
    /\ UNCHANGED <<world, id, emptied, replaced, before, atStat, news>>

\* stillwatch starts anew, and reads the log from its beginning.
Restart ==
    /\ Upset
    /\ id' = NoId
    /\ offset' = 0
    /\ phase' = "idle"
    /\ size' = 0
    /\ rotated' = FALSE
    /\ log' = "unknown"
    /\ lastError' = NoLine
    /\ rotations' = 0
    /\ before' = {} /\ atStat' = {}
    /\ news' = NoLine
    /\ lost' = {}
    /\ ForgetUpsets
    /\ UNCHANGED <<there, inode, content, access, kind>>

Next ==
    \/ WriteHalf \/ Rotate \/ Truncate \/ Remove \/ Create \/ Chmod
    \/ StatMissing \/ StatRefused \/ StatPresent \/ Scan \/ ScanFails
    \/ Restart

Spec == Init /\ [][Next]_vars

-----------------------------------------------------------------------------
(* Properties *)

\* The line recorded is n, or was written after it.
Answered(n) == n <= lastError

\* The file the offset is a position in is the one that is there.
Settled == phase = "idle" /\ ~emptied /\ ~replaced

\* The error lines the tail has accounted for.
Accounted == {n \in Whole(SubSeq(content, 1, Smaller(offset, Len(content)))) : IsError(n)}

\* Across rotations, truncations, removals and restarts, and whatever is written
\* between the stat and the read, an error line the tail counts as read was the one
\* recorded, or a later one is. The exceptions are lines that follow one that is not
\* UTF-8 or more than MaxScan of text, that a look cut in two, that were written over
\* an emptied file up to where it had ended, or that could not be opened (Tail::scan).
NothingMissed == Settled => \A n \in Accounted : Answered(n) \/ n \in lost

\* Old news is not reported: a line that was whole at a look is reported by it or
\* by the next, which may read it a second time, and by no later one. Only a look
\* that starts a file from its beginning, after a restart, can report an older one.
OldNewsIsOld == phase = "idle" => news \notin before

\* Every rotation that is counted happened: since the stat before, the file was
\* replaced, removed or emptied (state.rs:167, "a burst of rotations explains an
\* apparent gap"). A job that only writes is never counted as rotating.
RotationsAreReal ==
    [][StatPresent /\ (Replaced \/ Truncated) => emptied \/ replaced]_vars

=============================================================================
