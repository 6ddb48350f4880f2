------------------------------ MODULE Passive -------------------------------
(***************************************************************************)
(* What stillwatch concludes about a job it watches from outside: the      *)
(* record of the last looks (PassiveState of src/src/state.rs) and the     *)
(* rules assess_process, assess_log and assess_artifact with               *)
(* file_assessment (src/src/evaluate.rs), as functions of that record, of  *)
(* the date the watch began and of the date of the evaluation.             *)
(***************************************************************************)
EXTENDS Integers

CONSTANTS
    AbsentAfter,  \* [job.process] absent_after
    StaleAfter,   \* [job.log] and [job.artifact] stale_after
    MaxPid        \* i32::MAX, above which a number is no process id

\* RawLog and RawArtifact resolve: a file may not be stale at once; a process may be
\* absent at once.
ASSUME PassiveAssumption ==
    /\ AbsentAfter \in Nat
    /\ StaleAfter \in Nat \ {0}
    /\ MaxPid \in Nat \ {0}

\* Option<SystemTime>::None, below every date.
Never == -1

\* What read_pidfile finds.
ProcessFinding == {"running", "gone", "no-pidfile", "unreadable"}

\* What look finds, with the size against min_bytes: "small" is a file below it,
\* "undated" one whose filesystem keeps no modification time.
FileFinding == {"present", "small", "undated", "missing", "unreadable"}

IsPresent(finding) == finding \in {"present", "small", "undated"}

\* PassiveState, before the first look: nothing is known.
NoLook ==
    [process   |-> "unknown", lastRunning |-> Never,
     file      |-> "unknown", modified    |-> Never, everSeen |-> FALSE,
     lastError |-> Never]

\* duration_since(..).unwrap_or(ZERO).
Since(from, to) == IF to >= from THEN to - from ELSE 0

Later(a, b) == IF a >= b THEN a ELSE b

-----------------------------------------------------------------------------
(* Looking at a process *)

\* What can be in a pidfile: a number, text that is none, or nothing that can be read;
\* or it is not there.
Pidfile ==
    {[holds |-> h, id |-> 0] : h \in {"absent", "refused", "text"}}
    \cup {[holds |-> "number", id |-> n] : n \in 0..(MaxPid + 1)}

NamesProcess(pidfile) == pidfile.holds = "number" /\ pidfile.id \in 1..MaxPid

\* The bug of asking kill about any number: 0 is a process group, stillwatch's own,
\* and one that is too large comes out negative, another group.
ReadPidfileUnguarded(pidfile, processes) ==
    CASE pidfile.holds = "absent" -> "no-pidfile"
      [] pidfile.holds \in {"refused", "text"} -> "unreadable"
      [] OTHER -> IF NamesProcess(pidfile) => pidfile.id \in processes THEN "running" ELSE "gone"

\* read_pidfile with is_running, given the processes there are: any process with
\* that id will do, whoever owns it.
ReadPidfile(pidfile, processes) ==
    CASE pidfile.holds = "absent" -> "no-pidfile"
      [] pidfile.holds # "absent" /\ ~NamesProcess(pidfile) -> "unreadable"
      [] NamesProcess(pidfile) -> IF pidfile.id \in processes THEN "running" ELSE "gone"

-----------------------------------------------------------------------------
(* Recording a look *)

\* The bug of recording the time of every look at the pidfile.
RecordProcessAnyway(p, at, finding) ==
    [p EXCEPT !.process = finding, !.lastRunning = Later(@, at)]

\* record_process.
RecordProcess(p, at, finding) ==
    [p EXCEPT
        !.process = finding,
        !.lastRunning = IF finding = "running" THEN Later(@, at) ELSE @]

\* record_artifact, and record_log for what it shares with it.
RecordFile(p, finding, modified) ==
    [p EXCEPT
        !.file = finding,
        !.modified = IF IsPresent(finding) THEN modified ELSE Never,
        !.everSeen = @ \/ IsPresent(finding)]

\* record_log: a line that matched is dated by the look that found it.
RecordLog(p, at, finding, modified, matched) ==
    [RecordFile(p, finding, modified) EXCEPT !.lastError = IF matched THEN at ELSE @]

-----------------------------------------------------------------------------
(* Verdicts *)

\* The bug of measuring an absence from the start of the watch.
AbsentFromStart(p, started, t) ==
    /\ p.process \notin {"unknown", "running"}
    /\ Since(started, t) >= AbsentAfter

\* assess_process: absent since it was last seen, or since the watch began.
ProcessAbsent(p, started, t) ==
    /\ p.process \notin {"unknown", "running"}
    /\ Since(IF p.lastRunning = Never THEN started ELSE p.lastRunning, t) >= AbsentAfter

\* The bug of waiting for a file that has been there like for one that has not.
FileMissingPatient(p, started, t) ==
    \/ p.file = "missing" /\ Since(started, t) >= StaleAfter
    \/ p.file = "unreadable"

\* file_assessment: a file never seen is given stale_after to appear.
FileMissing(p, started, t) ==
    \/ p.file = "missing" /\ (p.everSeen \/ Since(started, t) >= StaleAfter)
    \/ p.file = "unreadable"

\* file_assessment: a file without a date is not judged.
FileStale(p, t) ==
    /\ p.file \in {"present", "small"}
    /\ Since(p.modified, t) >= StaleAfter

\* assess_log, assess_artifact: an error in the log, and a small output, outrank
\* what is wrong with the file.
LoggedError(p, t) == p.lastError # Never /\ Since(p.lastError, t) < StaleAfter

LogConditions(p, started, t) ==
    IF LoggedError(p, t) THEN {"logged-error"}
    ELSE IF FileMissing(p, started, t) THEN {"log-missing"}
    ELSE IF FileStale(p, t) THEN {"log-stale"}
    ELSE {}

ArtifactConditions(p, started, t) ==
    IF p.file = "small" THEN {"output-too-small"}
    ELSE IF FileMissing(p, started, t) THEN {"output-missing"}
    ELSE IF FileStale(p, t) THEN {"output-stale"}
    ELSE {}

=============================================================================
