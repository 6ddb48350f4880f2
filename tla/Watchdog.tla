------------------------------ MODULE Watchdog ------------------------------
(***************************************************************************)
(* A job from end to end: the world it is in, what stillwatch gets to know *)
(* of it, the rules that judge that, and the watch loop with the           *)
(* dispatcher (Dispatch), which confirms what the rules say before anybody *)
(* hears of it.                                                            *)
(*                                                                         *)
(* A job is watched from outside, by its process, its log or its output,   *)
(* at which a task looks every POLL (passive.rs, judged as in Passive); or *)
(* it beats, with counters, and is judged by its heartbeat and by ratios   *)
(* of the counters (Job). The tasks tick at their own pace and in any      *)
(* order; the notifier accepts what it is sent.                            *)
(***************************************************************************)
EXTENDS Dispatch, Passive

CONSTANTS
    Poll,       \* POLL, in ticks of the watch loop
    Slack,      \* bound: how late a task may wake
    Paces,      \* how often jobs write
    MaxChanges, \* bound: changes of what is there, and errors logged
    LastChange, \* bound: after this time there are none
    AliveWarn, AliveCritical, Ratios, MarginDiv, Detail, MaxBeats  \* of Job

ASSUME WatchdogAssumption ==
    /\ Poll \in Nat \ {0}
    /\ Slack \in Nat
    /\ Paces \subseteq Nat \ {0}
    /\ MaxChanges \in Nat /\ LastChange \in Nat
    /\ Subject # {}

VARIABLES
    watched,   \* "process", "log", "artifact" or "beats"
    pidfile,   \* what is in it
    processes, \* the ids of the processes there are
    onDisk,    \* what a look at the log or the output would find
    pace,      \* how often the job writes to it; 0 while it does not
    mtime,     \* when it was last written
    matching,  \* a line that matches error_regex was written since the last look
    found,     \* PassiveState
    started,   \* started_at of this process
    lastPoll   \* when the watcher last looked
VARIABLES  \* of Job
    rules, arriving, beats, lastBeat, lastWorked, lastData, seen, samples, first, heard
VARIABLES  \* observers
    changes,   \* so far
    since,     \* when what there is last changed, an error was logged, or a job that
               \* had been silent for AliveWarn beat again
    steadyAt,  \* when it was last good for as long as a look can be away
    misses     \* looks in a row that found no file
outside == <<watched, pidfile, processes, onDisk, pace, mtime, matching>>
watcher == <<found, started, lastPoll>>
beating == <<rules, arriving, beats, lastBeat, lastWorked, lastData, seen, samples, first,
             heard>>
noticed == <<changes, since, steadyAt, misses>>

wvars == <<vars, outside, watcher, beating, noticed>>

\* The job, if it is one that beats.
Beats == INSTANCE Job WITH
            clock <- now, Rules <- {{"alive", "ratio"}}, WorkedWarn <- 1,
            WorkedCritical <- Never, FreshWarn <- 1, FreshCritical <- Never

\* What it is configured with has passed its checks, and what it reports has passed its.
ASSUME BeatsAssumption ==
    /\ Beats!AliveValid
    /\ Beats!JobValid
    /\ MarginDiv \in Nat \ {0}
    /\ \A d \in Detail : Beats!IsDetail(d)
    /\ MaxBeats \in Nat

\* The conditions of a job that is watched from outside, and those of a ratio: that it
\* is low goes by its name, and that it was never reported by another.
PassiveCondition ==
    {"process-absent", "logged-error", "log-missing", "log-stale",
     "output-missing", "output-too-small", "output-stale"}
LowCondition == {r.name : r \in Ratios}
UnreportedCondition == {r.unreported : r \in Ratios}

\* Each is a variant of Condition of its own, and each rule's is another.
ASSUME ConditionsAssumption ==
    /\ PassiveCondition \cup LowCondition \cup UnreportedCondition \subseteq Condition
    /\ NoHeartbeat \notin PassiveCondition \cup LowCondition \cup UnreportedCondition
    /\ PassiveCondition \cap (LowCondition \cup UnreportedCondition) = {}
    /\ LowCondition \cap UnreportedCondition = {}
    /\ \A r, s \in Ratios : r.unreported = s.unreported => r = s

TheJob == CHOOSE s \in Subject : TRUE

IsFile == watched \in {"log", "artifact"}

\* Nothing is wrong with what there is, the age of a file aside.
Good ==
    CASE watched = "process" -> NamesProcess(pidfile) /\ pidfile.id \in processes
      [] IsFile -> onDisk = "present"
      [] watched = "beats" -> now - heard < AliveWarn

\* The longest there can be between two looks.
Blind == Poll + Slack

\* What evaluate finds now about a job that beats, by condition.
ConditionOf(finding) ==
    CASE finding.what = "NoHeartbeat"     -> NoHeartbeat
      [] finding.what = "Ratio"           -> finding.rule
      [] finding.what = "RatioUnreported" ->
            (CHOOSE r \in Ratios : r.name = finding.rule).unreported

\* What evaluate reports now.
Conditions(t) ==
    CASE watched = "process" ->
            IF ProcessAbsent(found, started, t) THEN {"process-absent"} ELSE {}
      [] watched = "log" -> LogConditions(found, started, t)
      [] watched = "artifact" -> ArtifactConditions(found, started, t)
      [] watched = "beats" -> {ConditionOf(f) : f \in Beats!Assess(t)}

Verdicts(t) ==
    [k \in {TheJob} \X Conditions(t) |->
        IF watched = "beats"
        THEN (CHOOSE f \in Beats!Assess(t) : ConditionOf(f) = k[2]).severity
        ELSE IF k[2] = "process-absent" THEN Critical ELSE Warn]

-----------------------------------------------------------------------------
(* The world *)

WatchdogInit ==
    /\ Init
    /\ Beats!Init
    /\ watched \in {"process", "log", "artifact", "beats"}
    /\ IF watched = "process"
       THEN pidfile \in Pidfile /\ processes \in SUBSET (1..MaxPid)
       ELSE pidfile = [holds |-> "absent", id |-> 0] /\ processes = {}
    /\ onDisk \in IF IsFile THEN {"missing", "present"} ELSE {"missing"}
    /\ pace \in IF IsFile THEN Paces \cup {0} ELSE {0}
    /\ mtime \in IF IsFile /\ pace = 0 THEN {now, now - StaleAfter} ELSE {now}
    /\ matching = FALSE
    /\ found = NoLook
    /\ started = now
    /\ lastPoll = now - Poll
    /\ changes = 0
    /\ since = now
    /\ steadyAt = Never
    /\ misses = 0

Upset == changes < MaxChanges /\ now <= LastChange /\ changes' = changes + 1

Changed ==
    /\ Upset
    /\ since' = now
    /\ steadyAt' = IF Good /\ now - since > Blind THEN now ELSE steadyAt

\* A process ends or starts.
ChangeProcesses ==
    /\ watched = "process"
    /\ Changed
    /\ processes' \in SUBSET (1..MaxPid) \ {processes}
    /\ UNCHANGED <<vars, watched, pidfile, onDisk, pace, mtime, matching, watcher, beating,
                   misses>>

\* The pidfile is written, half or in full, removed, or changes its rights.
ChangePidfile ==
    /\ watched = "process"
    /\ Changed
    /\ pidfile' \in Pidfile \ {pidfile}
    /\ UNCHANGED <<vars, watched, processes, onDisk, pace, mtime, matching, watcher, beating,
                   misses>>

\* The file goes, comes, or changes its rights, or its size.
ChangeFile ==
    /\ IsFile
    /\ Changed
    /\ onDisk' \in FileFinding \ {onDisk}
    /\ watched = "log" => onDisk' # "small"
    /\ mtime' = IF IsPresent(onDisk) THEN mtime ELSE now
    /\ UNCHANGED <<vars, watched, pidfile, processes, pace, matching, watcher, beating,
                   misses>>

\* The job stops writing, or logs what error_regex matches.
Stop ==
    /\ Upset
    /\ pace # 0
    /\ pace' = 0
    /\ UNCHANGED <<vars, watched, pidfile, processes, onDisk, mtime, matching, watcher,
                   beating, since, steadyAt, misses>>

LogError ==
    /\ Upset
    /\ watched = "log" /\ IsPresent(onDisk)
    /\ matching' = TRUE
    /\ mtime' = now
    /\ since' = now
    /\ UNCHANGED <<vars, watched, pidfile, processes, onDisk, pace, watcher, beating,
                   steadyAt, misses>>

WriteDue == pace # 0 /\ IsPresent(onDisk) /\ now - mtime >= pace

Write ==
    /\ WriteDue
    /\ mtime' = now
    /\ UNCHANGED <<vars, watched, pidfile, processes, onDisk, pace, matching, watcher,
                   beating, noticed>>

-----------------------------------------------------------------------------
(* stillwatch *)

\* A beat arrives, and its handler gets the lock: one in each tick (bound).
Arrive ==
    /\ UNCHANGED <<vars, outside, watcher, noticed>>
    /\ watched = "beats"
    /\ arriving = <<>> /\ lastBeat # now
    /\ Beats!Arrive

RecordBeat ==
    /\ UNCHANGED <<vars, outside, watcher, changes, steadyAt, misses>>
    /\ Beats!RecordBeat
    /\ since' = IF Good THEN since ELSE now

\* Watcher::poll.
Look ==
    /\ watched # "beats"
    /\ now - lastPoll >= Poll
    /\ lastPoll' = now
    /\ found' =
        CASE watched = "process"  -> RecordProcess(found, now, ReadPidfile(pidfile, processes))
          [] watched = "log"      -> RecordLog(found, now, onDisk, mtime, matching /\ IsPresent(onDisk))
          [] watched = "artifact" -> RecordFile(found, onDisk, mtime)
    /\ matching' = (matching /\ ~IsPresent(onDisk))
    /\ misses' = IF onDisk \in {"missing", "unreadable"} THEN misses + 1 ELSE 0
    /\ UNCHANGED <<vars, watched, pidfile, processes, onDisk, pace, mtime, started, beating,
                   changes, since, steadyAt>>

\* One turn of the watch loop.
Turn ==
    /\ cycleAt # now
    /\ Cycle(Verdicts(now))
    /\ UNCHANGED <<outside, watcher, beating, noticed>>

Accept == SendOk /\ UNCHANGED <<outside, watcher, beating, noticed>>

\* Time passes while no task is overdue, no beat is under way and no send is awaited.
TimePasses ==
    /\ phase = "ticking"
    /\ arriving = <<>>
    /\ ~WriteDue
    /\ watched = "beats" \/ now - lastPoll < Blind
    /\ now - cycleAt <= Slack
    /\ Tick
    /\ UNCHANGED <<outside, watcher, beating, noticed>>

WatchdogNext ==
    \/ ChangeProcesses \/ ChangePidfile \/ ChangeFile \/ Stop \/ LogError \/ Write
    \/ Arrive \/ RecordBeat
    \/ Look \/ Turn \/ Accept
    \/ TimePasses

WatchdogSpec == WatchdogInit /\ [][WatchdogNext]_wvars

-----------------------------------------------------------------------------
(* Properties *)

\* A date is so far back that what a rule names d after it has been judged by now,
\* confirmed over the window, and judged again.
Late(from, d) == now - from > d + (1 + Slack) + ConfirmAfter + Slack

\* And has been found by a look before that.
Overdue(from, d) == Late(from, Later(d, Blind))

\* The last time the process or file had been there for so long that a look found
\* it there.
Steady == IF Good /\ now - since > Blind THEN now ELSE steadyAt

\* What a person must have been told by now. An error in the log is named first,
\* and hides what is wrong with the file until it is stale_after old; a file that
\* was never seen is given stale_after to appear.
Owed ==
    CASE watched = "process" ->
            {c \in {"process-absent"} : ~Good /\ Overdue(since, AbsentAfter)}
      [] watched = "log" ->
            {c \in {"log-missing"} :
                onDisk \in {"missing", "unreadable"} /\ Overdue(since, StaleAfter)}
            \cup {c \in {"log-stale"} :
                Good /\ Overdue(Later(since, mtime), Blind + StaleAfter)}
      [] watched = "artifact" ->
            {c \in {"output-missing"} :
                /\ onDisk \in {"missing", "unreadable"}
                /\ Overdue(since, IF Steady = Never THEN StaleAfter ELSE Blind)}
            \cup {c \in {"output-too-small"} : onDisk = "small" /\ Overdue(since, Blind)}
            \cup {c \in {"output-stale"} :
                Good /\ Overdue(Later(since, mtime), StaleAfter)}
      [] watched = "beats" -> {c \in {NoHeartbeat} : Late(heard, AliveWarn)}

\* From what is wrong to the person: a process that is gone, a file that is missing,
\* unreadable, too small or no longer written, and a job that has stopped to beat or
\* never began, has been announced in bounded time, and one that goes on being
\* silent as critical, in whatever order the tasks ran and whatever there was before
\* (passive.rs, evaluate.rs, notify.rs).
TroubleIsTold ==
    /\ \A c \in Owed : told[<<TheJob, c>>] # AllClear
    /\ watched = "beats" /\ Late(heard, AliveCritical) => told[<<TheJob, NoHeartbeat>>] = Critical

\* A file that is written so often that every look finds it fresh.
WrittenOften == pace # 0 /\ pace + Blind < StaleAfter

\* And back: once there is nothing wrong for long enough, nobody is left believing
\* there is, the error in the log included once it is stale_after old. A job that
\* beats again is not missing, whatever its counters say.
RecoveryIsTold ==
    /\ Good
    /\ IsFile => WrittenOften
    /\ IF watched = "beats" THEN Late(since, 0)
       ELSE Overdue(since, IF watched = "log" THEN Blind + StaleAfter ELSE Blind)
    => \A k \in Key : k[2] = NoHeartbeat \/ watched # "beats" => told[k] = AllClear

\* Nobody is woken for a moment. An absent process was not running, for longer than
\* a look can miss, at any time of absent_after and the confirmation window less one
\* look; a missing file was missed by two looks in a row if the window is longer
\* than a look is away (the gap of a rotation, passive.rs:178); a file that is
\* written often is never stale; a job that is missing has been silent for the whole
\* of AliveWarn and the window.
TroubleIsReal ==
    [][\A k \in DOMAIN open' \ DOMAIN open :
        /\ k[2] = "process-absent" /\ Steady # Never =>
                now - Steady >= AbsentAfter + ConfirmAfter - Blind
        /\ k[2] \in {"log-missing", "output-missing"} /\ ConfirmAfter > Blind =>
                misses >= 2
        /\ k[2] \in {"log-stale", "output-stale"} => ~WrittenOften
        /\ k[2] = NoHeartbeat => now - heard >= AliveWarn + ConfirmAfter]_wvars

\* Whether the rule is judged as long as the job is alive: its window holds the last
\* beat for that long, and one beat is enough of a sample.
AlwaysJudged(r) ==
    r.window >= AliveWarn /\ \A d \in Detail : d.fetched # Never /\ d.fetched >= r.sample

\* notify.rs:1024, "a collapsed parse rate on a job that has since died did not get
\* better, and saying it did would be exactly the confidently-wrong message this
\* whole module exists to avoid": nothing about a job is cleared while it is silent,
\* and a ratio that is judged as long as the job is alive is cleared only when it is
\* judged, and good enough. One that is not can be cleared before the job is found
\* to be silent (see README).
ClearedIsBetter ==
    [][watched = "beats" =>
        \A k \in DOMAIN open \ DOMAIN open' :
            /\ now - heard < AliveWarn
            /\ \A r \in Ratios : k[2] = r.name /\ AlwaysJudged(r) =>
                    Beats!IsJudged(r, now) /\ ~Beats!IsBelow(r, now)]_wvars

=============================================================================
