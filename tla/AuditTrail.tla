----------------------------- MODULE AuditTrail -----------------------------
(***************************************************************************)
(* The life of a stillwatch process (watch_mode and watch of               *)
(* src/src/main.rs) with the dispatcher in it, the records it leaves in    *)
(* the incident log, and what a report run at any moment makes of them.    *)
(* A report is a process of its own: it reads the log and nothing else.    *)
(***************************************************************************)
EXTENDS Dispatch

CONSTANTS
    Interval,   \* WATCHING_INTERVAL
    Grain,      \* how many units of time make up the second a record is dated by
    MaxStall    \* bound: how long in all the watch loop may be held up

ASSUME TrailAssumption ==
    /\ Interval \in Nat \ {0}
    /\ Grain \in Nat \ {0}
    /\ MaxStall \in Nat

VARIABLES
    process,       \* how far the process has come, see below
    polling,       \* the evaluator task may run: it is not aborted, or is not
                   \* yet gone (the abort is not waited for)
    file,          \* the records of the log in the order they were appended
    lastWatching   \* last_watching: when `watching` was last recorded
life == <<process, polling, file, lastWatching>>

\* Observers.
VARIABLES
    vouched,   \* the units of time a record of a run shows it to have lived through
    runStart,  \* when the last run recorded its start; NoTime if it said it stopped
    lastSign,  \* the latest date on a record of that run
    reported,  \* [Subject -> units of time a cycle reported it in]
    stalled    \* how long in all the watch loop has been held up
witness == <<vouched, runStart, lastSign, reported, stalled>>

trailVars == <<vars, life, witness>>

\* The stages of a process: not running; log opened and `started` recorded;
\* evaluating; evaluator aborted; `stopped` recorded (or given up) and about to end.
\* "down", "starting", "watching", "aborted", "stopped".

Log == INSTANCE Report

Units(from, to) == from..(to - 1)

-----------------------------------------------------------------------------
(* What is recorded *)

\* The records of a kind of one cycle: their order does not matter to a report.
InAnyOrder(S) == CHOOSE s \in Orderings(S) : TRUE

ResolvedRecords(a) ==
    {Log!Resolved(k, open[k].openedAt, ClearSince(k)) : k \in Recovered(a)}

\* The bug of recording `watching` at most half as often as a report expects.
WatchingDueRarely ==
    lastWatching = NoTime \/ Elapsed(lastWatching, now) > 2 * Interval

\* note_still_watching: due in the first cycle, then once per interval.
WatchingDue == lastWatching = NoTime \/ Elapsed(lastWatching, now) >= Interval

\* What one cycle appends: the marker, then reconcile's records.
Records(a) ==
    (IF WatchingDue THEN <<Log!Watching(now)>> ELSE <<>>)
    \o InAnyOrder({Log!Opened(k, Noted(a, k).firstSeen) : k \in Confirmed(a)})
    \o InAnyOrder(ResolvedRecords(a))
    \o InAnyOrder({Log!Escalated(k, open[k].openedAt, now) : k \in Escalated(a)})

-----------------------------------------------------------------------------
(* Observers *)

\* The latest date among records, at least d.
LatestOf(d, records) ==
    LET dates == {Log!FromUnix(records[i].ts) : i \in DOMAIN records} \cup {d}
    IN  CHOOSE t \in dates : \A u \in dates : u <= t

\* Records of a run vouch for it up to the latest of their dates; what is
\* recorded after its `stopped` vouches for nothing.
Vouch(records) ==
    /\ file' = file \o records
    /\ lastSign' = IF runStart = NoTime THEN lastSign ELSE LatestOf(lastSign, records)
    /\ vouched' = IF runStart = NoTime THEN vouched
                                     ELSE vouched \cup Units(runStart, lastSign')

-----------------------------------------------------------------------------
(* Actions *)

TrailInit ==
    /\ Init
    /\ process = "down"
    /\ polling = FALSE
    /\ file = <<>>
    /\ lastWatching = NoTime
    /\ vouched = {}
    /\ runStart = NoTime
    /\ lastSign = NoTime
    /\ reported = [s \in Subject |-> {}]
    /\ stalled = 0

\* The log is opened and `started` recorded before anything else. A log that
\* cannot be opened ends the start without a trace.
Start ==
    /\ process = "down"
    /\ process' = "starting"
    /\ file' = Append(file, Log!Started(now))
    /\ runStart' = Log!FromUnix(Log!Unix(now))
    /\ lastSign' = runStart'
    /\ UNCHANGED <<vars, polling, lastWatching, vouched, reported, stalled>>

\* The receiver is bound, probers and the evaluator are spawned.
Bind ==
    /\ process = "starting"
    /\ process' = "watching"
    /\ polling' = TRUE
    /\ UNCHANGED <<vars, file, lastWatching, witness>>

\* The listen address is taken: the process ends, and nothing says so.
BindFails ==
    /\ process = "starting"
    /\ restarts < MaxRestarts
    /\ process' = "down"
    /\ restarts' = restarts + 1
    /\ UNCHANGED <<now, program, wrong, spell, told, setBack,
                   polling, file, lastWatching, witness>>

\* A cycle of the evaluator with its records. One that was being polled when it
\* was aborted still gets to its next await.
Evaluate(a) ==
    /\ polling
    /\ Cycle(a)
    /\ Vouch(Records(a))
    /\ lastWatching' = IF WatchingDue THEN now ELSE lastWatching
    /\ polling' = (process = "watching")
    /\ reported' = [s \in Subject |-> IF \E k \in DOMAIN a : k[1] = s
                                      THEN reported[s] \cup {now} ELSE reported[s]]
    /\ UNCHANGED <<process, runStart, stalled>>

\* An awaited send returns, in a task that has not been aborted.
Deliver ==
    /\ process = "watching"
    /\ Send
    /\ UNCHANGED <<life, witness>>

\* Ctrl-c: the server ends, the evaluator is aborted and not waited for.
Abort ==
    /\ process = "watching"
    /\ restarts < MaxRestarts
    /\ process' = "aborted"
    /\ polling' \in {FALSE, phase = "ticking"}
    /\ UNCHANGED <<vars, file, lastWatching, witness>>

\* The log is opened once more, and `stopped` recorded.
RecordStopped ==
    /\ process = "aborted"
    /\ process' = "stopped"
    /\ Vouch(<<Log!Stopped(now)>>)
    /\ runStart' = NoTime
    /\ UNCHANGED <<vars, polling, lastWatching, reported, stalled>>

\* The log cannot be opened: the process ends like one that crashed.
StoppedUnrecorded ==
    /\ process = "aborted"
    /\ process' = "stopped"
    /\ UNCHANGED <<vars, polling, file, lastWatching, witness>>

\* The process ends, or is killed at any point: its memory is gone.
Die ==
    /\ process # "down"
    /\ Restart
    /\ process' = "down"
    /\ polling' = FALSE
    /\ lastWatching' = NoTime
    /\ UNCHANGED <<file, witness>>

\* Time passes. A process that lives has had a cycle in every unit of time,
\* unless the machine sleeps or a send has not returned.
Pass ==
    /\ Tick
    /\ IF process # "down" /\ cycleAt # now
       THEN stalled < MaxStall /\ stalled' = stalled + 1
       ELSE stalled' = stalled
    /\ UNCHANGED <<life, vouched, runStart, lastSign, reported>>

SetBack ==
    /\ StepBack
    /\ UNCHANGED <<life, witness>>

TrailNext ==
    \/ Start
    \/ Bind
    \/ BindFails
    \/ \E a \in Assessments : Evaluate(a)
    \/ Deliver
    \/ Abort
    \/ RecordStopped
    \/ StoppedUnrecorded
    \/ Die
    \/ Pass
    \/ SetBack

TrailSpec == TrailInit /\ [][TrailNext]_trailVars

-----------------------------------------------------------------------------
(* What a report run now says *)

Events == Log!Dated(file)
Spans == Log!Coverage(Events, now)

\* The units of time before now that a sequence of spans covers: what a report
\* claims somebody was watching in.
UnitsOf(spans) ==
    Units(0, now) \cap UNION {Units(spans[i].from, spans[i].to) : i \in DOMAIN spans}
Claimed == UnitsOf(Spans)

\* The units of time a report counts as downtime of s.
DownUnits(s) ==
    Units(0, now) \cap UNION {Units(i.from, i.to) : i \in Log!IncidentsOf(s, Events, 0, now)}

-----------------------------------------------------------------------------
(* Safety *)

\* However runs end and start, no unit of time is counted as watched twice: the
\* watched time of any window is the number of its units that are claimed.
WatchedCountsOnce ==
    LET spans == Spans
        claimed == UnitsOf(spans)
    IN  \A since \in 0..now :
            Log!Watched(spans, since, now) = Cardinality(claimed \cap Units(since, now))

\* Nothing is claimed that no record vouches for, except that a run whose last
\* record is not older than an interval is taken to be alive (coverage), as long
\* as the clock is not set back.
ClaimsAreVouched ==
    setBack = 0 => \A t \in Claimed :
        \/ t \in vouched
        \/ /\ runStart # NoTime
           /\ lastSign <= t /\ now <= lastSign + Interval

\* No time a record vouches for is lost, whatever happened after it, as long as
\* the clock is not set back: the records that are dated in the past (the
\* beginnings and ends of incidents) lie among those of other runs.
VouchedIsClaimed == setBack = 0 => vouched \cap Units(0, now) \subseteq Claimed

\* All of the run of a process that has just had a cycle, so that no `watching`
\* record is due, is claimed, as long as the clock is not set back: incidents.rs:466,
\* "If one is not yet due, the run is live and covered to now". A record is dated by the
\* second it falls in, and a marker may be overdue by its date while it is not by its
\* time: for less than a second, nothing after that date is claimed.
LiveIsClaimed ==
    LET sign == Log!FromUnix(Log!Unix(lastWatching))
    IN  setBack = 0 /\ process = "watching" /\ cycleAt = now =>
            \A t \in Units(runStart, now) :
                \/ t \in Claimed
                \/ sign <= t /\ Interval < now - sign /\ now - sign < Interval + Grain - 1

\* A report has a reason to count t as downtime of s: s was reported wrong then,
\* within its second, or soon enough before for t to be in a window in which it
\* may have blinked, or in which nobody looked because the watch loop was held up.
ReportedWrong(s, t) ==
    \E u \in reported[s] : u < t + Grain /\ t <= u + ConfirmAfter + stalled

\* While one process lives and its clock is not set back, downtime is time the
\* subject was reported wrong in: an incident is counted from its first report
\* to its last, neither from its confirmation nor to that of its end (report).
DownWasReported ==
    restarts = 0 /\ setBack = 0 =>
        \A s \in Subject : \A t \in DownUnits(s) : ReportedWrong(s, t)

\* The log has records of one rule of s only.
OneRuleBroke(s) ==
    \A i, j \in DOMAIN file :
        file[i].key[1] = s /\ file[j].key[1] = s => file[i].key = file[j].key

\* While one process lives and its clock is not set back, the downtime of a
\* subject of which one rule broke is the time it had an open incident in:
\* incidents.rs, SubjectReport.down, "Time inside the window during which this
\* subject had an open incident".
DownCountsOnce ==
    restarts = 0 /\ setBack = 0 =>
        LET events == Events
        IN  \A s \in Subject : OneRuleBroke(s) =>
                LET units == DownUnits(s)
                IN  \A since \in 0..now :
                        Log!Down(s, events, since, now) = Cardinality(units \cap Units(since, now))

=============================================================================
