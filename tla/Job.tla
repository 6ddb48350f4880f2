-------------------------------- MODULE Job --------------------------------
(***************************************************************************)
(* A job that reports its own heartbeats: the handler of a beat            *)
(* (src/src/receiver.rs), what a beat leaves in JobState                   *)
(* (src/src/state.rs), and the rules assess_job judges it by               *)
(* (src/src/evaluate.rs). A handler reads the clock before it takes the    *)
(* lock, so that beats are recorded in any order, and the clock can be set *)
(* back. The evaluator keeps nothing: its assessments are a function of    *)
(* the state and of a date it has read. watch_started is 0.                *)
(***************************************************************************)
EXTENDS Integers, Sequences, FiniteSets, FiniteSetsExt, SequencesExt

CONSTANTS
    AliveWarn, AliveCritical,      \* config.alive
    WorkedWarn, WorkedCritical,    \* config.worked; critical_after may be None
    FreshWarn, FreshCritical,      \* config.freshness; critical_after may be None
    Ratios,       \* config.ratios: records of window, min (num / den) and sample
    MarginDiv,    \* counters are kept for a MarginDiv-th longer than the longest window
    Rules,        \* sets of rules a job can be configured with
    Detail,       \* what a beat can carry
    MaxTime,      \* bound: the clock stops here
    MaxBeats,     \* bound: how many beats arrive
    MaxSetBack    \* bound: how far in all the clock is set back

\* Option::None, below every date and every threshold.
None == -1

\* RawAlive::resolve
AliveValid ==
    AliveWarn \in Nat /\ AliveWarn > 1 /\ AliveCritical \in Nat /\ AliveCritical > AliveWarn

\* RawSilence::resolve
SilenceValid(warn, critical) ==
    warn \in Nat \ {0} /\ (critical = None \/ (critical \in Nat /\ critical > warn))

\* RawRatio::resolve
RatioValid(r) ==
    /\ r.window \in Nat \ {0} /\ r.sample \in Nat \ {0}
    /\ r.num \in Nat \ {0} /\ r.den \in Nat /\ r.num <= r.den

\* RawJob::resolve, of a job that is not passive: ratio rules are known by their names.
JobValid ==
    /\ Rules \subseteq SUBSET {"alive", "worked", "freshness", "ratio"}
    /\ IsFiniteSet(Ratios) /\ Ratios # {} /\ \A r \in Ratios : RatioValid(r)
    /\ \A r, s \in Ratios : r.name = s.name => r = s

\* A beat says whether work was done, the date of the data that was acted on, and the
\* two counters of the ratios: the denominator and the numerator, None if they are not
\* reported. into_detail has refused what is negative or no number.
IsDetail(d) ==
    /\ d.worked \in BOOLEAN
    /\ d.data = None \/ d.data \in Nat
    /\ d.fetched = None \/ d.fetched \in Nat
    /\ d.parsed = None \/ d.parsed \in Nat

ASSUME JobAssumption ==
    /\ AliveValid
    /\ SilenceValid(WorkedWarn, WorkedCritical) /\ SilenceValid(FreshWarn, FreshCritical)
    /\ JobValid
    /\ MarginDiv \in Nat \ {0}
    /\ \A d \in Detail : IsDetail(d)
ASSUME JobBoundsAssumption ==
    MaxTime \in Nat /\ MaxBeats \in Nat /\ MaxSetBack \in Nat

VARIABLES
    rules,        \* which rules the job is configured with
    clock,        \* SystemTime::now()
    arriving,     \* beats whose handlers have read the clock and wait for the lock
    beats,        \* how many were recorded
    lastBeat,     \* the date of the last beat, or None
    lastWorked,   \* the date of the last beat that did work, or None
    lastData,     \* the date of the data last reported, or None
    seen,         \* whether the denominator was ever reported
    samples,      \* the counters of the beats that carried any, as recorded
    first,        \* those kept begin here
    setBack,      \* observer: how far in all the clock was set back
    heard         \* observer: when in true time the last beat arrived that was recorded
vars == <<rules, clock, arriving, beats, lastBeat, lastWorked, lastData, seen,
          samples, first, setBack, heard>>

TrueTime == clock + setBack

TypeOK ==
    /\ rules \in Rules
    /\ clock \in 0..MaxTime /\ setBack \in 0..MaxSetBack
    /\ heard \in 0..TrueTime
    /\ arriving \in Seq([at : 0..MaxTime, true : 0..TrueTime, detail : Detail])
    /\ beats \in Nat /\ beats + Len(arriving) <= MaxBeats
    /\ lastBeat \in 0..MaxTime \cup {None} /\ lastWorked \in 0..MaxTime \cup {None}
    /\ lastData = None \/ lastData \in Nat
    /\ seen \in BOOLEAN
    /\ samples \in Seq([at : 0..MaxTime, fetched : Nat \cup {None}, parsed : Nat \cup {None}])
    /\ first \in 1..(Len(samples) + 1)

-----------------------------------------------------------------------------
(* What a beat leaves behind: JobState::record *)

\* The bug of believing what was recorded last.
ForwardLatest(last, at) == at

\* Handlers that overtake each other do not make a job look older.
Forward(last, at) == IF last > at THEN last ELSE at

\* The bug of keeping counters for the shortest window.
LongestShortest == Min({r.window : r \in Ratios})

Longest == Max({r.window : r \in Ratios})

\* Counters are kept for a tenth longer than that.
Margin == Longest \div MarginDiv
Retention == Longest + Margin

\* The bug of believing that what a beat does not report was not there.
EverSeenKept == \E i \in first..Len(samples) : samples[i].fetched # None

\* has_ever_seen
EverSeen == seen

\* Counters are kept if a rule needs them, and forgotten from the oldest on.
RecordSample(at, detail) ==
    IF "ratio" \in rules /\ ~(detail.fetched = None /\ detail.parsed = None)
    THEN /\ samples' = Append(samples,
                [at |-> at, fetched |-> detail.fetched, parsed |-> detail.parsed])
         /\ first' = Min({i \in first..Len(samples') : samples'[i].at >= at - Retention})
    ELSE UNCHANGED <<samples, first>>

-----------------------------------------------------------------------------
(* The rules *)

Warn == 1
Critical == 2
Finding(what, rule, severity) == [what |-> what, rule |-> rule, severity |-> severity]

\* The bug of having nothing to say of a job that was never heard of.
SilentForObserved(last, e) == IF last = None \/ e <= last THEN 0 ELSE e - last

\* How long it has been since a date, or since the watch began; never negative.
SilentFor(last, e) ==
    LET since == IF last = None THEN 0 ELSE last
    IN  IF e <= since THEN 0 ELSE e - since

\* The findings that a silence gives rise to: one, or none.
Overdue(what, silence, warn, critical) ==
    IF critical # None /\ silence >= critical THEN {Finding(what, "", Critical)}
    ELSE IF silence >= warn THEN {Finding(what, "", Warn)}
    ELSE {}

\* assess_alive
AliveFindings(e) ==
    IF "alive" \notin rules THEN {}
    ELSE Overdue("NoHeartbeat", SilentFor(lastBeat, e), AliveWarn, AliveCritical)

\* The bug of paging for a job that is alive and quiet.
WorkedFindingsUncapped(e) ==
    IF "worked" \notin rules THEN {}
    ELSE Overdue("NoWork", SilentFor(lastWorked, e), WorkedWarn, WorkedCritical)

\* assess_worked: a job that is known to be alive is not paged for.
WorkedFindings(e) ==
    IF "worked" \notin rules THEN {}
    ELSE Overdue("NoWork", SilentFor(lastWorked, e), WorkedWarn,
                 IF "alive" \in rules THEN None ELSE WorkedCritical)

\* assess_freshness
FreshnessFindings(e) ==
    IF "freshness" \notin rules THEN {}
    ELSE IF lastData # None
    THEN Overdue("Stale", SilentFor(lastData, e), FreshWarn, FreshCritical)
    ELSE IF beats > 0 /\ e >= FreshWarn THEN {Finding("FreshnessUnreported", "", Warn)}
    ELSE {}

\* counter_window, of the samples from the given one on.
Window(from, r, e) ==
    {i \in from..Len(samples) : e - r.window < samples[i].at /\ samples[i].at <= e}

\* The bug of counting numerators that come without a denominator.
CountingAll(from, r, e) == Window(from, r, e)

\* ratio_totals: the samples that have something to say of the ratio. Of those, one
\* without a numerator reports none.
Counting(from, r, e) == {i \in Window(from, r, e) : samples[i].fetched # None}

Parsed(i) == IF samples[i].parsed = None THEN 0 ELSE samples[i].parsed
Fetched(i) == IF samples[i].fetched = None THEN 0 ELSE samples[i].fetched
ParsedIn(among) == MapThenSumSet(Parsed, among)
FetchedIn(among) == MapThenSumSet(Fetched, among)

\* ratio_not_judged, the other way round.
IsJudged(r, e) == EverSeen /\ FetchedIn(Counting(first, r, e)) >= r.sample

\* The ratio of the totals is below the minimum.
IsBelow(r, e) ==
    LET among == Counting(first, r, e)
    IN  ParsedIn(among) * r.den < r.num * FetchedIn(among)

\* assess_ratio
RatioFindings(r, e) ==
    IF "ratio" \notin rules THEN {}
    ELSE IF ~EverSeen /\ beats > 0 /\ e >= r.window
    THEN {Finding("RatioUnreported", r.name, Warn)}
    ELSE IF IsJudged(r, e) /\ IsBelow(r, e)
    THEN {Finding("Ratio", r.name, Warn)}
    ELSE {}

\* assess_job: a job that is not beating is judged by nothing else.
Assess(e) ==
    IF AliveFindings(e) # {} THEN AliveFindings(e)
    ELSE WorkedFindings(e) \cup FreshnessFindings(e)
            \cup UNION {RatioFindings(r, e) : r \in Ratios}

-----------------------------------------------------------------------------
(* Actions *)

Init ==
    /\ rules \in Rules
    /\ clock = 0
    /\ arriving = <<>>
    /\ beats = 0
    /\ lastBeat = None
    /\ lastWorked = None
    /\ lastData = None
    /\ seen = FALSE
    /\ samples = <<>>
    /\ first = 1
    /\ setBack = 0
    /\ heard = 0

\* A beat arrives and is accepted: its handler reads the clock.
Arrive ==
    /\ beats + Len(arriving) < MaxBeats
    /\ \E d \in Detail :
        arriving' = Append(arriving, [at |-> clock, true |-> TrueTime, detail |-> d])
    /\ UNCHANGED <<rules, clock, beats, lastBeat, lastWorked, lastData, seen, samples,
                   first, setBack, heard>>

\* Its handler gets the lock: State::record_beat_with.
RecordBeat ==
    \E i \in DOMAIN arriving :
        LET at == arriving[i].at
            detail == arriving[i].detail
        IN  /\ arriving' = RemoveAt(arriving, i)
            /\ beats' = beats + 1
            /\ lastBeat' = Forward(lastBeat, at)
            /\ lastWorked' = IF detail.worked THEN Forward(lastWorked, at) ELSE lastWorked
            /\ lastData' = IF detail.data # None THEN detail.data ELSE lastData
            /\ seen' = (seen \/ detail.fetched # None)
            /\ RecordSample(at, detail)
            /\ heard' = IF heard > arriving[i].true THEN heard ELSE arriving[i].true
            /\ UNCHANGED <<rules, clock, setBack>>

\* Time passes.
Pass ==
    /\ clock < MaxTime
    /\ clock' = clock + 1
    /\ UNCHANGED <<rules, arriving, beats, lastBeat, lastWorked, lastData, seen, samples,
                   first, setBack, heard>>

\* The clock is set back.
StepBack ==
    /\ clock > 0 /\ setBack < MaxSetBack
    /\ clock' = clock - 1
    /\ setBack' = setBack + 1
    /\ UNCHANGED <<rules, arriving, beats, lastBeat, lastWorked, lastData, seen, samples,
                   first, heard>>

\* The evaluator asks for the assessments: it reads the state, and that is all.
Evaluate == UNCHANGED vars

Next ==
    \/ Arrive
    \/ RecordBeat
    \/ Pass
    \/ StepBack
    \/ Evaluate

Spec == Init /\ [][Next]_vars

-----------------------------------------------------------------------------
(* Safety *)

Reported(what, e) == \E f \in Assess(e) : f.what = what
Paged(what, e) == \E f \in Assess(e) : f.what = what /\ f.severity = Critical
RatioReported(r, e) == Finding("Ratio", r.name, Warn) \in Assess(e)

\* What is kept of a beat's date is as good as the truth: between when the last beat
\* arrived and how much earlier the clock has shown it since; and of the counters only
\* what was older than the retention has been forgotten.
BeatsHonest ==
    /\ lastBeat = None <=> beats = 0
    /\ beats = 0 => heard = 0
    /\ lastBeat # None => heard - setBack <= lastBeat /\ lastBeat <= heard
    /\ \A i \in 1..Len(arriving) :
        /\ arriving[i].true - setBack <= arriving[i].at
        /\ arriving[i].at <= arriving[i].true
    /\ \A i \in 1..(first - 1) :
        \E j \in 1..Len(samples) : samples[i].at < samples[j].at - Retention

\* A job that has beaten within AliveWarn is neither called missing nor paged for
\* because it is quiet, whatever order its beats were recorded in and however the
\* clock was set back (state.rs, "must not make a live job look stale"; evaluate.rs,
\* "A job that is alive and quiet must never produce a critical alert").
LiveIsNotPaged ==
    "alive" \in rules /\ TrueTime - heard < AliveWarn =>
        ~Reported("NoHeartbeat", clock) /\ ~Paged("NoWork", clock)

\* A job that has stopped, or never began, to beat is called missing in time, and paged
\* for in time; a clock that is set back delays that by as much and no more.
SilenceIsMissed ==
    "alive" \in rules =>
        /\ TrueTime - heard >= AliveWarn + setBack => Reported("NoHeartbeat", clock)
        /\ TrueTime - heard >= AliveCritical + setBack => Paged("NoHeartbeat", clock)

\* No date an evaluator has read is so old that a beat recorded since has made a
\* sample it asks for be forgotten, nor has the clock been set back that far.
WithinMargin(e) == \A i \in 1..Len(samples) : samples[i].at - e <= Margin

\* A ratio is taken over every sample ever recorded in its window.
SumsAreExact ==
    \A e \in 0..clock : WithinMargin(e) =>
        \A r \in Ratios : Window(first, r, e) = Window(1, r, e)

\* A ratio is not reported while every beat of its window is good, and is reported when
\* there are enough of them and each is bad.
RatioIsFair ==
    WithinMargin(clock) /\ "ratio" \in rules =>
        \A r \in Ratios :
            LET told == {i \in Window(1, r, clock) : samples[i].fetched # None}
                Bad(i) == Parsed(i) * r.den < r.num * Fetched(i)
            IN  /\ (\A i \in told : ~Bad(i)) => ~RatioReported(r, clock)
                /\ (/\ \A i \in told : Bad(i)
                    /\ FetchedIn(told) >= r.sample
                    /\ ~Reported("NoHeartbeat", clock)) => RatioReported(r, clock)

\* A counter is said never to have arrived only if it never did, however long ago.
NeverMeansNever ==
    Reported("RatioUnreported", clock) =>
        \A i \in 1..Len(samples) : samples[i].fetched = None

=============================================================================
