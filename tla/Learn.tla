-------------------------------- MODULE Learn --------------------------------
(***************************************************************************)
(* `stillwatch learn`: what is observed is written into the journal        *)
(* (src/src/state.rs), thresholds are derived from it (src/src/learn.rs),  *)
(* and the report is put into the configuration that stillwatch is then    *)
(* started with (Settings; learn_mode and run of src/src/main.rs). A       *)
(* handler reads the clock before it takes the lock, so that beats that    *)
(* come close together are recorded in any order.                          *)
(***************************************************************************)
EXTENDS Settings

CONSTANTS
    MinIntervals,       \* MIN_INTERVALS
    Anomaly,            \* ANOMALY_MULTIPLE
    ShareNum, ShareDen, \* MAX_INCIDENT_SHARE
    Scenarios,          \* what there is to observe, and the file and the environment of
                        \* the start that follows
    Overlap, InFlight,  \* bounds: how long a handler may wait for the lock, and how
                        \* many do at a time
    MaxBeats            \* bound: beats, and probes

ASSUME LearnAssumption ==
    /\ MinIntervals \in Nat \ {0}
    /\ Anomaly \in Nat \ {0}
    /\ ShareNum \in Nat \ {0} /\ ShareDen \in Nat \ {0}
    /\ Overlap \in Nat /\ InFlight \in Nat \ {0} /\ MaxBeats \in Nat

\* Option::None, and the latency of a probe that failed.
None == -1

\* What a beat carries that the journal keeps: whether there was work, how old the data
\* is, and the counters of a ratio.
Details == [worked : BOOLEAN, age : Int, num : Nat \cup {None}, den : Nat \cup {None}]

\* The files are trees, and have a job.
ASSUME ScenarioAssumption ==
    \A s \in Scenarios :
        /\ \A tree \in s.files : IsTree(tree) /\ \E p \in DOMAIN tree : KeyOf(p) = "job"
        /\ s.gaps \subseteq Nat /\ s.details \subseteq Details
        /\ s.latencies \subseteq Nat \cup {None}

VARIABLES
    scenario,  \* which it is
    file, env, \* the configuration and the environment of the start to come
    phase,     \* "learning", "reported", "running" or "refused"
    clock,     \* SystemTime::now()
    arriving,  \* beats whose handlers have read the clock and wait for the lock
    journal,   \* Journal, of a job and a check
    config     \* the tree the start deserialized, or <<>>
vars == <<scenario, file, env, phase, clock, arriving, journal, config>>

-----------------------------------------------------------------------------
(* Cadence *)

\* duration_since(..).unwrap_or(ZERO)
Since(from, to) == IF to >= from THEN to - from ELSE 0

CeilDiv(n, d) == (n + d - 1) \div d

Largest(f) == Max(Range(f) \cup {0})

Gaps(times) == [i \in 1..(Len(times) - 1) |-> Since(times[i], times[i + 1])]

TimeSpan(times) == Since(times[1], times[Len(times)])

\* quantile, of durations in any order: the nearest rank.
Quantile(f, num, den) ==
    IF DOMAIN f = {} THEN 0
    ELSE LET rank == Max({1, CeilDiv(num * Cardinality(DOMAIN f), den)})
             AtMost(v) == Cardinality({i \in DOMAIN f : f[i] <= v})
         IN  Min({v \in Range(f) : AtMost(v) >= rank})

Median(f) == Quantile(f, 1, 2)

\* The gaps that are far out of line with the rest of the window, and the others.
IncidentAt(times) ==
    {i \in DOMAIN Gaps(times) : Gaps(times)[i] > Anomaly * Median(Gaps(times))}
Incidents(times) == Restrict(Gaps(times), IncidentAt(times))
Ordinary(times) == Restrict(Gaps(times), DOMAIN Gaps(times) \ IncidentAt(times))

\* share_of above MAX_INCIDENT_SHARE; a window of no length is all incident.
MostlyIncident(times) ==
    \/ TimeSpan(times) = 0
    \/ SumFunction(Incidents(times)) * ShareDen > ShareNum * TimeSpan(times)

\* cadence: there is one, or it is refused.
HasCadence(times) ==
    /\ Len(times) >= 2
    /\ Cardinality(DOMAIN Ordinary(times)) >= MinIntervals
    /\ ~MostlyIncident(times)

Worst(times) == Largest(Ordinary(times))

-----------------------------------------------------------------------------
(* Thresholds *)

\* step_for, in whole seconds.
StepFor(d) ==
    LET s == d \div Second
    IN  IF s <= 10 THEN 1 ELSE IF s <= 90 THEN 5 ELSE IF s <= 600 THEN 30
        ELSE IF s <= 3600 THEN 60 ELSE IF s <= 86400 THEN 900 ELSE 3600

\* The bug of dropping what is left of a second.
RoundUpWhole(d) == CeilDiv(Max({1, d \div Second}), StepFor(d)) * StepFor(d) * Second

\* round_up
RoundUp(d) == CeilDiv(Max({1, CeilDiv(d, Second)}), StepFor(d)) * StepFor(d) * Second

\* round_nearest
RoundNearest(d) ==
    LET step == StepFor(d)
    IN  Max({1, ((d \div Second + step \div 2) \div step) * step}) * Second

\* The bug of leaving the order of the thresholds to the rounding.
AliveThresholdsRounded(median, worst) ==
    [expect_every |-> RoundNearest(median), warn_after |-> RoundUp(4 * worst),
     critical_after |-> RoundUp(3 * RoundUp(4 * worst))]

\* alive_thresholds
AliveThresholds(median, worst) ==
    LET expect == RoundNearest(median)
        warn == Max({RoundUp(4 * worst), 2 * expect})
    IN  [expect_every |-> expect, warn_after |-> warn,
         critical_after |-> Max({RoundUp(3 * warn), warn + Second})]

\* silence_thresholds: a margin of a quarter, and of one and a half.
SilenceThresholds(worst) ==
    LET warn == Max({RoundUp((5 * worst) \div 4), Second})
    IN  [warn_after |-> warn,
         critical_after |-> Max({RoundUp((5 * worst) \div 2), warn + Second})]

\* round_up_latency
RoundUpLatency(d) ==
    LET ms == Max({1, d})
        step == IF ms <= 1000 THEN 50 ELSE IF ms <= 10000 THEN 500 ELSE 1000
    IN  CeilDiv(ms, step) * step

-----------------------------------------------------------------------------
(* The report *)

\* The bug of printing the largest unit only.
SpellRough(d) ==
    IF d >= Hour THEN d - (d % Hour) ELSE IF d >= Minute THEN d - (d % Minute) ELSE d - (d % Second)

\* spell, read back: fmt::duration prints whole seconds, in two units.
Spell(d) == IF d >= Hour THEN d - (d % Minute) ELSE d - (d % Second)

Block(p, thresholds) ==
    [q \in {p} \cup {p \o <<k>> : k \in DOMAIN thresholds} |->
        IF q = p THEN Table ELSE Number(Spell(thresholds[q[Len(q)]]))]

NoBlock == <<>>

\* alive_block, worked_block
LearnedAlive == AliveThresholds(Median(Ordinary(journal.beats)), Worst(journal.beats))
LearnedWorked == SilenceThresholds(Worst(journal.worked))

AliveBlock(j) == IF HasCadence(journal.beats) THEN Block(j \o <<"alive">>, LearnedAlive) ELSE NoBlock
WorkedBlock(j) == IF HasCadence(journal.worked) THEN Block(j \o <<"worked">>, LearnedWorked) ELSE NoBlock

\* freshness_block: from how old the data was when the beats arrived, whatever it was.
Ages == [i \in DOMAIN journal.data |-> Since(journal.data[i].ts, journal.data[i].at)]
LearnedFreshness == SilenceThresholds(Largest(Ages))

FreshnessBlock(j) ==
    IF Len(Ages) >= MinIntervals THEN Block(j \o <<"freshness">>, LearnedFreshness) ELSE NoBlock

\* ratio_section: the totals of the window up to now, and a floor under what they
\* make, in hundredths. Only samples with the denominator count.
InWindow(window) ==
    {i \in DOMAIN journal.counters :
        journal.counters[i].at >= clock - window /\ journal.counters[i].den # None}

NumeratorOf(i) == IF journal.counters[i].num = None THEN 0 ELSE journal.counters[i].num
DenominatorOf(i) == journal.counters[i].den

Numerator(window) == MapThenSumSet(NumeratorOf, InWindow(window))
Denominator(window) == MapThenSumSet(DenominatorOf, InWindow(window))

Floor(window) ==
    IF Denominator(window) = 0 THEN None
    ELSE Max({1, (95 * Numerator(window)) \div Denominator(window)})

\* check_section
Responded ==
    Restrict(journal.probes, {i \in DOMAIN journal.probes : journal.probes[i] # None})

Ceiling ==
    IF Cardinality(DOMAIN Responded) < MinIntervals THEN None
    ELSE RoundUpLatency(3 * Quantile(Responded, 99, 100))

\* report, for the job of the file: what is printed as settings, not as comments.
Job == CHOOSE p \in DOMAIN file : KeyOf(p) = "job"

Printed == Over(Over(AliveBlock(Job), WorkedBlock(Job)), FreshnessBlock(Job))

\* What the start reads.
Proposal == Over(file, Printed)

-----------------------------------------------------------------------------
(* Actions *)

Init ==
    /\ scenario \in Scenarios
    /\ file \in scenario.files
    /\ env \in scenario.environments
    /\ phase = "learning"
    /\ clock = 0
    /\ arriving = <<>>
    /\ journal = [beats |-> <<>>, worked |-> <<>>, data |-> <<>>, counters |-> <<>>,
                  probes |-> <<>>]
    /\ config = <<>>

\* A beat arrives, a while after the one before.
Beat ==
    /\ phase = "learning"
    /\ Len(journal.beats) + Len(arriving) < MaxBeats
    /\ Len(arriving) < InFlight
    /\ \E gap \in scenario.gaps, detail \in scenario.details :
        /\ \A i \in DOMAIN arriving : clock + gap - arriving[i].at <= Overlap
        /\ clock' = clock + gap
        /\ arriving' = Append(arriving, [at |-> clock', detail |-> detail])
    /\ UNCHANGED <<scenario, file, env, phase, journal, config>>

Push(s, x, wanted) == IF wanted THEN Append(s, x) ELSE s

\* record_beat_with, of what the journal keeps: any handler that waits is next.
Record ==
    /\ phase = "learning"
    /\ \E i \in DOMAIN arriving :
        LET at == arriving[i].at
            d == arriving[i].detail
        IN  /\ arriving' = RemoveAt(arriving, i)
            /\ journal' = [journal EXCEPT
                    !.beats = Append(@, at),
                    !.worked = Push(@, at, d.worked),
                    !.data = Push(@, [at |-> at, ts |-> at - d.age], d.age # None),
                    !.counters = Push(@, [at |-> at, num |-> d.num, den |-> d.den],
                                      d.num # None \/ d.den # None)]
    /\ UNCHANGED <<scenario, file, env, phase, clock, config>>

\* record_probe
Probe ==
    /\ phase = "learning"
    /\ Len(journal.probes) < MaxBeats
    /\ \E l \in scenario.latencies : journal' = [journal EXCEPT !.probes = Append(@, l)]
    /\ UNCHANGED <<scenario, file, env, phase, clock, arriving, config>>

\* learn_mode: the window ends, or is ended, once the handlers are done.
Report ==
    /\ phase = "learning"
    /\ arriving = <<>>
    /\ phase' = "reported"
    /\ UNCHANGED <<scenario, file, env, clock, arriving, journal, config>>

\* The configuration is loaded with what was printed for its job.
Start ==
    /\ phase = "reported"
    /\ phase' = IF Loads(Proposal, env) THEN "running" ELSE "refused"
    /\ config' = IF Interpolable(Proposal, env) THEN Effective(Proposal, env) ELSE <<>>
    /\ UNCHANGED <<scenario, file, env, clock, arriving, journal>>

Next == Beat \/ Record \/ Probe \/ Report \/ Start

Spec == Init /\ [][Next]_vars

-----------------------------------------------------------------------------
(* Properties *)

\* README.md:404, "What it prints loads": a configuration that loads still does with
\* what learn has printed for its job, whatever was observed and in whatever order
\* the handlers recorded it, and each threshold is the one that was derived.
ProposalsLoad ==
    /\ phase = "refused" => ~Loads(file, env)
    /\ phase = "running" =>
        /\ HasCadence(journal.beats) => Alive(config, Job \o <<"alive">>) = LearnedAlive
        /\ HasCadence(journal.worked) => Silence(config, Job \o <<"worked">>) = LearnedWorked
        /\ Len(Ages) >= MinIntervals => Silence(config, Job \o <<"freshness">>) = LearnedFreshness

\* How long it was quiet, between two dates with none between.
Silences(times) ==
    LET dates == ToSet(times)
    IN  {p[2] - p[1] : p \in {q \in dates \X dates :
                    q[1] < q[2] /\ ~\E c \in dates : q[1] < c /\ c < q[2]}}

\* A silence that the thresholds would not be crossed by, or that the report names
\* one of the incidents as long as.
Tolerated(times, warn) ==
    \A s \in Silences(times) : s < warn \/ \E i \in Range(Incidents(times)) : s <= i

\* learn.rs:125, "Thresholds are never tighter than this": stillwatch, had it run
\* with what it is started with now, or with the floor that was suggested, would not
\* have warned of anything that was observed and not named as an incident
\* (alive_thresholds, silence_thresholds, round_up, ratio_section).
NoneIsTighter ==
    phase = "running" =>
        /\ HasCadence(journal.beats) =>
                Tolerated(journal.beats, Alive(config, Job \o <<"alive">>).warn_after)
        /\ HasCadence(journal.worked) =>
                Tolerated(journal.worked, Silence(config, Job \o <<"worked">>).warn_after)
        /\ Len(Ages) >= MinIntervals =>
                \A i \in DOMAIN Ages : Ages[i] < Silence(config, Job \o <<"freshness">>).warn_after
        /\ \A p \in Blocks(config, Job, {"ratio"}) :
                LET window == config[p \o <<"window">>].is
                IN  \/ Floor(window) \in {None, 1}
                    \/ Floor(window) * Denominator(window) <= 100 * Numerator(window)

\* config.rs:8, "these win over the file": what a STILLWATCH_* variable holds is what
\* stillwatch runs with, and so is what a ${VAR} stands for, to the letter, even if
\* there is a ${ in it.
EnvironmentWins ==
    phase = "running" =>
        /\ \A p \in ToSet(Overridable) :
                VariableFor(p) \in DOMAIN env => config[p].is = env[VariableFor(p)]
        /\ \A p \in DOMAIN Proposal \ ToSet(Overridable) :
                Proposal[p].type = "text" => config[p].is = Expand(Proposal[p].is, env)

\* config.rs:589, "Either way the user needs to know the line they wrote is doing
\* nothing": of a file that was read, whether stillwatch then runs or not, each key
\* is either read or named, itself or the section it is in, and none is both. And
\* main.rs:439, "Says out loud what is and is not being watched": once it runs, the
\* rules it names are those it has, none is also said to be missing, and no job or
\* check goes without a word.
KeysAreAnswered ==
    /\ \A p \in DOMAIN config :
            Listed(p, Consumed) <=> ~\E q \in Warned(config) : IsPrefix(q, p)
    /\ phase = "running" =>
        /\ Announced(config) = Rules(config)
        /\ Announced(config) \cap Disclaimed(config) = {}
        /\ \A s \in Subjects(config) :
                \E p \in Announced(config) \cup Disclaimed(config) : IsPrefix(s, p)

\* config.rs:145, "would silently suppress each other's alerts": no two rules that
\* stillwatch runs with find things under one key (IncidentKey, notify.rs).
KeysAreDistinct ==
    phase = "running" =>
        \A p, q \in Rules(config) : p # q => KeysOf(config, p) \cap KeysOf(config, q) = {}

\* learn.rs:607, "Spells a duration the way the config parser reads it back": the
\* ceiling that is printed is the one that was derived. It is not: it is printed in
\* whole seconds, and one of less than a second as 0s, which no check accepts.
CeilingIsReadBack == phase = "reported" /\ Ceiling # None => Spell(Ceiling) = Ceiling

=============================================================================
