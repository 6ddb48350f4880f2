------------------------------- MODULE Check -------------------------------
(***************************************************************************)
(* A dependency that is probed: the prober of src/src/prober.rs, which     *)
(* records an observation per interval, the observations kept in CheckState*)
(* of src/src/state.rs, and the verdict assess_check of src/src/evaluate.rs*)
(* makes of them. The evaluator runs at any moment and keeps nothing about *)
(* a check, so that a verdict is a function of the observations and the    *)
(* clock.                                                                  *)
(***************************************************************************)
EXTENDS Integers, FiniteSets

CONSTANTS
    Interval,          \* config.interval
    Timeout,           \* config.timeout
    DownAfter,         \* config.down_after
    BaselineWindow,    \* config.degradation.baseline_window
    RecentIntervals,   \* RECENT_INTERVALS
    MinSamples,        \* config.degradation.min_samples
    Ceiling,           \* config.degradation.absolute_ceiling
    WarnMultiple,      \* config.degradation.warn_multiple
    CriticalMultiple,  \* config.degradation.critical_multiple
    RankNum, RankDen,  \* JUDGED_PERCENTILE is RankNum / RankDen
    Latency,           \* how long a response can take, in units far below Timeout
    MaxTime,           \* bound: the clock stops here
    MaxStall           \* bound: how long in all the prober is held up

Smaller(a, b) == IF a <= b THEN a ELSE b
Larger(a, b) == IF a >= b THEN a ELSE b

\* The last twenty probes, but never more than a third of the window.
RecentWindow == Smaller(RecentIntervals * Interval, BaselineWindow \div 3)

\* How many probes the baseline has room for.
Capacity == (BaselineWindow - RecentWindow) \div Interval

\* RawCheck::resolve
CheckValid ==
    /\ Interval \in Nat \ {0} /\ Timeout \in Nat \ {0} /\ Timeout < Interval
    /\ DownAfter \in Nat /\ DownAfter >= Interval

\* RawDegradation::resolve
DegradationValid ==
    /\ BaselineWindow \in Nat \ {0} /\ RecentIntervals \in Nat
    /\ MinSamples \in Nat \ {0} /\ MinSamples <= Capacity
    /\ Ceiling \in Nat \ {0}
    /\ WarnMultiple \in Nat /\ WarnMultiple > 1
    /\ CriticalMultiple \in Nat /\ CriticalMultiple > WarnMultiple

ASSUME ConfigAssumption == CheckValid /\ DegradationValid
ASSUME PercentileAssumption ==
    RankNum \in Nat /\ RankDen \in Nat /\ 0 < RankNum /\ RankNum <= RankDen
ASSUME CheckBoundsAssumption ==
    Latency \subseteq Nat /\ MaxTime \in Nat /\ MaxStall \in Nat

Time == 0..MaxTime

\* Option::None, below every time and every latency.
None == -1

\* Outcome: the latency of a response, or a failure.
Failed == -2
Outcome == Latency \cup {Failed}

VARIABLES
    now,           \* the clock
    due,           \* when the ticker fires next
    started,       \* when the probe under way was started, or None
    observations,  \* what is kept: some dates -> Outcome
    history,       \* observer: what was ever recorded
    stalled        \* observer: how long in all the prober was held up
vars == <<now, due, started, observations, history, stalled>>

\* Probes take time and do not overlap, so no two observations have one date.
IsRecord(m) == DOMAIN m \subseteq 0..now /\ m \in [DOMAIN m -> Outcome]

TypeOK ==
    /\ now \in Time
    /\ due \in 0..(MaxTime + Interval)
    /\ started \in 0..now \cup {None}
    /\ IsRecord(observations)
    /\ IsRecord(history)
    /\ stalled \in 0..MaxStall

-----------------------------------------------------------------------------
(* Windows and percentiles: CheckState *)

Least(S) == CHOOSE t \in S : \A u \in S : t <= u

Window(obs, w) == {t \in DOMAIN obs : now - w < t /\ t <= now}

\* The bug of taking the window before the recent one with its own full length.
WindowBetweenShifted(obs, outer, inner) ==
    {t \in DOMAIN obs : now - outer - inner <= t /\ t < now - outer}

WindowBetween(obs, outer, inner) ==
    {t \in DOMAIN obs : now - outer <= t /\ t < now - inner}

Answered(obs, dates) == {t \in dates : obs[t] # Failed}

\* The nearest rank: the least latency that enough of the responses do not exceed.
Percentile(obs, dates) ==
    LET answered == Answered(obs, dates)
        enough == {l \in {obs[t] : t \in answered} :
                      RankDen * Cardinality({t \in answered : obs[t] <= l})
                          >= RankNum * Cardinality(answered)}
    IN  IF answered = {} THEN None ELSE Least(enough)

\* The bug of leaving no margin.
RetentionExact == Larger(BaselineWindow, DownAfter)

\* How far back observations are kept.
Retention == Larger(BaselineWindow, DownAfter) + 2 * Interval

-----------------------------------------------------------------------------
(* The verdict: assess_check *)

\* The newest observations, for as long as they were failures.
FailingRun(obs) ==
    {t \in DOMAIN obs : \A u \in DOMAIN obs : t <= u => obs[u] = Failed}

\* The bug of measuring the failures by those in the window.
FailingForInWindow(obs) ==
    LET run == FailingRun(obs) \cap Window(obs, DownAfter)
    IN  IF run = {} THEN 0 ELSE now - Least(run)

FailingFor(obs) == IF FailingRun(obs) = {} THEN 0 ELSE now - Least(FailingRun(obs))

\* The bug of not asking how long the failures have lasted.
IsDownAtOnce(obs) ==
    LET recent == Window(obs, DownAfter)
    IN  recent # {} /\ Answered(obs, recent) = {}

\* The bug of taking DownAfter for a number of probes.
IsDownByCount(obs) ==
    LET recent == Window(obs, DownAfter)
    IN  /\ Cardinality(recent) >= DownAfter \div Interval
        /\ Answered(obs, recent) = {}
        /\ FailingFor(obs) >= DownAfter

\* All failed in the window, and the failures have lasted as long as it is.
IsDown(obs) ==
    LET recent == Window(obs, DownAfter)
    IN  /\ recent # {}
        /\ Answered(obs, recent) = {}
        /\ FailingFor(obs) >= DownAfter

\* The p90 of the window before the recent one; None while it is warming up.
Baseline(obs) ==
    LET dates == WindowBetween(obs, BaselineWindow, RecentWindow)
    IN  IF Cardinality(Answered(obs, dates)) < MinSamples THEN None
        ELSE Percentile(obs, dates)

\* What the multiples say of a recent p90; a baseline of zero says nothing.
Slower(recent, baseline, multiple) == baseline > 0 /\ recent >= multiple * baseline

\* CheckHealth, and for a check that is degraded why: by the critical multiple,
\* by the ceiling or the lesser multiple, or because its baseline is as bad.
Verdicts == {"down", "critical", "warn", "not credible", "stale baseline", "warming", "ok"}

\* health_without_verdict
WithoutVerdict(baseline) == IF baseline = None THEN "warming" ELSE "ok"

Verdict(obs) ==
    LET recent   == Percentile(obs, Window(obs, RecentWindow))
        baseline == Baseline(obs)
    IN  IF IsDown(obs) THEN "down"
        ELSE IF recent = None THEN WithoutVerdict(baseline)
        ELSE IF Slower(recent, baseline, CriticalMultiple) THEN "critical"
        ELSE IF recent >= Ceiling \/ Slower(recent, baseline, WarnMultiple) THEN "warn"
        ELSE IF baseline >= Ceiling THEN "not credible"
        ELSE IF baseline > 0 /\ WarnMultiple * recent <= baseline THEN "stale baseline"
        ELSE WithoutVerdict(baseline)

-----------------------------------------------------------------------------
(* Actions *)

Init ==
    /\ now = 0
    /\ due = 0
    /\ started = None
    /\ observations = [t \in {} |-> Failed]
    /\ history = [t \in {} |-> Failed]
    /\ stalled = 0

\* ticker.tick() returns: a probe is started. A tick that was missed is made up
\* for by delaying those that follow.
Probe ==
    /\ started = None
    /\ due <= now
    /\ started' = now
    /\ due' = now + Interval
    /\ UNCHANGED <<now, observations, history, stalled>>

\* obs with the outcome of a probe that ends now.
With(obs, outcome) ==
    [t \in DOMAIN obs \cup {now} |-> IF t = now THEN outcome ELSE obs[t]]

\* CheckState::record: what is older than anything asks about is forgotten.
Recorded(obs, outcome) ==
    LET extended == With(obs, outcome)
    IN  [t \in {t \in DOMAIN extended : now - Retention <= t} |-> extended[t]]

\* The probe under way ends: with a response, or refused, cut off by the timeout,
\* or answered by an error.
Record(outcome) ==
    /\ started # None
    /\ started < now
    /\ started' = None
    /\ observations' = Recorded(observations, outcome)
    /\ history' = With(history, outcome)
    /\ UNCHANGED <<now, due, stalled>>

Respond == \E latency \in Latency : Record(latency)
Fail == Record(Failed)

\* Something the prober should have done by now is not done: the machine is
\* suspended, or the task does not get to run.
Late == \/ started = None /\ due <= now
        \/ started # None /\ started + Timeout <= now

\* Time passes.
Pass ==
    /\ now < MaxTime
    /\ now' = now + 1
    /\ IF Late THEN stalled < MaxStall /\ stalled' = stalled + 1 ELSE stalled' = stalled
    /\ UNCHANGED <<due, started, observations, history>>

\* The evaluator asks for the verdict: it reads the observations, and that is all.
Evaluate == UNCHANGED vars

Next ==
    \/ Probe
    \/ Respond
    \/ Fail
    \/ Pass
    \/ Evaluate

Spec == Init /\ [][Next]_vars

-----------------------------------------------------------------------------
(* The inductive invariant: what the observations say of the probes *)

\* What is kept is the newest part of the history, and what is not is too old.
KeptIsNewest ==
    /\ DOMAIN observations \subseteq DOMAIN history
    /\ \A t \in DOMAIN observations :
        /\ observations[t] = history[t]
        /\ \A u \in DOMAIN history : t <= u => u \in DOMAIN observations
    /\ \A t \in DOMAIN history \ DOMAIN observations : t < now - Retention

\* One probe at a time: what is under way was started after all that is recorded,
\* and the ticker fires an interval after its start.
OneAtATime ==
    started # None =>
        /\ due = started + Interval
        /\ \A t \in DOMAIN history : t <= started

\* A prober that is not held up starts on the tick and ends by the timeout.
OnTime ==
    stalled = 0 => IF started = None THEN now <= due ELSE now <= started + Timeout

\* When the probe starts whose outcome is recorded next.
NextStart == IF started = None THEN due ELSE started

\* It leaves no gap in the history longer than an interval and a timeout, from a
\* probe imagined an interval before the start.
Gapless ==
    stalled = 0 =>
        \A t \in DOMAIN history \cup {-Interval} :
            \/ \E u \in DOMAIN history : t < u /\ u <= t + Interval + Timeout
            \/ (\A u \in DOMAIN history : u <= t) /\ NextStart <= t + Interval

\* The observations mean what a reader of them takes them to mean.
ObservationsHonest == KeptIsNewest /\ OneAtATime /\ OnTime /\ Gapless

-----------------------------------------------------------------------------
(* Safety *)

\* The last response that was recorded, or None.
LastAnswer ==
    LET answered == Answered(history, DOMAIN history)
    IN  IF answered = {} THEN None
        ELSE CHOOSE t \in answered : \A u \in answered : u <= t

\* A check is called down only if two probes failed, the first at least DownAfter
\* ago, and no response was recorded since: neither one blip nor the first failure
\* after startup is an outage, whatever has been forgotten and however late the
\* prober is (assess_check, "down").
DownIsReal ==
    Verdict(observations) = "down" =>
        \E t, u \in DOMAIN history :
            /\ t <= now - DownAfter /\ now - DownAfter < u
            /\ \A v \in DOMAIN history : t <= v => history[v] = Failed

\* What has been forgotten is not missed: unless the prober is held up, a verdict
\* is the one the full history would give (CheckState::retention).
PruningIsUnseen == stalled = 0 => Verdict(observations) = Verdict(history)

\* A dependency that has stopped answering is called down within an interval, a
\* timeout and DownAfter of its last response, or of the first probe, and at every
\* moment after that, unless the prober is held up. A DownAfter of an interval is
\* accepted by the configuration and does not have this property (see README).
SilenceIsDown ==
    stalled = 0 /\ DownAfter >= 2 * Interval =>
        (now > LastAnswer + Interval + Timeout + DownAfter => Verdict(observations) = "down")

\* A check that answers every probe of a whole baseline_window is judged: it is not
\* warming up, now or later. RawDegradation::resolve, "this check would never finish
\* warming up", refuses windows with no room for min_samples; one with room for no
\* more than them loses one when a response is late (see README).
AnsweringIsJudged ==
    stalled = 0 /\ MinSamples < Capacity /\ now >= BaselineWindow + Timeout =>
        ((\A t \in DOMAIN history : now - BaselineWindow <= t => history[t] # Failed)
            => Verdict(observations) # "warming")

\* Down is left by a response and by nothing else, unless the prober is held up.
DownIsLeftByAnswer ==
    [][ (/\ Verdict(observations) = "down" /\ Verdict(observations)' # "down"
         /\ stalled' = 0 /\ DownAfter >= 2 * Interval)
            => LastAnswer' # LastAnswer ]_vars

=============================================================================
