# stillwatch in TLA+

A verification project for [stillwatch](../src/README.md), a watchdog for small
services: jobs send it heartbeats or are looked at from outside, dependencies are
probed, rules turn what was seen into conditions, and a dispatcher turns conditions
into a few messages to a person. Every run leaves records behind from which
`stillwatch report` computes what was watched and what was down.

Everything here is translated from the sources in `src/src/*.rs` (named below
without the directory). `PROJECT.json` maps every definition to its lines, lists
the runs, the mutants that show each property can fail, the theorems, and the
hazards the properties are aimed at.

Contents: [1 the system](#1-the-system) · [2 the modules](#2-the-modules) ·
[3 the runs](#3-the-runs) · [4 the proofs](#4-the-proofs) ·
[5 where code and documents disagree](#5-where-code-and-documents-disagree) ·
[6 what is not modelled](#6-what-is-not-modelled) · [7 plan](#7-plan)

## 1. The system

One process, five kinds of tasks (`main.rs`), one lock:

    HTTP clients --> receiver --.
    dependencies <-> prober(s) --+--> SharedState --> evaluator loop --> dispatcher --> notifier
    pid, log, file -> passive --'      (one lock)      evaluate()         |  outbox     (Telegram)
                                                                          '--> incident log --> report

| component | state | operations | what makes it correct |
|---|---|---|---|
| receiver (`receiver.rs`) | none | `POST /beat/{job}`: parse, refuse what cannot mean anything, read the clock, record under the lock | beats count once, in whatever order handlers get the lock |
| shared state (`state.rs`) | per job: last beat, last work, last data, counters; per check: observations | `record_beat_with`, `CheckState::record`, windows, percentiles, retention | nothing a rule still asks about is forgotten; a clock set back makes nothing look old |
| prober (`prober.rs`) | a ticker | probe, with a timeout, one at a time | one observation per interval, dated when it ended, no gap, no overlap |
| passive watcher (`passive.rs`) | the position in a log | look at a pidfile, a file's age, the tail of a log every 15 s | no error line is passed over and none reported anew, whatever is done to the log; what is no process id is not taken for one |
| evaluator (`evaluate.rs`) | none: a function of the state and a date | `evaluate`, `check_health`, `unjudged_signals` | a dead job or dependency is reported in bounded time, a live one never; no verdict without evidence |
| dispatcher (`notify.rs`) | open incidents, pending conditions, outbox, retry timer | `dispatch` = `reconcile` + `enqueue` + `flush` | damping windows mean what they say; every alert gets one all-clear; nothing is lost silently |
| notifiers (`notify.rs`) | none | send: accepted, refused for good, failed | |
| incident log (`incidents.rs`) | two files, a handle and a size | open, append, rotate, read back | what is read is the newest part of what was written; bounded on disk |
| report (`incidents.rs`) | none | coverage, downtime, incidents of a window | claims nothing that was not watched, counts nothing twice |
| watch loop (`main.rs`) | the life cycle | start, bind, cycle, abort, stop | records tell how a run began, lived and ended |
| learn (`learn.rs`) | a journal of what was observed | derive thresholds from it and print them as settings | what it prints loads, as the thresholds it derived; none is tighter than what was observed |
| configuration (`config.rs`) | none | interpolate, override from the environment, resolve or refuse, warn of what is not read | every key is read or named; the environment wins; no two rules share an incident |

Behaviours that are hard to test, and that the models contain: handlers that overtake
each other between reading the clock and taking the lock; a wall clock that is set
back; an evaluator awaiting a send while time passes; refused, failed and slow sends;
an outbox at its limit; a process that dies, fails to bind, is suspended or stops
between any two steps; rename and reopen failing halfway through a rotation; torn
lines; an evaluator that was aborted and still writes; probes that time out and
tickers that are late; a log that is rotated, truncated or taken away between the two
system calls of a look, in the middle of a line; watcher, watch loop and dispatcher
ticking out of phase. The evaluator and the report are pure, so that their part in
a state machine is to be asked at any moment, about any date they may have read.

## 2. The modules

| module | models | built on |
|---|---|---|
| `Alerts` | keys, severities, messages, the bounded queue | |
| `AlertStream` | **abstract specification**: what stillwatch promises a person | `Alerts` |
| `Dispatch` | the dispatcher, its notifier and its clock (`notify.rs`) | `Alerts`, instance of `AlertStream` |
| `Report` | records and what a report computes of them (`incidents.rs`), operators only | |
| `AuditTrail` | the life of processes around the dispatcher, the records they leave (`main.rs`, `incidents.rs`) | extends `Dispatch`, instance of `Report` |
| `LogFile` | the two files below the records, handles, rotation, reading back (`incidents.rs`) | instance of `Report` |
| `Check` | prober, `CheckState` and `assess_check` | |
| `Job` | receiver, `JobState` and `assess_job` | |
| `Tail` | how a log is followed (`passive.rs` `Tail`, `record_log`) | |
| `Passive` | pidfiles, the record of the last looks, the rules for processes, logs and outputs (`passive.rs`, `state.rs`, `evaluate.rs`), operators only | |
| `Watchdog` | a job from end to end: the world, the watcher or the receiver, the rules, the watch loop, the dispatcher | extends `Dispatch` and `Passive`, instance of `Job` |
| `Settings` | how a configuration is loaded, and what is said of it (`config.rs`, `describe` of `main.rs`), operators only | |
| `Learn` | the journal, what is derived from it, the report, and the start with what it prints (`learn.rs`, `state.rs`, `main.rs`) | extends `Settings` |
| `DispatchProofs` | theorems about the dispatcher, then about what a report claims | `AuditTrail`, which extends `Dispatch`, TLAPS |
| `CheckProofs`, `JobProofs`, `TailProofs`, `LogFileProofs`, `LearnProofs` | theorems | their module, TLAPS |
| `WatchdogProofs` | theorems about a job from end to end | `Watchdog`, `DispatchProofs`, instance of `JobProofs` |
| `SetLemmas` | what several proofs need of finite sets and folds | TLAPS |
| `MCDispatch`, `MCAuditTrail`, `MCLogFile`, `MCCheck`, `MCJob`, `MCTail`, `MCWatchdog`, `MCLearn` | instances for TLC | their module |

Definitions whose comment begins "The bug of ..." are not part of the model: each is
a plausible mistake that replaces its neighbour to show that a property notices it
(PROJECT.json, "mutants").

**Dispatch.** `Cycle(a)` is one call of `Dispatcher::dispatch` up to its first await:
`reconcile` (escalations, confirmations, recoveries and their order), `enqueue`, the
audit records, and the decision of `flush` to begin sending. `a` is anything
`evaluate` can return: any keys with any severity, but of a job whose heartbeat is
missing nothing else (`Assessments`). An awaited send ends by `SendOk`, `SendRejected`
or `SendFailed` after any time (`Tick`). `StepBack` sets the clock back, `Restart`
kills the process. Observers (`wrong`, `spell`, `told`, ...) record what happened in
true time, the clock plus all it was set back by, and influence nothing. The order in
which one cycle's messages are queued is that of a map's keys; the model allows any.

**AuditTrail** puts that dispatcher into processes that open the log, record
`started`, bind or fail to, cycle, are aborted, record `stopped` or do not, and die
anywhere. `file` holds the records in the order of appending. Dates are cut to whole
seconds, `Grain` units each. A process does not know it was held up (`stalled`): a
suspended machine and an awaited send look alike. The order of records *within* one
cycle is immaterial to a report, so one is chosen.

**LogFile** is about which lines survive. A line is a record and a size; `written` is
an observer. Every handle writes its line, then may rename, then reopen, as steps of
their own that can fail or be the last of a process. At shutdown a second handle
exists while the evaluator may still be writing. A report is a process of its own: it
reads the previous generation (`ReadFirst`), and whatever happens next, what it gets of
the log is in `Got`.

**Check.** A dependency, its ticker (ticks that were missed are delayed, not made up
for), at most one probe under way, observations as a map from dates to outcomes. A
check without `[check.degradation]` is judged by the down rule alone, which is
part of `Verdict`. Latencies are small numbers, and multiples of the baseline are taken as the code
does, over the nearest-rank percentile.

**Job.** A handler reads the clock (`Arrive`) and later gets the lock (`RecordBeat`),
in any order; beats that are refused change nothing and are left out. `samples` keeps
every counter sample ever recorded and `first` the index from which the code still
has them, so that what was forgotten can be compared with what is asked for. All
ratio rules of the model use one pair of counters with different windows and minima.
Ratios of totals are compared exactly, where the code divides floating-point numbers.

**Tail.** A look is two system calls: the stat (`StatMissing`, `StatRefused`,
`StatPresent`) and, if the file has grown, the open and the read (`Scan`,
`ScanFails`). Whoever writes, rotates, empties, removes or closes the file acts
between them. A line is written in two halves, so that a look can fall inside it, and
sizes and offsets count halves; of a line it matters whether it matches `error_regex`,
and on which halves that depends. The observer `lost` collects the lines that no look
can report for a reason the code accepts: more than `MAX_SCAN_BYTES` was written, a
line was cut by a look, follows one that is not UTF-8, was written over an emptied
file up to where it had ended, or could not be opened.

**Passive** holds what `look` and `read_pidfile` can find, how it is recorded, and
`assess_process`, `assess_log`, `assess_artifact` and `file_assessment` as functions
of the record and the date.

**Watchdog** has a job that is watched by its process, its log or its output, or one
that beats with counters. Its world changes at any moment (`ChangeProcesses`,
`ChangePidfile`, `ChangeFile`, `Stop`, `LogError`, `Write`, or a beat that arrives or
does not), a task looks every `Poll` (`Look`), the loop turns every tick (`Turn`), and
what the rules conclude goes through the whole of `Dispatch`. Either task may be late by
`Slack`. `told` is what the person believes. The notifier accepts what it is sent
(`Accept`): failing sends are the business of `Dispatch`.

**Settings.** A file is the tree its TOML parses to, a function from paths to values.
`Loads` is the pipeline of `Config::from_toml` in its order: `${VAR}` is expanded, the
environment overrides, the structs are deserialized, `resolve` accepts. `Over` lays one tree
over another; what learn prints is laid over the file (`Proposal`). Which keys are
read (`Required`, `Optional`) and which are not warned of (`Known`) are two lists in
the code, and two here; so are the rules there are (`Rules`) and those `describe`
names (`Announced`). Which texts are regular
expressions and which are blank are constants (`Patterns`, `Blanks`). The capacity of a
baseline, a floating-point quotient rounded down in the code, comes out one lower for some exact
multiples of the interval; the model divides exactly.

**Learn.** Beats are recorded into the journal by handlers that overtake each other
(`Beat`, `Record`), each of which waits for at most `Overlap`; `Report` ends the window,
and `Start` loads the configuration with what was printed for its job put into it.
Quantiles are the nearest rank, thresholds and steps those of the code, in milliseconds;
`Spell` is what is left of a duration after it was printed in two units and read back.

## 3. The runs

A unit of time is an evaluation cycle in the dispatcher's models, a few seconds
elsewhere; thresholds are small numbers that keep the order the configuration
enforces. Deadlock is checked in the runs up to `beats`: states in which the bounds
allow nothing else are left by the stuttering read of the evaluator or of a report.
`tail`, `watchdog`, `proposals` and `learned_ceiling` stop where their bounds on time,
lines or beats do, or once the program of the configuration has been started.

| run | question | bounds, and why they are enough |
|---|---|---|
| `safety` | damping, pairing, retry, overflow and clock steps of the dispatcher; does it implement `AlertStream`? | one job with the heartbeat rule and a rule it hides; window 2, queue of 2 and time to 5, so that a window, a relapse and a second window fit, and two keys overflow the queue; the clock is set back once |
| `liveness` | is what stays wrong told, and what was told cleared? | window 1, back-off 1 then 2, one restart; upsets end at 2 and time at 5, leaving more than a window and the longest back-off after them |
| `coverage` | what does a report claim was watched? | three processes in seven units with a marker every two, dates cut to three, so that a marker can look late before it is due: each dies, fails to bind or stops, at any moment; one step back of the clock |
| `incidents` | is the downtime of a report the time that was reported broken? | one rule in two processes, dates cut to two units, a watch loop that is held up once: a window, an incident and its end fit into the four units, and an incident may end in the other second, or with its process |
| `files` | what do rotation, faults and torn lines cost, also a report that is under way? | generations of 2, lines of 1 or 2, five lines: both generations are replaced once; two faults in any combination |
| `prober` | do observations mean what a verdict takes them to mean? | five intervals of 3 with a timeout of 2, three latencies, one late step; the retention is 15, so that the first of the observations can be forgotten at 17, the end |
| `beats` | are jobs judged by what really happened? | three beats of four kinds (work and data; both counters; the denominator alone; the numerator alone), windows of 2 and 4, margin of 1, all silence thresholds within the six units, one step back of the clock |
| `tail` | is an error line in a followed log ever missed, or reported again? | three lines of two halves and four kinds, a scan of three halves, so that it can begin inside a line; two upsets (rotation, truncation, removal, permission, restart) between any two steps |
| `watchdog` | does trouble reach the person in time, and its end, and nothing else? | looks every 2 with a window of 3, so that a moment without a file is one look and a window two; absent after 3, stale after 7, silent after 3 and 5, one ratio over 4; an outbox with room for each of the ten conditions, as one of 512 has; time to 14, which leaves room for the longest of these, the window and the recovery; two changes of the world up to 7, after which a change would not be owed to anybody before the end, and a file that begins there or missing; one beat in each tick, four in all |
| `proposals` | does what learn prints load and tolerate what it saw; is every key answered for? | five beats with gaps from a few steps of each magnitude of `step_for`, two handlers at a time; three intervals make a cadence and one of three times the median is an incident, where the code asks for twenty and ten; files with rules of every kind, each limit met and missed, names used twice and keys mistyped in every section |

The remaining two, `told_level` and `learned_ceiling`, expect a violation: see
section 5.

What the properties say, by the hazard they are for:

- *Damping in true time*: `HeldBeforeOpened`, `GoneBeforeCleared`, resting on
  `WindowsHonest`. A clock that is set back may lengthen a window, never shorten it.
- *One coherent story per incident*: `StoryCoherent` reads what was delivered and
  what is queued as one sequence. `KeepsPromise` says it abstractly: `Dispatch`
  implements `AlertStream`.
- *The audit trail tells the same story*: `TrailAgrees`.
- *Bounds*: `HistoryKept` from below; `Bounded` from above, with nothing excused: what each
  upset adds to twice `max_bytes` is counted, the bytes of the lines that go astray (`stray`)
  after a reopen that failed or while two handles write among it.
- *Coverage*: `WatchedCountsOnce`, `ClaimsAreVouched`, `VouchedIsClaimed`,
  `LiveIsClaimed`. Those that compare dates assume a clock that is not set back.
- *Downtime*: `DownWasReported`, `DownCountsOnce`. The former has to allow what a window
  may hide: a blip while it recovers, the rest of a second, and time nobody looked in
  because a send held up the loop.
- *Reading back*: `ReadsNewest`, `TearCostsOneMore`. A log that is rotated between the
  two files of a report costs it that generation and nothing else; none is read twice.
- *Checks*: `DownIsReal` (no blip, no first failure), `SilenceIsDown` (in bounded
  time and at every moment after it), `DownIsLeftByAnswer`, `PruningIsUnseen`,
  `AnsweringIsJudged`.
- *Jobs*: `LiveIsNotPaged` and `SilenceIsMissed` bound the error of the heartbeat
  rule from both sides in terms of true time; `BeatsHonest` is why; `SumsAreExact`,
  `RatioIsFair` and `NeverMeansNever` are about counters that were forgotten.
- *The tail*: `NothingMissed`, up to the reasons in `lost`; `OldNewsIsOld`.
- *From the world to the person*: `TroubleIsTold` and `RecoveryIsTold` bound the time
  by threshold, looks, ticks and window together; `TroubleIsReal` says what cannot
  wake anybody: one look at a rotation, a pidfile written in two steps, a job that was
  silent for less than its threshold and the window. `ClearedIsBetter` says when an
  incident of a job that beats may be closed.
- *Learn*: `ProposalsLoad` (the whole way: journal, derivation, spelling, `resolve`),
  `NoneIsTighter` (thresholds against what was observed, in whatever order it was
  recorded).
- *Configuration*: `EnvironmentWins`, `KeysAreAnswered` (the lists kept by hand agree),
  `KeysAreDistinct` (no two rules under one incident key).

**Fairness.** Only `liveness` assumes any. `FairSpec` has weak fairness on the
cycle (the watch loop's ticker, `main.rs` `watch`), on time, and on an awaited send
returning: the environment's part, since the Telegram client sets no timeout. After
`LastUpset` the notifier accepts and nothing is killed; nothing is assumed about
which messages fail before. `PersistentIsTold` ends with the person knowing (`told`), not
with an empty queue; it excuses a message that was given up on since the process
started, and no restart: what persists is found and told anew. `ToldIsCleared` excuses
both, since open incidents live in memory only.

## 4. The proofs

TLC shows a property on a small instance; the theorems hold for every configuration
the assumptions allow (any sets of subjects and conditions, windows, intervals,
thresholds, rules), and any bound on the model's counters. The bounds are constants of
the modules and are not used but to type the clock.

- `DispatchProofs`, the dispatcher. `Inv` adds `WindowsHonest` to the types: every
  pending entry belongs to an unbroken run of reports that began when the entry says, up
  to what the clock was set back by, and a recovery timer was started after the last report.
  Neither damping property is inductive without it. From it: `TypeCorrect`,
  `EntriesHonest`, `HeldTheorem`, `GoneTheorem`. `TrailTheorem` has its own
  induction. `PromiseTheorem` is the refinement: every step of `Dispatch` is a step of
  `AlertStream` or leaves it unchanged. `StoryTheorem` is about what one person reads:
  it needs that nobody is ever told less than what an open incident has come to
  (`ToldNoWorse`), and follows, key by key, the last message about it that is
  delivered or queued.
- `DispatchProofs`, the audit trail. First `Report` by itself, for any log: the spans
  `Coverage` finds are the runs of the log in their order, each up to its `stopped` or its last record
  (`Covers`), and `Dated` is a stable sort. Spans of a sorted log do not overlap, so that
  `WatchedCountsOnceAlways` needs nothing of the system. The others compare what a
  report makes of the *sorted* log with what happened, which is the log *as it was
  appended*; a beginning is dated in the past and lands among the records of earlier
  runs. `RInv` says what the processes leave behind: `started` and `stopped` are appended
  in the order of their dates (`InOrder`), so that sorting keeps the runs and which records
  end them (`SameRuns`); the run under way is the last of the log (`LastRunIs`), what was
  vouched for is what the records of some run span (`VouchedAre`), the marker's date is
  that of a record (`MemoryIs`), and no record of a run is dated before the first
  (`Dates`). From these: `VouchedIsClaimedAlways`, `ClaimsAreVouchedAlways` and
  `LiveIsClaimedAlways`. For downtime `DInv` adds what one process knows (`Accounted`):
  the entries of the dispatcher were reported wrong from their date until now
  (`EntriesWrong`), which needs that a recovery timer hides no more than a window
  (`TimerIs`) and that the loop missed no more cycles than it was held up for
  (`LastCycleIs`); every `opened` of the log is open or resolved later in it
  (`OpenedAre`), every `resolved` ends an incident that was reported wrong all the time
  (`ResolvedAre`), and those of one key follow each other (`InTurn`).
  `DownWasReportedAlways` and `DownCountsOnceAlways` then read an incident of the sorted
  log back to its records.
- `CheckProofs`. `IInv` is `ObservationsHonest`: what is kept is the newest part of
  what was recorded, probes do not overlap, and a prober that is not held up leaves no
  gap longer than an interval and a timeout, counting from a probe imagined before
  the start. `SilenceIsDownAlways` needs the last part: two failures have to lie on
  both sides of `now - DownAfter`. `PruningIsUnseenAlways` needs the first, and that
  the retention covers every window by two intervals. `AnsweringIsJudgedAlways` counts:
  `Paced` says that probes which come on time end in intervals of their own, so that a
  baseline window holds as many answers as intervals, less one, and `min_samples` fit.
- `JobProofs`. `IInv` is `BeatsHonest`: the date of the last beat lies between when it
  arrived in true time and that minus what the clock was set back by, for beats
  under way as well as recorded ones, and every forgotten sample is older than the
  retention of a recorded one. From it `LiveIsNotPagedAlways`,
  `SilenceIsMissedAlways` and `SumsAreExactAlways` follow by arithmetic;
  `NeverMeansNeverAlways` because what was seen outlives the samples that are forgotten
  (`SeenIsTrue`). `RatioIsFairAlways` compares two sums: a ratio that every beat of a
  window meets, the window meets, and one that no beat meets, it does not.
- `TailProofs`. `IInv`: the offset is a position in the file that is there unless
  somebody emptied or replaced it since the last stat, a file holds each half once and
  in order, and lines that were whole at the last stat are behind the position the next
  read starts from. `OldNewsTheorem` and `RotationsTheorem` (no rotation is counted
  that did not happen) follow, for any bound on a scan. `NothingMissedTheorem` needs
  `Followed`: an error line behind the position is answered or in `lost`, and one between
  it and where a scan under way will end is in `lost` or will be read by that scan.
- `LogFileProofs`. `Files` numbers the files as they were created, so that a handle
  which lost its file is told from one that has it. On it rest `Sized` (each of the two
  files has room for what it holds, and for what the process under way may yet add, in what
  the limits and the upsets so far allow: the upsets are charged once, whichever
  file they fell on, and `stray` pays for every line written elsewhere or in an
  overlap) for `BoundedAlways`, which has no antecedent, `Kept`
  and `Counted` (the files of the disk, end to end, are what was written, and all but the
  last two were full) for `ReadsNewestAlways` and `HistoryKeptAlways`, which have to
  follow a report through rotations that happen while it reads (`Reading`), and `Apart`
  (no record is in two files) for `TearCostsOneMoreAlways`. The last one holds under
  overlapping handles and failing renames too.
- `WatchdogProofs`. The composition first: every step of `Watchdog` is a step of the
  dispatcher and of the job, or leaves them alone (`WatchdogDispatches`,
  `WatchdogHearsTheJob`), because the rules find only what `Assessments` allows. So what
  is proved in `DispatchProofs` and `JobProofs` holds here, and `Parts` collects it. Then
  time, which neither part knows of: `RegularTheorem` is the invariant for everything
  after it. The loop turns within a tick and `Slack`, with an outbox of one turn
  (`Punctual`); a window that is over is closed in the next turn and told in the same
  (`Young`, `Fresh`); and what is known of a process or a file is what it was at the last
  looks, `Blind` ago at most (`KnowsProcess`, `KnowsFile`, `Dated`). Each of the
  properties then adds the one thing that connects world, verdict and window:
  - `TroubleToldTheorem`: from a moment that can be computed for each rule (`Visible`)
    every turn reports what is wrong (`Reporting`), and `Fresh` gives the rest of the
    way. For a silence also that it is announced as what it has become (`SilenceJudged`,
    `SilenceTold`), which other conditions are not promised: see `told_level` in section 5.
  - `RecoveryToldTheorem`: once all is well no turn reports anything, so that every
    incident begins to end within a turn or has ended (`Recovering`).
  - `TroubleRealTheorem`: what is reported has grounds that go back to the beginning of
    its window, or the next turn will not report it (`Founded`). The second half
    is what a moment does: a look finds the file again, and nobody has turned yet.
  - `ClearedBetterTheorem`: the sample of the last beat outlives what is forgotten
    for it (`BeatIsKept` in `JobProofs`), so that a ratio whose window covers
    `alive.warn_after` is judged whenever an incident of it could be closed (`Counted`).

  Three hypotheses are needed. The program meets the first and the last, and any
  configuration in minutes the second. `Roomy`: the outbox has room for each condition
  of a job (`MAX_OUTBOX` is 512); otherwise the end of an incident can be dropped for
  lack of room. `Attentive`: a turn is not later than `alive.warn_after` (`TICK` is 5
  s). `config.rs` does not enforce it: with a shorter `warn_after` a beat and a second
  silence fit between two turns, which take the two silences for one. `Frequent`: the
  loop turns more often than the watcher looks (5 s against `POLL`, 15 s); otherwise a
  file can be found and missed again between two turns, and two short absences are taken
  for a long one.
- `SetLemmas`. The folds of the community modules are given by a CHOOSE over functions;
  here they are shown to exist, to be what their equation says, and to grow by one
  element at a time. With it sums over samples, the size of a log and the ranks of a sort
  are within reach of a proof without induction over data: a least counterexample
  takes its place.
- `LearnProofs`. First the arithmetic below `ProposalsLoad`, for every
  pace: rounding covers what it rounds (`RoundUpCovers`); a multiple of a step is spelled
  exactly, because steps of less than a minute are used below an hour only
  (`MultiplesAreExact`); so the thresholds are accepted, tolerate the worst that was
  seen, and are read back from the block that is printed, wherever it is put. Then what
  runs. The invariant is small, `ConfigIsRead`: `config` is empty, or it is `Effective`
  of `Proposal` and the environment, and stillwatch runs only what `Loads` let through.
  The work is in what `Effective` does to a tree: overriding writes the paths it is to
  write and the tables above them and nothing else (`SetPathIs`, `OverrideHolds`), and
  the result is a tree again, so that with a key the sections it is in are there. From
  that `EnvironmentWinsAlways`; `KeysAreAnsweredAlways`, by comparing the two lists that
  the code keeps by hand, section by section, over any names of jobs, checks and
  ratios; and `KeysAreDistinctAlways`, because whatever two rules would share, a subject
  or a kind of condition, `resolve` has claimed twice. Last, the two together.
  `NoneIsTighterAlways` rests on `JournalIsKept`: no date is recorded longer than
  `Overlap` after a later one. So a silence is either crossed by a gap between two
  neighbours of the journal, which the worst ordinary gap or an incident covers
  (`Crossing`, `Tolerance`), or it is no longer than `Overlap`, which the theorem takes to be
  less than a second, the least a threshold can be; the code awaits nothing under the
  lock that the handlers wait for. It holds for windows of any length, any number of
  intervals and any multiple. `ProposalsLoadAlways` shows that laying a block over a file
  commutes with what the environment does to it (`EffectiveOver`), and that of all that
  `deserialize` and `resolve` look at, the block changes nothing but itself
  (`DeserializesOver`, `ResolvesOver`), and is accepted. Its hypothesis
  `BeatsAreExpected` (no beats come from a passive job) is needed: see section 5. The
  instance that TLC checks satisfies both hypotheses. Two ASSUMEs belong to the component:
  `KeyAssumption` (keys are strings and not numbers of array elements, which the prover
  cannot know of string literals) and `ScenarioAssumption` (a file is a tree with a job
  in it; gaps, details and latencies are of their types).

The assumptions are those named in the modules: what `resolve` in `config.rs` lets
through (`CheckValid`, `DegradationValid`, `JobValid`, `AliveValid`, `SilenceValid`,
`RatioValid`), what the receiver lets through (`IsDetail`), that the conditions a job can be in are
different from each other (`ConditionsAssumption`: they are variants of one type, and
those of the ratios carry the name of their rule), and that bounds are numbers. TLC
evaluates each of them. The hypotheses some theorems have beyond these are named above,
with the constants of the code that meet them; the instance of each run meets them too.

Every invariant and every action property that a run finds to hold is the subject of a
theorem. Only model-checked: the liveness properties `PersistentIsTold` and
`ToldIsCleared`, which speak of fairness and so of ENABLED; and the two properties that
are refuted (section 5), which hold for no configuration of interest.

## 5. Where code and documents disagree

Refuted by a run (PROJECT.json, "findings"):

- `told_level`: a condition that is critical, then a warning, within its window opens
  as critical, is announced as a warning, and can never escalate (`notify.rs:1095`).
- `learned_ceiling`: learn derives the ceiling of a check in steps of 50 ms and prints
  it in whole seconds. A check that answers within 48 ms gets `absolute_ceiling = "0s"`,
  which is refused at the start (`learn.rs:574`, against `learn.rs:607`).

Seen while modelling and not the subject of a run:

- A recovery timer goes on running while a heartbeat is missing: the incident is not
  cleared in that time, but may be in the first cycle that judges the job again
  (`notify.rs:1106`; README, "Damped"). `GoneBeforeCleared` states what does hold.
- The retry date is computed from the cycle's `now`, read before the send was
  awaited: a send that takes longer to fail than the back-off is retried by the next
  cycle (`notify.rs:1201`).
- A condition that stops being judged stops being reported, and is cleared as
  recovered (`notify.rs:1103`): a ratio below `min_sample`, or a job that dies with a
  bad ratio whose window is shorter than `alive.warn_after`; the comment at
  `notify.rs:1024` calls the latter "exactly the confidently-wrong message".
  `ClearedIsBetter` states where the line runs: with the window at least as long as
  `alive.warn_after`, and one beat enough of a sample, it does not happen. With
  `AliveWarn = 7` and no such condition, TLC has a job that died at 1 and whose ratio is
  announced as recovered at 7.
- A run is claimed as watched from start to end whatever the gaps between its markers
  (`incidents.rs:457`, against `incidents.rs:11`).
- An incident open when its process ends is downtime to the end of every later report
  (`incidents.rs:570`).
- A run whose `started` was rotated out is not claimed although its markers are there
  (`incidents.rs:447`).
- With a baseline and no answer in the recent window a check is `ok`
  (`evaluate.rs:1045`); this takes a `down_after` longer than the recent window, or a
  machine that just woke up.
- A marker that could not be written is not tried again until the next one is due
  (`notify.rs:989`).
- A slowdown that lasts becomes the baseline and clears its own incident
  (`evaluate.rs:1128`; README:288 says it is invisible below the ceiling).
- Two rules of one subject that are broken together count its downtime twice
  (`incidents.rs:625`, against `incidents.rs:376`). `DownCountsOnce` states
  it for a subject of which one rule broke.
- Dates are whole seconds and `now` is exact: a marker can look late for less than a
  second before it is due, and nothing after the last one is claimed meanwhile
  (`incidents.rs:472`); `LiveIsClaimed` says how far that goes.
- A clock that is set back can put a resolution before its opening, and the incident
  counts as open (`incidents.rs:362`).
- A torn line takes the next record with it (`incidents.rs:172`); that is the bound
  `TearCostsOneMore` states.
- A reopen that fails leaves a handle writing to the renamed file, with the size
  it had (`incidents.rs:220`): that file grows with every line of the process. `Bounded`
  counts those bytes as `stray`.
- The aborted evaluator is not waited for, and both handles may rotate: a generation
  is lost (`main.rs:263`). `ReadsNewest` and `HistoryKept` leave an `overlap` out; `Bounded`
  and `TearCostsOneMore` hold in it.
- `min_samples` equal to the capacity of the baseline is accepted, and late responses
  then take the last sample away from time to time (`config.rs:1094`);
  `AnsweringIsJudged` asks for one sample less.
- `down_after` equal to the interval is accepted, and the check flickers
  (`config.rs:1021`); the default is two intervals, and the properties ask for that.
- `last_data_ts` is that of the beat recorded last, not of the newest (`state.rs:244`).
- A log that is there but cannot be opened reads as present, and its position moves on:
  what was written meanwhile is never read (`passive.rs:240`). A file whose filesystem
  keeps no date is never judged, and nothing says so (`evaluate.rs:664`, whose comment
  calls reporting it as fresh "the comfortable lie").
- An error in a log hides that the log is stale or missing for as long as it is recent
  (`evaluate.rs:549`).
- The findings on a process carry no date: a watcher that hangs leaves the last one
  standing.
- `config.rs:145` gives as the reason for distinct names that two subjects "would
  silently suppress each other's alerts". Two jobs or two ratios of one name would; a
  job and a check would not, as their conditions differ. All are refused
  (`KeysAreDistinct`).
- What is no process id in a pidfile is "not a dead job" and "reporting an outage would
  send you to the wrong machine" (README:348), but after `absent_after` it is the critical
  alert of an absent process, with the pidfile as its detail (`evaluate.rs:505`).
- learn takes the age of data from outages too (`learn.rs:453`, against the header of
  that file), may suggest a ratio floor above 1 when a numerator exceeds its
  denominator, and prints `[job.alive]` for a job that is passive, where it is refused.
- A job without a rule of any kind is announced as without a heartbeat, not as watched
  for nothing (`main.rs:441`).

## 6. What is not modelled

- Message wording, the layout of alerts, of the report and of what learn prints as
  comments; the longest incident of a report; log lines, among them the once-per-change
  lines about rules that are not judged and about the health of checks
  (`report_unjudged`, `report_check_health`). They decide nothing.
- HTTP, JSON and TOML as syntax; the command line; how Telegram's answers are told
  apart; regular expressions. An outcome of each is chosen freely.
- Whether a process id was given to another process: any process with that id will do,
  as in the code.
- The lock: every operation under it is one action, since none awaits while
  holding it.

## 7. Plan

Done, in this order: `Alerts`, `AlertStream`, `Dispatch` with proofs; `Report`,
`AuditTrail`; `LogFile` with proofs; `Check` with proofs; `Job` with proofs; `Tail` with
proofs; `Passive` and `Watchdog`, which composes them and `Job` with the dispatcher;
`Settings`, and `Learn` with proofs; proofs about `AuditTrail`; proofs about `Watchdog`.
Each was checked before anything was proved about it.

Next, if the program grows:

1. Several jobs in `Watchdog`. Its parts are proved for any set of subjects; the
   composition has one, since jobs share nothing but the outbox and the turn.
2. Sends that fail in `Watchdog`: bounds on the way to the person would then have the
   back-off in them, and what `dropped` excuses.
3. Restarts in `Watchdog`: what a process forgot is wrong anew, and what it had announced
   is never cleared.
4. The hazards without a property (PROJECT.json, "hazards") are places where the code
   does what its documents say it does not; a property for each belongs to its repair.
