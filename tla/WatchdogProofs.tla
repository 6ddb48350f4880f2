--------------------------- MODULE WatchdogProofs ---------------------------
(***************************************************************************)
(* Theorems about a job from end to end (Watchdog), for every period,      *)
(* delay and window: the composition is the dispatcher and the job, and    *)
(* its four properties hold. What is proved of the two alone               *)
(* (DispatchProofs, JobProofs) is used throughout.                         *)
(***************************************************************************)
EXTENDS Watchdog, DispatchProofs

\* The job, if it beats, with what is proved of it (JobProofs).
Proved == INSTANCE JobProofs WITH
            clock <- now, Rules <- {{"alive", "ratio"}}, WorkedWarn <- 1,
            WorkedCritical <- Never, FreshWarn <- 1, FreshCritical <- Never

-----------------------------------------------------------------------------
(* The job as the composition sees it *)

\* What Job assumes of its constants holds of those it is given here.
LEMMA JobFits ==
  /\ Proved!AliveValid
  /\ Proved!SilenceValid(1, Never)
  /\ Proved!JobValid
  /\ MarginDiv \in Nat \ {0}
  /\ \A d \in Detail : Proved!IsDetail(d)
  /\ MaxTime \in Nat /\ MaxBeats \in Nat /\ MaxSetBack \in Nat
<1>1. Proved!AliveValid
  BY BeatsAssumption DEF Beats!AliveValid, Proved!AliveValid
<1>2. Proved!SilenceValid(1, Never)
  BY DEF Proved!SilenceValid, Never, Proved!None
<1>3. Proved!JobValid
  BY BeatsAssumption DEF Beats!JobValid, Proved!JobValid, Beats!RatioValid, Proved!RatioValid,
     IsFiniteSet, Beats!IsFiniteSet, Proved!IsFiniteSet
<1>4. \A d \in Detail : Proved!IsDetail(d)
  BY BeatsAssumption DEF Beats!IsDetail, Proved!IsDetail, Beats!None, Proved!None
<1> QED
  BY <1>1, <1>2, <1>3, <1>4, BeatsAssumption, BoundsAssumption

\* The two instances of Job are one.
LEMMA SameJob ==
  /\ Beats!Init <=> Proved!Init
  /\ Beats!Arrive <=> Proved!Arrive
  /\ Beats!RecordBeat <=> Proved!RecordBeat
  /\ Beats!vars = Proved!vars
<1>1. Beats!Init <=> Proved!Init
  BY DEF Beats!Init, Proved!Init, Beats!None, Proved!None
<1>2. Beats!Arrive <=> Proved!Arrive
  BY DEF Beats!Arrive, Proved!Arrive, Beats!TrueTime, Proved!TrueTime
<1>3. Beats!RecordBeat <=> Proved!RecordBeat
  BY DEF Beats!RecordBeat, Proved!RecordBeat, Beats!Forward, Proved!Forward, Beats!RecordSample,
     Proved!RecordSample, Beats!None, Proved!None, Beats!Retention, Proved!Retention,
     Beats!Margin, Proved!Margin, Beats!Longest, Proved!Longest, Beats!Min, Proved!Min,
     Beats!Max, Proved!Max, Beats!RemoveAt, Proved!RemoveAt
<1>4. Beats!vars = Proved!vars
  BY DEF Beats!vars, Proved!vars
<1> QED
  BY <1>1, <1>2, <1>3, <1>4

LEMMA SameFindings ==
  ASSUME NEW e
  PROVE  /\ Beats!Assess(e) = Proved!Assess(e)
         /\ \A r : Beats!IsJudged(r, e) <=> Proved!IsJudged(r, e)
         /\ \A r : Beats!IsBelow(r, e) <=> Proved!IsBelow(r, e)
<1>1. ASSUME NEW r, NEW from
      PROVE  Beats!Counting(from, r, e) = Proved!Counting(from, r, e)
  BY DEF Beats!Counting, Proved!Counting, Beats!Window, Proved!Window, Beats!None, Proved!None
<1>2. ASSUME NEW T
      PROVE  Beats!FetchedIn(T) = Proved!FetchedIn(T)
  BY DEF Beats!FetchedIn, Proved!FetchedIn, Beats!MapThenSumSet, Proved!MapThenSumSet,
     Beats!MapThenFoldSet, Proved!MapThenFoldSet, Beats!Fetched, Proved!Fetched,
     Beats!None, Proved!None
<1>3. ASSUME NEW T
      PROVE  Beats!ParsedIn(T) = Proved!ParsedIn(T)
  BY DEF Beats!ParsedIn, Proved!ParsedIn, Beats!MapThenSumSet, Proved!MapThenSumSet,
     Beats!MapThenFoldSet, Proved!MapThenFoldSet, Beats!Parsed, Proved!Parsed,
     Beats!None, Proved!None
<1>4. \A r : Beats!IsJudged(r, e) <=> Proved!IsJudged(r, e)
  BY <1>1, <1>2 DEF Beats!IsJudged, Proved!IsJudged, Beats!EverSeen, Proved!EverSeen
<1>5. \A r : Beats!IsBelow(r, e) <=> Proved!IsBelow(r, e)
  BY <1>1, <1>2, <1>3 DEF Beats!IsBelow, Proved!IsBelow
<1>6. Beats!Assess(e) = Proved!Assess(e)
  <2>1. Beats!AliveFindings(e) = Proved!AliveFindings(e)
    BY DEF Beats!AliveFindings, Proved!AliveFindings, Beats!Overdue, Proved!Overdue,
       Beats!Finding, Proved!Finding, Beats!Warn, Proved!Warn, Beats!Critical,
       Proved!Critical, Beats!SilentFor, Proved!SilentFor, Beats!None, Proved!None
  <2>2. Beats!WorkedFindings(e) = Proved!WorkedFindings(e)
    BY DEF Beats!WorkedFindings, Proved!WorkedFindings, Beats!Overdue, Proved!Overdue,
       Beats!Finding, Proved!Finding, Beats!Warn, Proved!Warn, Beats!Critical,
       Proved!Critical, Beats!SilentFor, Proved!SilentFor, Beats!None, Proved!None
  <2>3. Beats!FreshnessFindings(e) = Proved!FreshnessFindings(e)
    BY DEF Beats!FreshnessFindings, Proved!FreshnessFindings, Beats!Overdue, Proved!Overdue,
       Beats!Finding, Proved!Finding, Beats!Warn, Proved!Warn, Beats!Critical,
       Proved!Critical, Beats!SilentFor, Proved!SilentFor, Beats!None, Proved!None
  <2>4. \A r : Beats!RatioFindings(r, e) = Proved!RatioFindings(r, e)
    BY <1>4, <1>5 DEF Beats!RatioFindings, Proved!RatioFindings, Beats!EverSeen,
       Proved!EverSeen, Beats!Finding, Proved!Finding, Beats!Warn, Proved!Warn
  <2> QED
    BY <2>1, <2>2, <2>3, <2>4 DEF Beats!Assess, Proved!Assess
<1> QED
  BY <1>4, <1>5, <1>6

\* The rules of a job that beats in Watchdog.
BeatRules == rules = {"alive", "ratio"}

\* The finding of a silence.
Silence(severity) == Proved!Finding("NoHeartbeat", "", severity)

LEMMA FindingFields ==
  \A what, rule, severity :
     /\ Proved!Finding(what, rule, severity).what = what
     /\ Proved!Finding(what, rule, severity).rule = rule
     /\ Proved!Finding(what, rule, severity).severity = severity
  BY DEF Proved!Finding

\* Which findings there can be about a job that beats: that it is silent, and nothing
\* else, or what is to be said of its ratios.
LEMMA WhatIsFound ==
  ASSUME BeatRules, NEW e
  PROVE  \/ \E severity \in Severity :
               Proved!Assess(e) = {Silence(severity)} /\ Proved!AliveFindings(e) # {}
         \/ /\ Proved!AliveFindings(e) = {}
            /\ \A f \in Proved!Assess(e) :
                  /\ f.what \in {"Ratio", "RatioUnreported"}
                  /\ f.severity = Warn
                  /\ \E r \in Ratios : f.rule = r.name
<1>1. \/ Proved!AliveFindings(e) = {}
      \/ \E severity \in Severity : Proved!AliveFindings(e) = {Silence(severity)}
  BY DEF Proved!AliveFindings, Proved!Overdue, Severity, Warn, Critical, Proved!Warn,
         Proved!Critical, Silence
<1>2. CASE Proved!AliveFindings(e) # {}
  <2>1. Proved!Assess(e) = Proved!AliveFindings(e)
    BY <1>2, Zenon DEF Proved!Assess
  <2> QED
    BY <1>1, <1>2, <2>1
<1>3. CASE Proved!AliveFindings(e) = {}
  <2>1. Proved!WorkedFindings(e) = {} /\ Proved!FreshnessFindings(e) = {}
    BY DEF BeatRules, Proved!WorkedFindings, Proved!FreshnessFindings
  <2>2. Proved!Assess(e) = UNION {Proved!RatioFindings(r, e) : r \in Ratios}
    <3>1. Proved!Assess(e) = Proved!WorkedFindings(e) \cup Proved!FreshnessFindings(e)
                                \cup UNION {Proved!RatioFindings(r, e) : r \in Ratios}
      BY <1>3, Zenon DEF Proved!Assess
    <3> QED
      BY <2>1, <3>1
  <2>3. ASSUME NEW f \in Proved!Assess(e)
        PROVE  /\ f.what \in {"Ratio", "RatioUnreported"}
               /\ f.severity = Warn
               /\ \E r \in Ratios : f.rule = r.name
    <3>1. PICK r \in Ratios : f \in Proved!RatioFindings(r, e)
      BY <2>2, <2>3, Zenon
    <3>2. f = Proved!Finding("RatioUnreported", r.name, Proved!Warn)
            \/ f = Proved!Finding("Ratio", r.name, Proved!Warn)
      BY <3>1 DEF Proved!RatioFindings
    <3> QED
      BY <3>2, FindingFields DEF Warn, Proved!Warn
  <2> QED
    BY <1>3, <2>3
<1> QED
  BY <1>2, <1>3

LEMMA EachFinding ==
  ASSUME BeatRules, NEW e, NEW f \in Proved!Assess(e)
  PROVE  /\ f.severity \in Severity
         /\ \/ f.what = "NoHeartbeat"
            \/ f.what \in {"Ratio", "RatioUnreported"} /\ \E r \in Ratios : f.rule = r.name
<1>1. CASE \E severity \in Severity : Proved!Assess(e) = {Silence(severity)}
  <2>1. PICK severity \in Severity : Proved!Assess(e) = {Silence(severity)}
    BY <1>1
  <2>2. f.what = "NoHeartbeat" /\ f.severity = severity
    <3>1. f = Silence(severity)
      BY <2>1
    <3>2. Silence(severity).what = "NoHeartbeat" /\ Silence(severity).severity = severity
      BY DEF Silence, Proved!Finding
    <3> QED
      BY <3>1, <3>2
  <2> QED
    BY <2>1, <2>2
<1>2. CASE \A g \in Proved!Assess(e) : /\ g.what \in {"Ratio", "RatioUnreported"}
                                       /\ g.severity = Warn
                                       /\ \E r \in Ratios : g.rule = r.name
  BY <1>2 DEF Severity
<1> QED
  BY <1>1, <1>2, WhatIsFound

LEMMA SilenceNamed ==
  ASSUME NEW severity
  PROVE  ConditionOf(Silence(severity)) = NoHeartbeat
<1>1. Silence(severity).what = "NoHeartbeat"
  BY FindingFields DEF Silence
<1> QED
  BY <1>1 DEF ConditionOf

-----------------------------------------------------------------------------
(* What is reported, and that the dispatcher expects it *)

\* How the job is watched never changes.
AsConfigured == watched \in {"process", "log", "artifact", "beats"} /\ BeatRules

LEMMA TheJobIs == TheJob \in Subject
  BY WatchdogAssumption DEF TheJob

\* The names of what can be reported, by how the job is watched.
LEMMA ConditionsNamed ==
  ASSUME AsConfigured, NEW t
  PROVE  /\ watched = "process" => Conditions(t) \subseteq {"process-absent"}
         /\ watched = "log" => Conditions(t) \subseteq {"logged-error", "log-missing", "log-stale"}
         /\ watched = "artifact" =>
                Conditions(t) \subseteq {"output-too-small", "output-missing", "output-stale"}
         /\ watched = "beats" =>
                Conditions(t) \subseteq {NoHeartbeat} \cup LowCondition \cup UnreportedCondition
<1>1. watched = "process" => Conditions(t) \subseteq {"process-absent"}
  BY DEF Conditions
<1>2. watched = "log" => Conditions(t) \subseteq {"logged-error", "log-missing", "log-stale"}
  BY DEF Conditions, LogConditions
<1>3. watched = "artifact" =>
         Conditions(t) \subseteq {"output-too-small", "output-missing", "output-stale"}
  BY DEF Conditions, ArtifactConditions
<1>4. ASSUME watched = "beats"
      PROVE  Conditions(t) \subseteq {NoHeartbeat} \cup LowCondition \cup UnreportedCondition
  <2>1. Conditions(t) = {ConditionOf(f) : f \in Proved!Assess(t)}
    BY <1>4, SameFindings DEF Conditions
  <2>2. ASSUME NEW f \in Proved!Assess(t)
        PROVE  ConditionOf(f) \in {NoHeartbeat} \cup LowCondition \cup UnreportedCondition
    <3>1. CASE f.what = "NoHeartbeat"
      BY <3>1 DEF ConditionOf
    <3>2. CASE f.what # "NoHeartbeat"
      <4>1. /\ f.what \in {"Ratio", "RatioUnreported"}
            /\ \E r \in Ratios : f.rule = r.name
        BY <3>2, EachFinding DEF AsConfigured
      <4>2. (CHOOSE r \in Ratios : r.name = f.rule) \in Ratios
        BY <4>1
      <4> QED
        BY <4>1, <4>2 DEF ConditionOf, LowCondition, UnreportedCondition
    <3> QED
      BY <3>1, <3>2
  <2> QED
    BY <2>1, <2>2
<1> QED
  BY <1>1, <1>2, <1>3, <1>4

LEMMA ConditionsTyped ==
  ASSUME AsConfigured, NEW t
  PROVE  /\ Conditions(t) \subseteq Condition
         /\ watched # "beats" => NoHeartbeat \notin Conditions(t)
  BY ConditionsNamed, ConditionsAssumption, NamesAssumption
     DEF AsConfigured, PassiveCondition

\* A job that is found silent is found nothing else.
LEMMA SilentAlone ==
  ASSUME AsConfigured, NEW t, NoHeartbeat \in Conditions(t)
  PROVE  /\ watched = "beats"
         /\ Conditions(t) = {NoHeartbeat}
         /\ \E severity \in Severity : Proved!AliveFindings(t) = {Silence(severity)}
<1>1. watched = "beats"
  BY ConditionsTyped
<1>2. Conditions(t) = {ConditionOf(f) : f \in Proved!Assess(t)}
  BY <1>1, SameFindings DEF Conditions
<1>3. CASE \E severity \in Severity :
              Proved!Assess(t) = {Silence(severity)} /\ Proved!AliveFindings(t) # {}
  <2>1. PICK severity \in Severity :
              Proved!Assess(t) = {Silence(severity)} /\ Proved!AliveFindings(t) # {}
    BY <1>3
  <2>2. ConditionOf(Silence(severity)) = NoHeartbeat
    BY SilenceNamed
  <2>3. Proved!Assess(t) = Proved!AliveFindings(t)
    BY <2>1, Zenon DEF Proved!Assess
  <2> QED
    BY <1>1, <1>2, <2>1, <2>2, <2>3
<1>4. CASE \A f \in Proved!Assess(t) : /\ f.what \in {"Ratio", "RatioUnreported"}
                                       /\ \E r \in Ratios : f.rule = r.name
  <2>1. PICK f \in Proved!Assess(t) : NoHeartbeat = ConditionOf(f)
    BY <1>2
  <2>2. /\ f.what \in {"Ratio", "RatioUnreported"}
        /\ \E r \in Ratios : f.rule = r.name
    BY <1>4
  <2>3. (CHOOSE r \in Ratios : r.name = f.rule) \in Ratios
    BY <2>2
  <2>4. ConditionOf(f) \in LowCondition \cup UnreportedCondition
    BY <2>2, <2>3 DEF ConditionOf, LowCondition, UnreportedCondition
  <2> QED
    BY <2>1, <2>4, ConditionsAssumption
<1> QED
  BY <1>3, <1>4, WhatIsFound DEF AsConfigured

LEMMA VerdictsTyped ==
  ASSUME AsConfigured, NEW t
  PROVE  /\ DOMAIN Verdicts(t) = {TheJob} \X Conditions(t)
         /\ Verdicts(t) \in Assessments
<1>1. DOMAIN Verdicts(t) = {TheJob} \X Conditions(t)
  BY DEF Verdicts
<1>2. {TheJob} \X Conditions(t) \subseteq Key
  BY ConditionsTyped, TheJobIs DEF Key
<1>3. ASSUME NEW k \in {TheJob} \X Conditions(t)
      PROVE  Verdicts(t)[k] \in Severity
  <2>1. CASE watched = "beats"
    <3>1. \E f \in Beats!Assess(t) : ConditionOf(f) = k[2]
      BY <2>1 DEF Conditions
    <3>2. PICK f \in Beats!Assess(t) : f = CHOOSE g \in Beats!Assess(t) : ConditionOf(g) = k[2]
      BY <3>1
    <3>3. f.severity \in Severity
      BY SameFindings, EachFinding DEF AsConfigured
    <3> QED
      BY <2>1, <3>2, <3>3 DEF Verdicts
  <2>2. CASE watched # "beats"
    BY <2>2 DEF Verdicts, Severity
  <2> QED
    BY <2>1, <2>2
<1>4. Verdicts(t) \in PartialMap(Key, Severity)
  <2>1. Verdicts(t) \in [{TheJob} \X Conditions(t) -> Severity]
    BY <1>1, <1>3 DEF Verdicts
  <2> QED
    BY <1>2, <2>1, Zenon DEF PartialMap
<1>5. ASSUME NEW k \in DOMAIN Verdicts(t), k[1] \in Unjudgeable(Verdicts(t))
      PROVE  k[2] = NoHeartbeat
  <2>1. NoHeartbeat \in Conditions(t)
    BY <1>1, <1>5 DEF Unjudgeable
  <2> QED
    BY <1>1, <1>5, <2>1, SilentAlone
<1> QED
  BY <1>1, <1>4, <1>5 DEF Assessments

-----------------------------------------------------------------------------
(* The composition is the dispatcher, and the job *)

\* What goes on around the watch loop: the dispatcher keeps out of it.
Around ==
    \/ ChangeProcesses \/ ChangePidfile \/ ChangeFile \/ Stop \/ LogError \/ Write
    \/ Arrive \/ RecordBeat \/ Look

LEMMA AroundKeeps ==
  ASSUME Around
  PROVE  UNCHANGED <<vars, watched, started, rules>>
<1>1. CASE ChangeProcesses \/ ChangePidfile \/ ChangeFile \/ Stop \/ LogError \/ Write \/ Look
  BY <1>1 DEF ChangeProcesses, ChangePidfile, ChangeFile, Stop, LogError, Write, Look,
              watcher, beating
<1>2. CASE Arrive
  BY <1>2, SameJob DEF Arrive, outside, watcher, Proved!Arrive
<1>3. CASE RecordBeat
  BY <1>3, SameJob DEF RecordBeat, outside, watcher, Proved!RecordBeat
<1> QED
  BY <1>1, <1>2, <1>3 DEF Around

LEMMA StepKinds ==
  ASSUME [WatchdogNext]_wvars
  PROVE  Around \/ Turn \/ Accept \/ TimePasses \/ UNCHANGED wvars
  BY DEF WatchdogNext, Around

LEMMA InitConfigured == WatchdogInit => AsConfigured
  BY SameJob DEF WatchdogInit, AsConfigured, BeatRules, Proved!Init

LEMMA StaysConfigured ==
  ASSUME AsConfigured, [WatchdogNext]_wvars
  PROVE  AsConfigured'
<1>1. UNCHANGED <<watched, rules>>
  BY StepKinds, AroundKeeps DEF Turn, Accept, TimePasses, wvars, outside, beating
<1> QED
  BY <1>1 DEF AsConfigured, BeatRules

\* A step of the composition is one of the dispatcher, or none.
LEMMA StepDispatches ==
  ASSUME AsConfigured, [WatchdogNext]_wvars
  PROVE  [Next]_vars
<1>1. CASE Around
  BY <1>1, AroundKeeps
<1>2. CASE Turn
  BY <1>2, VerdictsTyped DEF Turn, Next
<1>3. CASE Accept \/ TimePasses
  BY <1>3 DEF Accept, TimePasses, Next
<1>4. CASE UNCHANGED wvars
  BY <1>4 DEF wvars
<1> QED
  BY <1>1, <1>2, <1>3, <1>4, StepKinds

\* And one of the job, or none.
LEMMA StepBeats ==
  ASSUME [WatchdogNext]_wvars
  PROVE  [Proved!Next]_(Proved!vars)
<1>1. CASE Arrive
  BY <1>1, SameJob DEF Arrive, Proved!Next
<1>2. CASE RecordBeat
  BY <1>2, SameJob DEF RecordBeat, Proved!Next
<1>3. CASE TimePasses
  BY <1>3 DEF TimePasses, Tick, observers, beating, Proved!Next, Proved!Pass
<1>4. CASE \/ ChangeProcesses \/ ChangePidfile \/ ChangeFile \/ Stop \/ LogError \/ Write
           \/ Look \/ Turn \/ Accept \/ UNCHANGED wvars
  <2>1. UNCHANGED <<now, setBack, beating>>
    BY <1>4 DEF ChangeProcesses, ChangePidfile, ChangeFile, Stop, LogError, Write, Look, Turn,
                Accept, Cycle, SendOk, wvars, vars, observers
  <2> QED
    BY <2>1 DEF Proved!vars, beating
<1> QED
  BY <1>1, <1>2, <1>3, <1>4 DEF WatchdogNext

\* What is known of the two parts for themselves.
Parts ==
    /\ AsConfigured
    /\ Inv /\ StoryCoherent /\ ToldNoWorse
    /\ Proved!IInv /\ Proved!SInv

LEMMA InitParts == WatchdogInit => Parts
<1> SUFFICES ASSUME WatchdogInit PROVE Parts
  OBVIOUS
<1>1. Init /\ Proved!Init
  BY SameJob DEF WatchdogInit
<1>2. Proved!IInv
  <2>1. Proved!TypeOK
    BY <1>1, Proved!InitTyped, JobFits DEF Proved!InitTyped
  <2>2. Proved!BeatsHonest
    BY <1>1, Proved!InitHonest, JobFits DEF Proved!InitHonest
  <2> QED
    BY <2>1, <2>2 DEF Proved!IInv
<1>3. Proved!SInv
  BY <1>1, Proved!InitSeen, JobFits DEF Proved!InitSeen
<1> QED
  BY <1>1, <1>2, <1>3, InitConfigured, InitInv, InitStory DEF Parts

LEMMA NextParts ==
  ASSUME Parts, [WatchdogNext]_wvars
  PROVE  Parts'
<1>1. AsConfigured' /\ [Next]_vars /\ [Proved!Next]_(Proved!vars)
  BY StaysConfigured, StepDispatches, StepBeats DEF Parts
<1>2. Inv' /\ StoryCoherent' /\ ToldNoWorse'
  BY <1>1, NextInv, NextStory DEF Parts
<1>3. Proved!IInv'
  BY <1>1, Proved!NextHonest, JobFits DEF Parts, Proved!NextHonest
<1>4. Proved!SInv'
  BY <1>1, Proved!NextSeen, JobFits DEF Parts, Proved!NextSeen
<1> QED
  BY <1>1, <1>2, <1>3, <1>4 DEF Parts

\* Every behaviour of the composition is one of the dispatcher, so that whatever is
\* proved of that holds here: what the rules report are assessments it expects.
THEOREM WatchdogDispatches == WatchdogSpec => Spec
<1>1. WatchdogInit => Init /\ AsConfigured
  BY InitConfigured DEF WatchdogInit
<1>2. AsConfigured /\ [WatchdogNext]_wvars => AsConfigured' /\ [Next]_vars
  BY StaysConfigured, StepDispatches
<1> QED
  BY <1>1, <1>2, PTL DEF WatchdogSpec, Spec

\* And every behaviour of it is one of the job, whose clock is that of the watch loop.
BeatsAsSpecified == Beats!Spec

THEOREM WatchdogHearsTheJob == WatchdogSpec => BeatsAsSpecified
<1>1. WatchdogInit => Beats!Init
  BY DEF WatchdogInit
<1>2. ASSUME [WatchdogNext]_wvars
      PROVE  [Beats!Next]_(Beats!vars)
  <2>1. CASE Arrive
    BY <2>1 DEF Arrive, Beats!Next
  <2>2. CASE RecordBeat
    BY <2>2 DEF RecordBeat, Beats!Next
  <2>3. CASE TimePasses
    BY <2>3 DEF TimePasses, Tick, observers, beating, Beats!Next, Beats!Pass
  <2>4. CASE \/ ChangeProcesses \/ ChangePidfile \/ ChangeFile \/ Stop \/ LogError \/ Write
             \/ Look \/ Turn \/ Accept \/ UNCHANGED wvars
    <3>1. UNCHANGED <<now, setBack, beating>>
      BY <2>4 DEF ChangeProcesses, ChangePidfile, ChangeFile, Stop, LogError, Write, Look,
                  Turn, Accept, Cycle, SendOk, wvars, vars, observers
    <3> QED
      BY <3>1 DEF Beats!vars, beating
  <2> QED
    BY <1>2, <2>1, <2>2, <2>3, <2>4 DEF WatchdogNext
<1> QED
  BY <1>1, <1>2, PTL DEF WatchdogSpec, BeatsAsSpecified, Beats!Spec

-----------------------------------------------------------------------------
(* The watch loop keeps its time, and its queue is short *)

\* The outbox has room for whatever can be wrong with a job: MAX_OUTBOX is 512.
Roomy == Cardinality(Condition) <= MaxOutbox

Punctual ==
    /\ setBack = 0 /\ restarts = 0 /\ retryAt = NoTime /\ dropped = 0 /\ started = 0
    /\ phase = "ticking" <=> outbox = <<>>
    /\ phase = "sending" => cycleAt = now
    /\ cycleAt <= now /\ now - cycleAt <= 1 + Slack
    /\ DOMAIN open \cup DOMAIN pending \cup DOMAIN wrong \subseteq {TheJob} \X Condition

\* What is to be sent ends the incidents that are over, and no other.
Agrees ==
    \A i \in 1..Len(outbox) : outbox[i].level = AllClear <=> outbox[i].key \notin DOMAIN open

LEMMA Times ==
  ASSUME Parts
  PROVE  /\ now \in Nat /\ cycleAt \in Nat \cup {NoTime} /\ ConfirmAfter \in Nat
         /\ outbox \in Seq(Message)
  BY BoundsAssumption, TimingAssumption DEF Parts, Inv, WellFormed, TypeOK, Time, MaybeTime

\* There is no more to say in one turn than there are conditions.
LEMMA NewsIsShort ==
  ASSUME NEW a, NEW news \in Seq(Message), TellsOf(news, a),
         Confirmed(a) \cup Escalated(a) \cup Recovered(a) \subseteq {TheJob} \X Condition
  PROVE  Len(news) <= Cardinality(Condition)
<1> DEFINE n == Len(news)
           f == [i \in 1..n |-> news[i].key[2]]
<1>1. n \in Nat
  BY LenProperties
<1>2. \A i \in 1..n : news[i].key \in {TheJob} \X Condition
  BY DEF TellsOf
<1>3. ASSUME NEW i \in 1..n, NEW j \in 1..n, f[i] = f[j]
      PROVE  i = j
  <2>1. news[i].key = news[j].key
    BY <1>2, <1>3
  <2> QED
    BY <2>1 DEF TellsOf
<1>4. f \in [1..n -> Condition]
  BY <1>2
<1> HIDE DEF f, n
<1>5. f \in Injection(1..n, Condition)
  BY <1>3, <1>4, Zenon DEF Injection, IsInjective
<1>6. Cardinality(1..n) = n
  BY <1>1, FS_Interval
<1>7. Cardinality(1..n) <= Cardinality(Condition)
  BY <1>5, FS_Injection, NamesAssumption
<1> QED
  BY <1>6, <1>7 DEF n

\* What a turn does to the dispatcher.
LEMMA TurnDoes ==
  ASSUME Roomy, Parts, Punctual, Turn, NEW a, a = Verdicts(now)
  PROVE  /\ a \in Assessments /\ Cycle(a)
         /\ DOMAIN a = {TheJob} \X Conditions(now)
         /\ phase = "ticking" /\ outbox = <<>> /\ cycleAt' = now /\ now' = now /\ wrong' = a
         /\ TellsOf(outbox', a) /\ dropped' = 0
         /\ phase' = "ticking" <=> outbox' = <<>>
         /\ UNCHANGED <<told, setBack, restarts, retryAt>>
<1>1. /\ a \in Assessments /\ Cycle(a)
      /\ DOMAIN a = {TheJob} \X Conditions(now)
  BY VerdictsTyped DEF Turn, Parts
<1>2. /\ phase = "ticking" /\ cycleAt' = now /\ now' = now /\ wrong' = a
      /\ UNCHANGED <<told, setBack, restarts, retryAt>>
      /\ phase' = IF outbox' = <<>> \/ now < retryAt THEN "ticking" ELSE "sending"
  BY <1>1 DEF Cycle, Observe
<1>3. outbox = <<>>
  BY <1>2 DEF Punctual
<1>4. ~(now < retryAt)
  BY Times DEF Punctual, NoTime
<1>5. PICK alerts \in Orderings(AlertsOf(a)), clears \in Orderings(ClearsOf(a)) :
          /\ outbox' = KeepNewest(outbox \o alerts \o clears, MaxOutbox)
          /\ dropped' = dropped + (Len(outbox \o alerts \o clears) - Len(outbox'))
  BY <1>1 DEF Cycle
<1>6. PICK news : news = alerts \o clears
  OBVIOUS
<1>7. TypeOK
  BY DEF Parts, Inv, WellFormed
<1>8. alerts \in Seq(Message) /\ clears \in Seq(Message) /\ news \in Seq(Message)
        /\ TellsOf(news, a)
  BY <1>1, <1>6, <1>7, CycleNews
<1>9. outbox \o alerts \o clears = news
  BY <1>3, <1>6, <1>8
<1>10. Confirmed(a) \cup Escalated(a) \cup Recovered(a) \subseteq {TheJob} \X Condition
  <2>1. DOMAIN a \subseteq {TheJob} \X Condition
    BY <1>1, ConditionsTyped DEF Parts
  <2> QED
    BY <2>1 DEF Confirmed, Escalated, Recovered, Clearing, Punctual
<1>11. Len(news) <= MaxOutbox
  <2>1. Len(news) <= Cardinality(Condition)
    BY <1>8, <1>10, NewsIsShort
  <2>2. Cardinality(Condition) \in Nat
    BY NamesAssumption, FS_CardinalityType
  <2> QED
    BY <1>8, <2>1, <2>2, OutboxAssumption, LenProperties DEF Roomy
<1>12. outbox' = news /\ dropped' = 0
  <2>1. outbox' = news
    BY <1>5, <1>9, <1>11 DEF KeepNewest
  <2> QED
    BY <1>5, <1>8, <1>9, <2>1 DEF Punctual
<1> QED
  BY <1>1, <1>2, <1>3, <1>4, <1>8, <1>12

LEMMA InitPunctual == WatchdogInit => Punctual /\ Agrees
  BY BoundsAssumption, WatchdogAssumption
     DEF WatchdogInit, Init, Punctual, Agrees, NoTime, EmptyMap

LEMMA TurnPunctual ==
  ASSUME Roomy, Parts, Punctual, Agrees, Turn
  PROVE  Punctual' /\ Agrees'
<1>1. PICK a : a = Verdicts(now)
  OBVIOUS
<1>2. /\ a \in Assessments /\ Cycle(a)
      /\ DOMAIN a = {TheJob} \X Conditions(now)
      /\ cycleAt' = now /\ now' = now /\ wrong' = a
      /\ TellsOf(outbox', a) /\ dropped' = 0
      /\ phase' = "ticking" <=> outbox' = <<>>
      /\ UNCHANGED <<setBack, restarts, retryAt>>
  BY <1>1, TurnDoes
<1>3. /\ DOMAIN open' = (DOMAIN open \ Recovered(a)) \cup Confirmed(a)
      /\ Confirmed(a) \subseteq DOMAIN a \ DOMAIN open
      /\ Escalated(a) \subseteq DOMAIN a \cap DOMAIN open
      /\ Recovered(a) \subseteq DOMAIN open \ DOMAIN a
      /\ \A k \in DOMAIN a : a[k] \in Severity
  BY <1>2, CycleIncidents DEF Parts
<1>4. DOMAIN pending' \subseteq DOMAIN a
  BY <1>2 DEF Cycle, PendingAfter
<1>5. DOMAIN a \subseteq {TheJob} \X Condition
  BY <1>2, ConditionsTyped DEF Parts
<1>6. started' = started
  BY DEF Turn, watcher
<1>7. Punctual'
  BY <1>2, <1>3, <1>4, <1>5, <1>6, Times, WatchdogAssumption DEF Punctual
<1>8. ASSUME NEW i \in 1..Len(outbox')
      PROVE  outbox'[i].level = AllClear <=> outbox'[i].key \notin DOMAIN open'
  <2>1. CASE /\ outbox'[i].key \in Confirmed(a) \cup Escalated(a)
             /\ outbox'[i].level = a[outbox'[i].key]
    <3>1. outbox'[i].level \in Severity /\ outbox'[i].key \in DOMAIN open'
      BY <1>3, <2>1
    <3> QED
      BY <3>1 DEF Severity, AllClear, Warn, Critical
  <2>2. CASE outbox'[i].key \in Recovered(a) /\ outbox'[i].level = AllClear
    BY <1>3, <2>2
  <2> QED
    BY <1>2, <2>1, <2>2 DEF TellsOf
<1> QED
  BY <1>7, <1>8 DEF Agrees

\* What one send does.
LEMMA AcceptDoes ==
  ASSUME Parts, Accept
  PROVE  /\ outbox # <<>> /\ Len(outbox) \in Nat \ {0} /\ outbox[1] \in Message
         /\ outbox' = Tail(outbox)
         /\ Len(outbox') = Len(outbox) - 1
         /\ \A i \in 1..Len(outbox') : i + 1 \in 1..Len(outbox) /\ outbox'[i] = outbox[i + 1]
         /\ phase = "sending"
         /\ phase' = "ticking" <=> outbox' = <<>>
         /\ told' = [told EXCEPT ![outbox[1].key] = outbox[1].level]
         /\ failures' = 0 /\ retryAt' = NoTime
         /\ UNCHANGED <<now, cycleAt, open, pending, dropped, trail, wrong, spell, setBack,
                        restarts, started>>
<1>1. /\ phase = "sending" /\ PopFront
      /\ told' = [told EXCEPT ![Head(outbox).key] = Head(outbox).level]
      /\ failures' = 0 /\ retryAt' = NoTime
      /\ UNCHANGED <<now, cycleAt, open, pending, dropped, trail, wrong, spell, setBack,
                     restarts, started>>
  BY DEF Accept, SendOk, watcher
<1>2. outbox \in Seq(Message) /\ outbox # <<>>
  BY <1>1 DEF Parts, Inv, WellFormed, TypeOK, OutboxBounded
<1>3. /\ Head(outbox) = outbox[1]
      /\ Len(outbox) \in Nat \ {0} /\ outbox[1] \in Message
      /\ Len(Tail(outbox)) = Len(outbox) - 1
      /\ \A i \in 1..Len(Tail(outbox)) : Tail(outbox)[i] = outbox[i + 1]
  BY <1>2, HeadTailProperties, EmptySeq, ElementOfSeq
<1>4. outbox' = Tail(outbox) /\ phase' = IF Len(outbox) = 1 THEN "ticking" ELSE "sending"
  BY <1>1 DEF PopFront
<1>5. Len(outbox) = 1 <=> outbox' = <<>>
  <2>1. Tail(outbox) \in Seq(Message)
    BY <1>2, HeadTailProperties
  <2>2. Tail(outbox) = <<>> <=> Len(Tail(outbox)) = 0
    BY <2>1, EmptySeq
  <2> QED
    BY <1>3, <1>4, <2>2
<1>6. /\ Len(outbox') = Len(outbox) - 1
      /\ \A i \in 1..Len(outbox') : i + 1 \in 1..Len(outbox) /\ outbox'[i] = outbox[i + 1]
  BY <1>3, <1>4
<1>7. phase' = "ticking" <=> outbox' = <<>>
  BY <1>4, <1>5
<1>8. told' = [told EXCEPT ![outbox[1].key] = outbox[1].level]
  BY <1>1, <1>3
<1> QED
  BY <1>1, <1>2, <1>3, <1>4, <1>6, <1>7, <1>8

LEMMA AcceptPunctual ==
  ASSUME Parts, Punctual, Agrees, Accept
  PROVE  Punctual' /\ Agrees'
<1>1. Punctual'
  BY AcceptDoes DEF Punctual
<1>2. Agrees'
  BY AcceptDoes DEF Agrees
<1> QED
  BY <1>1, <1>2

LEMMA TimePassesPunctual ==
  ASSUME Parts, Punctual, Agrees, TimePasses
  PROVE  Punctual' /\ Agrees'
<1>1. /\ now' = now + 1 /\ phase = "ticking" /\ now - cycleAt <= Slack
      /\ UNCHANGED <<program, observers, started>>
  BY DEF TimePasses, Tick, watcher
<1>2. Punctual'
  BY <1>1, Times, WatchdogAssumption DEF Punctual, program, observers, NoTime
<1>3. Agrees'
  BY <1>1 DEF Agrees, program
<1> QED
  BY <1>2, <1>3

LEMMA NextPunctual ==
  ASSUME Roomy, Parts, Punctual, Agrees, [WatchdogNext]_wvars
  PROVE  Punctual' /\ Agrees'
<1>1. CASE Around \/ UNCHANGED wvars
  <2>1. UNCHANGED <<vars, started>>
    BY <1>1, AroundKeeps DEF wvars, watcher
  <2> QED
    BY <2>1 DEF Punctual, Agrees, vars, program, observers
<1> QED
  BY <1>1, StepKinds, TurnPunctual, AcceptPunctual, TimePassesPunctual

-----------------------------------------------------------------------------
(* The two windows, as long as time does not go back *)

\* Nothing keeps the dispatcher from ending the incident when its condition is gone.
Judgeable(k) == k[2] = NoHeartbeat \/ watched # "beats"

\* A window that is not over was begun less than ConfirmAfter ago.
Young ==
    /\ \A k \in DOMAIN pending : cycleAt - pending[k].firstSeen < ConfirmAfter
    /\ \A k \in DOMAIN open :
          Judgeable(k) /\ open[k].clearingSince # NoTime =>
              cycleAt - open[k].clearingSince < ConfirmAfter

\* And one that is over has been for no longer than a turn is late; nobody has been told
\* of it for no longer than the turn takes.
Fresh ==
    \A k \in Key :
        /\ k \in DOMAIN open /\ told[k] = AllClear =>
               k \in DOMAIN wrong /\ cycleAt <= spell[k].from + ConfirmAfter + Slack
        /\ k \notin DOMAIN open /\ Judgeable(k) /\ told[k] # AllClear =>
               cycleAt <= trail[k].endedAt + ConfirmAfter + Slack

\* As long as no send is awaited, everybody knows what there is to know.
LEMMA Settled ==
  ASSUME Parts, Punctual, phase = "ticking", NEW k \in Key
  PROVE  told[k] # AllClear <=> k \in DOMAIN open
<1>1. outbox = <<>> /\ Len(outbox) = 0
  BY DEF Punctual
<1>2. ToldAfter(k, Len(outbox)) # AllClear <=> k \in DOMAIN open
  BY DEF Parts, Punctual, StoryCoherent
<1>3. ToldAfter(k, 0) = told[k]
  <2>1. Silent(k, outbox, 0)
    BY DEF Silent
  <2> QED
    BY <2>1, NoneIs DEF ToldAfter
<1> QED
  BY <1>1, <1>2, <1>3

\* What a turn makes of one key.
LEMMA TurnOfKey ==
  ASSUME Parts, NEW a \in Assessments, Cycle(a), NEW k
  PROVE  /\ k \in DOMAIN a /\ k \in DOMAIN wrong => spell'[k].from = spell[k].from
         /\ k \in DOMAIN a /\ k \notin DOMAIN wrong => spell'[k].from = now
         /\ k \in Recovered(a) /\ k \in Key => trail'[k].endedAt = ClearSince(k)
         /\ k \notin Recovered(a) \cup Confirmed(a) \cup Escalated(a) /\ k \in Key =>
                trail'[k] = trail[k]
<1>1. /\ spell' = [x \in DOMAIN spell \cup DOMAIN a |->
                    IF x \notin DOMAIN a THEN spell[x]
                    ELSE IF x \in DOMAIN wrong THEN [spell[x] EXCEPT !.ended = TrueTime]
                    ELSE [from |-> now, began |-> TrueTime, ended |-> TrueTime]]
      /\ trail' = [x \in Key |-> RecordAfter(a, x)]
  BY DEF Cycle, Observe
<1>2. ASSUME k \in DOMAIN a, k \in DOMAIN wrong
      PROVE  spell'[k].from = spell[k].from
  <2>1. k \in DOMAIN spell /\ spell[k] \in Spell
    BY <1>2 DEF Parts, Inv, WellFormed, TypeOK, IsPartialMap
  <2>2. spell'[k] = [spell[k] EXCEPT !.ended = TrueTime]
    BY <1>1, <1>2
  <2> QED
    BY <2>1, <2>2 DEF Spell
<1>3. ASSUME k \in DOMAIN a, k \notin DOMAIN wrong
      PROVE  spell'[k].from = now
  BY <1>1, <1>3
<1>4. ASSUME k \in Key
      PROVE  trail'[k] = RecordAfter(a, k)
  BY <1>1, <1>4
<1>5. ASSUME k \in Recovered(a)
      PROVE  k \notin Confirmed(a) \cup Escalated(a) /\ k \in DOMAIN open
  BY <1>5 DEF Recovered, Clearing, Confirmed, Escalated
<1>6. k \in Recovered(a) => RecordAfter(a, k).endedAt = ClearSince(k)
  BY <1>5 DEF RecordAfter
<1>7. k \notin Recovered(a) \cup Confirmed(a) \cup Escalated(a) => RecordAfter(a, k) = trail[k]
  BY DEF RecordAfter
<1> QED
  BY <1>2, <1>3, <1>4, <1>6, <1>7

\* And of its incident, if it has one.
LEMMA TurnOfIncident ==
  ASSUME Parts, NEW a \in Assessments, Cycle(a), NEW k \in DOMAIN open'
  PROVE  /\ k \in (DOMAIN open \ Recovered(a)) \cup Confirmed(a)
         /\ k \in DOMAIN a => open'[k].clearingSince = NoTime
         /\ k \in Clearing(a) => open'[k].clearingSince = ClearSince(k)
<1>1. /\ k \in (DOMAIN open \ Recovered(a)) \cup Confirmed(a)
      /\ open' = OpenAfter(a)
  BY DEF Cycle, OpenAfter
<1>2. Confirmed(a) \subseteq DOMAIN a \ DOMAIN open /\ Clearing(a) \subseteq DOMAIN open \ DOMAIN a
  BY DEF Confirmed, Clearing
<1>3. k \in Confirmed(a) => open'[k].clearingSince = NoTime
  <2> SUFFICES ASSUME k \in Confirmed(a) PROVE open'[k].clearingSince = NoTime
    OBVIOUS
  <2>1. open'[k] = [severity      |-> Noted(a, k).severity,
                    openedAt      |-> Noted(a, k).firstSeen,
                    clearingSince |-> NoTime]
    BY <1>1, <1>2 DEF OpenAfter
  <2> QED
    BY <2>1
<1>4. ASSUME k \notin Confirmed(a), k \in DOMAIN a
      PROVE  open'[k].clearingSince = NoTime
  <2>1. k \in DOMAIN a \cap DOMAIN open
    BY <1>1, <1>4
  <2>2. open'[k] = Reopened(a, k)
    BY <1>1, <1>2, <1>4, <2>1 DEF OpenAfter
  <2>3. Reopened(a, k).clearingSince = NoTime
    BY DEF Reopened
  <2> QED
    BY <2>2, <2>3
<1>5. ASSUME k \in Clearing(a)
      PROVE  open'[k].clearingSince = ClearSince(k)
  <2>1. open'[k] = [open[k] EXCEPT !.clearingSince = ClearSince(k)]
    BY <1>1, <1>2, <1>5 DEF OpenAfter
  <2>2. open[k] \in Open
    BY <1>2, <1>5 DEF Parts, Inv, WellFormed, TypeOK, IsPartialMap
  <2> QED
    BY <2>1, <2>2 DEF Open
<1> QED
  BY <1>1, <1>3, <1>4, <1>5

\* And what severity it leaves it with.
LEMMA TurnOfSeverity ==
  ASSUME Parts, NEW a \in Assessments, Cycle(a), NEW k
  PROVE  /\ k \in Confirmed(a) => open'[k].severity = Noted(a, k).severity
         /\ k \in DOMAIN open \cap DOMAIN a => open'[k].severity = Worse(open[k].severity, a[k])
         /\ k \in DOMAIN open \ (DOMAIN a \cup Recovered(a)) => open'[k].severity = open[k].severity
<1>1. open' = OpenAfter(a)
  BY DEF Cycle
<1>2. /\ Confirmed(a) \subseteq DOMAIN a \ DOMAIN open
      /\ Recovered(a) \subseteq DOMAIN open \ DOMAIN a
      /\ Clearing(a) \subseteq DOMAIN open \ DOMAIN a
  BY DEF Confirmed, Recovered, Clearing
<1>3. ASSUME k \in Confirmed(a)
      PROVE  open'[k].severity = Noted(a, k).severity
  <2>1. open'[k] = [severity      |-> Noted(a, k).severity,
                    openedAt      |-> Noted(a, k).firstSeen,
                    clearingSince |-> NoTime]
    BY <1>1, <1>2, <1>3 DEF OpenAfter
  <2> QED
    BY <2>1
<1>4. ASSUME k \in DOMAIN open \cap DOMAIN a
      PROVE  open'[k].severity = Worse(open[k].severity, a[k])
  <2>1. open'[k] = Reopened(a, k)
    BY <1>1, <1>2, <1>4 DEF OpenAfter
  <2> QED
    BY <2>1 DEF Reopened
<1>5. ASSUME k \in DOMAIN open \ (DOMAIN a \cup Recovered(a))
      PROVE  open'[k].severity = open[k].severity
  <2>1. open'[k] = open[k] \/ open'[k] = [open[k] EXCEPT !.clearingSince = ClearSince(k)]
    BY <1>1, <1>2, <1>5 DEF OpenAfter
  <2>2. open[k] \in Open
    BY <1>5 DEF Parts, Inv, WellFormed, TypeOK, IsPartialMap
  <2> QED
    BY <2>1, <2>2 DEF Open
<1> QED
  BY <1>3, <1>4, <1>5

LEMMA InitWindows == WatchdogInit => Young /\ Fresh
  BY DEF WatchdogInit, Init, Young, Fresh, EmptyMap

LEMMA TurnYoung ==
  ASSUME Roomy, Parts, Punctual, Young, Turn
  PROVE  Young'
<1>1. PICK a : a = Verdicts(now)
  OBVIOUS
<1>2. /\ a \in Assessments /\ Cycle(a)
      /\ DOMAIN a = {TheJob} \X Conditions(now)
      /\ cycleAt' = now
  BY <1>1, TurnDoes
<1>3. now \in Nat /\ ConfirmAfter \in Nat
  BY Times
<1>4. ASSUME NEW k \in DOMAIN pending'
      PROVE  cycleAt' - pending'[k].firstSeen < ConfirmAfter
  <2>1. pending' = PendingAfter(a) /\ DOMAIN open \cap DOMAIN pending = {}
    BY <1>2 DEF Cycle, Parts, Inv, WindowsHonest, OpenNotPending
  <2>2. /\ k \in DOMAIN a \ Confirmed(a)
        /\ k \in DOMAIN pending \cup (DOMAIN a \ DOMAIN open)
    BY <1>4, <2>1 DEF PendingAfter
  <2>3. k \notin DOMAIN open
    BY <2>1, <2>2
  <2>4. pending'[k] = Noted(a, k)
    BY <2>1, <2>2, <2>3 DEF PendingAfter
  <2>5. ~(Elapsed(Noted(a, k).firstSeen, now) >= ConfirmAfter)
    BY <2>2, <2>3 DEF Confirmed
  <2>6. Noted(a, k).firstSeen \in Nat
    <3>1. CASE k \in DOMAIN pending
      <4>1. pending[k] \in Pending
        BY <3>1 DEF Parts, Inv, WellFormed, TypeOK, IsPartialMap
      <4>2. Noted(a, k).firstSeen = pending[k].firstSeen
        BY <3>1, <4>1 DEF Noted, Pending
      <4> QED
        BY <4>1, <4>2, BoundsAssumption DEF Pending, Time
    <3>2. CASE k \notin DOMAIN pending
      BY <1>3, <3>2 DEF Noted
    <3> QED
      BY <3>1, <3>2
  <2>7. PICK t : t = Noted(a, k).firstSeen
    OBVIOUS
  <2>8. now - t < ConfirmAfter
    BY <1>3, <2>5, <2>6, <2>7 DEF Elapsed
  <2> QED
    BY <1>2, <2>4, <2>7, <2>8
<1>5. ASSUME NEW k \in DOMAIN open', Judgeable(k), open'[k].clearingSince # NoTime
      PROVE  cycleAt' - open'[k].clearingSince < ConfirmAfter
  <2>1. /\ k \in (DOMAIN open \ Recovered(a)) \cup Confirmed(a)
        /\ k \in DOMAIN a => open'[k].clearingSince = NoTime
        /\ k \in Clearing(a) => open'[k].clearingSince = ClearSince(k)
    BY <1>2, <1>5, TurnOfIncident
  <2>4. k \in DOMAIN open \ Recovered(a)
    BY <1>5, <2>1 DEF Confirmed
  <2>5. k \notin DOMAIN a
    BY <1>5, <2>1
  <2>6. k[1] \notin Unjudgeable(a)
    <3> SUFFICES ASSUME k[1] \in Unjudgeable(a) PROVE FALSE
      OBVIOUS
    <3>1. k \in {TheJob} \X Condition
      BY <2>4 DEF Punctual
    <3>2. <<k[1], NoHeartbeat>> \in DOMAIN a
      BY DEF Unjudgeable
    <3>3. NoHeartbeat \in Conditions(now)
      BY <1>2, <3>2
    <3>4. watched = "beats"
      BY <3>3, SilentAlone DEF Parts
    <3>5. k = <<k[1], NoHeartbeat>>
      BY <1>5, <3>1, <3>4 DEF Judgeable
    <3> QED
      BY <2>5, <3>2, <3>5
  <2>7. k \in Clearing(a)
    BY <2>4, <2>5, <2>6 DEF Clearing
  <2>8. open'[k].clearingSince = ClearSince(k)
    BY <2>1, <2>7
  <2>9. ~(Elapsed(ClearSince(k), now) >= ConfirmAfter)
    BY <2>4, <2>7 DEF Recovered
  <2>10. ClearSince(k) \in Int
    <3>1. open[k] \in Open
      BY <2>4 DEF Parts, Inv, WellFormed, TypeOK, IsPartialMap
    <3> QED
      BY <1>3, <3>1, BoundsAssumption DEF ClearSince, Open, MaybeTime, Time, NoTime
  <2>11. PICK t : t = ClearSince(k)
    OBVIOUS
  <2>12. now - t < ConfirmAfter
    BY <1>3, <2>9, <2>10, <2>11 DEF Elapsed
  <2> QED
    BY <1>2, <2>8, <2>11, <2>12
<1>6. watched' = watched
  BY DEF Turn, outside
<1> QED
  BY <1>4, <1>5, <1>6 DEF Young, Judgeable

LEMMA TurnFresh ==
  ASSUME Roomy, Parts, Punctual, Young, Fresh, Turn
  PROVE  Fresh'
<1>1. PICK a : a = Verdicts(now)
  OBVIOUS
<1>2. /\ a \in Assessments /\ Cycle(a)
      /\ phase = "ticking" /\ cycleAt' = now /\ wrong' = a /\ told' = told
      /\ watched' = watched
  BY <1>1, TurnDoes DEF Turn, outside
<1>3. /\ now \in Nat /\ ConfirmAfter \in Nat /\ Slack \in Nat
      /\ cycleAt \in Int /\ now <= cycleAt + 1 + Slack
  BY Times, WatchdogAssumption DEF Punctual, NoTime
<1>4. DOMAIN open' = (DOMAIN open \ Recovered(a)) \cup Confirmed(a)
  BY <1>2, CycleIncidents DEF Parts
<1>5. ASSUME NEW k \in Key, k \in DOMAIN open', told'[k] = AllClear
      PROVE  k \in DOMAIN wrong' /\ cycleAt' <= spell'[k].from + ConfirmAfter + Slack
  <2>1. k \in Confirmed(a)
    BY <1>2, <1>4, <1>5, Settled
  <2>2. /\ k \in DOMAIN a /\ k \notin DOMAIN open
        /\ k \in DOMAIN wrong <=> k \in DOMAIN pending
    BY <1>2, <2>1, ConfirmedSince DEF Parts
  <2>3. CASE k \in DOMAIN wrong
    <3>1. k \in DOMAIN pending /\ pending[k].firstSeen = spell[k].from
      BY <2>2, <2>3 DEF Parts, Inv, WindowsHonest, PendingUnbroken
    <3>2. cycleAt - spell[k].from < ConfirmAfter
      BY <3>1 DEF Young
    <3>3. spell'[k].from = spell[k].from
      BY <1>2, <2>2, <2>3, TurnOfKey
    <3>4. pending[k].firstSeen \in Nat
      BY <3>1, BoundsAssumption DEF Parts, Inv, WellFormed, TypeOK, IsPartialMap, Pending, Time
    <3>5. PICK t : t = spell[k].from
      OBVIOUS
    <3>6. now <= t + ConfirmAfter + Slack
      BY <1>3, <3>1, <3>2, <3>4, <3>5
    <3> QED
      BY <1>2, <2>2, <3>3, <3>5, <3>6
  <2>4. CASE k \notin DOMAIN wrong
    <3>1. spell'[k].from = now
      BY <1>2, <2>2, <2>4, TurnOfKey
    <3> QED
      BY <1>2, <1>3, <2>2, <3>1
  <2> QED
    BY <2>3, <2>4
<1>6. ASSUME NEW k \in Key, k \notin DOMAIN open', Judgeable(k), told'[k] # AllClear
      PROVE  cycleAt' <= trail'[k].endedAt + ConfirmAfter + Slack
  <2>1. k \in Recovered(a) /\ k \in DOMAIN open
    BY <1>2, <1>4, <1>6, Settled
  <2>2. trail'[k].endedAt = ClearSince(k)
    BY <1>2, <2>1, TurnOfKey
  <2>3. CASE open[k].clearingSince = NoTime
    BY <1>2, <1>3, <2>2, <2>3 DEF ClearSince
  <2>4. CASE open[k].clearingSince # NoTime
    <3>1. cycleAt - open[k].clearingSince < ConfirmAfter
      BY <1>6, <2>1, <2>4 DEF Young
    <3>2. open[k].clearingSince \in Int
      BY <2>1, BoundsAssumption
         DEF Parts, Inv, WellFormed, TypeOK, IsPartialMap, Open, MaybeTime, Time, NoTime
    <3>3. PICK t : t = open[k].clearingSince
      OBVIOUS
    <3>4. now <= t + ConfirmAfter + Slack
      BY <1>3, <3>1, <3>2, <3>3
    <3> QED
      BY <1>2, <2>2, <2>4, <3>3, <3>4 DEF ClearSince
  <2> QED
    BY <2>3, <2>4
<1> QED
  BY <1>2, <1>5, <1>6 DEF Fresh, Judgeable

LEMMA AcceptFresh ==
  ASSUME Parts, Agrees, Fresh, Accept
  PROVE  Fresh'
<1>1. /\ told' = [told EXCEPT ![outbox[1].key] = outbox[1].level]
      /\ UNCHANGED <<cycleAt, open, trail, wrong, spell, watched>>
      /\ 1 \in 1..Len(outbox)
  BY AcceptDoes DEF Accept, outside
<1>2. told \in [Key -> Level]
  BY DEF Parts, Inv, WellFormed, TypeOK
<1>3. outbox[1].level = AllClear <=> outbox[1].key \notin DOMAIN open
  BY <1>1 DEF Agrees
<1>4. ASSUME NEW k \in Key, told'[k] # told[k]
      PROVE  told'[k] = AllClear <=> k \notin DOMAIN open
  BY <1>1, <1>2, <1>3, <1>4
<1> QED
  BY <1>1, <1>4 DEF Fresh, Judgeable

LEMMA NextWindows ==
  ASSUME Roomy, Parts, Punctual, Agrees, Young, Fresh, [WatchdogNext]_wvars
  PROVE  Young' /\ Fresh'
<1>1. ASSUME Around \/ Accept \/ TimePasses \/ UNCHANGED wvars
      PROVE  Young'
  <2>1. UNCHANGED <<cycleAt, open, pending, watched>>
    BY <1>1, AroundKeeps, AcceptDoes
       DEF wvars, vars, program, outside, Accept, TimePasses, Tick
  <2> QED
    BY <2>1 DEF Young, Judgeable
<1>2. ASSUME Around \/ TimePasses \/ UNCHANGED wvars
      PROVE  Fresh'
  <2>1. UNCHANGED <<cycleAt, open, told, wrong, spell, trail, watched>>
    BY <1>2, AroundKeeps DEF wvars, vars, program, observers, outside, TimePasses, Tick
  <2> QED
    BY <2>1 DEF Fresh, Judgeable
<1> QED
  BY <1>1, <1>2, StepKinds, TurnYoung, TurnFresh, AcceptFresh

-----------------------------------------------------------------------------
(* A job that beats *)

LEMMA Alive ==
  /\ AliveWarn \in Nat /\ AliveCritical \in Nat /\ 1 < AliveWarn /\ AliveWarn < AliveCritical
  BY BeatsAssumption DEF Beats!AliveValid

\* As long as the clock is not set back, its silence is what it seems.
LEMMA SilenceIsTrue ==
  ASSUME Parts, Punctual
  PROVE  /\ Proved!SilentFor(lastBeat, now) = now - heard
         /\ heard \in Nat /\ heard <= now
<1>1. /\ Proved!SilentFor(lastBeat, now) \in Nat
      /\ Proved!SilentFor(lastBeat, now) <= Proved!TrueTime - heard
      /\ Proved!TrueTime - heard <= Proved!SilentFor(lastBeat, now) + setBack
      /\ Proved!TrueTime \in Nat /\ heard \in Nat /\ setBack \in Nat
  BY Proved!SilenceBounded, JobFits DEF Parts, Proved!SilenceBounded
<1>2. setBack = 0 /\ Proved!TrueTime = now /\ now \in Nat
  BY Times DEF Punctual, Proved!TrueTime
<1>3. PICK s : s = Proved!SilentFor(lastBeat, now)
  OBVIOUS
<1> QED
  BY <1>1, <1>2, <1>3

\* It is found missing exactly when it has been silent for AliveWarn, and paged for
\* when it has been for AliveCritical.
LEMMA BeatsJudged ==
  ASSUME Parts, Punctual, watched = "beats"
  PROVE  /\ NoHeartbeat \in Conditions(now) <=> now - heard >= AliveWarn
         /\ NoHeartbeat \in Conditions(now) =>
                Verdicts(now)[<<TheJob, NoHeartbeat>>] =
                    IF now - heard >= AliveCritical THEN Critical ELSE Warn
<1>1. /\ Proved!SilentFor(lastBeat, now) = now - heard
      /\ heard \in Nat /\ now \in Nat
  BY SilenceIsTrue, Times
<1>4. PICK silence : silence = now - heard
  OBVIOUS
<1>6. silence \in Int
  BY <1>1, <1>4
<1>7. Proved!AliveFindings(now) =
          Proved!Overdue("NoHeartbeat", silence, AliveWarn, AliveCritical)
  BY <1>1, <1>4 DEF Parts, AsConfigured, BeatRules, Proved!AliveFindings
<1>2. silence >= AliveWarn <=> now - heard >= AliveWarn
  BY <1>4
<1> DEFINE severity == IF now - heard >= AliveCritical THEN Critical ELSE Warn
<1>3. CASE now - heard >= AliveWarn
  <2>1. Proved!AliveFindings(now) = {Silence(severity)}
    <3>1. CASE silence >= AliveCritical
      <4>1. severity = Critical
        BY <1>4, <3>1
      <4>2. AliveCritical # -1
        BY Alive
      <4>3. Proved!AliveFindings(now) = {Silence(Critical)}
        BY <1>7, <3>1, <4>2, Zenon DEF Proved!Overdue, Proved!None, Silence,
           Proved!Critical, Critical
      <4> QED
        BY <4>1, <4>3
    <3>2. CASE ~(silence >= AliveCritical)
      <4>1. severity = Warn
        BY <1>4, <3>2
      <4>2. silence >= AliveWarn
        BY <1>3, <1>2
      <4>3. Proved!AliveFindings(now) = {Silence(Warn)}
        BY <1>7, <3>2, <4>2, Zenon DEF Proved!Overdue, Silence, Proved!Warn, Warn
      <4> QED
        BY <4>1, <4>3
    <3> QED
      BY <3>1, <3>2
  <2>2. Proved!Assess(now) = {Silence(severity)}
    <3>1. Proved!AliveFindings(now) # {}
      BY <2>1
    <3>2. Proved!Assess(now) = Proved!AliveFindings(now)
      BY <3>1, Zenon DEF Proved!Assess
    <3> QED
      BY <2>1, <3>2
  <2> HIDE DEF severity
  <2>3. ConditionOf(Silence(severity)) = NoHeartbeat
    BY SilenceNamed
  <2>4. Conditions(now) = {NoHeartbeat}
    <3>1. Conditions(now) = {ConditionOf(f) : f \in {Silence(severity)}}
      BY <2>2, SameFindings DEF Conditions
    <3> QED
      BY <2>3, <3>1
  <2>5. Verdicts(now)[<<TheJob, NoHeartbeat>>] = severity
    <3>1. <<TheJob, NoHeartbeat>> \in {TheJob} \X Conditions(now)
      BY <2>4
    <3>2. Verdicts(now)[<<TheJob, NoHeartbeat>>] =
              (CHOOSE f \in {Silence(severity)} : ConditionOf(f) = NoHeartbeat).severity
      <4>1. Beats!Assess(now) = {Silence(severity)}
        BY <2>2, SameFindings
      <4>2. PICK k : k = <<TheJob, NoHeartbeat>>
        OBVIOUS
      <4>3. k[2] = NoHeartbeat
        BY <4>2
      <4>4. Verdicts(now)[k] = (CHOOSE f \in Beats!Assess(now) : ConditionOf(f) = k[2]).severity
        BY <3>1, <4>2 DEF Verdicts
      <4> QED
        BY <4>1, <4>2, <4>3, <4>4
    <3>3. (CHOOSE f \in {Silence(severity)} : ConditionOf(f) = NoHeartbeat) = Silence(severity)
      BY <2>3
    <3>4. Silence(severity).severity = severity
      BY DEF Silence, Proved!Finding
    <3> QED
      BY <3>2, <3>3, <3>4
  <2> QED
    BY <1>3, <2>4, <2>5 DEF severity
<1>5. CASE ~(now - heard >= AliveWarn)
  <2>1. Proved!AliveFindings(now) = {}
    <3>1. ~(silence >= AliveWarn) /\ ~(silence >= AliveCritical)
      BY <1>5, <1>6, <1>2, Alive
    <3> QED
      BY <1>7, <3>1, Zenon DEF Proved!Overdue
  <2>2. NoHeartbeat \notin Conditions(now)
    BY <2>1, SilentAlone DEF Parts
  <2> QED
    BY <1>5, <2>2
<1> QED
  BY <1>3, <1>5

\* Its handlers do not let beats wait.
BeatsNow ==
    /\ Len(arriving) <= 1
    /\ arriving # <<>> => watched = "beats" /\ arriving[1].true = now

LEMMA InitBeatsNow == WatchdogInit => BeatsNow
  BY SameJob DEF WatchdogInit, Proved!Init, BeatsNow

\* What a beat does.
LEMMA BeatDoes ==
  ASSUME Parts, Punctual, BeatsNow, RecordBeat
  PROVE  /\ watched = "beats" /\ arriving # <<>> /\ arriving[1].at \in Nat
         /\ arriving[1].true = now /\ arriving[1].detail \in Detail
         /\ arriving' = <<>> /\ beats' = beats + 1 /\ heard' = now
         /\ since' = IF Good THEN since ELSE now
         /\ UNCHANGED <<vars, outside, watcher, changes, steadyAt, misses>>
<1>1. PICK i \in DOMAIN arriving :
         /\ arriving' = Proved!RemoveAt(arriving, i)
         /\ beats' = beats + 1
         /\ heard' = IF heard > arriving[i].true THEN heard ELSE arriving[i].true
  BY SameJob DEF RecordBeat, Proved!RecordBeat
<1>2. /\ arriving \in Seq([at : 0..MaxTime, true : 0..Proved!TrueTime, detail : Detail])
      /\ MaxTime \in Nat
  BY JobFits DEF Parts, Proved!IInv, Proved!TypeOK
<1>3. Len(arriving) = 1 /\ i = 1 /\ arriving # <<>>
  <2>1. Len(arriving) \in Nat /\ DOMAIN arriving = 1..Len(arriving)
    BY <1>2, LenProperties
  <2> QED
    BY <1>1, <2>1 DEF BeatsNow
<1>4. arriving[1].at \in Nat /\ arriving[1].detail \in Detail
  <2> DEFINE Arriving == [at : 0..MaxTime, true : 0..Proved!TrueTime, detail : Detail]
  <2>1. arriving \in Seq(Arriving) /\ 1 \in 1..Len(arriving)
    BY <1>2, <1>3
  <2> HIDE DEF Arriving
  <2>2. arriving[1] \in Arriving
    BY <2>1, ElementOfSeq
  <2> QED
    BY <1>2, <2>2 DEF Arriving
<1>5. arriving' = <<>>
  BY <1>1, <1>2, <1>3 DEF Proved!RemoveAt
<1>6. heard' = now
  BY <1>1, <1>3, SilenceIsTrue, Times DEF BeatsNow
<1> QED
  BY <1>1, <1>3, <1>4, <1>5, <1>6 DEF BeatsNow, RecordBeat

LEMMA NextBeatsNow ==
  ASSUME Parts, Punctual, BeatsNow, [WatchdogNext]_wvars
  PROVE  BeatsNow'
<1>1. CASE Arrive
  <2>1. arriving = <<>> /\ watched = "beats" /\ UNCHANGED <<now, setBack, watched>>
    BY <1>1 DEF Arrive, vars, observers, outside
  <2>2. PICK d \in Detail :
            arriving' = Append(arriving, [at |-> now, true |-> Proved!TrueTime, detail |-> d])
    BY <1>1, SameJob DEF Arrive, Proved!Arrive
  <2>3. arriving' = <<[at |-> now, true |-> Proved!TrueTime, detail |-> d]>>
    BY <2>1, <2>2
  <2>4. Proved!TrueTime = now
    BY Times DEF Proved!TrueTime, Punctual
  <2> QED
    BY <2>1, <2>3, <2>4 DEF BeatsNow
<1>2. CASE RecordBeat
  BY <1>2, BeatDoes DEF BeatsNow
<1>3. CASE TimePasses
  BY <1>3 DEF TimePasses, beating, BeatsNow
<1>4. CASE \/ ChangeProcesses \/ ChangePidfile \/ ChangeFile \/ Stop \/ LogError \/ Write
           \/ Look \/ Turn \/ Accept \/ UNCHANGED wvars
  <2>1. UNCHANGED <<now, arriving, watched>>
    BY <1>4 DEF ChangeProcesses, ChangePidfile, ChangeFile, Stop, LogError, Write, Look, Turn,
                Accept, Cycle, SendOk, wvars, vars, beating, outside
  <2> QED
    BY <2>1 DEF BeatsNow
<1> QED
  BY <1>1, <1>2, <1>3, <1>4 DEF WatchdogNext

-----------------------------------------------------------------------------
(* Dates *)

\* What a watcher can have found.
Looks ==
    [process : ProcessFinding \cup {"unknown"}, lastRunning : Nat \cup {Never},
     file : FileFinding \cup {"unknown"}, modified : Int, everSeen : BOOLEAN,
     lastError : Nat \cup {Never}]

\* A watcher looks in time, and no date is in the future.
Dated ==
    /\ found \in Looks
    /\ onDisk \in FileFinding /\ matching \in BOOLEAN
    /\ mtime \in Int /\ mtime <= now /\ pace \in Nat
    /\ since \in Nat /\ since <= now /\ steadyAt \in Int /\ misses \in Nat
    /\ lastPoll \in Int
    /\ watched # "beats" => lastPoll <= now /\ now - lastPoll <= Blind
    /\ found.lastRunning <= now /\ found.lastError <= now

\* Nor is what the dispatcher remembers.
Past ==
    /\ \A k \in DOMAIN spell : spell[k].from <= cycleAt
    /\ \A k \in DOMAIN open : open[k].clearingSince <= cycleAt

LEMMA Paced == Poll \in Nat \ {0} /\ Slack \in Nat /\ Blind \in Nat \ {0} /\ Poll <= Blind
  BY WatchdogAssumption DEF Blind

\* What is recorded of one look.
LEMMA RecordOfProcess ==
  ASSUME NEW p \in Looks, NEW at \in Nat, p.lastRunning <= at, NEW finding \in ProcessFinding,
         NEW q, q = RecordProcess(p, at, finding)
  PROVE  /\ q \in Looks /\ q.process = finding
         /\ q.lastRunning = IF finding = "running" THEN at ELSE p.lastRunning
         /\ q.lastError = p.lastError
<1>1. PICK last : last = IF finding = "running" THEN Later(p.lastRunning, at) ELSE p.lastRunning
  OBVIOUS
<1>2. last = (IF finding = "running" THEN at ELSE p.lastRunning) /\ last \in Nat \cup {Never}
  BY <1>1 DEF Later, Looks, Never
<1>3. q = [p EXCEPT !.process = finding, !.lastRunning = last]
  BY <1>1 DEF RecordProcess
<1>4. /\ q \in Looks /\ q.process = finding /\ q.lastRunning = last
      /\ q.lastError = p.lastError
  BY <1>2, <1>3 DEF Looks
<1> QED
  BY <1>2, <1>4

LEMMA RecordOfFile ==
  ASSUME NEW p \in Looks, NEW finding \in FileFinding, NEW modified \in Int,
         NEW q, q = RecordFile(p, finding, modified)
  PROVE  /\ q \in Looks /\ q.file = finding
         /\ IsPresent(finding) => q.modified = modified
         /\ q.everSeen = (p.everSeen \/ IsPresent(finding))
         /\ q.lastError = p.lastError
         /\ q.lastRunning = p.lastRunning
<1>1. PICK date : date = IF IsPresent(finding) THEN modified ELSE Never
  OBVIOUS
<1>2. date \in Int /\ (IsPresent(finding) => date = modified)
  BY <1>1 DEF Never
<1>3. PICK ever \in BOOLEAN : ever = (p.everSeen \/ IsPresent(finding))
  BY DEF IsPresent
<1>4. q = [p EXCEPT !.file = finding, !.modified = date, !.everSeen = ever]
  BY <1>1, <1>3 DEF RecordFile
<1>5. /\ q \in Looks /\ q.file = finding /\ q.modified = date /\ q.everSeen = ever
      /\ q.lastError = p.lastError /\ q.lastRunning = p.lastRunning
  BY <1>2, <1>4 DEF Looks
<1> QED
  BY <1>2, <1>3, <1>5

LEMMA RecordOfLog ==
  ASSUME NEW p \in Looks, NEW at \in Nat, NEW finding \in FileFinding, NEW modified \in Int,
         NEW matched, NEW q, q = RecordLog(p, at, finding, modified, matched)
  PROVE  /\ q \in Looks /\ q.file = finding
         /\ IsPresent(finding) => q.modified = modified
         /\ q.everSeen = (p.everSeen \/ IsPresent(finding))
         /\ q.lastError = IF matched THEN at ELSE p.lastError
         /\ q.lastRunning = p.lastRunning
<1>1. PICK r : r = RecordFile(p, finding, modified)
  OBVIOUS
<1>2. /\ r \in Looks /\ r.file = finding
      /\ IsPresent(finding) => r.modified = modified
      /\ r.everSeen = (p.everSeen \/ IsPresent(finding))
      /\ r.lastError = p.lastError
      /\ r.lastRunning = p.lastRunning
  BY <1>1, RecordOfFile
<1>3. PICK date : date = IF matched THEN at ELSE r.lastError
  OBVIOUS
<1>4. date \in Nat \cup {Never}
  BY <1>2, <1>3 DEF Looks
<1>5. q = [r EXCEPT !.lastError = date]
  BY <1>1, <1>3 DEF RecordLog
<1>6. /\ q \in Looks /\ q.file = r.file /\ q.modified = r.modified /\ q.everSeen = r.everSeen
      /\ q.lastError = date /\ q.lastRunning = r.lastRunning
  BY <1>2, <1>4, <1>5 DEF Looks
<1> QED
  BY <1>2, <1>3, <1>6

\* What one look leaves, by what is looked at.
LEMMA LookDoes ==
  ASSUME AsConfigured, Dated, now \in Nat, Look
  PROVE  /\ watched # "beats" /\ now - lastPoll >= Poll /\ lastPoll' = now
         /\ found' \in Looks
         /\ watched = "process" =>
                /\ found'.process = ReadPidfile(pidfile, processes)
                /\ found'.lastRunning = IF found'.process = "running" THEN now
                                        ELSE found.lastRunning
                /\ found'.lastError = found.lastError
         /\ IsFile =>
                /\ found'.file = onDisk
                /\ IsPresent(onDisk) => found'.modified = mtime
                /\ found'.everSeen = (found.everSeen \/ IsPresent(onDisk))
                /\ found'.lastError = IF watched = "log" /\ matching /\ IsPresent(onDisk)
                                      THEN now ELSE found.lastError
                /\ found'.lastRunning = found.lastRunning
         /\ matching' = (matching /\ ~IsPresent(onDisk))
         /\ misses' = IF onDisk \in {"missing", "unreadable"} THEN misses + 1 ELSE 0
         /\ UNCHANGED <<vars, watched, pidfile, processes, onDisk, pace, mtime, started, beating,
                        changes, since, steadyAt>>
<1>1. ReadPidfile(pidfile, processes) \in ProcessFinding
  BY DEF ReadPidfile, ProcessFinding, NamesProcess
<1>2. CASE watched = "process"
  <2>1. found' = RecordProcess(found, now, ReadPidfile(pidfile, processes))
    BY <1>2 DEF Look
  <2>2. PICK finding : finding = ReadPidfile(pidfile, processes)
    OBVIOUS
  <2>3. /\ found' \in Looks
        /\ found'.process = finding
        /\ found'.lastRunning = IF finding = "running" THEN now ELSE found.lastRunning
        /\ found'.lastError = found.lastError
    BY <1>1, <2>1, <2>2, RecordOfProcess DEF Dated
  <2> QED
    BY <1>2, <2>2, <2>3 DEF Look, IsFile
<1>3. CASE watched = "log"
  <2>1. PICK matched : matched = (matching /\ IsPresent(onDisk))
    OBVIOUS
  <2>2. found' = RecordLog(found, now, onDisk, mtime, matched)
    BY <1>3, <2>1 DEF Look
  <2>3. /\ found' \in Looks
        /\ found'.file = onDisk
        /\ IsPresent(onDisk) => found'.modified = mtime
        /\ found'.everSeen = (found.everSeen \/ IsPresent(onDisk))
        /\ found'.lastError = IF matching /\ IsPresent(onDisk) THEN now ELSE found.lastError
        /\ found'.lastRunning = found.lastRunning
    <3>1. /\ found' \in Looks
          /\ found'.file = onDisk
          /\ IsPresent(onDisk) => found'.modified = mtime
          /\ found'.everSeen = (found.everSeen \/ IsPresent(onDisk))
          /\ found'.lastError = IF matched THEN now ELSE found.lastError
          /\ found'.lastRunning = found.lastRunning
      BY <2>2, RecordOfLog DEF Dated
    <3> QED
      BY <2>1, <3>1
  <2> QED
    BY <1>3, <2>3 DEF Look, IsFile
<1>4. CASE watched = "artifact"
  <2>1. found' = RecordFile(found, onDisk, mtime)
    BY <1>4 DEF Look
  <2>2. /\ found' \in Looks
        /\ found'.file = onDisk
        /\ IsPresent(onDisk) => found'.modified = mtime
        /\ found'.everSeen = (found.everSeen \/ IsPresent(onDisk))
        /\ found'.lastError = found.lastError
        /\ found'.lastRunning = found.lastRunning
    BY <2>1, RecordOfFile DEF Dated
  <2> QED
    BY <1>4, <2>2 DEF Look, IsFile
<1> QED
  BY <1>2, <1>3, <1>4 DEF AsConfigured, Look

\* What is there changes.
Changing == ChangeProcesses \/ ChangePidfile \/ ChangeFile

LEMMA ChangeDoes ==
  ASSUME Changing
  PROVE  /\ since' = now /\ steadyAt' = Steady
         /\ UNCHANGED <<vars, watched, pace, matching, watcher, beating, misses>>
         /\ watched = "process" => UNCHANGED <<onDisk, mtime>>
         /\ IsFile => /\ onDisk' \in FileFinding /\ UNCHANGED <<pidfile, processes>>
                      /\ mtime' = IF IsPresent(onDisk) THEN mtime ELSE now
  BY DEF Changing, ChangeProcesses, ChangePidfile, ChangeFile, Changed, Upset, Steady, IsFile

LEMMA InitDated == WatchdogInit => Dated /\ Past
<1> SUFFICES ASSUME WatchdogInit PROVE Dated /\ Past
  OBVIOUS
<1>1. /\ now = 0 /\ found = NoLook /\ lastPoll = now - Poll /\ since = now /\ steadyAt = Never
      /\ misses = 0 /\ matching = FALSE /\ spell = EmptyMap /\ open = EmptyMap
      /\ pace \in IF IsFile THEN Paces \cup {0} ELSE {0}
      /\ mtime \in IF IsFile /\ pace = 0 THEN {now, now - StaleAfter} ELSE {now}
      /\ onDisk \in IF IsFile THEN {"missing", "present"} ELSE {"missing"}
  BY DEF WatchdogInit, Init
<1>2. found \in Looks /\ found.lastRunning = Never /\ found.lastError = Never
  BY <1>1 DEF NoLook, Looks, Never
<1>3. pace \in Nat /\ mtime \in Int /\ mtime <= now /\ onDisk \in FileFinding
  BY <1>1, WatchdogAssumption, PassiveAssumption DEF FileFinding
<1>4. /\ lastPoll \in Int /\ lastPoll <= now /\ now - lastPoll <= Blind
      /\ since \in Nat /\ since <= now /\ steadyAt \in Int
      /\ found.lastRunning <= now /\ found.lastError <= now
  BY <1>1, <1>2, Paced DEF Never
<1>5. matching \in BOOLEAN /\ misses \in Nat
  BY <1>1
<1>6. Past
  BY <1>1 DEF Past, EmptyMap
<1> QED
  BY <1>2, <1>3, <1>4, <1>5, <1>6 DEF Dated

LEMMA NextDated ==
  ASSUME Parts, Punctual, BeatsNow, Dated, [WatchdogNext]_wvars
  PROVE  Dated'
<1>1. now \in Nat
  BY Times
<1>2. CASE Changing
  <2>1. onDisk' \in FileFinding /\ mtime' \in {mtime, now}
    BY <1>2 DEF Changing, ChangeProcesses, ChangePidfile, ChangeFile, Dated
  <2>2. Steady \in Int
    BY <1>1 DEF Steady, Dated
  <2> QED
    BY <1>1, <1>2, <2>1, <2>2, ChangeDoes DEF Dated, vars, watcher
<1>3. CASE Stop
  BY <1>3 DEF Stop, Upset, Dated, vars, watcher
<1>4. CASE LogError
  BY <1>1, <1>4 DEF LogError, Upset, Dated, vars, watcher
<1>5. CASE Write
  BY <1>1, <1>5 DEF Write, Dated, vars, watcher, noticed
<1>6. CASE Arrive
  BY <1>6 DEF Arrive, Dated, vars, watcher, noticed, outside
<1>7. CASE RecordBeat
  BY <1>1, <1>7, BeatDoes DEF Dated, vars, watcher, outside
<1>8. CASE Look
  <2>1. AsConfigured
    BY DEF Parts
  <2>2. /\ lastPoll' = now /\ now' = now /\ found' \in Looks
        /\ matching' = (matching /\ ~IsPresent(onDisk))
        /\ misses' = IF onDisk \in {"missing", "unreadable"} THEN misses + 1 ELSE 0
        /\ UNCHANGED <<onDisk, mtime, pace, since, steadyAt>>
    BY <1>1, <1>8, <2>1, LookDoes DEF vars
  <2>3. /\ found'.lastRunning \in {found.lastRunning, now}
        /\ found'.lastError \in {found.lastError, now}
    <3>1. CASE watched = "process"
      BY <1>1, <1>8, <2>1, <3>1, LookDoes
    <3>2. CASE IsFile
      BY <1>1, <1>8, <2>1, <3>2, LookDoes
    <3> QED
      BY <1>1, <1>8, <2>1, <3>1, <3>2, LookDoes DEF AsConfigured, IsFile
  <2>4. found'.lastRunning <= now /\ found'.lastError <= now
    BY <1>1, <2>3 DEF Dated
  <2>5. matching' \in BOOLEAN /\ misses' \in Nat
    BY <2>2 DEF Dated
  <2>6. lastPoll' <= now' /\ now' - lastPoll' <= Blind /\ lastPoll' \in Int
    BY <1>1, <2>2, Paced
  <2> QED
    BY <2>2, <2>4, <2>5, <2>6 DEF Dated
<1>9. CASE Turn \/ Accept \/ UNCHANGED wvars
  <2>1. UNCHANGED <<now, outside, watcher, noticed>>
    BY <1>9 DEF Turn, Accept, Cycle, SendOk, wvars, vars
  <2> QED
    BY <2>1 DEF Dated, outside, watcher, noticed
<1>10. CASE TimePasses
  <2>1. /\ now' = now + 1
        /\ watched = "beats" \/ now - lastPoll < Blind
        /\ UNCHANGED <<outside, watcher, noticed>>
    BY <1>10 DEF TimePasses, Tick
  <2>2. found.lastRunning \in Int /\ found.lastError \in Int
    BY DEF Dated, Looks, Never
  <2>3. PICK r, e : r = found.lastRunning /\ e = found.lastError
    OBVIOUS
  <2>4. r <= now + 1 /\ e <= now + 1
    BY <1>1, <2>2, <2>3 DEF Dated
  <2>5. found'.lastRunning <= now' /\ found'.lastError <= now'
    BY <2>1, <2>3, <2>4 DEF watcher
  <2>6. mtime <= now + 1 /\ since <= now + 1
    BY <1>1 DEF Dated
  <2>7. watched # "beats" => lastPoll <= now + 1 /\ now + 1 - lastPoll <= Blind
    BY <1>1, <2>1, Paced DEF Dated
  <2>8. /\ mtime' <= now' /\ since' <= now'
        /\ watched' # "beats" => lastPoll' <= now' /\ now' - lastPoll' <= Blind
    <3>1. /\ now' \in Nat /\ mtime \in Int /\ since \in Int /\ lastPoll \in Int
      BY <1>1, <2>1 DEF Dated
    <3> QED
      BY <1>1, <2>1, <2>6, <2>7, <3>1, Paced DEF outside, watcher, noticed
  <2> QED
    BY <2>1, <2>5, <2>8 DEF Dated, outside, watcher, noticed
<1> QED
  BY <1>2, <1>3, <1>4, <1>5, <1>6, <1>7, <1>8, <1>9, <1>10 DEF WatchdogNext, Changing

LEMMA NextPast ==
  ASSUME Roomy, Parts, Punctual, Past, [WatchdogNext]_wvars
  PROVE  Past'
<1>1. now \in Nat /\ cycleAt \in Int /\ cycleAt <= now
  BY Times DEF Punctual, NoTime
<1>2. CASE Turn
  <2>1. PICK a : a = Verdicts(now)
    OBVIOUS
  <2>2. a \in Assessments /\ Cycle(a) /\ cycleAt' = now
    BY <1>2, <2>1, TurnDoes
  <2>3. ASSUME NEW k \in DOMAIN spell'
        PROVE  spell'[k].from <= cycleAt'
    <3>1. spell' = [x \in DOMAIN spell \cup DOMAIN a |->
                    IF x \notin DOMAIN a THEN spell[x]
                    ELSE IF x \in DOMAIN wrong THEN [spell[x] EXCEPT !.ended = TrueTime]
                    ELSE [from |-> now, began |-> TrueTime, ended |-> TrueTime]]
      BY <2>2 DEF Cycle, Observe
    <3>2. DOMAIN wrong \subseteq DOMAIN spell
      BY DEF Parts, Inv, WellFormed
    <3>3. k \in DOMAIN spell => spell[k].from \in Nat /\ spell[k].from <= cycleAt
      BY BoundsAssumption DEF Parts, Inv, WellFormed, TypeOK, IsPartialMap, Spell, Time, Past
    <3>4. spell'[k].from = now \/ (k \in DOMAIN spell /\ spell'[k].from = spell[k].from)
      BY <2>2, <2>3, <3>1, <3>2, TurnOfKey
    <3>5. PICK t : t = spell[k].from
      OBVIOUS
    <3> QED
      BY <1>1, <2>2, <3>3, <3>4, <3>5
  <2>4. ASSUME NEW k \in DOMAIN open'
        PROVE  open'[k].clearingSince <= cycleAt'
    <3>1. /\ k \in (DOMAIN open \ Recovered(a)) \cup Confirmed(a)
          /\ k \in DOMAIN a => open'[k].clearingSince = NoTime
          /\ k \in Clearing(a) => open'[k].clearingSince = ClearSince(k)
      BY <2>2, <2>4, TurnOfIncident
    <3>2. k \in DOMAIN open =>
             open[k].clearingSince \in Int /\ open[k].clearingSince <= cycleAt
      BY BoundsAssumption
         DEF Parts, Inv, WellFormed, TypeOK, IsPartialMap, Open, MaybeTime, Time, NoTime, Past
    <3>3. CASE k \in DOMAIN a
      BY <1>1, <2>2, <3>1, <3>3 DEF NoTime
    <3>4. CASE k \in Clearing(a)
      <4>1. k \in DOMAIN open
        BY <3>4 DEF Clearing
      <4>2. ClearSince(k) = now \/ ClearSince(k) = open[k].clearingSince
        BY DEF ClearSince
      <4>3. PICK t : t = open[k].clearingSince
        OBVIOUS
      <4> QED
        BY <1>1, <2>2, <3>1, <3>2, <3>4, <4>1, <4>2, <4>3
    <3>5. CASE k \notin DOMAIN a /\ k \notin Clearing(a)
      <4>1. k \in DOMAIN open /\ k \notin Confirmed(a) /\ k \notin Recovered(a)
        BY <3>1, <3>5 DEF Confirmed, Recovered
      <4>2. open'[k] = open[k]
        BY <2>2, <3>5, <4>1 DEF Cycle, OpenAfter
      <4>3. PICK t : t = open[k].clearingSince
        OBVIOUS
      <4> QED
        BY <1>1, <2>2, <3>2, <4>1, <4>2, <4>3
    <3> QED
      BY <3>3, <3>4, <3>5
  <2> QED
    BY <2>3, <2>4 DEF Past
<1>3. CASE Around \/ Accept \/ TimePasses \/ UNCHANGED wvars
  <2>1. UNCHANGED <<cycleAt, open, spell>>
    BY <1>3, AroundKeeps, AcceptDoes
       DEF wvars, vars, program, observers, Accept, TimePasses, Tick
  <2> QED
    BY <2>1 DEF Past
<1> QED
  BY <1>2, <1>3, StepKinds

-----------------------------------------------------------------------------
(* What a watcher knows *)

\* What is good, by how the job is watched.
LEMMA GoodMeans ==
  /\ watched = "process" => (Good <=> NamesProcess(pidfile) /\ pidfile.id \in processes)
  /\ watched \in {"log", "artifact"} => (Good <=> onDisk = "present")
  /\ watched = "beats" => (Good <=> now - heard < AliveWarn)
  BY DEF Good, IsFile

\* How a step that is none of a beat changes what is steady.
LEMMA SteadyNext ==
  ASSUME Parts, Dated, watched # "beats", [WatchdogNext]_wvars
  PROVE  /\ watched' = watched
         /\ Changing => Steady' = Steady
         /\ LogError => Steady' = steadyAt
         /\ Stop \/ Write \/ Look \/ Turn \/ Accept \/ UNCHANGED wvars =>
                Steady' = Steady /\ (Good' <=> Good)
         /\ TimePasses =>
                /\ Good' <=> Good
                /\ IF Good /\ now + 1 - since > Blind THEN Steady' = now + 1
                                                      ELSE Steady' = Steady
<1>1. now \in Nat /\ since \in Nat /\ since <= now /\ Blind \in Nat
  BY Times, Paced DEF Dated
<1>2. watched' = watched
  BY StepKinds, AroundKeeps DEF Turn, Accept, TimePasses, wvars, outside
<1>3. ASSUME Changing
      PROVE  Steady' = Steady
  <2>1. since' = now /\ steadyAt' = Steady /\ now' = now
    BY <1>3, ChangeDoes DEF vars
  <2>2. ~(now' - since' > Blind)
    BY <1>1, <2>1
  <2> QED
    BY <2>1, <2>2 DEF Steady
<1>4. ASSUME LogError
      PROVE  Steady' = steadyAt
  <2>1. since' = now /\ steadyAt' = steadyAt /\ now' = now
    BY <1>4 DEF LogError, vars
  <2>2. ~(now' - since' > Blind)
    BY <1>1, <2>1
  <2> QED
    BY <2>1, <2>2 DEF Steady
<1>5. ASSUME Stop \/ Write \/ Look \/ Turn \/ Accept \/ UNCHANGED wvars
      PROVE  Steady' = Steady /\ (Good' <=> Good)
  <2>1. UNCHANGED <<now, watched, pidfile, processes, onDisk, since, steadyAt, heard>>
    BY <1>5 DEF Stop, Write, Look, Turn, Accept, Cycle, SendOk, wvars, vars, outside, beating,
                noticed
  <2>2. Good' <=> Good
    BY <2>1 DEF Good, IsFile
  <2> QED
    BY <2>1, <2>2 DEF Steady
<1>6. ASSUME TimePasses
      PROVE  /\ Good' <=> Good
             /\ IF Good /\ now + 1 - since > Blind THEN Steady' = now + 1
                                                   ELSE Steady' = Steady
  <2>1. now' = now + 1 /\ UNCHANGED <<watched, pidfile, processes, onDisk, since, steadyAt>>
    BY <1>6 DEF TimePasses, Tick, outside, noticed
  <2>2. Good' <=> Good
    BY <2>1 DEF Parts, AsConfigured, Good, IsFile
  <2>3. now - since > Blind => now + 1 - since > Blind
    BY <1>1
  <2>4. now' - since' > Blind <=> now + 1 - since > Blind
    BY <1>1, <2>1
  <2>5. Steady' = IF Good /\ now + 1 - since > Blind THEN now + 1 ELSE steadyAt
    BY <2>1, <2>2, <2>4 DEF Steady
  <2>6. ~(Good /\ now + 1 - since > Blind) => Steady = steadyAt
    BY <2>3 DEF Steady
  <2> QED
    BY <2>2, <2>5, <2>6
<1> QED
  BY <1>2, <1>3, <1>4, <1>5, <1>6

\* A process: as it is, if it was looked at since it changed; and when it was last seen.
KnowsProcess ==
    watched = "process" =>
        /\ lastPoll > since => found.process # "unknown" /\ (found.process = "running" <=> Good)
        /\ found.process = "running" => found.lastRunning = lastPoll
        /\ ~Good => found.lastRunning <= since
        /\ Steady # Never => found.lastRunning # Never /\ found.lastRunning >= Steady - Blind

LEMMA InitKnowsProcess == WatchdogInit => KnowsProcess
<1> SUFFICES ASSUME WatchdogInit PROVE KnowsProcess
  OBVIOUS
<1>1. /\ now = 0 /\ found = NoLook /\ lastPoll = now - Poll /\ since = now /\ steadyAt = Never
  BY DEF WatchdogInit, Init
<1>2. ~(lastPoll > since) /\ ~(now - since > Blind)
  BY <1>1, Paced
<1>3. found.process = "unknown" /\ found.lastRunning <= since
  BY <1>1 DEF NoLook, Never
<1> QED
  BY <1>1, <1>2, <1>3 DEF KnowsProcess, Steady

LEMMA NextKnowsProcess ==
  ASSUME Parts, Punctual, BeatsNow, Dated, KnowsProcess, [WatchdogNext]_wvars
  PROVE  KnowsProcess'
<1> SUFFICES ASSUME watched' = "process" PROVE KnowsProcess'
  BY DEF KnowsProcess
<1>1. watched = "process" /\ AsConfigured
  BY StepKinds, AroundKeeps DEF Parts, Turn, Accept, TimePasses, wvars, outside
<1>2. /\ now \in Nat /\ since \in Nat /\ since <= now /\ Blind \in Nat \ {0}
      /\ lastPoll \in Int /\ lastPoll <= now /\ now - lastPoll <= Blind
      /\ found.lastRunning \in Int /\ found.lastRunning <= now
      /\ Steady \in Int
  BY <1>1, Times, Paced DEF Dated, Looks, Never, Steady
<1>3. /\ lastPoll > since => found.process # "unknown" /\ (found.process = "running" <=> Good)
      /\ found.process = "running" => found.lastRunning = lastPoll
      /\ ~Good => found.lastRunning <= since
      /\ Steady # Never => found.lastRunning # Never /\ found.lastRunning >= Steady - Blind
  BY <1>1 DEF KnowsProcess
<1>4. CASE Changing
  <2>1. /\ since' = now /\ now' = now /\ UNCHANGED <<found, lastPoll>> /\ Steady' = Steady
    BY <1>1, <1>4, ChangeDoes, SteadyNext DEF vars, watcher
  <2>2. ~(lastPoll' > since') /\ found'.lastRunning <= since'
    BY <1>2, <2>1
  <2> QED
    BY <1>3, <2>1, <2>2 DEF KnowsProcess
<1>5. CASE Stop \/ Write \/ Turn \/ Accept \/ UNCHANGED wvars
  <2>1. UNCHANGED <<found, lastPoll, since>>
    BY <1>5 DEF Stop, Write, Turn, Accept, wvars, watcher, noticed
  <2>2. Steady' = Steady /\ (Good' <=> Good)
    BY <1>1, <1>5, SteadyNext
  <2> QED
    BY <1>3, <2>1, <2>2 DEF KnowsProcess
<1>6. CASE Look
  <2>1. /\ lastPoll' = now /\ UNCHANGED since
        /\ found'.process = ReadPidfile(pidfile, processes)
        /\ found'.lastRunning = IF found'.process = "running" THEN now ELSE found.lastRunning
    BY <1>1, <1>2, <1>6, LookDoes
  <2>2. Steady' = Steady /\ (Good' <=> Good)
    BY <1>1, <1>6, SteadyNext
  <2>3. found'.process # "unknown" /\ (found'.process = "running" <=> Good)
    BY <1>1, <2>1, GoodMeans DEF ReadPidfile, NamesProcess
  <2>4. (found'.lastRunning # Never /\ found'.lastRunning >= Steady - Blind) \/ Steady = Never
    <3>1. CASE found'.process = "running" /\ Steady # Never
      <4>1. PICK last, steady : last = found.lastRunning /\ steady = Steady
        OBVIOUS
      <4>2. now >= steady - Blind
        BY <1>2, <1>3, <3>1, <4>1
      <4> QED
        BY <1>2, <2>1, <3>1, <4>1, <4>2 DEF Never
    <3> QED
      BY <1>3, <2>1, <3>1
  <2> QED
    BY <1>3, <2>1, <2>2, <2>3, <2>4 DEF KnowsProcess
<1>7. CASE TimePasses
  <2>1. /\ now' = now + 1 /\ UNCHANGED <<found, lastPoll, since>>
        /\ now - lastPoll < Blind
    BY <1>1, <1>7 DEF TimePasses, Tick, watcher, noticed
  <2>2. /\ Good' <=> Good
        /\ IF Good /\ now + 1 - since > Blind THEN Steady' = now + 1
                                              ELSE Steady' = Steady
    BY <1>1, <1>7, SteadyNext
  <2>3. CASE Good /\ now + 1 - since > Blind
    <3>1. lastPoll > since
      BY <1>2, <2>1, <2>3
    <3>2. found.lastRunning = lastPoll /\ lastPoll >= (now + 1) - Blind /\ lastPoll # Never
      BY <1>2, <1>3, <2>1, <2>3, <3>1 DEF Never
    <3> QED
      BY <1>3, <2>1, <2>2, <2>3, <3>2 DEF KnowsProcess
  <2>4. CASE ~(Good /\ now + 1 - since > Blind)
    BY <1>3, <2>1, <2>2, <2>4 DEF KnowsProcess
  <2> QED
    BY <2>3, <2>4
<1>8. ~LogError /\ ~Arrive /\ ~RecordBeat
  <2>1. ~RecordBeat
    BY <1>1, BeatDoes
  <2> QED
    BY <1>1, <2>1 DEF LogError, Arrive
<1> QED
  BY <1>4, <1>5, <1>6, <1>7, <1>8 DEF WatchdogNext, Changing

\* A log or an output: as it is, if it was looked at since it changed, and when it was
\* written, if it was looked at since that; that an error is not older than the last
\* look at it; that a file that is written is never found older than its pace.
KnowsFile ==
    IsFile =>
        /\ lastPoll > since => found.file = onDisk
        /\ lastPoll > since /\ lastPoll > mtime /\ IsPresent(onDisk) => found.modified = mtime
        /\ found.lastError <= since + Blind
        /\ ~IsPresent(onDisk) => found.lastError <= since
        /\ matching /\ IsPresent(onDisk) => lastPoll <= since
        /\ pace # 0 /\ IsPresent(onDisk) => now - mtime <= pace
        /\ pace # 0 /\ IsPresent(found.file) => lastPoll - found.modified <= pace
        /\ IsPresent(found.file) => found.everSeen
        /\ Steady # Never => found.everSeen
        /\ found.file \in {"missing", "unreadable"} => misses >= 1

LEMMA InitKnowsFile == WatchdogInit => KnowsFile
<1> SUFFICES ASSUME WatchdogInit PROVE KnowsFile
  OBVIOUS
<1>1. /\ now = 0 /\ found = NoLook /\ lastPoll = now - Poll /\ since = now /\ steadyAt = Never
      /\ matching = FALSE
      /\ pace \in IF IsFile THEN Paces \cup {0} ELSE {0}
      /\ mtime \in IF IsFile /\ pace = 0 THEN {now, now - StaleAfter} ELSE {now}
  BY DEF WatchdogInit, Init
<1>2. ~(lastPoll > since) /\ ~(now - since > Blind)
  BY <1>1, Paced
<1>3. found.file = "unknown" /\ found.lastError = Never
  BY <1>1 DEF NoLook
<1>4. found.lastError <= since /\ found.lastError <= since + Blind
  BY <1>1, <1>3, Paced DEF Never
<1>5. pace # 0 => now - mtime <= pace
  BY <1>1, WatchdogAssumption
<1>6. Steady = Never
  BY <1>1, <1>2 DEF Steady
<1> QED
  BY <1>1, <1>2, <1>3, <1>4, <1>5, <1>6 DEF KnowsFile, IsPresent

LEMMA NextKnowsFile ==
  ASSUME Parts, Punctual, BeatsNow, Dated, KnowsFile, [WatchdogNext]_wvars
  PROVE  KnowsFile'
<1>1. watched' = watched /\ AsConfigured
  BY StepKinds, AroundKeeps DEF Parts, Turn, Accept, TimePasses, wvars, outside
<1> SUFFICES ASSUME IsFile PROVE KnowsFile'
  BY <1>1 DEF KnowsFile, IsFile
<1>2. /\ now \in Nat /\ since \in Nat /\ since <= now /\ Blind \in Nat \ {0}
      /\ lastPoll \in Int /\ lastPoll <= now /\ now - lastPoll <= Blind
      /\ mtime \in Int /\ mtime <= now /\ pace \in Nat
      /\ found.lastError \in Int /\ found.lastError <= now
      /\ found.modified \in Int
      /\ onDisk \in FileFinding /\ matching \in BOOLEAN /\ misses \in Nat
      /\ watched # "beats" /\ watched # "process"
      /\ Steady \in Int /\ steadyAt \in Int
  BY Times, Paced DEF Dated, Looks, Never, Steady, IsFile
<1>3. /\ lastPoll > since => found.file = onDisk
      /\ lastPoll > since /\ lastPoll > mtime /\ IsPresent(onDisk) => found.modified = mtime
      /\ found.lastError <= since + Blind
      /\ ~IsPresent(onDisk) => found.lastError <= since
      /\ matching /\ IsPresent(onDisk) => lastPoll <= since
      /\ pace # 0 /\ IsPresent(onDisk) => now - mtime <= pace
      /\ pace # 0 /\ IsPresent(found.file) => lastPoll - found.modified <= pace
      /\ IsPresent(found.file) => found.everSeen
      /\ Steady # Never => found.everSeen
      /\ found.file \in {"missing", "unreadable"} => misses >= 1
  BY DEF KnowsFile
<1>4. PICK error : error = found.lastError
  OBVIOUS
<1>5. CASE Changing
  <2>1. /\ since' = now /\ now' = now /\ UNCHANGED <<found, lastPoll, pace, matching, misses>>
        /\ Steady' = Steady
        /\ mtime' = IF IsPresent(onDisk) THEN mtime ELSE now
    BY <1>2, <1>5, ChangeDoes, SteadyNext DEF vars, watcher
  <2>2. ~(lastPoll' > since') /\ found'.lastError <= since' /\ found'.lastError <= since' + Blind
        /\ lastPoll' <= since'
    BY <1>2, <1>4, <2>1
  <2>3. pace' # 0 => now' - mtime' <= pace'
    BY <1>2, <1>3, <2>1
  <2> QED
    BY <1>3, <2>1, <2>2, <2>3 DEF KnowsFile
<1>6. CASE Stop
  <2>1. pace' = 0 /\ UNCHANGED <<now, found, lastPoll, since, onDisk, mtime, matching, misses>>
    BY <1>6 DEF Stop, watcher, vars
  <2>2. Steady' = Steady
    BY <1>2, <1>6, SteadyNext
  <2> QED
    BY <1>3, <2>1, <2>2 DEF KnowsFile
<1>7. CASE LogError
  <2>1. /\ since' = now /\ mtime' = now /\ IsPresent(onDisk)
        /\ UNCHANGED <<now, found, lastPoll, onDisk, pace, misses>>
    BY <1>7 DEF LogError, vars, watcher
  <2>2. Steady' = steadyAt
    BY <1>2, <1>7, SteadyNext
  <2>3. steadyAt # Never => Steady # Never
    BY <1>2 DEF Steady, Never
  <2>4. ~(lastPoll' > since') /\ found'.lastError <= since' /\ found'.lastError <= since' + Blind
        /\ lastPoll' <= since' /\ now' - mtime' <= pace'
    BY <1>2, <1>4, <2>1
  <2> QED
    BY <1>3, <2>1, <2>2, <2>3, <2>4 DEF KnowsFile
<1>8. CASE Write
  <2>1. /\ mtime' = now /\ IsPresent(onDisk)
        /\ UNCHANGED <<now, found, lastPoll, since, onDisk, pace, matching, misses>>
    BY <1>8 DEF Write, WriteDue, vars, watcher, noticed
  <2>2. Steady' = Steady
    BY <1>2, <1>8, SteadyNext
  <2>3. ~(lastPoll' > mtime') /\ now' - mtime' <= pace'
    BY <1>2, <2>1
  <2> QED
    BY <1>3, <2>1, <2>2, <2>3 DEF KnowsFile
<1>9. CASE Look
  <2>1. /\ lastPoll' = now /\ found'.file = onDisk
        /\ IsPresent(onDisk) => found'.modified = mtime
        /\ found'.everSeen = (found.everSeen \/ IsPresent(onDisk))
        /\ found'.lastError = IF watched = "log" /\ matching /\ IsPresent(onDisk)
                              THEN now ELSE found.lastError
        /\ matching' = (matching /\ ~IsPresent(onDisk))
        /\ misses' = IF onDisk \in {"missing", "unreadable"} THEN misses + 1 ELSE 0
        /\ now' = now /\ UNCHANGED <<onDisk, pace, mtime, since>>
    BY <1>1, <1>2, <1>9, LookDoes DEF vars
  <2>2. Steady' = Steady
    BY <1>2, <1>9, SteadyNext
  <2>3. /\ found'.lastError <= since' + Blind
        /\ ~IsPresent(onDisk) => found'.lastError <= since'
    <3>1. CASE watched = "log" /\ matching /\ IsPresent(onDisk)
      <4>1. lastPoll <= since
        BY <1>3, <3>1
      <4>2. now <= since + Blind
        BY <1>2, <4>1
      <4> QED
        BY <1>2, <2>1, <3>1, <4>2
    <3>2. CASE ~(watched = "log" /\ matching /\ IsPresent(onDisk))
      BY <1>3, <2>1, <3>2
    <3> QED
      BY <3>1, <3>2
  <2>4. ~(matching' /\ IsPresent(onDisk'))
    BY <2>1
  <2>5. /\ pace' # 0 /\ IsPresent(onDisk') => now' - mtime' <= pace'
        /\ pace' # 0 /\ IsPresent(found'.file) => lastPoll' - found'.modified <= pace'
    BY <1>3, <2>1
  <2>6. /\ IsPresent(found'.file) => found'.everSeen
        /\ Steady' # Never => found'.everSeen
    BY <1>3, <2>1, <2>2
  <2>7. found'.file \in {"missing", "unreadable"} => misses' >= 1
    BY <1>2, <2>1
  <2> QED
    BY <2>1, <2>3, <2>4, <2>5, <2>6, <2>7 DEF KnowsFile
<1>10. CASE TimePasses
  <2>1. /\ now' = now + 1 /\ now - lastPoll < Blind /\ ~WriteDue
        /\ UNCHANGED <<found, lastPoll, since, onDisk, mtime, pace, matching, misses>>
    BY <1>2, <1>10 DEF TimePasses, Tick, watcher, noticed, outside
  <2>2. pace' # 0 /\ IsPresent(onDisk') => now' - mtime' <= pace'
    BY <1>2, <2>1 DEF WriteDue
  <2>3. /\ Good' <=> Good
        /\ IF Good /\ now + 1 - since > Blind THEN Steady' = now + 1
                                              ELSE Steady' = Steady
    BY <1>2, <1>10, SteadyNext
  <2>4. Steady' # Never => found'.everSeen
    <3>1. CASE Good /\ now + 1 - since > Blind
      <4>1. lastPoll > since
        BY <1>2, <2>1, <3>1
      <4>2. found.file = onDisk /\ onDisk = "present"
        BY <1>3, <3>1, <4>1 DEF Good, IsFile
      <4> QED
        BY <1>3, <2>1, <4>2 DEF IsPresent
    <3>2. CASE ~(Good /\ now + 1 - since > Blind)
      BY <1>3, <2>1, <2>3, <3>2
    <3> QED
      BY <3>1, <3>2
  <2> QED
    BY <1>3, <2>1, <2>2, <2>4 DEF KnowsFile
<1>11. CASE Turn \/ Accept \/ UNCHANGED wvars
  <2>1. UNCHANGED <<now, found, lastPoll, since, onDisk, mtime, pace, matching, misses>>
    BY <1>11 DEF Turn, Accept, Cycle, SendOk, wvars, vars, watcher, noticed, outside
  <2>2. Steady' = Steady
    BY <1>2, <1>11, SteadyNext
  <2> QED
    BY <1>3, <2>1, <2>2 DEF KnowsFile
<1>12. ~Arrive /\ ~RecordBeat
  <2>1. ~RecordBeat
    BY <1>2, BeatDoes
  <2> QED
    BY <1>2, <2>1 DEF Arrive
<1> QED
  BY <1>5, <1>6, <1>7, <1>8, <1>9, <1>10, <1>11, <1>12 DEF WatchdogNext, Changing

-----------------------------------------------------------------------------
(* What is wrong is reported *)

Reportable == {"process-absent", "log-missing", "log-stale", "output-missing",
               "output-too-small", "output-stale", NoHeartbeat}

\* What c is the report of.
Trouble(c) ==
    CASE c = "process-absent" -> watched = "process" /\ ~Good
      [] c = "log-missing" -> watched = "log" /\ onDisk \in {"missing", "unreadable"}
      [] c = "log-stale" -> watched = "log" /\ Good
      [] c = "output-missing" -> watched = "artifact" /\ onDisk \in {"missing", "unreadable"}
      [] c = "output-too-small" -> watched = "artifact" /\ onDisk = "small"
      [] c = "output-stale" -> watched = "artifact" /\ Good
      [] c = NoHeartbeat -> watched = "beats"

\* The time after which every turn reports it.
Visible(c) ==
    CASE c = "process-absent" -> since + Later(AbsentAfter, Blind)
      [] c = "log-missing" -> since + Later(StaleAfter, Blind)
      [] c = "log-stale" -> Later(since, mtime) + Later(Blind + StaleAfter, Blind)
      [] c = "output-missing" ->
            since + Later(IF Steady = Never THEN StaleAfter ELSE Blind, Blind)
      [] c = "output-too-small" -> since + Later(Blind, Blind)
      [] c = "output-stale" -> Later(since, mtime) + Later(StaleAfter, Blind)
      [] c = NoHeartbeat -> heard + AliveWarn

\* It has reported c since no more than a turn after b.
ReportedSince(c, b) ==
    cycleAt > b => /\ <<TheJob, c>> \in DOMAIN wrong
                   /\ spell[<<TheJob, c>>].from <= b + 1 + Slack

Reporting == \A c \in Reportable : Trouble(c) => ReportedSince(c, Visible(c))

LEMMA ReportableNamed ==
  /\ Reportable \subseteq Condition
  /\ NoHeartbeat \notin {"process-absent", "log-missing", "log-stale", "output-missing",
                         "output-too-small", "output-stale", "logged-error"}
  /\ \A c \in Reportable : <<TheJob, c>> \in Key
<1>1. Reportable \subseteq Condition
  BY ConditionsAssumption, NamesAssumption DEF Reportable, PassiveCondition
<1>2. NoHeartbeat \notin {"process-absent", "log-missing", "log-stale", "output-missing",
                         "output-too-small", "output-stale", "logged-error"}
  BY ConditionsAssumption DEF PassiveCondition
<1> QED
  BY <1>1, <1>2, TheJobIs DEF Key

LEMMA Stale == AbsentAfter \in Nat /\ StaleAfter \in Nat \ {0}
  BY PassiveAssumption

LEMMA VisibleTyped ==
  ASSUME Parts, Punctual, Dated, NEW c \in Reportable
  PROVE  Visible(c) \in Int
<1>1. /\ since \in Nat /\ mtime \in Int /\ heard \in Nat /\ AliveWarn \in Nat
      /\ Blind \in Nat /\ AbsentAfter \in Nat /\ StaleAfter \in Nat
  BY SilenceIsTrue, Alive, Paced, Stale DEF Dated
<1>3. /\ Later(AbsentAfter, Blind) \in Int /\ Later(StaleAfter, Blind) \in Int
      /\ Later(Blind, Blind) \in Int /\ Later(since, mtime) \in Int
      /\ Later(Blind + StaleAfter, Blind) \in Int
  BY <1>1 DEF Later
<1>4. CASE c \in {"process-absent", "log-missing", "log-stale"}
  BY <1>1, <1>3, <1>4, ReportableNamed DEF Visible
<1>5. CASE c \in {"output-too-small", "output-stale"}
  BY <1>1, <1>3, <1>5, ReportableNamed DEF Visible
<1>6. CASE c = "output-missing"
  <2>1. PICK d : d = IF Steady = Never THEN StaleAfter ELSE Blind
    OBVIOUS
  <2>2. Later(d, Blind) \in Int
    BY <1>1, <2>1 DEF Later
  <2>3. Visible(c) = since + Later(d, Blind)
    BY <1>6, <2>1, ReportableNamed DEF Visible
  <2> QED
    BY <1>1, <2>2, <2>3
<1>7. CASE c = NoHeartbeat
  BY <1>1, <1>7, ReportableNamed DEF Visible
<1> QED
  BY <1>4, <1>5, <1>6, <1>7 DEF Reportable

\* A turn after that time finds it.
LEMMA TroubleIsSeen ==
  ASSUME Parts, Punctual, Dated, KnowsProcess, KnowsFile,
         NEW c \in Reportable, Trouble(c), now > Visible(c)
  PROVE  c \in Conditions(now)
<1>1. /\ now \in Nat /\ since \in Nat /\ since <= now /\ Blind \in Nat \ {0}
      /\ AbsentAfter \in Nat /\ StaleAfter \in Nat \ {0}
      /\ mtime \in Int /\ mtime <= now /\ lastPoll \in Int
      /\ watched # "beats" => lastPoll <= now /\ now - lastPoll <= Blind
      /\ found.lastRunning \in Int /\ found.lastError \in Int
      /\ found \in Looks /\ started = 0 /\ AsConfigured
  BY Times, Paced, Stale DEF Dated, Looks, Never, Punctual, Parts
<1>2. \A x, y \in Int : Later(x, y) >= x /\ Later(x, y) >= y /\ Later(x, y) \in Int
  BY DEF Later
<1>3. /\ \A x, y, z \in Int : x > y + Later(z, Blind) => x - y > z /\ x - y > Blind
      /\ \A x, y, z, d \in Int :
            x > Later(y, z) + Later(d, Blind) =>
                x - y > d /\ x - z > d /\ x - y > Blind /\ x - z > Blind
      /\ \A x, y, d \in Int : x - y >= d /\ d >= 0 => Since(y, x) >= d
  BY <1>1 DEF Later, Since
<1>4. /\ IsFile <=> watched \in {"log", "artifact"}
      /\ watched # "beats" /\ now - since > Blind => lastPoll > since
      /\ watched # "beats" /\ now - mtime > Blind => lastPoll > mtime
  BY <1>1 DEF IsFile
<1>5. PICK running, error : running = found.lastRunning /\ error = found.lastError
  OBVIOUS
<1>6. CASE c = "process-absent"
  <2>1. watched = "process" /\ ~Good /\ now > since + Later(AbsentAfter, Blind)
    BY <1>6, ReportableNamed DEF Trouble, Visible
  <2>2. now - since > AbsentAfter /\ now - since > Blind
    BY <1>1, <1>3, <2>1
  <2>3. found.process \notin {"unknown", "running"} /\ found.lastRunning <= since
    BY <1>4, <2>1, <2>2 DEF KnowsProcess
  <2>4. Since(IF found.lastRunning = Never THEN started ELSE found.lastRunning, now) >= AbsentAfter
    <3>1. CASE running = Never
      <4>1. now - started >= AbsentAfter
        BY <1>1, <2>2
      <4> QED
        BY <1>1, <1>3, <1>5, <3>1, <4>1
    <3>2. CASE running # Never
      <4>1. now - running >= AbsentAfter
        BY <1>1, <1>5, <2>2, <2>3
      <4> QED
        BY <1>1, <1>3, <1>5, <3>2, <4>1
    <3> QED
      BY <3>1, <3>2
  <2> QED
    BY <1>6, <2>1, <2>3, <2>4 DEF Conditions, ProcessAbsent
<1>7. CASE c = "log-missing"
  <2>1. /\ watched = "log" /\ onDisk \in {"missing", "unreadable"}
        /\ now > since + Later(StaleAfter, Blind)
    BY <1>7, ReportableNamed DEF Trouble, Visible
  <2>2. now - since > StaleAfter /\ now - since > Blind
    BY <1>1, <1>3, <2>1
  <2>3. found.file = onDisk /\ found.lastError <= since
    BY <1>4, <2>1, <2>2 DEF KnowsFile, IsPresent
  <2>4. ~LoggedError(found, now)
    <3>1. now - error >= StaleAfter
      BY <1>1, <1>5, <2>2, <2>3
    <3>2. Since(error, now) >= StaleAfter
      BY <1>1, <1>3, <1>5, <3>1
    <3>3. Since(error, now) \in Int
      BY <1>1, <1>5 DEF Since
    <3> QED
      BY <1>1, <1>5, <3>2, <3>3 DEF LoggedError
  <2>5. FileMissing(found, started, now)
    <3>1. now - started >= StaleAfter
      BY <1>1, <2>2
    <3>2. Since(started, now) >= StaleAfter
      BY <1>1, <1>3, <3>1
    <3> QED
      BY <2>1, <2>3, <3>2 DEF FileMissing
  <2> QED
    BY <1>7, <2>1, <2>4, <2>5 DEF Conditions, LogConditions
<1>8. CASE c = "log-stale"
  <2>1. /\ watched = "log" /\ onDisk = "present"
        /\ now > Later(since, mtime) + Later(Blind + StaleAfter, Blind)
    BY <1>8, GoodMeans, ReportableNamed DEF Trouble, Visible
  <2>2. /\ now - since > Blind + StaleAfter /\ now - mtime > Blind + StaleAfter
        /\ now - since > Blind /\ now - mtime > Blind
    BY <1>1, <1>3, <2>1
  <2>3. found.file = onDisk /\ found.modified = mtime /\ found.lastError <= since + Blind
    BY <1>4, <2>1, <2>2 DEF KnowsFile, IsPresent
  <2>4. ~LoggedError(found, now)
    <3>1. now - error >= StaleAfter
      BY <1>1, <1>5, <2>2, <2>3
    <3>2. Since(error, now) >= StaleAfter
      BY <1>1, <1>3, <1>5, <3>1
    <3>3. Since(error, now) \in Int
      BY <1>1, <1>5 DEF Since
    <3> QED
      BY <1>1, <1>5, <3>2, <3>3 DEF LoggedError
  <2>5. FileStale(found, now)
    <3>1. now - mtime >= StaleAfter
      BY <1>1, <2>2
    <3>2. Since(mtime, now) >= StaleAfter
      BY <1>1, <1>3, <3>1
    <3> QED
      BY <2>1, <2>3, <3>2 DEF FileStale
  <2>6. ~FileMissing(found, started, now)
    BY <2>1, <2>3 DEF FileMissing
  <2> QED
    BY <1>8, <2>1, <2>4, <2>5, <2>6 DEF Conditions, LogConditions
<1>9. CASE c = "output-missing"
  <2>1. /\ watched = "artifact" /\ onDisk \in {"missing", "unreadable"}
        /\ now > since + Later(IF Steady = Never THEN StaleAfter ELSE Blind, Blind)
    BY <1>9, ReportableNamed DEF Trouble, Visible
  <2>2. PICK d : d = IF Steady = Never THEN StaleAfter ELSE Blind
    OBVIOUS
  <2>3. now - since > d /\ now - since > Blind /\ d \in Nat
    BY <1>1, <1>3, <2>1, <2>2
  <2>4. found.file = onDisk /\ (Steady # Never => found.everSeen)
    BY <1>4, <2>1, <2>3 DEF KnowsFile
  <2>5. FileMissing(found, started, now)
    <3>1. CASE Steady = Never
      <4>1. now - started >= StaleAfter
        BY <1>1, <2>2, <2>3, <3>1
      <4>2. Since(started, now) >= StaleAfter
        BY <1>1, <1>3, <4>1
      <4> QED
        BY <2>1, <2>4, <4>2 DEF FileMissing
    <3>2. CASE Steady # Never
      BY <2>1, <2>4, <3>2 DEF FileMissing
    <3> QED
      BY <3>1, <3>2
  <2> QED
    BY <1>9, <2>1, <2>4, <2>5 DEF Conditions, ArtifactConditions
<1>10. CASE c = "output-too-small"
  <2>1. watched = "artifact" /\ onDisk = "small" /\ now > since + Later(Blind, Blind)
    BY <1>10, ReportableNamed DEF Trouble, Visible
  <2>2. now - since > Blind
    BY <1>1, <1>3, <2>1
  <2>3. found.file = "small"
    BY <1>4, <2>1, <2>2 DEF KnowsFile
  <2> QED
    BY <1>10, <2>1, <2>3 DEF Conditions, ArtifactConditions
<1>11. CASE c = "output-stale"
  <2>1. /\ watched = "artifact" /\ onDisk = "present"
        /\ now > Later(since, mtime) + Later(StaleAfter, Blind)
    BY <1>11, GoodMeans, ReportableNamed DEF Trouble, Visible
  <2>2. /\ now - mtime > StaleAfter /\ now - since > Blind /\ now - mtime > Blind
    BY <1>1, <1>3, <2>1
  <2>3. found.file = onDisk /\ found.modified = mtime
    BY <1>4, <2>1, <2>2 DEF KnowsFile, IsPresent
  <2>4. FileStale(found, now)
    <3>1. Since(mtime, now) >= StaleAfter
      BY <1>1, <1>3, <2>2
    <3> QED
      BY <2>1, <2>3, <3>1 DEF FileStale
  <2>5. ~FileMissing(found, started, now)
    BY <2>1, <2>3 DEF FileMissing
  <2> QED
    BY <1>11, <2>1, <2>3, <2>4, <2>5 DEF Conditions, ArtifactConditions
<1>12. CASE c = NoHeartbeat
  <2>1. watched = "beats" /\ now > heard + AliveWarn
    BY <1>12, ReportableNamed DEF Trouble, Visible
  <2>2. now - heard >= AliveWarn
    BY <1>1, <2>1, SilenceIsTrue, Alive
  <2> QED
    BY <1>12, <2>1, <2>2, BeatsJudged
<1> QED
  BY <1>6, <1>7, <1>8, <1>9, <1>10, <1>11, <1>12 DEF Reportable

\* Between two turns that time is only put off.
LEMMA TroubleKept ==
  ASSUME Parts, Punctual, BeatsNow, Dated, [WatchdogNext]_wvars, ~Turn,
         NEW c \in Reportable, Trouble(c)', cycleAt' > Visible(c)'
  PROVE  Trouble(c) /\ Visible(c) = Visible(c)'
<1>1. /\ now \in Nat /\ since \in Nat /\ since <= now /\ Blind \in Nat \ {0}
      /\ AbsentAfter \in Nat /\ StaleAfter \in Nat \ {0}
      /\ mtime \in Int /\ mtime <= now /\ heard \in Nat /\ heard <= now
      /\ AliveWarn \in Nat
      /\ cycleAt \in Int /\ cycleAt <= now /\ AsConfigured
  BY Times, Paced, Stale, SilenceIsTrue, Alive DEF Dated, Punctual, Parts, NoTime
<1>2. cycleAt' = cycleAt /\ watched' = watched
  BY StepKinds, AroundKeeps, AcceptDoes
     DEF Accept, TimePasses, Tick, wvars, vars, program, outside
<1>4. c # NoHeartbeat <=> watched # "beats"
  BY <1>2, ReportableNamed DEF Trouble, Reportable
<1>5. ASSUME since' = now, mtime' \in Int
      PROVE  c = NoHeartbeat
  <2> SUFFICES ASSUME c # NoHeartbeat PROVE Visible(c)' >= now /\ Visible(c)' \in Int
    BY <1>1, <1>2
  <2>1. /\ Later(AbsentAfter, Blind) \in Nat /\ Later(StaleAfter, Blind) \in Nat
        /\ Later(Blind, Blind) \in Nat /\ Later(Blind + StaleAfter, Blind) \in Nat
        /\ Later(since', mtime') >= now /\ Later(since', mtime') \in Int
    BY <1>1, <1>5 DEF Later
  <2>2. CASE c \in {"process-absent", "log-missing", "output-too-small"}
    BY <1>1, <1>5, <2>1, <2>2, ReportableNamed DEF Visible
  <2>3. CASE c \in {"log-stale", "output-stale"}
    BY <1>1, <2>1, <2>3, ReportableNamed DEF Visible
  <2>4. CASE c = "output-missing"
    <3>1. PICK d : d = IF Steady' = Never THEN StaleAfter ELSE Blind
      OBVIOUS
    <3>2. Later(d, Blind) \in Nat
      BY <1>1, <3>1 DEF Later
    <3>3. Visible(c)' = since' + Later(d, Blind)
      BY <2>4, <3>1, ReportableNamed DEF Visible
    <3> QED
      BY <1>1, <1>5, <3>2, <3>3
  <2> QED
    BY <2>2, <2>3, <2>4 DEF Reportable
<1>6. ASSUME mtime' = now, since' \in Int
      PROVE  c \notin {"log-stale", "output-stale"}
  <2> SUFFICES ASSUME c \in {"log-stale", "output-stale"}
               PROVE  Visible(c)' >= now /\ Visible(c)' \in Int
    BY <1>1, <1>2
  <2>1. /\ Later(StaleAfter, Blind) \in Nat /\ Later(Blind + StaleAfter, Blind) \in Nat
        /\ Later(since', mtime') >= now /\ Later(since', mtime') \in Int
    BY <1>1, <1>6 DEF Later
  <2> QED
    BY <1>1, <2>1, ReportableNamed DEF Visible
<1>7. ASSUME UNCHANGED <<since, onDisk>>, watched # "beats", Good' <=> Good,
             mtime' = mtime \/ c \notin {"log-stale", "output-stale"},
             Steady' = Steady \/ Good
      PROVE  Trouble(c) /\ Visible(c) = Visible(c)'
  <2>1. Trouble(c)
    <3>1. CASE c \in {"process-absent", "log-missing", "log-stale"}
      BY <1>2, <1>7, <3>1, ReportableNamed DEF Trouble
    <3>2. CASE c \in {"output-missing", "output-too-small", "output-stale"}
      BY <1>2, <1>7, <3>2, ReportableNamed DEF Trouble
    <3> QED
      BY <1>4, <1>7, <3>1, <3>2 DEF Reportable
  <2>2. CASE c \in {"process-absent", "log-missing", "output-too-small"}
    BY <1>7, <2>1, <2>2, ReportableNamed DEF Visible
  <2>3. CASE c \in {"log-stale", "output-stale"}
    BY <1>7, <2>1, <2>3, ReportableNamed DEF Visible
  <2>4. CASE c = "output-missing"
    <3>1. ~Good
      BY <2>1, <2>4, GoodMeans, ReportableNamed DEF Trouble
    <3> QED
      BY <1>7, <2>1, <2>4, <3>1, ReportableNamed DEF Visible
  <2> QED
    BY <1>4, <1>7, <2>2, <2>3, <2>4 DEF Reportable
<1>8. CASE Changing
  <2>1. watched # "beats" /\ since' = now /\ mtime' \in Int
    BY <1>1, <1>8, ChangeDoes DEF Changing, ChangeProcesses, ChangePidfile, ChangeFile, IsFile
  <2> QED
    BY <1>4, <1>5, <2>1
<1>9. CASE LogError
  <2>1. watched # "beats" /\ since' = now /\ mtime' \in Int
    BY <1>1, <1>9 DEF LogError
  <2> QED
    BY <1>4, <1>5, <2>1
<1>10. CASE Write
  <2>1. UNCHANGED <<since, onDisk, heard>> /\ mtime' = now
    BY <1>10 DEF Write, beating, noticed
  <2>2. CASE watched = "beats"
    BY <1>2, <1>4, <2>1, <2>2, ReportableNamed DEF Trouble, Visible
  <2>3. CASE watched # "beats"
    <3>1. Steady' = Steady /\ (Good' <=> Good)
      BY <1>10, <2>3, SteadyNext
    <3>2. c \notin {"log-stale", "output-stale"}
      BY <1>1, <1>6, <2>1
    <3> QED
      BY <1>7, <2>1, <2>3, <3>1, <3>2
  <2> QED
    BY <2>2, <2>3
<1>11. CASE Stop \/ Look \/ Accept \/ TimePasses \/ UNCHANGED wvars
  <2>1. UNCHANGED <<since, onDisk, heard, mtime>>
    BY <1>11 DEF Stop, Look, Accept, TimePasses, wvars, outside, beating, noticed
  <2>2. CASE watched = "beats"
    BY <1>2, <1>4, <2>1, <2>2, ReportableNamed DEF Trouble, Visible
  <2>3. CASE watched # "beats"
    <3>1. (Steady' = Steady \/ Good) /\ (Good' <=> Good)
      BY <1>11, <2>3, SteadyNext
    <3> QED
      BY <1>7, <2>1, <2>3, <3>1
  <2> QED
    BY <2>2, <2>3
<1>12. CASE Arrive
  <2>1. heard' = heard /\ watched = "beats"
    BY <1>12, SameJob DEF Arrive, Proved!Arrive
  <2> QED
    BY <1>2, <1>4, <2>1, ReportableNamed DEF Trouble, Visible
<1>13. CASE RecordBeat
  <2>1. heard' = now /\ watched = "beats"
    BY <1>13, BeatDoes
  <2>2. Visible(c)' = now + AliveWarn
    BY <1>4, <2>1, ReportableNamed DEF Visible
  <2> QED
    BY <1>1, <1>2, <2>2
<1> QED
  BY <1>8, <1>9, <1>10, <1>11, <1>12, <1>13 DEF WatchdogNext, Changing

\* What every turn after b finds has been reported since the first of them.
LEMMA TurnReports ==
  ASSUME Roomy, Parts, Punctual, Past, Turn, NEW c \in Condition, NEW b \in Int,
         ReportedSince(c, b), now > b => c \in Conditions(now)
  PROVE  cycleAt' > b => /\ <<TheJob, c>> \in DOMAIN wrong'
                         /\ spell'[<<TheJob, c>>].from <= b + 1 + Slack
<1> SUFFICES ASSUME cycleAt' > b
             PROVE  /\ <<TheJob, c>> \in DOMAIN wrong'
                    /\ spell'[<<TheJob, c>>].from <= b + 1 + Slack
  OBVIOUS
<1>1. PICK a : a = Verdicts(now)
  OBVIOUS
<1>2. /\ a \in Assessments /\ Cycle(a) /\ DOMAIN a = {TheJob} \X Conditions(now)
      /\ cycleAt' = now /\ wrong' = a
  BY <1>1, TurnDoes
<1>3. PICK k : k = <<TheJob, c>>
  OBVIOUS
<1>4. k \in DOMAIN a
  BY <1>2, <1>3
<1>5. /\ now \in Nat /\ cycleAt \in Int /\ now <= cycleAt + 1 + Slack /\ Slack \in Nat
  BY Times, Paced DEF Punctual, NoTime
<1>6. CASE k \in DOMAIN wrong
  <2>1. spell'[k].from = spell[k].from
    BY <1>2, <1>4, <1>6, TurnOfKey
  <2>2. k \in DOMAIN spell /\ spell[k].from \in Nat /\ spell[k].from <= cycleAt
    BY <1>6, BoundsAssumption DEF Parts, Inv, WellFormed, TypeOK, IsPartialMap, Spell, Time, Past
  <2>3. PICK t : t = spell[k].from
    OBVIOUS
  <2>4. t <= b + 1 + Slack
    BY <1>3, <1>5, <2>2, <2>3 DEF ReportedSince
  <2> QED
    BY <1>2, <1>3, <1>4, <2>1, <2>3, <2>4
<1>7. CASE k \notin DOMAIN wrong
  <2>1. spell'[k].from = now
    BY <1>2, <1>4, <1>7, TurnOfKey
  <2>2. ~(cycleAt > b)
    BY <1>3, <1>7 DEF ReportedSince
  <2> QED
    BY <1>2, <1>3, <1>4, <1>5, <2>1, <2>2
<1> QED
  BY <1>6, <1>7

LEMMA InitReporting == WatchdogInit => Reporting
<1> SUFFICES ASSUME WatchdogInit, NEW c \in Reportable, Trouble(c)
             PROVE  ReportedSince(c, Visible(c))
  BY DEF Reporting
<1>1. Parts /\ Punctual /\ Dated
  BY InitParts, InitPunctual, InitDated
<1>2. cycleAt = -1 /\ now = 0
  BY DEF WatchdogInit, Init, NoTime
<1>3. /\ since \in Nat /\ mtime \in Int /\ heard \in Nat /\ AliveWarn \in Nat
      /\ Blind \in Nat /\ AbsentAfter \in Nat /\ StaleAfter \in Nat \ {0}
      /\ since = now
  BY <1>1, SilenceIsTrue, Alive, Paced, Stale DEF Dated, WatchdogInit
<1>4. Visible(c) >= 0
  <2>1. CASE c \in {"process-absent", "log-missing", "output-too-small"}
    BY <1>3, <2>1, ReportableNamed DEF Visible, Later
  <2>2. CASE c \in {"log-stale", "output-stale"}
    BY <1>2, <1>3, <2>2, ReportableNamed DEF Visible, Later
  <2>3. CASE c = "output-missing"
    <3>1. PICK d : d = IF Steady = Never THEN StaleAfter ELSE Blind
      OBVIOUS
    <3>2. Visible(c) = since + Later(d, Blind)
      BY <2>3, <3>1, ReportableNamed DEF Visible
    <3> QED
      BY <1>3, <3>1, <3>2 DEF Later
  <2>4. CASE c = NoHeartbeat
    BY <1>3, <2>4, ReportableNamed DEF Visible
  <2> QED
    BY <2>1, <2>2, <2>3, <2>4 DEF Reportable
<1>5. Visible(c) \in Int
  BY <1>1, VisibleTyped
<1> QED
  BY <1>2, <1>4, <1>5 DEF ReportedSince

LEMMA NextReporting ==
  ASSUME Roomy, Parts, Punctual, BeatsNow, Dated, Past, KnowsProcess, KnowsFile, Reporting,
         [WatchdogNext]_wvars
  PROVE  Reporting'
<1> SUFFICES ASSUME NEW c \in Reportable, Trouble(c)'
             PROVE  ReportedSince(c, Visible(c))'
  BY DEF Reporting
<1>1. CASE Turn
  <2>1. UNCHANGED <<now, watched, pidfile, processes, onDisk, since, steadyAt, mtime, heard>>
    BY <1>1 DEF Turn, Cycle, outside, noticed, beating
  <2>2. Good' <=> Good
    BY <2>1 DEF Good, IsFile
  <2>3. Trouble(c)
    BY <2>1, <2>2 DEF Trouble
  <2>4. Steady' = Steady
    BY <2>1, <2>2 DEF Steady
  <2>5. Visible(c)' = Visible(c)
    BY <2>1, <2>4 DEF Visible
  <2>6. PICK b : b = Visible(c)
    OBVIOUS
  <2>7. /\ b \in Int /\ ReportedSince(c, b) /\ c \in Condition
        /\ now > b => c \in Conditions(now)
    BY <2>3, <2>6, VisibleTyped, TroubleIsSeen, ReportableNamed DEF Reporting
  <2>8. cycleAt' > b => /\ <<TheJob, c>> \in DOMAIN wrong'
                        /\ spell'[<<TheJob, c>>].from <= b + 1 + Slack
    BY <1>1, <2>7, TurnReports
  <2> QED
    BY <2>5, <2>6, <2>8 DEF ReportedSince
<1>2. CASE ~Turn
  <2> SUFFICES ASSUME cycleAt' > Visible(c)'
               PROVE  /\ <<TheJob, c>> \in DOMAIN wrong'
                      /\ spell'[<<TheJob, c>>].from <= Visible(c)' + 1 + Slack
    BY DEF ReportedSince
  <2>1. Trouble(c) /\ Visible(c) = Visible(c)'
    BY <1>2, TroubleKept
  <2>2. UNCHANGED <<cycleAt, wrong, spell>>
    BY <1>2, StepKinds, AroundKeeps, AcceptDoes
       DEF Accept, TimePasses, Tick, wvars, vars, program, observers
  <2> QED
    BY <2>1, <2>2 DEF Reporting, ReportedSince
<1> QED
  BY <1>1, <1>2

\* And what has been reported for that long has been told.
LEMMA InTimeTold ==
  ASSUME Parts, Punctual, Young, Fresh, NEW c, <<TheJob, c>> \in Key, NEW b \in Int,
         ReportedSince(c, b), now > b + (1 + Slack) + ConfirmAfter + Slack
  PROVE  told[<<TheJob, c>>] # AllClear
<1>1. PICK k \in Key : k = <<TheJob, c>>
  OBVIOUS
<1>2. /\ now \in Nat /\ cycleAt \in Int /\ now <= cycleAt + 1 + Slack /\ Slack \in Nat
      /\ ConfirmAfter \in Nat
  BY Times, Paced DEF Punctual, NoTime
<1>3. cycleAt > b + ConfirmAfter + Slack /\ cycleAt > b
  BY <1>2
<1>4. k \in DOMAIN wrong /\ spell[k].from <= b + 1 + Slack
  BY <1>1, <1>3 DEF ReportedSince
<1>5. k \in DOMAIN spell /\ spell[k].from \in Nat
  BY <1>4, BoundsAssumption DEF Parts, Inv, WellFormed, TypeOK, IsPartialMap, Spell, Time
<1>6. PICK t : t = spell[k].from
  OBVIOUS
<1>7. k \notin DOMAIN pending
  <2> SUFFICES ASSUME k \in DOMAIN pending PROVE FALSE
    OBVIOUS
  <2>1. pending[k].firstSeen = t
    BY <1>6 DEF Parts, Inv, WindowsHonest, PendingUnbroken
  <2>2. cycleAt - t < ConfirmAfter
    BY <2>1 DEF Young
  <2> QED
    BY <1>2, <1>3, <1>4, <1>5, <1>6, <2>2
<1>8. k \in DOMAIN open
  BY <1>4, <1>7 DEF Parts, Inv, WindowsHonest, WrongAccounted
<1>9. CASE phase = "ticking"
  BY <1>1, <1>8, <1>9, Settled
<1>10. CASE phase # "ticking"
  <2>1. cycleAt = now
    BY <1>10 DEF Parts, Inv, WellFormed, TypeOK, Punctual
  <2> SUFFICES ASSUME told[k] = AllClear PROVE FALSE
    BY <1>1
  <2>2. cycleAt <= t + ConfirmAfter + Slack
    BY <1>6, <1>8 DEF Fresh
  <2> QED
    BY <1>2, <1>4, <1>5, <1>6, <2>1, <2>2
<1> QED
  BY <1>9, <1>10

\* Whatever is owed has been told.
LEMMA OwedIsTold ==
  ASSUME Parts, Punctual, Young, Fresh, Dated, Reporting, NEW c \in Owed
  PROVE  told[<<TheJob, c>>] # AllClear
<1>1. /\ now \in Nat /\ since \in Nat /\ mtime \in Int /\ heard \in Nat /\ AliveWarn \in Nat
      /\ Blind \in Nat /\ AbsentAfter \in Nat /\ StaleAfter \in Nat \ {0} /\ Slack \in Nat
      /\ ConfirmAfter \in Nat /\ AsConfigured
  BY Times, SilenceIsTrue, Alive, Paced, Stale DEF Dated, Parts
<1>2. c \in Reportable /\ Trouble(c) /\ now > Visible(c) + (1 + Slack) + ConfirmAfter + Slack
  <2>1. CASE watched = "process"
    <3>1. c = "process-absent" /\ ~Good /\ Overdue(since, AbsentAfter)
      BY <2>1 DEF Owed
    <3>2. PICK d \in Int : d = Later(AbsentAfter, Blind)
      BY <1>1 DEF Later
    <3>3. now - since > d + (1 + Slack) + ConfirmAfter + Slack
      BY <3>1, <3>2 DEF Overdue, Late
    <3>4. Visible(c) = since + d
      BY <3>1, <3>2, ReportableNamed DEF Visible
    <3>5. now > Visible(c) + (1 + Slack) + ConfirmAfter + Slack
      BY <1>1, <3>3, <3>4
    <3>6. c \in Reportable /\ Trouble(c)
      BY <2>1, <3>1, ReportableNamed DEF Reportable, Trouble
    <3> QED
      BY <3>5, <3>6
  <2>2. CASE watched = "log"
    <3>1. \/ /\ c = "log-missing" /\ onDisk \in {"missing", "unreadable"}
             /\ Overdue(since, StaleAfter)
          \/ c = "log-stale" /\ Good /\ Overdue(Later(since, mtime), Blind + StaleAfter)
      BY <2>2 DEF Owed
    <3>2. CASE c = "log-missing"
      <4>1. PICK d \in Int : d = Later(StaleAfter, Blind)
        BY <1>1 DEF Later
      <4>2. now - since > d + (1 + Slack) + ConfirmAfter + Slack
        BY <3>1, <3>2, <4>1 DEF Overdue, Late
      <4>3. Visible(c) = since + d
        BY <3>2, <4>1, ReportableNamed DEF Visible
      <4>4. now > Visible(c) + (1 + Slack) + ConfirmAfter + Slack
        BY <1>1, <4>2, <4>3
      <4>5. c \in Reportable /\ Trouble(c)
        BY <2>2, <3>1, <3>2, ReportableNamed DEF Reportable, Trouble
      <4> QED
        BY <4>4, <4>5
    <3>3. CASE c = "log-stale"
      <4>1. PICK d \in Int : d = Later(Blind + StaleAfter, Blind)
        BY <1>1 DEF Later
      <4>2. PICK from \in Int : from = Later(since, mtime)
        BY <1>1 DEF Later
      <4>3. now - from > d + (1 + Slack) + ConfirmAfter + Slack
        BY <3>1, <3>3, <4>1, <4>2 DEF Overdue, Late
      <4>4. Visible(c) = from + d
        BY <3>3, <4>1, <4>2, ReportableNamed DEF Visible
      <4>5. now > Visible(c) + (1 + Slack) + ConfirmAfter + Slack
        BY <1>1, <4>3, <4>4
      <4>6. c \in Reportable /\ Trouble(c)
        BY <2>2, <3>1, <3>3, ReportableNamed DEF Reportable, Trouble
      <4> QED
        BY <4>5, <4>6
    <3> QED
      BY <3>1, <3>2, <3>3
  <2>3. CASE watched = "artifact"
    <3>1. \/ /\ c = "output-missing" /\ onDisk \in {"missing", "unreadable"}
             /\ Overdue(since, IF Steady = Never THEN StaleAfter ELSE Blind)
          \/ c = "output-too-small" /\ onDisk = "small" /\ Overdue(since, Blind)
          \/ c = "output-stale" /\ Good /\ Overdue(Later(since, mtime), StaleAfter)
      BY <2>3 DEF Owed
    <3>2. CASE c = "output-missing"
      <4>1. PICK e : e = IF Steady = Never THEN StaleAfter ELSE Blind
        OBVIOUS
      <4>2. PICK d \in Int : d = Later(e, Blind)
        BY <1>1, <4>1 DEF Later
      <4>3. now - since > d + (1 + Slack) + ConfirmAfter + Slack
        BY <3>1, <3>2, <4>1, <4>2 DEF Overdue, Late
      <4>4. Visible(c) = since + d
        BY <3>2, <4>1, <4>2, ReportableNamed DEF Visible
      <4>5. now > Visible(c) + (1 + Slack) + ConfirmAfter + Slack
        BY <1>1, <4>3, <4>4
      <4>6. c \in Reportable /\ Trouble(c)
        BY <2>3, <3>1, <3>2, ReportableNamed DEF Reportable, Trouble
      <4> QED
        BY <4>5, <4>6
    <3>3. CASE c = "output-too-small"
      <4>1. PICK d \in Int : d = Later(Blind, Blind)
        BY <1>1 DEF Later
      <4>2. now - since > d + (1 + Slack) + ConfirmAfter + Slack
        BY <3>1, <3>3, <4>1 DEF Overdue, Late
      <4>3. Visible(c) = since + d
        BY <3>3, <4>1, ReportableNamed DEF Visible
      <4>4. now > Visible(c) + (1 + Slack) + ConfirmAfter + Slack
        BY <1>1, <4>2, <4>3
      <4>5. c \in Reportable /\ Trouble(c)
        BY <2>3, <3>1, <3>3, ReportableNamed DEF Reportable, Trouble
      <4> QED
        BY <4>4, <4>5
    <3>4. CASE c = "output-stale"
      <4>1. PICK d \in Int : d = Later(StaleAfter, Blind)
        BY <1>1 DEF Later
      <4>2. PICK from \in Int : from = Later(since, mtime)
        BY <1>1 DEF Later
      <4>3. now - from > d + (1 + Slack) + ConfirmAfter + Slack
        BY <3>1, <3>4, <4>1, <4>2 DEF Overdue, Late
      <4>4. Visible(c) = from + d
        BY <3>4, <4>1, <4>2, ReportableNamed DEF Visible
      <4>5. now > Visible(c) + (1 + Slack) + ConfirmAfter + Slack
        BY <1>1, <4>3, <4>4
      <4>6. c \in Reportable /\ Trouble(c)
        BY <2>3, <3>1, <3>4, ReportableNamed DEF Reportable, Trouble
      <4> QED
        BY <4>5, <4>6
    <3> QED
      BY <3>1, <3>2, <3>3, <3>4
  <2>4. CASE watched = "beats"
    <3>1. c = NoHeartbeat /\ Late(heard, AliveWarn)
      BY <2>4 DEF Owed
    <3>2. now - heard > AliveWarn + (1 + Slack) + ConfirmAfter + Slack
      BY <3>1 DEF Late
    <3>3. Visible(c) = heard + AliveWarn
      BY <3>1, ReportableNamed DEF Visible
    <3>4. now > Visible(c) + (1 + Slack) + ConfirmAfter + Slack
      BY <1>1, <3>2, <3>3
    <3>5. c \in Reportable /\ Trouble(c)
      BY <2>4, <3>1, ReportableNamed DEF Reportable, Trouble
    <3> QED
      BY <3>4, <3>5
  <2> QED
    BY <1>1, <2>1, <2>2, <2>3, <2>4 DEF AsConfigured
<1>3. PICK b : b = Visible(c)
  OBVIOUS
<1>4. b \in Int /\ ReportedSince(c, b) /\ <<TheJob, c>> \in Key
  BY <1>2, <1>3, VisibleTyped, ReportableNamed DEF Reporting
<1> QED
  BY <1>2, <1>3, <1>4, InTimeTold

-----------------------------------------------------------------------------
(* A silence becomes critical *)

\* The watch loop turns more often than a job may be silent: TICK against warn_after.
Attentive == 1 + Slack < AliveWarn

TheSilence == <<TheJob, NoHeartbeat>>

\* A turn judges the silence as it is then, and a beat comes after it or before it.
SilenceJudged ==
    watched = "beats" =>
        /\ TheSilence \in DOMAIN wrong => cycleAt - heard >= AliveWarn \/ heard >= cycleAt
        /\ TheSilence \in DOMAIN wrong /\ wrong[TheSilence] = Critical =>
               cycleAt - heard >= AliveCritical \/ heard >= cycleAt
        /\ cycleAt - heard >= AliveCritical =>
               TheSilence \in DOMAIN wrong /\ wrong[TheSilence] = Critical

\* It is announced as what it is, at first and whenever it is worse: unlike that of other
\* conditions its severity is not lost while it is unconfirmed, because a silence does
\* not get shorter in the eyes of a watch loop that is attentive.
SilenceTold ==
    watched = "beats" =>
        /\ TheSilence \in DOMAIN pending => pending[TheSilence].severity = wrong[TheSilence]
        /\ TheSilence \in DOMAIN open =>
               ToldAfter(TheSilence, Len(outbox)) = open[TheSilence].severity
        /\ TheSilence \in DOMAIN open \cap DOMAIN wrong =>
               wrong[TheSilence] <= open[TheSilence].severity
        /\ /\ TheSilence \in DOMAIN open
           /\ open[TheSilence].severity = Critical /\ told[TheSilence] # Critical
           => \/ /\ TheSilence \in DOMAIN wrong
                 /\ cycleAt <= spell[TheSilence].from + ConfirmAfter + Slack
              \/ cycleAt < heard + AliveCritical + 1 + Slack

LEMMA TheSilenceIs == TheSilence \in Key
  BY ReportableNamed DEF TheSilence, Reportable

\* What a turn has to say about a key.
LEMMA TurnTells ==
  ASSUME Roomy, Parts, Punctual, Turn, NEW a, a = Verdicts(now), NEW k
  PROVE  /\ k \in Confirmed(a) \cup Escalated(a) => ToldAfter(k, Len(outbox))' = a[k]
         /\ k \notin Confirmed(a) \cup Escalated(a) \cup Recovered(a) =>
                ToldAfter(k, Len(outbox))' = told[k]
<1>1. a \in Assessments /\ Cycle(a) /\ TellsOf(outbox', a) /\ told' = told
  BY TurnDoes
<1>2. /\ Confirmed(a) \subseteq DOMAIN a \ DOMAIN open
      /\ Escalated(a) \subseteq DOMAIN a \cap DOMAIN open
      /\ Recovered(a) \subseteq DOMAIN open \ DOMAIN a
  BY <1>1, CycleIncidents DEF Parts
<1>3. Len(outbox') \in Nat
  <2>1. Parts'
    BY NextParts DEF WatchdogNext
  <2>2. outbox' \in Seq(Message)
    BY <2>1 DEF Parts, Inv, WellFormed, TypeOK
  <2> QED
    BY <2>2, LenProperties
<1>4. ToldAfter(k, Len(outbox))' = LastAbout(k, outbox', Len(outbox'), told[k])
  BY <1>1 DEF ToldAfter
<1>5. ASSUME k \in Confirmed(a) \cup Escalated(a)
      PROVE  LastAbout(k, outbox', Len(outbox'), told[k]) = a[k]
  <2>1. PICK i \in 1..Len(outbox') : outbox'[i].key = k
    BY <1>1, <1>5 DEF TellsOf
  <2>2. outbox'[i].level = a[k]
    BY <1>1, <1>2, <1>5, <2>1 DEF TellsOf
  <2>3. \A j \in 1..Len(outbox') : outbox'[j].key = k => j = i
    BY <1>1, <2>1 DEF TellsOf
  <2>4. IsLastAbout(i, k, outbox', Len(outbox'))
    <3>1. \A j \in 1..Len(outbox') : j > i => outbox'[j].key # k
      BY <1>3, <2>1, <2>3
    <3> QED
      BY <2>1, <3>1 DEF IsLastAbout
  <2> QED
    BY <1>3, <2>2, <2>4, LastIs
<1>6. ASSUME k \notin Confirmed(a) \cup Escalated(a) \cup Recovered(a)
      PROVE  LastAbout(k, outbox', Len(outbox'), told[k]) = told[k]
  <2>1. Silent(k, outbox', Len(outbox'))
    BY <1>1, <1>6 DEF TellsOf, Silent
  <2> QED
    BY <1>3, <2>1, NoneIs
<1> QED
  BY <1>4, <1>5, <1>6

LEMMA InitSilence == WatchdogInit => SilenceJudged /\ SilenceTold
<1> SUFFICES ASSUME WatchdogInit PROVE SilenceJudged /\ SilenceTold
  OBVIOUS
<1>1. heard \in Nat
  BY InitParts, InitPunctual, SilenceIsTrue
<1>2. cycleAt = -1 /\ wrong = EmptyMap /\ pending = EmptyMap /\ open = EmptyMap
  BY DEF WatchdogInit, Init, NoTime
<1> QED
  BY <1>1, <1>2, Alive DEF SilenceJudged, SilenceTold, EmptyMap

LEMMA NextSilenceJudged ==
  ASSUME Roomy, Parts, Punctual, BeatsNow, SilenceJudged, [WatchdogNext]_wvars
  PROVE  SilenceJudged'
<1>1. /\ now \in Nat /\ cycleAt \in Int /\ cycleAt <= now /\ heard \in Nat /\ heard <= now
      /\ AliveWarn \in Nat /\ AliveCritical \in Nat /\ 1 < AliveWarn /\ AliveWarn < AliveCritical
  BY Times, SilenceIsTrue, Alive DEF Punctual, NoTime
<1>2. watched' = watched
  BY StepKinds, AroundKeeps DEF Turn, Accept, TimePasses, wvars, outside
<1> SUFFICES ASSUME watched = "beats" PROVE SilenceJudged'
  BY <1>2 DEF SilenceJudged
<1>3. CASE Turn
  <2>1. PICK a : a = Verdicts(now)
    OBVIOUS
  <2>2. /\ DOMAIN a = {TheJob} \X Conditions(now) /\ cycleAt' = now /\ wrong' = a
        /\ heard' = heard
    BY <1>3, <2>1, TurnDoes DEF Turn, beating
  <2>3. TheSilence \in DOMAIN a <=> NoHeartbeat \in Conditions(now)
    BY <2>2 DEF TheSilence
  <2>4. /\ TheSilence \in DOMAIN a <=> now - heard >= AliveWarn
        /\ TheSilence \in DOMAIN a =>
               a[TheSilence] = IF now - heard >= AliveCritical THEN Critical ELSE Warn
    BY <2>1, <2>3, BeatsJudged DEF TheSilence
  <2>5. now - heard >= AliveCritical => now - heard >= AliveWarn
    BY <1>1
  <2> QED
    BY <2>2, <2>4, <2>5 DEF SilenceJudged, Warn, Critical
<1>4. CASE RecordBeat
  <2>1. heard' = now /\ UNCHANGED <<cycleAt, wrong>>
    BY <1>4, BeatDoes DEF vars, program, observers
  <2>2. heard' >= cycleAt' /\ ~(cycleAt' - heard' >= AliveCritical)
    BY <1>1, <2>1
  <2> QED
    BY <2>2 DEF SilenceJudged
<1>5. CASE ~Turn /\ ~RecordBeat
  <2>1. UNCHANGED <<cycleAt, wrong>>
    BY <1>5, StepKinds, AroundKeeps, AcceptDoes
       DEF Accept, TimePasses, Tick, wvars, vars, program, observers
  <2>2. heard' = heard
    <3>1. CASE Arrive
      BY <3>1, SameJob DEF Arrive, Proved!Arrive
    <3>2. CASE ~Arrive
      BY <1>5, <3>2 DEF WatchdogNext, ChangeProcesses, ChangePidfile, ChangeFile, Stop, LogError,
         Write, Look, Accept, TimePasses, wvars, beating
    <3> QED
      BY <3>1, <3>2
  <2> QED
    BY <1>2, <2>1, <2>2 DEF SilenceJudged
<1> QED
  BY <1>3, <1>4, <1>5

\* A silence that goes on does not become less severe.
LEMMA SilenceGrows ==
  ASSUME Attentive, Roomy, Parts, Punctual, SilenceJudged, watched = "beats", Turn,
         NEW a, a = Verdicts(now), TheSilence \in DOMAIN wrong, TheSilence \in DOMAIN a
  PROVE  wrong[TheSilence] <= a[TheSilence]
<1>1. /\ now \in Nat /\ cycleAt \in Int /\ cycleAt <= now /\ now - cycleAt <= 1 + Slack
      /\ heard \in Nat /\ Slack \in Nat
      /\ AliveWarn \in Nat /\ AliveCritical \in Nat /\ AliveWarn < AliveCritical
      /\ 1 + Slack < AliveWarn
  BY Times, SilenceIsTrue, Alive, Paced DEF Punctual, NoTime, Attentive
<1>2. NoHeartbeat \in Conditions(now)
  BY TurnDoes DEF TheSilence
<1>3. /\ now - heard >= AliveWarn
      /\ a[TheSilence] = IF now - heard >= AliveCritical THEN Critical ELSE Warn
  BY <1>2, BeatsJudged DEF TheSilence
<1>4. wrong[TheSilence] \in Severity
  BY DEF Parts, Inv, WellFormed, TypeOK, IsPartialMap
<1>5. wrong[TheSilence] = Critical => now - heard >= AliveCritical
  BY <1>1, <1>3 DEF SilenceJudged
<1> QED
  BY <1>3, <1>4, <1>5 DEF Severity, Warn, Critical

LEMMA TurnSilenceTold ==
  ASSUME Attentive, Roomy, Parts, Punctual, Fresh, Fresh', SilenceJudged, SilenceTold, Turn
  PROVE  SilenceTold'
<1> SUFFICES ASSUME watched = "beats" PROVE SilenceTold'
  BY DEF SilenceTold, Turn, outside
<1>1. PICK a : a = Verdicts(now)
  OBVIOUS
<1>2. PICK k : k = TheSilence
  OBVIOUS
<1>3. /\ a \in Assessments /\ Cycle(a) /\ phase = "ticking" /\ outbox = <<>>
      /\ cycleAt' = now /\ wrong' = a /\ told' = told /\ heard' = heard
      /\ open' = OpenAfter(a) /\ pending' = PendingAfter(a)
  BY <1>1, TurnDoes DEF Turn, beating, Cycle
<1>4. /\ DOMAIN open' = (DOMAIN open \ Recovered(a)) \cup Confirmed(a)
      /\ Confirmed(a) \subseteq DOMAIN a \ DOMAIN open
      /\ Escalated(a) = {x \in DOMAIN a \cap DOMAIN open : a[x] > open[x].severity}
      /\ Recovered(a) \subseteq DOMAIN open \ DOMAIN a
      /\ \A x \in DOMAIN a : a[x] \in Severity
      /\ \A x \in DOMAIN open : open[x].severity \in Severity
  BY <1>3, CycleIncidents DEF Parts, Escalated
<1>5. k \in Key /\ told[k] \in Level
  BY <1>2, TheSilenceIs DEF Parts, Inv, WellFormed, TypeOK
<1>6. k \in DOMAIN wrong /\ k \in DOMAIN a => wrong[k] <= a[k]
  BY <1>1, <1>2, SilenceGrows
<1>7. ASSUME k \in DOMAIN a, k \notin DOMAIN open
      PROVE  Noted(a, k).severity = a[k]
  <2>1. CASE k \in DOMAIN pending
    <3>1. k \in DOMAIN wrong /\ pending[k] \in Pending
      BY <2>1 DEF Parts, Inv, WellFormed, TypeOK, IsPartialMap, WindowsHonest, PendingUnbroken
    <3>2. pending[k].severity = wrong[k] /\ wrong[k] <= a[k]
      BY <1>2, <1>6, <1>7, <2>1, <3>1 DEF SilenceTold
    <3>3. Noted(a, k).severity = Worse(pending[k].severity, a[k])
      BY <2>1, <3>1 DEF Noted, Pending
    <3>4. pending[k].severity \in Severity /\ a[k] \in Severity
      BY <1>4, <1>7, <3>1 DEF Pending
    <3> QED
      BY <3>2, <3>3, <3>4 DEF Worse, Severity, Warn, Critical
  <2>2. CASE k \notin DOMAIN pending
    BY <2>2 DEF Noted
  <2> QED
    BY <2>1, <2>2
<1>8. k \in DOMAIN pending' => pending'[k].severity = a[k]
  <2> SUFFICES ASSUME k \in DOMAIN pending' PROVE pending'[k].severity = a[k]
    OBVIOUS
  <2>1. /\ k \in DOMAIN a \ Confirmed(a)
        /\ k \in DOMAIN pending \cup (DOMAIN a \ DOMAIN open)
    BY <1>3 DEF PendingAfter
  <2>2. k \notin DOMAIN open
    BY <2>1 DEF Parts, Inv, WindowsHonest, OpenNotPending
  <2>3. pending'[k] = Noted(a, k)
    BY <1>3, <2>1, <2>2 DEF PendingAfter
  <2> QED
    BY <1>7, <2>1, <2>2, <2>3
<1>9. k \in DOMAIN open => told[k] = open[k].severity
  <2>1. ToldAfter(k, Len(outbox)) = told[k]
    <3>1. Silent(k, outbox, 0) /\ Len(outbox) = 0
      BY <1>3 DEF Silent
    <3> QED
      BY <3>1, NoneIs DEF ToldAfter
  <2> QED
    BY <1>2, <2>1 DEF SilenceTold
<1>10. /\ k \in Confirmed(a) => open'[k].severity = a[k]
       /\ k \in DOMAIN open \cap DOMAIN a => open'[k].severity = Worse(open[k].severity, a[k])
       /\ k \in DOMAIN open \ (DOMAIN a \cup Recovered(a)) => open'[k].severity = open[k].severity
  BY <1>3, <1>4, <1>7, TurnOfSeverity
<1>11. /\ k \in Confirmed(a) \cup Escalated(a) => ToldAfter(k, Len(outbox))' = a[k]
       /\ k \notin Confirmed(a) \cup Escalated(a) \cup Recovered(a) =>
              ToldAfter(k, Len(outbox))' = told[k]
  BY <1>1, TurnTells
<1>12. ASSUME k \in DOMAIN open'
       PROVE  ToldAfter(k, Len(outbox))' = open'[k].severity
  <2>1. CASE k \in Confirmed(a)
    BY <1>10, <1>11, <2>1
  <2>2. CASE k \in Escalated(a)
    BY <1>4, <1>10, <1>11, <2>2 DEF Worse, Severity, Warn, Critical
  <2>3. CASE k \notin Confirmed(a) \cup Escalated(a)
    <3>1. k \in DOMAIN open /\ k \notin Recovered(a)
      BY <1>4, <1>12, <2>3
    <3>2. ToldAfter(k, Len(outbox))' = open[k].severity
      BY <1>9, <1>11, <2>3, <3>1
    <3>3. CASE k \in DOMAIN a
      BY <1>4, <1>10, <2>3, <3>1, <3>2, <3>3 DEF Worse, Severity, Warn, Critical
    <3>4. CASE k \notin DOMAIN a
      BY <1>10, <3>1, <3>2, <3>4
    <3> QED
      BY <3>3, <3>4
  <2> QED
    BY <2>1, <2>2, <2>3
<1>13. ASSUME k \in DOMAIN open' \cap DOMAIN a
       PROVE  a[k] <= open'[k].severity
  <2>1. CASE k \in Confirmed(a)
    BY <1>4, <1>10, <1>13, <2>1 DEF Severity, Warn, Critical
  <2>2. CASE k \notin Confirmed(a)
    BY <1>4, <1>10, <1>13, <2>2 DEF Worse, Severity, Warn, Critical
  <2> QED
    BY <2>1, <2>2
<1>14. ASSUME k \in DOMAIN open', open'[k].severity = Critical, told'[k] # Critical
       PROVE  \/ k \in DOMAIN a /\ cycleAt' <= spell'[k].from + ConfirmAfter + Slack
              \/ cycleAt' < heard + AliveCritical + 1 + Slack
  <2>1. CASE k \in Confirmed(a)
    <3>1. told'[k] = AllClear
      BY <1>3, <1>4, <1>5, <2>1, Settled
    <3> QED
      BY <1>3, <1>4, <1>5, <1>14, <3>1 DEF Fresh
  <2>2. CASE k \notin Confirmed(a)
    <3>1. k \in DOMAIN open /\ k \notin Recovered(a) /\ open[k].severity = Warn
      BY <1>3, <1>4, <1>9, <1>14, <2>2 DEF Severity
    <3>2. k \in DOMAIN a /\ a[k] = Critical
      BY <1>4, <1>10, <1>14, <3>1 DEF Worse, Severity, Warn, Critical
    <3>3. ~(k \in DOMAIN wrong /\ wrong[k] = Critical)
      BY <1>2, <3>1 DEF SilenceTold, Warn, Critical
    <3>4. ~(cycleAt - heard >= AliveCritical)
      BY <1>2, <3>3 DEF SilenceJudged
    <3>5. /\ now \in Nat /\ cycleAt \in Int /\ now - cycleAt <= 1 + Slack /\ heard \in Nat
          /\ Slack \in Nat /\ AliveCritical \in Nat
      BY Times, SilenceIsTrue, Alive, Paced DEF Punctual, NoTime
    <3> QED
      BY <1>3, <3>4, <3>5
  <2> QED
    BY <2>1, <2>2
<1> QED
  BY <1>2, <1>3, <1>8, <1>12, <1>13, <1>14 DEF SilenceTold

LEMMA AcceptSilenceTold ==
  ASSUME Parts, Punctual, Agrees, SilenceTold, Accept
  PROVE  SilenceTold'
<1>1. PICK k : k = TheSilence
  OBVIOUS
<1>2. /\ Len(outbox) \in Nat \ {0} /\ Len(outbox') = Len(outbox) - 1
      /\ \A i \in 1..Len(outbox') : outbox'[i] = outbox[i + 1]
      /\ told' = [told EXCEPT ![outbox[1].key] = outbox[1].level]
      /\ outbox[1] \in Message
      /\ UNCHANGED <<cycleAt, open, pending, wrong, spell>>
      /\ watched' = watched /\ heard' = heard
  BY AcceptDoes DEF Accept, outside, beating
<1>3. told \in [Key -> Level] /\ k \in Key
  BY <1>1, TheSilenceIs DEF Parts, Inv, WellFormed, TypeOK
<1>4. told'[k] = IF outbox[1].key = k THEN outbox[1].level ELSE told[k]
  BY <1>2, <1>3
<1>5. ToldAfter(k, Len(outbox))' = ToldAfter(k, Len(outbox))
  <2>1. PICK n \in Nat, m \in Nat : n = Len(outbox') /\ m = Len(outbox) /\ m = n + 1
    BY <1>2
  <2>2. PICK q, r : q = outbox /\ r = outbox'
    OBVIOUS
  <2>3. \A j \in 1..n : r[j] = q[j + 1]
    BY <1>2, <2>1, <2>2
  <2>4. LastAbout(k, r, n, told'[k]) = LastAbout(k, q, m, told[k])
    BY <1>4, <2>1, <2>2, <2>3, FirstDelivered
  <2> QED
    BY <2>1, <2>2, <2>4 DEF ToldAfter
<1>6. ASSUME k \in DOMAIN open, told[k] = Critical
      PROVE  told'[k] = Critical
  <2> SUFFICES ASSUME outbox[1].key = k PROVE outbox[1].level = Critical
    BY <1>4, <1>6
  <2>1. outbox[1].level # AllClear
    BY <1>2, <1>6 DEF Agrees
  <2>2. Follows(ToldAfter(k, 0), outbox[1].level)
    <3>1. 1 \in DOMAIN outbox /\ 1 - 1 = 0
      BY <1>2 DEF Parts, Inv, WellFormed, TypeOK
    <3>2. Follows(ToldAfter(k, 1 - 1), outbox[1].level)
      BY <1>3, <3>1 DEF Parts, Punctual, StoryCoherent
    <3> QED
      BY <3>1, <3>2
  <2>3. ToldAfter(k, 0) = told[k]
    <3>1. Silent(k, outbox, 0)
      BY DEF Silent
    <3> QED
      BY <3>1, NoneIs DEF ToldAfter
  <2>4. outbox[1].level > Critical
    BY <1>6, <2>1, <2>2, <2>3 DEF Follows, Critical, AllClear
  <2>5. outbox[1].level \in Level
    BY <1>2 DEF Message
  <2> QED
    BY <2>4, <2>5 DEF Level, Severity, AllClear, Warn, Critical
<1> QED
  BY <1>1, <1>2, <1>5, <1>6 DEF SilenceTold

LEMMA NextSilenceTold ==
  ASSUME Attentive, Roomy, Parts, Punctual, Agrees, Young, Fresh, BeatsNow, SilenceJudged,
         SilenceTold, [WatchdogNext]_wvars
  PROVE  SilenceTold'
<1>1. CASE Turn
  BY <1>1, TurnSilenceTold, NextWindows
<1>2. CASE Accept
  BY <1>2, AcceptSilenceTold
<1>3. CASE ~Turn /\ ~Accept
  <2>1. UNCHANGED <<watched, cycleAt, open, pending, outbox, wrong, spell, told>>
    BY <1>3, StepKinds, AroundKeeps
       DEF TimePasses, Tick, wvars, vars, program, observers, outside
  <2>2. heard' = heard \/ (heard' = now /\ RecordBeat)
    <3>1. CASE Arrive
      BY <3>1, SameJob DEF Arrive, Proved!Arrive
    <3>2. CASE RecordBeat
      BY <3>2, BeatDoes
    <3>3. CASE ~Arrive /\ ~RecordBeat
      BY <1>3, <3>3 DEF WatchdogNext, ChangeProcesses, ChangePidfile, ChangeFile, Stop, LogError,
         Write, Look, TimePasses, wvars, beating
    <3> QED
      BY <3>1, <3>2, <3>3
  <2>3. CASE heard' = heard
    BY <2>1, <2>3 DEF SilenceTold, ToldAfter
  <2>4. CASE heard' = now
    <3>1. /\ now \in Nat /\ cycleAt \in Int /\ cycleAt <= now /\ AliveCritical \in Nat
          /\ Slack \in Nat
      BY Times, Alive, Paced DEF Punctual, NoTime
    <3>2. cycleAt' < heard' + AliveCritical + 1 + Slack
      BY <2>1, <2>4, <3>1
    <3> QED
      BY <2>1, <3>2 DEF SilenceTold, ToldAfter
  <2> QED
    BY <2>2, <2>3, <2>4
<1> QED
  BY <1>1, <1>2, <1>3

\* A job that goes on being silent has been announced as critical.
LEMMA SilenceIsCritical ==
  ASSUME Parts, Punctual, Young, Fresh, Dated, Reporting, SilenceJudged, SilenceTold,
         watched = "beats", Late(heard, AliveCritical)
  PROVE  told[TheSilence] = Critical
<1>1. /\ now \in Nat /\ cycleAt \in Int /\ now <= cycleAt + 1 + Slack /\ heard \in Nat
      /\ Slack \in Nat /\ ConfirmAfter \in Nat
      /\ AliveWarn \in Nat /\ AliveCritical \in Nat /\ AliveWarn < AliveCritical
      /\ now - heard > AliveCritical + (1 + Slack) + ConfirmAfter + Slack
  BY Times, SilenceIsTrue, Alive, Paced DEF Punctual, NoTime, Late
<1>2. Late(heard, AliveWarn)
  BY <1>1 DEF Late
<1>3. told[TheSilence] # AllClear
  <2>1. NoHeartbeat \in Owed
    BY <1>2 DEF Owed
  <2> QED
    BY <2>1, OwedIsTold DEF TheSilence
<1>4. TheSilence \in DOMAIN wrong /\ wrong[TheSilence] = Critical
  <2>1. cycleAt - heard >= AliveCritical
    BY <1>1
  <2> QED
    BY <2>1 DEF SilenceJudged
<1>5. CASE phase = "ticking"
  <2>1. TheSilence \in DOMAIN open
    BY <1>3, <1>5, Settled, TheSilenceIs
  <2>2. open[TheSilence].severity = Critical
    <3>1. open[TheSilence].severity \in Severity
      BY <2>1 DEF Parts, Inv, WellFormed, TypeOK, IsPartialMap, Open
    <3>2. wrong[TheSilence] <= open[TheSilence].severity
      BY <1>4, <2>1 DEF SilenceTold
    <3> QED
      BY <1>4, <3>1, <3>2 DEF Severity, Warn, Critical
  <2>3. ToldAfter(TheSilence, Len(outbox)) = told[TheSilence]
    <3>1. Silent(TheSilence, outbox, 0) /\ Len(outbox) = 0
      BY <1>5 DEF Silent, Punctual
    <3> QED
      BY <3>1, NoneIs DEF ToldAfter
  <2> QED
    BY <2>1, <2>2, <2>3 DEF SilenceTold
<1>6. CASE phase # "ticking"
  <2>1. cycleAt = now
    BY <1>6 DEF Parts, Inv, WellFormed, TypeOK, Punctual
  <2>2. spell[TheSilence].from <= heard + AliveWarn + 1 + Slack
    <3>1. NoHeartbeat \in Reportable /\ Trouble(NoHeartbeat)
          /\ Visible(NoHeartbeat) = heard + AliveWarn
      BY ReportableNamed DEF Reportable, Trouble, Visible
    <3>2. ReportedSince(NoHeartbeat, heard + AliveWarn)
      BY <3>1 DEF Reporting
    <3>3. cycleAt > heard + AliveWarn
      BY <1>1, <2>1
    <3> QED
      BY <3>2, <3>3 DEF ReportedSince, TheSilence
  <2>3. spell[TheSilence].from \in Nat
    BY <1>4, BoundsAssumption DEF Parts, Inv, WellFormed, TypeOK, IsPartialMap, Spell, Time
  <2>4. PICK t : t = spell[TheSilence].from
    OBVIOUS
  <2>5. ~(cycleAt <= t + ConfirmAfter + Slack) /\ ~(cycleAt < heard + AliveCritical + 1 + Slack)
    BY <1>1, <2>1, <2>2, <2>3, <2>4
  <2>6. TheSilence \in DOMAIN open
    <3>1. TheSilence \notin DOMAIN pending
      <4> SUFFICES ASSUME TheSilence \in DOMAIN pending PROVE FALSE
        OBVIOUS
      <4>1. pending[TheSilence].firstSeen = t
        BY <2>4 DEF Parts, Inv, WindowsHonest, PendingUnbroken
      <4>2. cycleAt - t < ConfirmAfter
        BY <4>1 DEF Young
      <4> QED
        BY <1>1, <2>3, <2>4, <2>5, <4>2
    <3> QED
      BY <1>4, <3>1 DEF Parts, Inv, WindowsHonest, WrongAccounted
  <2>7. open[TheSilence].severity = Critical
    <3>1. open[TheSilence].severity \in Severity
      BY <2>6 DEF Parts, Inv, WellFormed, TypeOK, IsPartialMap, Open
    <3>2. wrong[TheSilence] <= open[TheSilence].severity
      BY <1>4, <2>6 DEF SilenceTold
    <3> QED
      BY <1>4, <3>1, <3>2 DEF Severity, Warn, Critical
  <2> QED
    BY <2>4, <2>5, <2>6, <2>7 DEF SilenceTold
<1> QED
  BY <1>5, <1>6

-----------------------------------------------------------------------------
(* What is good again is not reported *)

AllWell == Good /\ (IsFile => WrittenOften)

\* The time after which no turn reports anything of a job that is well.
Calm == IF watched = "beats" THEN since
        ELSE since + Later(IF watched = "log" THEN Blind + StaleAfter ELSE Blind, Blind)

\* The incident began to end no more than a turn after b, or has ended.
Ending(k, b) ==
    /\ k \in DOMAIN open =>
           open[k].clearingSince # NoTime /\ open[k].clearingSince <= b + 1 + Slack
    /\ k \notin DOMAIN open /\ told[k] # AllClear => trail[k].endedAt <= b + 1 + Slack

Recovering == AllWell /\ cycleAt > Calm => \A k \in Key : Judgeable(k) => Ending(k, Calm)

LEMMA CalmIs ==
  ASSUME Parts, Dated
  PROVE  \E d \in Nat : /\ Calm = since + d
                        /\ watched # "beats" => d >= Blind
                        /\ watched = "log" => d >= Blind + StaleAfter
                        /\ watched = "beats" => d = 0
<1>1. Blind \in Nat /\ StaleAfter \in Nat /\ since \in Nat
  BY Paced, Stale DEF Dated
<1>2. CASE watched = "beats"
  BY <1>1, <1>2 DEF Calm
<1>3. CASE watched # "beats"
  <2>1. PICK e \in Nat : e = IF watched = "log" THEN Blind + StaleAfter ELSE Blind
    BY <1>1
  <2>2. PICK d \in Nat : d = Later(e, Blind) /\ d >= e /\ d >= Blind
    BY <1>1, <2>1 DEF Later
  <2>3. Calm = since + d
    BY <1>3, <2>1, <2>2 DEF Calm
  <2> QED
    BY <1>3, <2>1, <2>2, <2>3
<1> QED
  BY <1>2, <1>3

\* A turn after that time finds nothing that it is for.
LEMMA NothingIsSeen ==
  ASSUME Parts, Punctual, Dated, KnowsProcess, KnowsFile, AllWell, now > Calm
  PROVE  /\ watched # "beats" => Conditions(now) = {}
         /\ NoHeartbeat \notin Conditions(now)
<1>1. /\ now \in Nat /\ since \in Nat /\ since <= now /\ Blind \in Nat \ {0}
      /\ StaleAfter \in Nat \ {0} /\ pace \in Nat
      /\ lastPoll \in Int
      /\ watched # "beats" => lastPoll <= now /\ now - lastPoll <= Blind
      /\ found.modified \in Int /\ found.lastError \in Int
      /\ AsConfigured
  BY Times, Paced, Stale DEF Dated, Looks, Never, Parts
<1>2. PICK d \in Nat : /\ Calm = since + d
                       /\ watched # "beats" => d >= Blind
                       /\ watched = "log" => d >= Blind + StaleAfter
  BY CalmIs
<1>3. watched # "beats" => lastPoll > since
  BY <1>1, <1>2
<1>4. PICK modified, error : modified = found.modified /\ error = found.lastError
  OBVIOUS
<1>5. CASE watched = "process"
  <2>1. found.process = "running"
    BY <1>3, <1>5 DEF AllWell, KnowsProcess
  <2> QED
    BY <1>5, <2>1, ConditionsTyped DEF Conditions, ProcessAbsent, Parts
<1>6. ASSUME IsFile
      PROVE  found.file = "present" /\ ~FileMissing(found, started, now) /\ ~FileStale(found, now)
  <2>1. /\ watched # "beats" /\ found.file = "present" /\ pace # 0 /\ pace + Blind < StaleAfter
    BY <1>3, <1>6 DEF AllWell, WrittenOften, KnowsFile, Good, IsFile
  <2>2. lastPoll - modified <= pace
    BY <1>4, <1>6, <2>1 DEF KnowsFile, IsPresent
  <2>3. now - modified < StaleAfter
    BY <1>1, <1>4, <2>1, <2>2
  <2>4. Since(modified, now) < StaleAfter /\ Since(modified, now) \in Int
    BY <1>1, <1>4, <2>3 DEF Since
  <2>5. ~FileStale(found, now)
    BY <1>1, <1>4, <2>4 DEF FileStale
  <2> QED
    BY <2>1, <2>5 DEF FileMissing
<1>7. CASE watched = "log"
  <2>1. found.file = "present" /\ ~FileMissing(found, started, now) /\ ~FileStale(found, now)
    BY <1>6, <1>7 DEF IsFile
  <2>2. error <= since + Blind
    BY <1>4, <1>7 DEF KnowsFile, IsFile
  <2>3. now - error >= StaleAfter
    BY <1>1, <1>2, <1>4, <1>7, <2>2
  <2>4. Since(error, now) >= StaleAfter /\ Since(error, now) \in Int
    BY <1>1, <1>4, <2>3 DEF Since
  <2>5. ~LoggedError(found, now)
    BY <1>1, <1>4, <2>4 DEF LoggedError
  <2> QED
    BY <1>7, <2>1, <2>5, ConditionsTyped DEF Conditions, LogConditions, Parts
<1>8. CASE watched = "artifact"
  <2>1. found.file = "present" /\ ~FileMissing(found, started, now) /\ ~FileStale(found, now)
    BY <1>6, <1>8 DEF IsFile
  <2> QED
    BY <1>8, <2>1, ConditionsTyped DEF Conditions, ArtifactConditions, Parts
<1>9. CASE watched = "beats"
  <2>1. now - heard < AliveWarn
    BY <1>9, GoodMeans DEF AllWell
  <2>2. ~(now - heard >= AliveWarn)
    BY <1>1, <2>1, SilenceIsTrue, Alive
  <2> QED
    BY <1>9, <2>2, BeatsJudged
<1> QED
  BY <1>1, <1>5, <1>7, <1>8, <1>9 DEF AsConfigured

LEMMA TurnRecovering ==
  ASSUME Roomy, Parts, Punctual, Dated, Past, KnowsProcess, KnowsFile, Recovering, Turn
  PROVE  Recovering'
<1>1. PICK a : a = Verdicts(now)
  OBVIOUS
<1>2. /\ a \in Assessments /\ Cycle(a) /\ phase = "ticking" /\ cycleAt' = now /\ told' = told
      /\ DOMAIN a = {TheJob} \X Conditions(now)
  BY <1>1, TurnDoes
<1>3. UNCHANGED <<now, watched, pidfile, processes, onDisk, since, mtime, pace, heard>>
  BY DEF Turn, Cycle, outside, noticed, beating
<1>4. Good' <=> Good
  BY <1>3 DEF Good, IsFile
<1>5. (AllWell' <=> AllWell) /\ Calm' = Calm
  BY <1>3, <1>4 DEF AllWell, Calm, IsFile, WrittenOften
<1> SUFFICES ASSUME AllWell, now > Calm, NEW k \in Key, Judgeable(k)
             PROVE  Ending(k, Calm)'
  BY <1>2, <1>3, <1>5 DEF Recovering, Judgeable
<1>6. /\ watched # "beats" => Conditions(now) = {}
      /\ NoHeartbeat \notin Conditions(now)
  BY NothingIsSeen
<1>7. k \notin DOMAIN a /\ Unjudgeable(a) = {}
  <2>1. Unjudgeable(a) = {}
    BY <1>2, <1>6 DEF Unjudgeable
  <2>2. k \notin DOMAIN a
    BY <1>2, <1>6 DEF Judgeable
  <2> QED
    BY <2>1, <2>2
<1>8. PICK b \in Int : b = Calm
  BY CalmIs DEF Dated
<1>9. /\ now \in Nat /\ cycleAt \in Int /\ now <= cycleAt + 1 + Slack /\ Slack \in Nat
  BY Times, Paced DEF Punctual, NoTime
<1>10. ASSUME k \in DOMAIN open
       PROVE  k \in Clearing(a) /\ ClearSince(k) # NoTime /\ ClearSince(k) <= b + 1 + Slack
  <2>1. open[k].clearingSince \in Int /\ open[k].clearingSince <= cycleAt
    BY <1>10, BoundsAssumption
       DEF Parts, Inv, WellFormed, TypeOK, IsPartialMap, Open, MaybeTime, Time, NoTime, Past
  <2>2. cycleAt > b => open[k].clearingSince # NoTime /\ open[k].clearingSince <= b + 1 + Slack
    BY <1>8, <1>10 DEF Recovering, Ending
  <2>3. PICK t : t = open[k].clearingSince
    OBVIOUS
  <2>4. k \in Clearing(a)
    BY <1>7, <1>10 DEF Clearing
  <2>5. CASE t = NoTime
    <3>1. ClearSince(k) = now /\ ~(cycleAt > b)
      BY <2>2, <2>3, <2>5 DEF ClearSince
    <3> QED
      BY <1>9, <2>4, <3>1 DEF NoTime
  <2>6. CASE t # NoTime
    <3>1. ClearSince(k) = t
      BY <2>3, <2>6 DEF ClearSince
    <3> QED
      BY <1>9, <2>1, <2>2, <2>3, <2>4, <2>6, <3>1
  <2> QED
    BY <2>5, <2>6
<1>11. ASSUME k \in DOMAIN open'
       PROVE  open'[k].clearingSince # NoTime /\ open'[k].clearingSince <= b + 1 + Slack
  <2>1. /\ k \in (DOMAIN open \ Recovered(a)) \cup Confirmed(a)
        /\ k \in Clearing(a) => open'[k].clearingSince = ClearSince(k)
    BY <1>2, <1>11, TurnOfIncident
  <2>2. k \in DOMAIN open
    BY <1>7, <2>1 DEF Confirmed
  <2> QED
    BY <1>10, <2>1, <2>2
<1>12. ASSUME k \notin DOMAIN open', told'[k] # AllClear
       PROVE  trail'[k].endedAt <= b + 1 + Slack
  <2>1. DOMAIN open' = (DOMAIN open \ Recovered(a)) \cup Confirmed(a)
    BY <1>2, CycleIncidents DEF Parts
  <2>2. k \in DOMAIN open /\ k \in Recovered(a)
    BY <1>2, <1>12, <2>1, Settled
  <2>3. trail'[k].endedAt = ClearSince(k)
    BY <1>2, <2>2, TurnOfKey
  <2> QED
    BY <1>10, <2>2, <2>3
<1> QED
  BY <1>5, <1>8, <1>11, <1>12 DEF Ending

LEMMA InitRecovering == WatchdogInit => Recovering
<1> SUFFICES ASSUME WatchdogInit PROVE ~(cycleAt > Calm)
  BY DEF Recovering
<1>1. PICK d \in Nat : Calm = since + d
  BY InitParts, InitDated, CalmIs
<1>2. cycleAt = -1 /\ since = 0
  BY DEF WatchdogInit, Init, NoTime
<1> QED
  BY <1>1, <1>2

LEMMA NextRecovering ==
  ASSUME Roomy, Parts, Punctual, Agrees, BeatsNow, Dated, Past, KnowsProcess, KnowsFile,
         Recovering, [WatchdogNext]_wvars
  PROVE  Recovering'
<1>1. CASE Turn
  BY <1>1, TurnRecovering
<1>2. CASE ~Turn
  <2>1. /\ now \in Nat /\ cycleAt \in Int /\ cycleAt <= now
    BY Times DEF Punctual, NoTime
  <2>2. /\ UNCHANGED <<cycleAt, open, trail, watched>>
    BY <1>2, StepKinds, AroundKeeps, AcceptDoes
       DEF Accept, TimePasses, Tick, wvars, vars, program, outside
  <2>3. ASSUME NEW k \in Key, k \notin DOMAIN open, told'[k] # AllClear
        PROVE  told[k] # AllClear
    <3>1. CASE Accept
      <4>1. /\ told' = [told EXCEPT ![outbox[1].key] = outbox[1].level]
            /\ 1 \in 1..Len(outbox)
        BY <3>1, AcceptDoes
      <4>2. outbox[1].key = k => outbox[1].level = AllClear
        BY <2>3, <4>1 DEF Agrees
      <4>3. told \in [Key -> Level]
        BY DEF Parts, Inv, WellFormed, TypeOK
      <4> QED
        BY <2>3, <4>1, <4>2, <4>3
    <3>2. CASE ~Accept
      <4>1. told' = told
        BY <1>2, <3>2, StepKinds, AroundKeeps
           DEF TimePasses, Tick, wvars, vars, observers
      <4> QED
        BY <2>3, <4>1
    <3> QED
      BY <3>1, <3>2
  <2> SUFFICES ASSUME AllWell', cycleAt' > Calm'
               PROVE  \A k \in Key : Judgeable(k)' => Ending(k, Calm)'
    BY DEF Recovering
  <2>4. PICK d \in Nat : d = Later(IF watched = "log" THEN Blind + StaleAfter ELSE Blind, Blind)
    <3>1. Blind \in Nat /\ StaleAfter \in Nat
      BY Paced, Stale
    <3>2. PICK e \in Nat : e = IF watched = "log" THEN Blind + StaleAfter ELSE Blind
      BY <3>1
    <3> QED
      BY <3>1, <3>2 DEF Later
  <2>5. /\ Calm = IF watched = "beats" THEN since ELSE since + d
        /\ Calm' = IF watched = "beats" THEN since' ELSE since' + d
    BY <2>2, <2>4 DEF Calm
  <2>6. since' # now
    BY <2>1, <2>2, <2>5
  <2>7. since' = since /\ (Good' => Good)
    <3>1. CASE Changing
      BY <2>6, <3>1, ChangeDoes
    <3>2. CASE LogError
      BY <2>6, <3>2 DEF LogError
    <3>3. CASE RecordBeat
      BY <2>6, <3>3, BeatDoes
    <3>4. CASE Arrive
      <4>1. UNCHANGED <<now, outside, noticed, heard>>
        BY <3>4, SameJob DEF Arrive, Proved!Arrive, vars
      <4> QED
        BY <4>1 DEF outside, noticed, Good, IsFile
    <3>5. CASE TimePasses
      <4>1. now' = now + 1 /\ UNCHANGED <<outside, noticed, heard>>
        BY <3>5 DEF TimePasses, Tick, beating
      <4>2. heard \in Nat /\ AliveWarn \in Nat
        BY SilenceIsTrue, Alive
      <4>3. now' - heard' < AliveWarn => now - heard < AliveWarn
        BY <2>1, <4>1, <4>2
      <4> QED
        BY <4>1, <4>3 DEF outside, noticed, Good, IsFile, Parts, AsConfigured
    <3>6. CASE Stop \/ Write \/ Look \/ Accept \/ UNCHANGED wvars
      <4>1. UNCHANGED <<now, watched, pidfile, processes, onDisk, since, heard>>
        BY <3>6 DEF Stop, Write, Look, Accept, SendOk, wvars, vars, outside, beating, noticed
      <4> QED
        BY <4>1 DEF Good, IsFile
    <3> QED
      BY <1>2, <3>1, <3>2, <3>3, <3>4, <3>5, <3>6 DEF WatchdogNext, Changing
  <2>8. IsFile => WrittenOften
    <3>1. CASE Stop
      <4>1. pace' = 0
        BY <3>1 DEF Stop
      <4> QED
        BY <2>2, <4>1 DEF AllWell, WrittenOften, IsFile
    <3>2. CASE ~Stop
      <4>1. pace' = pace
        BY <1>2, <3>2 DEF WatchdogNext, ChangeProcesses, ChangePidfile, ChangeFile, LogError, Write,
           Arrive, RecordBeat, Look, Accept, TimePasses, wvars, outside
      <4> QED
        BY <2>2, <4>1 DEF AllWell, WrittenOften, IsFile
    <3> QED
      BY <3>1, <3>2
  <2>9. AllWell /\ Calm' = Calm
    BY <2>5, <2>7, <2>8 DEF AllWell
  <2>10. \A k \in Key : Judgeable(k)' => Ending(k, Calm)
    BY <2>2, <2>9 DEF Recovering, Judgeable
  <2> QED
    BY <2>2, <2>3, <2>9, <2>10 DEF Ending
<1> QED
  BY <1>1, <1>2

\* Once nothing has been wrong for that long, nobody is left believing there is.
LEMMA NobodyIsLeft ==
  ASSUME Parts, Punctual, Young, Fresh, Dated, Recovering
  PROVE  RecoveryIsTold
<1> SUFFICES ASSUME AllWell,
                    IF watched = "beats" THEN Late(since, 0)
                    ELSE Overdue(since, IF watched = "log" THEN Blind + StaleAfter ELSE Blind),
                    NEW k \in Key, Judgeable(k), told[k] # AllClear
             PROVE  FALSE
  BY DEF RecoveryIsTold, AllWell, Judgeable
<1>1. /\ now \in Nat /\ since \in Nat /\ cycleAt \in Int /\ now <= cycleAt + 1 + Slack
      /\ Slack \in Nat /\ ConfirmAfter \in Nat /\ Blind \in Nat /\ StaleAfter \in Nat
  BY Times, Paced, Stale DEF Punctual, Dated, NoTime
<1>2. PICK b \in Int : b = Calm /\ now > b + (1 + Slack) + ConfirmAfter + Slack
  <2>1. CASE watched = "beats"
    <3>1. now - since > (1 + Slack) + ConfirmAfter + Slack
      BY <1>1, <2>1 DEF Late
    <3> QED
      BY <1>1, <2>1, <3>1 DEF Calm
  <2>2. CASE watched # "beats"
    <3>1. PICK e \in Nat : e = IF watched = "log" THEN Blind + StaleAfter ELSE Blind
      BY <1>1
    <3>2. PICK d \in Nat : d = Later(e, Blind)
      BY <1>1, <3>1 DEF Later
    <3>3. now - since > d + (1 + Slack) + ConfirmAfter + Slack
      BY <2>2, <3>1, <3>2 DEF Overdue, Late
    <3>4. Calm = since + d
      BY <2>2, <3>1, <3>2 DEF Calm
    <3> QED
      BY <1>1, <3>3, <3>4
  <2> QED
    BY <2>1, <2>2
<1>3. cycleAt > b + ConfirmAfter + Slack /\ cycleAt > b
  BY <1>1, <1>2
<1>4. Ending(k, b)
  BY <1>2, <1>3 DEF Recovering
<1>5. CASE k \in DOMAIN open
  <2>1. open[k].clearingSince # NoTime /\ open[k].clearingSince <= b + 1 + Slack
    BY <1>4, <1>5 DEF Ending
  <2>2. cycleAt - open[k].clearingSince < ConfirmAfter
    BY <1>5, <2>1 DEF Young
  <2>3. open[k].clearingSince \in Int
    BY <1>5, BoundsAssumption
       DEF Parts, Inv, WellFormed, TypeOK, IsPartialMap, Open, MaybeTime, Time, NoTime
  <2>4. PICK t : t = open[k].clearingSince
    OBVIOUS
  <2> QED
    BY <1>1, <1>3, <2>1, <2>2, <2>3, <2>4
<1>6. CASE k \notin DOMAIN open
  <2>1. cycleAt = now
    <3>1. phase # "ticking"
      BY <1>6, Settled
    <3> QED
      BY <3>1 DEF Parts, Inv, WellFormed, TypeOK, Punctual
  <2>2. trail[k].endedAt <= b + 1 + Slack /\ cycleAt <= trail[k].endedAt + ConfirmAfter + Slack
    BY <1>4, <1>6 DEF Ending, Fresh
  <2>3. trail[k].endedAt \in Int
    BY BoundsAssumption DEF Parts, Inv, WellFormed, TypeOK, Record, MaybeTime, Time, NoTime
  <2>4. PICK t : t = trail[k].endedAt
    OBVIOUS
  <2> QED
    BY <1>1, <1>2, <2>1, <2>2, <2>3, <2>4
<1> QED
  BY <1>5, <1>6

-----------------------------------------------------------------------------
(* What is reported is so *)

\* A watcher looks less often than the watch loop turns: POLL is 15 s, TICK 5 s.
Frequent == 1 + Slack < Poll

Absence(c) == watched = "process" /\ c = "process-absent"
Missing(c) == IsFile /\ c \in {"log-missing", "output-missing"}
Hush(c) == watched = "beats" /\ c = NoHeartbeat

\* What stillwatch knows about a process had it running last.
LastSeen == IF found.lastRunning = Never THEN 0 ELSE found.lastRunning

\* What a report of c that began at the given time rests on.
Grounds(c, from) ==
    /\ Absence(c) => from - LastSeen >= AbsentAfter
    /\ Missing(c) => /\ found.file \in {"missing", "unreadable"}
                     /\ misses >= 1
                     /\ lastPoll > from => misses >= 2
    /\ Hush(c) => from - heard >= AliveWarn

\* The next turn will not report c again.
Refuted(c) ==
    \/ Absence(c) /\ found.process = "running" /\ lastPoll >= cycleAt
    \/ Missing(c) /\ IsPresent(found.file) /\ lastPoll >= cycleAt
    \/ Hush(c) /\ heard >= cycleAt

Founded == \A k \in DOMAIN wrong : Grounds(k[2], spell[k].from) \/ Refuted(k[2])

LEMMA WhatIsReported ==
  ASSUME Parts, Punctual, NEW c \in Conditions(now)
  PROVE  /\ c = "process-absent" => Absence(c) /\ ProcessAbsent(found, started, now)
         /\ c \in {"log-missing", "output-missing"} =>
                Missing(c) /\ FileMissing(found, started, now)
         /\ c \in {"log-stale", "output-stale"} => IsFile /\ FileStale(found, now)
         /\ c = NoHeartbeat => Hush(c) /\ now - heard >= AliveWarn
<1>1. /\ watched = "process" => c = "process-absent"
      /\ watched = "log" => c \in {"logged-error", "log-missing", "log-stale"}
      /\ watched = "artifact" => c \in {"output-too-small", "output-missing", "output-stale"}
      /\ watched = "beats" => c \in {NoHeartbeat} \cup LowCondition \cup UnreportedCondition
      /\ watched \in {"process", "log", "artifact", "beats"}
  BY ConditionsNamed DEF Parts, AsConfigured
<1>2. /\ watched = "beats" => c \notin PassiveCondition
      /\ watched # "beats" => c # NoHeartbeat
  BY <1>1, ConditionsAssumption DEF PassiveCondition
<1>3. c = "process-absent" => Absence(c) /\ ProcessAbsent(found, started, now)
  <2> SUFFICES ASSUME c = "process-absent"
               PROVE  Absence(c) /\ ProcessAbsent(found, started, now)
    OBVIOUS
  <2>1. watched = "process"
    BY <1>1, <1>2 DEF PassiveCondition
  <2> QED
    BY <2>1 DEF Conditions, Absence
<1>4. c \in {"log-missing", "output-missing"} => Missing(c) /\ FileMissing(found, started, now)
  <2> SUFFICES ASSUME c \in {"log-missing", "output-missing"}
               PROVE  Missing(c) /\ FileMissing(found, started, now)
    OBVIOUS
  <2>1. watched \in {"log", "artifact"}
    BY <1>1, <1>2 DEF PassiveCondition
  <2> QED
    BY <2>1 DEF Conditions, LogConditions, ArtifactConditions, Missing, IsFile
<1>5. c \in {"log-stale", "output-stale"} => IsFile /\ FileStale(found, now)
  <2> SUFFICES ASSUME c \in {"log-stale", "output-stale"}
               PROVE  IsFile /\ FileStale(found, now)
    OBVIOUS
  <2>1. watched \in {"log", "artifact"}
    BY <1>1, <1>2 DEF PassiveCondition
  <2> QED
    BY <2>1 DEF Conditions, LogConditions, ArtifactConditions, IsFile
<1>6. c = NoHeartbeat => Hush(c) /\ now - heard >= AliveWarn
  <2> SUFFICES ASSUME c = NoHeartbeat PROVE Hush(c) /\ now - heard >= AliveWarn
    OBVIOUS
  <2>1. watched = "beats"
    BY <1>2
  <2> QED
    BY <2>1, BeatsJudged DEF Hush
<1> QED
  BY <1>3, <1>4, <1>5, <1>6

LEMMA ReportIsGrounded ==
  ASSUME Attentive, Parts, Punctual, Dated, KnowsFile, cycleAt # now, NEW c \in Conditions(now)
  PROVE  Grounds(c, now) /\ ~Refuted(c)
<1>1. /\ now \in Nat /\ cycleAt \in Int /\ cycleAt < now /\ now - cycleAt <= 1 + Slack
      /\ started = 0 /\ heard \in Nat /\ AliveWarn \in Nat /\ Slack \in Nat
  BY Times, SilenceIsTrue, Alive, Paced DEF Punctual, NoTime
<1>2. /\ Absence(c) => /\ found.process # "running"
                       /\ now - LastSeen >= AbsentAfter
  <2> SUFFICES ASSUME Absence(c)
               PROVE  found.process # "running" /\ now - LastSeen >= AbsentAfter
    OBVIOUS
  <2>1. ProcessAbsent(found, started, now)
    BY WhatIsReported DEF Absence
  <2>2. found.process # "running" /\ Since(LastSeen, now) >= AbsentAfter
    BY <1>1, <2>1 DEF ProcessAbsent, LastSeen
  <2>3. LastSeen \in Int /\ LastSeen <= now
    BY <1>1 DEF Dated, Looks, LastSeen, Never
  <2> QED
    BY <1>1, <2>2, <2>3 DEF Since
<1>3. Missing(c) => /\ found.file \in {"missing", "unreadable"} /\ ~IsPresent(found.file)
                    /\ misses >= 1 /\ ~(lastPoll > now)
  <2> SUFFICES ASSUME Missing(c)
               PROVE  /\ found.file \in {"missing", "unreadable"} /\ ~IsPresent(found.file)
                      /\ misses >= 1 /\ ~(lastPoll > now)
    OBVIOUS
  <2>1. FileMissing(found, started, now) /\ IsFile
    BY WhatIsReported DEF Missing
  <2>2. found.file \in {"missing", "unreadable"} /\ ~IsPresent(found.file)
    BY <2>1 DEF FileMissing, IsPresent
  <2>3. misses >= 1
    BY <2>1, <2>2 DEF KnowsFile
  <2>4. ~(lastPoll > now)
    BY <1>1, <2>1 DEF Dated, IsFile
  <2> QED
    BY <2>2, <2>3, <2>4
<1>4. Hush(c) => now - heard >= AliveWarn /\ ~(heard >= cycleAt)
  <2> SUFFICES ASSUME Hush(c) PROVE now - heard >= AliveWarn /\ ~(heard >= cycleAt)
    OBVIOUS
  <2>1. now - heard >= AliveWarn
    BY WhatIsReported DEF Hush
  <2> QED
    BY <1>1, <2>1 DEF Attentive
<1>5. ~(Absence(c) /\ Missing(c)) /\ ~(Absence(c) /\ Hush(c)) /\ ~(Missing(c) /\ Hush(c))
  BY DEF Absence, Missing, Hush, IsFile
<1> QED
  BY <1>2, <1>3, <1>4 DEF Grounds, Refuted

LEMMA LookKeepsGrounds ==
  ASSUME Frequent, Parts, Punctual, Dated, Look, NEW c, NEW from \in Int, from <= now,
         Grounds(c, from) \/ Refuted(c)
  PROVE  Grounds(c, from)' \/ Refuted(c)'
<1>1. /\ now \in Nat /\ cycleAt \in Int /\ cycleAt <= now /\ now - cycleAt <= 1 + Slack
      /\ Slack \in Nat /\ Poll \in Nat /\ lastPoll \in Int /\ misses \in Nat
  BY Times, Paced DEF Punctual, NoTime, Dated
<1>2. /\ watched # "beats" /\ now - lastPoll >= Poll /\ lastPoll' = now
      /\ watched = "process" =>
             found'.lastRunning = IF found'.process = "running" THEN now ELSE found.lastRunning
      /\ IsFile => found'.file = onDisk /\ found'.lastRunning = found.lastRunning
      /\ misses' = IF onDisk \in {"missing", "unreadable"} THEN misses + 1 ELSE 0
      /\ UNCHANGED <<watched, onDisk, cycleAt, heard>>
  BY <1>1, LookDoes DEF Parts, vars, observers, program, beating
<1>3. lastPoll < cycleAt
  BY <1>1, <1>2 DEF Frequent
<1>4. Grounds(c, from)
  BY <1>1, <1>2, <1>3 DEF Refuted, Hush
<1>5. onDisk \in FileFinding
  BY DEF Dated
<1>6. CASE Absence(c)
  <2>1. ~Missing(c)' /\ ~Hush(c)'
    BY <1>2, <1>6 DEF Absence, Missing, Hush, IsFile
  <2>2. CASE found'.process = "running"
    BY <1>1, <1>2, <1>6, <2>2 DEF Refuted, Absence
  <2>3. CASE found'.process # "running"
    <3>1. LastSeen' = LastSeen
      BY <1>2, <1>6, <2>3 DEF LastSeen, Absence
    <3> QED
      BY <1>4, <1>6, <2>1, <3>1 DEF Grounds
  <2> QED
    BY <2>2, <2>3
<1>7. CASE Missing(c)
  <2>1. ~Absence(c)' /\ ~Hush(c)' /\ IsFile
    BY <1>2, <1>7 DEF Absence, Missing, Hush, IsFile
  <2>2. CASE IsPresent(onDisk)
    BY <1>1, <1>2, <1>7, <2>1, <2>2 DEF Refuted, Missing, IsFile
  <2>3. CASE ~IsPresent(onDisk)
    <3>1. onDisk \in {"missing", "unreadable"}
      BY <1>5, <2>3 DEF FileFinding, IsPresent
    <3>2. misses >= 1
      BY <1>4, <1>7 DEF Grounds
    <3>3. misses' = misses + 1
      BY <1>2, <3>1
    <3>4. misses' >= 1 /\ misses' >= 2
      BY <1>1, <3>2, <3>3
    <3> QED
      BY <1>2, <2>1, <3>1, <3>4 DEF Grounds
  <2> QED
    BY <2>2, <2>3
<1>8. CASE ~Absence(c) /\ ~Missing(c)
  BY <1>2, <1>8 DEF Grounds, Absence, Missing, Hush, IsFile
<1> QED
  BY <1>6, <1>7, <1>8

LEMMA InitFounded == WatchdogInit => Founded
  BY DEF WatchdogInit, Init, Founded, EmptyMap

LEMMA NextFounded ==
  ASSUME Attentive, Frequent, Roomy, Parts, Punctual, BeatsNow, Dated, Past, KnowsFile, Founded,
         [WatchdogNext]_wvars
  PROVE  Founded'
<1>1. CASE Turn
  <2>1. PICK a : a = Verdicts(now)
    OBVIOUS
  <2>2. /\ a \in Assessments /\ Cycle(a) /\ DOMAIN a = {TheJob} \X Conditions(now)
        /\ wrong' = a /\ now' = now /\ cycleAt # now
    BY <1>1, <2>1, TurnDoes DEF Turn
  <2>3. UNCHANGED <<watched, found, misses, lastPoll, heard>>
    BY <1>1 DEF Turn, outside, watcher, beating, noticed
  <2> SUFFICES ASSUME NEW k \in DOMAIN a
               PROVE  Grounds(k[2], spell[k].from)'
    BY <2>2 DEF Founded
  <2>4. k[2] \in Conditions(now)
    BY <2>2
  <2>5. Grounds(k[2], now) /\ ~Refuted(k[2])
    BY <2>2, <2>4, ReportIsGrounded
  <2>6. PICK from : from = spell'[k].from
    OBVIOUS
  <2>7. Grounds(k[2], from)
    <3>1. CASE k \in DOMAIN wrong
      <4>1. spell'[k].from = spell[k].from
        BY <2>2, <3>1, TurnOfKey
      <4> QED
        BY <2>5, <2>6, <3>1, <4>1 DEF Founded
    <3>2. CASE k \notin DOMAIN wrong
      BY <2>2, <2>5, <2>6, <3>2, TurnOfKey
    <3> QED
      BY <3>1, <3>2
  <2> QED
    BY <2>3, <2>6, <2>7 DEF Grounds, Absence, Missing, Hush, IsFile, LastSeen
<1>2. CASE Look
  <2>1. UNCHANGED <<wrong, spell>>
    BY <1>2 DEF Look, vars, observers
  <2> SUFFICES ASSUME NEW k \in DOMAIN wrong
               PROVE  Grounds(k[2], spell[k].from)' \/ Refuted(k[2])'
    BY <2>1 DEF Founded
  <2>2. PICK from : from = spell[k].from
    OBVIOUS
  <2>3. from \in Int /\ from <= now
    <3>1. /\ k \in DOMAIN spell /\ spell[k] \in Spell
          /\ now \in Nat /\ cycleAt \in Int /\ cycleAt <= now
      BY Times DEF Parts, Inv, WellFormed, TypeOK, IsPartialMap, Punctual, NoTime
    <3> QED
      BY <2>2, <3>1, BoundsAssumption DEF Past, Spell, Time
  <2>4. Grounds(k[2], from)' \/ Refuted(k[2])'
    BY <1>2, <2>2, <2>3, LookKeepsGrounds DEF Founded
  <2> QED
    BY <2>1, <2>2, <2>4
<1>3. CASE RecordBeat
  <2>1. /\ watched = "beats" /\ heard' = now
        /\ UNCHANGED <<watched, found, lastPoll, misses, wrong, spell, cycleAt>>
    BY <1>3, BeatDoes DEF vars, observers, program, outside, watcher, noticed
  <2>2. now \in Nat /\ cycleAt \in Int /\ cycleAt <= now
    BY Times DEF Punctual, NoTime
  <2> SUFFICES ASSUME NEW k \in DOMAIN wrong
               PROVE  Grounds(k[2], spell[k].from)' \/ Refuted(k[2])'
    BY <2>1 DEF Founded
  <2>3. CASE Hush(k[2])
    BY <2>1, <2>2, <2>3 DEF Refuted, Hush
  <2>4. CASE ~Hush(k[2])
    BY <2>1, <2>4 DEF Grounds, Absence, Missing, Hush, IsFile
  <2> QED
    BY <2>3, <2>4
<1>4. CASE \/ ChangeProcesses \/ ChangePidfile \/ ChangeFile \/ Stop \/ LogError \/ Write
           \/ Arrive \/ Accept \/ TimePasses \/ UNCHANGED wvars
  <2>1. UNCHANGED <<watched, found, lastPoll, misses, heard, wrong, spell, cycleAt>>
    <3>1. CASE \/ ChangeProcesses \/ ChangePidfile \/ ChangeFile \/ Stop \/ LogError \/ Write
      BY <3>1 DEF ChangeProcesses, ChangePidfile, ChangeFile, Stop, LogError, Write, vars,
                  observers, program, watcher, beating, noticed
    <3>2. CASE Arrive
      BY <3>2, SameJob DEF Arrive, Proved!Arrive, vars, observers, program, outside, watcher,
                           noticed
    <3>3. CASE Accept
      <4>1. UNCHANGED <<wrong, spell, cycleAt>>
        BY <3>3, AcceptDoes
      <4> QED
        BY <3>3, <4>1 DEF Accept, outside, watcher, beating, noticed
    <3>4. CASE TimePasses
      BY <3>4 DEF TimePasses, Tick, observers, program, outside, watcher, beating, noticed
    <3>5. CASE UNCHANGED wvars
      BY <3>5 DEF wvars, vars, observers, program, outside, watcher, beating, noticed
    <3> QED
      BY <1>4, <3>1, <3>2, <3>3, <3>4, <3>5
  <2> QED
    BY <2>1 DEF Founded, Grounds, Refuted, Absence, Missing, Hush, IsFile, LastSeen
<1> QED
  BY <1>1, <1>2, <1>3, <1>4 DEF WatchdogNext

\* What a step may not do.
Justified ==
    \A k \in DOMAIN open' \ DOMAIN open :
        /\ k[2] = "process-absent" /\ Steady # Never =>
                now - Steady >= AbsentAfter + ConfirmAfter - Blind
        /\ k[2] \in {"log-missing", "output-missing"} /\ ConfirmAfter > Blind =>
                misses >= 2
        /\ k[2] \in {"log-stale", "output-stale"} => ~WrittenOften
        /\ k[2] = NoHeartbeat => now - heard >= AliveWarn + ConfirmAfter

LEMMA StepJustified ==
  ASSUME Attentive, Roomy, Parts, Punctual, BeatsNow, Dated, Past, KnowsProcess, KnowsFile,
         Founded, [WatchdogNext]_wvars
  PROVE  Justified
<1>1. CASE Turn
  <2> SUFFICES ASSUME NEW k \in DOMAIN open' \ DOMAIN open
               PROVE  /\ k[2] = "process-absent" /\ Steady # Never =>
                              now - Steady >= AbsentAfter + ConfirmAfter - Blind
                      /\ k[2] \in {"log-missing", "output-missing"} /\ ConfirmAfter > Blind =>
                              misses >= 2
                      /\ k[2] \in {"log-stale", "output-stale"} => ~WrittenOften
                      /\ k[2] = NoHeartbeat => now - heard >= AliveWarn + ConfirmAfter
    BY DEF Justified
  <2>1. PICK a : a = Verdicts(now)
    OBVIOUS
  <2>2. /\ a \in Assessments /\ Cycle(a) /\ DOMAIN a = {TheJob} \X Conditions(now)
        /\ cycleAt # now
    BY <1>1, <2>1, TurnDoes DEF Turn
  <2>3. k \in Confirmed(a)
    BY <2>2, TurnOfIncident
  <2>4. /\ k \in DOMAIN a
        /\ Noted(a, k).firstSeen = IF k \in DOMAIN wrong THEN spell[k].from ELSE now
        /\ now - Noted(a, k).firstSeen >= ConfirmAfter \/ ConfirmAfter = 0
        /\ Noted(a, k).firstSeen \in Time
    BY <2>2, <2>3, ConfirmedSince DEF Parts
  <2>5. PICK c : c = k[2]
    OBVIOUS
  <2>6. c \in Conditions(now)
    BY <2>2, <2>4, <2>5
  <2>7. PICK from : from = Noted(a, k).firstSeen
    OBVIOUS
  <2>8. /\ now \in Nat /\ ConfirmAfter \in Nat /\ from \in Nat /\ from <= now
        /\ Blind \in Nat \ {0} /\ AbsentAfter \in Nat /\ AliveWarn \in Nat /\ heard \in Nat
    <3>1. now \in Nat /\ ConfirmAfter \in Nat /\ from \in Nat
      BY <2>4, <2>7, Times, BoundsAssumption DEF Time
    <3>2. from <= now
      <4>1. CASE k \in DOMAIN wrong
        <5>1. cycleAt \in Int /\ cycleAt <= now
          BY Times DEF Punctual, NoTime
        <5>2. spell[k].from <= cycleAt
          BY <4>1 DEF Past, Parts, Inv, WellFormed, TypeOK
        <5> QED
          BY <2>4, <2>7, <3>1, <4>1, <5>1, <5>2
      <4>2. CASE k \notin DOMAIN wrong
        BY <2>4, <2>7, <3>1, <4>2
      <4> QED
        BY <4>1, <4>2
    <3> QED
      BY <3>1, <3>2, Paced, Stale, Alive, SilenceIsTrue
  <2>9. now - from >= ConfirmAfter
    BY <2>4, <2>7, <2>8
  <2>10. Grounds(c, from)
    <3>1. Grounds(c, now) /\ ~Refuted(c)
      BY <2>2, <2>6, ReportIsGrounded
    <3>2. k \in DOMAIN wrong => Grounds(c, from)
      BY <2>4, <2>5, <2>7, <3>1 DEF Founded
    <3> QED
      BY <2>4, <2>7, <3>1, <3>2
  <2>11. c = "process-absent" /\ Steady # Never =>
            now - Steady >= AbsentAfter + ConfirmAfter - Blind
    <3> SUFFICES ASSUME c = "process-absent", Steady # Never
                 PROVE  now - Steady >= AbsentAfter + ConfirmAfter - Blind
      OBVIOUS
    <3>1. Absence(c)
      BY <2>6, WhatIsReported
    <3>2. PICK last, steady : last = found.lastRunning /\ steady = Steady
      OBVIOUS
    <3>3. last \in Int /\ steady \in Int
      BY <2>8, <3>2 DEF Dated, Looks, Steady, Never
    <3>4. last # Never /\ last >= steady - Blind
      BY <3>1, <3>2 DEF KnowsProcess, Absence
    <3>5. from - last >= AbsentAfter
      BY <2>10, <3>1, <3>2, <3>4 DEF Grounds, LastSeen
    <3>6. now - steady >= AbsentAfter + ConfirmAfter - Blind
      BY <2>8, <2>9, <3>3, <3>4, <3>5
    <3> QED
      BY <3>2, <3>6
  <2>12. c \in {"log-missing", "output-missing"} /\ ConfirmAfter > Blind => misses >= 2
    <3> SUFFICES ASSUME c \in {"log-missing", "output-missing"}, ConfirmAfter > Blind
                 PROVE  misses >= 2
      OBVIOUS
    <3>1. Missing(c)
      BY <2>6, WhatIsReported
    <3>2. lastPoll \in Int /\ now - lastPoll <= Blind
      BY <3>1 DEF Dated, Missing, IsFile
    <3>3. lastPoll > from
      BY <2>8, <2>9, <3>2
    <3> QED
      BY <2>10, <3>1, <3>3 DEF Grounds
  <2>13. c \in {"log-stale", "output-stale"} => ~WrittenOften
    <3> SUFFICES ASSUME c \in {"log-stale", "output-stale"}, WrittenOften
                 PROVE  FALSE
      OBVIOUS
    <3>1. IsFile /\ FileStale(found, now)
      BY <2>6, WhatIsReported
    <3>2. PICK modified : modified = found.modified
      OBVIOUS
    <3>3. /\ modified \in Int /\ lastPoll \in Int /\ now - lastPoll <= Blind
          /\ pace \in Nat /\ pace # 0 /\ pace + Blind < StaleAfter /\ StaleAfter \in Nat
      BY <3>1, <3>2, Stale DEF Dated, Looks, IsFile, Never, WrittenOften
    <3>4. IsPresent(found.file) /\ Since(modified, now) >= StaleAfter
      BY <3>1, <3>2 DEF FileStale, IsPresent
    <3>5. lastPoll - modified <= pace
      BY <3>1, <3>2, <3>3, <3>4 DEF KnowsFile
    <3>6. now - modified >= StaleAfter
      BY <2>8, <3>3, <3>4 DEF Since
    <3> QED
      BY <2>8, <3>3, <3>5, <3>6
  <2>14. c = NoHeartbeat => now - heard >= AliveWarn + ConfirmAfter
    <3> SUFFICES ASSUME c = NoHeartbeat PROVE now - heard >= AliveWarn + ConfirmAfter
      OBVIOUS
    <3>1. from - heard >= AliveWarn
      BY <2>6, <2>10, WhatIsReported DEF Grounds
    <3> QED
      BY <2>8, <2>9, <3>1
  <2> QED
    BY <2>5, <2>11, <2>12, <2>13, <2>14
<1>2. CASE Around \/ Accept \/ TimePasses \/ UNCHANGED wvars
  <2>1. open' = open
    <3>1. CASE Accept
      BY <3>1, AcceptDoes
    <3>2. CASE Around \/ UNCHANGED wvars
      BY <3>2, AroundKeeps DEF vars, program, wvars
    <3>3. CASE TimePasses
      BY <3>3 DEF TimePasses, Tick, program
    <3> QED
      BY <1>2, <3>1, <3>2, <3>3
  <2> QED
    BY <2>1 DEF Justified
<1> QED
  BY <1>1, <1>2, StepKinds

-----------------------------------------------------------------------------
(* What is cleared is better *)

\* That a ratio is low is found as the rule has it.
LEMMA LowIsReported ==
  ASSUME Parts, Punctual, watched = "beats", NEW r \in Ratios
  PROVE  /\ r.name \in Conditions(now) => Proved!IsJudged(r, now)
         /\ NoHeartbeat \notin Conditions(now) /\ Proved!IsJudged(r, now) /\ Proved!IsBelow(r, now)
                => r.name \in Conditions(now)
<1>1. Conditions(now) = {ConditionOf(f) : f \in Proved!Assess(now)} /\ BeatRules
  BY SameFindings DEF Conditions, Parts, AsConfigured
<1>2. r.name \in LowCondition /\ r.name # NoHeartbeat /\ r.name \notin UnreportedCondition
  <2>1. r.name \in LowCondition
    BY DEF LowCondition
  <2> QED
    BY <2>1, ConditionsAssumption
<1>3. ASSUME r.name \in Conditions(now)
      PROVE  Proved!IsJudged(r, now)
  <2>1. PICK f \in Proved!Assess(now) : ConditionOf(f) = r.name
    BY <1>1, <1>3
  <2>2. f.what # "NoHeartbeat"
    BY <1>2, <2>1 DEF ConditionOf
  <2>3. f.what \in {"Ratio", "RatioUnreported"} /\ \E s \in Ratios : f.rule = s.name
    BY <1>1, <2>2, EachFinding
  <2>4. f.what # "RatioUnreported"
    <3> SUFFICES ASSUME f.what = "RatioUnreported" PROVE FALSE
      OBVIOUS
    <3>1. ConditionOf(f) \in UnreportedCondition
      BY <2>3 DEF ConditionOf, UnreportedCondition
    <3> QED
      BY <1>2, <2>1, <3>1
  <2>5. f.what = "Ratio" /\ f.rule = r.name
    BY <2>1, <2>3, <2>4 DEF ConditionOf
  <2>6. \/ f \in Proved!AliveFindings(now) \/ f \in Proved!WorkedFindings(now)
        \/ f \in Proved!FreshnessFindings(now)
        \/ \E s \in Ratios : f \in Proved!RatioFindings(s, now)
    BY <2>1, Zenon DEF Proved!Assess
  <2>7. PICK s \in Ratios : f \in Proved!RatioFindings(s, now)
    BY <2>5, <2>6, Proved!OtherFindings, JobFits
  <2>8. f # Proved!Finding("RatioUnreported", s.name, Proved!Warn)
    BY <2>5, FindingFields
  <2>9. Proved!IsJudged(s, now) /\ f = Proved!Finding("Ratio", s.name, Proved!Warn)
    BY <2>7, <2>8, Zenon DEF Proved!RatioFindings
  <2>10. s.name = r.name
    BY <2>5, <2>9, FindingFields
  <2>11. s = r
    BY <2>10, JobFits DEF Proved!JobValid
  <2> QED
    BY <2>9, <2>11
<1>4. ASSUME NoHeartbeat \notin Conditions(now), Proved!IsJudged(r, now), Proved!IsBelow(r, now)
      PROVE  r.name \in Conditions(now)
  <2> DEFINE low == Proved!Finding("Ratio", r.name, Proved!Warn)
  <2>1. ~Proved!Reported("NoHeartbeat", now)
    <3> SUFFICES ASSUME NEW f \in Proved!Assess(now), f.what = "NoHeartbeat" PROVE FALSE
      BY DEF Proved!Reported
    <3>1. ConditionOf(f) = NoHeartbeat
      BY DEF ConditionOf
    <3> QED
      BY <1>1, <1>4, <3>1
  <2>2. Proved!RatioReported(r, now)
    BY <1>1, <1>4, <2>1, Proved!RatioReportedBy, JobFits DEF BeatRules
  <2>3. low \in Proved!Assess(now)
    BY <2>2 DEF Proved!RatioReported
  <2>4. ConditionOf(low) = r.name
    <3>1. low.what = "Ratio" /\ low.rule = r.name
      BY FindingFields
    <3> HIDE DEF low
    <3> QED
      BY <3>1 DEF ConditionOf
  <2> QED
    BY <1>1, <2>3, <2>4
<1> QED
  BY <1>3, <1>4

\* Every beat carries the counter that its ratio is taken of.
AllCounted == \A d \in Detail : d.fetched # Never

\* The counters of the last beat are kept.
LastKept ==
    \E i \in first..Len(samples) :
        samples[i].at = heard /\ \E d \in Detail : samples[i].fetched = d.fetched

\* Nothing is said of a ratio before the first beat, and a beat leaves what it is judged by.
Counted ==
    watched = "beats" =>
        /\ seen => beats > 0
        /\ \A k \in DOMAIN open : k[2] \in LowCondition => beats > 0
        /\ beats > 0 /\ AllCounted => LastKept

LEMMA InitCounted == WatchdogInit => Counted
<1> SUFFICES ASSUME WatchdogInit PROVE Counted
  OBVIOUS
<1>1. open = EmptyMap
  BY DEF WatchdogInit, Init
<1>2. beats = 0 /\ seen = FALSE
  BY SameJob DEF WatchdogInit, Proved!Init
<1> QED
  BY <1>1, <1>2 DEF Counted, EmptyMap

\* What a beat leaves behind, of its counters.
LEMMA BeatLeaves ==
  ASSUME Parts, Punctual, BeatsNow, RecordBeat, AllCounted
  PROVE  LastKept'
<1>1. /\ arriving[1].true = now /\ arriving[1].at \in Nat /\ arriving[1].detail \in Detail
      /\ arriving # <<>> /\ heard' = now
  BY BeatDoes
<1>2. PICK i \in DOMAIN arriving : Proved!RecordSample(arriving[i].at, arriving[i].detail)
  BY SameJob DEF RecordBeat, Proved!RecordBeat
<1>3. arriving \in Seq([at : 0..MaxTime, true : 0..Proved!TrueTime, detail : Detail])
      /\ Proved!TypeOK /\ Proved!SInv
  BY JobFits DEF Parts, Proved!IInv, Proved!TypeOK
<1>4. i = 1 /\ 1 \in 1..Len(arriving)
  <2>1. Len(arriving) \in Nat /\ DOMAIN arriving = 1..Len(arriving) /\ Len(arriving) # 0
    BY <1>1, <1>3, LenProperties, EmptySeq
  <2> QED
    BY <1>2, <2>1 DEF BeatsNow
<1>5. arriving[1].at = now /\ arriving[1].at \in 0..MaxTime
  <2> DEFINE Arriving == [at : 0..MaxTime, true : 0..Proved!TrueTime, detail : Detail]
  <2>1. arriving \in Seq(Arriving)
    BY <1>3
  <2> HIDE DEF Arriving
  <2>2. arriving[1] \in Arriving
    BY <1>4, <2>1, ElementOfSeq
  <2>3. arriving[1].at \in 0..MaxTime
    BY <2>2 DEF Arriving
  <2>4. arriving[1].true - setBack <= arriving[1].at /\ arriving[1].at <= arriving[1].true
    BY <1>4 DEF Parts, Proved!IInv, Proved!BeatsHonest
  <2> QED
    BY <1>1, <2>3, <2>4, Times DEF Punctual
<1>6. "ratio" \in rules /\ arriving[1].detail.fetched # Proved!None
  BY <1>1 DEF Parts, AsConfigured, BeatRules, AllCounted, Never, Proved!None
<1>7. \E j \in first'..Len(samples') :
         samples'[j].at = arriving[1].at /\ samples'[j].fetched = arriving[1].detail.fetched
  <2>1. Proved!RecordSample(arriving[1].at, arriving[1].detail)
    BY <1>2, <1>4
  <2> QED
    BY <1>1, <1>3, <1>5, <1>6, <2>1, Proved!BeatIsKept, JobFits
<1> QED
  BY <1>1, <1>5, <1>7 DEF LastKept

LEMMA NextCounted ==
  ASSUME Roomy, Parts, Punctual, BeatsNow, Counted, [WatchdogNext]_wvars
  PROVE  Counted'
<1>1. CASE Turn
  <2>1. PICK a : a = Verdicts(now)
    OBVIOUS
  <2>2. a \in Assessments /\ Cycle(a) /\ DOMAIN a = {TheJob} \X Conditions(now)
    BY <1>1, <2>1, TurnDoes
  <2>3. UNCHANGED <<watched, beats, seen, samples, first, heard>>
    BY <1>1 DEF Turn, outside, beating
  <2>4. ASSUME watched = "beats", NEW k \in DOMAIN open', k[2] \in LowCondition
        PROVE  beats > 0
    <3>1. k \in DOMAIN open \/ k \in Confirmed(a)
      BY <2>2, TurnOfIncident
    <3>2. CASE k \in Confirmed(a)
      <4>1. k[2] \in Conditions(now)
        BY <2>2, <3>2 DEF Confirmed
      <4>2. PICK r \in Ratios : k[2] = r.name
        BY <2>4 DEF LowCondition
      <4>3. Proved!IsJudged(r, now)
        BY <2>4, <4>1, <4>2, LowIsReported
      <4>4. seen
        BY <4>3 DEF Proved!IsJudged, Proved!EverSeen
      <4> QED
        BY <2>4, <4>4 DEF Counted
    <3> QED
      BY <2>4, <3>1, <3>2 DEF Counted
  <2> QED
    BY <2>3, <2>4 DEF Counted, LastKept
<1>2. CASE RecordBeat
  <2>1. watched = "beats" /\ beats' = beats + 1 /\ UNCHANGED <<watched, open>>
    BY <1>2, BeatDoes DEF vars, program, outside
  <2>2. beats \in Nat
    BY JobFits DEF Parts, Proved!IInv, Proved!TypeOK
  <2>3. beats' > 0
    BY <2>1, <2>2
  <2>4. AllCounted => LastKept'
    BY <1>2, BeatLeaves
  <2> QED
    BY <2>3, <2>4 DEF Counted
<1>3. CASE \/ ChangeProcesses \/ ChangePidfile \/ ChangeFile \/ Stop \/ LogError \/ Write
           \/ Arrive \/ Look \/ Accept \/ TimePasses \/ UNCHANGED wvars
  <2>1. UNCHANGED <<watched, open, beats, seen, samples, first, heard>>
    <3>1. CASE \/ ChangeProcesses \/ ChangePidfile \/ ChangeFile \/ Stop \/ LogError \/ Write
               \/ Look
      BY <3>1 DEF ChangeProcesses, ChangePidfile, ChangeFile, Stop, LogError, Write, Look, vars,
                  program, beating
    <3>2. CASE Arrive
      BY <3>2, SameJob DEF Arrive, Proved!Arrive, vars, program, outside
    <3>3. CASE Accept
      <4>1. open' = open
        BY <3>3, AcceptDoes
      <4> QED
        BY <3>3, <4>1 DEF Accept, outside, beating
    <3>4. CASE TimePasses
      BY <3>4 DEF TimePasses, Tick, program, outside, beating
    <3>5. CASE UNCHANGED wvars
      BY <3>5 DEF wvars, vars, program, outside, beating
    <3> QED
      BY <1>3, <3>1, <3>2, <3>3, <3>4, <3>5
  <2> QED
    BY <2>1 DEF Counted, LastKept
<1> QED
  BY <1>1, <1>2, <1>3 DEF WatchdogNext

\* The end of an incident of a job that beats.
Bettered(k) ==
    /\ now - heard < AliveWarn
    /\ \A r \in Ratios : k[2] = r.name /\ AlwaysJudged(r) =>
            Beats!IsJudged(r, now) /\ ~Beats!IsBelow(r, now)

LEMMA StepBetters ==
  ASSUME Roomy, Parts, Punctual, Counted, [WatchdogNext]_wvars, watched = "beats",
         NEW k \in DOMAIN open \ DOMAIN open'
  PROVE  Bettered(k)
<1>1. Turn
  <2>1. CASE Accept
    BY <2>1, AcceptDoes
  <2>2. CASE Around \/ UNCHANGED wvars
    BY <2>2, AroundKeeps DEF vars, program, wvars
  <2>3. CASE TimePasses
    BY <2>3 DEF TimePasses, Tick, program
  <2> QED
    BY <2>1, <2>2, <2>3, StepKinds
<1>2. PICK a : a = Verdicts(now)
  OBVIOUS
<1>3. a \in Assessments /\ Cycle(a) /\ DOMAIN a = {TheJob} \X Conditions(now)
  BY <1>1, <1>2, TurnDoes
<1>4. k \in Recovered(a)
  <2>1. DOMAIN open' = (DOMAIN open \ Recovered(a)) \cup Confirmed(a)
    BY <1>3 DEF Cycle, OpenAfter
  <2> QED
    BY <2>1
<1>5. k \notin DOMAIN a /\ k[1] \notin Unjudgeable(a)
  BY <1>4 DEF Recovered, Clearing
<1>6. k = <<TheJob, k[2]>>
  BY DEF Punctual
<1>7. NoHeartbeat \notin Conditions(now) /\ k[2] \notin Conditions(now)
  <2>1. k[2] \notin Conditions(now)
    BY <1>3, <1>5, <1>6
  <2>2. <<TheJob, NoHeartbeat>> \notin DOMAIN a
    BY <1>5, <1>6, TheJobIs DEF Unjudgeable
  <2> QED
    BY <1>3, <2>1, <2>2
<1>8. now \in Nat /\ heard \in Nat /\ heard <= now /\ AliveWarn \in Nat
  BY Times, SilenceIsTrue, Alive
<1>9. now - heard < AliveWarn
  BY <1>7, <1>8, BeatsJudged
<1>10. ASSUME NEW r \in Ratios, k[2] = r.name, AlwaysJudged(r)
       PROVE  Beats!IsJudged(r, now) /\ ~Beats!IsBelow(r, now)
  <2>1. r.window \in Nat /\ r.window >= AliveWarn
    BY <1>10, JobFits DEF Proved!JobValid, Proved!RatioValid, AlwaysJudged
  <2>2. beats > 0 /\ AllCounted
    BY <1>10 DEF Counted, LowCondition, AlwaysJudged, AllCounted
  <2>3. PICK i \in first..Len(samples) :
            samples[i].at = heard /\ \E d \in Detail : samples[i].fetched = d.fetched
    BY <2>2 DEF Counted, LastKept
  <2>4. samples[i].fetched # Proved!None /\ samples[i].fetched >= r.sample
    BY <1>10, <2>3 DEF AlwaysJudged, Never, Proved!None
  <2>5. now - r.window < samples[i].at /\ samples[i].at <= now
    BY <1>8, <1>9, <2>1, <2>3
  <2>6. Proved!IsJudged(r, now)
    BY <2>4, <2>5, Proved!JudgedByOne, JobFits DEF Parts, Proved!SInv
  <2>7. ~Proved!IsBelow(r, now)
    BY <1>7, <1>10, <2>6, LowIsReported
  <2> QED
    BY <2>6, <2>7, SameFindings
<1> QED
  BY <1>9, <1>10 DEF Bettered

-----------------------------------------------------------------------------
(* Theorems of the composition *)

\* What holds whatever the rules say: the two parts, what the watcher knows, and how
\* long the dispatcher may think about it.
Regular ==
    /\ Parts /\ Punctual /\ Agrees /\ BeatsNow
    /\ Dated /\ Past /\ KnowsProcess /\ KnowsFile
    /\ Young /\ Fresh

LEMMA InitRegular == WatchdogInit => Regular
  BY InitParts, InitPunctual, InitBeatsNow, InitDated, InitKnowsProcess, InitKnowsFile,
     InitWindows DEF Regular

LEMMA NextRegular ==
  ASSUME Roomy, Regular, [WatchdogNext]_wvars
  PROVE  Regular'
  BY NextParts, NextPunctual, NextBeatsNow, NextDated, NextPast, NextKnowsProcess,
     NextKnowsFile, NextWindows DEF Regular

\* main.rs, passive.rs, receiver.rs: the watch loop turns in time and nothing waits in its
\* queue for longer than a turn, every window is over when it should be, no date is in the
\* future, and what is known of a process or a file is what the last looks found.
THEOREM RegularTheorem == ASSUME Roomy PROVE WatchdogSpec => []Regular
<1>1. WatchdogInit => Regular
  BY InitRegular
<1>2. Regular /\ [WatchdogNext]_wvars => Regular'
  BY NextRegular
<1> QED
  BY <1>1, <1>2, PTL DEF WatchdogSpec

\* passive.rs, evaluate.rs, notify.rs: what is wrong with a job for long enough, whatever
\* it is watched by, has been announced, and a job that goes on being silent as critical;
\* for all periods and delays, if the queue has room for every condition there is and the
\* watch loop does not sleep through the whole of warn_after.
THEOREM TroubleToldTheorem ==
  ASSUME Roomy, Attentive
  PROVE  WatchdogSpec => []TroubleIsTold
<1> DEFINE I == Regular /\ Reporting /\ SilenceJudged /\ SilenceTold
<1>1. WatchdogInit => I
  BY InitRegular, InitReporting, InitSilence
<1>2. I /\ [WatchdogNext]_wvars => I'
  <2> SUFFICES ASSUME I, [WatchdogNext]_wvars PROVE I'
    OBVIOUS
  <2>1. Regular'
    BY NextRegular
  <2>2. Reporting'
    BY NextReporting DEF Regular
  <2>3. SilenceJudged'
    BY NextSilenceJudged DEF Regular
  <2>4. SilenceTold'
    BY NextSilenceTold DEF Regular
  <2> QED
    BY <2>1, <2>2, <2>3, <2>4
<1>3. I => TroubleIsTold
  <2> SUFFICES ASSUME I PROVE TroubleIsTold
    OBVIOUS
  <2>1. \A c \in Owed : told[<<TheJob, c>>] # AllClear
    BY OwedIsTold DEF Regular
  <2>2. watched = "beats" /\ Late(heard, AliveCritical) => told[<<TheJob, NoHeartbeat>>] = Critical
    BY SilenceIsCritical DEF Regular, TheSilence
  <2> QED
    BY <2>1, <2>2 DEF TroubleIsTold
<1> QED
  BY <1>1, <1>2, <1>3, PTL DEF WatchdogSpec

\* And back: once there has been nothing wrong with a job for long enough, nobody is left
\* believing there is, whatever was going on when it recovered.
THEOREM RecoveryToldTheorem ==
  ASSUME Roomy
  PROVE  WatchdogSpec => []RecoveryIsTold
<1> DEFINE I == Regular /\ Recovering
<1>1. WatchdogInit => I
  BY InitRegular, InitRecovering
<1>2. I /\ [WatchdogNext]_wvars => I'
  <2> SUFFICES ASSUME I, [WatchdogNext]_wvars PROVE I'
    OBVIOUS
  <2>1. Regular'
    BY NextRegular
  <2>2. Recovering'
    BY NextRecovering DEF Regular
  <2> QED
    BY <2>1, <2>2
<1>3. I => RecoveryIsTold
  BY NobodyIsLeft DEF Regular
<1> QED
  BY <1>1, <1>2, <1>3, PTL DEF WatchdogSpec

\* passive.rs:178, evaluate.rs: nobody is woken for a moment. What a new alert says was so
\* for as long as the rule and the window ask, whatever the looks, the beats and the turns
\* did to each other in that time, if the watch loop turns more often than a watcher looks
\* and does not sleep through the whole of warn_after.
THEOREM TroubleRealTheorem ==
  ASSUME Roomy, Attentive, Frequent
  PROVE  WatchdogSpec => TroubleIsReal
<1> DEFINE I == Regular /\ Founded
<1>1. WatchdogInit => I
  BY InitRegular, InitFounded
<1>2. I /\ [WatchdogNext]_wvars => I'
  <2> SUFFICES ASSUME I, [WatchdogNext]_wvars PROVE I'
    OBVIOUS
  <2>1. Regular'
    BY NextRegular
  <2>2. Founded'
    BY NextFounded DEF Regular
  <2> QED
    BY <2>1, <2>2
<1>3. I /\ [WatchdogNext]_wvars => [Justified]_wvars
  BY StepJustified DEF Regular
<1>4. [Justified]_wvars => [\A k \in DOMAIN open' \ DOMAIN open :
        /\ k[2] = "process-absent" /\ Steady # Never =>
                now - Steady >= AbsentAfter + ConfirmAfter - Blind
        /\ k[2] \in {"log-missing", "output-missing"} /\ ConfirmAfter > Blind =>
                misses >= 2
        /\ k[2] \in {"log-stale", "output-stale"} => ~WrittenOften
        /\ k[2] = NoHeartbeat => now - heard >= AliveWarn + ConfirmAfter]_wvars
  BY DEF Justified
<1> QED
  BY <1>1, <1>2, <1>3, <1>4, PTL DEF WatchdogSpec, TroubleIsReal

\* notify.rs:1024: nothing about a job that beats is cleared while it is silent, and a ratio
\* that is judged as long as the job is alive is cleared only when it is judged and good
\* enough: the counters of the last beat are still there when the rule asks for them.
THEOREM ClearedBetterTheorem ==
  ASSUME Roomy
  PROVE  WatchdogSpec => ClearedIsBetter
<1> DEFINE I == Regular /\ Counted
<1>1. WatchdogInit => I
  BY InitRegular, InitCounted
<1>2. I /\ [WatchdogNext]_wvars => I'
  <2> SUFFICES ASSUME I, [WatchdogNext]_wvars PROVE I'
    OBVIOUS
  <2>1. Regular'
    BY NextRegular
  <2>2. Counted'
    BY NextCounted DEF Regular
  <2> QED
    BY <2>1, <2>2
<1>3. I /\ [WatchdogNext]_wvars =>
        [watched = "beats" =>
            \A k \in DOMAIN open \ DOMAIN open' :
                /\ now - heard < AliveWarn
                /\ \A r \in Ratios : k[2] = r.name /\ AlwaysJudged(r) =>
                        Beats!IsJudged(r, now) /\ ~Beats!IsBelow(r, now)]_wvars
  <2> SUFFICES ASSUME I, [WatchdogNext]_wvars, watched = "beats",
                      NEW k \in DOMAIN open \ DOMAIN open'
               PROVE  /\ now - heard < AliveWarn
                      /\ \A r \in Ratios : k[2] = r.name /\ AlwaysJudged(r) =>
                              Beats!IsJudged(r, now) /\ ~Beats!IsBelow(r, now)
    OBVIOUS
  <2>1. Bettered(k)
    BY StepBetters DEF Regular
  <2> QED
    BY <2>1 DEF Bettered
<1> QED
  BY <1>1, <1>2, <1>3, PTL DEF WatchdogSpec, ClearedIsBetter

=============================================================================
