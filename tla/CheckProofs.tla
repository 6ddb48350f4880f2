---------------------------- MODULE CheckProofs ----------------------------
(***************************************************************************)
(* Theorems about a probed dependency, for every interval, timeout, window *)
(* and set of latencies.                                                   *)
(***************************************************************************)
EXTENDS Check, SetLemmas

\* The two parts of ConfigAssumption are wanted wherever it is cited.
USE DEF CheckValid, DegradationValid

-----------------------------------------------------------------------------
(* Lemmas about times *)

\* A nonempty set of times that is bounded has a last one.
LEMMA LastExists ==
  ASSUME NEW n \in Nat, NEW S, S \subseteq 0..n, S # {}
  PROVE  \E t \in S : \A u \in S : u <= t
<1> DEFINE Back == {n - t : t \in S}
<1>1. Back \subseteq Nat /\ Back # {}
  <2>1. PICK t \in S : TRUE
    OBVIOUS
  <2>2. n - t \in Back
    BY <2>1
  <2>3. \A u \in S : n - u \in Nat
    OBVIOUS
  <2> QED
    BY <2>2, <2>3
<1>2. PICK b \in Back : \A c \in Back : b <= c
  <2> HIDE DEF Back
  <2> QED BY <1>1, FirstExists
<1>3. PICK t \in S : b = n - t
  BY <1>2
<1>4. \A u \in S : n - t <= n - u
  BY <1>2, <1>3
<1> QED
  BY <1>4

\* The first of a set of times.
LEMMA LeastProperty ==
  ASSUME NEW S, S \subseteq Nat, S # {}
  PROVE  Least(S) \in S /\ \A u \in S : Least(S) <= u
  BY FirstExists DEF Least

\* The windows a verdict asks about are times, and are kept.
LEMMA WindowsTyped ==
  /\ RecentWindow \in Nat /\ RecentWindow <= BaselineWindow
  /\ Retention \in Nat
  /\ BaselineWindow + 2 * Interval <= Retention
  /\ DownAfter + 2 * Interval <= Retention
<1>1. BaselineWindow \div 3 \in Nat /\ BaselineWindow \div 3 <= BaselineWindow
  BY ConfigAssumption
<1>2. RecentIntervals * Interval \in Nat
  BY ConfigAssumption
<1>3. RecentWindow \in Nat /\ RecentWindow <= BaselineWindow
  <2>1. \A a, b \in Nat : b <= BaselineWindow =>
            Smaller(a, b) \in Nat /\ Smaller(a, b) <= BaselineWindow
    BY ConfigAssumption DEF Smaller
  <2> QED
    BY <1>1, <1>2, <2>1, Zenon DEF RecentWindow
<1> QED
  BY <1>3, ConfigAssumption DEF Retention, Larger

-----------------------------------------------------------------------------
(* Type correctness, and what the observations mean *)

LEMMA InitTyped == Init => TypeOK
  BY ConfigAssumption, CheckBoundsAssumption DEF Init, TypeOK, Time, IsRecord

LEMMA WithTyped ==
  ASSUME TypeOK, NEW m, IsRecord(m), NEW outcome \in Outcome
  PROVE  /\ DOMAIN With(m, outcome) = DOMAIN m \cup {now}
         /\ \A t \in DOMAIN m : t # now => With(m, outcome)[t] = m[t]
         /\ With(m, outcome)[now] = outcome
         /\ IsRecord(With(m, outcome))
<1>1. now \in Nat
  BY CheckBoundsAssumption DEF TypeOK, Time
<1> QED
  BY <1>1 DEF With, IsRecord

LEMMA RecordedTyped ==
  ASSUME TypeOK, NEW outcome \in Outcome
  PROVE  LET extended == With(observations, outcome)
             kept == Recorded(observations, outcome)
         IN  /\ DOMAIN kept = {t \in DOMAIN extended : now - Retention <= t}
             /\ \A t \in DOMAIN kept : kept[t] = extended[t]
             /\ IsRecord(kept)
<1>1. IsRecord(With(observations, outcome))
  BY WithTyped DEF TypeOK
<1> QED
  BY <1>1 DEF Recorded, IsRecord

LEMMA RecordTyped ==
  ASSUME TypeOK, NEW outcome \in Outcome, Record(outcome)
  PROVE  TypeOK'
<1>1. IsRecord(history')
  BY WithTyped DEF Record, TypeOK
<1>2. IsRecord(observations')
  BY RecordedTyped DEF Record
<1>3. now' = now
  BY DEF Record
<1>4. IsRecord(history)' /\ IsRecord(observations)'
  BY <1>1, <1>2, <1>3 DEF IsRecord
<1> QED
  BY <1>4 DEF Record, TypeOK, None

LEMMA NextTyped == TypeOK /\ [Next]_vars => TypeOK'
<1> SUFFICES ASSUME TypeOK, [Next]_vars PROVE TypeOK'
  OBVIOUS
<1> USE ConfigAssumption, CheckBoundsAssumption
<1>1. CASE Probe
  BY <1>1 DEF Probe, TypeOK, IsRecord, Time
<1>2. CASE Respond
  BY <1>2, RecordTyped DEF Respond, Outcome
<1>3. CASE Fail
  BY <1>3, RecordTyped DEF Fail, Outcome
<1>4. CASE Pass
  <2>1. now' = now + 1 /\ now' \in Time
    BY <1>4 DEF Pass, TypeOK, Time
  <2>2. stalled' \in 0..MaxStall
    BY <1>4 DEF Pass, TypeOK
  <2>3. IsRecord(observations)' /\ IsRecord(history)'
    BY <1>4, <2>1 DEF Pass, TypeOK, IsRecord, Time
  <2> QED
    BY <1>4, <2>1, <2>2, <2>3 DEF Pass, TypeOK, None, Time
<1>5. CASE Evaluate
  BY <1>5 DEF Evaluate, vars, TypeOK, IsRecord
<1>6. CASE UNCHANGED vars
  BY <1>6 DEF vars, TypeOK, IsRecord
<1> QED
  BY <1>1, <1>2, <1>3, <1>4, <1>5, <1>6 DEF Next

\* Observations have one date each and are outcomes; the prober, the ticker and the
\* clock keep their bounds (prober.rs, state.rs).
THEOREM CheckTypeCorrect == Spec => []TypeOK
  BY InitTyped, NextTyped, PTL DEF Spec

-----------------------------------------------------------------------------
(* What the observations mean: ObservationsHonest is inductive *)

IInv == TypeOK /\ ObservationsHonest

LEMMA InitHonest == Init => ObservationsHonest
  BY ConfigAssumption DEF Init, ObservationsHonest, KeptIsNewest, OneAtATime, OnTime,
     Gapless, NextStart, None

LEMMA ProbeHonest ==
  ASSUME IInv, Probe
  PROVE  ObservationsHonest'
<1> USE ConfigAssumption, CheckBoundsAssumption DEF IInv, TypeOK, Time, None
<1>1. now \in Nat /\ due \in Nat /\ started' = now /\ due' = now + Interval
  BY DEF Probe
<1>2. KeptIsNewest'
  BY DEF ObservationsHonest, KeptIsNewest, Probe
<1>3. OneAtATime'
  BY <1>1 DEF OneAtATime, Probe, IsRecord
<1>4. OnTime'
  BY <1>1 DEF OnTime, Probe
<1>5. stalled' = 0 => due = now
  BY <1>1 DEF ObservationsHonest, OnTime, Probe
<1>6. Gapless'
  <2>1. stalled' = 0 => NextStart' = NextStart
    BY <1>1, <1>5 DEF NextStart, Probe
  <2> QED
    BY <2>1 DEF ObservationsHonest, Gapless, Probe
<1> QED
  BY <1>2, <1>3, <1>4, <1>6 DEF ObservationsHonest

LEMMA RecordHonest ==
  ASSUME IInv, NEW outcome \in Outcome, Record(outcome)
  PROVE  ObservationsHonest'
<1> USE ConfigAssumption, CheckBoundsAssumption
<1> DEFINE extended == With(observations, outcome)
<1>1. /\ now \in Nat /\ started \in Nat /\ started < now
      /\ started' = None /\ due' = due /\ now' = now /\ stalled' = stalled
      /\ due = started + Interval
      /\ \A t \in DOMAIN history : t \in Nat /\ t <= started
      /\ \A t \in DOMAIN observations : t \in Nat /\ t <= started
  BY DEF Record, IInv, TypeOK, Time, None, IsRecord, ObservationsHonest, OneAtATime, KeptIsNewest
<1>2. /\ DOMAIN history' = DOMAIN history \cup {now}
      /\ \A t \in DOMAIN history : history'[t] = history[t]
      /\ history'[now] = outcome
  <2>1. TypeOK /\ IsRecord(history)
    BY DEF IInv, TypeOK
  <2>2. /\ DOMAIN With(history, outcome) = DOMAIN history \cup {now}
        /\ \A t \in DOMAIN history : t # now => With(history, outcome)[t] = history[t]
        /\ With(history, outcome)[now] = outcome
    BY <2>1, WithTyped
  <2>3. \A t \in DOMAIN history : t # now
    BY <1>1
  <2>4. history' = With(history, outcome)
    BY DEF Record
  <2> QED
    BY <2>2, <2>3, <2>4
<1>3. /\ DOMAIN extended = DOMAIN observations \cup {now}
      /\ \A t \in DOMAIN observations : extended[t] = observations[t]
      /\ extended[now] = outcome
  <2>1. TypeOK /\ IsRecord(observations)
    BY DEF IInv, TypeOK
  <2>2. /\ DOMAIN extended = DOMAIN observations \cup {now}
        /\ \A t \in DOMAIN observations : t # now => extended[t] = observations[t]
        /\ extended[now] = outcome
    BY <2>1, WithTyped
  <2>3. \A t \in DOMAIN observations : t # now
    BY <1>1
  <2> QED
    BY <2>2, <2>3
<1>4. /\ DOMAIN observations' = {t \in DOMAIN observations \cup {now} : now - Retention <= t}
      /\ \A t \in DOMAIN observations' : observations'[t] = extended[t]
  BY <1>3, RecordedTyped DEF Record, IInv
<1>5. KeptIsNewest'
  <2>1. Retention \in Nat
    BY WindowsTyped
  <2>2. KeptIsNewest
    BY DEF IInv, ObservationsHonest
  <2>3. DOMAIN observations' \subseteq DOMAIN history'
    BY <1>2, <1>4, <2>2 DEF KeptIsNewest
  <2>4. ASSUME NEW t \in DOMAIN observations'
        PROVE  observations'[t] = history'[t]
    BY <1>2, <1>3, <1>4, <2>2 DEF KeptIsNewest
  <2>5. ASSUME NEW t \in DOMAIN observations', NEW u \in DOMAIN history', t <= u
        PROVE  u \in DOMAIN observations'
    <3>1. CASE u = now
      BY <1>1, <1>4, <2>1, <3>1
    <3>2. CASE u # now
      <4>1. u \in DOMAIN history /\ u < now
        BY <1>1, <1>2, <3>2
      <4>2. t \in DOMAIN observations /\ now - Retention <= t /\ t \in Nat
        BY <1>1, <1>4, <4>1, <2>5
      <4>3. u \in DOMAIN observations
        BY <2>2, <2>5, <4>1, <4>2 DEF KeptIsNewest
      <4> QED
        BY <1>1, <1>4, <2>1, <2>5, <4>1, <4>2, <4>3
    <3> QED
      BY <3>1, <3>2
  <2>6. ASSUME NEW t \in DOMAIN history' \ DOMAIN observations'
        PROVE  t < now - Retention
    <3>1. t \in DOMAIN history
      BY <1>1, <1>2, <1>4, <2>1
    <3> QED
      BY <1>1, <1>4, <2>1, <2>2, <3>1 DEF KeptIsNewest
  <2>7. Retention' = Retention
    BY DEF Retention, Larger
  <2> QED
    BY <1>1, <2>3, <2>4, <2>5, <2>6, <2>7 DEF KeptIsNewest
<1>6. OneAtATime'
  BY <1>1 DEF OneAtATime
<1>7. stalled' = 0 => now <= started + Timeout
  BY <1>1 DEF IInv, ObservationsHonest, OnTime, None
<1>8. OnTime'
  BY <1>1, <1>7 DEF OnTime
<1>9. Gapless'
  <2> SUFFICES ASSUME stalled' = 0, NEW t \in DOMAIN history' \cup {-Interval}
               PROVE  \/ \E u \in DOMAIN history' : t < u /\ u <= t + Interval + Timeout
                      \/ (\A u \in DOMAIN history' : u <= t) /\ NextStart' <= t + Interval
    BY DEF Gapless
  <2>1. NextStart' = started + Interval
    BY <1>1 DEF NextStart
  <2>2. CASE t = now
    BY <1>1, <1>2, <2>1, <2>2
  <2>3. CASE t # now
    <3>1. t \in DOMAIN history \cup {-Interval}
      BY <1>2, <2>3
    <3>2. CASE \E u \in DOMAIN history : t < u /\ u <= t + Interval + Timeout
      BY <1>2, <3>2
    <3>3. CASE NextStart <= t + Interval
      <4>1. started <= t + Interval
        BY <1>1, <3>3 DEF NextStart, None
      <4>2. t < now /\ now <= t + Interval + Timeout
        BY <1>1, <1>7, <3>1, <4>1
      <4> QED
        BY <1>2, <4>2
    <3> QED
      BY <1>1, <3>1, <3>2, <3>3 DEF IInv, ObservationsHonest, Gapless
  <2> QED
    BY <2>2, <2>3
<1> QED
  BY <1>5, <1>6, <1>8, <1>9 DEF ObservationsHonest

LEMMA PassHonest ==
  ASSUME IInv, Pass
  PROVE  ObservationsHonest'
<1> USE ConfigAssumption, CheckBoundsAssumption
<1>1. /\ now \in Nat /\ now' = now + 1 /\ due \in Nat /\ stalled \in Nat
      /\ due' = due /\ started' = started /\ history' = history
      /\ observations' = observations
      /\ started = None \/ started \in Nat
      /\ \A t \in DOMAIN history : t \in Nat
  BY DEF Pass, IInv, TypeOK, Time, IsRecord
<1>2. stalled' = 0 => stalled = 0 /\ ~ Late
  BY <1>1 DEF Pass
<1>3. KeptIsNewest'
  <2>1. Retention \in Nat /\ Retention' = Retention
    BY WindowsTyped DEF Retention, Larger
  <2>2. \A t \in DOMAIN history \ DOMAIN observations : t < now + 1 - Retention
    BY <1>1, <2>1 DEF IInv, ObservationsHonest, KeptIsNewest
  <2> QED
    BY <1>1, <2>1, <2>2 DEF IInv, ObservationsHonest, KeptIsNewest
<1>4. OneAtATime'
  BY <1>1 DEF IInv, ObservationsHonest, OneAtATime
<1>5. OnTime'
  BY <1>1, <1>2 DEF OnTime, Late, None
<1>6. Gapless'
  BY <1>1, <1>2 DEF IInv, ObservationsHonest, Gapless, NextStart
<1> QED
  BY <1>3, <1>4, <1>5, <1>6 DEF ObservationsHonest

LEMMA NextHonest == IInv /\ [Next]_vars => IInv'
<1> SUFFICES ASSUME IInv, [Next]_vars PROVE ObservationsHonest'
  BY NextTyped DEF IInv
<1>1. CASE Probe
  BY <1>1, ProbeHonest
<1>2. CASE Respond
  BY <1>2, RecordHonest DEF Respond, Outcome
<1>3. CASE Fail
  BY <1>3, RecordHonest DEF Fail, Outcome
<1>4. CASE Pass
  BY <1>4, PassHonest
<1>5. CASE UNCHANGED vars
  BY <1>5 DEF vars, IInv, ObservationsHonest, KeptIsNewest, OneAtATime, OnTime, Gapless,
     NextStart, Retention, Larger
<1> QED
  BY <1>1, <1>2, <1>3, <1>4, <1>5 DEF Next, Evaluate

LEMMA Honest == Spec => []IInv
<1>1. Init => IInv
  BY InitTyped, InitHonest DEF IInv
<1> QED
  BY <1>1, NextHonest, PTL DEF Spec

\* What is kept is the newest part of what was recorded and what is dropped is out of
\* every window; probes do not overlap, and a prober that is not held up leaves no gap
\* longer than an interval and a timeout (prober.rs, CheckState::record).
THEOREM ObservationsStayHonest == Spec => []ObservationsHonest
  BY Honest, PTL DEF IInv

-----------------------------------------------------------------------------
(* Down *)

\* The failures have lasted for DownAfter if one of them is that old.
LEMMA FailingForLong ==
  ASSUME TypeOK, NEW obs, IsRecord(obs)
  PROVE  FailingFor(obs) >= DownAfter <=> \E t \in FailingRun(obs) : now - t >= DownAfter
<1>1. now \in Nat /\ DOMAIN obs \subseteq Nat
  BY CheckBoundsAssumption DEF TypeOK, Time, IsRecord
<1>2. DownAfter \in Nat /\ DownAfter > 0
  BY ConfigAssumption
<1>3. FailingRun(obs) \subseteq Nat
  BY <1>1 DEF FailingRun
<1>4. CASE FailingRun(obs) = {}
  BY <1>2, <1>4 DEF FailingFor
<1>5. CASE FailingRun(obs) # {}
  <2>1. /\ Least(FailingRun(obs)) \in FailingRun(obs)
        /\ \A t \in FailingRun(obs) : Least(FailingRun(obs)) <= t
    BY <1>3, <1>5, LeastProperty
  <2>2. FailingFor(obs) = now - Least(FailingRun(obs))
    BY <1>5 DEF FailingFor
  <2>3. \A t \in FailingRun(obs) : now - t <= now - Least(FailingRun(obs))
    BY <1>1, <1>3, <2>1
  <2> QED
    BY <1>1, <1>2, <1>3, <2>1, <2>2, <2>3
<1> QED
  BY <1>4, <1>5

\* Every observation that is at least as new as t is a failure.
FailedSince(obs, t) == \A v \in DOMAIN obs : t <= v => obs[v] = Failed

\* Down, without the arithmetic of the failing run.
LEMMA DownMeans ==
  ASSUME TypeOK, NEW obs, IsRecord(obs)
  PROVE  IsDown(obs) <=>
            /\ \E u \in DOMAIN obs : now - DownAfter < u
            /\ \E t \in DOMAIN obs : t <= now - DownAfter /\ FailedSince(obs, t)
<1>1. now \in Nat /\ DOMAIN obs \subseteq 0..now /\ DownAfter \in Nat
  BY CheckBoundsAssumption, ConfigAssumption DEF TypeOK, Time, IsRecord
<1>2. Window(obs, DownAfter) = {u \in DOMAIN obs : now - DownAfter < u}
  BY <1>1 DEF Window
<1>3. FailingRun(obs) = {t \in DOMAIN obs : FailedSince(obs, t)}
  BY DEF FailingRun, FailedSince
<1>4. FailingFor(obs) >= DownAfter <=>
         \E t \in DOMAIN obs : t <= now - DownAfter /\ FailedSince(obs, t)
  BY <1>1, <1>3, FailingForLong
<1>5. ASSUME NEW t \in DOMAIN obs, t <= now - DownAfter, FailedSince(obs, t)
      PROVE  Answered(obs, Window(obs, DownAfter)) = {}
  BY <1>1, <1>2, <1>5 DEF Answered, FailedSince
<1> QED
  BY <1>2, <1>4, <1>5 DEF IsDown

LEMMA VerdictDown ==
  ASSUME NEW obs
  PROVE  Verdict(obs) = "down" <=> IsDown(obs)
  BY DEF Verdict, WithoutVerdict

\* A date that is kept is as recent as any that is not, and means the same.
LEMMA FailedSinceKept ==
  ASSUME KeptIsNewest, NEW t \in DOMAIN observations
  PROVE  FailedSince(observations, t) <=> FailedSince(history, t)
  BY DEF KeptIsNewest, FailedSince

\* Called down, a dependency failed two probes DownAfter apart with no response since.
THEOREM DownIsRealAlways == Spec => []DownIsReal
<1>1. IInv => DownIsReal
  <2> SUFFICES ASSUME IInv, Verdict(observations) = "down"
               PROVE  \E t, u \in DOMAIN history :
                        /\ t <= now - DownAfter /\ now - DownAfter < u
                        /\ FailedSince(history, t)
    BY DEF DownIsReal, FailedSince
  <2>1. TypeOK /\ IsRecord(observations) /\ KeptIsNewest
    BY DEF IInv, TypeOK, ObservationsHonest
  <2>2. IsDown(observations)
    BY VerdictDown
  <2>3. PICK u \in DOMAIN observations : now - DownAfter < u
    BY <2>1, <2>2, DownMeans
  <2>4. PICK t \in DOMAIN observations :
            t <= now - DownAfter /\ FailedSince(observations, t)
    BY <2>1, <2>2, DownMeans
  <2>5. FailedSince(history, t)
    BY <2>1, <2>4, FailedSinceKept
  <2> QED
    BY <2>1, <2>3, <2>4, <2>5 DEF KeptIsNewest
<1> QED
  BY <1>1, Honest, PTL

-----------------------------------------------------------------------------
(* Silence *)

\* A prober that is not held up: after any date there is another within an interval
\* and a timeout, unless it is too early to tell.
LEMMA NextProbe ==
  ASSUME IInv, stalled = 0, NEW t \in DOMAIN history \cup {-Interval},
         now > t + Interval + Timeout
  PROVE  \E u \in DOMAIN history : t < u /\ u <= t + Interval + Timeout
<1>1. /\ now \in Nat /\ due \in Nat /\ started \in Nat \cup {None}
      /\ DOMAIN history \subseteq Nat
  BY CheckBoundsAssumption, ConfigAssumption DEF IInv, TypeOK, Time, IsRecord
<1>2. IF started = None THEN now <= due ELSE now <= started + Timeout
  BY DEF IInv, ObservationsHonest, OnTime
<1>3. Interval \in Nat /\ Timeout \in Nat
  BY ConfigAssumption
<1>4. ~ (NextStart <= t + Interval)
  BY <1>1, <1>2, <1>3 DEF NextStart, None
<1> QED
  BY <1>4 DEF IInv, ObservationsHonest, Gapless

\* Down is when the failures are as old as DownAfter: probes are never so rare that
\* the window they are looked for in is empty.
LEMMA DownSince ==
  ASSUME IInv, stalled = 0, DownAfter >= 2 * Interval,
         NEW t \in DOMAIN history, t <= now - DownAfter, FailedSince(history, t)
  PROVE  IsDown(history)
<1>1. TypeOK /\ IsRecord(history) /\ now \in Nat /\ DOMAIN history \subseteq 0..now
  BY CheckBoundsAssumption DEF IInv, TypeOK, Time, IsRecord
<1>2. PICK u \in DOMAIN history : \A v \in DOMAIN history : v <= u
  BY <1>1, LastExists
<1>3. u \in Nat
  BY <1>1
<1>4. now <= u + Interval + Timeout
  <2> SUFFICES ASSUME now > u + Interval + Timeout PROVE FALSE
    BY <1>1, <1>3, ConfigAssumption
  <2>1. PICK v \in DOMAIN history : u < v /\ v <= u + Interval + Timeout
    BY NextProbe
  <2> QED
    BY <1>1, <1>2, <1>3, <2>1
<1>5. now - DownAfter < u
  BY <1>1, <1>3, <1>4, ConfigAssumption
<1> QED
  BY <1>1, <1>5, DownMeans

\* Forgetting does not change who is down.
LEMMA DownKept ==
  ASSUME IInv, stalled = 0
  PROVE  IsDown(observations) <=> IsDown(history)
<1> USE ConfigAssumption
<1>1. /\ TypeOK /\ IsRecord(observations) /\ IsRecord(history) /\ KeptIsNewest
      /\ now \in Nat /\ DOMAIN history \subseteq 0..now
      /\ DOMAIN observations \subseteq DOMAIN history
  BY CheckBoundsAssumption DEF IInv, TypeOK, Time, IsRecord, ObservationsHonest, KeptIsNewest
<1>2. Retention \in Nat /\ DownAfter + 2 * Interval <= Retention
  BY WindowsTyped
<1>3. ASSUME IsDown(observations)
      PROVE  IsDown(history)
  <2>1. PICK u \in DOMAIN observations : now - DownAfter < u
    BY <1>1, <1>3, DownMeans
  <2>2. PICK t \in DOMAIN observations :
            t <= now - DownAfter /\ FailedSince(observations, t)
    BY <1>1, <1>3, DownMeans
  <2>3. FailedSince(history, t)
    BY <1>1, <2>2, FailedSinceKept
  <2> QED
    BY <1>1, <2>1, <2>2, <2>3, DownMeans
<1>4. ASSUME IsDown(history)
      PROVE  IsDown(observations)
  <2>1. PICK u \in DOMAIN history : now - DownAfter < u
    BY <1>1, <1>4, DownMeans
  <2>2. PICK t \in DOMAIN history : t <= now - DownAfter /\ FailedSince(history, t)
    BY <1>1, <1>4, DownMeans
  <2>3. u \in DOMAIN observations
    BY <1>1, <1>2, <2>1 DEF KeptIsNewest
  <2> DEFINE Old == {v \in DOMAIN history : v <= now - DownAfter}
  <2>4. PICK last \in Old : \A v \in Old : v <= last
    <3>1. Old \subseteq 0..now /\ Old # {}
      BY <1>1, <2>2
    <3> HIDE DEF Old
    <3> QED
      BY <1>1, <3>1, LastExists
  <2>5. last \in Nat /\ last \in DOMAIN history /\ last <= now - DownAfter /\ t <= last
    BY <1>1, <2>2, <2>4
  <2>6. now - DownAfter <= last + Interval + Timeout
    <3> SUFFICES ASSUME now - DownAfter > last + Interval + Timeout PROVE FALSE
      BY <1>1, <2>5
    <3>1. PICK v \in DOMAIN history : last < v /\ v <= last + Interval + Timeout
      BY <1>1, <2>5, NextProbe
    <3> QED
      BY <1>1, <2>4, <2>5, <3>1
  <2>7. last \in DOMAIN observations
    BY <1>1, <1>2, <2>5, <2>6 DEF KeptIsNewest
  <2>8. FailedSince(observations, last)
    <3>1. FailedSince(history, last)
      BY <1>1, <2>2, <2>5 DEF FailedSince
    <3> QED
      BY <1>1, <2>7, <3>1, FailedSinceKept
  <2> QED
    BY <1>1, <2>1, <2>3, <2>5, <2>7, <2>8, DownMeans
<1> QED
  BY <1>3, <1>4

\* The last response is the newest of those recorded.
LastAnswerIsNewest ==
  \/ LastAnswer = None /\ Answered(history, DOMAIN history) = {}
  \/ /\ LastAnswer \in Answered(history, DOMAIN history)
     /\ \A u \in Answered(history, DOMAIN history) : u <= LastAnswer

LEMMA LastAnswerProperty == TypeOK => LastAnswerIsNewest
<1> SUFFICES ASSUME TypeOK PROVE LastAnswerIsNewest
  OBVIOUS
<1> USE DEF LastAnswerIsNewest
<1> DEFINE answered == Answered(history, DOMAIN history)
<1>1. now \in Nat /\ answered \subseteq 0..now
  BY CheckBoundsAssumption DEF TypeOK, Time, IsRecord, Answered
<1>2. CASE answered = {}
  BY <1>2 DEF LastAnswer
<1>3. CASE answered # {}
  <2>1. \E t \in answered : \A u \in answered : u <= t
    <3> HIDE DEF answered
    <3> QED
      BY <1>1, <1>3, LastExists
  <2> QED
    BY <1>3, <2>1 DEF LastAnswer
<1> QED
  BY <1>2, <1>3

\* A dependency that stops answering is called down, and in time.
THEOREM SilenceIsDownAlways == Spec => []SilenceIsDown
<1> USE ConfigAssumption
<1>1. IInv => SilenceIsDown
  <2> SUFFICES ASSUME IInv, stalled = 0, DownAfter >= 2 * Interval,
                      now > LastAnswer + Interval + Timeout + DownAfter
               PROVE  IsDown(observations)
    BY VerdictDown DEF SilenceIsDown
  <2>1. TypeOK /\ now \in Nat /\ DOMAIN history \subseteq Nat
    BY CheckBoundsAssumption DEF IInv, TypeOK, Time, IsRecord
  <2>2. \A v \in DOMAIN history : LastAnswer < v => history[v] = Failed
    BY <2>1, LastAnswerProperty DEF Answered, LastAnswerIsNewest, None
  <2> DEFINE from == IF LastAnswer = None THEN -Interval ELSE LastAnswer
  <2>3. /\ from \in DOMAIN history \cup {-Interval}
        /\ LastAnswer \in Int /\ from \in Int
        /\ from <= LastAnswer
        /\ \A v \in DOMAIN history : from < v => LastAnswer < v
    BY <2>1, LastAnswerProperty DEF Answered, LastAnswerIsNewest, None
  <2>4. now > from + Interval + Timeout
    BY <2>1, <2>3
  <2>5. PICK t \in DOMAIN history : from < t /\ t <= from + Interval + Timeout
    <3> HIDE DEF from
    <3> QED
      BY <2>3, <2>4, NextProbe
  <2>6. t \in Nat /\ t <= now - DownAfter
    <3> HIDE DEF from
    <3> QED
      BY <2>1, <2>3, <2>5
  <2>7. FailedSince(history, t)
    BY <2>1, <2>2, <2>3, <2>5 DEF FailedSince
  <2>8. IsDown(history)
    BY <2>5, <2>6, <2>7, DownSince
  <2> QED
    BY <2>8, DownKept
<1> QED
  BY <1>1, Honest, PTL

\* A check that was down and did not answer stays down.
LEMMA StaysDown ==
  ASSUME IInv, IInv', [Next]_vars, IsDown(observations), stalled' = 0,
         DownAfter >= 2 * Interval, LastAnswer' = LastAnswer
  PROVE  stalled = 0 /\ \E t \in DOMAIN history' :
            t <= now' - DownAfter /\ FailedSince(history', t)
<1> USE ConfigAssumption
<1>1. /\ TypeOK /\ TypeOK' /\ KeptIsNewest
      /\ now \in Nat /\ DOMAIN history \subseteq 0..now /\ IsRecord(observations)
  BY CheckBoundsAssumption DEF IInv, TypeOK, Time, IsRecord, ObservationsHonest
<1>2. PICK t \in DOMAIN observations : t <= now - DownAfter /\ FailedSince(observations, t)
  BY <1>1, DownMeans
<1>3. t \in DOMAIN history /\ t \in Nat /\ FailedSince(history, t)
  BY <1>1, <1>2, FailedSinceKept DEF KeptIsNewest
<1>4. ASSUME history' = history, now' \in {now, now + 1}, stalled' = 0 => stalled = 0
      PROVE  stalled = 0 /\ t \in DOMAIN history' /\ t <= now' - DownAfter
               /\ FailedSince(history', t)
  BY <1>1, <1>2, <1>3, <1>4
<1>5. CASE Probe \/ Evaluate \/ UNCHANGED vars
  BY <1>4, <1>5 DEF Probe, Evaluate, vars
<1>6. CASE Pass
  <2>1. stalled \in Nat
    BY CheckBoundsAssumption, <1>1 DEF TypeOK
  <2>2. stalled' = 0 => stalled = 0
    BY <1>6, <2>1 DEF Pass
  <2> QED
    BY <1>4, <1>6, <2>2 DEF Pass
<1>7. ASSUME NEW outcome \in Outcome, Record(outcome)
      PROVE  stalled = 0 /\ t \in DOMAIN history' /\ t <= now' - DownAfter
               /\ FailedSince(history', t)
  <2>1. now' = now /\ stalled' = stalled /\ history' = With(history, outcome)
    BY <1>7 DEF Record
  <2>2. now \notin DOMAIN history
    BY <1>1, <1>7 DEF Record, IInv, ObservationsHonest, OneAtATime, TypeOK, None
  <2>3. /\ DOMAIN history' = DOMAIN history \cup {now}
        /\ \A v \in DOMAIN history : history'[v] = history[v]
        /\ history'[now] = outcome
    <3>1. IsRecord(history)
      BY <1>1 DEF TypeOK
    <3> QED
      BY <1>1, <2>1, <2>2, <3>1, WithTyped
  <2>4. outcome = Failed
    <3> SUFFICES ASSUME outcome # Failed PROVE FALSE
      OBVIOUS
    <3>1. now \in Answered(history, DOMAIN history)'
      BY <2>3 DEF Answered
    <3>2. LastAnswer' \in Nat /\ now <= LastAnswer' /\ LastAnswer' \in DOMAIN history'
      <4>1. LastAnswerIsNewest'
        BY <1>1, LastAnswerProperty, PTL
      <4> QED
        BY <1>1, <2>3, <3>1, <4>1 DEF Answered, LastAnswerIsNewest
    <3>3. LastAnswer = None \/ LastAnswer \in DOMAIN history
      BY <1>1, LastAnswerProperty DEF Answered, LastAnswerIsNewest
    <3> QED
      BY <1>1, <2>2, <2>3, <3>2, <3>3 DEF None
  <2> QED
    BY <1>1, <1>2, <1>3, <2>1, <2>3, <2>4 DEF FailedSince
<1> QED
  BY <1>4, <1>5, <1>6, <1>7 DEF Next, Respond, Fail, Outcome

\* Down is left by a response, and by nothing else.
THEOREM DownIsLeftByAnswerAlways == Spec => DownIsLeftByAnswer
<1> DEFINE Since == /\ stalled = 0 /\ DownAfter >= 2 * Interval
                    /\ \E t \in DOMAIN history :
                          t <= now - DownAfter /\ FailedSince(history, t)
<1>1. IInv /\ Since => IsDown(observations)
  BY DownSince, DownKept
<1>2. (IInv /\ Since => IsDown(observations))'
  BY <1>1, PTL
<1>3. Verdict(observations) = "down" <=> IsDown(observations)
  BY VerdictDown
<1>4. (Verdict(observations) = "down" <=> IsDown(observations))'
  BY <1>3, PTL
<1>5. IInv /\ IInv' /\ [Next]_vars =>
        [ (/\ Verdict(observations) = "down" /\ Verdict(observations)' # "down"
           /\ stalled' = 0 /\ DownAfter >= 2 * Interval)
              => LastAnswer' # LastAnswer ]_vars
  <2> SUFFICES ASSUME IInv, IInv', [Next]_vars, Verdict(observations) = "down",
                      stalled' = 0, DownAfter >= 2 * Interval, LastAnswer' = LastAnswer
               PROVE  Verdict(observations)' = "down"
    OBVIOUS
  <2>1. IsDown(observations)
    BY <1>3
  <2>2. Since'
    BY <2>1, StaysDown
  <2>3. IsDown(observations)'
    BY <1>2, <2>2
  <2> QED
    BY <1>4, <2>3
<1> QED
  BY <1>5, Honest, PTL DEF Spec, DownIsLeftByAnswer

-----------------------------------------------------------------------------
(* Forgetting *)

\* No window that a verdict looks into reaches what has been forgotten.
LEMMA WindowsKept ==
  ASSUME IInv
  PROVE  /\ Window(observations, RecentWindow) = Window(history, RecentWindow)
         /\ Window(observations, RecentWindow) \subseteq DOMAIN observations
         /\ WindowBetween(observations, BaselineWindow, RecentWindow)
              = WindowBetween(history, BaselineWindow, RecentWindow)
         /\ WindowBetween(observations, BaselineWindow, RecentWindow) \subseteq DOMAIN observations
<1>1. /\ KeptIsNewest /\ now \in Nat /\ DOMAIN history \subseteq Nat
      /\ DOMAIN observations \subseteq DOMAIN history
  BY CheckBoundsAssumption DEF IInv, TypeOK, Time, IsRecord, ObservationsHonest, KeptIsNewest
<1>2. /\ RecentWindow \in Nat /\ RecentWindow <= BaselineWindow
      /\ Retention \in Nat /\ BaselineWindow <= Retention /\ BaselineWindow \in Nat
  BY WindowsTyped, ConfigAssumption
<1>3. \A t \in DOMAIN history : now - BaselineWindow <= t => t \in DOMAIN observations
  BY <1>1, <1>2 DEF KeptIsNewest
<1>4. \A t \in DOMAIN history : now - RecentWindow < t => t \in DOMAIN observations
  BY <1>1, <1>2, <1>3
<1> QED
  BY <1>1, <1>3, <1>4 DEF Window, WindowBetween

\* A percentile depends on the observations it is taken of, and on no others.
LEMMA PercentileKept ==
  ASSUME KeptIsNewest, NEW dates, dates \subseteq DOMAIN observations
  PROVE  /\ Answered(observations, dates) = Answered(history, dates)
         /\ Percentile(observations, dates) = Percentile(history, dates)
<1>1. \A t \in dates : observations[t] = history[t]
  BY DEF KeptIsNewest
<1>2. Answered(observations, dates) = Answered(history, dates)
  BY <1>1 DEF Answered
<1> DEFINE answered == Answered(history, dates)
           Enough(obs, among) == {l \in {obs[t] : t \in among} :
                                    RankDen * Cardinality({t \in among : obs[t] <= l})
                                        >= RankNum * Cardinality(among)}
           Value(obs, among) == IF among = {} THEN None ELSE Least(Enough(obs, among))
<1>3. answered \subseteq dates
  BY DEF Answered
<1>4. {observations[t] : t \in answered} = {history[t] : t \in answered}
  BY <1>1, <1>3
<1>5. \A l : {t \in answered : observations[t] <= l} = {t \in answered : history[t] <= l}
  BY <1>1, <1>3
<1>6. Enough(observations, answered) = Enough(history, answered)
  <2> HIDE DEF answered
  <2> QED
    BY <1>4, <1>5, Zenon
<1>7. \A obs : Percentile(obs, dates) = Value(obs, Answered(obs, dates))
  BY DEF Percentile
<1>8. Value(observations, answered) = Value(history, answered)
  <2> HIDE DEF Enough
  <2> QED
    BY <1>6
<1> HIDE DEF Value
<1> QED
  BY <1>2, <1>7, <1>8

\* What has been forgotten does not change a verdict.
THEOREM PruningIsUnseenAlways == Spec => []PruningIsUnseen
<1>1. IInv => PruningIsUnseen
  <2> SUFFICES ASSUME IInv, stalled = 0
               PROVE  Verdict(observations) = Verdict(history)
    BY DEF PruningIsUnseen
  <2>1. KeptIsNewest
    BY DEF IInv, ObservationsHonest
  <2>2. IsDown(observations) = IsDown(history)
    <3>1. IsDown(observations) \in BOOLEAN /\ IsDown(history) \in BOOLEAN
      BY DEF IsDown
    <3> QED
      BY <3>1, DownKept
  <2>3. Percentile(observations, Window(observations, RecentWindow))
          = Percentile(history, Window(history, RecentWindow))
    BY <2>1, WindowsKept, PercentileKept
  <2>4. Baseline(observations) = Baseline(history)
    <3> DEFINE dates == WindowBetween(history, BaselineWindow, RecentWindow)
    <3>1. /\ WindowBetween(observations, BaselineWindow, RecentWindow) = dates
          /\ dates \subseteq DOMAIN observations
      BY WindowsKept
    <3>2. /\ Answered(observations, dates) = Answered(history, dates)
          /\ Percentile(observations, dates) = Percentile(history, dates)
      <4> HIDE DEF dates
      <4> QED
        BY <2>1, <3>1, PercentileKept
    <3> QED
      BY <3>1, <3>2, Zenon DEF Baseline
  <2> QED
    BY <2>2, <2>3, <2>4, Zenon DEF Verdict
<1> QED
  BY <1>1, Honest, PTL

-----------------------------------------------------------------------------
(* A dependency that answers *)

\* A prober that is not held up starts its probes on the multiples of the interval, and
\* each of them has ended, within the timeout, before the next.
Paced ==
    stalled = 0 =>
        \E n \in Nat :
            /\ NextStart = n * Interval
            /\ \A k \in 0..(n - 1) :
                \E u \in DOMAIN history : k * Interval < u /\ u <= k * Interval + Timeout

PInv == IInv /\ Paced

LEMMA NextPaced == PInv /\ [Next]_vars => PInv'
<1> SUFFICES ASSUME PInv, [Next]_vars PROVE Paced'
  BY NextHonest DEF PInv
<1> SUFFICES ASSUME stalled' = 0
             PROVE  \E n \in Nat :
                        /\ NextStart' = n * Interval
                        /\ \A k \in 0..(n - 1) :
                            \E u \in DOMAIN history' : k * Interval < u /\ u <= k * Interval + Timeout
  BY DEF Paced
<1> USE ConfigAssumption, CheckBoundsAssumption
<1>1. /\ now \in Nat /\ due \in Nat /\ stalled \in Nat
      /\ started = None \/ started \in Nat
      /\ OneAtATime /\ OnTime
  BY DEF PInv, IInv, TypeOK, Time, ObservationsHonest
<1>2. stalled = 0
  BY <1>1 DEF Next, Probe, Respond, Fail, Record, Pass, Evaluate, vars
<1>3. PICK n \in Nat :
        /\ NextStart = n * Interval
        /\ \A k \in 0..(n - 1) :
            \E u \in DOMAIN history : k * Interval < u /\ u <= k * Interval + Timeout
  BY <1>2 DEF PInv, Paced
<1>4. ASSUME NextStart' = NextStart, history' = history
      PROVE  \E m \in Nat :
                /\ NextStart' = m * Interval
                /\ \A k \in 0..(m - 1) :
                    \E u \in DOMAIN history' : k * Interval < u /\ u <= k * Interval + Timeout
  BY <1>3, <1>4
<1>5. CASE Probe
  <2>1. started = None /\ due = now /\ started' = now /\ history' = history /\ now # None
    BY <1>1, <1>2, <1>5 DEF Probe, OnTime, None
  <2>2. NextStart' = NextStart
    BY <2>1 DEF NextStart
  <2> QED
    BY <1>4, <2>1, <2>2
<1>6. ASSUME NEW outcome \in Outcome, Record(outcome)
      PROVE  \E m \in Nat :
                /\ NextStart' = m * Interval
                /\ \A k \in 0..(m - 1) :
                    \E u \in DOMAIN history' : k * Interval < u /\ u <= k * Interval + Timeout
  <2>1. /\ started # None /\ started < now /\ now <= started + Timeout
        /\ due = started + Interval /\ started' = None /\ due' = due
    BY <1>1, <1>2, <1>6 DEF Record, OnTime, OneAtATime
  <2>2. started = n * Interval
    BY <1>3, <2>1 DEF NextStart
  <2>3. NextStart' = (n + 1) * Interval
    <3>1. NextStart' = n * Interval + Interval
      BY <2>1, <2>2 DEF NextStart
    <3> QED
      BY <3>1
  <2>4. DOMAIN history' = DOMAIN history \cup {now}
    BY <1>6 DEF Record, With
  <2>5. ASSUME NEW k \in 0..n
        PROVE  \E u \in DOMAIN history' : k * Interval < u /\ u <= k * Interval + Timeout
    <3>1. CASE k = n
      BY <2>1, <2>2, <2>4, <3>1
    <3>2. CASE k # n
      <4>1. k \in 0..(n - 1)
        BY <3>2
      <4> QED
        BY <1>3, <2>4, <4>1
    <3> QED
      BY <3>1, <3>2
  <2>6. n + 1 \in Nat /\ (n + 1) - 1 = n
    OBVIOUS
  <2> QED
    BY <2>3, <2>5, <2>6, Zenon
<1>7. CASE Pass \/ Evaluate \/ UNCHANGED vars
  <2>1. UNCHANGED <<due, started, history>>
    BY <1>7 DEF Pass, Evaluate, vars
  <2> QED
    BY <1>4, <2>1 DEF NextStart
<1> QED
  BY <1>5, <1>6, <1>7 DEF Next, Respond, Fail, Outcome

LEMMA Pace == Spec => []PInv
<1>1. Init => Paced
  <2> SUFFICES ASSUME Init PROVE Paced
    OBVIOUS
  <2>1. NextStart = 0 * Interval
    BY ConfigAssumption DEF Init, NextStart, None
  <2>2. \A k \in 0..(0 - 1) : FALSE
    OBVIOUS
  <2> QED
    BY <2>1, <2>2 DEF Paced
<1>2. Init => PInv
  BY <1>1, InitTyped, InitHonest DEF PInv, IInv
<1> QED
  BY <1>2, NextPaced, PTL DEF Spec

\* From any time on there is a multiple of the interval before an interval is over.
LEMMA NextMultiple ==
  ASSUME NEW x \in Nat
  PROVE  \E a \in Nat : x <= a * Interval /\ a * Interval < x + Interval
<1> USE ConfigAssumption
<1> DEFINE After == {a \in Nat : x <= a * Interval}
<1>1. x \in After
  OBVIOUS
<1>2. PICK a \in After : \A b \in After : a <= b
  <2>1. After \subseteq Nat /\ After # {}
    BY <1>1
  <2> HIDE DEF After
  <2> QED
    BY <2>1, FirstExists
<1>3. CASE a = 0
  BY <1>2, <1>3
<1>4. CASE a # 0
  <2>1. a - 1 \in Nat /\ a - 1 \notin After
    BY <1>2, <1>4
  <2>2. ~(x <= (a - 1) * Interval)
    BY <2>1
  <2>3. (a - 1) * Interval = a * Interval - Interval
    OBVIOUS
  <2>4. a * Interval \in Nat
    OBVIOUS
  <2> QED
    BY <1>2, <2>2, <2>3, <2>4
<1> QED
  BY <1>3, <1>4

\* The baseline's window holds an outcome for each of the probes it has room for, but
\* for one that is on the edge of it.
LEMMA BaselineHolds ==
  ASSUME PInv, stalled = 0, now >= BaselineWindow + Timeout
  PROVE  LET dates == WindowBetween(history, BaselineWindow, RecentWindow)
         IN  IsFiniteSet(dates) /\ Cardinality(dates) \in Nat /\ Cardinality(dates) >= Capacity - 1
<1> DEFINE dates == WindowBetween(history, BaselineWindow, RecentWindow)
<1> USE ConfigAssumption, CheckBoundsAssumption
<1>1. /\ now \in Nat /\ DOMAIN history \subseteq 0..now
      /\ due \in Nat /\ (started = None \/ started \in Nat) /\ OneAtATime /\ OnTime
  BY DEF PInv, IInv, TypeOK, Time, IsRecord, ObservationsHonest
<1>2. RecentWindow \in Nat /\ RecentWindow <= BaselineWindow /\ BaselineWindow \in Nat
  BY WindowsTyped
<1>3. Capacity \in Nat /\ Capacity * Interval <= BaselineWindow - RecentWindow
  <2> DEFINE room == BaselineWindow - RecentWindow
  <2>1. room \in Nat
    BY <1>2
  <2>2. \A l \in Nat, i \in Nat \ {0} : l \div i \in Nat /\ (l \div i) * i <= l
    OBVIOUS
  <2>3. Capacity = room \div Interval /\ Interval \in Nat \ {0}
    BY DEF Capacity
  <2> HIDE DEF room
  <2> QED
    BY <2>1, <2>2, <2>3, Zenon DEF room
<1>4. IsFiniteSet(dates) /\ Cardinality(dates) \in Nat
  <2>1. dates \subseteq 0..now /\ IsFiniteSet(0..now)
    BY <1>1, FS_Interval DEF WindowBetween
  <2> HIDE DEF dates
  <2>2. IsFiniteSet(dates)
    BY <2>1, FS_Subset, Zenon
  <2> QED
    BY <2>2, FS_CardinalityType
<1>5. PICK a \in Nat : /\ (now - BaselineWindow) - 1 <= a * Interval
                       /\ a * Interval < (now - BaselineWindow) - 1 + Interval
  <2>1. (now - BaselineWindow) - 1 \in Nat
    BY <1>1, <1>2
  <2> QED
    BY <2>1, NextMultiple
<1>6. ASSUME NEW j \in 1..(Capacity - 1)
      PROVE  \E t \in dates : (a + j) * Interval - Interval < t /\ t < (a + j) * Interval
  <2> DEFINE k == a + j - 1
  <2>1. k \in Nat /\ k * Interval \in Nat /\ k * Interval = a * Interval + j * Interval - Interval
        /\ (a + j) * Interval = k * Interval + Interval
    BY <1>3
  <2>2. j * Interval <= Capacity * Interval - Interval /\ j * Interval >= Interval
    <3>1. j \in Nat /\ Capacity - 1 - j \in Nat /\ j - 1 \in Nat
      BY <1>3
    <3>2. (Capacity - 1 - j) * Interval \in Nat /\ (j - 1) * Interval \in Nat
      BY <3>1
    <3>3. (Capacity - 1 - j) * Interval = Capacity * Interval - Interval - j * Interval
      BY <1>3, <3>1
    <3>4. (j - 1) * Interval = j * Interval - Interval
      BY <3>1
    <3>5. j * Interval \in Nat /\ Capacity * Interval \in Nat
      BY <1>3, <3>1
    <3> QED
      BY <3>2, <3>3, <3>4, <3>5
  <2>3. /\ now - BaselineWindow <= k * Interval + 1
        /\ k * Interval + Timeout < now - RecentWindow
    <3> DEFINE A == a * Interval
               J == j * Interval
               C == Capacity * Interval
    <3>1. A \in Nat /\ J \in Nat /\ C \in Nat
      BY <1>3
    <3>2. k * Interval = A + J - Interval
      BY <2>1
    <3>3. /\ (now - BaselineWindow) - 1 <= A /\ A < (now - BaselineWindow) - 1 + Interval
          /\ J <= C - Interval /\ J >= Interval /\ C <= BaselineWindow - RecentWindow
      BY <1>3, <1>5, <2>2
    <3> HIDE DEF A, J, C, k
    <3> QED
      BY <1>1, <1>2, <3>1, <3>2, <3>3
  <2>4. PICK n \in Nat :
        /\ NextStart = n * Interval
        /\ \A i \in 0..(n - 1) :
            \E u \in DOMAIN history : i * Interval < u /\ u <= i * Interval + Timeout
    BY DEF PInv, Paced
  <2>5. k * Interval < n * Interval
    <3>1. now <= NextStart + Timeout
      BY <1>1 DEF OnTime, NextStart
    <3>2. n * Interval \in Nat
      OBVIOUS
    <3> HIDE DEF k
    <3> QED
      BY <1>1, <1>2, <2>1, <2>3, <2>4, <3>1, <3>2
  <2>6. k \in 0..(n - 1)
    <3> SUFFICES ASSUME ~(k < n) PROVE FALSE
      BY <2>1
    <3>1. k - n \in Nat
      BY <2>1
    <3>2. (k - n) * Interval \in Nat /\ (k - n) * Interval = k * Interval - n * Interval
      BY <2>1, <3>1
    <3>3. n * Interval \in Nat
      OBVIOUS
    <3> HIDE DEF k
    <3> QED
      BY <2>1, <2>5, <3>2, <3>3
  <2>7. PICK u \in DOMAIN history : k * Interval < u /\ u <= k * Interval + Timeout
    BY <2>4, <2>6
  <2>8. u \in dates
    <3>1. u \in Nat
      BY <1>1
    <3>2. now - BaselineWindow <= u /\ u < now - RecentWindow
      <4> HIDE DEF k
      <4> QED
        BY <1>1, <1>2, <2>1, <2>3, <2>7, <3>1
    <3> QED
      BY <3>2 DEF WindowBetween
  <2>9. (a + j) * Interval - Interval < u /\ u < (a + j) * Interval
    <3>1. u \in Nat
      BY <1>1
    <3> HIDE DEF k
    <3> QED
      BY <2>1, <2>7, <3>1
  <2> QED
    BY <2>8, <2>9
<1> HIDE DEF dates
<1> DEFINE f == [j \in 1..(Capacity - 1) |->
                    CHOOSE t \in dates : (a + j) * Interval - Interval < t /\ t < (a + j) * Interval]
<1>7. \A j \in 1..(Capacity - 1) :
        /\ f[j] \in dates
        /\ (a + j) * Interval - Interval < f[j] /\ f[j] < (a + j) * Interval
  BY <1>6
<1>8. f \in [1..(Capacity - 1) -> dates]
  BY <1>7
<1>9. dates \subseteq Nat
  BY <1>1 DEF WindowBetween, dates
<1> HIDE DEF f
<1>10. ASSUME NEW i \in 1..(Capacity - 1), NEW j \in 1..(Capacity - 1), i < j
       PROVE  f[i] < f[j]
  <2>1. i \in Nat /\ j \in Nat /\ j - i - 1 \in Nat
    BY <1>10, <1>3
  <2>2. (j - i - 1) * Interval \in Nat
    BY <2>1
  <2>3. (j - i - 1) * Interval = (a + j) * Interval - Interval - (a + i) * Interval
    BY <2>1
  <2>4. (a + j) * Interval \in Nat /\ (a + i) * Interval \in Nat
    BY <2>1
  <2>5. /\ f[i] \in Nat /\ f[j] \in Nat /\ f[i] < (a + i) * Interval
        /\ (a + j) * Interval - Interval < f[j]
    BY <1>7, <1>9
  <2> QED
    BY <2>2, <2>3, <2>4, <2>5
<1>11. f \in Injection(1..(Capacity - 1), dates)
  <2>1. ASSUME NEW i \in 1..(Capacity - 1), NEW j \in 1..(Capacity - 1), f[i] = f[j]
        PROVE  i = j
    <3>1. f[i] \in Nat /\ f[j] \in Nat
      BY <1>7, <1>9
    <3>2. ~(i < j) /\ ~(j < i)
      BY <1>10, <2>1, <3>1
    <3> QED
      BY <1>3, <3>2
  <2> QED
    BY <1>8, <2>1 DEF Injection, IsInjective
<1>12. Cardinality(1..(Capacity - 1)) <= Cardinality(dates)
  BY <1>4, <1>11, FS_Injection
<1>13. Cardinality(1..(Capacity - 1)) = IF 1 > Capacity - 1 THEN 0 ELSE Capacity - 1
  BY <1>3, FS_Interval
<1>14. Cardinality(dates) >= Capacity - 1
  BY <1>3, <1>4, <1>12, <1>13
<1> QED
  BY <1>4, <1>14 DEF dates

\* Where there is an answer there is a percentile.
LEMMA PercentileIsSome ==
  ASSUME NEW obs, NEW dates, IsFiniteSet(dates), Answered(obs, dates) # {},
         \A t \in dates : obs[t] # Failed => obs[t] \in Nat
  PROVE  Percentile(obs, dates) # None
<1> DEFINE answered == Answered(obs, dates)
           latencies == {obs[t] : t \in answered}
           Enough(l) == RankDen * Cardinality({t \in answered : obs[t] <= l})
                            >= RankNum * Cardinality(answered)
           enough == {l \in latencies : Enough(l)}
<1>1. answered \subseteq dates /\ \A t \in answered : obs[t] \in Nat
  BY DEF Answered
<1>2. IsFiniteSet(answered) /\ Cardinality(answered) \in Nat
  BY <1>1, FS_Subset, FS_CardinalityType
<1> HIDE DEF answered
<1>3. answered # {}
  BY DEF answered
<1>4. latencies \subseteq Nat /\ latencies # {}
  BY <1>1, <1>3
<1>5. IsFiniteSet(latencies)
  <2> DEFINE g == [t \in answered |-> obs[t]]
  <2>1. g \in Surjection(answered, latencies)
    BY DEF Surjection
  <2> QED
    BY <1>2, <2>1, FS_Surjection
<1>6. Max(latencies) \in latencies /\ \A l \in latencies : l <= Max(latencies)
  <2> HIDE DEF latencies
  <2> QED
    BY <1>4, <1>5, MaxProperty
<1>7. {t \in answered : obs[t] <= Max(latencies)} = answered
  <2>1. \A t \in answered : obs[t] <= Max(latencies)
    BY <1>6
  <2> HIDE DEF latencies
  <2> QED
    BY <2>1
<1>8. RankDen * Cardinality(answered) >= RankNum * Cardinality(answered)
  <2>1. \A n \in Nat : RankDen * n >= RankNum * n
    <3>1. \A n \in Nat, d \in Nat : d * n \in Nat /\ (RankNum + d) * n = RankNum * n + d * n
                                    /\ RankNum * n \in Nat
      BY PercentileAssumption
    <3>2. RankDen - RankNum \in Nat /\ RankNum + (RankDen - RankNum) = RankDen
      BY PercentileAssumption
    <3> QED
      BY <3>1, <3>2
  <2> QED
    BY <1>2, <2>1
<1>9. Max(latencies) \in enough
  BY <1>6, <1>7, <1>8
<1>10. Least(enough) \in Nat
  <2>1. enough \subseteq Nat /\ enough # {}
    BY <1>4, <1>9
  <2> HIDE DEF enough
  <2> QED
    BY <2>1, LeastProperty
<1>11. Percentile(obs, dates) = Least(enough)
  BY <1>3, Zenon DEF Percentile, answered
<1> HIDE DEF enough
<1> QED
  BY <1>10, <1>11 DEF None

\* A check that answers every probe of a baseline_window is judged, for every interval,
\* timeout and window with room for one probe more than min_samples (assess_check,
\* RawDegradation::resolve).
THEOREM AnsweringIsJudgedAlways == Spec => []AnsweringIsJudged
<1>1. PInv => AnsweringIsJudged
  <2> SUFFICES ASSUME PInv, stalled = 0, MinSamples < Capacity,
                      now >= BaselineWindow + Timeout,
                      \A t \in DOMAIN history : now - BaselineWindow <= t => history[t] # Failed
               PROVE  Verdict(observations) # "warming"
    BY DEF AnsweringIsJudged
  <2> DEFINE dates == WindowBetween(history, BaselineWindow, RecentWindow)
  <2>1. IsFiniteSet(dates) /\ Cardinality(dates) \in Nat /\ Cardinality(dates) >= Capacity - 1
    BY BaselineHolds
  <2>2. KeptIsNewest /\ IsRecord(observations) /\ IInv
    BY DEF PInv, IInv, ObservationsHonest, TypeOK
  <2>3. /\ WindowBetween(observations, BaselineWindow, RecentWindow) = dates
        /\ dates \subseteq DOMAIN observations
    BY <2>2, WindowsKept
  <2>4. \A t \in dates : observations[t] = history[t] /\ now - BaselineWindow <= t
    BY <2>2, <2>3 DEF KeptIsNewest, WindowBetween
  <2>5. \A t \in dates : observations[t] # Failed
    BY <2>2, <2>3, <2>4 DEF KeptIsNewest
  <2> HIDE DEF dates
  <2>6. Answered(observations, dates) = dates
    BY <2>5 DEF Answered
  <2>7. Cardinality(dates) >= MinSamples /\ Cardinality(dates) # 0
    <3>1. Capacity \in Int /\ MinSamples \in Nat /\ MinSamples # 0
      <4>1. \A l \in Int, i \in Nat \ {0} : l \div i \in Int
        OBVIOUS
      <4>2. BaselineWindow - RecentWindow \in Int
        BY WindowsTyped, ConfigAssumption
      <4> QED
        BY <4>1, <4>2, ConfigAssumption DEF Capacity
    <3> QED
      BY <2>1, <3>1
  <2>8. dates # {}
    BY <2>7, FS_EmptySet
  <2>9. \A t \in dates : observations[t] # Failed => observations[t] \in Nat
    BY <2>2, <2>3, CheckBoundsAssumption DEF IsRecord, Outcome
  <2>10. Percentile(observations, dates) # None
    BY <2>1, <2>6, <2>8, <2>9, PercentileIsSome
  <2>11. Baseline(observations) # None
    <3>1. ~(Cardinality(dates) < MinSamples)
      BY <2>1, <2>7, ConfigAssumption
    <3> QED
      BY <2>3, <2>6, <2>10, <3>1, Zenon DEF Baseline
  <2>12. WithoutVerdict(Baseline(observations)) = "ok"
    BY <2>11 DEF WithoutVerdict
  <2> QED
    BY <2>12 DEF Verdict
<1> QED
  BY <1>1, Pace, PTL

=============================================================================
