----------------------------- MODULE JobProofs -----------------------------
(***************************************************************************)
(* Theorems about a job that reports its heartbeats, for every threshold,  *)
(* every set of ratio rules and every kind of beat.                        *)
(***************************************************************************)
EXTENDS Job, SetLemmas, SequenceTheorems

-----------------------------------------------------------------------------
(* Lemmas about sequences *)

\* What is left of a sequence when an element is taken out.
LEMMA RemoveAtTyped ==
  ASSUME NEW S, NEW s \in Seq(S), NEW i \in 1..Len(s)
  PROVE  /\ RemoveAt(s, i) \in Seq(S)
         /\ Len(RemoveAt(s, i)) = Len(s) - 1
         /\ \A k \in 1..Len(RemoveAt(s, i)) : \E j \in 1..Len(s) : RemoveAt(s, i)[k] = s[j]
<1> DEFINE a == SubSeq(s, 1, i - 1)
           b == SubSeq(s, i + 1, Len(s))
<1>1. /\ a \in Seq(S) /\ Len(a) = i - 1
      /\ \A k \in 1..(i - 1) : a[k] = s[k]
  BY SubSeqProperties
<1>2. /\ b \in Seq(S) /\ Len(b) = Len(s) - i
      /\ \A k \in 1..(Len(s) - i) : b[k] = s[k + i]
  BY SubSeqProperties
<1>3. /\ a \o b \in Seq(S) /\ Len(a \o b) = Len(s) - 1
      /\ \A k \in 1..(Len(s) - 1) : \E j \in 1..Len(s) : (a \o b)[k] = s[j]
  <2> HIDE DEF a, b
  <2>1. /\ a \o b \in Seq(S)
        /\ Len(a \o b) = Len(a) + Len(b)
        /\ \A k \in 1..(Len(a) + Len(b)) : (a \o b)[k] =
                IF k <= Len(a) THEN a[k] ELSE b[k - Len(a)]
    BY <1>1, <1>2, ConcatProperties
  <2>2. Len(a) + Len(b) = Len(s) - 1 /\ Len(s) \in Nat
    BY <1>1, <1>2
  <2>3. ASSUME NEW k \in 1..(Len(s) - 1)
        PROVE  \E j \in 1..Len(s) : (a \o b)[k] = s[j]
    <3>1. CASE k <= i - 1
      <4>1. (a \o b)[k] = s[k]
        BY <1>1, <2>1, <2>2, <3>1
      <4> QED
        BY <2>2, <4>1
    <3>2. CASE ~(k <= i - 1)
      <4>1. (a \o b)[k] = b[k - (i - 1)] /\ k - (i - 1) \in 1..(Len(s) - i)
        BY <1>1, <2>1, <2>2, <3>2
      <4>2. b[k - (i - 1)] = s[k + 1]
        <5>1. b[k - (i - 1)] = s[(k - (i - 1)) + i]
          BY <1>2, <4>1
        <5>2. (k - (i - 1)) + i = k + 1
          OBVIOUS
        <5> QED
          BY <5>1, <5>2, Zenon
      <4> QED
        BY <2>2, <4>1, <4>2
    <3> QED
      BY <3>1, <3>2
  <2> QED
    BY <2>1, <2>2, <2>3
<1>5. RemoveAt(s, i) = a \o b
  BY DEF RemoveAt
<1> QED
  BY <1>3, <1>5

-----------------------------------------------------------------------------
(* How long counters are kept *)

LEMMA RetentionTyped ==
  /\ Margin \in Nat /\ Retention \in Nat
  /\ \A r \in Ratios : r.window \in Nat /\ r.window + Margin <= Retention
<1> DEFINE Windows == {r.window : r \in Ratios}
<1>1. IsFiniteSet(Ratios) /\ Ratios # {} /\ \A r \in Ratios : r.window \in Nat
  BY JobAssumption DEF JobValid, RatioValid
<1>2. Windows \subseteq Nat /\ Windows # {}
  BY <1>1
<1>3. IsFiniteSet(Windows)
  <2> DEFINE f == [r \in Ratios |-> r.window]
  <2>1. f \in Surjection(Ratios, Windows)
    BY DEF Surjection
  <2> QED
    BY <1>1, <2>1, FS_Surjection
<1>4. Longest \in Nat /\ \A w \in Windows : w <= Longest
  <2>1. Longest = Max(Windows)
    BY DEF Longest
  <2> HIDE DEF Windows
  <2> QED
    BY <1>2, <1>3, <2>1, MaxProperty
<1>5. \A a \in Nat, b \in Nat \ {0} : a \div b \in Nat
  OBVIOUS
<1>6. Margin \in Nat
  BY <1>4, <1>5, JobAssumption DEF Margin
<1> QED
  BY <1>1, <1>4, <1>6 DEF Retention

-----------------------------------------------------------------------------
(* Type correctness *)

ASample == [at : 0..MaxTime, fetched : Nat \cup {None}, parsed : Nat \cup {None}]
ABeat == [at : 0..MaxTime, true : 0..TrueTime, detail : Detail]

LEMMA InitTyped == Init => TypeOK
<1> SUFFICES ASSUME Init PROVE TypeOK
  OBVIOUS
<1>1. arriving \in Seq(ABeat) /\ Len(arriving) = 0 /\ samples \in Seq(ASample)
  BY DEF Init
<1>2. first \in 1..(Len(samples) + 1)
  BY DEF Init
<1>3. /\ clock = 0 /\ setBack = 0 /\ heard = 0
      /\ rules \in Rules /\ seen \in BOOLEAN
      /\ lastBeat = None /\ lastWorked = None /\ lastData = None
  BY Zenon DEF Init
<1>5. /\ clock \in 0..MaxTime /\ setBack \in 0..MaxSetBack /\ heard \in 0..TrueTime
      /\ lastBeat \in 0..MaxTime \cup {None} /\ lastWorked \in 0..MaxTime \cup {None}
  BY <1>3, JobBoundsAssumption DEF TrueTime
<1>4. beats \in Nat /\ beats + Len(arriving) <= MaxBeats
  <2>1. beats = 0
    BY DEF Init
  <2> QED
    BY <1>1, <2>1, JobBoundsAssumption
<1> QED
  BY <1>1, <1>2, <1>3, <1>4, <1>5, Zenon DEF TypeOK, ABeat, ASample

\* The counters a beat leaves: what was there, at most one sample more, of its date,
\* and of what was kept only what is older than the retention has gone.
LEMMA RecordSampleTyped ==
  ASSUME TypeOK, NEW at \in 0..MaxTime, NEW detail \in Detail, RecordSample(at, detail)
  PROVE  /\ samples' \in Seq(ASample)
         /\ Len(samples) <= Len(samples')
         /\ \A k \in 1..Len(samples) : samples'[k] = samples[k]
         /\ first' \in 1..(Len(samples') + 1)
         /\ \A k \in first..(first' - 1) :
                \E j \in 1..Len(samples') : samples'[k].at < samples'[j].at - Retention
<1>1. samples \in Seq(ASample) /\ Len(samples) \in Nat /\ first \in 1..(Len(samples) + 1)
  BY DEF TypeOK, ASample
<1> DEFINE sample == [at |-> at, fetched |-> detail.fetched, parsed |-> detail.parsed]
<1>2. CASE samples' = Append(samples, sample)
           /\ first' = Min({i \in first..Len(samples') : samples'[i].at >= at - Retention})
  <2>1. sample \in ASample /\ sample.at = at
    BY JobAssumption DEF ASample, IsDetail
  <2> HIDE DEF sample
  <2>2. /\ samples' \in Seq(ASample) /\ Len(samples') = Len(samples) + 1
        /\ \A k \in 1..Len(samples) : samples'[k] = samples[k]
        /\ samples'[Len(samples) + 1] = sample
    BY <1>1, <1>2, <2>1, AppendProperties
  <2> DEFINE Kept == {i \in first..Len(samples') : samples'[i].at >= at - Retention}
  <2>3. Kept \subseteq Nat /\ Len(samples') \in Kept
    BY <1>1, <2>1, <2>2, RetentionTyped
  <2>4. first' \in Kept /\ \A u \in Kept : first' <= u
    <3>1. first' = Min(Kept)
      BY <1>2
    <3> HIDE DEF Kept
    <3> QED
      BY <2>3, <3>1, MinProperty
  <2>5. ASSUME NEW k \in first..(first' - 1)
        PROVE  samples'[k].at < samples'[Len(samples')].at - Retention
    <3>1. first' \in first..Len(samples') /\ k \in first..Len(samples') /\ k < first'
      <4>1. first' \in first..Len(samples')
        BY <2>4
      <4>2. first \in Nat /\ Len(samples') \in Nat
        BY <1>1, <2>2
      <4>3. \A f, g, n \in Nat : \A m \in f..(g - 1) :
                g \in f..n => m \in f..n /\ m < g
        OBVIOUS
      <4>4. first' \in Nat
        BY <4>1, <4>2
      <4> HIDE DEF Kept
      <4> QED
        BY <4>1, <4>2, <4>3, <4>4, Zenon
    <3>2. k \notin Kept
      <4> HIDE DEF Kept
      <4> QED BY <2>4, <3>1
    <3>3. samples'[k].at \in 0..MaxTime
      <4>1. samples'[k] \in ASample
        <5>1. k \in 1..Len(samples')
          BY <1>1, <2>2, <3>1
        <5> QED
          BY <2>2, <5>1, ElementOfSeq
      <4> QED
        BY <4>1 DEF ASample
    <3>4. ~ (samples'[k].at >= at - Retention)
      BY <3>1, <3>2
    <3>5. samples'[Len(samples')].at = at
      BY <2>1, <2>2
    <3> QED
      BY <3>3, <3>4, <3>5, RetentionTyped
  <2>6. first' \in 1..(Len(samples') + 1)
    BY <1>1, <2>2, <2>4
  <2>7. Len(samples') \in 1..Len(samples')
    BY <1>1, <2>2
  <2> QED
    BY <1>1, <2>2, <2>5, <2>6, <2>7
<1>3. CASE UNCHANGED <<samples, first>>
  BY <1>1, <1>3
<1> QED
  BY <1>2, <1>3 DEF RecordSample

LEMMA RecordBeatTyped ==
  ASSUME TypeOK, RecordBeat
  PROVE  TypeOK'
<1>1. PICK i \in DOMAIN arriving :
        /\ arriving' = RemoveAt(arriving, i)
        /\ beats' = beats + 1
        /\ lastBeat' = Forward(lastBeat, arriving[i].at)
        /\ lastWorked' = IF arriving[i].detail.worked
                         THEN Forward(lastWorked, arriving[i].at) ELSE lastWorked
        /\ lastData' = IF arriving[i].detail.data # None
                       THEN arriving[i].detail.data ELSE lastData
        /\ seen' = (seen \/ arriving[i].detail.fetched # None)
        /\ RecordSample(arriving[i].at, arriving[i].detail)
        /\ heard' = IF heard > arriving[i].true THEN heard ELSE arriving[i].true
        /\ UNCHANGED <<rules, clock, setBack>>
  BY DEF RecordBeat
<1>2. arriving \in Seq(ABeat) /\ i \in 1..Len(arriving) /\ Len(arriving) \in Nat
  BY DEF TypeOK, ABeat
<1>3. arriving[i] \in ABeat
  BY <1>2
<1>4. /\ arriving[i].at \in 0..MaxTime /\ arriving[i].true \in 0..TrueTime
      /\ arriving[i].detail \in Detail /\ IsDetail(arriving[i].detail)
  BY <1>3, JobAssumption DEF ABeat
<1>5. arriving' \in Seq(ABeat) /\ Len(arriving') = Len(arriving) - 1
  <2>1. RemoveAt(arriving, i) \in Seq(ABeat) /\ Len(RemoveAt(arriving, i)) = Len(arriving) - 1
    BY <1>2, RemoveAtTyped
  <2> QED
    BY <1>1, <2>1
<1>6. TrueTime' = TrueTime
  BY <1>1 DEF TrueTime
<1>7. arriving' \in Seq(ABeat)'
  BY <1>5, <1>6 DEF ABeat
<1>8. samples' \in Seq(ASample) /\ first' \in 1..(Len(samples') + 1)
  BY <1>1, <1>4, RecordSampleTyped
<1>9. /\ lastBeat' \in 0..MaxTime \cup {None} /\ lastWorked' \in 0..MaxTime \cup {None}
      /\ lastData' = None \/ lastData' \in Nat
      /\ seen' \in BOOLEAN
  BY <1>1, <1>4 DEF TypeOK, Forward, IsDetail
<1>10. heard' \in 0..TrueTime
  BY <1>1, <1>4 DEF TypeOK
<1>11. beats' \in Nat /\ beats' + Len(arriving') <= MaxBeats
  <2>1. beats \in Nat /\ beats + Len(arriving) <= MaxBeats /\ beats' = beats + 1
    BY <1>1 DEF TypeOK
  <2>2. Len(arriving') = Len(arriving) - 1 /\ Len(arriving) \in Nat
    BY <1>2, <1>5
  <2> QED
    BY <2>1, <2>2, JobBoundsAssumption
<1>12. rules' \in Rules /\ clock' \in 0..MaxTime /\ setBack' \in 0..MaxSetBack
  BY <1>1 DEF TypeOK
<1>13. heard' \in 0..TrueTime'
  BY <1>6, <1>10
<1> QED
  BY <1>7, <1>8, <1>9, <1>11, <1>12, <1>13, Zenon DEF TypeOK, ABeat, ASample

LEMMA NextTyped == TypeOK /\ [Next]_vars => TypeOK'
<1> SUFFICES ASSUME TypeOK, [Next]_vars PROVE TypeOK'
  OBVIOUS
<1> USE JobBoundsAssumption
<1>1. CASE Arrive
  <2>1. PICK d \in Detail :
            arriving' = Append(arriving, [at |-> clock, true |-> TrueTime, detail |-> d])
    BY <1>1 DEF Arrive
  <2>2. [at |-> clock, true |-> TrueTime, detail |-> d] \in ABeat
    BY DEF TypeOK, ABeat, TrueTime
  <2>3. arriving' \in Seq(ABeat) /\ Len(arriving') = Len(arriving) + 1
    BY <2>1, <2>2, AppendProperties DEF TypeOK, ABeat
  <2>4. Seq(ABeat)' = Seq(ABeat)
    BY <1>1 DEF Arrive, ABeat, TrueTime
  <2>5. beats' + Len(arriving') <= MaxBeats
    BY <1>1, <2>3 DEF Arrive, TypeOK
  <2>6. heard' \in 0..TrueTime'
    BY <1>1 DEF Arrive, TypeOK, TrueTime
  <2>7. arriving' \in Seq(ABeat)'
    BY <2>3, <2>4
  <2>8. UNCHANGED <<rules, clock, setBack, beats, lastBeat, lastWorked, lastData, seen,
                    samples, first>>
    BY <1>1 DEF Arrive
  <2> QED
    BY <2>5, <2>6, <2>7, <2>8, Zenon DEF TypeOK, ABeat
<1>2. CASE RecordBeat
  BY <1>2, RecordBeatTyped
<1>3. CASE Pass
  <2>1. TrueTime' = TrueTime + 1 /\ TrueTime \in Nat
    BY <1>3 DEF Pass, TypeOK, TrueTime
  <2>2. \A s \in Seq(ABeat) : s \in Seq(ABeat)'
    <3>1. 0..TrueTime \subseteq 0..TrueTime'
      BY <2>1
    <3>2. ABeat \subseteq ABeat'
      BY <3>1 DEF ABeat
    <3> QED
      BY <3>2
  <2>3. arriving' \in Seq(ABeat)'
    <3>1. arriving \in Seq(ABeat) /\ arriving' = arriving
      BY <1>3 DEF Pass, TypeOK, ABeat
    <3> QED
      BY <2>2, <3>1
  <2>4. heard' \in 0..TrueTime'
    BY <1>3, <2>1 DEF Pass, TypeOK
  <2> QED
    BY <1>3, <2>3, <2>4 DEF Pass, TypeOK, ABeat
<1>4. CASE StepBack
  <2>1. TrueTime' = TrueTime
    BY <1>4 DEF StepBack, TypeOK, TrueTime
  <2>2. arriving' \in Seq(ABeat)' /\ heard' \in 0..TrueTime'
    BY <1>4, <2>1 DEF StepBack, TypeOK, ABeat
  <2> QED
    BY <1>4, <2>2 DEF StepBack, TypeOK, ABeat
<1>5. CASE Evaluate
  BY <1>5 DEF Evaluate, vars, TypeOK, TrueTime
<1>6. CASE UNCHANGED vars
  BY <1>6 DEF vars, TypeOK, TrueTime
<1> QED
  BY <1>1, <1>2, <1>3, <1>4, <1>5, <1>6 DEF Next

\* Dates are dates the clock has shown, beats are recorded once each, and the counters
\* kept are the last of those recorded (state.rs, receiver.rs).
THEOREM JobTypeCorrect == Spec => []TypeOK
  BY InitTyped, NextTyped, PTL DEF Spec

-----------------------------------------------------------------------------
(* What is kept of a beat is as good as the truth *)

IInv == TypeOK /\ BeatsHonest

\* The beats whose handlers are under way.
ArrivingHonest ==
    \A i \in 1..Len(arriving) :
        /\ arriving[i].true - setBack <= arriving[i].at
        /\ arriving[i].at <= arriving[i].true

\* The counters that were forgotten.
ForgottenIsOld ==
    \A i \in 1..(first - 1) :
        \E j \in 1..Len(samples) : samples[i].at < samples[j].at - Retention

\* The last beat.
LastHonest ==
    /\ lastBeat = None <=> beats = 0
    /\ beats = 0 => heard = 0
    /\ lastBeat # None => heard - setBack <= lastBeat /\ lastBeat <= heard

LEMMA BeatsHonestParts == BeatsHonest <=> LastHonest /\ ArrivingHonest /\ ForgottenIsOld
  BY Zenon DEF BeatsHonest, LastHonest, ArrivingHonest, ForgottenIsOld

LEMMA InitHonest == Init => BeatsHonest
<1> SUFFICES ASSUME Init PROVE BeatsHonest
  OBVIOUS
<1>1. LastHonest
  BY Zenon DEF Init, LastHonest
<1>2. Len(arriving) = 0 /\ first = 1
  BY DEF Init
<1>3. ArrivingHonest /\ ForgottenIsOld
  BY <1>2 DEF ArrivingHonest, ForgottenIsOld
<1> QED
  BY <1>1, <1>3, BeatsHonestParts

LEMMA TrueNat == TypeOK => TrueTime \in Nat /\ setBack \in Nat
  BY JobBoundsAssumption DEF TypeOK, TrueTime

LEMMA BeatHonest ==
  ASSUME TypeOK, NEW i \in 1..Len(arriving)
  PROVE  /\ arriving[i].at \in 0..MaxTime /\ arriving[i].at \in Nat
         /\ arriving[i].true \in Nat
         /\ arriving[i].detail \in Detail
<1>1. arriving \in Seq(ABeat)
  BY DEF TypeOK, ABeat
<1>2. arriving[i] \in ABeat
  BY <1>1, ElementOfSeq
<1> QED
  BY <1>2, JobBoundsAssumption, TrueNat DEF ABeat

LEMMA RecordBeatHonest ==
  ASSUME IInv, RecordBeat
  PROVE  BeatsHonest'
<1>1. PICK i \in DOMAIN arriving :
        /\ arriving' = RemoveAt(arriving, i)
        /\ beats' = beats + 1
        /\ lastBeat' = Forward(lastBeat, arriving[i].at)
        /\ RecordSample(arriving[i].at, arriving[i].detail)
        /\ heard' = IF heard > arriving[i].true THEN heard ELSE arriving[i].true
        /\ UNCHANGED <<rules, clock, setBack>>
  BY DEF RecordBeat
<1>2. TypeOK /\ LastHonest /\ ArrivingHonest /\ ForgottenIsOld
  BY BeatsHonestParts DEF IInv
<1>3. arriving \in Seq(ABeat) /\ i \in 1..Len(arriving)
  BY <1>2 DEF TypeOK, ABeat
<1>4. /\ arriving[i].at \in 0..MaxTime /\ arriving[i].at \in Nat
      /\ arriving[i].true \in Nat /\ arriving[i].detail \in Detail
  BY <1>2, <1>3, BeatHonest
<1>5. arriving[i].true - setBack <= arriving[i].at /\ arriving[i].at <= arriving[i].true
  BY <1>2, <1>3 DEF ArrivingHonest
<1>6. LastHonest'
  <2> DEFINE at == arriving[i].at
             true == arriving[i].true
  <2>1. /\ at \in Nat /\ true \in Nat /\ true - setBack <= at /\ at <= true
        /\ lastBeat' = IF lastBeat > at THEN lastBeat ELSE at
        /\ heard' = IF heard > true THEN heard ELSE true
        /\ beats' = beats + 1 /\ setBack' = setBack
    BY <1>1, <1>4, <1>5 DEF Forward
  <2>2. /\ lastBeat \in Nat \cup {None} /\ heard \in Nat /\ beats \in Nat /\ setBack \in Nat
    BY <1>2, JobBoundsAssumption DEF TypeOK, TrueTime
  <2> HIDE DEF at, true
  <2>3. lastBeat' # None /\ beats' # 0
    BY <2>1, <2>2 DEF None
  <2>4. heard' - setBack' <= lastBeat' /\ lastBeat' <= heard'
    <3>1. CASE lastBeat = None
      <4>1. heard = 0
        BY <1>2, <3>1 DEF LastHonest
      <4> QED
        BY <2>1, <2>2, <3>1, <4>1 DEF None
    <3>2. CASE lastBeat # None
      <4>1. heard - setBack <= lastBeat /\ lastBeat <= heard /\ lastBeat \in Nat
        BY <1>2, <2>2, <3>2 DEF LastHonest
      <4> QED
        BY <2>1, <2>2, <4>1
    <3> QED
      BY <3>1, <3>2
  <2> QED
    BY <2>3, <2>4 DEF LastHonest
<1>7. ArrivingHonest'
  <2>1. /\ Len(arriving') \in Nat
        /\ \A k \in 1..Len(arriving') : \E j \in 1..Len(arriving) : arriving'[k] = arriving[j]
    <3>1. \A k \in 1..Len(RemoveAt(arriving, i)) :
            \E j \in 1..Len(arriving) : RemoveAt(arriving, i)[k] = arriving[j]
      BY <1>3, RemoveAtTyped
    <3>2. RemoveAt(arriving, i) \in Seq(ABeat)
      BY <1>3, RemoveAtTyped
    <3> QED
      BY <1>1, <3>1, <3>2
  <2> QED
    BY <1>1, <1>2, <2>1 DEF ArrivingHonest
<1>8. ForgottenIsOld'
  <2>1. /\ samples' \in Seq(ASample)
        /\ Len(samples) <= Len(samples') /\ Len(samples) \in Nat /\ Len(samples') \in Nat
        /\ \A k \in 1..Len(samples) : samples'[k] = samples[k]
        /\ first' \in 1..(Len(samples') + 1) /\ first \in 1..(Len(samples) + 1)
        /\ \A k \in first..(first' - 1) :
                \E j \in 1..Len(samples') : samples'[k].at < samples'[j].at - Retention
    <3>1. RecordSample(arriving[i].at, arriving[i].detail)
      BY <1>1
    <3>2. /\ samples' \in Seq(ASample)
          /\ Len(samples) <= Len(samples')
          /\ \A k \in 1..Len(samples) : samples'[k] = samples[k]
          /\ first' \in 1..(Len(samples') + 1)
          /\ \A k \in first..(first' - 1) :
                \E j \in 1..Len(samples') : samples'[k].at < samples'[j].at - Retention
      BY <1>2, <1>4, <3>1, RecordSampleTyped
    <3>3. Len(samples) \in Nat /\ first \in 1..(Len(samples) + 1)
      BY <1>2 DEF TypeOK
    <3>4. Len(samples') \in Nat
      BY <3>2
    <3> QED
      BY <3>2, <3>3, <3>4
  <2>2. ASSUME NEW k \in 1..(first' - 1)
        PROVE  \E j \in 1..Len(samples') : samples'[k].at < samples'[j].at - Retention
    <3>1. CASE k >= first
      <4>1. k \in first..(first' - 1)
        <5>1. first \in Nat /\ first' \in Nat
          BY <2>1
        <5>2. \A f, g \in Nat : \A n \in 1..(g - 1) : n >= f => n \in f..(g - 1)
          OBVIOUS
        <5> QED
          BY <3>1, <5>1, <5>2, Zenon
      <4> QED
        BY <2>1, <4>1
    <3>2. CASE ~(k >= first)
      <4>1. k \in 1..(first - 1) /\ k \in 1..Len(samples)
        BY <2>1, <3>2
      <4>2. PICK j \in 1..Len(samples) : samples[k].at < samples[j].at - Retention
        BY <1>2, <4>1 DEF ForgottenIsOld
      <4>3. samples'[k] = samples[k] /\ samples'[j] = samples[j] /\ j \in 1..Len(samples')
        BY <2>1, <4>1, <4>2
      <4> QED
        BY <4>2, <4>3
    <3> QED
      BY <3>1, <3>2
  <2>3. Retention' = Retention
    BY DEF Retention, Margin, Longest
  <2> QED
    BY <2>2, <2>3 DEF ForgottenIsOld
<1> QED
  BY <1>6, <1>7, <1>8, BeatsHonestParts, PTL

LEMMA NextHonest == IInv /\ [Next]_vars => IInv'
<1> SUFFICES ASSUME IInv, [Next]_vars PROVE IInv'
  OBVIOUS
<1>1. TypeOK /\ LastHonest /\ ArrivingHonest /\ ForgottenIsOld
  BY BeatsHonestParts DEF IInv
<1>2. TypeOK'
  BY <1>1, NextTyped
<1>3. ASSUME UNCHANGED <<beats, lastBeat, heard, samples, first>>, setBack' >= setBack
      PROVE  LastHonest' /\ ForgottenIsOld'
  <2>1. heard \in Nat /\ lastBeat \in Nat \cup {None} /\ setBack \in Nat /\ setBack' \in Nat
    BY <1>1, <1>2, JobBoundsAssumption DEF TypeOK, TrueTime
  <2>2. LastHonest'
    <3>1. (lastBeat' = None <=> beats' = 0) /\ (beats' = 0 => heard' = 0)
      BY <1>1, <1>3, Zenon DEF LastHonest
    <3>2. lastBeat' # None => heard' - setBack' <= lastBeat' /\ lastBeat' <= heard'
      <4>1. lastBeat # None => heard - setBack <= lastBeat /\ lastBeat <= heard
        BY <1>1 DEF LastHonest
      <4>2. lastBeat' = lastBeat /\ heard' = heard /\ setBack' >= setBack
        BY <1>3
      <4>3. \A l, h, b, c \in Int : c >= b /\ h - b <= l => h - c <= l
        OBVIOUS
      <4>4. ASSUME lastBeat # None
            PROVE  heard - setBack' <= lastBeat /\ lastBeat <= heard
        <5>1. heard - setBack <= lastBeat /\ lastBeat <= heard
          BY <4>1, <4>4
        <5>2. lastBeat \in Int /\ heard \in Int /\ setBack \in Int /\ setBack' \in Int
          BY <2>1 DEF None
        <5> QED
          BY <4>2, <4>3, <5>1, <5>2, Zenon
      <4> QED
        BY <4>2, <4>4, Zenon
    <3> QED
      BY <3>1, <3>2, Zenon DEF LastHonest
  <2>3. ForgottenIsOld'
    BY <1>1, <1>3, Zenon DEF ForgottenIsOld, Retention, Margin, Longest
  <2> QED
    BY <2>2, <2>3
<1>4. ASSUME UNCHANGED arriving, setBack' >= setBack
      PROVE  ArrivingHonest'
  <2>1. setBack \in Nat /\ setBack' \in Nat
    BY <1>1, <1>2, JobBoundsAssumption DEF TypeOK
  <2>2. ASSUME NEW i \in 1..Len(arriving)
        PROVE  arriving[i].true - setBack' <= arriving[i].at /\ arriving[i].at <= arriving[i].true
    <3>1. arriving[i].true - setBack <= arriving[i].at /\ arriving[i].at <= arriving[i].true
      BY <1>1 DEF ArrivingHonest
    <3>2. arriving[i].at \in Nat /\ arriving[i].true \in Nat
      BY <1>1, BeatHonest
    <3> QED
      BY <1>4, <2>1, <3>1, <3>2
  <2> QED
    BY <1>4, <2>2 DEF ArrivingHonest
<1>5. BeatsHonest'
  <2>1. CASE Arrive
    <3>1. PICK d \in Detail :
            arriving' = Append(arriving, [at |-> clock, true |-> TrueTime, detail |-> d])
      BY <2>1 DEF Arrive
    <3> DEFINE beat == [at |-> clock, true |-> TrueTime, detail |-> d]
    <3>2. beat.true - setBack <= beat.at /\ beat.at <= beat.true
      BY <1>1, JobBoundsAssumption DEF TypeOK, TrueTime
    <3>3. arriving \in Seq(ABeat)
      BY <1>1 DEF TypeOK, ABeat
    <3>4. beat \in ABeat
      BY <1>1 DEF TypeOK, ABeat, TrueTime
    <3> HIDE DEF beat
    <3>5. /\ Len(arriving') = Len(arriving) + 1 /\ Len(arriving) \in Nat
          /\ \A i \in 1..Len(arriving) : arriving'[i] = arriving[i]
          /\ arriving'[Len(arriving) + 1] = beat
      <4>1. arriving' = Append(arriving, beat)
        BY <3>1 DEF beat
      <4> QED
        BY <3>3, <3>4, <4>1, AppendProperties
    <3>6. setBack' = setBack
      BY <2>1 DEF Arrive
    <3>7. ASSUME NEW i \in 1..Len(arriving')
          PROVE  arriving'[i].true - setBack' <= arriving'[i].at
                 /\ arriving'[i].at <= arriving'[i].true
      <4>1. CASE i \in 1..Len(arriving)
        BY <1>1, <3>5, <3>6, <4>1 DEF ArrivingHonest
      <4>2. CASE ~(i \in 1..Len(arriving))
        <5>1. i = Len(arriving) + 1
          BY <3>5, <4>2
        <5> QED
          BY <3>2, <3>5, <3>6, <5>1
      <4> QED
        BY <4>1, <4>2
    <3>8. ArrivingHonest'
      BY <3>7 DEF ArrivingHonest
    <3>9. LastHonest' /\ ForgottenIsOld'
      <4>1. UNCHANGED <<beats, lastBeat, heard, samples, first, setBack>>
        BY <2>1 DEF Arrive
      <4> QED
        BY <1>1, <1>3, <4>1, JobBoundsAssumption DEF TypeOK
    <3> QED
      BY <3>8, <3>9, BeatsHonestParts, PTL
  <2>2. CASE RecordBeat
    BY <2>2, RecordBeatHonest
  <2>3. CASE Pass \/ StepBack \/ Evaluate \/ UNCHANGED vars
    <3>1. UNCHANGED <<beats, lastBeat, heard, samples, first, arriving>>
      BY <2>3 DEF Pass, StepBack, Evaluate, vars
    <3>2. setBack' >= setBack
      BY <1>1, <2>3, JobBoundsAssumption DEF Pass, StepBack, Evaluate, vars, TypeOK
    <3>3. LastHonest' /\ ForgottenIsOld' /\ ArrivingHonest'
      BY <1>3, <1>4, <3>1, <3>2
    <3> QED
      BY <3>3, BeatsHonestParts, PTL
  <2> QED
    BY <2>1, <2>2, <2>3 DEF Next
<1> QED
  BY <1>2, <1>5 DEF IInv

LEMMA Honest == Spec => []IInv
<1>1. Init => IInv
  BY InitTyped, InitHonest DEF IInv
<1> QED
  BY <1>1, NextHonest, PTL DEF Spec

\* What the inductive invariant adds: whatever order handlers record their beats in and however
\* the clock is set back, the date of the last beat is the true one but for what the
\* clock was set back by, and only counters older than the retention are forgotten
\* (JobState::record, receiver.rs).
THEOREM BeatsStayHonest == Spec => []BeatsHonest
  BY Honest, PTL DEF IInv

-----------------------------------------------------------------------------
(* What the rules say *)

\* A silence is at most as long as the truth, and shorter by no more than what the
\* clock was set back by.
LEMMA SilenceBounded ==
  ASSUME IInv
  PROVE  /\ SilentFor(lastBeat, clock) \in Nat
         /\ SilentFor(lastBeat, clock) <= TrueTime - heard
         /\ TrueTime - heard <= SilentFor(lastBeat, clock) + setBack
         /\ TrueTime \in Nat /\ heard \in Nat /\ setBack \in Nat
<1>1. TypeOK /\ LastHonest
  BY BeatsHonestParts DEF IInv
<1>2. /\ clock \in Nat /\ setBack \in Nat /\ heard \in 0..(clock + setBack)
      /\ lastBeat = None \/ lastBeat \in Nat
  BY <1>1, JobBoundsAssumption DEF TypeOK, TrueTime
<1>3. CASE lastBeat = None
  <2>1. heard = 0
    BY <1>1, <1>3 DEF LastHonest
  <2> QED
    BY <1>2, <1>3, <2>1 DEF SilentFor, TrueTime
<1>4. CASE ~(lastBeat = None)
  <2>1. heard - setBack <= lastBeat /\ lastBeat <= heard /\ lastBeat \in Nat
    BY <1>1, <1>2, <1>4 DEF LastHonest
  <2>2. SilentFor(lastBeat, clock) = IF clock <= lastBeat THEN 0 ELSE clock - lastBeat
    BY <1>4 DEF SilentFor
  <2> QED
    BY <1>2, <2>1, <2>2 DEF TrueTime
<1> QED
  BY <1>3, <1>4

\* What a silence gives rise to names what it is about, is nothing below the warning,
\* and is no page where there is no critical_after.
LEMMA OverdueFindings ==
  ASSUME NEW what, NEW silence, NEW warn, NEW critical
  PROVE  /\ \A f \in Overdue(what, silence, warn, critical) :
                f.what = what /\ (critical = None => f.severity = Warn)
         /\ ~(silence >= warn) /\ ~(silence >= critical)
                => Overdue(what, silence, warn, critical) = {}
<1>1. \A severity : Finding(what, "", severity).what = what
                    /\ Finding(what, "", severity).severity = severity
  BY DEF Finding
<1>2. CASE critical # None /\ silence >= critical
  <2>1. Overdue(what, silence, warn, critical) = {Finding(what, "", Critical)}
    BY <1>2, Zenon DEF Overdue
  <2> QED
    BY <1>1, <1>2, <2>1, Zenon
<1>3. CASE ~(critical # None /\ silence >= critical) /\ silence >= warn
  <2>1. Overdue(what, silence, warn, critical) = {Finding(what, "", Warn)}
    BY <1>3, Zenon DEF Overdue
  <2> QED
    BY <1>1, <1>3, <2>1, Zenon
<1>4. CASE ~(critical # None /\ silence >= critical) /\ ~(silence >= warn)
  <2>1. Overdue(what, silence, warn, critical) = {}
    BY <1>4, Zenon DEF Overdue
  <2> QED
    BY <2>1, Zenon
<1> QED
  BY <1>2, <1>3, <1>4, Zenon

LEMMA LiveIsNotPagedHolds == IInv => LiveIsNotPaged
<1> SUFFICES ASSUME IInv, "alive" \in rules, TrueTime - heard < AliveWarn
             PROVE  ~Reported("NoHeartbeat", clock) /\ ~Paged("NoWork", clock)
  BY DEF LiveIsNotPaged
<1>1. AliveFindings(clock) = {}
  <2> DEFINE silence == SilentFor(lastBeat, clock)
  <2>1. silence \in Nat /\ silence < AliveWarn /\ silence < AliveCritical
    BY SilenceBounded, JobAssumption DEF AliveValid
  <2> HIDE DEF silence
  <2>2. Overdue("NoHeartbeat", silence, AliveWarn, AliveCritical) = {}
    <3>1. ~(silence >= AliveWarn) /\ ~(silence >= AliveCritical)
      BY <2>1, JobAssumption DEF AliveValid
    <3> QED
      BY <3>1, OverdueFindings, Zenon
  <2> QED
    BY <2>2 DEF AliveFindings, silence
<1>2. Assess(clock) = WorkedFindings(clock) \cup FreshnessFindings(clock)
                        \cup UNION {RatioFindings(r, clock) : r \in Ratios}
  BY <1>1 DEF Assess
<1>3. \A f \in WorkedFindings(clock) : f.what = "NoWork" /\ f.severity = Warn
  <2>1. WorkedFindings(clock) =
            IF "worked" \notin rules THEN {}
            ELSE Overdue("NoWork", SilentFor(lastWorked, clock), WorkedWarn, None)
    BY Zenon DEF WorkedFindings
  <2> DEFINE quiet == Overdue("NoWork", SilentFor(lastWorked, clock), WorkedWarn, None)
  <2>2. \A f \in quiet : f.what = "NoWork" /\ f.severity = Warn
    BY OverdueFindings, Zenon
  <2> HIDE DEF quiet
  <2>3. CASE "worked" \notin rules
    BY <2>1, <2>3
  <2>4. CASE ~("worked" \notin rules)
    <3>1. WorkedFindings(clock) = quiet
      BY <2>1, <2>4 DEF quiet
    <3> QED
      BY <2>2, <3>1, Zenon
  <2> QED
    BY <2>3, <2>4
<1>4. \A f \in FreshnessFindings(clock) : f.what \in {"Stale", "FreshnessUnreported"}
  <2> DEFINE stale == Overdue("Stale", SilentFor(lastData, clock), FreshWarn, FreshCritical)
             unreported == Finding("FreshnessUnreported", "", Warn)
  <2>1. \A f \in stale : f.what = "Stale"
    BY OverdueFindings, Zenon
  <2>2. unreported.what = "FreshnessUnreported"
    BY DEF Finding
  <2>3. FreshnessFindings(clock) \in {{}, stale, {unreported}}
    BY Zenon DEF FreshnessFindings
  <2> HIDE DEF stale, unreported
  <2> QED
    BY <2>1, <2>2, <2>3
<1>5. \A r \in Ratios : \A f \in RatioFindings(r, clock) :
            f.what \in {"RatioUnreported", "Ratio"}
  BY DEF RatioFindings, Finding
<1>6. ASSUME NEW f \in Assess(clock)
      PROVE  f.what # "NoHeartbeat" /\ ~(f.what = "NoWork" /\ f.severity = Critical)
  <2>1. f \in WorkedFindings(clock) \/ f \in FreshnessFindings(clock)
        \/ \E r \in Ratios : f \in RatioFindings(r, clock)
    BY <1>2, <1>6, Zenon
  <2>2. CASE f \in WorkedFindings(clock)
    BY <1>3, <2>2 DEF Warn, Critical
  <2>3. CASE f \in FreshnessFindings(clock)
    BY <1>4, <2>3
  <2>4. CASE \E r \in Ratios : f \in RatioFindings(r, clock)
    BY <1>5, <2>4
  <2> QED
    BY <2>1, <2>2, <2>3, <2>4
<1> QED
  BY <1>6 DEF Reported, Paged

LEMMA SilenceIsMissedHolds == IInv => SilenceIsMissed
<1> SUFFICES ASSUME IInv, "alive" \in rules
             PROVE  /\ TrueTime - heard >= AliveWarn + setBack => Reported("NoHeartbeat", clock)
                    /\ TrueTime - heard >= AliveCritical + setBack => Paged("NoHeartbeat", clock)
  BY DEF SilenceIsMissed
<1> DEFINE silence == SilentFor(lastBeat, clock)
<1>1. AliveFindings(clock) = Overdue("NoHeartbeat", silence, AliveWarn, AliveCritical)
  BY DEF AliveFindings
<1>2. /\ silence \in Nat /\ TrueTime - heard <= silence + setBack
      /\ TrueTime \in Nat /\ heard \in Nat /\ setBack \in Nat
  BY SilenceBounded
<1> HIDE DEF silence
<1>3. AliveWarn \in Nat /\ AliveCritical \in Nat /\ AliveWarn < AliveCritical
  BY JobAssumption DEF AliveValid
<1>4. ASSUME TrueTime - heard >= AliveCritical + setBack
      PROVE  Paged("NoHeartbeat", clock) /\ Reported("NoHeartbeat", clock)
  <2>1. silence >= AliveCritical /\ AliveCritical # None
    BY <1>2, <1>3, <1>4 DEF None
  <2>2. AliveFindings(clock) = {Finding("NoHeartbeat", "", Critical)}
    BY <1>1, <2>1, Zenon DEF Overdue
  <2>3. Assess(clock) = {Finding("NoHeartbeat", "", Critical)}
    BY <2>2 DEF Assess
  <2>4. Finding("NoHeartbeat", "", Critical).what = "NoHeartbeat"
        /\ Finding("NoHeartbeat", "", Critical).severity = Critical
    BY DEF Finding
  <2> QED
    BY <2>3, <2>4, Zenon DEF Paged, Reported
<1>5. ASSUME TrueTime - heard >= AliveWarn + setBack
      PROVE  Reported("NoHeartbeat", clock)
  <2>1. silence >= AliveWarn
    BY <1>2, <1>3, <1>5
  <2>2. \E severity : AliveFindings(clock) = {Finding("NoHeartbeat", "", severity)}
    BY <1>1, <2>1, Zenon DEF Overdue
  <2>3. \E severity : Assess(clock) = {Finding("NoHeartbeat", "", severity)}
    BY <2>2 DEF Assess
  <2>4. \A severity : Finding("NoHeartbeat", "", severity).what = "NoHeartbeat"
    BY DEF Finding
  <2> QED
    BY <2>3, <2>4, Zenon DEF Reported
<1> QED
  BY <1>4, <1>5

LEMMA SumsAreExactHolds == IInv => SumsAreExact
<1> SUFFICES ASSUME IInv, NEW e \in 0..clock, WithinMargin(e), NEW r \in Ratios
             PROVE  Window(first, r, e) = Window(1, r, e)
  BY DEF SumsAreExact
<1>1. TypeOK /\ ForgottenIsOld
  BY BeatsHonestParts DEF IInv
<1>2. samples \in Seq(ASample) /\ Len(samples) \in Nat /\ first \in 1..(Len(samples) + 1)
  BY <1>1 DEF TypeOK, ASample
<1>3. \A i \in 1..Len(samples) : samples[i].at \in Nat
  <2>1. \A i \in 1..Len(samples) : samples[i] \in ASample
    BY <1>2, ElementOfSeq
  <2> QED
    BY <2>1, JobBoundsAssumption DEF ASample
<1>4. r.window \in Nat /\ Margin \in Nat /\ Retention \in Nat /\ r.window + Margin <= Retention
  BY RetentionTyped
<1>5. e \in Nat
  BY <1>1, JobBoundsAssumption DEF TypeOK
<1>6. ASSUME NEW i \in Window(1, r, e)
      PROVE  i \in Window(first, r, e)
  <2>1. i \in 1..Len(samples) /\ e - r.window < samples[i].at /\ samples[i].at <= e
    BY DEF Window
  <2>2. ~(i < first)
    <3> SUFFICES ASSUME i < first PROVE FALSE
      OBVIOUS
    <3>1. i \in 1..(first - 1)
      BY <1>2, <2>1
    <3>2. PICK j \in 1..Len(samples) : samples[i].at < samples[j].at - Retention
      BY <1>1, <3>1 DEF ForgottenIsOld
    <3>3. samples[j].at - e <= Margin
      BY <3>2 DEF WithinMargin
    <3>4. \A x, y, w, m, ret, f \in Int :
            w + m <= ret /\ x < y - ret /\ y - f <= m => ~(f - w < x)
      OBVIOUS
    <3>5. samples[i].at \in Int /\ samples[j].at \in Int
      BY <1>3, <2>1, <3>2
    <3>6. r.window \in Int /\ Margin \in Int /\ Retention \in Int /\ e \in Int
      BY <1>4, <1>5
    <3> QED
      BY <1>4, <2>1, <3>2, <3>3, <3>4, <3>5, <3>6, Zenon
  <2>3. i \in first..Len(samples)
    BY <1>2, <2>1, <2>2
  <2> QED
    BY <2>1, <2>3 DEF Window
<1>7. Window(first, r, e) \subseteq Window(1, r, e)
  BY <1>2 DEF Window
<1> QED
  BY <1>6, <1>7

\* A job that beats is neither called missing nor paged for because it is quiet, for all
\* thresholds, however its handlers overtake each other (assess_job).
THEOREM LiveIsNotPagedAlways == Spec => []LiveIsNotPaged
  BY Honest, LiveIsNotPagedHolds, PTL

\* A job that does not beat is called missing, and then paged for, later by no more than
\* the clock was set back by (assess_alive).
THEOREM SilenceIsMissedAlways == Spec => []SilenceIsMissed
  BY Honest, SilenceIsMissedHolds, PTL

\* Whatever was forgotten, the window of every ratio rule is whole (State::new,
\* JobState::record, counter_window).
THEOREM SumsAreExactAlways == Spec => []SumsAreExact
  BY Honest, SumsAreExactHolds, PTL

-----------------------------------------------------------------------------
(* A counter that never arrived *)

\* Counters are not called missing while one of them is at hand.
SeenIsTrue == ~seen => \A i \in 1..Len(samples) : samples[i].fetched = None

SInv == TypeOK /\ SeenIsTrue

LEMMA InitSeen == Init => SInv
<1> SUFFICES ASSUME Init PROVE SInv
  OBVIOUS
<1>1. Len(samples) = 0
  BY DEF Init
<1>2. SeenIsTrue
  BY <1>1 DEF SeenIsTrue
<1> QED
  BY <1>2, InitTyped DEF SInv

LEMMA RecordBeatSeen ==
  ASSUME SInv, RecordBeat
  PROVE  SeenIsTrue'
<1>1. PICK i \in DOMAIN arriving :
        /\ seen' = (seen \/ arriving[i].detail.fetched # None)
        /\ RecordSample(arriving[i].at, arriving[i].detail)
  BY DEF RecordBeat
<1> DEFINE detail == arriving[i].detail
           sample == [at |-> arriving[i].at, fetched |-> detail.fetched, parsed |-> detail.parsed]
<1>2. TypeOK /\ samples \in Seq(ASample) /\ i \in 1..Len(arriving)
  BY DEF SInv, TypeOK, ASample
<1>3. arriving[i].at \in 0..MaxTime /\ detail \in Detail /\ IsDetail(detail)
  BY <1>2, BeatHonest, JobAssumption
<1> SUFFICES ASSUME ~seen' PROVE \A k \in 1..Len(samples') : samples'[k].fetched = None
  BY DEF SeenIsTrue
<1>4. ~seen /\ detail.fetched = None
  BY <1>1
<1>5. \A k \in 1..Len(samples) : samples[k].fetched = None
  BY <1>4 DEF SInv, SeenIsTrue
<1>6. CASE samples' = Append(samples, sample)
  <2>1. sample.fetched = None
    BY <1>4
  <2>2. sample \in ASample
    BY <1>3 DEF ASample, IsDetail
  <2> HIDE DEF sample
  <2>3. /\ Len(samples') = Len(samples) + 1 /\ Len(samples) \in Nat
        /\ \A k \in 1..Len(samples) : samples'[k] = samples[k]
        /\ samples'[Len(samples) + 1] = sample
    BY <1>2, <1>6, <2>2, AppendProperties
  <2> QED
    BY <1>5, <2>1, <2>3
<1>7. CASE UNCHANGED samples
  BY <1>5, <1>7
<1> QED
  BY <1>1, <1>6, <1>7 DEF RecordSample

LEMMA NextSeen == SInv /\ [Next]_vars => SInv'
<1> SUFFICES ASSUME SInv, [Next]_vars PROVE SInv'
  OBVIOUS
<1>1. TypeOK'
  BY NextTyped DEF SInv
<1>2. CASE RecordBeat
  BY <1>1, <1>2, RecordBeatSeen DEF SInv
<1>3. CASE Arrive \/ Pass \/ StepBack \/ Evaluate \/ UNCHANGED vars
  <2>1. UNCHANGED <<seen, samples>>
    BY <1>3 DEF Arrive, Pass, StepBack, Evaluate, vars
  <2> QED
    BY <1>1, <2>1 DEF SInv, SeenIsTrue
<1> QED
  BY <1>2, <1>3 DEF Next

\* What the other rules find is called something else.
LEMMA OtherFindings ==
  ASSUME NEW e, NEW f
  PROVE  /\ f \in AliveFindings(e) => f.what = "NoHeartbeat"
         /\ f \in WorkedFindings(e) => f.what = "NoWork"
         /\ f \in FreshnessFindings(e) => f.what \in {"Stale", "FreshnessUnreported"}
<1>1. ASSUME f \in AliveFindings(e) PROVE f.what = "NoHeartbeat"
  <2>1. f \in Overdue("NoHeartbeat", SilentFor(lastBeat, e), AliveWarn, AliveCritical)
    BY <1>1, Zenon DEF AliveFindings
  <2> QED
    BY <2>1, OverdueFindings, Zenon
<1>2. ASSUME f \in WorkedFindings(e) PROVE f.what = "NoWork"
  <2>1. \E c : f \in Overdue("NoWork", SilentFor(lastWorked, e), WorkedWarn, c)
    BY <1>2, Zenon DEF WorkedFindings
  <2> QED
    BY <2>1, OverdueFindings, Zenon
<1>3. ASSUME f \in FreshnessFindings(e) PROVE f.what \in {"Stale", "FreshnessUnreported"}
  <2>1. f \in Overdue("Stale", SilentFor(lastData, e), FreshWarn, FreshCritical)
        \/ f = Finding("FreshnessUnreported", "", Warn)
    BY <1>3, Zenon DEF FreshnessFindings
  <2>2. CASE f \in Overdue("Stale", SilentFor(lastData, e), FreshWarn, FreshCritical)
    <3>1. f.what = "Stale"
      BY <2>2, OverdueFindings, Zenon
    <3> QED
      BY <3>1
  <2>3. CASE f = Finding("FreshnessUnreported", "", Warn)
    BY <2>3 DEF Finding
  <2> QED
    BY <2>1, <2>2, <2>3
<1> QED
  BY <1>1, <1>2, <1>3

\* Only assess_ratio says that a counter was never reported, and only of a job whose
\* counter was never seen.
LEMMA UnreportedIsUnseen ==
  ASSUME NEW e, Reported("RatioUnreported", e)
  PROVE  ~seen
<1>1. PICK f \in Assess(e) : f.what = "RatioUnreported"
  BY DEF Reported
<1>2. f \in AliveFindings(e) \/ f \in WorkedFindings(e) \/ f \in FreshnessFindings(e)
      \/ \E r \in Ratios : f \in RatioFindings(r, e)
  BY <1>1, Zenon DEF Assess
<1>3. PICK r \in Ratios : f \in RatioFindings(r, e)
  BY <1>1, <1>2, OtherFindings
<1>4. CASE ~EverSeen
  BY <1>4 DEF EverSeen
<1>5. CASE EverSeen
  <2>1. f = Finding("Ratio", r.name, Warn)
    BY <1>3, <1>5, Zenon DEF RatioFindings
  <2>2. f.what = "Ratio"
    BY <2>1 DEF Finding
  <2> QED
    BY <1>1, <2>2
<1> QED
  BY <1>4, <1>5

LEMMA Seen == Spec => []SInv
  BY InitSeen, NextSeen, PTL DEF Spec

\* A counter is said never to have arrived only if no beat ever carried it, whatever was
\* forgotten since (has_ever_seen, assess_ratio).
THEOREM NeverMeansNeverAlways == Spec => []NeverMeansNever
<1>1. SInv => NeverMeansNever
  BY UnreportedIsUnseen DEF SInv, SeenIsTrue, NeverMeansNever
<1> QED
  BY <1>1, Seen, PTL

-----------------------------------------------------------------------------
(* The ratio of the totals *)

AmongSamples(T) == T \subseteq 1..Len(samples)

\* The totals that assess_ratio compares are sums, as MapThenSumSet defines them.
LEMMA TotalsAreSums ==
  ASSUME TypeOK, NEW T, AmongSamples(T)
  PROVE  /\ IsFiniteSet(T)
         /\ \A i \in T : Parsed(i) \in Nat /\ Fetched(i) \in Nat
         /\ \E g : SumEquation(g, T, [i \in T |-> Parsed(i)]) /\ ParsedIn(T) = g[T]
         /\ \E g : SumEquation(g, T, [i \in T |-> Fetched(i)]) /\ FetchedIn(T) = g[T]
<1>1. IsFiniteSet(T)
  <2>1. samples \in Seq(ASample) /\ Len(samples) \in Nat
    BY DEF TypeOK, ASample
  <2>2. IsFiniteSet(1..Len(samples))
    BY <2>1, FS_Interval
  <2> QED
    BY <2>2, FS_Subset DEF AmongSamples
<1>2. ASSUME NEW i \in T
      PROVE  Parsed(i) \in Nat /\ Fetched(i) \in Nat
  <2>1. samples \in Seq(ASample)
    BY DEF TypeOK, ASample
  <2>2. samples[i] \in ASample
    BY <2>1, ElementOfSeq DEF AmongSamples
  <2> QED
    BY <2>2 DEF ASample, Parsed, Fetched
<1> DEFINE AnyOf(s) == CHOOSE x \in s : TRUE
<1>3. \E g : SumEquation(g, T, [i \in T |-> Parsed(i)]) /\ ParsedIn(T) = g[T]
  <2> DEFINE w == [i \in T |-> Parsed(i)]
             Sum(g) == g = [s \in SUBSET T |->
                                IF s = {} THEN 0 ELSE Parsed(AnyOf(s)) + g[s \ {AnyOf(s)}]]
  <2>1. \A g : Sum(g) <=> SumEquation(g, T, w)
    <3> SUFFICES ASSUME NEW g
                 PROVE  [s \in SUBSET T |->
                            IF s = {} THEN 0 ELSE Parsed(AnyOf(s)) + g[s \ {AnyOf(s)}]]
                        = [s \in SUBSET T |-> IF s = {} THEN 0 ELSE w[AnyOf(s)] + g[s \ {AnyOf(s)}]]
      BY Zenon DEF SumEquation
    <3>1. \A s \in SUBSET T : s # {} => w[AnyOf(s)] = Parsed(AnyOf(s))
      OBVIOUS
    <3> HIDE DEF w, AnyOf
    <3> QED
      BY <3>1
  <2>2. \E g : SumEquation(g, T, w)
    <3>1. \A i \in T : w[i] \in Nat
      BY <1>2
    <3> HIDE DEF w
    <3> QED
      BY <1>1, <3>1, SumExists
  <2>3. ParsedIn(T) = (CHOOSE g : Sum(g))[T]
    BY Zenon DEF ParsedIn, MapThenSumSet, MapThenFoldSet
  <2> HIDE DEF Sum, w
  <2>4. Sum(CHOOSE g : Sum(g))
    BY <2>1, <2>2, Zenon
  <2> QED
    BY <2>1, <2>3, <2>4, Zenon DEF w
<1>4. \E g : SumEquation(g, T, [i \in T |-> Fetched(i)]) /\ FetchedIn(T) = g[T]
  <2> DEFINE w == [i \in T |-> Fetched(i)]
             Sum(g) == g = [s \in SUBSET T |->
                                IF s = {} THEN 0 ELSE Fetched(AnyOf(s)) + g[s \ {AnyOf(s)}]]
  <2>1. \A g : Sum(g) <=> SumEquation(g, T, w)
    <3> SUFFICES ASSUME NEW g
                 PROVE  [s \in SUBSET T |->
                            IF s = {} THEN 0 ELSE Fetched(AnyOf(s)) + g[s \ {AnyOf(s)}]]
                        = [s \in SUBSET T |-> IF s = {} THEN 0 ELSE w[AnyOf(s)] + g[s \ {AnyOf(s)}]]
      BY Zenon DEF SumEquation
    <3>1. \A s \in SUBSET T : s # {} => w[AnyOf(s)] = Fetched(AnyOf(s))
      OBVIOUS
    <3> HIDE DEF w, AnyOf
    <3> QED
      BY <3>1
  <2>2. \E g : SumEquation(g, T, w)
    <3>1. \A i \in T : w[i] \in Nat
      BY <1>2
    <3> HIDE DEF w
    <3> QED
      BY <1>1, <3>1, SumExists
  <2>3. FetchedIn(T) = (CHOOSE g : Sum(g))[T]
    BY Zenon DEF FetchedIn, MapThenSumSet, MapThenFoldSet
  <2> HIDE DEF Sum, w
  <2>4. Sum(CHOOSE g : Sum(g))
    BY <2>1, <2>2, Zenon
  <2> QED
    BY <2>1, <2>3, <2>4, Zenon DEF w
<1> QED
  BY <1>1, <1>2, <1>3, <1>4

\* Totals are as bad as every sample is, or as good.
LEMMA TotalsCompare ==
  ASSUME TypeOK, NEW T, AmongSamples(T), NEW r \in Ratios
  PROVE  /\ ParsedIn(T) \in Nat /\ FetchedIn(T) \in Nat
         /\ T = {} => FetchedIn(T) = 0
         /\ (\A i \in T : Parsed(i) * r.den < r.num * Fetched(i)) /\ T # {}
                => ParsedIn(T) * r.den < r.num * FetchedIn(T)
         /\ (\A i \in T : ~(Parsed(i) * r.den < r.num * Fetched(i)))
                => ~(ParsedIn(T) * r.den < r.num * FetchedIn(T))
<1> DEFINE p == [i \in T |-> Parsed(i)]
           f == [i \in T |-> Fetched(i)]
<1>1. IsFiniteSet(T) /\ \A i \in T : Parsed(i) \in Nat /\ Fetched(i) \in Nat
  BY TotalsAreSums
<1>2. PICK gp : SumEquation(gp, T, p) /\ ParsedIn(T) = gp[T]
  BY TotalsAreSums
<1>3. PICK gf : SumEquation(gf, T, f) /\ FetchedIn(T) = gf[T]
  BY TotalsAreSums
<1>4. \A i \in T : p[i] \in Nat /\ p[i] = Parsed(i) /\ f[i] \in Nat /\ f[i] = Fetched(i)
  BY <1>1
<1>5. r.num \in Nat /\ r.den \in Nat
  BY JobAssumption DEF JobValid, RatioValid
<1> HIDE DEF p, f
<1>6. /\ \A s \in SUBSET T : gp[s] \in Nat
      /\ \A s \in SUBSET T : gf[s] \in Nat
  BY <1>1, <1>2, <1>3, <1>4, SumTyped
<1>7. /\ (\A i \in T : Less(p[i], f[i], r.num, r.den)) /\ T # {}
                => Less(gp[T], gf[T], r.num, r.den)
      /\ (\A i \in T : ~Less(p[i], f[i], r.num, r.den)) => ~Less(gp[T], gf[T], r.num, r.den)
  <2>1. IsSum(gp, T, p) /\ IsSum(gf, T, f)
    BY <1>1, <1>2, <1>3, <1>4 DEF IsSum
  <2> QED
    BY <1>5, <2>1, SumsCompare
<1>8. T = {} => gf[T] = 0
  BY <1>3 DEF SumEquation
<1> QED
  <2>1. T \in SUBSET T
    OBVIOUS
  <2>2. ParsedIn(T) \in Nat /\ FetchedIn(T) \in Nat
    BY <1>2, <1>3, <1>6, <2>1
  <2>3. T = {} => FetchedIn(T) = 0
    BY <1>3, <1>8
  <2>4. (\A i \in T : Parsed(i) * r.den < r.num * Fetched(i)) /\ T # {}
            => ParsedIn(T) * r.den < r.num * FetchedIn(T)
    BY <1>2, <1>3, <1>4, <1>7, Zenon DEF Less
  <2>5. (\A i \in T : ~(Parsed(i) * r.den < r.num * Fetched(i)))
            => ~(ParsedIn(T) * r.den < r.num * FetchedIn(T))
    BY <1>2, <1>3, <1>4, <1>7, Zenon DEF Less
  <2> QED
    BY <2>2, <2>3, <2>4, <2>5

\* A total is no less than what one of the samples adds to it.
LEMMA TotalAtLeast ==
  ASSUME TypeOK, NEW T, AmongSamples(T), NEW i \in T
  PROVE  FetchedIn(T) >= Fetched(i)
<1> DEFINE f == [j \in T |-> Fetched(j)]
<1>1. IsFiniteSet(T) /\ \A j \in T : Fetched(j) \in Nat
  BY TotalsAreSums
<1>2. PICK g : SumEquation(g, T, f) /\ FetchedIn(T) = g[T]
  BY TotalsAreSums
<1>3. \A j \in T : f[j] \in Nat /\ f[j] = Fetched(j)
  BY <1>1
<1> HIDE DEF f
<1>4. g[T] >= f[i]
  BY <1>1, <1>2, <1>3, SumAtLeast
<1> QED
  BY <1>2, <1>3, <1>4

\* One beat of the window can be enough for a ratio to be judged.
LEMMA JudgedByOne ==
  ASSUME TypeOK, SeenIsTrue, NEW e, NEW r \in Ratios, NEW i \in first..Len(samples),
         e - r.window < samples[i].at, samples[i].at <= e,
         samples[i].fetched # None, samples[i].fetched >= r.sample
  PROVE  IsJudged(r, e)
<1>1. first \in 1..(Len(samples) + 1) /\ Len(samples) \in Nat
  BY DEF TypeOK
<1>2. i \in 1..Len(samples)
  BY <1>1
<1>3. seen
  BY <1>2 DEF SeenIsTrue
<1> DEFINE T == Counting(first, r, e)
<1>4. i \in T /\ AmongSamples(T)
  BY <1>1 DEF Counting, Window, AmongSamples
<1>5. FetchedIn(T) \in Nat /\ Fetched(i) \in Nat /\ r.sample \in Nat
  <2>1. FetchedIn(T) \in Nat
    BY <1>4, TotalsCompare
  <2>2. Fetched(i) \in Nat
    BY <1>4, TotalsAreSums
  <2> QED
    BY <2>1, <2>2, JobAssumption DEF JobValid, RatioValid
<1>6. FetchedIn(T) >= Fetched(i)
  BY <1>4, TotalAtLeast
<1>7. Fetched(i) = samples[i].fetched
  BY DEF Fetched
<1> HIDE DEF T
<1>8. FetchedIn(T) >= r.sample
  BY <1>5, <1>6, <1>7
<1> QED
  BY <1>3, <1>8 DEF IsJudged, EverSeen, T

\* What a beat carries is kept, whatever is forgotten for it.
LEMMA BeatIsKept ==
  ASSUME TypeOK, "ratio" \in rules, NEW at \in 0..MaxTime, NEW detail \in Detail,
         detail.fetched # None, RecordSample(at, detail)
  PROVE  \E i \in first'..Len(samples') :
            samples'[i].at = at /\ samples'[i].fetched = detail.fetched
<1>1. samples \in Seq(ASample) /\ Len(samples) \in Nat /\ first \in 1..(Len(samples) + 1)
  BY DEF TypeOK, ASample
<1> DEFINE sample == [at |-> at, fetched |-> detail.fetched, parsed |-> detail.parsed]
<1>2. /\ samples' = Append(samples, sample)
      /\ first' = Min({i \in first..Len(samples') : samples'[i].at >= at - Retention})
  BY DEF RecordSample
<1>3. sample \in ASample /\ sample.at = at /\ sample.fetched = detail.fetched
  BY JobAssumption DEF ASample, IsDetail
<1> HIDE DEF sample
<1>4. Len(samples') = Len(samples) + 1 /\ samples'[Len(samples) + 1] = sample
  BY <1>1, <1>2, <1>3, AppendProperties
<1> DEFINE Kept == {i \in first..Len(samples') : samples'[i].at >= at - Retention}
<1>5. Kept \subseteq Nat /\ Len(samples') \in Kept
  BY <1>1, <1>3, <1>4, RetentionTyped
<1>6. first' \in Kept /\ first' <= Len(samples')
  <2>1. first' = Min(Kept)
    BY <1>2
  <2> HIDE DEF Kept
  <2> QED
    BY <1>5, <2>1, MinProperty
<1>7. first' \in Nat
  BY <1>5, <1>6
<1>8. Len(samples') \in first'..Len(samples')
  BY <1>1, <1>4, <1>6, <1>7
<1> QED
  BY <1>3, <1>4, <1>8

\* What assess_job says of a job that is beating is what the rules say, and only the rule
\* of a ratio says that it is low.
LEMMA RatioReportedBy ==
  ASSUME NEW r \in Ratios
  PROVE  /\ RatioReported(r, clock) => IsJudged(r, clock) /\ IsBelow(r, clock)
         /\ /\ "ratio" \in rules /\ IsJudged(r, clock) /\ IsBelow(r, clock)
            /\ ~Reported("NoHeartbeat", clock)
            => RatioReported(r, clock)
<1> DEFINE low == Finding("Ratio", r.name, Warn)
<1>1. low.what = "Ratio" /\ low.rule = r.name
  BY DEF Finding
<1>2. ASSUME RatioReported(r, clock)
      PROVE  IsJudged(r, clock) /\ IsBelow(r, clock)
  <2>1. low \in Assess(clock)
    BY <1>2 DEF RatioReported
  <2> HIDE DEF low
  <2>2. low \in AliveFindings(clock) \/ low \in WorkedFindings(clock)
        \/ low \in FreshnessFindings(clock)
        \/ \E s \in Ratios : low \in RatioFindings(s, clock)
    BY <2>1, Zenon DEF Assess
  <2>3. low \notin AliveFindings(clock) /\ low \notin WorkedFindings(clock)
        /\ low \notin FreshnessFindings(clock)
    BY <1>1, OtherFindings
  <2>4. PICK s \in Ratios : low \in RatioFindings(s, clock)
    BY <2>2, <2>3
  <2>5. low # Finding("RatioUnreported", s.name, Warn)
    BY <1>1 DEF Finding
  <2>6. IsJudged(s, clock) /\ IsBelow(s, clock) /\ low = Finding("Ratio", s.name, Warn)
    BY <2>4, <2>5, Zenon DEF RatioFindings
  <2>7. s.name = r.name
    BY <1>1, <2>6 DEF Finding
  <2>8. s = r
    BY <2>7, JobAssumption DEF JobValid
  <2> QED
    BY <2>6, <2>8
<1>3. ASSUME "ratio" \in rules, IsJudged(r, clock), IsBelow(r, clock),
             ~Reported("NoHeartbeat", clock)
      PROVE  RatioReported(r, clock)
  <2>1. AliveFindings(clock) = {}
    <3> SUFFICES ASSUME NEW f \in AliveFindings(clock) PROVE FALSE
      OBVIOUS
    <3>1. f.what = "NoHeartbeat"
      BY OtherFindings
    <3>2. f \in Assess(clock)
      BY Zenon DEF Assess
    <3> QED
      BY <1>3, <3>1, <3>2, Zenon DEF Reported
  <2>2. EverSeen
    BY <1>3, Zenon DEF IsJudged
  <2>3. low \in RatioFindings(r, clock)
    BY <1>3, <2>2, Zenon DEF RatioFindings
  <2>4. low \in UNION {RatioFindings(s, clock) : s \in Ratios}
    <3> HIDE DEF low
    <3> QED
      BY <2>3, Zenon
  <2> HIDE DEF low
  <2>5. low \in Assess(clock)
    BY <2>1, <2>4, Zenon DEF Assess
  <2> QED
    BY <2>5 DEF RatioReported, low
<1> QED
  BY <1>2, <1>3

LEMMA RatioIsFairHolds == IInv /\ SInv => RatioIsFair
<1> SUFFICES ASSUME IInv, SInv, WithinMargin(clock), "ratio" \in rules, NEW r \in Ratios
             PROVE  LET told == {i \in Window(1, r, clock) : samples[i].fetched # None}
                        Bad(i) == Parsed(i) * r.den < r.num * Fetched(i)
                    IN  /\ (\A i \in told : ~Bad(i)) => ~RatioReported(r, clock)
                        /\ (/\ \A i \in told : Bad(i)
                            /\ FetchedIn(told) >= r.sample
                            /\ ~Reported("NoHeartbeat", clock)) => RatioReported(r, clock)
  BY DEF RatioIsFair
<1> DEFINE told == {i \in Window(1, r, clock) : samples[i].fetched # None}
           Bad(i) == Parsed(i) * r.den < r.num * Fetched(i)
<1>1. TypeOK /\ clock \in 0..clock
  BY JobBoundsAssumption DEF IInv, TypeOK
<1>2. Counting(first, r, clock) = told
  BY <1>1, SumsAreExactHolds DEF SumsAreExact, Counting
<1>3. AmongSamples(told) /\ told \subseteq 1..Len(samples)
  BY DEF Window, AmongSamples
<1>4. IsBelow(r, clock) <=> ParsedIn(told) * r.den < r.num * FetchedIn(told)
  BY <1>2, Zenon DEF IsBelow
<1>5. ASSUME \E i \in 1..Len(samples) : samples[i].fetched # None
      PROVE  EverSeen
  BY <1>5 DEF SInv, SeenIsTrue, EverSeen
<1>6. \A i \in told : samples[i].fetched # None
  OBVIOUS
<1>7. r.sample \in Nat \ {0}
  BY JobAssumption DEF JobValid, RatioValid
<1>8. FetchedIn(told) >= r.sample => told # {}
  <2>1. told = {} => FetchedIn(told) = 0
    <3> HIDE DEF told
    <3> QED
      BY <1>1, <1>3, TotalsCompare
  <2> HIDE DEF told
  <2> QED
    BY <1>7, <2>1
<1>9. IsJudged(r, clock) <=> EverSeen /\ FetchedIn(told) >= r.sample
  BY <1>2, Zenon DEF IsJudged
<1> HIDE DEF told
<1>10. ASSUME \A i \in told : ~Bad(i)
       PROVE  ~RatioReported(r, clock)
  <2>1. ~(ParsedIn(told) * r.den < r.num * FetchedIn(told))
    BY <1>1, <1>3, <1>10, TotalsCompare
  <2> QED
    BY <1>4, <2>1, RatioReportedBy
<1>11. ASSUME \A i \in told : Bad(i), FetchedIn(told) >= r.sample,
              ~Reported("NoHeartbeat", clock)
       PROVE  RatioReported(r, clock)
  <2>1. told # {}
    BY <1>8, <1>11
  <2>2. ParsedIn(told) * r.den < r.num * FetchedIn(told)
    BY <1>1, <1>3, <1>11, <2>1, TotalsCompare
  <2>3. EverSeen
    BY <1>3, <1>5, <1>6, <2>1
  <2> QED
    BY <1>4, <1>9, <1>11, <2>2, <2>3, RatioReportedBy
<1> QED
  BY <1>10, <1>11, Zenon DEF told

\* A ratio is not reported while every beat of its window is good, and is when there
\* are enough of them and each is bad, for all counters and minima, whatever order the
\* beats were recorded in (assess_ratio, ratio_totals).
THEOREM RatioIsFairAlways == Spec => []RatioIsFair
  BY Honest, Seen, RatioIsFairHolds, PTL

=============================================================================
