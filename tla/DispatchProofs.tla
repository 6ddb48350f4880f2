--------------------------- MODULE DispatchProofs ---------------------------
(***************************************************************************)
(* Theorems about the dispatcher (Dispatch), for every set of subjects and *)
(* conditions and every window, back-off and bound; then about the audit   *)
(* trail it leaves and what a report makes of that (AuditTrail), for every *)
(* interval, every grain of the dates and every history of processes.      *)
(***************************************************************************)
EXTENDS AuditTrail, FiniteSetTheorems, SequenceTheorems, SetLemmas, TLAPS

-----------------------------------------------------------------------------
(* Lemmas about the operators *)

\* Keys are finitely many: subjects and conditions come from a config file.
LEMMA KeyFinite == IsFiniteSet(Key)
  BY NamesAssumption, FS_Product DEF Key

\* An ordering of a finite set of messages is a sequence of messages.
LEMMA OrderingsAreSeqs ==
  ASSUME NEW S, S \subseteq Message, IsFiniteSet(S), NEW s \in Orderings(S)
  PROVE  s \in Seq(Message)
<1>1. Cardinality(S) \in Nat
  BY FS_CardinalityType
<1>2. s \in [1..Cardinality(S) -> Message]
  BY DEF Orderings
<1> QED
  BY <1>1, <1>2

\* One message about each of some keys: finitely many messages.
LEMMA MessagesFinite ==
  ASSUME NEW K, K \subseteq Key, NEW level
  PROVE  IsFiniteSet({[key |-> k, level |-> level[k]] : k \in K})
<1> DEFINE f == [k \in K |-> [key |-> k, level |-> level[k]]]
           M == {[key |-> k, level |-> level[k]] : k \in K}
<1>1. f \in Surjection(K, M)
  BY DEF Surjection
<1>2. IsFiniteSet(K)
  BY KeyFinite, FS_Subset
<1> QED
  BY <1>1, <1>2, FS_Surjection

\* Keeping the newest n entries of a queue leaves at most n of them, and no more
\* than there were.
LEMMA KeepNewestIsSeq ==
  ASSUME NEW q \in Seq(Message), NEW n \in Nat
  PROVE  /\ KeepNewest(q, n) \in Seq(Message)
         /\ Len(KeepNewest(q, n)) <= n
         /\ Len(KeepNewest(q, n)) <= Len(q)
<1>1. CASE Len(q) <= n
  BY <1>1 DEF KeepNewest
<1>2. CASE Len(q) > n
  <2>1. /\ Len(q) - n + 1 \in 1..(Len(q) + 1)
        /\ Len(q) \in (Len(q) - n)..Len(q)
    BY <1>2, LenProperties
  <2>2. /\ SubSeq(q, Len(q) - n + 1, Len(q)) \in Seq(Message)
        /\ Len(SubSeq(q, Len(q) - n + 1, Len(q))) = n
    BY <1>2, <2>1, SubSeqProperties, LenProperties
  <2> QED
    BY <1>2, <2>2, LenProperties DEF KeepNewest
<1> QED
  BY <1>1, <1>2, LenProperties

\* A subset of a cycle's assessments: all of them are keys with a severity.
LEMMA AssessmentsTyped ==
  ASSUME NEW a \in Assessments
  PROVE  IsPartialMap(a, Key, Severity)
  BY DEF Assessments, PartialMap, IsPartialMap

\* The back-off delay is at least one tick and at most MAX_RETRY.
LEMMA BackoffBounded ==
  ASSUME NEW n \in Nat
  PROVE  Backoff(n + 1) \in 1..MaxRetry
<1>1. Smaller(n, 8) \in 0..8
  BY DEF Smaller
<1>2. Doubled[1 + Smaller(n, 8)] \in 1..256
  BY <1>1 DEF Doubled
<1>3. BaseRetry * Doubled[1 + Smaller(n, 8)] \in Nat \ {0}
  BY <1>2, TimingAssumption
<1> QED
  BY <1>3, TimingAssumption DEF Backoff, Smaller

-----------------------------------------------------------------------------
(* Type correctness *)

\* What one cycle leaves in memory is well typed.
LEMMA ReconcileTyped ==
  ASSUME TypeOK, NEW a \in Assessments
  PROVE  /\ IsPartialMap(OpenAfter(a), Key, Open)
         /\ IsPartialMap(PendingAfter(a), Key, Pending)
         /\ \A k \in Key : RecordAfter(a, k) \in Record
         /\ AlertsOf(a) \subseteq Message /\ IsFiniteSet(AlertsOf(a))
         /\ ClearsOf(a) \subseteq Message /\ IsFiniteSet(ClearsOf(a))
<1>1. /\ DOMAIN a \subseteq Key
      /\ \A k \in DOMAIN a : a[k] \in Severity
  BY AssessmentsTyped DEF IsPartialMap
<1>2. /\ DOMAIN open \subseteq Key
      /\ \A k \in DOMAIN open : open[k] \in Open
      /\ DOMAIN pending \subseteq Key
      /\ \A k \in DOMAIN pending : pending[k] \in Pending
      /\ now \in Time
      /\ trail \in [Key -> Record]
  BY DEF TypeOK, IsPartialMap
<1>3. \A k \in DOMAIN a : Noted(a, k) \in Pending
  BY <1>1, <1>2 DEF Noted, Pending, Worse, Severity, Warn, Critical
<1>4. /\ Confirmed(a) \subseteq DOMAIN a
      /\ Escalated(a) \subseteq DOMAIN a \cap DOMAIN open
      /\ Recovered(a) \subseteq Clearing(a)
      /\ Clearing(a) \subseteq DOMAIN open \ DOMAIN a
      /\ Confirmed(a) \cap DOMAIN open = {}
  BY DEF Confirmed, Escalated, Recovered, Clearing
<1>5. \A k \in DOMAIN open : ClearSince(k) \in Time
  BY <1>2 DEF ClearSince, Open, MaybeTime
<1>6. IsPartialMap(OpenAfter(a), Key, Open)
  <2>1. \A k \in Confirmed(a) :
          [severity |-> Noted(a, k).severity, openedAt |-> Noted(a, k).firstSeen,
           clearingSince |-> NoTime] \in Open
    BY <1>3, <1>4 DEF Pending, Open, MaybeTime
  <2>2. \A k \in DOMAIN a \cap DOMAIN open : Reopened(a, k) \in Open
    BY <1>1, <1>2 DEF Reopened, Open, MaybeTime, Worse, Severity, Warn, Critical
  <2>3. \A k \in Clearing(a) : [open[k] EXCEPT !.clearingSince = ClearSince(k)] \in Open
    BY <1>2, <1>4, <1>5 DEF Open, MaybeTime
  <2> QED
    BY <1>1, <1>2, <1>4, <2>1, <2>2, <2>3 DEF OpenAfter, IsPartialMap
<1>7. IsPartialMap(PendingAfter(a), Key, Pending)
  BY <1>1, <1>2, <1>3 DEF PendingAfter, IsPartialMap
<1>8. \A k \in Key : RecordAfter(a, k) \in Record
  <2> SUFFICES ASSUME NEW k \in Key PROVE RecordAfter(a, k) \in Record
    OBVIOUS
  <2>1. CASE k \in Confirmed(a)
    BY <1>3, <1>4, <2>1 DEF RecordAfter, Record, Pending, MaybeTime, Level
  <2>2. CASE k \notin Confirmed(a) /\ k \in Escalated(a)
    BY <1>1, <1>2, <1>4, <2>2 DEF RecordAfter, Record, Open, MaybeTime, Level
  <2>3. CASE k \notin Confirmed(a) /\ k \notin Escalated(a) /\ k \in Recovered(a)
    BY <1>2, <1>4, <1>5, <2>3 DEF RecordAfter, Record, Open, MaybeTime, Level
  <2>4. CASE k \notin Confirmed(a) /\ k \notin Escalated(a) /\ k \notin Recovered(a)
    BY <1>2, <2>4 DEF RecordAfter
  <2> QED
    BY <2>1, <2>2, <2>3, <2>4
<1>9. AlertsOf(a) \subseteq Message /\ IsFiniteSet(AlertsOf(a))
  <2>1. IsFiniteSet(AlertsOf(a))
    BY <1>1, <1>4, MessagesFinite DEF AlertsOf
  <2>2. AlertsOf(a) \subseteq Message
    BY <1>1, <1>4 DEF AlertsOf, Message, Level
  <2> QED
    BY <2>1, <2>2
<1>10. ClearsOf(a) \subseteq Message /\ IsFiniteSet(ClearsOf(a))
  <2> DEFINE level == [k \in Recovered(a) |-> AllClear]
  <2>1. IsFiniteSet(ClearsOf(a))
    <3>1. ClearsOf(a) = {[key |-> k, level |-> level[k]] : k \in Recovered(a)}
      BY DEF ClearsOf
    <3>2. Recovered(a) \subseteq Key
      BY <1>2, <1>4
    <3> HIDE DEF level
    <3> QED
      BY <3>1, <3>2, MessagesFinite
  <2>2. ClearsOf(a) \subseteq Message
    BY <1>2, <1>4 DEF ClearsOf, Message, Level
  <2> QED
    BY <2>1, <2>2
<1> QED
  BY <1>6, <1>7, <1>8, <1>9, <1>10

\* What one cycle leaves in the outbox: well typed, and within its bound.
LEMMA CycleOutbox ==
  ASSUME TypeOK, NEW a \in Assessments, Cycle(a)
  PROVE  /\ outbox' \in Seq(Message)
         /\ Len(outbox') <= MaxOutbox
         /\ dropped' \in Nat
<1>1. PICK alerts \in Orderings(AlertsOf(a)), clears \in Orderings(ClearsOf(a)) :
        /\ outbox' = KeepNewest(outbox \o alerts \o clears, MaxOutbox)
        /\ dropped' = dropped + (Len(outbox \o alerts \o clears) - Len(outbox'))
  BY DEF Cycle
<1> DEFINE queued == outbox \o alerts \o clears
<1>2. queued \in Seq(Message)
  BY ReconcileTyped, OrderingsAreSeqs, ConcatProperties DEF TypeOK
<1>3. /\ KeepNewest(queued, MaxOutbox) \in Seq(Message)
      /\ Len(KeepNewest(queued, MaxOutbox)) <= MaxOutbox
      /\ Len(KeepNewest(queued, MaxOutbox)) <= Len(queued)
  BY <1>2, KeepNewestIsSeq, OutboxAssumption
<1>4. Len(queued) \in Nat /\ Len(KeepNewest(queued, MaxOutbox)) \in Nat
  BY <1>2, <1>3, LenProperties
<1> HIDE DEF queued
<1> QED
  BY <1>1, <1>3, <1>4 DEF TypeOK, queued

\* Popping the front of the outbox.
LEMMA PopFrontTyped ==
  ASSUME TypeOK, OutboxBounded, phase = "sending", PopFront
  PROVE  /\ outbox' \in Seq(Message)
         /\ Len(outbox') <= MaxOutbox
         /\ phase' \in {"ticking", "sending"}
         /\ phase' = "sending" => outbox' # <<>>
         /\ Head(outbox) \in Message
<1>1. outbox \in Seq(Message) /\ outbox # <<>> /\ Len(outbox) <= MaxOutbox
  BY DEF TypeOK, OutboxBounded
<1>2. /\ Head(outbox) \in Message
      /\ Tail(outbox) \in Seq(Message)
      /\ Len(Tail(outbox)) = Len(outbox) - 1
  BY <1>1, HeadTailProperties
<1>3. Len(outbox) \in Nat /\ Len(outbox) # 0
  BY <1>1, LenProperties, EmptySeq
<1>4. Len(outbox') = Len(outbox) - 1 /\ outbox' \in Seq(Message)
  BY <1>2 DEF PopFront
<1>5. phase' = IF Len(outbox) = 1 THEN "ticking" ELSE "sending"
  BY DEF PopFront
<1>6. outbox' = <<>> => Len(outbox') = 0
  OBVIOUS
<1>7. Len(outbox') <= MaxOutbox
  BY <1>1, <1>3, <1>4, OutboxAssumption
<1> QED
  BY <1>2, <1>3, <1>4, <1>5, <1>6, <1>7

\* A queue is typed and bounded together: an awaited send needs a message.
WellFormed ==
    /\ TypeOK
    /\ OutboxBounded
    /\ DOMAIN wrong \subseteq DOMAIN spell

LEMMA InitWellFormed == Init => WellFormed
<1> SUFFICES ASSUME Init PROVE WellFormed
  OBVIOUS
<1>1. /\ IsPartialMap(EmptyMap, Key, Open)
      /\ IsPartialMap(EmptyMap, Key, Pending)
      /\ IsPartialMap(EmptyMap, Key, Severity)
      /\ IsPartialMap(EmptyMap, Key, Spell)
  BY DEF IsPartialMap, EmptyMap
<1>2. outbox \in Seq(Message) /\ Len(outbox) = 0
  BY EmptySeq DEF Init
<1>3. OutboxBounded
  BY <1>2, OutboxAssumption DEF OutboxBounded, Init
<1>4. TypeOK
  BY <1>1, <1>2, BoundsAssumption, TimingAssumption
     DEF Init, TypeOK, Time, MaybeTime, NoTime, Record, Level, Severity, AllClear
<1>5. DOMAIN wrong = {}
  BY DEF Init, EmptyMap
<1> QED
  BY <1>3, <1>4, <1>5 DEF WellFormed

LEMMA NextWellFormed == WellFormed /\ [Next]_vars => WellFormed'
<1> SUFFICES ASSUME WellFormed, [Next]_vars PROVE WellFormed'
  OBVIOUS
<1> USE DEF WellFormed
<1>1. ASSUME NEW a \in Assessments, Cycle(a) PROVE WellFormed'
  <2>1. /\ IsPartialMap(open', Key, Open)
        /\ IsPartialMap(pending', Key, Pending)
        /\ trail' \in [Key -> Record]
    BY <1>1, ReconcileTyped DEF Cycle
  <2>2. /\ outbox' \in Seq(Message)
        /\ Len(outbox') <= MaxOutbox
        /\ dropped' \in Nat
    BY <1>1, CycleOutbox
  <2>3. /\ now \in Time
        /\ cycleAt' = now
        /\ phase' \in {"ticking", "sending"}
        /\ phase' = "sending" => outbox' # <<>>
    BY <1>1 DEF Cycle, TypeOK
  <2>4. IsPartialMap(wrong', Key, Severity)
    BY <1>1, AssessmentsTyped DEF Cycle, Observe
  <2>5. TrueTime \in Elapsable
    BY BoundsAssumption DEF TypeOK, TrueTime, Elapsable, Time
  <2>6. IsPartialMap(spell', Key, Spell) /\ DOMAIN wrong' \subseteq DOMAIN spell'
    <3>1. /\ DOMAIN spell \subseteq Key
          /\ \A k \in DOMAIN spell : spell[k] \in Spell
          /\ DOMAIN a \subseteq Key
      BY AssessmentsTyped DEF TypeOK, IsPartialMap
    <3>2. /\ spell' = [k \in DOMAIN spell \cup DOMAIN a |->
                    IF k \notin DOMAIN a THEN spell[k]
                    ELSE IF k \in DOMAIN wrong THEN [spell[k] EXCEPT !.ended = TrueTime]
                    ELSE [from |-> now, began |-> TrueTime, ended |-> TrueTime]]
          /\ wrong' = a
      BY <1>1 DEF Cycle, Observe
    <3>3. \A k \in DOMAIN wrong : [spell[k] EXCEPT !.ended = TrueTime] \in Spell
      BY <2>5, <3>1 DEF Spell
    <3>4. [from |-> now, began |-> TrueTime, ended |-> TrueTime] \in Spell
      BY <2>3, <2>5 DEF Spell
    <3>5. \A k \in DOMAIN spell' : spell'[k] \in Spell
      BY <3>1, <3>2, <3>3, <3>4
    <3> QED
      BY <3>1, <3>2, <3>5 DEF IsPartialMap
  <2> QED
    BY <1>1, <2>1, <2>2, <2>3, <2>4, <2>6
       DEF TypeOK, OutboxBounded, Cycle, MaybeTime
<1>2. CASE SendOk
  <2>1. /\ outbox' \in Seq(Message)
        /\ Len(outbox') <= MaxOutbox
        /\ phase' \in {"ticking", "sending"}
        /\ phase' = "sending" => outbox' # <<>>
        /\ Head(outbox) \in Message
    BY <1>2, PopFrontTyped DEF SendOk
  <2>2. told' \in [Key -> Level]
    BY <1>2, <2>1 DEF SendOk, TypeOK, Message
  <2>3. 0 \in Nat /\ NoTime \in NoTime..(MaxTime + MaxRetry)
    BY BoundsAssumption, TimingAssumption DEF NoTime
  <2> QED
    BY <1>2, <2>1, <2>2, <2>3 DEF SendOk, TypeOK, OutboxBounded
<1>3. CASE SendRejected
  <2>1. /\ outbox' \in Seq(Message)
        /\ Len(outbox') <= MaxOutbox
        /\ phase' \in {"ticking", "sending"}
        /\ phase' = "sending" => outbox' # <<>>
    BY <1>3, PopFrontTyped DEF SendRejected
  <2> QED
    BY <1>3, <2>1 DEF SendRejected, TypeOK, OutboxBounded, observers
<1>4. CASE SendFailed
  <2>1. cycleAt + Backoff(failures + 1) \in NoTime..(MaxTime + MaxRetry)
    BY BackoffBounded, BoundsAssumption, TimingAssumption
       DEF TypeOK, MaybeTime, Time, NoTime
  <2>2. failures + 1 \in Nat
    BY DEF TypeOK
  <2> QED
    BY <1>4, <2>1, <2>2 DEF SendFailed, TypeOK, OutboxBounded, observers
<1>5. CASE Tick
  BY <1>5, BoundsAssumption DEF Tick, TypeOK, OutboxBounded, program, observers, Time
<1>6. CASE StepBack
  <2>1. PICK d \in 1..Smaller(now, MaxSetBack - setBack) :
          now' = now - d /\ setBack' = setBack + d
    BY <1>6 DEF StepBack
  <2>2. now' \in Time /\ setBack' \in 0..MaxSetBack
    BY <2>1, BoundsAssumption DEF TypeOK, Smaller, Time
  <2> QED
    BY <1>6, <2>2 DEF StepBack, TypeOK, OutboxBounded, program
<1>7. CASE Restart
  <2>1. /\ IsPartialMap(EmptyMap, Key, Open)
        /\ IsPartialMap(EmptyMap, Key, Pending)
        /\ IsPartialMap(EmptyMap, Key, Severity)
        /\ DOMAIN EmptyMap = {}
    BY DEF IsPartialMap, EmptyMap
  <2>2. outbox' \in Seq(Message) /\ Len(outbox') = 0
    BY <1>7, EmptySeq DEF Restart
  <2>3. /\ restarts' \in 0..MaxRestarts
        /\ NoTime \in NoTime..(MaxTime + MaxRetry)
    BY <1>7, BoundsAssumption, TimingAssumption DEF Restart, TypeOK, NoTime
  <2> QED
    BY <1>7, <2>1, <2>2, <2>3, OutboxAssumption
       DEF Restart, TypeOK, OutboxBounded, MaybeTime
<1>8. CASE UNCHANGED vars
  BY <1>8 DEF vars, program, observers, TypeOK, OutboxBounded
<1> QED
  BY <1>1, <1>2, <1>3, <1>4, <1>5, <1>6, <1>7, <1>8 DEF Next

\* Every reachable state is well typed and the outbox keeps its bound.
THEOREM TypeCorrect == Spec => [](TypeOK /\ OutboxBounded)
<1>1. WellFormed => TypeOK /\ OutboxBounded
  BY DEF WellFormed
<1> QED
  BY <1>1, InitWellFormed, NextWellFormed, PTL DEF Spec

-----------------------------------------------------------------------------
(* The damping windows *)

\* The inductive invariant.
Inv == WellFormed /\ WindowsHonest

\* Which conditions are confirmed, and since when: from an entry of `pending`,
\* or at once when the window is empty.
LEMMA ConfirmedSince ==
  ASSUME Inv, NEW a \in Assessments, NEW k \in Confirmed(a)
  PROVE  /\ k \in DOMAIN a \ DOMAIN open
         /\ k \in DOMAIN wrong <=> k \in DOMAIN pending
         /\ Noted(a, k).firstSeen = IF k \in DOMAIN wrong THEN spell[k].from ELSE now
         /\ now - Noted(a, k).firstSeen >= ConfirmAfter \/ ConfirmAfter = 0
         /\ Noted(a, k).firstSeen \in Time
<1>1. k \in DOMAIN a \ DOMAIN open /\ k \in Key
  BY AssessmentsTyped DEF Confirmed, IsPartialMap
<1>2. k \in DOMAIN wrong <=> k \in DOMAIN pending
  BY <1>1 DEF Inv, WindowsHonest, PendingUnbroken, WrongAccounted
<1>3. /\ k \in DOMAIN pending => pending[k] \in Pending
      /\ now \in Time
  BY DEF Inv, WellFormed, TypeOK, IsPartialMap
<1>4. Noted(a, k).firstSeen = IF k \in DOMAIN pending THEN pending[k].firstSeen ELSE now
  BY <1>3 DEF Noted, Pending
<1>5. Noted(a, k).firstSeen \in Time
  BY <1>3, <1>4 DEF Pending
<1>6. Elapsed(Noted(a, k).firstSeen, now) >= ConfirmAfter
  BY DEF Confirmed
<1>7. now - Noted(a, k).firstSeen >= ConfirmAfter \/ ConfirmAfter = 0
  BY <1>3, <1>5, <1>6, TimingAssumption DEF Elapsed, Time
<1> QED
  BY <1>1, <1>2, <1>4, <1>5, <1>6, <1>7 DEF Inv, WindowsHonest, PendingUnbroken

\* Which incidents end, and since when they are clear.
LEMMA RecoveredSince ==
  ASSUME Inv, NEW a \in Assessments, NEW k \in Recovered(a)
  PROVE  /\ k \in DOMAIN open \ DOMAIN a
         /\ k[1] \notin Unjudgeable(a)
         /\ TrueTime - spell[k].ended >= ConfirmAfter
<1>1. /\ k \in DOMAIN open \ DOMAIN a
      /\ k[1] \notin Unjudgeable(a)
      /\ Elapsed(ClearSince(k), now) >= ConfirmAfter
  BY DEF Recovered, Clearing
<1>2. /\ open[k] \in Open
      /\ k \in DOMAIN spell
      /\ spell[k] \in Spell
      /\ now \in Time
      /\ setBack \in Nat
  BY <1>1, BoundsAssumption
     DEF Inv, WellFormed, TypeOK, IsPartialMap, WindowsHonest, SpellsDated
<1>3. ClearSince(k) \in Time /\ spell[k].ended <= ClearSince(k) + setBack
  <2>1. CASE open[k].clearingSince = NoTime
    BY <1>1, <1>2, <2>1 DEF ClearSince, Inv, WindowsHonest, SpellsDated, TrueTime
  <2>2. CASE open[k].clearingSince # NoTime
    BY <1>1, <1>2, <2>2 DEF ClearSince, Inv, WindowsHonest, ClearingDated, Open, MaybeTime
  <2> QED
    BY <2>1, <2>2
<1>4. spell[k].ended <= TrueTime /\ spell[k].ended \in Int
  BY <1>2, BoundsAssumption DEF Inv, WindowsHonest, SpellsDated, Spell, Elapsable
<1>5. TrueTime - spell[k].ended >= ConfirmAfter
  BY <1>1, <1>2, <1>3, <1>4, TimingAssumption DEF Elapsed, TrueTime, Time
<1> QED
  BY <1>1, <1>5

LEMMA InitInv == Init => Inv
  BY InitWellFormed
     DEF Init, Inv, WindowsHonest, OpenNotPending, PendingUnbroken, WrongAccounted,
         SpellsDated, ClearingDated, EmptyMap

\* A cycle keeps the windows honest.
LEMMA CycleHonest ==
  ASSUME Inv, NEW a \in Assessments, Cycle(a)
  PROVE  WindowsHonest'
<1>1. /\ DOMAIN open \subseteq Key
      /\ \A k \in DOMAIN open : open[k] \in Open
      /\ DOMAIN pending \subseteq Key
      /\ \A k \in DOMAIN pending : pending[k] \in Pending
      /\ \A k \in DOMAIN spell : spell[k] \in Spell
      /\ DOMAIN a \subseteq Key
      /\ \A k \in DOMAIN a : a[k] \in Severity
      /\ now \in Time
      /\ setBack \in Nat
      /\ TrueTime \in Int
  BY AssessmentsTyped, BoundsAssumption
     DEF Inv, WellFormed, TypeOK, IsPartialMap, TrueTime, Time
<1>2. /\ open' = OpenAfter(a)
      /\ pending' = PendingAfter(a)
      /\ wrong' = a
      /\ now' = now /\ setBack' = setBack /\ TrueTime' = TrueTime
      /\ spell' = [k \in DOMAIN spell \cup DOMAIN a |->
                    IF k \notin DOMAIN a THEN spell[k]
                    ELSE IF k \in DOMAIN wrong THEN [spell[k] EXCEPT !.ended = TrueTime]
                    ELSE [from |-> now, began |-> TrueTime, ended |-> TrueTime]]
  BY DEF Cycle, Observe, TrueTime
<1>3. /\ Confirmed(a) \subseteq DOMAIN a \ DOMAIN open
      /\ Recovered(a) \subseteq Clearing(a)
      /\ Clearing(a) \subseteq DOMAIN open \ DOMAIN a
  BY DEF Confirmed, Recovered, Clearing
<1>4. /\ DOMAIN open' = (DOMAIN open \ Recovered(a)) \cup Confirmed(a)
      /\ DOMAIN pending' =
            ((DOMAIN pending \cup (DOMAIN a \ DOMAIN open)) \ Confirmed(a)) \cap DOMAIN a
      /\ DOMAIN spell' = DOMAIN spell \cup DOMAIN a
  BY <1>2 DEF OpenAfter, PendingAfter
<1>5. /\ OpenNotPending
      /\ PendingUnbroken
      /\ WrongAccounted
      /\ SpellsDated
      /\ ClearingDated
  BY DEF Inv, WindowsHonest
<1>6. OpenNotPending'
  BY <1>3, <1>4, <1>5 DEF OpenNotPending
<1>7. PendingUnbroken'
  <2> SUFFICES ASSUME NEW k \in DOMAIN pending'
               PROVE  /\ k \in DOMAIN wrong'
                      /\ pending'[k].firstSeen = spell'[k].from
                      /\ pending'[k].latest = wrong'[k]
    BY DEF PendingUnbroken
  <2>1. k \in DOMAIN a /\ k \notin DOMAIN open /\ pending'[k] = Noted(a, k)
    BY <1>2, <1>3, <1>4, <1>5 DEF PendingAfter, OpenNotPending
  <2>2. CASE k \in DOMAIN pending
    <3>1. /\ k \in DOMAIN wrong
          /\ k \in DOMAIN spell
          /\ pending[k].firstSeen = spell[k].from
      BY <1>5, <2>2 DEF PendingUnbroken, SpellsDated
    <3>2. spell'[k].from = spell[k].from
      BY <1>1, <1>2, <2>1, <3>1 DEF Spell
    <3> QED
      BY <1>1, <1>2, <2>1, <2>2, <3>1, <3>2 DEF Noted, Pending
  <2>3. CASE k \notin DOMAIN pending
    <3>1. k \notin DOMAIN wrong
      BY <1>5, <2>1, <2>3 DEF WrongAccounted
    <3> QED
      BY <1>2, <2>1, <2>3, <3>1 DEF Noted
  <2> QED
    BY <2>2, <2>3
<1>8. WrongAccounted'
  BY <1>2, <1>3, <1>4 DEF WrongAccounted
<1>9. SpellsDated'
  <2>1. DOMAIN wrong' \cup DOMAIN open' \subseteq DOMAIN spell'
    BY <1>2, <1>3, <1>4, <1>5 DEF SpellsDated
  <2>2. ASSUME NEW k \in DOMAIN spell'
        PROVE  /\ spell'[k].began <= spell'[k].ended
               /\ spell'[k].ended <= TrueTime'
               /\ spell'[k].began <= spell'[k].from + setBack'
    <3>1. CASE k \notin DOMAIN a
      BY <1>2, <1>4, <1>5, <3>1, <2>2 DEF SpellsDated
    <3>2. CASE k \in DOMAIN a /\ k \in DOMAIN wrong
      <4>1. /\ k \in DOMAIN spell
            /\ spell[k].began <= spell[k].ended
            /\ spell[k].ended <= TrueTime
            /\ spell[k].began <= spell[k].from + setBack
            /\ spell[k] \in Spell
        BY <1>1, <1>5, <3>2 DEF SpellsDated
      <4>2. /\ spell'[k].began = spell[k].began
            /\ spell'[k].from = spell[k].from
            /\ spell'[k].ended = TrueTime
        BY <1>2, <3>2, <4>1 DEF Spell
      <4>3. spell[k].began \in Int /\ spell[k].ended \in Int
        BY <4>1, BoundsAssumption DEF Spell, Elapsable
      <4> QED
        BY <1>1, <1>2, <4>1, <4>2, <4>3
    <3>3. CASE k \in DOMAIN a /\ k \notin DOMAIN wrong
      BY <1>1, <1>2, <3>3 DEF TrueTime
    <3> QED
      BY <3>1, <3>2, <3>3
  <2> QED
    BY <2>1, <2>2 DEF SpellsDated
<1>10. ClearingDated'
  <2> SUFFICES ASSUME NEW k \in DOMAIN open', open'[k].clearingSince # NoTime
               PROVE  spell'[k].ended <= open'[k].clearingSince + setBack'
    BY DEF ClearingDated
  <2>1. k \in DOMAIN open /\ k \notin DOMAIN a /\ k \notin Confirmed(a)
    <3>1. ASSUME k \in Confirmed(a) PROVE FALSE
      BY <1>2, <1>3, <1>4, <3>1 DEF OpenAfter
    <3>2. ASSUME k \in DOMAIN a \cap DOMAIN open PROVE FALSE
      BY <1>2, <1>3, <1>4, <3>2 DEF OpenAfter, Reopened
    <3> QED
      BY <1>3, <1>4, <3>1, <3>2
  <2>2. spell'[k] = spell[k] /\ k \in DOMAIN spell
    BY <1>2, <1>5, <2>1 DEF SpellsDated
  <2>3. CASE k \in Clearing(a)
    <3>1. open'[k].clearingSince = ClearSince(k)
      BY <1>1, <1>2, <1>3, <1>4, <2>1, <2>3 DEF OpenAfter, Open
    <3>2. CASE open[k].clearingSince = NoTime
      BY <1>1, <1>2, <1>5, <2>2, <3>1, <3>2 DEF ClearSince, SpellsDated, TrueTime
    <3>3. CASE open[k].clearingSince # NoTime
      BY <1>2, <1>5, <2>1, <2>2, <3>1, <3>3 DEF ClearSince, ClearingDated
    <3> QED
      BY <3>2, <3>3
  <2>4. CASE k \notin Clearing(a)
    <3>1. open'[k] = open[k]
      BY <1>2, <1>4, <2>1, <2>4 DEF OpenAfter
    <3> QED
      BY <1>2, <1>5, <2>1, <2>2, <3>1 DEF ClearingDated
  <2> QED
    BY <2>3, <2>4
<1> QED
  BY <1>6, <1>7, <1>8, <1>9, <1>10 DEF WindowsHonest

\* Time and clock steps keep the windows honest: true time never decreases.
LEMMA ClockHonest ==
  ASSUME Inv, Tick \/ StepBack
  PROVE  WindowsHonest'
<1>1. /\ TrueTime \in Int /\ TrueTime' \in Int /\ TrueTime' >= TrueTime
      /\ setBack \in Int /\ setBack' \in Int /\ setBack' >= setBack
  <2>1. CASE Tick
    BY <2>1 DEF Tick, observers, Inv, WellFormed, TypeOK, Time, TrueTime
  <2>2. CASE StepBack
    BY <2>2 DEF StepBack, Inv, WellFormed, TypeOK, Time, TrueTime
  <2> QED
    BY <2>1, <2>2
<1>2. UNCHANGED <<open, pending, wrong, spell>>
  BY DEF Tick, StepBack, program, observers
<1>3. \A k \in DOMAIN spell : spell[k] \in Spell
  BY DEF Inv, WellFormed, TypeOK, IsPartialMap
<1>4. \A k \in DOMAIN open : open[k] \in Open
  BY DEF Inv, WellFormed, TypeOK, IsPartialMap
<1>5. SpellsDated'
  <2>1. DOMAIN wrong' \cup DOMAIN open' \subseteq DOMAIN spell'
    BY <1>2 DEF Inv, WindowsHonest, SpellsDated
  <2> SUFFICES ASSUME NEW k \in DOMAIN spell
               PROVE  /\ spell[k].began <= spell[k].ended
                      /\ spell[k].ended <= TrueTime'
                      /\ spell[k].began <= spell[k].from + setBack'
    BY <1>2, <2>1 DEF SpellsDated
  <2>2. /\ spell[k].began <= spell[k].ended
        /\ spell[k].ended <= TrueTime
        /\ spell[k].began <= spell[k].from + setBack
    BY DEF Inv, WindowsHonest, SpellsDated
  <2>3. spell[k].from \in Int /\ spell[k].began \in Int /\ spell[k].ended \in Int
    BY <1>3, BoundsAssumption DEF Spell, Elapsable, Time
  <2> QED
    BY <1>1, <2>2, <2>3
<1>6. ClearingDated'
  <2> SUFFICES ASSUME NEW k \in DOMAIN open, open[k].clearingSince # NoTime
               PROVE  spell[k].ended <= open[k].clearingSince + setBack'
    BY <1>2 DEF ClearingDated
  <2>1. /\ k \in DOMAIN spell
        /\ spell[k].ended <= open[k].clearingSince + setBack
    BY DEF Inv, WindowsHonest, ClearingDated, SpellsDated
  <2>2. spell[k].ended \in Int /\ open[k].clearingSince \in Int
    BY <1>3, <1>4, <2>1, BoundsAssumption DEF Spell, Elapsable, Open, MaybeTime, Time, NoTime
  <2> QED
    BY <1>1, <2>1, <2>2
<1> QED
  BY <1>2, <1>5, <1>6
     DEF Inv, WindowsHonest, OpenNotPending, PendingUnbroken, WrongAccounted

LEMMA NextInv == Inv /\ [Next]_vars => Inv'
<1> SUFFICES ASSUME Inv, [Next]_vars PROVE WindowsHonest'
  BY NextWellFormed DEF Inv
<1>1. ASSUME NEW a \in Assessments, Cycle(a) PROVE WindowsHonest'
  BY <1>1, CycleHonest
<1>2. CASE Tick \/ StepBack
  BY <1>2, ClockHonest
<1>3. CASE SendOk \/ SendRejected \/ SendFailed \/ UNCHANGED vars
  <2>1. UNCHANGED <<now, setBack, open, pending, wrong, spell>>
    BY <1>3 DEF SendOk, SendRejected, SendFailed, vars, program, observers
  <2> QED
    BY <2>1 DEF Inv, WindowsHonest, OpenNotPending, PendingUnbroken, WrongAccounted,
                SpellsDated, ClearingDated, TrueTime
<1>4. CASE Restart
  <2>1. /\ DOMAIN open' = {} /\ DOMAIN pending' = {} /\ DOMAIN wrong' = {}
        /\ UNCHANGED <<now, setBack, spell>>
    BY <1>4 DEF Restart, EmptyMap
  <2> QED
    BY <2>1 DEF Inv, WindowsHonest, OpenNotPending, PendingUnbroken, WrongAccounted,
                SpellsDated, ClearingDated, TrueTime
<1> QED
  BY <1>1, <1>2, <1>3, <1>4 DEF Next

\* The entries of `pending` and `open` mean what was observed, in every
\* reachable state, whatever the clock does.
THEOREM EntriesHonest == Spec => []WindowsHonest
<1>1. Inv => WindowsHonest
  BY DEF Inv
<1> QED
  BY <1>1, InitInv, NextInv, PTL DEF Spec

\* Only a cycle opens an incident; only a cycle or a restart ends one.
LEMMA OthersKeepOpen ==
  ASSUME [Next]_vars, \A a \in Assessments : ~Cycle(a), ~Restart
  PROVE  open' = open
  BY DEF Next, SendOk, SendRejected, SendFailed, Tick, StepBack, vars, program

\* No alert without a whole window of reports, for any window and any clock.
THEOREM HeldTheorem == Spec => HeldBeforeOpened
<1> DEFINE Held == \A k \in DOMAIN open' \ DOMAIN open :
                      /\ k \in DOMAIN wrong'
                      /\ open'[k].openedAt = spell'[k].from
                      /\ TrueTime - spell'[k].began >= ConfirmAfter
<1>1. ASSUME Inv, [Next]_vars PROVE Held
  <2> SUFFICES ASSUME NEW k \in DOMAIN open' \ DOMAIN open
               PROVE  /\ k \in DOMAIN wrong'
                      /\ open'[k].openedAt = spell'[k].from
                      /\ TrueTime - spell'[k].began >= ConfirmAfter
    OBVIOUS
  <2>1. ~Restart
    BY DEF Restart, EmptyMap
  <2>2. PICK a \in Assessments : Cycle(a)
    BY <1>1, <2>1, OthersKeepOpen
  <2>3. open' = OpenAfter(a) /\ k \in Confirmed(a)
    BY <2>2 DEF Cycle, OpenAfter
  <2>4. /\ k \in DOMAIN a \ DOMAIN open
        /\ k \in DOMAIN wrong <=> k \in DOMAIN pending
        /\ Noted(a, k).firstSeen = IF k \in DOMAIN wrong THEN spell[k].from ELSE now
        /\ now - Noted(a, k).firstSeen >= ConfirmAfter \/ ConfirmAfter = 0
        /\ Noted(a, k).firstSeen \in Time
    BY <1>1, <2>3, ConfirmedSince
  <2>5. /\ wrong' = a
        /\ spell' = [j \in DOMAIN spell \cup DOMAIN a |->
                    IF j \notin DOMAIN a THEN spell[j]
                    ELSE IF j \in DOMAIN wrong THEN [spell[j] EXCEPT !.ended = TrueTime]
                    ELSE [from |-> now, began |-> TrueTime, ended |-> TrueTime]]
    BY <2>2 DEF Cycle, Observe
  <2>6. open'[k].openedAt = Noted(a, k).firstSeen
    BY <2>3, <2>4 DEF OpenAfter, Clearing
  <2>7. /\ now \in Time /\ setBack \in Nat
        /\ \A j \in DOMAIN spell : spell[j] \in Spell
    BY <1>1, BoundsAssumption DEF Inv, WellFormed, TypeOK, IsPartialMap
  <2>8. CASE k \in DOMAIN wrong
    <3>1. /\ k \in DOMAIN spell
          /\ spell[k].began <= spell[k].from + setBack
          /\ spell[k].began <= spell[k].ended
          /\ spell[k].ended <= TrueTime
      BY <1>1, <2>8 DEF Inv, WindowsHonest, SpellsDated
    <3>2. spell'[k].began = spell[k].began /\ spell'[k].from = spell[k].from
      BY <2>4, <2>5, <2>7, <2>8, <3>1 DEF Spell
    <3>3. /\ spell[k].began \in Int /\ spell[k].ended \in Int
          /\ spell[k].from \in Int /\ TrueTime \in Int /\ now \in Int
      BY <2>7, <3>1, BoundsAssumption DEF Spell, Elapsable, Time, TrueTime
    <3>4. TrueTime - spell[k].began >= ConfirmAfter
      BY <2>4, <2>7, <2>8, <3>1, <3>3, TimingAssumption DEF TrueTime
    <3> QED
      BY <2>4, <2>5, <2>6, <2>8, <3>2, <3>4
  <2>9. CASE k \notin DOMAIN wrong
    <3>1. spell'[k].began = TrueTime /\ spell'[k].from = now
      BY <2>4, <2>5, <2>9
    <3>2. ConfirmAfter = 0
      BY <2>4, <2>7, <2>9, TimingAssumption DEF Time
    <3> QED
      BY <2>4, <2>5, <2>6, <2>7, <2>9, <3>1, <3>2 DEF TrueTime, Time
  <2> QED
    BY <2>8, <2>9
<1>2. Spec => []Inv
  BY InitInv, NextInv, PTL DEF Spec
<1>3. Inv /\ [Next]_vars => [Held]_vars
  BY <1>1
<1> QED
  BY <1>2, <1>3, PTL DEF Spec, HeldBeforeOpened

\* No all-clear without a whole window since the last report, and none for a
\* rule a missing heartbeat hides.
THEOREM GoneTheorem == Spec => GoneBeforeCleared
<1> DEFINE Gone == \A k \in DOMAIN open \ DOMAIN open' :
                      \/ restarts' > restarts
                      \/ /\ k \notin DOMAIN wrong'
                         /\ k[1] \notin Unjudgeable(wrong')
                         /\ TrueTime - spell[k].ended >= ConfirmAfter
<1>1. ASSUME Inv, [Next]_vars PROVE Gone
  <2> SUFFICES ASSUME NEW k \in DOMAIN open \ DOMAIN open'
               PROVE  \/ restarts' > restarts
                      \/ /\ k \notin DOMAIN wrong'
                         /\ k[1] \notin Unjudgeable(wrong')
                         /\ TrueTime - spell[k].ended >= ConfirmAfter
    OBVIOUS
  <2>1. CASE Restart
    BY <1>1, <2>1, BoundsAssumption DEF Restart, Inv, WellFormed, TypeOK
  <2>2. CASE ~Restart
    <3>1. PICK a \in Assessments : Cycle(a)
      BY <1>1, <2>2, OthersKeepOpen
    <3>2. wrong' = a /\ k \in Recovered(a)
      BY <3>1 DEF Cycle, Observe, OpenAfter
    <3> QED
      BY <1>1, <3>2, RecoveredSince
  <2> QED
    BY <2>1, <2>2
<1>2. Spec => []Inv
  BY InitInv, NextInv, PTL DEF Spec
<1>3. Inv /\ [Next]_vars => [Gone]_vars
  BY <1>1
<1> QED
  BY <1>2, <1>3, PTL DEF Spec, GoneBeforeCleared

-----------------------------------------------------------------------------
(* The audit trail *)

\* A cycle's record for a key agrees with what the cycle did to its incident.
LEMMA CycleTrail ==
  ASSUME Inv, TrailAgrees, NEW a \in Assessments, Cycle(a)
  PROVE  TrailAgrees'
<1> SUFFICES ASSUME restarts = 0, NEW k \in Key
             PROVE  /\ trail'[k].event \in {"opened", "escalated"} <=> k \in DOMAIN open'
                    /\ k \in DOMAIN open' =>
                            /\ trail'[k].severity = open'[k].severity
                            /\ trail'[k].openedAt = open'[k].openedAt
  BY DEF TrailAgrees, Cycle
<1>1. /\ trail'[k] = RecordAfter(a, k)
      /\ open' = OpenAfter(a)
      /\ DOMAIN open' = (DOMAIN open \ Recovered(a)) \cup Confirmed(a)
  BY DEF Cycle, OpenAfter
<1>2. /\ Confirmed(a) \subseteq DOMAIN a \ DOMAIN open
      /\ Escalated(a) \subseteq DOMAIN a \cap DOMAIN open
      /\ Recovered(a) \subseteq Clearing(a)
      /\ Clearing(a) \subseteq DOMAIN open \ DOMAIN a
  BY DEF Confirmed, Escalated, Recovered, Clearing
<1>3. /\ \A j \in DOMAIN open : open[j] \in Open
      /\ \A j \in DOMAIN a : a[j] \in Severity
  BY AssessmentsTyped DEF Inv, WellFormed, TypeOK, IsPartialMap
<1>4. /\ trail[k].event \in {"opened", "escalated"} <=> k \in DOMAIN open
      /\ k \in DOMAIN open => /\ trail[k].severity = open[k].severity
                              /\ trail[k].openedAt = open[k].openedAt
  BY DEF TrailAgrees
<1>5. CASE k \in Confirmed(a)
  <2>1. /\ trail'[k].event = "opened"
        /\ trail'[k].severity = Noted(a, k).severity
        /\ trail'[k].openedAt = Noted(a, k).firstSeen
    BY <1>1, <1>2, <1>5 DEF RecordAfter
  <2>2. /\ open'[k].severity = Noted(a, k).severity
        /\ open'[k].openedAt = Noted(a, k).firstSeen
    BY <1>1, <1>2, <1>5 DEF OpenAfter
  <2> QED
    BY <1>1, <1>5, <2>1, <2>2
<1>6. CASE k \in DOMAIN a \cap DOMAIN open
  <2>1. open'[k] = Reopened(a, k) /\ k \in DOMAIN open'
    BY <1>1, <1>2, <1>6 DEF OpenAfter
  <2>2. CASE k \in Escalated(a)
    <3>1. /\ trail'[k].event = "escalated"
          /\ trail'[k].severity = a[k]
          /\ trail'[k].openedAt = open[k].openedAt
      BY <1>1, <1>2, <2>2 DEF RecordAfter
    <3>2. Worse(open[k].severity, a[k]) = a[k]
      BY <1>3, <1>6, <2>2 DEF Escalated, Worse, Open, Severity, Warn, Critical
    <3> QED
      BY <2>1, <3>1, <3>2 DEF Reopened
  <2>3. CASE k \notin Escalated(a)
    <3>1. trail'[k] = trail[k]
      BY <1>1, <1>2, <1>6, <2>3 DEF RecordAfter
    <3>2. Worse(open[k].severity, a[k]) = open[k].severity
      BY <1>3, <1>6, <2>3 DEF Escalated, Worse, Open, Severity, Warn, Critical
    <3> QED
      BY <1>4, <1>6, <2>1, <3>1, <3>2 DEF Reopened
  <2> QED
    BY <2>2, <2>3
<1>7. CASE k \in Recovered(a)
  <2>1. trail'[k].event = "resolved"
    BY <1>1, <1>2, <1>7 DEF RecordAfter
  <2>2. k \notin DOMAIN open'
    BY <1>1, <1>2, <1>7
  <2> QED
    BY <2>1, <2>2
<1>8. CASE k \in DOMAIN open \ (DOMAIN a \cup Recovered(a))
  <2>1. trail'[k] = trail[k]
    BY <1>1, <1>2, <1>8 DEF RecordAfter
  <2>2. /\ k \in DOMAIN open'
        /\ open'[k].severity = open[k].severity
        /\ open'[k].openedAt = open[k].openedAt
    BY <1>1, <1>2, <1>3, <1>8 DEF OpenAfter, Open
  <2> QED
    BY <1>4, <1>8, <2>1, <2>2
<1>9. CASE k \notin DOMAIN open \cup Confirmed(a)
  <2>1. trail'[k] = trail[k]
    BY <1>1, <1>2, <1>9 DEF RecordAfter
  <2> QED
    BY <1>1, <1>4, <1>9, <2>1
<1> QED
  BY <1>2, <1>5, <1>6, <1>7, <1>8, <1>9

\* Until the first restart the audit trail and the open incidents agree.
THEOREM TrailTheorem == Spec => []TrailAgrees
<1>1. Init => TrailAgrees
  BY DEF Init, TrailAgrees, EmptyMap
<1>2. ASSUME Inv, TrailAgrees, [Next]_vars PROVE TrailAgrees'
  <2>1. ASSUME NEW a \in Assessments, Cycle(a) PROVE TrailAgrees'
    BY <1>2, <2>1, CycleTrail
  <2>2. CASE SendOk \/ SendRejected \/ SendFailed \/ Tick \/ StepBack \/ UNCHANGED vars
    <3>1. UNCHANGED <<open, trail, restarts>>
      BY <2>2 DEF SendOk, SendRejected, SendFailed, Tick, StepBack, vars, program, observers
    <3> QED
      BY <1>2, <3>1 DEF TrailAgrees
  <2>3. CASE Restart
    <3>1. restarts' # 0
      BY <1>2, <2>3, BoundsAssumption DEF Restart, Inv, WellFormed, TypeOK
    <3> QED
      BY <3>1 DEF TrailAgrees
  <2> QED
    BY <1>2, <2>1, <2>2, <2>3 DEF Next
<1>3. Spec => []Inv
  BY InitInv, NextInv, PTL DEF Spec
<1> QED
  BY <1>1, <1>2, <1>3, PTL DEF Spec

-----------------------------------------------------------------------------
(* What a person is told *)

\* None of the first n messages of a queue is about k, and the last that is.
Silent(k, q, n) == \A j \in 1..n : q[j].key # k
IsLastAbout(i, k, q, n) ==
    i \in 1..n /\ q[i].key = k /\ \A j \in 1..n : j > i => q[j].key # k

LEMMA LastIs ==
  ASSUME NEW k, NEW q, NEW n \in Nat, NEW known, NEW i, IsLastAbout(i, k, q, n)
  PROVE  LastAbout(k, q, n, known) = q[i].level
<1> DEFINE about == {j \in 1..n : q[j].key = k}
           last == CHOOSE j \in about : \A l \in about : l <= j
<1>1. i \in about /\ \A l \in about : l <= i
  BY DEF IsLastAbout
<1>2. last \in about /\ \A l \in about : l <= last
  BY <1>1
<1>3. last = i
  BY <1>1, <1>2
<1> QED
  BY <1>1, <1>3 DEF LastAbout

LEMMA NoneIs ==
  ASSUME NEW k, NEW q, NEW n \in Nat, NEW known, Silent(k, q, n)
  PROVE  LastAbout(k, q, n, known) = known
  BY DEF LastAbout, Silent

LEMMA LastOrNone ==
  ASSUME NEW k, NEW q, NEW n \in Nat
  PROVE  Silent(k, q, n) \/ \E i : IsLastAbout(i, k, q, n)
<1> DEFINE about == {j \in 1..n : q[j].key = k}
<1>1. about # {} => \E i \in about : \A j \in about : j <= i
  <2>1. IsFiniteSet(1..n)
    BY FS_Interval
  <2>2. about \in SUBSET (1..n)
    OBVIOUS
  <2>3. about \subseteq Nat /\ IsFiniteSet(about)
    BY <2>1, <2>2, FS_Subset
  <2> HIDE DEF about
  <2> QED
    BY <2>3, MaxProperty
<1> QED
  BY <1>1 DEF Silent, IsLastAbout

LEMMA LastTyped ==
  ASSUME NEW k, NEW q, NEW n \in Nat, NEW known, NEW Set, known \in Set,
         \A i \in 1..n : q[i].level \in Set
  PROVE  LastAbout(k, q, n, known) \in Set
<1>1. CASE Silent(k, q, n)
  BY <1>1, NoneIs
<1>2. ASSUME NEW i, IsLastAbout(i, k, q, n) PROVE LastAbout(k, q, n, known) \in Set
  <2>1. i \in 1..n
    BY <1>2 DEF IsLastAbout
  <2>2. LastAbout(k, q, n, known) = q[i].level
    BY <1>2, LastIs
  <2> QED
    BY <2>1, <2>2
<1> QED
  BY <1>1, <1>2, LastOrNone

\* What is known depends on the messages about k alone.
LEMMA SilentTail ==
  ASSUME NEW k, NEW q, NEW r, NEW n \in Nat, NEW m \in Nat, n <= m, NEW known,
         \A j \in 1..n : r[j] = q[j],
         \A j \in 1..m : j > n => r[j].key # k
  PROVE  LastAbout(k, r, m, known) = LastAbout(k, q, n, known)
<1>1. CASE Silent(k, q, n)
  <2>1. Silent(k, r, m)
    BY <1>1 DEF Silent
  <2> QED
    BY <1>1, <2>1, NoneIs
<1>2. ASSUME NEW i, IsLastAbout(i, k, q, n)
      PROVE  LastAbout(k, r, m, known) = LastAbout(k, q, n, known)
  <2>1. IsLastAbout(i, k, r, m) /\ r[i] = q[i]
    BY <1>2 DEF IsLastAbout
  <2> QED
    BY <1>2, <2>1, LastIs
<1> QED
  BY <1>1, <1>2, LastOrNone

\* Delivering the first message of a queue changes what is known, and not what will
\* be known.
LEMMA FirstDelivered ==
  ASSUME NEW k, NEW q, NEW r, NEW n \in Nat, NEW m \in Nat, m = n + 1, NEW known,
         NEW new, new = IF q[1].key = k THEN q[1].level ELSE known,
         \A j \in 1..n : r[j] = q[j + 1]
  PROVE  LastAbout(k, r, n, new) = LastAbout(k, q, m, known)
<1>1. \A j \in 1..m : j > 1 => j - 1 \in 1..n /\ q[j] = r[j - 1]
  OBVIOUS
<1>2. CASE Silent(k, r, n)
  <2>1. \A j \in 1..m : j > 1 => q[j].key # k
    BY <1>1, <1>2 DEF Silent
  <2>2. LastAbout(k, q, m, known) = new
    <3>1. CASE q[1].key = k
      <4>1. IsLastAbout(1, k, q, m)
        BY <2>1, <3>1 DEF IsLastAbout
      <4> QED
        BY <3>1, <4>1, LastIs
    <3>2. CASE q[1].key # k
      <4>1. Silent(k, q, m)
        BY <2>1, <3>2 DEF Silent
      <4> QED
        BY <3>2, <4>1, NoneIs
    <3> QED
      BY <3>1, <3>2
  <2> QED
    BY <1>2, <2>2, NoneIs
<1>3. ASSUME NEW i, IsLastAbout(i, k, r, n)
      PROVE  LastAbout(k, r, n, new) = LastAbout(k, q, m, known)
  <2>1. PICK at : at = i + 1
    OBVIOUS
  <2>2. IsLastAbout(at, k, q, m) /\ q[at] = r[i]
    <3>1. i \in 1..n /\ r[i].key = k /\ \A j \in 1..n : j > i => r[j].key # k
      BY <1>3 DEF IsLastAbout
    <3>2. at \in 1..m /\ q[at] = r[i]
      BY <2>1, <3>1
    <3>3. ASSUME NEW j \in 1..m, j > at PROVE q[j].key # k
      <4>1. j > 1 /\ j - 1 > i
        BY <2>1, <3>1, <3>3
      <4> QED
        BY <1>1, <3>1, <4>1
    <3> QED
      BY <3>1, <3>2, <3>3 DEF IsLastAbout
  <2> QED
    BY <1>3, <2>2, LastIs
<1> QED
  BY <1>2, <1>3, LastOrNone

\* An ordering lists each element at exactly one place.
LEMMA OrderingsList ==
  ASSUME NEW S, IsFiniteSet(S), NEW s \in Orderings(S)
  PROVE  /\ Len(s) \in Nat
         /\ DOMAIN s = 1..Len(s)
         /\ \A i \in 1..Len(s) : s[i] \in S
         /\ \A i, j \in 1..Len(s) : s[i] = s[j] => i = j
         /\ \A x \in S : \E i \in 1..Len(s) : s[i] = x
<1> DEFINE n == Cardinality(S)
<1>1. n \in Nat
  BY FS_CardinalityType
<1>2. s \in [1..n -> S] /\ \A i, j \in 1..n : i # j => s[i] # s[j]
  BY DEF Orderings
<1>3. s \in Seq(S) /\ Len(s) = n
  BY <1>1, <1>2
<1>4. Cardinality(1..n) = n
  BY <1>1, FS_Interval
<1> HIDE DEF n
<1>5. s \in Injection(1..n, S)
  BY <1>2, Zenon DEF Injection, IsInjective
<1>6. s \in Surjection(1..n, S)
  BY <1>4, <1>5, FS_Injection DEF n
<1>7. \A x \in S : \E i \in 1..n : s[i] = x
  BY <1>6 DEF Surjection
<1> QED
  BY <1>1, <1>2, <1>3, <1>7

\* What one cycle has to say: one message about each key whose incident it changed.
TellsOf(news, a) ==
    /\ \A i \in 1..Len(news) :
           \/ /\ news[i].key \in Confirmed(a) \cup Escalated(a)
              /\ news[i].level = a[news[i].key]
           \/ news[i].key \in Recovered(a) /\ news[i].level = AllClear
    /\ \A i, j \in 1..Len(news) : news[i].key = news[j].key => i = j
    /\ \A k \in Confirmed(a) \cup Escalated(a) \cup Recovered(a) :
           \E i \in 1..Len(news) : news[i].key = k

LEMMA CycleNews ==
  ASSUME TypeOK, NEW a \in Assessments,
         NEW alerts \in Orderings(AlertsOf(a)), NEW clears \in Orderings(ClearsOf(a)),
         NEW news, news = alerts \o clears
  PROVE  /\ alerts \in Seq(Message) /\ clears \in Seq(Message) /\ news \in Seq(Message)
         /\ TellsOf(news, a)
<1>1. /\ AlertsOf(a) \subseteq Message /\ IsFiniteSet(AlertsOf(a))
      /\ ClearsOf(a) \subseteq Message /\ IsFiniteSet(ClearsOf(a))
  BY ReconcileTyped
<1>2. alerts \in Seq(Message) /\ clears \in Seq(Message)
  BY <1>1, OrderingsAreSeqs
<1> DEFINE A == Len(alerts)
           C == Len(clears)
<1>3. /\ A \in Nat /\ C \in Nat
      /\ \A i \in 1..A : alerts[i] \in AlertsOf(a)
      /\ \A i, j \in 1..A : alerts[i] = alerts[j] => i = j
      /\ \A x \in AlertsOf(a) : \E i \in 1..A : alerts[i] = x
  BY <1>1, <1>2, OrderingsList, LenProperties
<1>4. /\ \A i \in 1..C : clears[i] \in ClearsOf(a)
      /\ \A i, j \in 1..C : clears[i] = clears[j] => i = j
      /\ \A x \in ClearsOf(a) : \E i \in 1..C : clears[i] = x
  BY <1>1, OrderingsList
<1>5. /\ news \in Seq(Message)
      /\ Len(news) = A + C
      /\ \A i \in 1..(A + C) : news[i] = IF i <= A THEN alerts[i] ELSE clears[i - A]
  BY <1>2, ConcatProperties
<1> HIDE DEF A, C
<1>6. /\ Confirmed(a) \cup Escalated(a) \subseteq DOMAIN a
      /\ Recovered(a) \cap DOMAIN a = {}
  BY DEF Confirmed, Escalated, Recovered, Clearing
<1>7. /\ \A x \in AlertsOf(a) : x.key \in Confirmed(a) \cup Escalated(a) /\ x.level = a[x.key]
      /\ \A x, y \in AlertsOf(a) : x.key = y.key => x = y
      /\ \A k \in Confirmed(a) \cup Escalated(a) : \E x \in AlertsOf(a) : x.key = k
  <2> DEFINE M(k) == [key |-> k, level |-> a[k]]
  <2>1. /\ \A x \in AlertsOf(a) : \E k \in Confirmed(a) \cup Escalated(a) : x = M(k)
        /\ \A k \in Confirmed(a) \cup Escalated(a) : M(k) \in AlertsOf(a)
    BY Zenon DEF AlertsOf
  <2>2. \A k : M(k).key = k /\ M(k).level = a[k]
    OBVIOUS
  <2> HIDE DEF M
  <2> QED
    BY <2>1, <2>2
<1>8. /\ \A x \in ClearsOf(a) : x.key \in Recovered(a) /\ x.level = AllClear
      /\ \A x, y \in ClearsOf(a) : x.key = y.key => x = y
      /\ \A k \in Recovered(a) : \E x \in ClearsOf(a) : x.key = k
  <2> DEFINE M(k) == [key |-> k, level |-> AllClear]
  <2>1. /\ \A x \in ClearsOf(a) : \E k \in Recovered(a) : x = M(k)
        /\ \A k \in Recovered(a) : M(k) \in ClearsOf(a)
    BY Zenon DEF ClearsOf
  <2>2. \A k : M(k).key = k /\ M(k).level = AllClear
    OBVIOUS
  <2> HIDE DEF M
  <2> QED
    BY <2>1, <2>2
<1>9. ASSUME NEW i \in 1..Len(news)
      PROVE  \/ i \in 1..A /\ news[i] = alerts[i] /\ news[i] \in AlertsOf(a)
             \/ i - A \in 1..C /\ news[i] = clears[i - A] /\ news[i] \in ClearsOf(a)
  <2>1. CASE i <= A
    BY <1>3, <1>5, <2>1
  <2>2. CASE i > A
    <3>1. i - A \in 1..C /\ news[i] = clears[i - A]
      BY <1>3, <1>5, <2>2
    <3> QED
      BY <1>4, <3>1
  <2> QED
    BY <1>3, <1>5, <2>1, <2>2
<1>10. \A i \in 1..Len(news) :
          \/ /\ news[i].key \in Confirmed(a) \cup Escalated(a)
             /\ news[i].level = a[news[i].key]
          \/ news[i].key \in Recovered(a) /\ news[i].level = AllClear
  BY <1>7, <1>8, <1>9
<1>11. ASSUME NEW i \in 1..Len(news), NEW j \in 1..Len(news), news[i].key = news[j].key
       PROVE  i = j
  <2>1. CASE i \in 1..A /\ news[i] = alerts[i] /\ news[i] \in AlertsOf(a)
    <3>1. j \in 1..A /\ news[j] = alerts[j] /\ news[j] \in AlertsOf(a)
      <4>1. news[j] \notin ClearsOf(a)
        BY <1>6, <1>7, <1>8, <1>11, <2>1
      <4> QED
        BY <1>9, <4>1
    <3>2. news[i] = news[j]
      BY <1>7, <1>11, <2>1, <3>1
    <3> QED
      BY <1>3, <2>1, <3>1, <3>2
  <2>2. CASE i - A \in 1..C /\ news[i] = clears[i - A] /\ news[i] \in ClearsOf(a)
    <3>1. j - A \in 1..C /\ news[j] = clears[j - A] /\ news[j] \in ClearsOf(a)
      <4>1. news[j] \notin AlertsOf(a)
        BY <1>6, <1>7, <1>8, <1>11, <2>2
      <4> QED
        BY <1>9, <4>1
    <3>2. news[i] = news[j]
      BY <1>8, <1>11, <2>2, <3>1
    <3>3. i - A = j - A
      BY <1>4, <2>2, <3>1, <3>2
    <3> QED
      BY <1>3, <1>5, <3>3
  <2> QED
    BY <1>9, <2>1, <2>2
<1>12. ASSUME NEW k \in Confirmed(a) \cup Escalated(a) \cup Recovered(a)
       PROVE  \E i \in 1..Len(news) : news[i].key = k
  <2>1. CASE k \in Confirmed(a) \cup Escalated(a)
    <3>1. PICK x \in AlertsOf(a) : x.key = k
      BY <1>7, <2>1
    <3>2. PICK i \in 1..A : alerts[i] = x
      BY <1>3
    <3>3. i \in 1..Len(news) /\ news[i] = alerts[i]
      BY <1>3, <1>5
    <3> QED
      BY <3>1, <3>2, <3>3
  <2>2. CASE k \in Recovered(a)
    <3>1. PICK x \in ClearsOf(a) : x.key = k
      BY <1>8, <2>2
    <3>2. PICK i \in 1..C : clears[i] = x
      BY <1>4
    <3>3. /\ i + A \in 1..Len(news)
          /\ (i + A) - A = i /\ (i + A <= A) = FALSE
      BY <1>3, <1>5
    <3>4. news[i + A] = clears[i]
      BY <1>3, <1>5, <3>3
    <3> QED
      BY <3>1, <3>2, <3>3, <3>4
  <2> QED
    BY <2>1, <2>2
<1> QED
  BY <1>2, <1>5, <1>10, <1>11, <1>12 DEF TellsOf

\* What one cycle does to the incidents: none ends but by recovering, and none gets
\* less severe.
LEMMA CycleIncidents ==
  ASSUME Inv, NEW a \in Assessments, Cycle(a)
  PROVE  /\ DOMAIN open' = (DOMAIN open \ Recovered(a)) \cup Confirmed(a)
         /\ Confirmed(a) \subseteq DOMAIN a \ DOMAIN open
         /\ Escalated(a) \subseteq DOMAIN a \cap DOMAIN open
         /\ Recovered(a) \subseteq DOMAIN open \ DOMAIN a
         /\ \A k \in DOMAIN a : a[k] \in Severity
         /\ \A k \in DOMAIN open : open[k].severity \in Severity
         /\ \A k \in DOMAIN open' : open'[k].severity \in Severity
         /\ \A k \in Confirmed(a) \cup Escalated(a) : a[k] <= open'[k].severity
         /\ \A k \in Escalated(a) : a[k] > open[k].severity
         /\ \A k \in DOMAIN open \ Recovered(a) : open[k].severity <= open'[k].severity
<1>1. /\ open' = OpenAfter(a)
      /\ DOMAIN open' = (DOMAIN open \ Recovered(a)) \cup Confirmed(a)
      /\ Confirmed(a) \subseteq DOMAIN a \ DOMAIN open
      /\ Escalated(a) \subseteq DOMAIN a \cap DOMAIN open
      /\ Recovered(a) \subseteq Clearing(a)
      /\ Clearing(a) \subseteq DOMAIN open \ DOMAIN a
      /\ \A k \in Escalated(a) : a[k] > open[k].severity
  BY DEF Cycle, OpenAfter, Confirmed, Escalated, Recovered, Clearing
<1>2. /\ \A k \in DOMAIN open : open[k] \in Open
      /\ \A k \in DOMAIN a : a[k] \in Severity
      /\ \A k \in DOMAIN pending : pending[k] \in Pending
  BY AssessmentsTyped DEF Inv, WellFormed, TypeOK, IsPartialMap
<1>3. ASSUME NEW k \in Confirmed(a)
      PROVE  open'[k].severity \in Severity /\ a[k] <= open'[k].severity
  <2>1. open'[k].severity = Noted(a, k).severity
    BY <1>1 DEF OpenAfter
  <2>2. Noted(a, k).severity \in Severity /\ a[k] <= Noted(a, k).severity
    BY <1>1, <1>2 DEF Noted, Pending, Worse, Severity, Warn, Critical
  <2> QED
    BY <2>1, <2>2
<1>4. ASSUME NEW k \in DOMAIN a \cap DOMAIN open
      PROVE  /\ open'[k].severity \in Severity
             /\ a[k] <= open'[k].severity /\ open[k].severity <= open'[k].severity
  <2>1. open'[k].severity = Worse(open[k].severity, a[k])
    BY <1>1 DEF OpenAfter, Reopened
  <2> QED
    BY <1>2, <2>1 DEF Open, Worse, Severity, Warn, Critical
<1>5. ASSUME NEW k \in DOMAIN open \ (DOMAIN a \cup Recovered(a))
      PROVE  open'[k].severity = open[k].severity
  BY <1>1, <1>2 DEF OpenAfter, Open
<1>6. \A k \in DOMAIN open : open[k].severity \in Severity
  BY <1>2 DEF Open
<1>7. \A k \in DOMAIN open \ Recovered(a) :
         open'[k].severity \in Severity /\ open[k].severity <= open'[k].severity
  BY <1>4, <1>5, <1>6 DEF Severity, Warn, Critical
<1> QED
  BY <1>1, <1>2, <1>3, <1>4, <1>6, <1>7

\* What a person will know is never worse than the incident is. The other way round is
\* not so (see SeverityIsTold), but an escalation need only be worse than what is known.
ToldNoWorse ==
    dropped = 0 /\ restarts = 0 =>
        \A k \in DOMAIN open : ToldAfter(k, Len(outbox)) <= open[k].severity

\* The story of one key over one cycle, of which it is all the same whether it had
\* something to say about the key.
LEMMA CycleStory ==
  ASSUME Inv, StoryCoherent, ToldNoWorse, NEW a \in Assessments, Cycle(a)
  PROVE  StoryCoherent' /\ ToldNoWorse'
<1> SUFFICES ASSUME dropped' = 0, restarts' = 0, NEW k \in Key
             PROVE  /\ \A i \in DOMAIN outbox' : outbox'[i].key = k =>
                            Follows(ToldAfter(k, i - 1)', outbox'[i].level)
                    /\ LastAbout(k, outbox', Len(outbox'), told'[k]) # AllClear
                            <=> k \in DOMAIN open'
                    /\ k \in DOMAIN open' =>
                            LastAbout(k, outbox', Len(outbox'), told'[k]) <= open'[k].severity
  <2>1. DOMAIN open' \subseteq Key
    BY ReconcileTyped DEF Cycle, Inv, WellFormed, IsPartialMap
  <2> QED
    BY <2>1 DEF StoryCoherent, ToldNoWorse, ToldAfter
<1>1. PICK alerts \in Orderings(AlertsOf(a)), clears \in Orderings(ClearsOf(a)) :
        /\ outbox' = KeepNewest(outbox \o alerts \o clears, MaxOutbox)
        /\ dropped' = dropped + (Len(outbox \o alerts \o clears) - Len(outbox'))
  BY DEF Cycle
<1>2. PICK news : news = alerts \o clears
  OBVIOUS
<1>3. TypeOK /\ outbox \in Seq(Message) /\ dropped \in Nat
  BY DEF Inv, WellFormed, TypeOK
<1>4. /\ alerts \in Seq(Message) /\ clears \in Seq(Message) /\ news \in Seq(Message)
      /\ TellsOf(news, a)
  BY <1>2, <1>3, CycleNews, Zenon
<1>5. outbox \o alerts \o clears = outbox \o news
  BY <1>2, <1>3, <1>4, ConcatAssociative
<1> DEFINE queue == outbox \o news
           L == Len(outbox)
           N == Len(news)
<1>6. /\ L \in Nat /\ N \in Nat
      /\ queue \in Seq(Message)
      /\ Len(queue) = L + N
      /\ \A i \in 1..L : queue[i] = outbox[i]
      /\ \A i \in 1..N : queue[L + i] = news[i]
  <2>1. /\ L \in Nat /\ N \in Nat
        /\ queue \in Seq(Message)
        /\ Len(queue) = L + N
        /\ \A i \in 1..(L + N) : queue[i] = IF i <= L THEN outbox[i] ELSE news[i - L]
    BY <1>3, <1>4, ConcatProperties, LenProperties
  <2> HIDE DEF queue, L, N
  <2>2. \A i \in 1..L : i \in 1..(L + N) /\ i <= L
    BY <2>1
  <2>3. \A i \in 1..N : L + i \in 1..(L + N) /\ ~(L + i <= L) /\ (L + i) - L = i
    BY <2>1
  <2> QED
    BY <2>1, <2>2, <2>3
<1>7. outbox' = queue /\ dropped = 0 /\ restarts = 0
  <2>1. /\ KeepNewest(queue, MaxOutbox) \in Seq(Message)
        /\ Len(KeepNewest(queue, MaxOutbox)) <= Len(queue)
        /\ Len(KeepNewest(queue, MaxOutbox)) <= MaxOutbox
    BY <1>6, KeepNewestIsSeq, OutboxAssumption
  <2>2. outbox' = KeepNewest(queue, MaxOutbox)
        /\ dropped' = dropped + (Len(queue) - Len(outbox'))
    BY <1>1, <1>5
  <2>3. Len(outbox') \in Nat /\ Len(queue) \in Nat
    BY <1>6, <2>1, <2>2, LenProperties
  <2> HIDE DEF queue
  <2>4. dropped = 0 /\ Len(queue) = Len(outbox')
    BY <1>3, <2>1, <2>2, <2>3
  <2>5. Len(queue) <= MaxOutbox
    BY <2>1, <2>2, <2>4
  <2> QED
    BY <2>2, <2>4, <2>5 DEF KeepNewest, Cycle
<1> DEFINE old == LastAbout(k, outbox, L, told[k])
<1>8. /\ \A i \in 1..L : outbox[i].key = k =>
                Follows(LastAbout(k, outbox, i - 1, told[k]), outbox[i].level)
      /\ old # AllClear <=> k \in DOMAIN open
      /\ k \in DOMAIN open => old <= open[k].severity
  <2>1. DOMAIN outbox = 1..L
    BY <1>3, LenProperties
  <2> QED
    BY <1>7, <2>1 DEF StoryCoherent, ToldNoWorse, ToldAfter
<1>9. told' = told
  BY DEF Cycle
<1>10. /\ DOMAIN open' = (DOMAIN open \ Recovered(a)) \cup Confirmed(a)
       /\ Confirmed(a) \subseteq DOMAIN a \ DOMAIN open
       /\ Escalated(a) \subseteq DOMAIN a \cap DOMAIN open
       /\ Recovered(a) \subseteq DOMAIN open \ DOMAIN a
       /\ \A key \in DOMAIN a : a[key] \in Severity
       /\ \A key \in DOMAIN open : open[key].severity \in Severity
       /\ \A key \in DOMAIN open' : open'[key].severity \in Severity
       /\ \A key \in Confirmed(a) \cup Escalated(a) : a[key] <= open'[key].severity
       /\ \A key \in Escalated(a) : a[key] > open[key].severity
       /\ \A key \in DOMAIN open \ Recovered(a) : open[key].severity <= open'[key].severity
  BY CycleIncidents
<1> SUFFICES /\ \A i \in 1..(L + N) : queue[i].key = k =>
                    Follows(LastAbout(k, queue, i - 1, told[k]), queue[i].level)
             /\ LastAbout(k, queue, L + N, told[k]) # AllClear <=> k \in DOMAIN open'
             /\ k \in DOMAIN open' => LastAbout(k, queue, L + N, told[k]) <= open'[k].severity
  <2>1. DOMAIN queue = 1..(L + N)
    BY <1>6, LenProperties
  <2>2. \A i : ToldAfter(k, i - 1)' = LastAbout(k, queue, i - 1, told[k])
    BY <1>7, <1>9 DEF ToldAfter
  <2> QED
    BY <1>6, <1>7, <1>9, <2>1, <2>2
<1> HIDE DEF queue, L, N
<1>11. ASSUME NEW i \in 1..L, queue[i].key = k
       PROVE  Follows(LastAbout(k, queue, i - 1, told[k]), queue[i].level)
  <2>1. PICK n \in Nat : n = i - 1
    BY <1>6
  <2>2. (\A j \in 1..n : queue[j] = outbox[j]) /\ \A j \in 1..n : ~(j > n)
    BY <1>6, <2>1
  <2>3. LastAbout(k, queue, n, told[k]) = LastAbout(k, outbox, n, told[k])
    BY <2>2, SilentTail
  <2> QED
    BY <1>6, <1>8, <1>11, <2>1, <2>3
<1>12. ASSUME NEW m \in Nat, L <= m, \A j \in 1..m : j > L => queue[j].key # k
       PROVE  LastAbout(k, queue, m, told[k]) = old
  <2>1. L \in Nat /\ \A j \in 1..L : queue[j] = outbox[j]
    BY <1>6
  <2> QED
    BY <1>12, <2>1, SilentTail
<1>13. old \in Level
  <2>1. \A n \in 1..L : outbox[n].level \in Level
    <3>1. \A n \in 1..L : outbox[n] \in Message
      BY <1>3, ElementOfSeq DEF L
    <3> QED
      BY <3>1 DEF Message
  <2>2. told[k] \in Level
    BY <1>3 DEF TypeOK
  <2> QED
    BY <1>6, <2>1, <2>2, LastTyped
<1> HIDE DEF old
<1>14. CASE \E i \in 1..N : news[i].key = k
  <2>1. PICK i \in 1..N : news[i].key = k
    BY <1>14
  <2>2. PICK p : p = L + i
    OBVIOUS
  <2>3. /\ p \in 1..(L + N) /\ p > L
        /\ queue[p] = news[i]
        /\ queue[p].key = k
    BY <1>6, <2>1, <2>2
  <2>4. \A j \in 1..(L + N) : j > L /\ queue[j].key = k => j = p
    <3> SUFFICES ASSUME NEW j \in 1..(L + N), j > L, queue[j].key = k PROVE j = p
      OBVIOUS
    <3>1. PICK n \in 1..N : j = L + n
      <4>1. j - L \in 1..N /\ j = L + (j - L)
        BY <1>6
      <4> QED
        BY <4>1
    <3>2. news[n].key = k
      BY <1>6, <3>1
    <3>3. n = i
      BY <1>4, <2>1, <3>2 DEF N, TellsOf
    <3> QED
      BY <2>2, <3>1, <3>3
  <2>5. LastAbout(k, queue, p - 1, told[k]) = old
    <3>1. p - 1 \in Nat /\ L <= p - 1
      BY <1>6, <2>2
    <3>2. \A j \in 1..(p - 1) : j > L => queue[j].key # k
      BY <1>6, <2>3, <2>4
    <3> QED
      BY <1>12, <3>1, <3>2
  <2>6. LastAbout(k, queue, L + N, told[k]) = queue[p].level
    <3>1. IsLastAbout(p, k, queue, L + N)
      <4>1. ASSUME NEW j \in 1..(L + N), j > p PROVE queue[j].key # k
        <5>1. j > L /\ j # p
          BY <1>6, <2>3, <4>1
        <5> QED
          BY <2>4, <5>1
      <4> QED
        BY <2>3, <4>1 DEF IsLastAbout
    <3> QED
      BY <1>6, <3>1, LastIs
  <2>7. /\ Follows(old, queue[p].level)
        /\ queue[p].level # AllClear <=> k \in DOMAIN open'
        /\ k \in DOMAIN open' => queue[p].level <= open'[k].severity
    <3>1. CASE k \in Recovered(a) /\ queue[p].level = AllClear
      BY <1>8, <1>10, <3>1 DEF Follows
    <3>2. CASE k \in Confirmed(a) /\ queue[p].level = a[k]
      BY <1>8, <1>10, <3>2 DEF Follows, Severity, Warn, Critical, AllClear
    <3>3. CASE k \in Escalated(a) /\ queue[p].level = a[k]
      <4>1. /\ k \in DOMAIN open /\ k \in DOMAIN open'
            /\ a[k] # AllClear
        BY <1>10, <3>3 DEF Severity, Warn, Critical, AllClear
      <4>2. Follows(old, a[k])
        BY <1>8, <1>10, <1>13, <3>3, <4>1
           DEF Follows, Level, Severity, Warn, Critical, AllClear
      <4> QED
        BY <1>10, <3>3, <4>1, <4>2
    <3>4. \/ k \in Recovered(a) /\ queue[p].level = AllClear
          \/ k \in Confirmed(a) \cup Escalated(a) /\ queue[p].level = a[k]
      BY <1>4, <2>1, <2>3 DEF N, TellsOf
    <3> QED
      BY <3>1, <3>2, <3>3, <3>4
  <2> QED
    <3>1. \A n \in 1..(L + N) : n \in 1..L \/ n > L
      BY <1>6
    <3> QED
      BY <1>11, <2>4, <2>5, <2>6, <2>7, <3>1
<1>15. CASE \A i \in 1..N : news[i].key # k
  <2>1. \A j \in 1..(L + N) : j > L => queue[j].key # k
    <3> SUFFICES ASSUME NEW j \in 1..(L + N), j > L PROVE queue[j].key # k
      OBVIOUS
    <3>1. j - L \in 1..N /\ j = L + (j - L)
      BY <1>6
    <3> QED
      BY <1>6, <1>15, <3>1
  <2>2. LastAbout(k, queue, L + N, told[k]) = old
    <3>1. L + N \in Nat /\ L <= L + N
      BY <1>6
    <3> QED
      BY <1>12, <2>1, <3>1
  <2>3. k \notin Confirmed(a) \cup Escalated(a) \cup Recovered(a)
    BY <1>4, <1>15 DEF N, TellsOf
  <2>4. /\ old # AllClear <=> k \in DOMAIN open'
        /\ k \in DOMAIN open' => old <= open'[k].severity
    <3>1. k \in DOMAIN open' <=> k \in DOMAIN open
      BY <1>10, <2>3
    <3>2. CASE k \in DOMAIN open
      <4>1. /\ old <= open[k].severity /\ open[k].severity <= open'[k].severity
            /\ open[k].severity \in Severity /\ open'[k].severity \in Severity
        BY <1>8, <1>10, <2>3, <3>1, <3>2
      <4>2. old \in Int
        BY <1>13 DEF Level, Severity, Warn, Critical, AllClear
      <4> QED
        BY <1>8, <3>1, <3>2, <4>1, <4>2 DEF Severity, Warn, Critical
    <3> QED
      BY <1>8, <3>1, <3>2
  <2>5. \A n \in 1..(L + N) : n \in 1..L \/ n > L
    BY <1>6
  <2> QED
    BY <1>11, <2>1, <2>2, <2>4, <2>5
<1> QED
  BY <1>14, <1>15

\* Delivering the front of the outbox tells the story on, and changes nothing of it.
LEMMA DeliveryStory ==
  ASSUME Inv, StoryCoherent, ToldNoWorse, SendOk
  PROVE  StoryCoherent' /\ ToldNoWorse'
<1>1. /\ outbox \in Seq(Message) /\ outbox # <<>>
      /\ told \in [Key -> Level]
      /\ DOMAIN open \subseteq Key
  BY DEF Inv, WellFormed, TypeOK, OutboxBounded, SendOk, IsPartialMap
<1>2. /\ outbox' = Tail(outbox)
      /\ told' = [told EXCEPT ![Head(outbox).key] = Head(outbox).level]
      /\ UNCHANGED <<open, dropped, restarts>>
  BY DEF SendOk, PopFront
<1> DEFINE L == Len(outbox)
           n == Len(outbox')
<1>3. /\ outbox' \in Seq(Message) /\ n \in Nat /\ L = n + 1
      /\ \A i \in 1..n : outbox'[i] = outbox[i + 1]
      /\ Head(outbox) = outbox[1]
      /\ DOMAIN outbox = 1..L /\ DOMAIN outbox' = 1..n
  <2>1. /\ Tail(outbox) \in Seq(Message)
        /\ Len(Tail(outbox)) = Len(outbox) - 1
        /\ \A i \in 1..Len(Tail(outbox)) : Tail(outbox)[i] = outbox[i + 1]
    BY <1>1, HeadTailProperties
  <2>2. Head(outbox) = outbox[1]
    BY DEF Head
  <2>3. Len(outbox) \in Nat /\ Len(Tail(outbox)) \in Nat
    BY <1>1, <2>1, LenProperties
  <2> QED
    BY <1>1, <1>2, <2>1, <2>2, <2>3, LenProperties
<1> HIDE DEF L, n
<1>4. ASSUME NEW k \in Key, NEW i \in Nat, NEW j \in Nat, j = i + 1, i <= n
      PROVE  LastAbout(k, outbox', i, told'[k]) = LastAbout(k, outbox, j, told[k])
  <2>1. told'[k] = IF outbox[1].key = k THEN outbox[1].level ELSE told[k]
    BY <1>1, <1>2, <1>3
  <2>2. \A l \in 1..i : outbox'[l] = outbox[l + 1]
    BY <1>3, <1>4
  <2> QED
    BY <1>4, <2>1, <2>2, FirstDelivered
<1> SUFFICES ASSUME dropped = 0, restarts = 0, NEW k \in Key
             PROVE  /\ \A i \in 1..n : outbox'[i].key = k =>
                            Follows(LastAbout(k, outbox', i - 1, told'[k]), outbox'[i].level)
                    /\ LastAbout(k, outbox', n, told'[k]) # AllClear <=> k \in DOMAIN open
                    /\ k \in DOMAIN open => LastAbout(k, outbox', n, told'[k]) <= open[k].severity
  <2>1. /\ \A i : ToldAfter(i, Len(outbox))' = LastAbout(i, outbox', n, told'[i])
        /\ \A i, j : ToldAfter(i, j - 1)' = LastAbout(i, outbox', j - 1, told'[i])
    BY DEF ToldAfter, n
  <2> QED
    BY <1>1, <1>2, <1>3, <2>1 DEF StoryCoherent, ToldNoWorse, ToldAfter, n
<1>5. /\ \A i \in 1..L : outbox[i].key = k =>
                Follows(LastAbout(k, outbox, i - 1, told[k]), outbox[i].level)
      /\ LastAbout(k, outbox, L, told[k]) # AllClear <=> k \in DOMAIN open
      /\ k \in DOMAIN open => LastAbout(k, outbox, L, told[k]) <= open[k].severity
  BY <1>3 DEF StoryCoherent, ToldNoWorse, ToldAfter, L
<1>6. ASSUME NEW i \in 1..n, outbox'[i].key = k
      PROVE  Follows(LastAbout(k, outbox', i - 1, told'[k]), outbox'[i].level)
  <2>1. /\ i - 1 \in Nat /\ i \in Nat /\ i = (i - 1) + 1 /\ i - 1 <= n
        /\ i + 1 \in 1..L /\ (i + 1) - 1 = i
        /\ outbox'[i] = outbox[i + 1]
    BY <1>3
  <2>2. LastAbout(k, outbox', i - 1, told'[k]) = LastAbout(k, outbox, i, told[k])
    BY <1>4, <2>1
  <2>3. Follows(LastAbout(k, outbox, (i + 1) - 1, told[k]), outbox[i + 1].level)
    BY <1>5, <1>6, <2>1
  <2> QED
    BY <2>1, <2>2, <2>3
<1>7. LastAbout(k, outbox', n, told'[k]) = LastAbout(k, outbox, L, told[k])
  <2>1. n \in Nat /\ L \in Nat /\ L = n + 1 /\ n <= n
    BY <1>3
  <2> QED
    BY <1>4, <2>1
<1> QED
  BY <1>5, <1>6, <1>7

\* The story begins with nobody told of anything.
LEMMA InitStory == Init => StoryCoherent /\ ToldNoWorse
<1> SUFFICES ASSUME Init PROVE StoryCoherent /\ ToldNoWorse
  OBVIOUS
<1>1. /\ outbox = <<>> /\ Len(outbox) = 0 /\ DOMAIN open = {} /\ DOMAIN outbox = {}
      /\ \A k \in Key : told[k] = AllClear
  BY DEF Init, EmptyMap
<1>2. \A k \in Key : ToldAfter(k, Len(outbox)) = AllClear
  <2> SUFFICES ASSUME NEW k \in Key PROVE LastAbout(k, outbox, 0, told[k]) = AllClear
    BY <1>1 DEF ToldAfter
  <2>1. Silent(k, outbox, 0)
    BY DEF Silent
  <2> QED
    BY <1>1, <2>1, NoneIs
<1> QED
  BY <1>1, <1>2 DEF StoryCoherent, ToldNoWorse

\* And every step of the dispatcher tells it on.
LEMMA NextStory ==
  ASSUME Inv, StoryCoherent, ToldNoWorse, [Next]_vars
  PROVE  StoryCoherent' /\ ToldNoWorse'
<1>1. ASSUME NEW a \in Assessments, Cycle(a) PROVE StoryCoherent' /\ ToldNoWorse'
  BY <1>1, CycleStory
<1>2. CASE SendOk
  BY <1>2, DeliveryStory
<1>3. CASE SendRejected
  <2>1. dropped' # 0
    BY <1>3 DEF SendRejected, Inv, WellFormed, TypeOK
  <2> QED
    BY <2>1 DEF StoryCoherent, ToldNoWorse
<1>4. CASE SendFailed \/ Tick \/ StepBack \/ UNCHANGED vars
  <2>1. UNCHANGED <<outbox, told, open, dropped, restarts>>
    BY <1>4 DEF SendFailed, Tick, StepBack, vars, program, observers
  <2> QED
    BY <2>1 DEF StoryCoherent, ToldNoWorse, ToldAfter
<1>5. CASE Restart
  <2>1. restarts' # 0
    BY <1>5, BoundsAssumption DEF Restart, Inv, WellFormed, TypeOK
  <2> QED
    BY <2>1 DEF StoryCoherent, ToldNoWorse
<1> QED
  BY <1>1, <1>2, <1>3, <1>4, <1>5 DEF Next

\* Whatever failed, was retried or was overtaken: the messages about an incident,
\* delivered and queued, are one coherent story that ends in its state, for any number
\* of incidents and any back-off (reconcile, enqueue and flush of src/src/notify.rs).
THEOREM StoryTheorem == Spec => []StoryCoherent
<1>1. Inv /\ StoryCoherent /\ ToldNoWorse /\ [Next]_vars => StoryCoherent' /\ ToldNoWorse'
  BY NextStory
<1>2. Spec => []Inv
  BY InitInv, NextInv, PTL DEF Spec
<1> QED
  BY <1>1, <1>2, InitStory, PTL DEF Spec

-----------------------------------------------------------------------------
(* The dispatcher implements AlertStream *)

\* The abstract incidents, as the instance of AlertStream sees them.
Incident == [k \in Key |-> IF k \in DOMAIN open THEN open[k].severity ELSE AllClear]

\* The instance of AlertStream speaks the vocabulary of Alerts.
LEMMA Vocabulary ==
  /\ Stream!Key = Key
  /\ Stream!AllClear = AllClear
  /\ Stream!Level = Level
  /\ \A S : Stream!Orderings(S) = Orderings(S)
  /\ \A q, n : Stream!KeepNewest(q, n) = KeepNewest(q, n)
<1>1. Stream!Key = Key
  BY DEF Key, Stream!Key
<1>2. Stream!AllClear = AllClear /\ Stream!Level = Level
  BY DEF AllClear, Stream!AllClear, Level, Stream!Level, Severity, Stream!Severity,
         Warn, Stream!Warn, Critical, Stream!Critical
<1>3. ASSUME NEW S PROVE Stream!Orderings(S) = Orderings(S)
  <2>1. Stream!Cardinality(S) = Cardinality(S)
    BY Zenon DEF Cardinality, Stream!Cardinality
  <2> QED
    BY <2>1 DEF Orderings, Stream!Orderings
<1>4. ASSUME NEW q, NEW n PROVE Stream!KeepNewest(q, n) = KeepNewest(q, n)
  BY DEF KeepNewest, Stream!KeepNewest
<1> QED
  BY <1>1, <1>2, <1>3, <1>4

\* A cycle is one judgement of the promise: what changed gets one message each.
LEMMA CycleJudges ==
  ASSUME Inv, NEW a \in Assessments, Cycle(a)
  PROVE  Stream!Judge
<1>1. /\ open' = OpenAfter(a)
      /\ DOMAIN open' = (DOMAIN open \ Recovered(a)) \cup Confirmed(a)
      /\ Confirmed(a) \subseteq DOMAIN a \ DOMAIN open
      /\ Escalated(a) \subseteq DOMAIN a \cap DOMAIN open
      /\ Recovered(a) \subseteq Clearing(a)
      /\ Clearing(a) \subseteq DOMAIN open \ DOMAIN a
  BY DEF Cycle, OpenAfter, Confirmed, Escalated, Recovered, Clearing
<1>2. /\ DOMAIN open \subseteq Key
      /\ \A k \in DOMAIN open : open[k] \in Open
      /\ DOMAIN a \subseteq Key
      /\ \A k \in DOMAIN a : a[k] \in Severity
      /\ \A k \in DOMAIN pending : pending[k] \in Pending
  BY AssessmentsTyped DEF Inv, WellFormed, TypeOK, IsPartialMap
<1>3. \A k \in Confirmed(a) :
        /\ open'[k].severity = Noted(a, k).severity
        /\ open'[k].severity \in Severity
        /\ a[k] <= open'[k].severity
  <2> SUFFICES ASSUME NEW k \in Confirmed(a)
               PROVE  /\ open'[k].severity = Noted(a, k).severity
                      /\ open'[k].severity \in Severity
                      /\ a[k] <= open'[k].severity
    OBVIOUS
  <2>1. open'[k].severity = Noted(a, k).severity
    BY <1>1 DEF OpenAfter
  <2>2. Noted(a, k).severity \in Severity /\ a[k] <= Noted(a, k).severity
    BY <1>1, <1>2 DEF Noted, Pending, Worse, Severity, Warn, Critical
  <2> QED
    BY <2>1, <2>2
<1>4. \A k \in DOMAIN a \cap DOMAIN open :
        /\ k \in DOMAIN open'
        /\ open'[k].severity = Worse(open[k].severity, a[k])
  BY <1>1 DEF OpenAfter, Reopened
<1>5. \A k \in DOMAIN open \ (DOMAIN a \cup Recovered(a)) :
        k \in DOMAIN open' /\ open'[k].severity = open[k].severity
  BY <1>1, <1>2 DEF OpenAfter, Open
<1> DEFINE new == Incident'
           news == {k \in Key : new[k] # Incident[k]}
           level == [k \in news |-> IF k \in DOMAIN a THEN a[k] ELSE AllClear]
<1>6. \A k \in Key : /\ new[k] = IF k \in DOMAIN open' THEN open'[k].severity ELSE AllClear
                     /\ Incident[k] = IF k \in DOMAIN open THEN open[k].severity ELSE AllClear
  BY DEF Incident
<1>7. new \in [Key -> Level]
  <2>1. \A k \in Key : new[k] \in Level
    BY <1>1, <1>2, <1>3, <1>4, <1>5, <1>6
       DEF Level, Worse, Open, Severity, Warn, Critical
  <2> QED
    BY <2>1 DEF Incident
<1>8. /\ \A k \in Confirmed(a) : k \in news /\ new[k] # AllClear /\ Incident[k] = AllClear
      /\ \A k \in Escalated(a) : k \in news /\ new[k] = a[k] /\ new[k] > Incident[k]
                                 /\ Incident[k] # AllClear
      /\ \A k \in Recovered(a) : k \in news /\ new[k] = AllClear /\ k \notin DOMAIN a
  <2>1. \A k \in Confirmed(a) : k \in news /\ new[k] # AllClear /\ Incident[k] = AllClear
    BY <1>1, <1>2, <1>3, <1>6 DEF Severity, Warn, Critical, AllClear
  <2>2. \A k \in Escalated(a) : k \in news /\ new[k] = a[k] /\ new[k] > Incident[k]
                                /\ Incident[k] # AllClear
    BY <1>1, <1>2, <1>4, <1>6
       DEF Escalated, Worse, Open, Severity, Warn, Critical, AllClear
  <2>3. \A k \in Recovered(a) : k \in news /\ new[k] = AllClear /\ k \notin DOMAIN a
    BY <1>1, <1>2, <1>6 DEF Open, Severity, Warn, Critical, AllClear
  <2> QED
    BY <2>1, <2>2, <2>3
<1>9. \A k \in Key \ (Confirmed(a) \cup Escalated(a) \cup Recovered(a)) : k \notin news
  <2> SUFFICES ASSUME NEW k \in Key \ (Confirmed(a) \cup Escalated(a) \cup Recovered(a))
               PROVE  new[k] = Incident[k]
    OBVIOUS
  <2>1. CASE k \notin DOMAIN open
    BY <1>1, <1>6, <2>1
  <2>2. CASE k \in DOMAIN open \cap DOMAIN a
    BY <1>2, <1>4, <1>6, <2>2 DEF Escalated, Worse, Open, Severity, Warn, Critical
  <2>3. CASE k \in DOMAIN open \ DOMAIN a
    BY <1>5, <1>6, <2>3
  <2> QED
    BY <2>1, <2>2, <2>3
<1>10. news = Confirmed(a) \cup Escalated(a) \cup Recovered(a)
  BY <1>1, <1>2, <1>8, <1>9
<1>11. /\ {k \in news : new[k] # AllClear} = Confirmed(a) \cup Escalated(a)
       /\ {k \in news : new[k] = AllClear} = Recovered(a)
  BY <1>1, <1>2, <1>8, <1>10 DEF Severity, Warn, Critical, AllClear
<1>12. /\ level \in [news -> Level]
       /\ \A k \in news :
             /\ level[k] <= new[k]
             /\ level[k] = AllClear <=> new[k] = AllClear
             /\ Incident[k] # AllClear => level[k] = new[k]
  <2>1. \A k \in news : level[k] \in Level
    BY <1>2 DEF Level, Severity
  <2>2. ASSUME NEW k \in Confirmed(a)
        PROVE  /\ level[k] <= new[k]
               /\ level[k] = AllClear <=> new[k] = AllClear
               /\ Incident[k] # AllClear => level[k] = new[k]
    <3>1. k \in news /\ k \in DOMAIN a /\ level[k] = a[k] /\ a[k] \in Severity
      BY <1>1, <1>2, <1>8, <2>2
    <3>2. new[k] = open'[k].severity
      BY <1>1, <1>2, <1>6, <3>1
    <3> QED
      BY <1>3, <1>8, <2>2, <3>1, <3>2 DEF Severity, Warn, Critical, AllClear
  <2>3. ASSUME NEW k \in Escalated(a)
        PROVE  level[k] = new[k] /\ new[k] \in Severity
    BY <1>1, <1>2, <1>8, <2>3
  <2>4. ASSUME NEW k \in Recovered(a)
        PROVE  level[k] = AllClear /\ new[k] = AllClear
    BY <1>8, <2>4
  <2> HIDE DEF level, new, news
  <2>5. \A k \in news : /\ level[k] <= new[k]
                        /\ level[k] = AllClear <=> new[k] = AllClear
                        /\ Incident[k] # AllClear => level[k] = new[k]
    BY <1>10, <2>2, <2>3, <2>4 DEF Severity, Warn, Critical, AllClear
  <2> QED
    BY <2>1, <2>5 DEF level
<1>13. \A k \in Key : Stream!NewsAllowed(Incident[k], new[k])
  <2> SUFFICES ASSUME NEW k \in Key PROVE Stream!NewsAllowed(Incident[k], new[k])
    OBVIOUS
  <2> HIDE DEF level, new
  <2>1. CASE k \in Confirmed(a)
    BY <1>1, <1>2, <1>3, <1>6, <1>8, <2>1
       DEF Stream!NewsAllowed, Severity, Warn, Critical, AllClear
  <2>2. CASE k \in Escalated(a)
    BY <1>8, <2>2 DEF Stream!NewsAllowed
  <2>3. CASE k \in Recovered(a)
    BY <1>8, <2>3, Vocabulary DEF Stream!NewsAllowed
  <2>4. CASE k \notin news
    BY <2>4 DEF Stream!NewsAllowed
  <2> QED
    BY <1>10, <2>1, <2>2, <2>3, <2>4
<1>14. /\ AlertsOf(a) = {[key |-> k, level |-> level[k]] : k \in {j \in news : new[j] # AllClear}}
       /\ ClearsOf(a) = {[key |-> k, level |-> AllClear] : k \in {j \in news : new[j] = AllClear}}
  <2>1. \A k \in Confirmed(a) \cup Escalated(a) : level[k] = a[k]
    BY <1>1, <1>8
  <2> HIDE DEF level, news, new
  <2> QED
    BY <1>11, <2>1 DEF AlertsOf, ClearsOf
<1>15. \E alerts \in Orderings(AlertsOf(a)), clears \in Orderings(ClearsOf(a)) :
          outbox' = KeepNewest(outbox \o alerts \o clears, MaxOutbox)
  BY DEF Cycle
<1>16. news = Stream!News(new)
  BY Vocabulary DEF Stream!News, Incident
<1>17. \A k \in Key : Stream!NewsAllowed(
            [j \in Key |-> IF j \in DOMAIN open THEN open[j].severity ELSE AllClear][k], new[k])
  BY <1>13 DEF Incident
<1>18. \A k \in news :
          [j \in Key |-> IF j \in DOMAIN open THEN open[j].severity ELSE AllClear][k] # AllClear
             => level[k] = new[k]
  BY <1>12 DEF Incident
<1>19. new = [j \in Key |-> IF j \in DOMAIN open THEN open[j].severity ELSE AllClear]'
  BY DEF Incident
<1> HIDE DEF level, news, new
<1> DEFINE Alert == {[key |-> k, level |-> level[k]] :
                       k \in {j \in Stream!News(new) : new[j] # Stream!AllClear}}
           Clear == {[key |-> k, level |-> Stream!AllClear] :
                       k \in {j \in Stream!News(new) : new[j] = Stream!AllClear}}
<1>20. Alert = AlertsOf(a) /\ Clear = ClearsOf(a)
  BY <1>14, <1>16, Vocabulary
<1> HIDE DEF Alert, Clear
<1>21. \E alerts \in Stream!Orderings(Alert), clears \in Stream!Orderings(Clear) :
          outbox' = Stream!KeepNewest(outbox \o alerts \o clears, MaxOutbox)
  BY <1>15, <1>20, Vocabulary
<1>22. /\ new \in [Stream!Key -> Stream!Level]
       /\ level \in [Stream!News(new) -> Stream!Level]
  BY <1>7, <1>12, <1>16, Vocabulary
<1>23. \A k \in Stream!News(new) :
          /\ level[k] <= new[k]
          /\ level[k] = Stream!AllClear <=> new[k] = Stream!AllClear
          /\ [j \in Key |-> IF j \in DOMAIN open THEN open[j].severity ELSE AllClear][k]
                # Stream!AllClear => level[k] = new[k]
  BY <1>12, <1>16, <1>18, Vocabulary
<1>24. \A k \in Stream!Key : Stream!NewsAllowed(
          [j \in Key |-> IF j \in DOMAIN open THEN open[j].severity ELSE AllClear][k], new[k])
  BY <1>17, Vocabulary
<1> QED
  BY <1>19, <1>21, <1>22, <1>23, <1>24, Zenon DEF Stream!Judge, Alert, Clear

\* Every behaviour of the dispatcher is one the promise allows.
THEOREM PromiseTheorem == Spec => KeepsPromise
<1>1. Init => Stream!Init
  BY Vocabulary DEF Init, Stream!Init, EmptyMap
<1>2. ASSUME Inv, [Next]_vars PROVE [Stream!Next]_(Stream!vars)
  <2>1. ASSUME NEW a \in Assessments, Cycle(a) PROVE Stream!Next
    BY <1>2, <2>1, CycleJudges DEF Stream!Next
  <2>2. CASE SendOk \/ SendRejected
    <3>1. open' = open /\ outbox # <<>> /\ outbox' = Tail(outbox)
      BY <1>2, <2>2 DEF SendOk, SendRejected, PopFront, Inv, WellFormed, OutboxBounded
    <3> QED
      BY <3>1 DEF Stream!Next, Stream!Depart
  <2>3. CASE SendFailed \/ Tick \/ StepBack \/ UNCHANGED vars
    <3>1. open' = open /\ outbox' = outbox
      BY <2>3 DEF SendFailed, Tick, StepBack, vars, program
    <3> QED
      BY <3>1 DEF Stream!vars
  <2>4. CASE Restart
    BY <2>4, Vocabulary DEF Restart, EmptyMap, Stream!Next, Stream!Forget
  <2> QED
    BY <1>2, <2>1, <2>2, <2>3, <2>4 DEF Next
<1>3. Spec => []Inv
  BY InitInv, NextInv, PTL DEF Spec
<1> QED
  BY <1>1, <1>2, <1>3, PTL DEF Spec, KeepsPromise, Stream!Spec

-----------------------------------------------------------------------------
(* Records and their dates *)

ARecord ==
    [event : {"started", "stopped", "watching", "opened", "escalated", "resolved"},
     ts : Nat, key : Key \cup {Log!Nobody}, openedTs : Int]

At(e) == Log!FromUnix(e.ts)

Starts(e) == e.event = "started"
Stops(e) == e.event = "stopped"
Bounds(e) == Starts(e) \/ Stops(e)

\* Dates are cut to the second.
LEMMA DateOf ==
  ASSUME NEW t \in Nat
  PROVE  /\ Log!Unix(t) \in Nat
         /\ Log!FromUnix(Log!Unix(t)) \in Nat
         /\ Log!FromUnix(Log!Unix(t)) <= t
         /\ t < Log!FromUnix(Log!Unix(t)) + Grain
<1>1. Grain \in Nat /\ Grain > 0
  BY TrailAssumption
<1> QED
  BY <1>1 DEF Log!Unix, Log!FromUnix

LEMMA DatesKeepOrder ==
  \A a, b \in Nat : /\ Log!FromUnix(a) \in Nat
                    /\ a <= b <=> Log!FromUnix(a) <= Log!FromUnix(b)
<1>1. Grain \in Nat /\ Grain > 0
  BY TrailAssumption
<1> QED
  BY <1>1 DEF Log!FromUnix

LEMMA RecordAt ==
  ASSUME NEW ev \in Seq(ARecord)
  PROVE  /\ Len(ev) \in Nat /\ DOMAIN ev = 1..Len(ev)
         /\ \A i \in 1..Len(ev) : ev[i].ts \in Nat /\ At(ev[i]) \in Nat
         /\ \A i, j \in 1..Len(ev) : ev[i].ts <= ev[j].ts <=> At(ev[i]) <= At(ev[j])
<1>1. \A i \in 1..Len(ev) : ev[i] \in ARecord
  OBVIOUS
<1>2. \A r \in ARecord : r.ts \in Nat
  BY DEF ARecord
<1>3. \A i \in 1..Len(ev) : ev[i].ts \in Nat
  BY <1>1, <1>2
<1>4. /\ \A i \in 1..Len(ev) : At(ev[i]) \in Nat
      /\ \A i, j \in 1..Len(ev) : ev[i].ts <= ev[j].ts <=> At(ev[i]) <= At(ev[j])
  BY <1>3, DatesKeepOrder, Zenon DEF At
<1> QED
  BY <1>3, <1>4

-----------------------------------------------------------------------------
(* coverage, record by record *)

Span == [from : Int, to : Int, clean : BOOLEAN]
Scan == [spans : Seq(Span), open : Int, last : Int]

NoScan == [spans |-> <<>>, open |-> Log!None, last |-> Log!None]

\* One span more.
OneMore(spans, more, from, to) ==
    /\ Len(more) = Len(spans) + 1
    /\ \A i \in 1..Len(spans) : more[i] = spans[i]
    /\ more[Len(more)].from = from
    /\ more[Len(more)].to = to

LEMMA AppendSpan ==
  ASSUME NEW spans \in Seq(Span), NEW from \in Int, NEW to \in Int, NEW c \in BOOLEAN
  PROVE  /\ Append(spans, [from |-> from, to |-> to, clean |-> c]) \in Seq(Span)
         /\ OneMore(spans, Append(spans, [from |-> from, to |-> to, clean |-> c]), from, to)
<1>1. [from |-> from, to |-> to, clean |-> c] \in Span
  BY DEF Span
<1>2. PICK r : r = [from |-> from, to |-> to, clean |-> c]
  OBVIOUS
<1>3. r \in Span /\ r.from = from /\ r.to = to
  BY <1>1, <1>2
<1>4. /\ Append(spans, r) \in Seq(Span)
      /\ Len(Append(spans, r)) = Len(spans) + 1
      /\ \A i \in 1..Len(spans) : Append(spans, r)[i] = spans[i]
      /\ Append(spans, r)[Len(Append(spans, r))] = r
  BY <1>3
<1> QED
  BY <1>2, <1>3, <1>4 DEF OneMore

\* What `Seen` does, by the kind of record.
LEMMA SeenProperty ==
  ASSUME NEW s \in Scan, NEW e \in ARecord
  PROVE  /\ Log!Seen(s, e) \in Scan
         /\ Log!Seen(s, e).last = At(e)
         /\ Log!Seen(s, e).open = IF Starts(e) THEN At(e) ELSE IF Stops(e) THEN Log!None ELSE s.open
         /\ Bounds(e) /\ s.open # Log!None =>
                OneMore(s.spans, Log!Seen(s, e).spans, s.open, IF Stops(e) THEN At(e) ELSE s.last)
         /\ ~Bounds(e) \/ s.open = Log!None => Log!Seen(s, e).spans = s.spans
<1>1. At(e) \in Int /\ s.spans \in Seq(Span) /\ s.open \in Int /\ s.last \in Int /\ Log!None \in Int
  <2>1. e.ts \in Nat
    BY DEF ARecord
  <2> QED
    BY <2>1, DatesKeepOrder DEF At, Scan, Log!None
<1>2. CASE Starts(e)
  <2>1. PICK more : more = Append(s.spans, [from |-> s.open, to |-> s.last, clean |-> FALSE])
    OBVIOUS
  <2>2. more \in Seq(Span) /\ OneMore(s.spans, more, s.open, s.last)
    BY <1>1, <2>1, AppendSpan
  <2>3. Log!Seen(s, e) = [spans |-> IF s.open = Log!None THEN s.spans ELSE more,
                          open |-> At(e), last |-> At(e)]
    BY <1>2, <2>1 DEF Log!Seen, At, Starts
  <2>4. ~Stops(e)
    BY <1>2 DEF Starts, Stops
  <2> QED
    BY <1>1, <1>2, <2>2, <2>3, <2>4 DEF Bounds, Scan
<1>3. CASE Stops(e)
  <2>1. PICK more : more = Append(s.spans, [from |-> s.open, to |-> At(e), clean |-> TRUE])
    OBVIOUS
  <2>2. more \in Seq(Span) /\ OneMore(s.spans, more, s.open, At(e))
    BY <1>1, <2>1, AppendSpan
  <2>3. Log!Seen(s, e) = [spans |-> IF s.open = Log!None THEN s.spans ELSE more,
                          open |-> Log!None, last |-> At(e)]
    BY <1>3, <2>1 DEF Log!Seen, At, Stops
  <2>4. ~Starts(e)
    BY <1>3 DEF Starts, Stops
  <2> QED
    BY <1>1, <1>3, <2>2, <2>3, <2>4 DEF Bounds, Scan
<1>4. CASE ~Bounds(e)
  <2>1. Log!Seen(s, e) = [s EXCEPT !.last = At(e)]
    BY <1>4 DEF Log!Seen, At, Stops, Starts, Bounds
  <2> QED
    BY <1>1, <1>4, <2>1 DEF Bounds, Scan
<1> QED
  BY <1>2, <1>3, <1>4 DEF Bounds

\* What coverage has come to after each record.
IsTrace(f, ev) ==
    /\ f \in [0..Len(ev) -> Scan]
    /\ f[0] = NoScan
    /\ \A n \in 1..Len(ev) : f[n] = Log!Seen(f[n - 1], ev[n])

SeenStep(ev) == [i \in DOMAIN ev |-> [s \in Scan |-> Log!Seen(s, ev[i])]]

LEMMA CoverageIsTrace ==
  ASSUME NEW ev \in Seq(ARecord)
  PROVE  \E f : IsTrace(f, ev) /\ Log!FoldLeft(Log!Seen, NoScan, ev) = f[Len(ev)]
<1> DEFINE c == Len(ev)
           D == 1..c
           Eq(g) == g = [s \in SUBSET DOMAIN ev |->
                IF s = {} THEN NoScan ELSE Log!Seen(g[s \ {Max(s)}], ev[Max(s)])]
<1>1. Log!FoldLeft(Log!Seen, NoScan, ev) = (CHOOSE g : Eq(g))[DOMAIN ev]
  BY Zenon DEF Log!FoldLeft, Log!MapThenFoldSet, Log!Max, Max
<1>2. DOMAIN ev = D /\ IsFiniteSet(D) /\ c \in Nat /\ \A i \in D : ev[i] \in ARecord
  BY FS_Interval
<1>3. NoScan \in Scan
  BY DEF NoScan, Scan, Log!None
<1>4. PICK step : step = SeenStep(ev)
  OBVIOUS
<1>5. \A i \in D, s \in Scan : step[i][s] \in Scan /\ step[i][s] = Log!Seen(s, ev[i])
  BY <1>2, <1>4, SeenProperty DEF SeenStep
<1>6. PICK pick : pick = Greatest(c)
  OBVIOUS
<1>7. IsPick(pick, D) /\ \A s \in SUBSET D : pick[s] = Max(s)
  BY <1>2, <1>6, GreatestIsPick
<1> HIDE DEF D
<1>8. \A g \in [SUBSET D -> Scan] : IsFold(g, D, NoScan, step, pick) <=> Eq(g)
  <2>1. SUFFICES ASSUME NEW g \in [SUBSET D -> Scan]
                 PROVE  IsFold(g, D, NoScan, step, pick) <=> Eq(g)
    OBVIOUS
  <2>2. ASSUME NEW s \in SUBSET D, s # {}
        PROVE  step[pick[s]][g[s \ {pick[s]}]] = Log!Seen(g[s \ {Max(s)}], ev[Max(s)])
    <3>1. pick[s] = Max(s) /\ Max(s) \in D
      BY <1>7, <2>2 DEF IsPick
    <3>2. g[s \ {Max(s)}] \in Scan
      OBVIOUS
    <3> QED
      BY <1>5, <3>1, <3>2
  <2>3. IsFold(g, D, NoScan, step, pick)
          <=> \A s \in SUBSET D :
                g[s] = IF s = {} THEN NoScan ELSE Log!Seen(g[s \ {Max(s)}], ev[Max(s)])
    BY <2>2, Zenon DEF IsFold
  <2>4. Eq(g) <=> g = [s \in SUBSET D |->
                IF s = {} THEN NoScan ELSE Log!Seen(g[s \ {Max(s)}], ev[Max(s)])]
    BY <1>2, Zenon
  <2> HIDE DEF Eq
  <2> QED
    BY <2>3, <2>4
<1>9. \E g \in [SUBSET D -> Scan] : IsFold(g, D, NoScan, step, pick)
  BY <1>2, <1>3, <1>5, <1>7, FoldExists
<1>10. ASSUME NEW g, Eq(g) PROVE g \in [SUBSET D -> Scan]
  <2>1. ASSUME NEW s \in SUBSET D
        PROVE  g[s] = IF s = {} THEN NoScan ELSE Log!Seen(g[s \ {Max(s)}], ev[Max(s)])
    BY <1>2, <1>10, Zenon
  <2>2. \A s \in SUBSET D : g[s] \in Scan
    <3> DEFINE Bad == {s \in SUBSET D : g[s] \notin Scan}
    <3> SUFFICES ASSUME Bad # {} PROVE FALSE
      OBVIOUS
    <3>1. PICK t \in Bad : \A u \in Bad : u \subseteq t => u = t
      <4>1. Bad \subseteq SUBSET D
        OBVIOUS
      <4> HIDE DEF Bad
      <4> QED
        BY <1>2, <4>1, LeastSubset
    <3>2. CASE t = {}
      <4>1. g[t] = NoScan
        BY <2>1, <3>2
      <4> QED
        BY <1>3, <3>1, <4>1
    <3>3. CASE t # {}
      <4>1. Max(t) \in t
        BY <1>7, <3>3 DEF IsPick
      <4>2. g[t \ {Max(t)}] \in Scan
        BY <3>1, <4>1
      <4>3. g[t] = Log!Seen(g[t \ {Max(t)}], ev[Max(t)])
        BY <2>1, <3>3
      <4>4. ev[Max(t)] \in ARecord
        BY <1>2, <4>1
      <4> QED
        BY <3>1, <4>2, <4>3, <4>4, SeenProperty
    <3> QED
      BY <3>2, <3>3
  <2>3. g = [s \in SUBSET D |-> g[s]]
    BY <1>2, <1>10, Zenon
  <2> HIDE DEF Eq
  <2> QED
    BY <2>2, <2>3
<1>11. Eq(CHOOSE g : Eq(g))
  BY <1>8, <1>9, Zenon
<1>12. PICK g : g = CHOOSE h : Eq(h)
  OBVIOUS
<1>13. g \in [SUBSET D -> Scan] /\ IsFold(g, D, NoScan, step, pick)
  <2> HIDE DEF Eq
  <2> QED
    BY <1>8, <1>10, <1>11, <1>12
<1>14. Log!FoldLeft(Log!Seen, NoScan, ev) = g[D]
  BY <1>1, <1>2, <1>12, Zenon
<1>15. /\ g[{}] = NoScan
       /\ \A m \in 1..c : g[1..m] = step[m][g[1..(m - 1)]]
  <2>1. FromLeft(g, c, NoScan, step)
    BY <1>6, <1>13, Zenon DEF FromLeft, D
  <2> HIDE DEF c
  <2> QED
    BY <1>2, <2>1, FoldByStep
<1>16. PICK f : f = [n \in 0..c |-> g[1..n]]
  OBVIOUS
<1>17. \A n \in 0..c : 1..n \in SUBSET D
  BY <1>2 DEF D
<1>18. f \in [0..c -> Scan]
  BY <1>13, <1>16, <1>17
<1>19. f[0] = NoScan
  <2>1. 1..0 = {} /\ 0 \in 0..c
    BY <1>2
  <2> QED
    BY <1>15, <1>16, <2>1
<1>20. ASSUME NEW n \in 1..c PROVE f[n] = Log!Seen(f[n - 1], ev[n])
  <2>1. n \in 0..c /\ n - 1 \in 0..c /\ n \in D
    BY <1>2 DEF D
  <2>2. f[n] = g[1..n] /\ f[n - 1] = g[1..(n - 1)] /\ f[n - 1] \in Scan
    BY <1>16, <1>18, <2>1
  <2>3. step[n][f[n - 1]] = Log!Seen(f[n - 1], ev[n])
    BY <1>5, <2>1, <2>2
  <2> QED
    BY <1>15, <2>2, <2>3
<1>21. f[c] = g[D]
  BY <1>2, <1>16 DEF D
<1> QED
  BY <1>14, <1>18, <1>19, <1>20, <1>21 DEF IsTrace

\* A run that begins with record b ends with record e; it has not ended by record n.
Run(ev, b, e) ==
    b < e /\ Starts(ev[b]) /\ Bounds(ev[e]) /\ \A m \in (b + 1)..(e - 1) : ~Bounds(ev[m])
Unended(ev, b, n) ==
    Starts(ev[b]) /\ \A m \in (b + 1)..n : ~Bounds(ev[m])

\* What a run that ends with record e is claimed to have lasted to.
EndsAt(ev, e) == IF Stops(ev[e]) THEN At(ev[e]) ELSE At(ev[e - 1])

IsSpanOf(ev, b, e, span) == Run(ev, b, e) /\ span.from = At(ev[b]) /\ span.to = EndsAt(ev, e)

Scanned(ev, n, s) ==
    /\ n > 0 => s.last = At(ev[n])
    /\ s.open = Log!None => \A b \in 1..n : ~Unended(ev, b, n)
    /\ s.open # Log!None => \E b \in 1..n : Unended(ev, b, n) /\ s.open = At(ev[b])
    /\ \A i \in 1..Len(s.spans) : \E b, e \in 1..n : IsSpanOf(ev, b, e, s.spans[i])
    /\ \A b, e \in 1..n : Run(ev, b, e) => \E i \in 1..Len(s.spans) : IsSpanOf(ev, b, e, s.spans[i])

LEMMA ScannedStep ==
  ASSUME NEW ev \in Seq(ARecord), NEW n \in 1..Len(ev), NEW p, p = n - 1,
         NEW s \in Scan, Scanned(ev, p, s)
  PROVE  Scanned(ev, n, Log!Seen(s, ev[n]))
<1> DEFINE e == ev[n]
           t == Log!Seen(s, e)
<1>1. /\ n \in Nat /\ p \in Nat /\ e \in ARecord /\ Len(ev) \in Nat
      /\ \A i \in 1..Len(ev) : At(ev[i]) \in Nat
      /\ At(e) # Log!None
  BY RecordAt DEF Log!None
<1>2. /\ t \in Scan /\ t.last = At(e)
      /\ t.open = IF Starts(e) THEN At(e) ELSE IF Stops(e) THEN Log!None ELSE s.open
      /\ Bounds(e) /\ s.open # Log!None =>
                OneMore(s.spans, t.spans, s.open, IF Stops(e) THEN At(e) ELSE s.last)
      /\ ~Bounds(e) \/ s.open = Log!None => t.spans = s.spans
  BY <1>1, SeenProperty
<1>3. PICK more : more = t
  OBVIOUS
<1>4. /\ s.spans \in Seq(Span) /\ Len(s.spans) \in Nat
      /\ more.spans \in Seq(Span) /\ Len(more.spans) \in Nat
  BY <1>2, <1>3 DEF Scan
<1> HIDE DEF t
<1>5. ASSUME NEW b \in 1..p PROVE Unended(ev, b, n) <=> Unended(ev, b, p) /\ ~Bounds(e)
  <2>1. \A m : m \in (b + 1)..n <=> m \in (b + 1)..p \/ m = n
    BY <1>1
  <2> QED
    BY <2>1 DEF Unended
<1>6. Unended(ev, n, n) <=> Starts(e)
  BY <1>1 DEF Unended
<1>7. ASSUME NEW b \in 1..p PROVE Run(ev, b, n) <=> Unended(ev, b, p) /\ Bounds(e)
  BY <1>1 DEF Run, Unended
<1>8. \A i : i \in 1..n <=> i \in 1..p \/ i = n
  BY <1>1
<1>9. ASSUME NEW b \in 1..p, NEW c \in 1..p, Unended(ev, b, p), Unended(ev, c, p)
      PROVE  b = c
  <2>1. ~(b < c)
    <3> SUFFICES ASSUME b < c PROVE FALSE
      OBVIOUS
    <3>1. c \in (b + 1)..p
      BY <1>1
    <3> QED
      BY <1>9, <3>1 DEF Unended, Bounds
  <2>2. ~(c < b)
    <3> SUFFICES ASSUME c < b PROVE FALSE
      OBVIOUS
    <3>1. b \in (c + 1)..p
      BY <1>1
    <3> QED
      BY <1>9, <3>1 DEF Unended, Bounds
  <2> QED
    BY <1>1, <2>1, <2>2
<1>10. ~(Starts(e) /\ Stops(e)) /\ (Bounds(e) <=> Starts(e) \/ Stops(e))
  BY DEF Starts, Stops, Bounds
<1> HIDE DEF e
<1>11. /\ more.open = Log!None => \A b \in 1..n : ~Unended(ev, b, n)
       /\ more.open # Log!None => \E b \in 1..n : Unended(ev, b, n) /\ more.open = At(ev[b])
  <2>1. CASE Starts(e)
    <3>1. more.open = At(e) /\ Unended(ev, n, n) /\ n \in 1..n
      BY <1>1, <1>2, <1>3, <1>6, <2>1
    <3> QED
      BY <1>1, <3>1 DEF e
  <2>2. CASE Stops(e)
    <3>1. more.open = Log!None /\ \A b \in 1..n : ~Unended(ev, b, n)
      BY <1>2, <1>3, <1>5, <1>6, <1>8, <1>10, <2>2
    <3> QED
      BY <3>1
  <2>3. CASE ~Bounds(e)
    <3>1. more.open = s.open /\ \A b \in 1..n : Unended(ev, b, n) <=> b # n /\ Unended(ev, b, p)
      <4>1. n \notin 1..p
        BY <1>1
      <4> QED
        BY <1>2, <1>3, <1>5, <1>6, <1>8, <1>10, <2>3, <4>1
    <3>2. \A b \in 1..p : b \in 1..n /\ b # n
      BY <1>1
    <3> QED
      BY <1>8, <3>1, <3>2 DEF Scanned
  <2> QED
    BY <1>10, <2>1, <2>2, <2>3
<1>12. CASE Bounds(e) /\ s.open # Log!None
  <2> DEFINE to == IF Stops(e) THEN At(e) ELSE s.last
  <2>1. PICK b \in 1..p : Unended(ev, b, p) /\ s.open = At(ev[b])
    BY <1>12 DEF Scanned
  <2>2. OneMore(s.spans, more.spans, s.open, to)
    BY <1>2, <1>3, <1>12
  <2>3. /\ Len(more.spans) = Len(s.spans) + 1
        /\ \A i \in 1..Len(s.spans) : more.spans[i] = s.spans[i]
        /\ more.spans[Len(more.spans)].from = s.open
        /\ more.spans[Len(more.spans)].to = to
    BY <2>2 DEF OneMore
  <2>4. to = EndsAt(ev, n)
    <3>1. s.last = At(ev[p])
      BY <1>1, <2>1 DEF Scanned
    <3> QED
      BY <1>1, <3>1 DEF EndsAt, e
  <2>5. IsSpanOf(ev, b, n, more.spans[Len(more.spans)])
    BY <1>7, <1>12, <2>1, <2>3, <2>4 DEF IsSpanOf
  <2>6. \A i \in 1..Len(more.spans) : i \in 1..Len(s.spans) \/ i = Len(more.spans)
    BY <1>4, <2>3
  <2>7. /\ \A i \in 1..Len(s.spans) : i \in 1..Len(more.spans)
        /\ Len(more.spans) \in 1..Len(more.spans)
    BY <1>4, <2>3
  <2>8. ASSUME NEW i \in 1..Len(more.spans)
        PROVE  \E c, d \in 1..n : IsSpanOf(ev, c, d, more.spans[i])
    <3>1. CASE i = Len(more.spans)
      BY <1>1, <1>8, <2>1, <2>5, <3>1
    <3>2. CASE i \in 1..Len(s.spans)
      <4>1. PICK c, d \in 1..p : IsSpanOf(ev, c, d, s.spans[i])
        BY <3>2 DEF Scanned
      <4> QED
        BY <1>8, <2>3, <3>2, <4>1
    <3> QED
      BY <2>6, <3>1, <3>2
  <2>9. ASSUME NEW c \in 1..n, NEW d \in 1..n, Run(ev, c, d)
        PROVE  \E i \in 1..Len(more.spans) : IsSpanOf(ev, c, d, more.spans[i])
    <3>1. c \in 1..p
      BY <1>1, <2>9 DEF Run
    <3>2. CASE d = n
      <4>1. c = b
        BY <1>7, <1>9, <2>1, <2>9, <3>1, <3>2
      <4> QED
        BY <2>5, <2>7, <3>2, <4>1
    <3>3. CASE d \in 1..p
      <4>1. PICK i \in 1..Len(s.spans) : IsSpanOf(ev, c, d, s.spans[i])
        BY <2>9, <3>1, <3>3 DEF Scanned
      <4> QED
        BY <2>3, <2>7, <4>1
    <3> QED
      BY <1>8, <3>2, <3>3
  <2> QED
    BY <1>2, <1>3, <1>11, <2>8, <2>9 DEF Scanned, e, t
<1>13. CASE ~Bounds(e) \/ s.open = Log!None
  <2>1. more.spans = s.spans
    BY <1>2, <1>3, <1>13
  <2>2. ASSUME NEW i \in 1..Len(more.spans)
        PROVE  \E c, d \in 1..n : IsSpanOf(ev, c, d, more.spans[i])
    BY <1>8, <2>1 DEF Scanned
  <2>3. ASSUME NEW c \in 1..n, NEW d \in 1..n, Run(ev, c, d)
        PROVE  \E i \in 1..Len(more.spans) : IsSpanOf(ev, c, d, more.spans[i])
    <3>1. c \in 1..p
      BY <1>1, <2>3 DEF Run
    <3>2. d # n
      BY <1>7, <1>13, <2>3, <3>1 DEF Scanned
    <3>3. d \in 1..p
      BY <1>8, <3>2
    <3> QED
      BY <2>1, <2>3, <3>1, <3>3 DEF Scanned
  <2> QED
    BY <1>2, <1>3, <1>11, <2>2, <2>3 DEF Scanned, e, t
<1> QED
  BY <1>12, <1>13 DEF e, t

\* Records come by date.
Sorted(ev) == \A i, j \in 1..Len(ev) : i <= j => ev[i].ts <= ev[j].ts

\* Spans follow one another, and lie behind what has been seen.
InLine(s) ==
    /\ \A i \in 1..Len(s.spans) :
        /\ 0 <= s.spans[i].from /\ s.spans[i].from <= s.spans[i].to
        /\ s.spans[i].to <= s.last
        /\ s.open # Log!None => s.spans[i].to <= s.open
    /\ \A i, j \in 1..Len(s.spans) : i < j => s.spans[i].to <= s.spans[j].from
    /\ s.open # Log!None => 0 <= s.open /\ s.open <= s.last

LEMMA InLineStep ==
  ASSUME NEW s \in Scan, InLine(s), NEW e \in ARecord, s.last <= At(e)
  PROVE  InLine(Log!Seen(s, e))
<1> DEFINE t == Log!Seen(s, e)
<1>1. /\ t \in Scan /\ t.last = At(e)
      /\ t.open = IF Starts(e) THEN At(e) ELSE IF Stops(e) THEN Log!None ELSE s.open
      /\ Bounds(e) /\ s.open # Log!None =>
                OneMore(s.spans, t.spans, s.open, IF Stops(e) THEN At(e) ELSE s.last)
      /\ ~Bounds(e) \/ s.open = Log!None => t.spans = s.spans
  BY SeenProperty
<1>2. PICK more : more = t
  OBVIOUS
<1>3. /\ s.spans \in Seq(Span) /\ Len(s.spans) \in Nat /\ s.last \in Int /\ s.open \in Int
      /\ more.spans \in Seq(Span) /\ Len(more.spans) \in Nat
  BY <1>1, <1>2 DEF Scan
<1>4. /\ \A i \in 1..Len(s.spans) : s.spans[i].from \in Int /\ s.spans[i].to \in Int
      /\ At(e) \in Nat
  <2>1. \A i \in 1..Len(s.spans) : s.spans[i] \in Span
    BY <1>3
  <2>2. e.ts \in Nat
    BY DEF ARecord
  <2> QED
    BY <2>1, <2>2, DatesKeepOrder DEF Span, At
<1>5. ~(Starts(e) /\ Stops(e)) /\ (Bounds(e) <=> Starts(e) \/ Stops(e))
  BY DEF Starts, Stops, Bounds
<1> HIDE DEF t
<1>6. more.open # Log!None => 0 <= more.open /\ more.open <= more.last
  BY <1>1, <1>2, <1>3, <1>4, <1>5 DEF InLine
<1>7. CASE ~Bounds(e) \/ s.open = Log!None
  <2>1. more.spans = s.spans
    BY <1>1, <1>2, <1>7
  <2>2. more.last = At(e) /\ (more.open = At(e) \/ more.open = s.open \/ more.open = Log!None)
    BY <1>1, <1>2
  <2>3. \A i \in 1..Len(s.spans) : s.spans[i].to <= At(e)
    BY <1>3, <1>4 DEF InLine
  <2>4. more.open # Log!None => more.open = At(e) \/ more.open = s.open
    BY <2>2
  <2> QED
    BY <1>2, <1>6, <2>1, <2>2, <2>3, <2>4 DEF InLine, t
<1>8. CASE Bounds(e) /\ s.open # Log!None
  <2> DEFINE to == IF Stops(e) THEN At(e) ELSE s.last
  <2>1. OneMore(s.spans, more.spans, s.open, to)
    BY <1>1, <1>2, <1>8
  <2>2. /\ Len(more.spans) = Len(s.spans) + 1
        /\ \A i \in 1..Len(s.spans) : more.spans[i] = s.spans[i]
        /\ more.spans[Len(more.spans)].from = s.open
        /\ more.spans[Len(more.spans)].to = to
    BY <2>1 DEF OneMore
  <2>3. /\ 0 <= s.open /\ s.open <= to /\ to <= At(e)
        /\ more.last = At(e) /\ (more.open # Log!None => more.open = At(e))
    BY <1>1, <1>2, <1>3, <1>4, <1>5, <1>8 DEF InLine
  <2>4. to \in Int /\ more.last \in Int
    BY <1>3, <1>4, <2>3
  <2> HIDE DEF to
  <2>5. \A i \in 1..Len(more.spans) : i \in 1..Len(s.spans) \/ i = Len(more.spans)
    BY <1>3, <2>2
  <2>6. \A i \in 1..Len(s.spans) :
            /\ 0 <= s.spans[i].from /\ s.spans[i].from <= s.spans[i].to
            /\ s.spans[i].to <= s.open
    BY <1>8 DEF InLine
  <2>7. \A i \in 1..Len(s.spans) : s.spans[i].to <= At(e)
    BY <1>3, <1>4, <2>3, <2>4, <2>6
  <2>8. \A i \in 1..Len(more.spans) :
            /\ 0 <= more.spans[i].from /\ more.spans[i].from <= more.spans[i].to
            /\ more.spans[i].to <= At(e)
    BY <2>2, <2>3, <2>5, <2>6, <2>7
  <2>9. ASSUME NEW i \in 1..Len(more.spans), NEW j \in 1..Len(more.spans), i < j
        PROVE  more.spans[i].to <= more.spans[j].from
    <3>1. i \in 1..Len(s.spans)
      BY <1>3, <2>2, <2>9
    <3>2. CASE j = Len(more.spans)
      BY <2>2, <2>6, <3>1, <3>2
    <3>3. CASE j \in 1..Len(s.spans)
      <4>1. s.spans[i].to <= s.spans[j].from
        BY <2>9, <3>1, <3>3 DEF InLine
      <4> QED
        BY <2>2, <3>1, <3>3, <4>1
    <3> QED
      BY <2>5, <3>2, <3>3
  <2> QED
    BY <1>2, <1>6, <2>3, <2>8, <2>9 DEF InLine, t
<1> QED
  BY <1>7, <1>8

LEMMA TraceProperty ==
  ASSUME NEW ev \in Seq(ARecord), NEW f, IsTrace(f, ev)
  PROVE  /\ f[Len(ev)] \in Scan
         /\ Scanned(ev, Len(ev), f[Len(ev)])
         /\ Sorted(ev) => InLine(f[Len(ev)])
<1> DEFINE c == Len(ev)
           Holds(n) == Scanned(ev, n, f[n]) /\ (Sorted(ev) => InLine(f[n]))
           Bad == {n \in 0..c : ~Holds(n)}
<1>1. c \in Nat /\ c \in 0..c /\ \A n \in 0..c : f[n] \in Scan
  BY RecordAt DEF IsTrace
<1>2. \A n \in 0..c : Holds(n)
  <2> SUFFICES ASSUME Bad # {} PROVE FALSE
    OBVIOUS
  <2>1. PICK n \in Bad : \A u \in Bad : n <= u
    <3>1. Bad \subseteq Nat
      OBVIOUS
    <3> HIDE DEF Bad
    <3> QED
      BY <3>1, FirstExists
  <2>2. n \in 0..c /\ n \in Nat /\ ~Holds(n)
    OBVIOUS
  <2>3. CASE n = 0
    <3>1. f[0] = NoScan
      BY DEF IsTrace
    <3>2. Len(f[0].spans) = 0 /\ f[0].open = Log!None /\ 1..0 = {}
      BY <3>1 DEF NoScan
    <3>3. Scanned(ev, 0, f[0]) /\ InLine(f[0])
      BY <3>2 DEF Scanned, InLine
    <3> QED
      BY <2>2, <2>3, <3>3
  <2>4. CASE n # 0
    <3>1. PICK p : p = n - 1
      OBVIOUS
    <3>2. n \in 1..c /\ p \in 0..c /\ p < n /\ p \in Nat
      BY <1>1, <2>2, <2>4, <3>1
    <3>3. Holds(p)
      <4>1. p \notin Bad
        BY <2>1, <2>2, <3>2
      <4> HIDE DEF Holds
      <4> QED
        BY <3>2, <4>1
    <3>4. f[n] = Log!Seen(f[p], ev[n]) /\ f[p] \in Scan /\ ev[n] \in ARecord
      BY <1>1, <3>1, <3>2 DEF IsTrace
    <3>5. Scanned(ev, n, f[n])
      BY <3>1, <3>2, <3>3, <3>4, ScannedStep
    <3>6. ASSUME Sorted(ev) PROVE InLine(f[n])
      <4>1. f[p].last <= At(ev[n])
        <5>1. CASE p = 0
          <6>1. f[p].last = -1
            BY <5>1 DEF IsTrace, NoScan, Log!None
          <6>2. At(ev[n]) \in Nat
            BY <3>2, RecordAt
          <6> QED
            BY <6>1, <6>2
        <5>2. CASE p # 0
          <6>1. f[p].last = At(ev[p]) /\ p \in 1..c /\ p <= n
            BY <3>2, <3>3, <5>2 DEF Scanned
          <6>2. ev[p].ts <= ev[n].ts
            BY <3>2, <3>6, <6>1 DEF Sorted
          <6> QED
            BY <3>2, <6>1, <6>2, RecordAt
        <5> QED
          BY <5>1, <5>2
      <4> QED
        BY <3>3, <3>4, <3>6, <4>1, InLineStep
    <3> QED
      BY <2>2, <3>5, <3>6
  <2> QED
    BY <2>3, <2>4
<1> QED
  BY <1>1, <1>2

-----------------------------------------------------------------------------
(* What is claimed *)

\* What the run that begins with record b, and has not ended, is claimed to have
\* lasted to.
LastsTo(ev, b, until) ==
    IF until - At(ev[Len(ev)]) <= Interval
    THEN IF until >= At(ev[b]) THEN until ELSE At(ev[b])
    ELSE At(ev[Len(ev)])

IsLastRun(ev, b, span, until) ==
    Unended(ev, b, Len(ev)) /\ span.from = At(ev[b]) /\ span.to = LastsTo(ev, b, until)

\* The spans of a report are those of the runs, in order.
Covers(spans, ev, until) ==
    /\ spans \in Seq(Span)
    /\ \A i \in 1..Len(spans) : 0 <= spans[i].from /\ spans[i].from <= spans[i].to
    /\ \A i, j \in 1..Len(spans) : i < j => spans[i].to <= spans[j].from
    /\ \A i \in 1..Len(spans) :
        \/ \E b, e \in 1..Len(ev) : IsSpanOf(ev, b, e, spans[i])
        \/ \E b \in 1..Len(ev) : IsLastRun(ev, b, spans[i], until)
    /\ \A b, e \in 1..Len(ev) : Run(ev, b, e) => \E i \in 1..Len(spans) : IsSpanOf(ev, b, e, spans[i])
    /\ \A b \in 1..Len(ev) : Unended(ev, b, Len(ev)) =>
            \E i \in 1..Len(spans) : IsLastRun(ev, b, spans[i], until)

LEMMA CoverageProperty ==
  ASSUME NEW ev \in Seq(ARecord), Sorted(ev), NEW until \in Nat
  PROVE  Covers(Log!Coverage(ev, until), ev, until)
<1> DEFINE n == Len(ev)
<1>1. PICK f : IsTrace(f, ev) /\ Log!FoldLeft(Log!Seen, NoScan, ev) = f[n]
  BY CoverageIsTrace
<1>2. PICK s : s = f[n]
  OBVIOUS
<1>3. s \in Scan /\ Scanned(ev, n, s) /\ InLine(s)
  BY <1>1, <1>2, TraceProperty
<1>4. /\ s.spans \in Seq(Span) /\ Len(s.spans) \in Nat /\ s.open \in Int /\ s.last \in Int
      /\ n \in Nat /\ \A i \in 1..n : At(ev[i]) \in Nat
  BY <1>3, RecordAt DEF Scan
<1>5. Log!Coverage(ev, until) =
        IF s.open = Log!None THEN s.spans ELSE Append(s.spans, Log!LastRun(s.open, s.last, until))
  BY <1>1, <1>2, Zenon DEF Log!Coverage, NoScan
<1>6. \A i \in 1..Len(s.spans) : s.spans[i].from \in Int /\ s.spans[i].to \in Int
  <2>1. \A i \in 1..Len(s.spans) : s.spans[i] \in Span
    BY <1>4
  <2> QED
    BY <2>1 DEF Span
<1>7. CASE s.open = Log!None
  <2>1. \A b \in 1..n : ~Unended(ev, b, n)
    BY <1>3, <1>7 DEF Scanned
  <2>2. Covers(s.spans, ev, until)
    BY <1>3, <1>4, <2>1 DEF Covers, InLine, Scanned
  <2> QED
    BY <1>5, <1>7, <2>2
<1>8. CASE s.open # Log!None
  <2>1. PICK b \in 1..n : Unended(ev, b, n) /\ s.open = At(ev[b])
    BY <1>3, <1>8 DEF Scanned
  <2>2. s.last = At(ev[n]) /\ n # 0 /\ 0 <= s.open /\ s.open <= s.last
    BY <1>3, <1>4, <1>8, <2>1 DEF Scanned, InLine
  <2>3. PICK to : to = LastsTo(ev, b, until)
    OBVIOUS
  <2>4. to \in Int /\ s.open <= to
    BY <1>4, <2>1, <2>2, <2>3 DEF LastsTo
  <2>5. PICK c \in BOOLEAN : Log!LastRun(s.open, s.last, until) = [from |-> s.open, to |-> to, clean |-> c]
    <3>1. Log!Later(s.last, s.open) = s.last
      BY <1>4, <2>2 DEF Log!Later
    <3>2. CASE until - s.last <= Interval
      <4>1. to = Log!Later(until, s.open)
        BY <2>1, <2>2, <2>3, <3>2 DEF LastsTo, Log!Later
      <4>2. Log!LastRun(s.open, s.last, until) = [from |-> s.open, to |-> to, clean |-> TRUE]
        BY <3>1, <3>2, <4>1, Zenon DEF Log!LastRun
      <4> QED
        BY <4>2
    <3>3. CASE ~(until - s.last <= Interval)
      <4>1. to = s.last
        BY <2>2, <2>3, <3>3 DEF LastsTo
      <4>2. Log!LastRun(s.open, s.last, until) = [from |-> s.open, to |-> to, clean |-> FALSE]
        BY <3>1, <3>3, <4>1, Zenon DEF Log!LastRun
      <4> QED
        BY <4>2
    <3> QED
      BY <3>2, <3>3
  <2>6. PICK more : more = Log!Coverage(ev, until)
    OBVIOUS
  <2>7. more \in Seq(Span) /\ OneMore(s.spans, more, s.open, to)
    BY <1>4, <1>5, <1>8, <2>4, <2>5, <2>6, AppendSpan
  <2>8. /\ Len(more) = Len(s.spans) + 1
        /\ \A i \in 1..Len(s.spans) : more[i] = s.spans[i] /\ i \in 1..Len(more)
        /\ more[Len(more)].from = s.open
        /\ more[Len(more)].to = to
        /\ Len(more) \in 1..Len(more)
        /\ \A i \in 1..Len(more) : i \in 1..Len(s.spans) \/ i = Len(more)
    <3>1. /\ Len(more) = Len(s.spans) + 1 /\ \A i \in 1..Len(s.spans) : more[i] = s.spans[i]
          /\ more[Len(more)].from = s.open /\ more[Len(more)].to = to
      BY <2>7 DEF OneMore
    <3>2. PICK m \in Nat : m = Len(s.spans) /\ Len(more) = m + 1
      BY <1>4, <3>1
    <3>3. /\ \A i \in 1..m : i \in 1..(m + 1)
          /\ m + 1 \in 1..(m + 1)
          /\ \A i \in 1..(m + 1) : i \in 1..m \/ i = m + 1
      OBVIOUS
    <3> QED
      BY <3>1, <3>2, <3>3
  <2>9. /\ IsLastRun(ev, b, more[Len(more)], until)
    BY <2>1, <2>3, <2>8 DEF IsLastRun
  <2>10. \A i \in 1..Len(s.spans) :
            0 <= s.spans[i].from /\ s.spans[i].from <= s.spans[i].to /\ s.spans[i].to <= s.open
    BY <1>3, <1>8 DEF InLine
  <2>11. \A i \in 1..Len(more) : 0 <= more[i].from /\ more[i].from <= more[i].to
    BY <2>2, <2>4, <2>8, <2>10
  <2>12. ASSUME NEW i \in 1..Len(more), NEW j \in 1..Len(more), i < j
         PROVE  more[i].to <= more[j].from
    <3>1. i \in 1..Len(s.spans)
      BY <1>4, <2>8, <2>12
    <3>2. CASE j = Len(more)
      BY <2>8, <2>10, <3>1, <3>2
    <3>3. CASE j \in 1..Len(s.spans)
      <4>1. s.spans[i].to <= s.spans[j].from
        BY <1>3, <2>12, <3>1, <3>3 DEF InLine
      <4> QED
        BY <2>8, <3>1, <3>3, <4>1
    <3> QED
      BY <2>8, <3>2, <3>3
  <2>13. ASSUME NEW i \in 1..Len(more)
         PROVE  \/ \E d, e \in 1..n : IsSpanOf(ev, d, e, more[i])
                \/ \E d \in 1..n : IsLastRun(ev, d, more[i], until)
    <3>1. CASE i = Len(more)
      BY <2>1, <2>9, <3>1
    <3>2. CASE i \in 1..Len(s.spans)
      <4>1. \E d, e \in 1..n : IsSpanOf(ev, d, e, s.spans[i])
        BY <1>3, <3>2 DEF Scanned
      <4> QED
        BY <2>8, <3>2, <4>1
    <3> QED
      BY <2>8, <3>1, <3>2
  <2>14. ASSUME NEW d \in 1..n, NEW e \in 1..n, Run(ev, d, e)
         PROVE  \E i \in 1..Len(more) : IsSpanOf(ev, d, e, more[i])
    <3>1. \E i \in 1..Len(s.spans) : IsSpanOf(ev, d, e, s.spans[i])
      BY <1>3, <2>14 DEF Scanned
    <3> QED
      BY <2>8, <3>1
  <2>15. ASSUME NEW d \in 1..n, Unended(ev, d, n)
         PROVE  \E i \in 1..Len(more) : IsLastRun(ev, d, more[i], until)
    <3>1. d = b
      <4>1. ~(d < b)
        <5> SUFFICES ASSUME d < b PROVE FALSE
          OBVIOUS
        <5>1. b \in (d + 1)..n
          BY <1>4
        <5> QED
          BY <2>1, <2>15, <5>1 DEF Unended, Bounds
      <4>2. ~(b < d)
        <5> SUFFICES ASSUME b < d PROVE FALSE
          OBVIOUS
        <5>1. d \in (b + 1)..n
          BY <1>4
        <5> QED
          BY <2>1, <2>15, <5>1 DEF Unended, Bounds
      <4> QED
        BY <1>4, <4>1, <4>2
    <3> QED
      BY <2>8, <2>9, <3>1
  <2> HIDE DEF n
  <2>16. Covers(more, ev, until)
    BY <2>7, <2>11, <2>12, <2>13, <2>14, <2>15, Zenon DEF Covers, n
  <2> QED
    BY <2>6, <2>16
<1> QED
  BY <1>7, <1>8

-----------------------------------------------------------------------------
(* The records by date *)

Precedes(recs, i, j) ==
    recs[i].ts < recs[j].ts \/ (recs[i].ts = recs[j].ts /\ i < j)

\* The n-th record by date is that at at[n].
IsByDate(at, recs) ==
    /\ at \in [1..Len(recs) -> 1..Len(recs)]
    /\ \A i \in 1..Len(recs) : \E n \in 1..Len(recs) : at[n] = i
    /\ \A m, n \in 1..Len(recs) : m < n => Precedes(recs, at[m], at[n])
    /\ Log!Dated(recs) = [n \in 1..Len(recs) |-> recs[at[n]]]

\* A number for a date and a place among c, by which records are in order.
LEMMA Lexicographic ==
  ASSUME NEW c \in Nat, NEW s \in Nat, NEW t \in Nat, NEW i \in 1..c, NEW j \in 1..c
  PROVE  /\ s * (c + 1) + i \in Int
         /\ s * (c + 1) + i < t * (c + 1) + j <=> s < t \/ (s = t /\ i < j)
         /\ s * (c + 1) + i = t * (c + 1) + j => s = t /\ i = j
<1>1. ASSUME NEW a \in Nat, NEW b \in Nat, a < b
      PROVE  a * (c + 1) + (c + 1) <= b * (c + 1)
  <2>1. PICK d \in Nat : b = a + d + 1
    <3>1. b - a - 1 \in Nat /\ b = a + (b - a - 1) + 1
      BY <1>1
    <3> QED
      BY <3>1
  <2>2. d * (c + 1) \in Nat /\ a * (c + 1) \in Nat
    OBVIOUS
  <2>3. (a + d + 1) * (c + 1) = a * (c + 1) + d * (c + 1) + (c + 1)
    OBVIOUS
  <2> QED
    BY <2>1, <2>2, <2>3
<1>2. PICK x \in Nat, y \in Nat : x = s * (c + 1) /\ y = t * (c + 1)
  OBVIOUS
<1>3. /\ s < t => x + (c + 1) <= y
      /\ t < s => y + (c + 1) <= x
      /\ s = t => x = y
  BY <1>1, <1>2
<1>4. /\ x + i \in Int
      /\ x + i < y + j <=> s < t \/ (s = t /\ i < j)
      /\ x + i = y + j => s = t /\ i = j
  BY <1>3
<1> QED
  BY <1>2, <1>4

\* Dated is a stable sort by date.
LEMMA DatedByDate ==
  ASSUME NEW recs \in Seq(ARecord)
  PROVE  \E at : IsByDate(at, recs)
<1> DEFINE c == Len(recs)
           D == DOMAIN recs
           before(i) == {j \in D : recs[j].ts < recs[i].ts \/ (recs[j].ts = recs[i].ts /\ j < i)}
           place == [k \in D |-> 1 + Cardinality(before(k))]
           key == [i \in D |-> recs[i].ts * (c + 1) + i]
<1>1. /\ c \in Nat /\ D = 1..c /\ \A i \in D : recs[i].ts \in Nat
      /\ IsFiniteSet(D) /\ Cardinality(D) = c
  <2>1. c \in Nat /\ D = 1..c /\ \A i \in D : recs[i].ts \in Nat
    BY RecordAt
  <2>2. IsFiniteSet(1..c) /\ Cardinality(1..c) = c
    BY <2>1, IntervalSize
  <2> QED
    BY <2>1, <2>2
<1>2. \A i, j \in D :
        /\ key[i] \in Int
        /\ key[i] < key[j] <=> Precedes(recs, i, j)
        /\ key[i] = key[j] => i = j
  <2>1. ASSUME NEW i \in D, NEW j \in D
        PROVE  /\ key[i] \in Int
               /\ key[i] < key[j] <=> Precedes(recs, i, j)
               /\ key[i] = key[j] => i = j
    <3>1. key[i] = recs[i].ts * (c + 1) + i /\ key[j] = recs[j].ts * (c + 1) + j
      OBVIOUS
    <3>2. c \in Nat /\ recs[i].ts \in Nat /\ recs[j].ts \in Nat /\ i \in 1..c /\ j \in 1..c
      BY <1>1
    <3>3. PICK d, x, y : d = c /\ x = recs[i].ts /\ y = recs[j].ts
      OBVIOUS
    <3> HIDE DEF key, D, c
    <3>4. /\ x * (d + 1) + i \in Int
          /\ x * (d + 1) + i < y * (d + 1) + j <=> x < y \/ (x = y /\ i < j)
          /\ x * (d + 1) + i = y * (d + 1) + j => x = y /\ i = j
      <4>1. d \in Nat /\ x \in Nat /\ y \in Nat /\ i \in 1..d /\ j \in 1..d
        BY <3>2, <3>3
      <4> QED
        BY <4>1, Lexicographic
    <3>5. key[i] = x * (d + 1) + i /\ key[j] = y * (d + 1) + j
      BY <3>1, <3>3
    <3> QED
      BY <3>3, <3>4, <3>5, Zenon DEF Precedes
  <2> QED
    BY <2>1
<1> HIDE DEF key
<1>3. IsRank(place, D, key)
  <2>1. ASSUME NEW i \in D PROVE place[i] = Cardinality({j \in D : key[j] <= key[i]})
    <3> DEFINE upTo == {j \in D : key[j] <= key[i]}
    <3>1. upTo = before(i) \cup {i} /\ i \notin before(i)
      <4>1. ASSUME NEW j \in D PROVE j \in upTo <=> j \in before(i) \/ j = i
        <5>1. key[j] <= key[i] <=> key[j] < key[i] \/ key[j] = key[i]
          BY <1>2
        <5>2. key[j] = key[i] <=> j = i
          BY <1>2
        <5>3. j \in before(i) <=> Precedes(recs, j, i)
          BY DEF Precedes
        <5> HIDE DEF before
        <5> QED
          BY <1>2, <5>1, <5>2, <5>3
      <4>2. i \notin before(i)
        BY <1>1
      <4>3. upTo \subseteq D /\ before(i) \subseteq D
        OBVIOUS
      <4> HIDE DEF upTo, before, D
      <4> QED
        BY <4>1, <4>2, <4>3
    <3>2. IsFiniteSet(before(i))
      <4>1. before(i) \in SUBSET D
        OBVIOUS
      <4> HIDE DEF before, D
      <4> QED
        BY <1>1, <4>1, FS_Subset
    <3>3. place[i] = 1 + Cardinality(before(i))
      OBVIOUS
    <3> HIDE DEF before
    <3>4. Cardinality(before(i) \cup {i}) = Cardinality(before(i)) + 1 /\ Cardinality(before(i)) \in Nat
      BY <3>1, <3>2, FS_AddElement, FS_CardinalityType
    <3>5. 1 + Cardinality(before(i)) = Cardinality(before(i)) + 1
      BY <3>4
    <3> HIDE DEF place, upTo
    <3> QED
      BY <3>1, <3>3, <3>4, <3>5, Zenon DEF upTo
  <2> HIDE DEF place, D
  <2> QED
    BY <2>1, Zenon DEF IsRank
<1>4. PICK at : at = [n \in D |-> CHOOSE i \in D : place[i] = n]
  OBVIOUS
<1>5. Log!Dated(recs) = [n \in D |-> recs[at[n]]]
  <2>1. Log!Dated(recs) = [n \in D |-> recs[CHOOSE i \in D : place[i] = n]]
    BY Zenon DEF Log!Dated, Log!Cardinality, Cardinality
  <2> HIDE DEF place, D
  <2> QED
    BY <1>4, <2>1
<1> HIDE DEF place, D
<1>6. /\ \A i \in D : place[i] \in 1..c
      /\ \A i, j \in D : key[i] < key[j] <=> place[i] < place[j]
      /\ \A n \in 1..c : \E i \in D : place[i] = n
  <2> HIDE DEF c
  <2>1. /\ \A i \in D : place[i] \in 1..Cardinality(D)
        /\ \A i, j \in D : key[i] < key[j] <=> place[i] < place[j]
        /\ \A n \in 1..Cardinality(D) : \E i \in D : place[i] = n
    <3>1. IsFiniteSet(D)
      BY <1>1
    <3>2. (\A i \in D : key[i] \in Int) /\ (\A i, j \in D : key[i] = key[j] => i = j)
      BY <1>2
    <3> HIDE DEF before
    <3> QED
      BY <1>3, <3>1, <3>2, Ranks
  <2> QED
    BY <1>1, <2>1
<1> HIDE DEF c
<1>7. \A n \in D : at[n] \in D /\ place[at[n]] = n
  BY <1>1, <1>4, <1>6
<1>8. ASSUME NEW i \in D PROVE \E n \in D : at[n] = i
  <2>1. place[i] \in D /\ at[place[i]] \in D /\ place[at[place[i]]] = place[i]
    BY <1>1, <1>6, <1>7
  <2>2. place[i] \in Nat
    BY <1>1, <2>1
  <2>3. ~(key[i] < key[at[place[i]]]) /\ ~(key[at[place[i]]] < key[i])
    BY <1>6, <2>1, <2>2
  <2>4. key[i] \in Int /\ key[at[place[i]]] \in Int
    BY <1>2, <2>1
  <2>5. key[i] = key[at[place[i]]]
    BY <2>3, <2>4
  <2> QED
    BY <1>2, <2>1, <2>5
<1>9. ASSUME NEW m \in D, NEW n \in D, m < n PROVE Precedes(recs, at[m], at[n])
  <2>1. at[m] \in D /\ at[n] \in D /\ place[at[m]] = m /\ place[at[n]] = n
    BY <1>7
  <2> QED
    BY <1>2, <1>6, <1>9, <2>1
<1>10. at \in [D -> D]
  BY <1>4, <1>7
<1> QED
  BY <1>1, <1>5, <1>8, <1>9, <1>10, Zenon DEF IsByDate, c

LEMMA DatedIsSorted ==
  ASSUME NEW recs \in Seq(ARecord)
  PROVE  Log!Dated(recs) \in Seq(ARecord) /\ Len(Log!Dated(recs)) = Len(recs) /\ Sorted(Log!Dated(recs))
<1>1. PICK at : IsByDate(at, recs)
  BY DatedByDate
<1>2. PICK ev : ev = Log!Dated(recs)
  OBVIOUS
<1>3. PICK c \in Nat : c = Len(recs) /\ \A i \in 1..c : recs[i] \in ARecord /\ recs[i].ts \in Nat
  BY RecordAt
<1>4. ev = [n \in 1..c |-> recs[at[n]]] /\ \A n \in 1..c : at[n] \in 1..c
  BY <1>1, <1>2, <1>3 DEF IsByDate
<1>5. ev \in Seq(ARecord) /\ Len(ev) = c
  BY <1>3, <1>4
<1>6. ASSUME NEW m \in 1..c, NEW n \in 1..c, m <= n PROVE ev[m].ts <= ev[n].ts
  <2>1. CASE m = n
    BY <1>3, <1>4, <2>1
  <2>2. CASE m < n
    <3>1. Precedes(recs, at[m], at[n])
      BY <1>1, <1>3, <2>2 DEF IsByDate
    <3> QED
      BY <1>3, <1>4, <3>1 DEF Precedes
  <2> QED
    BY <1>6, <2>1, <2>2
<1> QED
  BY <1>2, <1>3, <1>5, <1>6 DEF Sorted

-----------------------------------------------------------------------------
(* What a cycle records *)

Among(r, s) == \E i \in 1..Len(s) : s[i] = r

LEMMA AmongConcat ==
  ASSUME NEW V, NEW s \in Seq(V), NEW t \in Seq(V)
  PROVE  /\ s \o t \in Seq(V)
         /\ \A r : Among(r, s \o t) <=> Among(r, s) \/ Among(r, t)
<1>1. /\ s \o t \in Seq(V) /\ Len(s \o t) = Len(s) + Len(t)
      /\ \A i \in 1..Len(s \o t) : (s \o t)[i] = IF i <= Len(s) THEN s[i] ELSE t[i - Len(s)]
      /\ Len(s) \in Nat /\ Len(t) \in Nat
  OBVIOUS
<1>2. ASSUME NEW r, Among(r, s \o t) PROVE Among(r, s) \/ Among(r, t)
  <2>1. PICK i \in 1..Len(s \o t) : (s \o t)[i] = r
    BY <1>2 DEF Among
  <2>2. i <= Len(s) => i \in 1..Len(s)
    BY <1>1
  <2>3. ~(i <= Len(s)) => i - Len(s) \in 1..Len(t)
    BY <1>1
  <2> QED
    BY <1>1, <2>1, <2>2, <2>3 DEF Among
<1>3. ASSUME NEW r, Among(r, s) PROVE Among(r, s \o t)
  <2>1. PICK i \in 1..Len(s) : s[i] = r
    BY <1>3 DEF Among
  <2>2. i \in 1..Len(s \o t) /\ i <= Len(s)
    BY <1>1
  <2> QED
    BY <1>1, <2>1, <2>2 DEF Among
<1>4. ASSUME NEW r, Among(r, t) PROVE Among(r, s \o t)
  <2>1. PICK i \in 1..Len(t) : t[i] = r
    BY <1>4 DEF Among
  <2>2. PICK j : j = i + Len(s)
    OBVIOUS
  <2>3. j \in 1..Len(s \o t) /\ ~(j <= Len(s)) /\ j - Len(s) = i
    BY <1>1, <2>2
  <2> QED
    BY <1>1, <2>1, <2>3 DEF Among
<1> QED
  BY <1>1, <1>2, <1>3, <1>4

\* No record is listed twice.
Distinct(recs) == \A i, j \in 1..Len(recs) : recs[i] = recs[j] => i = j

LEMMA DistinctConcat ==
  ASSUME NEW V, NEW s \in Seq(V), NEW t \in Seq(V), Distinct(s), Distinct(t),
         \A r : ~(Among(r, s) /\ Among(r, t))
  PROVE  Distinct(s \o t)
<1>1. PICK n \in Nat, l \in Nat : n = Len(s) /\ l = Len(t)
  OBVIOUS
<1>2. PICK q : q = s \o t
  OBVIOUS
<1>3. /\ Len(q) = n + l
      /\ \A i \in 1..(n + l) : q[i] = IF i <= n THEN s[i] ELSE t[i - n]
  BY <1>1, <1>2
<1>4. \A i \in 1..(n + l) : \/ i \in 1..n /\ q[i] = s[i]
                            \/ i \notin 1..n /\ i - n \in 1..l /\ q[i] = t[i - n]
  BY <1>3
<1> SUFFICES ASSUME NEW i \in 1..(n + l), NEW j \in 1..(n + l), q[i] = q[j] PROVE i = j
  BY <1>2, <1>3 DEF Distinct
<1>5. CASE i \in 1..n /\ j \in 1..n
  BY <1>1, <1>4, <1>5 DEF Distinct
<1>6. CASE i \notin 1..n /\ j \notin 1..n
  <2>1. i - n \in 1..l /\ j - n \in 1..l /\ t[i - n] = t[j - n]
    BY <1>4, <1>6
  <2>2. i - n = j - n
    BY <1>1, <2>1 DEF Distinct
  <2> QED
    BY <2>2
<1>7. ASSUME NEW a \in 1..(n + l), NEW b \in 1..(n + l), a \in 1..n, b \notin 1..n, q[a] = q[b] PROVE FALSE
  <2>1. PICK m \in 1..l : q[b] = t[m]
    BY <1>4, <1>7
  <2>2. q[a] = s[a]
    BY <1>4, <1>7
  <2>3. Among(q[a], s) /\ Among(q[a], t)
    BY <1>1, <1>7, <2>1, <2>2 DEF Among
  <2> QED
    BY <2>3
<1> QED
  BY <1>5, <1>6, <1>7

\* The records of a kind are listed, in some order.
LEMMA AllAreListed ==
  ASSUME NEW S, IsFiniteSet(S), S \subseteq ARecord
  PROVE  /\ InAnyOrder(S) \in Seq(ARecord)
         /\ \A r : Among(r, InAnyOrder(S)) <=> r \in S
         /\ Distinct(InAnyOrder(S))
<1>1. PICK f : f \in Bijection(1..Cardinality(S), S)
  BY FS_CardinalityType DEF ExistsBijection
<1>2. f \in Orderings(S)
  BY <1>1 DEF Bijection, Injection, IsInjective, Orderings
<1>3. PICK s : s = InAnyOrder(S)
  OBVIOUS
<1>4. s \in Orderings(S)
  BY <1>2, <1>3, Zenon DEF InAnyOrder
<1>5. /\ Len(s) \in Nat /\ DOMAIN s = 1..Len(s)
      /\ \A i \in 1..Len(s) : s[i] \in S
      /\ \A x \in S : \E i \in 1..Len(s) : s[i] = x
  BY <1>4, OrderingsList
<1>6. s \in [1..Len(s) -> ARecord]
  BY <1>4, <1>5 DEF Orderings
<1>7. s \in Seq(ARecord)
  BY <1>5, <1>6
<1>8. Distinct(s)
  <2>1. \A i, j \in DOMAIN s : i # j => s[i] # s[j]
    BY <1>4 DEF Orderings
  <2> QED
    BY <1>5, <2>1 DEF Distinct
<1> QED
  BY <1>3, <1>5, <1>7, <1>8 DEF Among

\* The records of a cycle.
IsNote(r, a) ==
    \/ WatchingDue /\ r = Log!Watching(now)
    \/ \E k \in Confirmed(a) : r = Log!Opened(k, Noted(a, k).firstSeen)
    \/ \E k \in Recovered(a) : r = Log!Resolved(k, open[k].openedAt, ClearSince(k))
    \/ \E k \in Escalated(a) : r = Log!Escalated(k, open[k].openedAt, now)

LEMMA RecordsTyped ==
  ASSUME NEW t \in Nat, NEW u \in Nat, NEW k \in Key
  PROVE  /\ Log!Started(t) \in ARecord /\ Log!Stopped(t) \in ARecord /\ Log!Watching(t) \in ARecord
         /\ Log!Opened(k, t) \in ARecord /\ Log!Escalated(k, u, t) \in ARecord
         /\ Log!Resolved(k, u, t) \in ARecord
<1>1. Log!Unix(t) \in Nat /\ Log!Unix(u) \in Nat /\ Log!None \in Int
  BY DateOf DEF Log!None
<1>2. Log!Nobody \in Key \cup {Log!Nobody} /\ k \in Key \cup {Log!Nobody}
  OBVIOUS
<1> QED
  BY <1>1, <1>2 DEF ARecord, Log!Started, Log!Stopped, Log!Watching, Log!Opened, Log!Escalated, Log!Resolved

\* What a cycle concludes is about keys, at dates.
LEMMA ConclusionsTyped ==
  ASSUME TypeOK, NEW a \in Assessments
  PROVE  /\ now \in Nat
         /\ Confirmed(a) \subseteq Key /\ Recovered(a) \subseteq Key /\ Escalated(a) \subseteq Key
         /\ IsFiniteSet(Confirmed(a)) /\ IsFiniteSet(Recovered(a)) /\ IsFiniteSet(Escalated(a))
         /\ \A k \in Confirmed(a) : Noted(a, k).firstSeen \in Nat
         /\ \A k \in Recovered(a) : open[k].openedAt \in Nat /\ ClearSince(k) \in Nat
         /\ \A k \in Escalated(a) : open[k].openedAt \in Nat
<1>1. /\ DOMAIN a \subseteq Key /\ \A k \in DOMAIN a : a[k] \in Severity
  BY AssessmentsTyped DEF IsPartialMap
<1>2. /\ DOMAIN open \subseteq Key /\ \A k \in DOMAIN open : open[k] \in Open
      /\ \A k \in DOMAIN pending : pending[k] \in Pending
      /\ now \in Time /\ now \in Nat
  BY BoundsAssumption DEF TypeOK, IsPartialMap, Time
<1>3. \A t \in Time : t \in Nat
  BY BoundsAssumption DEF Time
<1>4. /\ Confirmed(a) \in SUBSET Key /\ Recovered(a) \in SUBSET Key /\ Escalated(a) \in SUBSET Key
      /\ Recovered(a) \subseteq DOMAIN open /\ Escalated(a) \subseteq DOMAIN open
      /\ Confirmed(a) \subseteq DOMAIN a
  BY <1>1, <1>2 DEF Confirmed, Recovered, Escalated, Clearing
<1>5. IsFiniteSet(Confirmed(a)) /\ IsFiniteSet(Recovered(a)) /\ IsFiniteSet(Escalated(a))
  BY <1>4, KeyFinite, FS_Subset
<1>6. ASSUME NEW k \in Confirmed(a) PROVE Noted(a, k).firstSeen \in Nat
  <2>1. Noted(a, k).firstSeen = IF k \in DOMAIN pending THEN pending[k].firstSeen ELSE now
    BY <1>2 DEF Noted, Pending
  <2> QED
    BY <1>2, <1>3, <2>1 DEF Pending
<1>7. ASSUME NEW k \in DOMAIN open PROVE open[k].openedAt \in Nat /\ ClearSince(k) \in Nat
  BY <1>2, <1>3 DEF Open, ClearSince, MaybeTime
<1> QED
  BY <1>2, <1>4, <1>5, <1>6, <1>7

LEMMA RecordsProperty ==
  ASSUME TypeOK, NEW a \in Assessments
  PROVE  /\ Records(a) \in Seq(ARecord)
         /\ \A r : Among(r, Records(a)) <=> IsNote(r, a)
         /\ Distinct(Records(a))
<1>1. /\ now \in Nat
      /\ Confirmed(a) \subseteq Key /\ Recovered(a) \subseteq Key /\ Escalated(a) \subseteq Key
      /\ IsFiniteSet(Confirmed(a)) /\ IsFiniteSet(Recovered(a)) /\ IsFiniteSet(Escalated(a))
      /\ \A k \in Confirmed(a) : Noted(a, k).firstSeen \in Nat
      /\ \A k \in Recovered(a) : open[k].openedAt \in Nat /\ ClearSince(k) \in Nat
      /\ \A k \in Escalated(a) : open[k].openedAt \in Nat
  BY ConclusionsTyped
<1>2. PICK w : w = IF WatchingDue THEN <<Log!Watching(now)>> ELSE <<>>
  OBVIOUS
<1>3. /\ w \in Seq(ARecord) /\ Distinct(w)
      /\ \A r : Among(r, w) <=> WatchingDue /\ r = Log!Watching(now)
  <2>1. PICK m \in ARecord : m = Log!Watching(now)
    <3>1. Log!Watching(now) \in ARecord
      BY <1>1, DateOf DEF ARecord, Log!Watching, Log!None
    <3> QED
      BY <3>1
  <2>2. CASE WatchingDue
    <3>1. w = <<m>> /\ Len(w) = 1 /\ w[1] = m
      BY <1>2, <2>1, <2>2
    <3> QED
      BY <2>1, <2>2, <3>1 DEF Among, Distinct
  <2>3. CASE ~WatchingDue
    <3>1. w = <<>> /\ Len(w) = 0
      BY <1>2, <2>3
    <3> QED
      BY <2>3, <3>1 DEF Among, Distinct
  <2> QED
    BY <2>2, <2>3
<1>4. PICK o : o = {Log!Opened(k, Noted(a, k).firstSeen) : k \in Confirmed(a)}
  OBVIOUS
<1>5. /\ InAnyOrder(o) \in Seq(ARecord) /\ Distinct(InAnyOrder(o))
      /\ \A r : Among(r, InAnyOrder(o)) <=> \E k \in Confirmed(a) : r = Log!Opened(k, Noted(a, k).firstSeen)
  <2>1. PICK f : f = [k \in Confirmed(a) |-> Log!Opened(k, Noted(a, k).firstSeen)]
    OBVIOUS
  <2>2. o = {f[k] : k \in Confirmed(a)}
    BY <1>4, <2>1
  <2>3. IsFiniteSet(o)
    BY <1>1, <2>2, ImageIsFinite
  <2>4. o \subseteq ARecord
    BY <1>1, <1>4, RecordsTyped
  <2>5. \A r : r \in o <=> \E k \in Confirmed(a) : r = Log!Opened(k, Noted(a, k).firstSeen)
    BY <1>4, Zenon
  <2> QED
    BY <2>3, <2>4, <2>5, AllAreListed
<1>6. /\ InAnyOrder(ResolvedRecords(a)) \in Seq(ARecord) /\ Distinct(InAnyOrder(ResolvedRecords(a)))
      /\ \A r : Among(r, InAnyOrder(ResolvedRecords(a)))
            <=> \E k \in Recovered(a) : r = Log!Resolved(k, open[k].openedAt, ClearSince(k))
  <2>1. PICK f : f = [k \in Recovered(a) |-> Log!Resolved(k, open[k].openedAt, ClearSince(k))]
    OBVIOUS
  <2>2. ResolvedRecords(a) = {f[k] : k \in Recovered(a)}
    BY <2>1 DEF ResolvedRecords
  <2>3. IsFiniteSet(ResolvedRecords(a))
    BY <1>1, <2>2, ImageIsFinite
  <2>4. ResolvedRecords(a) \subseteq ARecord
    BY <1>1, RecordsTyped DEF ResolvedRecords
  <2>5. \A r : r \in ResolvedRecords(a)
            <=> \E k \in Recovered(a) : r = Log!Resolved(k, open[k].openedAt, ClearSince(k))
    BY Zenon DEF ResolvedRecords
  <2> QED
    BY <2>3, <2>4, <2>5, AllAreListed
<1>7. PICK x : x = {Log!Escalated(k, open[k].openedAt, now) : k \in Escalated(a)}
  OBVIOUS
<1>8. /\ InAnyOrder(x) \in Seq(ARecord) /\ Distinct(InAnyOrder(x))
      /\ \A r : Among(r, InAnyOrder(x)) <=> \E k \in Escalated(a) : r = Log!Escalated(k, open[k].openedAt, now)
  <2>1. PICK f : f = [k \in Escalated(a) |-> Log!Escalated(k, open[k].openedAt, now)]
    OBVIOUS
  <2>2. x = {f[k] : k \in Escalated(a)}
    BY <1>7, <2>1
  <2>3. IsFiniteSet(x)
    BY <1>1, <2>2, ImageIsFinite
  <2>4. x \subseteq ARecord
    BY <1>1, <1>7, RecordsTyped
  <2>5. \A r : r \in x <=> \E k \in Escalated(a) : r = Log!Escalated(k, open[k].openedAt, now)
    BY <1>7, Zenon
  <2> QED
    BY <2>3, <2>4, <2>5, AllAreListed
<1>9. Records(a) = w \o InAnyOrder(o) \o InAnyOrder(ResolvedRecords(a)) \o InAnyOrder(x)
  BY <1>2, <1>4, <1>7, Zenon DEF Records
<1>10. PICK q : q = w \o InAnyOrder(o)
  OBVIOUS
<1>11. /\ q \in Seq(ARecord)
       /\ \A r : Among(r, q) <=> Among(r, w) \/ Among(r, InAnyOrder(o))
  BY <1>3, <1>5, <1>10, AmongConcat
<1>12. PICK p : p = q \o InAnyOrder(ResolvedRecords(a))
  OBVIOUS
<1>13. /\ p \in Seq(ARecord)
       /\ \A r : Among(r, p) <=> Among(r, q) \/ Among(r, InAnyOrder(ResolvedRecords(a)))
  BY <1>6, <1>11, <1>12, AmongConcat
<1>14. /\ p \o InAnyOrder(x) \in Seq(ARecord)
       /\ \A r : Among(r, p \o InAnyOrder(x)) <=> Among(r, p) \/ Among(r, InAnyOrder(x))
  BY <1>8, <1>13, AmongConcat
<1>15. Records(a) = p \o InAnyOrder(x)
  BY <1>9, <1>10, <1>12, Zenon
<1>16. /\ \A r : Among(r, w) => r.event = "watching"
       /\ \A r : Among(r, InAnyOrder(o)) => r.event = "opened"
       /\ \A r : Among(r, InAnyOrder(ResolvedRecords(a))) => r.event = "resolved"
       /\ \A r : Among(r, InAnyOrder(x)) => r.event = "escalated"
  <2>1. /\ \A t : Log!Watching(t).event = "watching"
        /\ \A k, t : Log!Opened(k, t).event = "opened"
        /\ \A k, t, u : Log!Resolved(k, t, u).event = "resolved" /\ Log!Escalated(k, t, u).event = "escalated"
    BY DEF Log!Watching, Log!Opened, Log!Resolved, Log!Escalated
  <2> QED
    BY <1>3, <1>5, <1>6, <1>8, <2>1
<1>17. Distinct(q)
  <2>1. \A r : ~(Among(r, w) /\ Among(r, InAnyOrder(o)))
    BY <1>16
  <2> QED
    BY <1>3, <1>5, <1>10, <2>1, DistinctConcat
<1>18. Distinct(p)
  <2>1. \A r : ~(Among(r, q) /\ Among(r, InAnyOrder(ResolvedRecords(a))))
    BY <1>11, <1>16
  <2> QED
    BY <1>6, <1>11, <1>12, <1>17, <2>1, DistinctConcat
<1>19. Distinct(Records(a))
  <2>1. \A r : ~(Among(r, p) /\ Among(r, InAnyOrder(x)))
    BY <1>11, <1>13, <1>16
  <2> QED
    BY <1>8, <1>13, <1>15, <1>18, <2>1, DistinctConcat
<1> QED
  BY <1>3, <1>5, <1>6, <1>8, <1>11, <1>13, <1>14, <1>15, <1>19, Zenon DEF IsNote

-----------------------------------------------------------------------------
(* The process and its file *)

TrailTyped ==
    /\ process \in {"down", "starting", "watching", "aborted", "stopped"}
    /\ file \in Seq(ARecord)
    /\ lastWatching \in MaybeTime

\* What the dispatcher keeps, it keeps in every process that has it in it.
TInv == Inv /\ TrailTyped

\* A step of the process is one of its dispatcher or leaves that alone, except that
\* a start that fails counts as a restart.
LEMMA StepsOfDispatcher == TrailNext => [Next]_vars \/ BindFails
<1>1. Abort \/ Start \/ Bind \/ RecordStopped \/ StoppedUnrecorded => UNCHANGED vars
  BY DEF Abort, Start, Bind, RecordStopped, StoppedUnrecorded
<1>2. ASSUME NEW a \in Assessments, Evaluate(a) PROVE Next
  BY <1>2 DEF Evaluate, Next
<1>3. Deliver \/ Die \/ Pass \/ SetBack => Next
  BY DEF Deliver, Send, Die, Pass, SetBack, Next
<1> QED
  BY <1>1, <1>2, <1>3 DEF TrailNext

\* A restart counted is all a failed start changes of the dispatcher.
LEMMA FailedStartKeeps == Inv /\ BindFails => Inv'
<1> SUFFICES ASSUME Inv, BindFails PROVE Inv'
  OBVIOUS
<1>1. /\ UNCHANGED <<now, cycleAt, phase, open, pending, outbox, failures, retryAt, dropped, trail,
                     wrong, spell, told, setBack>>
      /\ restarts < MaxRestarts /\ restarts' = restarts + 1
  BY DEF BindFails, program
<1>2. restarts' \in 0..MaxRestarts
  <2>1. restarts \in 0..MaxRestarts
    BY DEF Inv, WellFormed, TypeOK
  <2> QED
    BY <1>1, <2>1, BoundsAssumption
<1>3. TypeOK'
  BY <1>1, <1>2 DEF Inv, WellFormed, TypeOK
<1>4. OutboxBounded' /\ DOMAIN wrong' \subseteq DOMAIN spell'
  BY <1>1 DEF Inv, WellFormed, OutboxBounded
<1>5. WindowsHonest'
  BY <1>1 DEF Inv, WindowsHonest, OpenNotPending, PendingUnbroken, WrongAccounted, SpellsDated,
              ClearingDated, TrueTime
<1> QED
  BY <1>3, <1>4, <1>5 DEF Inv, WellFormed

\* What is recorded are records.
LEMMA RecordsOf ==
  ASSUME TypeOK
  PROVE  /\ Log!Started(now) \in ARecord /\ Log!Stopped(now) \in ARecord
         /\ \A a \in Assessments : Records(a) \in Seq(ARecord)
<1>1. now \in Nat
  BY BoundsAssumption DEF TypeOK, Time
<1>2. Log!Started(now) \in ARecord /\ Log!Stopped(now) \in ARecord
  BY <1>1, DateOf DEF ARecord, Log!Started, Log!Stopped, Log!None
<1> QED
  BY <1>2, RecordsProperty

\* What each action appends to the log.
Appended(records) == file' = file \o records

LEMMA StepAppends ==
  ASSUME TInv, TrailNext
  PROVE  \/ UNCHANGED file
         \/ process = "down" /\ Start /\ file' = file \o <<Log!Started(now)>>
         \/ RecordStopped /\ file' = file \o <<Log!Stopped(now)>>
         \/ \E a \in Assessments : Evaluate(a) /\ file' = file \o Records(a)
<1>1. Start => file' = file \o <<Log!Started(now)>> /\ process = "down"
  <2>1. file \in Seq(ARecord) /\ Log!Started(now) \in ARecord
    BY RecordsOf DEF TInv, Inv, WellFormed, TrailTyped
  <2>2. Append(file, Log!Started(now)) = file \o <<Log!Started(now)>>
    BY <2>1
  <2> QED
    BY <2>2 DEF Start
<1>2. RecordStopped => file' = file \o <<Log!Stopped(now)>>
  BY DEF RecordStopped, Vouch
<1>3. \A a \in Assessments : Evaluate(a) => file' = file \o Records(a)
  BY DEF Evaluate, Vouch
<1>4. Bind \/ BindFails \/ Deliver \/ Abort \/ StoppedUnrecorded \/ Die \/ Pass \/ SetBack => UNCHANGED file
  BY DEF Bind, BindFails, Deliver, Abort, StoppedUnrecorded, Die, Pass, SetBack, life
<1> QED
  BY <1>1, <1>2, <1>3, <1>4 DEF TrailNext

LEMMA InitTInv == TrailInit => TInv
<1>1. TrailInit => Inv
  BY InitInv DEF TrailInit
<1>2. <<>> \in Seq(ARecord)
  OBVIOUS
<1>3. TrailInit => TrailTyped
  BY <1>2 DEF TrailInit, TrailTyped, MaybeTime
<1> QED
  BY <1>1, <1>3 DEF TInv

LEMMA NextTInv == TInv /\ [TrailNext]_trailVars => TInv'
<1> SUFFICES ASSUME TInv, [TrailNext]_trailVars PROVE TInv'
  OBVIOUS
<1>1. CASE UNCHANGED trailVars
  <2>1. UNCHANGED vars /\ UNCHANGED <<process, file, lastWatching>>
    BY <1>1 DEF trailVars, life
  <2>2. Inv'
    BY <2>1, NextInv DEF TInv
  <2> QED
    BY <2>1, <2>2 DEF TInv, TrailTyped
<1>2. CASE TrailNext
  <2>1. Inv'
    BY <1>2, StepsOfDispatcher, FailedStartKeeps, NextInv DEF TInv
  <2>2. file' \in Seq(ARecord)
    <3>1. /\ Log!Started(now) \in ARecord /\ Log!Stopped(now) \in ARecord
          /\ \A a \in Assessments : Records(a) \in Seq(ARecord)
      BY RecordsOf DEF TInv, Inv, WellFormed
    <3>2. /\ <<Log!Started(now)>> \in Seq(ARecord) /\ <<Log!Stopped(now)>> \in Seq(ARecord)
          /\ file \in Seq(ARecord)
      BY <3>1 DEF TInv, TrailTyped
    <3> QED
      BY <1>2, <3>1, <3>2, StepAppends, AmongConcat
  <2>3. process' \in {"down", "starting", "watching", "aborted", "stopped"}
    BY <1>2 DEF TrailNext, TInv, TrailTyped, Start, Bind, BindFails, Evaluate, Deliver, Abort,
                RecordStopped, StoppedUnrecorded, Die, Pass, SetBack, life
  <2>4. lastWatching' \in MaybeTime
    <3>1. now \in MaybeTime /\ NoTime \in MaybeTime /\ lastWatching \in MaybeTime
      BY DEF TInv, Inv, WellFormed, TypeOK, TrailTyped, MaybeTime
    <3> QED
      BY <1>2, <3>1 DEF TrailNext, Start, Bind, BindFails, Evaluate, Deliver, Abort,
                RecordStopped, StoppedUnrecorded, Die, Pass, SetBack, life
  <2> QED
    BY <2>1, <2>2, <2>3, <2>4 DEF TInv, TrailTyped
<1> QED
  BY <1>1, <1>2

\* What the dispatcher promises, and the types, hold in every process of every history.
LEMMA TrailTypes == TrailSpec => []TInv
  BY InitTInv, NextTInv, PTL DEF TrailSpec

-----------------------------------------------------------------------------
(* The watched time of a window *)

\* An overlap is counted in units.
LEMMA OverlapCounts ==
  ASSUME NEW a \in Int, NEW b \in Int, NEW since \in Int, NEW until \in Int
  PROVE  /\ IsFiniteSet(Units(a, b) \cap Units(since, until))
         /\ Log!Overlap(a, b, since, until) \in Nat
         /\ Log!Overlap(a, b, since, until) = Cardinality(Units(a, b) \cap Units(since, until))
<1>1. PICK lo, hi : lo = Log!Later(a, since) /\ hi = Log!Earlier(b, until)
  OBVIOUS
<1>2. lo \in Int /\ hi \in Int /\ hi - 1 \in Int
  BY <1>1 DEF Log!Later, Log!Earlier
<1>3. Units(a, b) \cap Units(since, until) = lo..(hi - 1)
  <2>1. \A t \in Int : /\ lo <= t <=> a <= t /\ since <= t
                       /\ t <= hi - 1 <=> t <= b - 1 /\ t <= until - 1
    BY <1>1 DEF Log!Later, Log!Earlier
  <2> QED
    BY <1>2, <2>1 DEF Units
<1>4. IsFiniteSet(lo..(hi - 1))
      /\ Cardinality(lo..(hi - 1)) = IF lo > hi - 1 THEN 0 ELSE hi - 1 - lo + 1
  BY <1>2, FS_Interval, Zenon
<1>5. Log!Overlap(a, b, since, until) = IF 0 >= hi - lo THEN 0 ELSE hi - lo
  BY <1>1 DEF Log!Overlap, Log!Later
<1>6. Cardinality(lo..(hi - 1)) = Log!Overlap(a, b, since, until) /\ Log!Overlap(a, b, since, until) \in Nat
  BY <1>2, <1>4, <1>5
<1> QED
  BY <1>3, <1>4, <1>6, Zenon

\* Spans in line share no unit of time, so that their overlaps with a window add up to
\* the number of its units they cover.
LEMMA SpansCountOnce ==
  ASSUME NEW spans \in Seq(Span),
         \A i \in 1..Len(spans) : 0 <= spans[i].from /\ spans[i].from <= spans[i].to,
         \A i, j \in 1..Len(spans) : i < j => spans[i].to <= spans[j].from,
         NEW since \in Int, NEW until \in Int
  PROVE  Log!Watched(spans, since, until)
           = Cardinality(UNION {Units(spans[i].from, spans[i].to) \cap Units(since, until) : i \in DOMAIN spans})
<1> DEFINE D == DOMAIN spans
           Over(i) == Log!Overlap(spans[i].from, spans[i].to, since, until)
           w == [i \in D |-> Over(i)]
           part == [i \in D |-> Units(spans[i].from, spans[i].to) \cap Units(since, until)]
           AnyOf(s) == CHOOSE x \in s : TRUE
           Sum(g) == g = [s \in SUBSET D |-> IF s = {} THEN 0 ELSE Over(AnyOf(s)) + g[s \ {AnyOf(s)}]]
<1>1. D = 1..Len(spans) /\ Len(spans) \in Nat /\ IsFiniteSet(D)
  <2>1. D = 1..Len(spans) /\ Len(spans) \in Nat
    OBVIOUS
  <2> QED
    BY <2>1, IntervalSize
<1>2. \A i \in D : spans[i].from \in Int /\ spans[i].to \in Int
  <2>1. \A i \in D : spans[i] \in Span
    OBVIOUS
  <2> QED
    BY <2>1 DEF Span
<1>3. \A i \in D : /\ IsFiniteSet(part[i])
                   /\ w[i] = Cardinality(part[i])
                   /\ w[i] \in Nat
  <2>1. ASSUME NEW i \in D
        PROVE  /\ IsFiniteSet(Units(spans[i].from, spans[i].to) \cap Units(since, until))
               /\ Over(i) = Cardinality(Units(spans[i].from, spans[i].to) \cap Units(since, until))
               /\ Over(i) \in Nat
    <3>1. PICK a \in Int, b \in Int : a = spans[i].from /\ b = spans[i].to
      BY <1>2
    <3>2. IsFiniteSet(Units(a, b) \cap Units(since, until))
      BY OverlapCounts
    <3>3. Log!Overlap(a, b, since, until) \in Nat
      BY OverlapCounts
    <3>4. Log!Overlap(a, b, since, until) = Cardinality(Units(a, b) \cap Units(since, until))
      BY OverlapCounts
    <3> QED
      BY <3>1, <3>2, <3>3, <3>4, Zenon
  <2> HIDE DEF Over
  <2> QED
    BY <2>1
<1>4. \A i, j \in D : i # j => part[i] \cap part[j] = {}
  <2>1. ASSUME NEW i \in D, NEW j \in D, i < j PROVE part[i] \cap part[j] = {}
    <3>1. spans[i].to <= spans[j].from
      BY <1>1, <2>1
    <3>2. part[i] \subseteq Units(spans[i].from, spans[i].to)
          /\ part[j] \subseteq Units(spans[j].from, spans[j].to)
      OBVIOUS
    <3>3. Units(spans[i].from, spans[i].to) \cap Units(spans[j].from, spans[j].to) = {}
      BY <1>2, <3>1 DEF Units
    <3> HIDE DEF part
    <3> QED
      BY <3>2, <3>3
  <2> HIDE DEF part
  <2>2. ASSUME NEW i \in D, NEW j \in D, i # j PROVE part[i] \cap part[j] = {}
    <3>1. i < j \/ j < i
      BY <1>1, <2>2
    <3> QED
      BY <2>1, <3>1
  <2> QED
    BY <2>2
<1>5. \A g : Sum(g) <=> SumEquation(g, D, w)
  <2> SUFFICES ASSUME NEW g
               PROVE  [s \in SUBSET D |-> IF s = {} THEN 0 ELSE Over(AnyOf(s)) + g[s \ {AnyOf(s)}]]
                      = [s \in SUBSET D |-> IF s = {} THEN 0 ELSE w[AnyOf(s)] + g[s \ {AnyOf(s)}]]
    BY Zenon DEF SumEquation
  <2>1. \A s \in SUBSET D : s # {} => w[AnyOf(s)] = Over(AnyOf(s))
    OBVIOUS
  <2> HIDE DEF w, AnyOf, Over, D
  <2> QED
    BY <2>1
<1>6. \E g : SumEquation(g, D, w)
  <2> HIDE DEF w, D
  <2> QED
    BY <1>1, <1>3, SumExists
<1>7. Log!Watched(spans, since, until) = (CHOOSE g : Sum(g))[D]
  BY Zenon DEF Log!Watched, Log!MapThenSumSet, Log!MapThenFoldSet
<1> HIDE DEF Sum, w, D
<1>8. Sum(CHOOSE g : Sum(g))
  BY <1>5, <1>6, Zenon
<1>9. \E g : SumEquation(g, D, w) /\ Log!Watched(spans, since, until) = g[D]
  BY <1>5, <1>7, <1>8, Zenon
<1>10. Log!Watched(spans, since, until) = Cardinality(UNION {part[i] : i \in D})
  <2> HIDE DEF part
  <2>1. PICK g : SumEquation(g, D, w) /\ Log!Watched(spans, since, until) = g[D]
    BY <1>9
  <2>2. /\ IsFiniteSet(D) /\ \A i \in D : IsFiniteSet(part[i])
        /\ \A i \in D : w[i] = Cardinality(part[i])
    BY <1>1, <1>3, Zenon
  <2>3. PICK d, p, v : d = D /\ p = part /\ v = w
    OBVIOUS
  <2>4. /\ IsFiniteSet(d) /\ \A i \in d : IsFiniteSet(p[i])
        /\ \A i, j \in d : i # j => p[i] \cap p[j] = {}
        /\ \A i \in d : v[i] = Cardinality(p[i])
        /\ SumEquation(g, d, v)
    BY <1>4, <2>1, <2>2, <2>3, Zenon
  <2>5. g[d] = Cardinality(UNION {p[i] : i \in d})
    BY <2>4, SizesAddUp
  <2> QED
    BY <2>1, <2>3, <2>5, Zenon
<1>11. UNION {part[i] : i \in D}
         = UNION {Units(spans[i].from, spans[i].to) \cap Units(since, until) : i \in D}
  <2>1. \A i \in D : part[i] = Units(spans[i].from, spans[i].to) \cap Units(since, until)
    OBVIOUS
  <2> HIDE DEF part
  <2> QED
    BY <2>1
<1> QED
  BY <1>10, <1>11, Zenon DEF D

\* The log is read by date, and its spans are those of the runs.
LEMMA SpansOfRuns ==
  ASSUME TInv
  PROVE  /\ Events \in Seq(ARecord) /\ Sorted(Events) /\ Len(Events) = Len(file)
         /\ Covers(Spans, Events, now)
         /\ now \in Nat
<1>1. now \in Nat /\ file \in Seq(ARecord)
  BY BoundsAssumption DEF TInv, Inv, WellFormed, TypeOK, TrailTyped, Time
<1>2. Events \in Seq(ARecord) /\ Sorted(Events) /\ Len(Events) = Len(file)
  BY <1>1, DatedIsSorted DEF Events
<1> QED
  BY <1>1, <1>2, CoverageProperty DEF Spans

\* Watched time is counted once, in whatever ways runs end and start, and wherever the
\* clock is set: coverage makes one span of each run, in order, and covered adds up
\* their overlaps with the window.
THEOREM WatchedCountsOnceAlways == TrailSpec => []WatchedCountsOnce
<1>1. TInv => WatchedCountsOnce
  <2> SUFFICES ASSUME TInv PROVE WatchedCountsOnce
    OBVIOUS
  <2>1. Covers(Spans, Events, now) /\ now \in Nat
    BY SpansOfRuns
  <2>2. PICK spans : spans = Spans
    OBVIOUS
  <2>3. /\ spans \in Seq(Span)
        /\ \A i \in 1..Len(spans) : 0 <= spans[i].from /\ spans[i].from <= spans[i].to
        /\ \A i, j \in 1..Len(spans) : i < j => spans[i].to <= spans[j].from
    BY <2>1, <2>2 DEF Covers
  <2>4. ASSUME NEW since \in 0..now
        PROVE  Log!Watched(spans, since, now) = Cardinality(UnitsOf(spans) \cap Units(since, now))
    <3> DEFINE part(i) == Units(spans[i].from, spans[i].to)
    <3>1. Units(since, now) \subseteq Units(0, now)
      BY <2>1 DEF Units
    <3>2. UnitsOf(spans) \cap Units(since, now)
            = UNION {part(i) \cap Units(since, now) : i \in DOMAIN spans}
      <4>1. UnitsOf(spans) = Units(0, now) \cap UNION {part(i) : i \in DOMAIN spans}
        BY DEF UnitsOf
      <4> HIDE DEF part
      <4> QED
        BY <3>1, <4>1
    <3> HIDE DEF part
    <3>3. Log!Watched(spans, since, now)
            = Cardinality(UNION {part(i) \cap Units(since, now) : i \in DOMAIN spans})
      <4>1. since \in Int /\ now \in Int
        BY <2>1
      <4> QED
        BY <2>3, <4>1, SpansCountOnce, Zenon DEF part
    <3> QED
      BY <3>2, <3>3
  <2> QED
    BY <2>2, <2>4, Zenon DEF WatchedCountsOnce
<1> QED
  BY <1>1, TrailTypes, PTL

-----------------------------------------------------------------------------
(* The runs of the log, in the order they were recorded *)

\* Record k is of the run that begins with record b.
InRun(recs, b, k) ==
    b < k /\ Starts(recs[b]) /\ ~Starts(recs[k]) /\ \A m \in (b + 1)..(k - 1) : ~Bounds(recs[m])

\* What the observers know of the last run.
LastRunIs(recs, start, sign) ==
    /\ start = NoTime => \A b \in 1..Len(recs) : ~Unended(recs, b, Len(recs))
    /\ start # NoTime =>
        \E b \in 1..Len(recs) :
            /\ Unended(recs, b, Len(recs))
            /\ start = At(recs[b])
            /\ \A k \in b..Len(recs) : At(recs[k]) <= sign
            /\ \E k \in b..Len(recs) : At(recs[k]) = sign

\* What a run is vouched for by its records, from the first to any other.
VouchedAre(recs, units) ==
    \A t : t \in units <=>
        \E b, k \in 1..Len(recs) : InRun(recs, b, k) /\ t \in Units(At(recs[b]), At(recs[k]))

\* Nothing that was recorded before a start or a stop is dated after it, and nothing
\* that was recorded after a start is dated before it.
InOrder(recs) ==
    \A i, j \in 1..Len(recs) :
        i < j /\ (Starts(recs[i]) \/ Bounds(recs[j])) => recs[i].ts <= recs[j].ts

\* What a process has in memory when nothing has been evaluated in it, and the
\* marker that goes with its last cycle.
MemoryIs ==
    /\ process \in {"down", "starting"} =>
        ~polling /\ DOMAIN open = {} /\ DOMAIN pending = {} /\ cycleAt = NoTime /\ lastWatching = NoTime
    /\ process \in {"starting", "watching", "aborted"} => runStart # NoTime
    /\ lastWatching # NoTime => \E i \in 1..Len(file) : file[i].ts = Log!Unix(lastWatching)
    /\ cycleAt # NoTime => lastWatching # NoTime /\ Elapsed(lastWatching, cycleAt) < Interval

\* What a process may date a record by: no start is dated after it.
Datable(t, at, recs) ==
    t <= at /\ \A i \in 1..Len(recs) : Starts(recs[i]) => recs[i].ts <= Log!Unix(t)

\* The dates in the log and in memory, as long as the clock is not set back.
Dates ==
    /\ InOrder(file)
    /\ \A i \in 1..Len(file) : file[i].ts <= Log!Unix(now)
    /\ lastWatching <= now
    /\ \A k \in DOMAIN pending : Datable(pending[k].firstSeen, now, file)
    /\ \A k \in DOMAIN open : open[k].clearingSince # NoTime => Datable(open[k].clearingSince, now, file)

\* The inductive invariant.
RInv ==
    /\ TInv
    /\ LastRunIs(file, runStart, lastSign)
    /\ VouchedAre(file, vouched)
    /\ MemoryIs
    /\ setBack = 0 => Dates

\* The latest of some dates.
LEMMA LatestProperty ==
  ASSUME NEW d \in Nat, NEW more \in Seq(ARecord)
  PROVE  /\ LatestOf(d, more) \in Nat
         /\ d <= LatestOf(d, more)
         /\ \A i \in 1..Len(more) : At(more[i]) <= LatestOf(d, more)
         /\ LatestOf(d, more) = d \/ \E i \in 1..Len(more) : At(more[i]) = LatestOf(d, more)
<1> DEFINE f == [i \in DOMAIN more |-> At(more[i])]
           ats == {Log!FromUnix(more[i].ts) : i \in DOMAIN more}
           dates == ats \cup {d}
<1>1. /\ DOMAIN more = 1..Len(more) /\ Len(more) \in Nat
      /\ \A i \in DOMAIN more : At(more[i]) \in Nat
  BY RecordAt
<1>2. ats = {f[i] : i \in DOMAIN more}
  BY DEF At
<1>3. IsFiniteSet(dates)
  <2>1. IsFiniteSet(DOMAIN more)
    BY <1>1, IntervalSize
  <2> HIDE DEF f
  <2>2. IsFiniteSet({f[i] : i \in DOMAIN more})
    BY <2>1, ImageIsFinite
  <2> HIDE DEF ats
  <2>3. IsFiniteSet(ats)
    BY <1>2, <2>2
  <2> QED
    BY <2>3, FS_AddElement
<1>4. dates \subseteq Nat /\ d \in dates /\ \A t \in dates : t = d \/ \E i \in DOMAIN more : At(more[i]) = t
  <2>1. \A t \in ats : \E i \in DOMAIN more : At(more[i]) = t
    BY DEF At
  <2> HIDE DEF ats
  <2> QED
    BY <1>1, <2>1
<1>5. \A i \in DOMAIN more : At(more[i]) \in dates
  BY DEF At
<1>6. LatestOf(d, more) = CHOOSE t \in dates : \A u \in dates : u <= t
  BY Zenon DEF LatestOf
<1> HIDE DEF dates
<1>7. \E t \in dates : \A u \in dates : u <= t
  BY <1>3, <1>4, MaxProperty
<1>8. LatestOf(d, more) \in dates /\ \A u \in dates : u <= LatestOf(d, more)
  BY <1>6, <1>7, Zenon
<1> QED
  BY <1>1, <1>4, <1>5, <1>8

\* The log, longer by some records.
Extends(all, recs, more) ==
    /\ all \in Seq(ARecord)
    /\ Len(all) = Len(recs) + Len(more)
    /\ \A i \in 1..Len(all) : all[i] = IF i <= Len(recs) THEN recs[i] ELSE more[i - Len(recs)]

LEMMA ConcatExtends ==
  ASSUME NEW recs \in Seq(ARecord), NEW more \in Seq(ARecord)
  PROVE  Extends(recs \o more, recs, more)
<1>1. /\ recs \o more \in Seq(ARecord) /\ Len(recs \o more) = Len(recs) + Len(more)
      /\ \A i \in 1..Len(recs \o more) :
            (recs \o more)[i] = IF i <= Len(recs) THEN recs[i] ELSE more[i - Len(recs)]
  OBVIOUS
<1> QED
  BY <1>1 DEF Extends

\* The places of a longer log, and what stands there.
LEMMA ExtendsProperty ==
  ASSUME NEW recs \in Seq(ARecord), NEW more \in Seq(ARecord), NEW all, Extends(all, recs, more)
  PROVE  /\ Len(recs) \in Nat /\ Len(more) \in Nat /\ Len(all) \in Nat /\ Len(all) = Len(recs) + Len(more)
         /\ \A i \in 1..Len(recs) : i \in 1..Len(all) /\ all[i] = recs[i]
         /\ \A i \in 1..Len(all) : i \in 1..Len(recs)
                \/ (Len(recs) < i /\ i - Len(recs) \in 1..Len(more) /\ all[i] = more[i - Len(recs)])
         /\ \A j \in 1..Len(more) : j + Len(recs) \in 1..Len(all) /\ all[j + Len(recs)] = more[j]
<1>1. /\ Len(recs) \in Nat /\ Len(more) \in Nat /\ Len(all) = Len(recs) + Len(more) /\ all \in Seq(ARecord)
      /\ \A i \in 1..Len(all) : all[i] = IF i <= Len(recs) THEN recs[i] ELSE more[i - Len(recs)]
  BY DEF Extends
<1>2. \A i \in 1..Len(recs) : i \in 1..Len(all) /\ i <= Len(recs)
  BY <1>1
<1>3. \A i \in 1..Len(all) : i \in 1..Len(recs)
                \/ (Len(recs) < i /\ ~(i <= Len(recs)) /\ i - Len(recs) \in 1..Len(more))
  BY <1>1
<1>4. \A j \in 1..Len(more) : /\ j + Len(recs) \in 1..Len(all) /\ ~(j + Len(recs) <= Len(recs))
                              /\ j + Len(recs) - Len(recs) = j
  BY <1>1
<1> QED
  BY <1>1, <1>2, <1>3, <1>4

\* One record more.
LEMMA ExtendsByOne ==
  ASSUME NEW recs \in Seq(ARecord), NEW more \in Seq(ARecord), NEW all, Extends(all, recs, more),
         Len(more) = 1
  PROVE  /\ Len(recs) \in Nat /\ Len(all) \in Nat /\ Len(all) = Len(recs) + 1
         /\ \A i \in 1..Len(recs) : i \in 1..Len(all) /\ all[i] = recs[i]
         /\ Len(all) \in 1..Len(all) /\ all[Len(all)] = more[1] /\ At(more[1]) \in Nat
         /\ \A i \in 1..Len(all) : i \notin 1..Len(recs) => i = Len(all)
<1>1. /\ Len(recs) \in Nat /\ Len(all) \in Nat /\ Len(all) = Len(recs) + 1
      /\ \A i \in 1..Len(all) : all[i] = IF i <= Len(recs) THEN recs[i] ELSE more[i - Len(recs)]
  BY DEF Extends
<1>2. PICK n \in Nat, c \in Nat : n = Len(recs) /\ c = Len(all)
  BY <1>1
<1>3. c \in 1..c /\ ~(c <= n) /\ c - n = 1 /\ \A i \in 1..n : i \in 1..c /\ i <= n
  BY <1>1, <1>2
<1>4. all[c] = more[1]
  BY <1>1, <1>2, <1>3
<1>5. \A i \in 1..c : i \notin 1..n => i = c
  BY <1>1, <1>2
<1>6. At(more[1]) \in Nat
  <2>1. more[1] \in ARecord
    OBVIOUS
  <2> QED
    BY <2>1, DatesKeepOrder DEF At, ARecord
<1> QED
  BY <1>1, <1>2, <1>3, <1>4, <1>5, <1>6

\* Where nothing that is appended is a start, a start was there before.
LEMMA StartsOfOld ==
  ASSUME NEW recs \in Seq(ARecord), NEW more \in Seq(ARecord), NEW all, Extends(all, recs, more),
         \A j \in 1..Len(more) : ~Starts(more[j])
  PROVE  \A i \in 1..Len(all) : Starts(all[i]) => i \in 1..Len(recs) /\ all[i] = recs[i]
<1> SUFFICES ASSUME NEW i \in 1..Len(all), Starts(all[i]) PROVE i \in 1..Len(recs) /\ all[i] = recs[i]
  OBVIOUS
<1>1. /\ i \in 1..Len(recs) => all[i] = recs[i]
      /\ i \in 1..Len(recs) \/ (i - Len(recs) \in 1..Len(more) /\ all[i] = more[i - Len(recs)])
  BY ExtendsProperty
<1> QED
  BY <1>1

\* Records between the bounds of runs end no run and begin none.
LEMMA NotesKeepRuns ==
  ASSUME NEW recs \in Seq(ARecord), NEW more \in Seq(ARecord), NEW all, Extends(all, recs, more),
         \A j \in 1..Len(more) : ~Bounds(more[j])
  PROVE  /\ \A b \in 1..Len(all) : Unended(all, b, Len(all))
                <=> b \in 1..Len(recs) /\ Unended(recs, b, Len(recs))
         /\ \A b, k \in 1..Len(all) : InRun(all, b, k)
                <=> /\ b \in 1..Len(recs)
                    /\ k \in 1..Len(recs) => InRun(recs, b, k)
                    /\ k \notin 1..Len(recs) => Unended(recs, b, Len(recs))
<1>1. PICK n \in Nat, c \in Nat : n = Len(recs) /\ c = Len(all) /\ n <= c
  BY ExtendsProperty
<1>2. /\ \A i \in 1..n : i \in 1..c /\ all[i] = recs[i]
      /\ \A i \in 1..c : i \in 1..n \/ (n < i /\ ~Bounds(all[i]) /\ ~Starts(all[i]))
  <2>1. /\ \A i \in 1..n : i \in 1..c /\ all[i] = recs[i]
        /\ \A i \in 1..c : i \in 1..n
                \/ (n < i /\ i - n \in 1..Len(more) /\ all[i] = more[i - n])
    <3>1. /\ \A i \in 1..Len(recs) : i \in 1..Len(all) /\ all[i] = recs[i]
          /\ \A i \in 1..Len(all) : i \in 1..Len(recs)
                \/ (Len(recs) < i /\ i - Len(recs) \in 1..Len(more) /\ all[i] = more[i - Len(recs)])
      BY ExtendsProperty
    <3> QED
      BY <1>1, <3>1
  <2>2. \A r : ~Bounds(r) => ~Starts(r)
    BY DEF Bounds
  <2> QED
    BY <2>1, <2>2
<1>3. ASSUME NEW b \in 1..c
      PROVE  Unended(all, b, c) <=> b \in 1..n /\ Unended(recs, b, n)
  <2>1. CASE b \in 1..n
    <3>1. \A m : m \in (b + 1)..c => m \in (b + 1)..n \/ (m \in 1..c /\ n < m)
      BY <1>1
    <3>2. \A m : m \in (b + 1)..n => m \in (b + 1)..c /\ m \in 1..n
      BY <1>1, <2>1
    <3>3. \A m : m \in 1..c /\ n < m => ~Bounds(all[m])
      BY <1>1, <1>2
    <3> QED
      BY <1>2, <2>1, <3>1, <3>2, <3>3 DEF Unended
  <2>2. CASE b \notin 1..n
    BY <1>2, <2>2 DEF Unended
  <2> QED
    BY <2>1, <2>2
<1>4. ASSUME NEW b \in 1..c, NEW k \in 1..c
      PROVE  InRun(all, b, k)
                <=> /\ b \in 1..n
                    /\ k \in 1..n => InRun(recs, b, k)
                    /\ k \notin 1..n => Unended(recs, b, n)
  <2>1. CASE b \notin 1..n
    BY <1>2, <2>1 DEF InRun
  <2>2. CASE b \in 1..n /\ k \in 1..n
    <3>1. \A m : m \in (b + 1)..(k - 1) => m \in 1..n
      BY <1>1, <2>2
    <3> QED
      BY <1>2, <2>2, <3>1 DEF InRun
  <2>3. CASE b \in 1..n /\ k \notin 1..n
    <3>1. b < k /\ ~Starts(all[k]) /\ all[b] = recs[b]
      BY <1>1, <1>2, <2>3
    <3>2. \A m : m \in (b + 1)..(k - 1) => m \in (b + 1)..n \/ (m \in 1..c /\ n < m)
      BY <1>1, <2>3
    <3>3. \A m : m \in (b + 1)..n => m \in (b + 1)..(k - 1) /\ m \in 1..n
      BY <1>1, <1>2, <2>3
    <3>4. \A m : m \in 1..c /\ n < m => ~Bounds(all[m])
      BY <1>1, <1>2
    <3> QED
      BY <1>2, <2>3, <3>1, <3>2, <3>3, <3>4 DEF InRun, Unended
  <2> QED
    BY <2>1, <2>2, <2>3
<1> QED
  BY <1>1, <1>3, <1>4

\* A start or a stop ends the run before it.
LEMMA BoundEndsRun ==
  ASSUME NEW recs \in Seq(ARecord), NEW more \in Seq(ARecord), NEW all, Extends(all, recs, more),
         Len(more) = 1, Bounds(more[1])
  PROVE  /\ \A b \in 1..Len(all) : Unended(all, b, Len(all)) <=> b = Len(all) /\ Starts(all[b])
         /\ \A b, k \in 1..Len(all) : InRun(all, b, k)
                <=> /\ b \in 1..Len(recs)
                    /\ k \in 1..Len(recs) => InRun(recs, b, k)
                    /\ k \notin 1..Len(recs) => Unended(recs, b, Len(recs)) /\ ~Starts(all[k])
<1>1. PICK n \in Nat, c \in Nat : n = Len(recs) /\ c = Len(all) /\ c = n + 1
  BY ExtendsByOne
<1>2. /\ \A i \in 1..n : i \in 1..c /\ all[i] = recs[i]
      /\ c \in 1..c /\ all[c] = more[1] /\ Bounds(all[c])
  BY <1>1, ExtendsByOne
<1>3. ASSUME NEW b \in 1..c
      PROVE  Unended(all, b, c) <=> b = c /\ Starts(all[b])
  <2>1. CASE b = c
    BY <1>1, <2>1 DEF Unended
  <2>2. CASE b # c
    <3>1. c \in (b + 1)..c
      BY <1>1, <2>2
    <3> QED
      BY <1>2, <2>2, <3>1 DEF Unended
  <2> QED
    BY <2>1, <2>2
<1>4. ASSUME NEW b \in 1..c, NEW k \in 1..c
      PROVE  InRun(all, b, k)
                <=> /\ b \in 1..n
                    /\ k \in 1..n => InRun(recs, b, k)
                    /\ k \notin 1..n => Unended(recs, b, n) /\ ~Starts(all[k])
  <2>1. CASE b = c
    <3>1. ~(b < k) /\ b \notin 1..n
      BY <1>1, <2>1
    <3> QED
      BY <3>1 DEF InRun
  <2>2. CASE b \in 1..n /\ k \in 1..n
    <3>1. \A m : m \in (b + 1)..(k - 1) => m \in 1..n
      BY <1>1, <2>2
    <3> QED
      BY <1>2, <2>2, <3>1 DEF InRun
  <2>3. CASE b \in 1..n /\ k = c
    <3>1. b < k /\ all[b] = recs[b] /\ k \notin 1..n /\ k - 1 = n
      BY <1>1, <1>2, <2>3
    <3>2. \A m : m \in (b + 1)..n => m \in 1..n
      BY <1>1, <2>3
    <3> QED
      BY <1>2, <2>3, <3>1, <3>2 DEF InRun, Unended
  <2>4. (b = c \/ b \in 1..n) /\ (k = c \/ k \in 1..n)
    BY <1>1
  <2> QED
    BY <2>1, <2>2, <2>3, <2>4
<1> QED
  BY <1>1, <1>3, <1>4

\* At most one run has not ended.
LEMMA UnendedOnce ==
  ASSUME NEW recs \in Seq(ARecord), NEW b \in 1..Len(recs), NEW c \in 1..Len(recs),
         Unended(recs, b, Len(recs)), Unended(recs, c, Len(recs))
  PROVE  b = c
<1>1. Len(recs) \in Nat
  OBVIOUS
<1>2. ~(b < c)
  <2> SUFFICES ASSUME b < c PROVE FALSE
    OBVIOUS
  <2>1. c \in (b + 1)..Len(recs)
    BY <1>1
  <2> QED
    BY <2>1 DEF Unended, Bounds
<1>3. ~(c < b)
  <2> SUFFICES ASSUME c < b PROVE FALSE
    OBVIOUS
  <2>1. b \in (c + 1)..Len(recs)
    BY <1>1
  <2> QED
    BY <2>1 DEF Unended, Bounds
<1> QED
  BY <1>1, <1>2, <1>3

\* The records of the last run so far are of it.
LEMMA UnendedInRun ==
  ASSUME NEW recs \in Seq(ARecord), NEW b \in 1..Len(recs), Unended(recs, b, Len(recs)),
         NEW k \in 1..Len(recs), b < k
  PROVE  InRun(recs, b, k)
<1>1. Len(recs) \in Nat
  OBVIOUS
<1>2. k \in (b + 1)..Len(recs) /\ \A m \in (b + 1)..(k - 1) : m \in (b + 1)..Len(recs)
  BY <1>1
<1> QED
  BY <1>2 DEF Unended, InRun, Bounds

\* More records of the last run vouch for it up to the latest of their dates.
VouchedNow(units, start, sign) == IF start = NoTime THEN units ELSE units \cup Units(start, sign)
SignNow(start, sign, more) == IF start = NoTime THEN sign ELSE LatestOf(sign, more)

LEMMA VouchedGrows ==
  ASSUME NEW recs \in Seq(ARecord), NEW more \in Seq(ARecord), NEW all, Extends(all, recs, more),
         \A b, k \in 1..Len(all) : InRun(all, b, k)
                <=> /\ b \in 1..Len(recs)
                    /\ k \in 1..Len(recs) => InRun(recs, b, k)
                    /\ k \notin 1..Len(recs) => Unended(recs, b, Len(recs)),
         NEW start, NEW sign, NEW units,
         LastRunIs(recs, start, sign), VouchedAre(recs, units)
  PROVE  VouchedAre(all, VouchedNow(units, start, SignNow(start, sign, more)))
<1>1. PICK n \in Nat, c \in Nat : n = Len(recs) /\ c = Len(all) /\ c = n + Len(more) /\ Len(more) \in Nat
  <2>1. Len(recs) \in Nat /\ Len(all) \in Nat /\ Len(all) = Len(recs) + Len(more) /\ Len(more) \in Nat
    BY DEF Extends
  <2> QED
    BY <2>1
<1>2. /\ \A i \in 1..n : i \in 1..c /\ all[i] = recs[i] /\ At(recs[i]) \in Nat
      /\ \A i \in 1..c : i \in 1..n \/ (i - n \in 1..Len(more) /\ all[i] = more[i - n])
      /\ \A j \in 1..Len(more) : j + n \in 1..c /\ j + n \notin 1..n /\ all[j + n] = more[j] /\ At(more[j]) \in Nat
  <2>1. /\ \A i \in 1..n : i \in 1..c /\ all[i] = recs[i]
        /\ \A i \in 1..c : i \in 1..n \/ (i - n \in 1..Len(more) /\ all[i] = more[i - n])
        /\ \A j \in 1..Len(more) : j + n \in 1..c /\ all[j + n] = more[j]
    BY <1>1, ExtendsProperty
  <2>2. \A j \in 1..Len(more) : j + n \notin 1..n
    BY <1>1
  <2> QED
    BY <1>1, <2>1, <2>2, RecordAt
<1>3. PICK later : later = VouchedNow(units, start, SignNow(start, sign, more))
  OBVIOUS
<1>4. ASSUME NEW b \in 1..n, NEW k \in 1..n
      PROVE  InRun(all, b, k) <=> InRun(recs, b, k)
  BY <1>1, <1>2
<1>5. CASE start = NoTime
  <2>1. \A b, k \in 1..c : InRun(all, b, k) => b \in 1..n /\ k \in 1..n
    BY <1>1, <1>5 DEF LastRunIs
  <2>2. later = units
    BY <1>3, <1>5 DEF VouchedNow
  <2>3. ASSUME NEW t
        PROVE  t \in units <=> \E b, k \in 1..c : InRun(all, b, k) /\ t \in Units(At(all[b]), At(all[k]))
    BY <1>1, <1>2, <1>4, <2>1 DEF VouchedAre
  <2> QED
    BY <1>1, <1>3, <2>2, <2>3 DEF VouchedAre
<1>6. CASE start # NoTime
  <2>1. PICK b \in 1..n : /\ Unended(recs, b, n) /\ start = At(recs[b])
                          /\ \A k \in b..n : At(recs[k]) <= sign
                          /\ \E k \in b..n : At(recs[k]) = sign
    BY <1>1, <1>6 DEF LastRunIs
  <2>2. PICK k0 \in b..n : At(recs[k0]) = sign
    BY <2>1
  <2>3. PICK last : last = LatestOf(sign, more)
    OBVIOUS
  <2>4. /\ k0 \in 1..n /\ sign \in Nat /\ last \in Nat /\ sign <= last /\ start \in Nat
        /\ \A i \in 1..Len(more) : At(more[i]) <= last
        /\ last = sign \/ \E i \in 1..Len(more) : At(more[i]) = last
    <3>1. k0 \in 1..n
      BY <2>2
    <3>2. sign \in Nat /\ start \in Nat
      BY <1>2, <2>1, <2>2, <3>1
    <3> QED
      BY <2>3, <3>1, <3>2, LatestProperty
  <2>5. later = units \cup Units(start, last)
    BY <1>3, <1>6, <2>3 DEF VouchedNow, SignNow
  <2>6. ASSUME NEW t, t \in Units(start, last)
        PROVE  \E k \in 1..c : InRun(all, b, k) /\ t \in Units(At(all[b]), At(all[k]))
    <3>1. t \in Int /\ start <= t /\ t < last
      BY <2>4, <2>6 DEF Units
    <3>2. CASE last = sign
      <4>1. k0 # b
        BY <2>1, <2>2, <2>4, <3>1, <3>2
      <4>2. InRun(recs, b, k0)
        BY <1>1, <2>1, <2>4, <4>1, UnendedInRun
      <4>3. t \in Units(At(all[b]), At(all[k0]))
        BY <1>2, <2>1, <2>2, <2>4, <3>1, <3>2 DEF Units
      <4> QED
        BY <1>2, <1>4, <2>4, <4>2, <4>3
    <3>3. CASE \E i \in 1..Len(more) : At(more[i]) = last
      <4>1. PICK i \in 1..Len(more) : At(more[i]) = last
        BY <3>3
      <4>2. i + n \in 1..c /\ i + n \notin 1..n /\ all[i + n] = more[i]
        BY <1>2
      <4>3. PICK k \in 1..c : k \notin 1..n /\ all[k] = more[i]
        BY <4>2
      <4>4. InRun(all, b, k)
        BY <1>1, <1>2, <2>1, <4>3
      <4>5. t \in Units(At(all[b]), At(all[k]))
        BY <1>2, <2>1, <2>4, <3>1, <4>1, <4>3 DEF Units
      <4> QED
        BY <4>4, <4>5
    <3> QED
      BY <2>4, <3>2, <3>3
  <2>7. ASSUME NEW t, t \in units
        PROVE  \E d, k \in 1..c : InRun(all, d, k) /\ t \in Units(At(all[d]), At(all[k]))
    <3>1. PICK d \in 1..n, k \in 1..n : InRun(recs, d, k) /\ t \in Units(At(recs[d]), At(recs[k]))
      BY <1>1, <2>7 DEF VouchedAre
    <3> QED
      BY <1>2, <1>4, <3>1
  <2>8. ASSUME NEW t, NEW d \in 1..c, NEW k \in 1..c, InRun(all, d, k), t \in Units(At(all[d]), At(all[k]))
        PROVE  t \in later
    <3>1. d \in 1..n
      BY <1>1, <2>8
    <3>2. CASE k \in 1..n
      <4>1. t \in units
        BY <1>1, <1>2, <1>4, <2>8, <3>1, <3>2 DEF VouchedAre
      <4> QED
        BY <2>5, <4>1
    <3>3. CASE k \notin 1..n
      <4>1. d = b
        BY <1>1, <2>1, <2>8, <3>1, <3>3, UnendedOnce
      <4>2. At(all[k]) \in Nat /\ At(all[k]) <= last
        BY <1>2, <2>4, <3>3
      <4>3. t \in Units(start, last)
        BY <1>2, <2>1, <2>4, <2>8, <4>1, <4>2 DEF Units
      <4> QED
        BY <2>5, <4>3
    <3> QED
      BY <3>2, <3>3
  <2>9. b \in 1..c
    BY <1>2
  <2>10. ASSUME NEW t PROVE t \in later <=> \E d, k \in 1..c : InRun(all, d, k) /\ t \in Units(At(all[d]), At(all[k]))
    BY <2>5, <2>6, <2>7, <2>8, <2>9
  <2> QED
    BY <1>1, <1>3, <2>10 DEF VouchedAre
<1> QED
  BY <1>5, <1>6

\* What is recorded between the bounds of runs, and what that vouches for.
LEMMA NotesVouch ==
  ASSUME NEW recs \in Seq(ARecord), NEW more \in Seq(ARecord), NEW all, Extends(all, recs, more),
         \A j \in 1..Len(more) : ~Bounds(more[j]),
         NEW start, NEW sign, NEW units,
         LastRunIs(recs, start, sign), VouchedAre(recs, units)
  PROVE  /\ LastRunIs(all, start, SignNow(start, sign, more))
         /\ VouchedAre(all, VouchedNow(units, start, SignNow(start, sign, more)))
<1>1. /\ \A b \in 1..Len(all) : Unended(all, b, Len(all))
                <=> b \in 1..Len(recs) /\ Unended(recs, b, Len(recs))
      /\ \A b, k \in 1..Len(all) : InRun(all, b, k)
                <=> /\ b \in 1..Len(recs)
                    /\ k \in 1..Len(recs) => InRun(recs, b, k)
                    /\ k \notin 1..Len(recs) => Unended(recs, b, Len(recs))
  BY NotesKeepRuns
<1>2. VouchedAre(all, VouchedNow(units, start, SignNow(start, sign, more)))
  BY <1>1, VouchedGrows
<1>3. CASE start = NoTime
  BY <1>1, <1>2, <1>3 DEF LastRunIs
<1>4. CASE start # NoTime
  <2>1. PICK n \in Nat, c \in Nat : n = Len(recs) /\ c = Len(all) /\ c = n + Len(more) /\ Len(more) \in Nat
    <3>1. Len(recs) \in Nat /\ Len(all) \in Nat /\ Len(all) = Len(recs) + Len(more) /\ Len(more) \in Nat
      BY DEF Extends
    <3> QED
      BY <3>1
  <2>2. /\ \A i \in 1..n : i \in 1..c /\ all[i] = recs[i] /\ At(recs[i]) \in Nat
        /\ \A i \in 1..c : i \in 1..n \/ (i - n \in 1..Len(more) /\ all[i] = more[i - n])
        /\ \A j \in 1..Len(more) : j + n \in 1..c /\ all[j + n] = more[j]
    <3>1. \A i \in 1..n : At(recs[i]) \in Nat
      BY <2>1, RecordAt
    <3>2. /\ \A i \in 1..n : i \in 1..c /\ all[i] = recs[i]
          /\ \A i \in 1..c : i \in 1..n \/ (i - n \in 1..Len(more) /\ all[i] = more[i - n])
          /\ \A j \in 1..Len(more) : j + n \in 1..c /\ all[j + n] = more[j]
      BY <2>1, ExtendsProperty
    <3> QED
      BY <3>1, <3>2
  <2>3. PICK b \in 1..n : /\ Unended(recs, b, n) /\ start = At(recs[b])
                          /\ \A k \in b..n : At(recs[k]) <= sign
                          /\ \E k \in b..n : At(recs[k]) = sign
    BY <1>4, <2>1 DEF LastRunIs
  <2>4. PICK k0 \in b..n : At(recs[k0]) = sign
    BY <2>3
  <2>5. PICK last : last = LatestOf(sign, more)
    OBVIOUS
  <2>6. /\ sign \in Nat /\ last \in Nat /\ sign <= last
        /\ \A i \in 1..Len(more) : At(more[i]) <= last
        /\ last = sign \/ \E i \in 1..Len(more) : At(more[i]) = last
    <3>1. sign \in Nat
      BY <2>2, <2>4
    <3> QED
      BY <2>5, <3>1, LatestProperty
  <2>7. ASSUME NEW k \in b..c PROVE At(all[k]) <= last
    <3>1. k \in 1..c
      BY <2>1, <2>3
    <3>2. CASE k \in 1..n
      <4>1. k \in b..n /\ all[k] = recs[k] /\ At(recs[k]) \in Nat
        BY <2>2, <3>2
      <4> QED
        BY <2>3, <2>6, <4>1
    <3>3. CASE k \notin 1..n
      BY <2>2, <2>6, <3>1, <3>3
    <3> QED
      BY <3>2, <3>3
  <2>8. \E k \in b..c : At(all[k]) = last
    <3>1. CASE last = sign
      <4>1. k0 \in b..c /\ k0 \in 1..n
        BY <2>1, <2>3
      <4> QED
        BY <2>2, <2>4, <3>1, <4>1
    <3>2. CASE \E i \in 1..Len(more) : At(more[i]) = last
      <4>1. PICK i \in 1..Len(more) : At(more[i]) = last
        BY <3>2
      <4>2. i + n \in b..c
        BY <2>1, <2>3
      <4> QED
        BY <2>2, <4>1, <4>2
    <3> QED
      BY <2>6, <3>1, <3>2
  <2>9. b \in 1..c /\ all[b] = recs[b] /\ Unended(all, b, c)
    BY <1>1, <2>1, <2>2, <2>3
  <2>10. LastRunIs(all, start, last)
    BY <1>4, <2>1, <2>3, <2>7, <2>8, <2>9 DEF LastRunIs
  <2> QED
    BY <1>2, <1>4, <2>5, <2>10 DEF SignNow
<1> QED
  BY <1>3, <1>4

\* A stop is the last sign of its run.
LEMMA StopVouches ==
  ASSUME NEW recs \in Seq(ARecord), NEW more \in Seq(ARecord), NEW all, Extends(all, recs, more),
         Len(more) = 1, Stops(more[1]),
         NEW start, NEW sign, NEW units,
         LastRunIs(recs, start, sign), VouchedAre(recs, units), NEW later
  PROVE  /\ LastRunIs(all, NoTime, later)
         /\ VouchedAre(all, VouchedNow(units, start, SignNow(start, sign, more)))
<1>1. Bounds(more[1])
  BY DEF Bounds
<1>2. /\ \A b \in 1..Len(all) : Unended(all, b, Len(all)) <=> b = Len(all) /\ Starts(all[b])
      /\ \A b, k \in 1..Len(all) : InRun(all, b, k)
                <=> /\ b \in 1..Len(recs)
                    /\ k \in 1..Len(recs) => InRun(recs, b, k)
                    /\ k \notin 1..Len(recs) => Unended(recs, b, Len(recs)) /\ ~Starts(all[k])
  BY <1>1, BoundEndsRun
<1>3. \A k \in 1..Len(all) : k \notin 1..Len(recs) => Stops(all[k]) /\ k = Len(all)
  BY ExtendsByOne
<1>4. \A k \in 1..Len(all) : k \notin 1..Len(recs) => ~Starts(all[k])
  BY <1>3 DEF Starts, Stops
<1>5. VouchedAre(all, VouchedNow(units, start, SignNow(start, sign, more)))
  BY <1>2, <1>4, VouchedGrows
<1>6. \A b \in 1..Len(all) : ~Unended(all, b, Len(all))
  <2>1. Len(all) \notin 1..Len(recs)
    BY DEF Extends
  <2> QED
    BY <1>2, <1>4, <2>1
<1> QED
  BY <1>5, <1>6 DEF LastRunIs

\* A start begins a run, and vouches for nothing.
LEMMA StartVouches ==
  ASSUME NEW recs \in Seq(ARecord), NEW more \in Seq(ARecord), NEW all, Extends(all, recs, more),
         Len(more) = 1, Starts(more[1]), NEW units, VouchedAre(recs, units)
  PROVE  LastRunIs(all, At(more[1]), At(more[1])) /\ VouchedAre(all, units)
<1>1. Bounds(more[1])
  BY DEF Bounds
<1>2. /\ \A b \in 1..Len(all) : Unended(all, b, Len(all)) <=> b = Len(all) /\ Starts(all[b])
      /\ \A b, k \in 1..Len(all) : InRun(all, b, k)
                <=> /\ b \in 1..Len(recs)
                    /\ k \in 1..Len(recs) => InRun(recs, b, k)
                    /\ k \notin 1..Len(recs) => Unended(recs, b, Len(recs)) /\ ~Starts(all[k])
  BY <1>1, BoundEndsRun
<1>3. PICK n \in Nat, c \in Nat : n = Len(recs) /\ c = Len(all) /\ c = n + 1
  BY ExtendsByOne
<1>4. /\ all[c] = more[1] /\ \A k \in 1..n : k \in 1..c /\ all[k] = recs[k]
      /\ \A k \in 1..c : k \notin 1..n => k = c
      /\ c \in 1..c
  BY <1>3, ExtendsByOne
<1>5. \A b, k \in 1..c : InRun(all, b, k) <=> b \in 1..n /\ k \in 1..n /\ InRun(recs, b, k)
  BY <1>2, <1>3, <1>4
<1>6. VouchedAre(all, units)
  <2>1. ASSUME NEW t
        PROVE  t \in units <=> \E b, k \in 1..c : InRun(all, b, k) /\ t \in Units(At(all[b]), At(all[k]))
    <3>1. t \in units <=> \E b, k \in 1..n : InRun(recs, b, k) /\ t \in Units(At(recs[b]), At(recs[k]))
      BY <1>3 DEF VouchedAre
    <3>2. (\E b, k \in 1..n : InRun(recs, b, k) /\ t \in Units(At(recs[b]), At(recs[k])))
            => \E b, k \in 1..c : InRun(all, b, k) /\ t \in Units(At(all[b]), At(all[k]))
      BY <1>4, <1>5
    <3>3. (\E b, k \in 1..c : InRun(all, b, k) /\ t \in Units(At(all[b]), At(all[k])))
            => \E b, k \in 1..n : InRun(recs, b, k) /\ t \in Units(At(recs[b]), At(recs[k]))
      BY <1>4, <1>5
    <3> QED
      BY <3>1, <3>2, <3>3
  <2> QED
    BY <1>3, <2>1 DEF VouchedAre
<1>7. At(more[1]) \in Nat
  BY ExtendsByOne
<1>8. Unended(all, c, c) /\ At(all[c]) = At(more[1]) /\ \A k \in c..c : k = c
  BY <1>2, <1>3, <1>4
<1>9. LastRunIs(all, At(more[1]), At(more[1]))
  <2>1. At(more[1]) # NoTime /\ At(more[1]) <= At(more[1]) /\ c \in c..c
    BY <1>7 DEF NoTime
  <2> QED
    BY <1>3, <1>4, <1>8, <2>1 DEF LastRunIs
<1> QED
  BY <1>6, <1>9

\* The kinds of what a cycle records are not those of the bounds of runs, and its dates
\* are those of now, of an unconfirmed condition, or of a condition gone.
LEMMA NotesOfCycle ==
  ASSUME TypeOK, NEW a \in Assessments
  PROVE  \A j \in 1..Len(Records(a)) :
            /\ ~Bounds(Records(a)[j])
            /\ \/ Records(a)[j].ts = Log!Unix(now)
               \/ \E k \in Confirmed(a) : Records(a)[j].ts = Log!Unix(Noted(a, k).firstSeen)
               \/ \E k \in Recovered(a) : Records(a)[j].ts = Log!Unix(ClearSince(k))
<1>1. SUFFICES ASSUME NEW j \in 1..Len(Records(a))
               PROVE  /\ ~Bounds(Records(a)[j])
                      /\ \/ Records(a)[j].ts = Log!Unix(now)
                         \/ \E k \in Confirmed(a) : Records(a)[j].ts = Log!Unix(Noted(a, k).firstSeen)
                         \/ \E k \in Recovered(a) : Records(a)[j].ts = Log!Unix(ClearSince(k))
  OBVIOUS
<1>2. PICK r : r = Records(a)[j]
  OBVIOUS
<1>3. Among(r, Records(a))
  BY <1>2 DEF Among
<1>4. IsNote(r, a)
  BY <1>3, RecordsProperty
<1>5. \A t : Log!Watching(t).event = "watching" /\ Log!Watching(t).ts = Log!Unix(t)
  BY DEF Log!Watching
<1>6. \A k, t : Log!Opened(k, t).event = "opened" /\ Log!Opened(k, t).ts = Log!Unix(t)
  BY DEF Log!Opened
<1>7. \A k, t, u : /\ Log!Escalated(k, u, t).event = "escalated" /\ Log!Escalated(k, u, t).ts = Log!Unix(t)
                   /\ Log!Resolved(k, u, t).event = "resolved" /\ Log!Resolved(k, u, t).ts = Log!Unix(t)
  BY DEF Log!Escalated, Log!Resolved
<1>8. r.event \in {"watching", "opened", "escalated", "resolved"}
      /\ (\/ r.ts = Log!Unix(now)
          \/ \E k \in Confirmed(a) : r.ts = Log!Unix(Noted(a, k).firstSeen)
          \/ \E k \in Recovered(a) : r.ts = Log!Unix(ClearSince(k)))
  <2>1. CASE r = Log!Watching(now)
    BY <1>5, <2>1
  <2>2. ASSUME NEW k \in Confirmed(a), r = Log!Opened(k, Noted(a, k).firstSeen)
        PROVE  r.event = "opened" /\ r.ts = Log!Unix(Noted(a, k).firstSeen)
    BY <1>6, <2>2
  <2>3. ASSUME NEW k \in Recovered(a), r = Log!Resolved(k, open[k].openedAt, ClearSince(k))
        PROVE  r.event = "resolved" /\ r.ts = Log!Unix(ClearSince(k))
    BY <1>7, <2>3
  <2>4. ASSUME NEW k \in Escalated(a), r = Log!Escalated(k, open[k].openedAt, now)
        PROVE  r.event = "escalated" /\ r.ts = Log!Unix(now)
    BY <1>7, <2>4
  <2> QED
    BY <1>4, <2>1, <2>2, <2>3, <2>4 DEF IsNote
<1>9. ~Bounds(r)
  BY <1>8 DEF Bounds, Starts, Stops
<1> QED
  BY <1>2, <1>8, <1>9, Zenon

LEMMA RunsStep ==
  ASSUME TInv, LastRunIs(file, runStart, lastSign), VouchedAre(file, vouched), TrailNext
  PROVE  LastRunIs(file', runStart', lastSign') /\ VouchedAre(file', vouched')
<1>1. /\ file \in Seq(ARecord) /\ TypeOK
      /\ <<Log!Started(now)>> \in Seq(ARecord) /\ <<Log!Stopped(now)>> \in Seq(ARecord)
      /\ \A a \in Assessments : Records(a) \in Seq(ARecord)
  <2>1. TypeOK /\ file \in Seq(ARecord)
    BY DEF TInv, Inv, WellFormed, TrailTyped
  <2>2. /\ Log!Started(now) \in ARecord /\ Log!Stopped(now) \in ARecord
        /\ \A a \in Assessments : Records(a) \in Seq(ARecord)
    BY <2>1, RecordsOf
  <2> QED
    BY <2>1, <2>2
<1>2. CASE Bind \/ BindFails \/ Deliver \/ Abort \/ StoppedUnrecorded \/ Die \/ Pass \/ SetBack
  <2>1. UNCHANGED <<file, runStart, lastSign, vouched>>
    BY <1>2 DEF Bind, BindFails, Deliver, Abort, StoppedUnrecorded, Die, Pass, SetBack, life, witness
  <2> QED
    BY <2>1
<1>3. CASE Start
  <2>1. PICK more \in Seq(ARecord) : more = <<Log!Started(now)>>
    BY <1>1
  <2>2. file' = file \o more
    <3>1. Append(file, Log!Started(now)) = file \o <<Log!Started(now)>>
      BY <1>1
    <3> QED
      BY <1>3, <2>1, <3>1 DEF Start
  <2>3. Len(more) = 1 /\ more[1] = Log!Started(now)
    BY <2>1
  <2>4. Starts(more[1]) /\ At(more[1]) = Log!FromUnix(Log!Unix(now))
    BY <2>3 DEF Starts, At, Log!Started
  <2>5. Extends(file', file, more)
    BY <1>1, <2>2, ConcatExtends
  <2>6. runStart' = At(more[1]) /\ lastSign' = At(more[1]) /\ vouched' = vouched
    BY <1>3, <2>4 DEF Start
  <2> QED
    BY <1>1, <2>3, <2>4, <2>5, <2>6, StartVouches
<1>4. CASE RecordStopped
  <2>1. PICK more \in Seq(ARecord) : more = <<Log!Stopped(now)>>
    BY <1>1
  <2>2. file' = file \o more
    BY <1>4, <2>1 DEF RecordStopped, Vouch
  <2>3. Len(more) = 1 /\ more[1] = Log!Stopped(now)
    BY <2>1
  <2>4. Stops(more[1])
    BY <2>3 DEF Stops, Log!Stopped
  <2>5. Extends(file', file, more)
    BY <1>1, <2>2, ConcatExtends
  <2>6. runStart' = NoTime /\ vouched' = VouchedNow(vouched, runStart, SignNow(runStart, lastSign, more))
    BY <1>4, <2>1, Zenon DEF RecordStopped, Vouch, VouchedNow, SignNow
  <2> QED
    BY <1>1, <2>3, <2>4, <2>5, <2>6, StopVouches
<1>5. ASSUME NEW a \in Assessments, Evaluate(a)
      PROVE  LastRunIs(file', runStart', lastSign') /\ VouchedAre(file', vouched')
  <2>1. PICK more \in Seq(ARecord) : more = Records(a)
    BY <1>1
  <2>2. file' = file \o more
    BY <1>5, <2>1 DEF Evaluate, Vouch
  <2>3. \A j \in 1..Len(more) : ~Bounds(more[j])
    BY <1>1, <2>1, NotesOfCycle
  <2>4. Extends(file', file, more)
    BY <1>1, <2>2, ConcatExtends
  <2>5. /\ runStart' = runStart /\ lastSign' = SignNow(runStart, lastSign, more)
        /\ vouched' = VouchedNow(vouched, runStart, SignNow(runStart, lastSign, more))
    BY <1>5, <2>1, Zenon DEF Evaluate, Vouch, VouchedNow, SignNow
  <2> QED
    BY <1>1, <2>3, <2>4, <2>5, NotesVouch
<1> QED
  BY <1>2, <1>3, <1>4, <1>5 DEF TrailNext

LEMMA MemoryStep ==
  ASSUME TInv, MemoryIs, TrailNext
  PROVE  MemoryIs'
<1>1. /\ file \in Seq(ARecord) /\ TypeOK /\ now \in Nat
      /\ process \in {"down", "starting", "watching", "aborted", "stopped"}
  BY BoundsAssumption DEF TInv, Inv, WellFormed, TrailTyped, TypeOK, Time
<1>2. ASSUME Start \/ Bind \/ BindFails \/ Deliver \/ Abort \/ RecordStopped \/ StoppedUnrecorded
             \/ Die \/ Pass \/ SetBack
      PROVE  /\ cycleAt' # NoTime => lastWatching' # NoTime /\ Elapsed(lastWatching', cycleAt') < Interval
             /\ lastWatching' = lastWatching \/ lastWatching' = NoTime
  <2>1. \/ cycleAt' = cycleAt /\ lastWatching' = lastWatching
        \/ cycleAt' = NoTime /\ lastWatching' = NoTime
    <3>1. Start \/ Bind \/ Abort \/ RecordStopped \/ StoppedUnrecorded => UNCHANGED <<cycleAt, lastWatching>>
      BY DEF Start, Bind, Abort, RecordStopped, StoppedUnrecorded, vars, program
    <3>2. Deliver => UNCHANGED <<cycleAt, lastWatching>>
      BY DEF Deliver, Send, SendOk, SendRejected, SendFailed, life
    <3>3. BindFails \/ Pass \/ SetBack => UNCHANGED <<cycleAt, lastWatching>>
      BY DEF BindFails, Pass, Tick, SetBack, StepBack, program, life
    <3>4. Die => cycleAt' = NoTime /\ lastWatching' = NoTime
      BY DEF Die, Restart
    <3> QED
      BY <1>2, <3>1, <3>2, <3>3, <3>4
  <2> QED
    BY <2>1 DEF MemoryIs
<1>3. ASSUME NEW a \in Assessments, Evaluate(a)
      PROVE  /\ cycleAt' # NoTime => lastWatching' # NoTime /\ Elapsed(lastWatching', cycleAt') < Interval
             /\ lastWatching' # lastWatching => WatchingDue /\ lastWatching' = now
  <2>1. cycleAt' = now /\ lastWatching' = IF WatchingDue THEN now ELSE lastWatching
    BY <1>3 DEF Evaluate, Cycle
  <2>2. CASE WatchingDue
    BY <1>1, <2>1, <2>2, TrailAssumption DEF Elapsed, NoTime
  <2>3. CASE ~WatchingDue
    <3>1. lastWatching # NoTime /\ ~(Elapsed(lastWatching, now) >= Interval)
      BY <2>3 DEF WatchingDue
    <3>2. Elapsed(lastWatching, now) \in Int
      BY <1>1, BoundsAssumption DEF Elapsed, TInv, TrailTyped, MaybeTime, Time, NoTime
    <3> QED
      BY <2>1, <2>3, <3>1, <3>2, TrailAssumption
  <2> QED
    BY <2>2, <2>3
<1>4. cycleAt' # NoTime => lastWatching' # NoTime /\ Elapsed(lastWatching', cycleAt') < Interval
  BY <1>2, <1>3 DEF TrailNext
<1>5. lastWatching' # NoTime => \E i \in 1..Len(file') : file'[i].ts = Log!Unix(lastWatching')
  <2>1. file' = file \/ \E more \in Seq(ARecord) : file' = file \o more
    <3>1. /\ Log!Started(now) \in ARecord /\ Log!Stopped(now) \in ARecord
          /\ \A a \in Assessments : Records(a) \in Seq(ARecord)
      BY <1>1, RecordsOf
    <3>2. /\ <<Log!Started(now)>> \in Seq(ARecord) /\ <<Log!Stopped(now)>> \in Seq(ARecord)
      BY <3>1
    <3> QED
      BY <3>1, <3>2, StepAppends
  <2>2. \A i \in 1..Len(file) : i \in 1..Len(file') /\ file'[i] = file[i]
    BY <1>1, <2>1, ConcatExtends, ExtendsProperty
  <2>3. CASE lastWatching' = lastWatching \/ lastWatching' = NoTime
    BY <2>2, <2>3 DEF MemoryIs
  <2>4. ASSUME NEW a \in Assessments, Evaluate(a), WatchingDue, lastWatching' = now
        PROVE  \E i \in 1..Len(file') : file'[i].ts = Log!Unix(lastWatching')
    <3>1. PICK more \in Seq(ARecord) : more = Records(a)
      BY <1>1, RecordsProperty
    <3>2. Among(Log!Watching(now), more)
      BY <1>1, <2>4, <3>1, RecordsProperty DEF IsNote
    <3>3. PICK j \in 1..Len(more) : more[j] = Log!Watching(now)
      BY <3>2 DEF Among
    <3>4. Extends(file', file, more)
      BY <1>1, <2>4, <3>1, ConcatExtends DEF Evaluate, Vouch
    <3>5. j + Len(file) \in 1..Len(file') /\ file'[j + Len(file)] = more[j]
      BY <1>1, <3>4, ExtendsProperty
    <3>6. Log!Watching(now).ts = Log!Unix(now)
      BY DEF Log!Watching
    <3> QED
      BY <2>4, <3>3, <3>5, <3>6
  <2> QED
    BY <1>2, <1>3, <2>3, <2>4 DEF TrailNext
<1>6. process' \in {"starting", "watching", "aborted"} => runStart' # NoTime
  <2>1. CASE Start
    BY <1>1, <2>1, DateOf DEF Start, NoTime
  <2>2. CASE Bind \/ BindFails \/ Deliver \/ Abort \/ RecordStopped \/ StoppedUnrecorded \/ Die \/ Pass \/ SetBack
    BY <2>2 DEF Bind, BindFails, Deliver, Abort, RecordStopped, StoppedUnrecorded, Die, Pass, SetBack,
                life, witness, MemoryIs
  <2>3. ASSUME NEW a \in Assessments, Evaluate(a)
        PROVE  process' \in {"starting", "watching", "aborted"} => runStart' # NoTime
    BY <2>3 DEF Evaluate, MemoryIs
  <2> QED
    BY <2>1, <2>2, <2>3 DEF TrailNext
<1>7. process' \in {"down", "starting"} =>
        ~polling' /\ DOMAIN open' = {} /\ DOMAIN pending' = {} /\ cycleAt' = NoTime /\ lastWatching' = NoTime
  <2>1. CASE Start \/ BindFails \/ Pass \/ SetBack
    <3>1. UNCHANGED <<polling, open, pending, cycleAt, lastWatching>>
          /\ (process' \in {"down", "starting"} => process \in {"down", "starting"})
      BY <2>1 DEF Start, BindFails, Pass, Tick, SetBack, StepBack, vars, program, life
    <3> QED
      BY <3>1 DEF MemoryIs
  <2>2. CASE Die
    BY <2>2 DEF Die, Restart, EmptyMap
  <2>3. CASE Bind \/ Deliver \/ Abort \/ RecordStopped \/ StoppedUnrecorded
    BY <2>3 DEF Bind, Deliver, Abort, RecordStopped, StoppedUnrecorded, life
  <2>4. ASSUME NEW a \in Assessments, Evaluate(a) PROVE process' \notin {"down", "starting"}
    BY <2>4 DEF Evaluate, MemoryIs
  <2> QED
    BY <2>1, <2>2, <2>3, <2>4 DEF TrailNext
<1> QED
  BY <1>4, <1>5, <1>6, <1>7 DEF MemoryIs

LEMMA UnixKeepsOrder ==
  ASSUME NEW t \in Nat, NEW u \in Nat, t <= u
  PROVE  Log!Unix(t) \in Nat /\ Log!Unix(u) \in Nat /\ Log!Unix(t) <= Log!Unix(u)
<1>1. Grain \in Nat /\ Grain > 0
  BY TrailAssumption
<1> QED
  BY <1>1 DEF Log!Unix

\* A log in order stays in order.
LEMMA InOrderGrows ==
  ASSUME NEW recs \in Seq(ARecord), NEW more \in Seq(ARecord), NEW all, Extends(all, recs, more),
         InOrder(recs), NEW limit \in Nat, \A i \in 1..Len(recs) : recs[i].ts <= limit,
         \A j \in 1..Len(more) : more[j].ts <= limit,
         \A i \in 1..Len(recs), j \in 1..Len(more) : Starts(recs[i]) => recs[i].ts <= more[j].ts,
         \A j \in 1..Len(more) : Bounds(more[j]) => Len(more) = 1 /\ more[j].ts = limit
  PROVE  InOrder(all) /\ \A i \in 1..Len(all) : all[i].ts <= limit
<1>1. PICK n \in Nat, c \in Nat, l \in Nat : n = Len(recs) /\ c = Len(all) /\ l = Len(more) /\ c = n + l
  <2>1. Len(recs) \in Nat /\ Len(all) \in Nat /\ Len(all) = Len(recs) + Len(more) /\ Len(more) \in Nat
    BY DEF Extends
  <2> QED
    BY <2>1
<1>2. /\ \A i \in 1..n : i \in 1..c /\ all[i] = recs[i]
      /\ \A i \in 1..c : i \in 1..n \/ (n < i /\ i - n \in 1..l /\ all[i] = more[i - n])
  BY <1>1, ExtendsProperty
<1>3. \A i \in 1..c : all[i].ts <= limit
  BY <1>1, <1>2
<1>4. ASSUME NEW i \in 1..c, NEW j \in 1..c, i < j, Starts(all[i]) \/ Bounds(all[j])
      PROVE  all[i].ts <= all[j].ts
  <2>1. CASE j \in 1..n
    <3>1. i \in 1..n
      BY <1>1, <1>4, <2>1
    <3> QED
      BY <1>1, <1>2, <1>4, <2>1, <3>1 DEF InOrder
  <2>2. CASE j \notin 1..n /\ i \in 1..n
    <3>1. j - n \in 1..l /\ all[j] = more[j - n] /\ all[i] = recs[i]
      BY <1>2, <2>2
    <3> QED
      BY <1>1, <1>4, <2>2, <3>1
  <2>3. CASE j \notin 1..n /\ i \notin 1..n
    <3>1. i - n \in 1..l /\ j - n \in 1..l /\ all[j] = more[j - n] /\ all[i] = more[i - n]
      BY <1>2, <2>3
    <3>2. l # 1
      BY <1>1, <1>4, <3>1
    <3>3. \A k \in 1..l : ~Bounds(more[k]) /\ ~Starts(more[k])
      BY <1>1, <3>2 DEF Bounds
    <3> QED
      BY <1>4, <3>1, <3>3
  <2> QED
    BY <2>1, <2>2, <2>3
<1> QED
  BY <1>1, <1>3, <1>4 DEF InOrder

\* What a cycle dates its records by, and keeps to date more by.
LEMMA CycleDates ==
  ASSUME TypeOK, Dates, NEW a \in Assessments
  PROVE  /\ Datable(now, now, file)
         /\ \A k \in Confirmed(a) : Datable(Noted(a, k).firstSeen, now, file)
         /\ \A k \in Recovered(a) : Datable(ClearSince(k), now, file)
         /\ \A k \in DOMAIN PendingAfter(a) : Datable(PendingAfter(a)[k].firstSeen, now, file)
         /\ \A k \in DOMAIN OpenAfter(a) :
                OpenAfter(a)[k].clearingSince # NoTime => Datable(OpenAfter(a)[k].clearingSince, now, file)
<1>1. Datable(now, now, file)
  BY BoundsAssumption DEF Datable, Dates, TypeOK, Time
<1>2. /\ DOMAIN a \subseteq Key /\ \A k \in DOMAIN a : a[k] \in Severity
      /\ \A k \in DOMAIN open : open[k] \in Open
      /\ \A k \in DOMAIN pending : pending[k] \in Pending
  BY AssessmentsTyped DEF IsPartialMap, TypeOK
<1>3. ASSUME NEW k PROVE Datable(Noted(a, k).firstSeen, now, file)
  <2>1. Noted(a, k).firstSeen = IF k \in DOMAIN pending THEN pending[k].firstSeen ELSE now
    BY <1>2 DEF Noted, Pending
  <2> QED
    BY <1>1, <2>1 DEF Dates
<1>4. ASSUME NEW k \in DOMAIN open PROVE Datable(ClearSince(k), now, file)
  BY <1>1 DEF ClearSince, Dates
<1>5. ASSUME NEW k \in DOMAIN PendingAfter(a) PROVE Datable(PendingAfter(a)[k].firstSeen, now, file)
  <2>1. /\ k \in DOMAIN pending \cup (DOMAIN a \ DOMAIN open)
        /\ PendingAfter(a)[k] = IF k \in DOMAIN open THEN pending[k] ELSE Noted(a, k)
    BY DEF PendingAfter
  <2>2. CASE k \in DOMAIN open
    BY <2>1, <2>2 DEF Dates
  <2>3. CASE k \notin DOMAIN open
    BY <1>3, <2>1, <2>3
  <2> QED
    BY <2>2, <2>3
<1>6. ASSUME NEW k \in DOMAIN OpenAfter(a), OpenAfter(a)[k].clearingSince # NoTime
      PROVE  Datable(OpenAfter(a)[k].clearingSince, now, file)
  <2>1. /\ k \in (DOMAIN open \ Recovered(a)) \cup Confirmed(a)
        /\ OpenAfter(a)[k] =
            CASE k \in Confirmed(a) ->
                    [severity      |-> Noted(a, k).severity,
                     openedAt      |-> Noted(a, k).firstSeen,
                     clearingSince |-> NoTime]
              [] k \in DOMAIN a \cap DOMAIN open -> Reopened(a, k)
              [] k \in Clearing(a) -> [open[k] EXCEPT !.clearingSince = ClearSince(k)]
              [] OTHER -> open[k]
    BY Zenon DEF OpenAfter
  <2>2. k \notin Confirmed(a)
    <3>1. ASSUME k \in Confirmed(a) PROVE FALSE
      <4>1. k \notin DOMAIN open
        BY <3>1 DEF Confirmed
      <4>2. k \notin DOMAIN a \cap DOMAIN open /\ k \notin Clearing(a)
        BY <4>1 DEF Clearing
      <4>3. OpenAfter(a)[k].clearingSince = NoTime
        BY <2>1, <3>1, <4>2
      <4> QED
        BY <1>6, <4>3
    <3> QED
      BY <3>1
  <2>3. k \in DOMAIN open
    BY <2>1, <2>2
  <2>4. CASE k \in DOMAIN a
    <3>1. k \notin Clearing(a)
      BY <2>4 DEF Clearing
    <3>2. OpenAfter(a)[k] = Reopened(a, k)
      BY <2>1, <2>2, <2>3, <2>4, <3>1
    <3> QED
      BY <1>6, <3>2 DEF Reopened
  <2>5. CASE k \notin DOMAIN a /\ k \in Clearing(a)
    <3>1. OpenAfter(a)[k] = [open[k] EXCEPT !.clearingSince = ClearSince(k)]
      BY <2>1, <2>2, <2>5
    <3>2. open[k] \in Open
      BY <1>2, <2>3
    <3>3. OpenAfter(a)[k].clearingSince = ClearSince(k)
      BY <3>1, <3>2 DEF Open
    <3> QED
      BY <1>4, <2>3, <3>3
  <2>6. CASE k \notin DOMAIN a /\ k \notin Clearing(a)
    <3>1. OpenAfter(a)[k] = open[k]
      BY <2>1, <2>2, <2>6
    <3> QED
      BY <1>6, <2>3, <3>1 DEF Dates
  <2> QED
    BY <2>4, <2>5, <2>6
<1>7. \A k \in Recovered(a) : k \in DOMAIN open
  BY DEF Recovered, Clearing
<1> QED
  BY <1>1, <1>3, <1>4, <1>5, <1>6, <1>7

LEMMA DatesStep ==
  ASSUME TInv, MemoryIs, setBack = 0 => Dates, TrailNext, setBack' = 0
  PROVE  Dates'
<1>1. /\ file \in Seq(ARecord) /\ TypeOK /\ now \in Nat /\ setBack \in Nat
      /\ Log!Unix(now) \in Nat
  <2>1. file \in Seq(ARecord) /\ TypeOK /\ now \in Nat /\ setBack \in Nat
    BY BoundsAssumption DEF TInv, Inv, WellFormed, TrailTyped, TypeOK, Time
  <2> QED
    BY <2>1, UnixKeepsOrder
<1>2. ~SetBack
  <2> SUFFICES ASSUME SetBack PROVE FALSE
    OBVIOUS
  <2>1. PICK d \in 1..Smaller(now, MaxSetBack - setBack) : setBack' = setBack + d
    BY DEF SetBack, StepBack
  <2>2. d \in Nat /\ d > 0
    BY <1>1, <2>1, BoundsAssumption DEF Smaller
  <2> QED
    BY <1>1, <2>1, <2>2
<1>3. setBack = 0
  <2>1. Start \/ Bind \/ BindFails \/ Abort \/ RecordStopped \/ StoppedUnrecorded => setBack' = setBack
    BY DEF Start, Bind, BindFails, Abort, RecordStopped, StoppedUnrecorded, vars, observers
  <2>2. Deliver \/ Die \/ Pass => setBack' = setBack
    BY DEF Deliver, Send, SendOk, SendRejected, SendFailed, Die, Restart, Pass, Tick, observers
  <2>3. \A a \in Assessments : Evaluate(a) => setBack' = setBack
    BY DEF Evaluate, Cycle
  <2> QED
    BY <1>2, <2>1, <2>2, <2>3 DEF TrailNext
<1>4. Dates
  BY <1>3
<1>5. CASE Start
  <2>1. PICK more \in Seq(ARecord) : more = <<Log!Started(now)>>
    <3>1. <<Log!Started(now)>> \in Seq(ARecord)
      BY <1>1, RecordsOf
    <3> QED
      BY <3>1
  <2>2. Len(more) = 1 /\ \A j \in 1..Len(more) : more[j].ts = Log!Unix(now)
    <3>1. Len(more) = 1 /\ more[1] = Log!Started(now)
      BY <2>1
    <3> QED
      BY <3>1 DEF Log!Started
  <2>3. Extends(file', file, more)
    <3>1. Append(file, Log!Started(now)) = file \o <<Log!Started(now)>>
      BY <1>1
    <3> QED
      BY <1>1, <1>5, <2>1, <3>1, ConcatExtends DEF Start
  <2>4. InOrder(file') /\ \A i \in 1..Len(file') : file'[i].ts <= Log!Unix(now)
    <3>1. InOrder(file) /\ \A i \in 1..Len(file) : file[i].ts <= Log!Unix(now)
      BY <1>4 DEF Dates
    <3>2. /\ \A j \in 1..Len(more) : more[j].ts <= Log!Unix(now)
          /\ \A i \in 1..Len(file), j \in 1..Len(more) : Starts(file[i]) => file[i].ts <= more[j].ts
          /\ \A j \in 1..Len(more) : Bounds(more[j]) => Len(more) = 1 /\ more[j].ts = Log!Unix(now)
      BY <1>1, <2>2, <3>1
    <3> QED
      BY <1>1, <2>3, <3>1, <3>2, InOrderGrows
  <2>5. UNCHANGED <<now, open, pending, lastWatching>> /\ DOMAIN open = {} /\ DOMAIN pending = {}
    BY <1>5 DEF Start, vars, program, MemoryIs
  <2> QED
    BY <1>4, <2>4, <2>5 DEF Dates
<1>6. CASE RecordStopped
  <2>1. PICK more \in Seq(ARecord) : more = <<Log!Stopped(now)>>
    <3>1. <<Log!Stopped(now)>> \in Seq(ARecord)
      BY <1>1, RecordsOf
    <3> QED
      BY <3>1
  <2>2. Len(more) = 1 /\ \A j \in 1..Len(more) : more[j].ts = Log!Unix(now) /\ ~Starts(more[j])
    <3>1. Len(more) = 1 /\ more[1] = Log!Stopped(now)
      BY <2>1
    <3> QED
      BY <3>1 DEF Log!Stopped, Starts
  <2>3. Extends(file', file, more)
    BY <1>1, <1>6, <2>1, ConcatExtends DEF RecordStopped, Vouch
  <2>4. InOrder(file') /\ \A i \in 1..Len(file') : file'[i].ts <= Log!Unix(now)
    <3>1. InOrder(file) /\ \A i \in 1..Len(file) : file[i].ts <= Log!Unix(now)
      BY <1>4 DEF Dates
    <3>2. /\ \A j \in 1..Len(more) : more[j].ts <= Log!Unix(now)
          /\ \A i \in 1..Len(file), j \in 1..Len(more) : Starts(file[i]) => file[i].ts <= more[j].ts
          /\ \A j \in 1..Len(more) : Bounds(more[j]) => Len(more) = 1 /\ more[j].ts = Log!Unix(now)
      BY <1>1, <2>2, <3>1
    <3> QED
      BY <1>1, <2>3, <3>1, <3>2, InOrderGrows
  <2>5. UNCHANGED <<now, open, pending, lastWatching>>
    BY <1>6 DEF RecordStopped, vars, program
  <2>6. \A t : Datable(t, now, file) => Datable(t, now', file')
    <3>1. \A i \in 1..Len(file') : Starts(file'[i]) => i \in 1..Len(file) /\ file'[i] = file[i]
      BY <1>1, <2>2, <2>3, StartsOfOld
    <3> QED
      BY <2>5, <3>1 DEF Datable
  <2> QED
    BY <1>4, <2>4, <2>5, <2>6 DEF Dates
<1>7. ASSUME NEW a \in Assessments, Evaluate(a) PROVE Dates'
  <2>1. PICK more \in Seq(ARecord) : more = Records(a)
    BY <1>1, RecordsProperty
  <2>2. /\ Datable(now, now, file)
        /\ \A k \in Confirmed(a) : Datable(Noted(a, k).firstSeen, now, file)
        /\ \A k \in Recovered(a) : Datable(ClearSince(k), now, file)
        /\ \A k \in DOMAIN PendingAfter(a) : Datable(PendingAfter(a)[k].firstSeen, now, file)
        /\ \A k \in DOMAIN OpenAfter(a) :
                OpenAfter(a)[k].clearingSince # NoTime => Datable(OpenAfter(a)[k].clearingSince, now, file)
    BY <1>1, <1>4, CycleDates
  <2>3. \A j \in 1..Len(more) : ~Bounds(more[j]) /\ ~Starts(more[j])
    BY <1>1, <2>1, NotesOfCycle DEF Bounds
  <2>4. ASSUME NEW j \in 1..Len(more) PROVE \E t \in Nat : Datable(t, now, file) /\ more[j].ts = Log!Unix(t)
    <3>1. \/ more[j].ts = Log!Unix(now)
          \/ \E k \in Confirmed(a) : more[j].ts = Log!Unix(Noted(a, k).firstSeen)
          \/ \E k \in Recovered(a) : more[j].ts = Log!Unix(ClearSince(k))
      BY <1>1, <2>1, NotesOfCycle
    <3>2. /\ \A k \in Confirmed(a) : Noted(a, k).firstSeen \in Nat
          /\ \A k \in Recovered(a) : ClearSince(k) \in Nat
      BY <1>1, ConclusionsTyped
    <3> QED
      BY <1>1, <2>2, <3>1, <3>2
  <2>5. \A j \in 1..Len(more) : more[j].ts <= Log!Unix(now)
    <3> SUFFICES ASSUME NEW j \in 1..Len(more) PROVE more[j].ts <= Log!Unix(now)
      OBVIOUS
    <3>1. PICK t \in Nat : Datable(t, now, file) /\ more[j].ts = Log!Unix(t)
      BY <2>4
    <3> QED
      BY <1>1, <3>1, UnixKeepsOrder DEF Datable
  <2>6. \A i \in 1..Len(file), j \in 1..Len(more) : Starts(file[i]) => file[i].ts <= more[j].ts
    BY <2>4 DEF Datable
  <2>7. Extends(file', file, more)
    BY <1>1, <1>7, <2>1, ConcatExtends DEF Evaluate, Vouch
  <2>8. InOrder(file') /\ \A i \in 1..Len(file') : file'[i].ts <= Log!Unix(now)
    BY <1>1, <1>4, <2>3, <2>5, <2>6, <2>7, InOrderGrows DEF Dates
  <2>9. now' = now /\ open' = OpenAfter(a) /\ pending' = PendingAfter(a)
        /\ (lastWatching' = now \/ lastWatching' = lastWatching)
    BY <1>7 DEF Evaluate, Cycle
  <2>10. \A t : Datable(t, now, file) => Datable(t, now', file')
    <3>1. \A i \in 1..Len(file') : Starts(file'[i]) => i \in 1..Len(file) /\ file'[i] = file[i]
      BY <1>1, <2>3, <2>7, StartsOfOld
    <3>2. now' = now
      BY <2>9
    <3> QED
      BY <3>1, <3>2 DEF Datable
  <2>11. lastWatching' <= now'
    BY <1>1, <1>4, <2>9 DEF Dates
  <2>12. \A k \in DOMAIN pending' : Datable(pending'[k].firstSeen, now', file')
    BY <2>2, <2>9, <2>10
  <2>13. \A k \in DOMAIN open' : open'[k].clearingSince # NoTime => Datable(open'[k].clearingSince, now', file')
    BY <2>2, <2>9, <2>10
  <2> QED
    BY <2>8, <2>9, <2>11, <2>12, <2>13 DEF Dates
<1>8. CASE Pass
  <2>1. now' = now + 1 /\ UNCHANGED <<open, pending, file, lastWatching>>
    BY <1>8 DEF Pass, Tick, program, life
  <2>2. Log!Unix(now') \in Nat /\ Log!Unix(now) <= Log!Unix(now')
    BY <1>1, <2>1, UnixKeepsOrder
  <2>3. \A i \in 1..Len(file) : file[i].ts \in Nat
    BY <1>1, RecordAt
  <2>4. /\ lastWatching \in Int
        /\ \A k \in DOMAIN pending : pending[k].firstSeen \in Int
        /\ \A k \in DOMAIN open : open[k].clearingSince \in Int
    <3>1. /\ \A k \in DOMAIN pending : pending[k] \in Pending
          /\ \A k \in DOMAIN open : open[k] \in Open
          /\ lastWatching \in MaybeTime
      BY <1>1 DEF TInv, TrailTyped, TypeOK, IsPartialMap
    <3>2. \A t \in MaybeTime : t \in Int
      BY BoundsAssumption DEF MaybeTime, Time, NoTime
    <3>3. \A t \in Time : t \in Int
      BY BoundsAssumption DEF Time
    <3> QED
      BY <3>1, <3>2, <3>3 DEF Pending, Open
  <2>5. ASSUME NEW t \in Int, Datable(t, now, file) PROVE Datable(t, now', file')
    BY <1>1, <2>1, <2>5 DEF Datable
  <2>6. \A i \in 1..Len(file) : file[i].ts <= Log!Unix(now')
    BY <1>1, <1>4, <2>2, <2>3 DEF Dates
  <2>7. lastWatching' <= now'
    BY <1>1, <1>4, <2>1, <2>4 DEF Dates
  <2>8. /\ \A k \in DOMAIN pending' : Datable(pending'[k].firstSeen, now', file')
        /\ \A k \in DOMAIN open' : open'[k].clearingSince # NoTime => Datable(open'[k].clearingSince, now', file')
    BY <1>4, <2>1, <2>4, <2>5 DEF Dates
  <2> QED
    BY <1>4, <2>1, <2>6, <2>7, <2>8 DEF Dates
<1>9. CASE Die
  <2>1. /\ UNCHANGED <<now, file>> /\ DOMAIN open' = {} /\ DOMAIN pending' = {} /\ lastWatching' = NoTime
    BY <1>9 DEF Die, Restart, EmptyMap
  <2>2. NoTime <= now
    BY <1>1 DEF NoTime
  <2> QED
    BY <1>4, <2>1, <2>2 DEF Dates
<1>10. CASE Bind \/ BindFails \/ Deliver \/ Abort \/ StoppedUnrecorded
  <2>1. UNCHANGED <<now, open, pending, file, lastWatching>>
    <3>1. Bind \/ BindFails \/ Abort \/ StoppedUnrecorded => UNCHANGED <<now, open, pending, file, lastWatching>>
      BY DEF Bind, BindFails, Abort, StoppedUnrecorded, vars, program
    <3>2. Deliver => UNCHANGED <<now, open, pending, file, lastWatching>>
      BY DEF Deliver, Send, SendOk, SendRejected, SendFailed, life
    <3> QED
      BY <1>10, <3>1, <3>2
  <2>2. \A t : Datable(t, now, file) => Datable(t, now', file')
    BY <2>1 DEF Datable
  <2> QED
    BY <1>4, <2>1, <2>2 DEF Dates
<1> QED
  BY <1>2, <1>5, <1>6, <1>7, <1>8, <1>9, <1>10 DEF TrailNext

LEMMA InitRInv == TrailInit => RInv
<1> SUFFICES ASSUME TrailInit PROVE RInv
  OBVIOUS
<1>1. TInv
  BY InitTInv
<1>2. Len(file) = 0 /\ 1..0 = {} /\ file = <<>>
  BY DEF TrailInit
<1>3. LastRunIs(file, runStart, lastSign) /\ VouchedAre(file, vouched) /\ InOrder(file)
  BY <1>2 DEF TrailInit, LastRunIs, VouchedAre, InOrder
<1>4. /\ open = EmptyMap /\ pending = EmptyMap /\ lastWatching = NoTime /\ now = 0 /\ cycleAt = NoTime
      /\ process = "down" /\ polling = FALSE
  BY DEF TrailInit, Init
<1>5. DOMAIN open = {} /\ DOMAIN pending = {}
  BY <1>4 DEF EmptyMap
<1>6. Dates
  BY <1>2, <1>3, <1>4, <1>5 DEF Dates, NoTime
<1>7. MemoryIs
  BY <1>4, <1>5 DEF MemoryIs
<1> QED
  BY <1>1, <1>3, <1>6, <1>7 DEF RInv

LEMMA NextRInv == RInv /\ [TrailNext]_trailVars => RInv'
<1> SUFFICES ASSUME RInv, [TrailNext]_trailVars PROVE RInv'
  OBVIOUS
<1>1. TInv'
  BY NextTInv DEF RInv
<1>2. CASE UNCHANGED trailVars
  <2>1. /\ UNCHANGED <<now, cycleAt, open, pending, setBack, process, polling, file, lastWatching>>
        /\ UNCHANGED <<vouched, runStart, lastSign>>
    BY <1>2 DEF trailVars, vars, program, observers, life, witness
  <2> QED
    BY <1>1, <2>1 DEF RInv, MemoryIs, Dates
<1>3. CASE TrailNext
  <2>1. LastRunIs(file', runStart', lastSign') /\ VouchedAre(file', vouched')
    BY <1>3, RunsStep DEF RInv
  <2>2. MemoryIs'
    BY <1>3, MemoryStep DEF RInv
  <2>3. setBack' = 0 => Dates'
    BY <1>3, DatesStep DEF RInv
  <2> QED
    BY <1>1, <2>1, <2>2, <2>3 DEF RInv
<1> QED
  BY <1>2, <1>3

LEMMA RunsAlways == TrailSpec => []RInv
  BY InitRInv, NextRInv, PTL DEF TrailSpec

-----------------------------------------------------------------------------
(* The same runs, in the records by date *)

\* Sorting by date leaves the bounds of runs where they were among each other, what came
\* before one before it, and what came after a start after it.
LEMMA SortingKeeps ==
  ASSUME NEW recs \in Seq(ARecord), InOrder(recs), NEW at, IsByDate(at, recs),
         NEW m \in 1..Len(recs), NEW n \in 1..Len(recs)
  PROVE  /\ at[m] \in 1..Len(recs) /\ at[n] \in 1..Len(recs)
         /\ at[m] = at[n] <=> m = n
         /\ Bounds(recs[at[n]]) /\ at[m] < at[n] => m < n
         /\ Starts(recs[at[m]]) /\ at[m] < at[n] => m < n
         /\ m <= n => recs[at[m]].ts <= recs[at[n]].ts
<1>1. /\ Len(recs) \in Nat /\ at[m] \in 1..Len(recs) /\ at[n] \in 1..Len(recs)
      /\ recs[at[m]].ts \in Nat /\ recs[at[n]].ts \in Nat
  <2>1. at[m] \in 1..Len(recs) /\ at[n] \in 1..Len(recs)
    BY DEF IsByDate
  <2> QED
    BY <2>1, RecordAt
<1>2. /\ m < n => Precedes(recs, at[m], at[n])
      /\ n < m => Precedes(recs, at[n], at[m])
  BY DEF IsByDate
<1>3. /\ m < n => recs[at[m]].ts < recs[at[n]].ts \/ (recs[at[m]].ts = recs[at[n]].ts /\ at[m] < at[n])
      /\ n < m => recs[at[n]].ts < recs[at[m]].ts \/ (recs[at[n]].ts = recs[at[m]].ts /\ at[n] < at[m])
  BY <1>2 DEF Precedes
<1>4. at[m] < at[n] /\ (Starts(recs[at[m]]) \/ Bounds(recs[at[n]])) => recs[at[m]].ts <= recs[at[n]].ts
  BY <1>1 DEF InOrder
<1> QED
  BY <1>1, <1>3, <1>4

\* So the runs are the same by date as in the order recorded.
LEMMA SameRuns ==
  ASSUME NEW recs \in Seq(ARecord), InOrder(recs), NEW at, IsByDate(at, recs), NEW ev, ev = Log!Dated(recs),
         NEW b \in 1..Len(recs)
  PROVE  /\ Len(ev) = Len(recs) /\ ev[b] = recs[at[b]] /\ at[b] \in 1..Len(recs)
         /\ \A e \in 1..Len(recs) : Run(ev, b, e) <=> Run(recs, at[b], at[e])
         /\ Unended(ev, b, Len(recs)) <=> Unended(recs, at[b], Len(recs))
<1>1. PICK c \in Nat : c = Len(recs)
  OBVIOUS
<1>2. /\ ev \in Seq(ARecord) /\ Len(ev) = c
      /\ \A i \in 1..c : ev[i] = recs[at[i]] /\ at[i] \in 1..c
      /\ \A i \in 1..c : \E n \in 1..c : at[n] = i
  BY <1>1, DatedIsSorted DEF IsByDate
<1>3. \A m, n \in 1..c : /\ at[m] = at[n] <=> m = n
                         /\ Bounds(ev[n]) /\ at[m] < at[n] => m < n
                         /\ Starts(ev[m]) /\ at[m] < at[n] => m < n
  <2>1. ASSUME NEW m \in 1..Len(recs), NEW n \in 1..Len(recs)
        PROVE  /\ at[m] = at[n] <=> m = n
               /\ Bounds(recs[at[n]]) /\ at[m] < at[n] => m < n
               /\ Starts(recs[at[m]]) /\ at[m] < at[n] => m < n
    BY SortingKeeps
  <2> QED
    BY <1>1, <1>2, <2>1
<1>4. ASSUME NEW m \in 1..c, NEW n \in 1..c, Bounds(ev[m]), Bounds(ev[n])
      PROVE  m < n <=> at[m] < at[n]
  <2>1. at[m] \in 1..c /\ at[n] \in 1..c
    BY <1>2
  <2>2. /\ at[m] = at[n] <=> m = n
        /\ at[m] < at[n] => m < n
        /\ at[n] < at[m] => n < m
    BY <1>3, <1>4
  <2>3. PICK x \in 1..c, y \in 1..c : x = at[m] /\ y = at[n]
    BY <2>1
  <2> QED
    BY <2>2, <2>3
<1>5. ASSUME NEW e \in 1..c PROVE Run(ev, b, e) <=> Run(recs, at[b], at[e])
  <2>1. ASSUME Starts(ev[b]), Bounds(ev[e]), b < e
        PROVE  (\A m \in (b + 1)..(e - 1) : ~Bounds(ev[m]))
                <=> \A i \in (at[b] + 1)..(at[e] - 1) : ~Bounds(recs[i])
    <3>1. ASSUME NEW m \in (b + 1)..(e - 1), Bounds(ev[m])
          PROVE  \E i \in (at[b] + 1)..(at[e] - 1) : Bounds(recs[i])
      <4>1. m \in 1..c /\ b < m /\ m < e /\ Bounds(ev[b])
        BY <1>1, <2>1 DEF Bounds
      <4>2. at[b] < at[m] /\ at[m] < at[e]
        BY <1>1, <1>4, <2>1, <3>1, <4>1
      <4>3. at[m] \in (at[b] + 1)..(at[e] - 1)
        <5>1. at[m] \in 1..c /\ at[b] \in 1..c /\ at[e] \in 1..c
          BY <1>1, <1>2, <4>1
        <5> QED
          BY <4>2, <5>1
      <4> QED
        BY <1>2, <3>1, <4>1, <4>3
    <3>2. ASSUME NEW i \in (at[b] + 1)..(at[e] - 1), Bounds(recs[i])
          PROVE  \E m \in (b + 1)..(e - 1) : Bounds(ev[m])
      <4>1. i \in 1..c /\ at[b] < i /\ i < at[e] /\ Bounds(ev[b])
        <5>1. at[b] \in 1..c /\ at[e] \in 1..c
          BY <1>1, <1>2
        <5> QED
          BY <2>1, <5>1 DEF Bounds
      <4>2. PICK m \in 1..c : at[m] = i
        BY <1>2, <4>1
      <4>3. b < m /\ m < e
        BY <1>1, <1>2, <1>4, <2>1, <3>2, <4>1, <4>2
      <4>4. m \in (b + 1)..(e - 1)
        BY <1>1, <4>3
      <4> QED
        BY <1>2, <3>2, <4>2, <4>4
    <3> QED
      BY <3>1, <3>2
  <2>2. Starts(ev[b]) /\ Bounds(ev[e]) => (b < e <=> at[b] < at[e])
    BY <1>1, <1>4 DEF Bounds
  <2> QED
    BY <1>1, <1>2, <2>1, <2>2 DEF Run
<1>6. Unended(ev, b, c) <=> Unended(recs, at[b], c)
  <2>1. ASSUME Starts(ev[b])
        PROVE  (\A m \in (b + 1)..c : ~Bounds(ev[m])) <=> \A i \in (at[b] + 1)..c : ~Bounds(recs[i])
    <3>1. ASSUME NEW m \in (b + 1)..c, Bounds(ev[m])
          PROVE  \E i \in (at[b] + 1)..c : Bounds(recs[i])
      <4>1. m \in 1..c /\ b < m /\ Bounds(ev[b])
        BY <1>1, <2>1 DEF Bounds
      <4>2. at[b] < at[m]
        BY <1>1, <1>4, <2>1, <3>1, <4>1
      <4>3. at[m] \in (at[b] + 1)..c
        <5>1. at[m] \in 1..c /\ at[b] \in 1..c
          BY <1>1, <1>2, <4>1
        <5> QED
          BY <4>2, <5>1
      <4> QED
        BY <1>2, <3>1, <4>1, <4>3
    <3>2. ASSUME NEW i \in (at[b] + 1)..c, Bounds(recs[i])
          PROVE  \E m \in (b + 1)..c : Bounds(ev[m])
      <4>1. i \in 1..c /\ at[b] < i /\ Bounds(ev[b])
        <5>1. at[b] \in 1..c
          BY <1>1, <1>2
        <5> QED
          BY <2>1, <5>1 DEF Bounds
      <4>2. PICK m \in 1..c : at[m] = i
        BY <1>2, <4>1
      <4>3. b < m
        BY <1>1, <1>2, <1>4, <2>1, <3>2, <4>1, <4>2
      <4>4. m \in (b + 1)..c
        BY <1>1, <4>3
      <4> QED
        BY <1>2, <3>2, <4>2, <4>4
    <3> QED
      BY <3>1, <3>2
  <2> QED
    BY <1>1, <1>2, <2>1 DEF Unended
<1> QED
  BY <1>1, <1>2, <1>5, <1>6

\* A run ends, or it has not ended yet.
LEMMA RunEnds ==
  ASSUME NEW recs \in Seq(ARecord), NEW b \in 1..Len(recs), Starts(recs[b])
  PROVE  Unended(recs, b, Len(recs)) \/ \E e \in 1..Len(recs) : Run(recs, b, e)
<1> DEFINE later == {m \in (b + 1)..Len(recs) : Bounds(recs[m])}
<1>1. Len(recs) \in Nat /\ later \subseteq Nat
  OBVIOUS
<1>2. CASE later = {}
  BY <1>2 DEF Unended
<1>3. CASE later # {}
  <2> HIDE DEF later
  <2>1. PICK e \in later : \A m \in later : e <= m
    BY <1>1, <1>3, FirstExists
  <2> USE DEF later
  <2>2. e \in (b + 1)..Len(recs) /\ Bounds(recs[e]) /\ e \in 1..Len(recs) /\ b < e
    BY <1>1, <2>1
  <2>3. ASSUME NEW m \in (b + 1)..(e - 1) PROVE ~Bounds(recs[m])
    <3>1. m \in (b + 1)..Len(recs) /\ ~(e <= m)
      BY <1>1, <2>2
    <3> QED
      BY <2>1, <3>1
  <2> HIDE DEF later
  <2> QED
    BY <2>2, <2>3 DEF Run
<1> QED
  BY <1>2, <1>3

\* The records as a report reads them.
ByDate(at, ev) ==
    /\ IsByDate(at, file)
    /\ ev = Events
    /\ Len(ev) = Len(file)
    /\ Covers(Spans, ev, now)
    /\ \A n \in 1..Len(file) : ev[n] = file[at[n]] /\ at[n] \in 1..Len(file) /\ At(ev[n]) \in Nat
    /\ \A i \in 1..Len(file) : \E n \in 1..Len(file) : at[n] = i
    /\ \A m, n \in 1..Len(file) : m <= n => At(ev[m]) <= At(ev[n])

LEMMA ReadByDate ==
  ASSUME TInv
  PROVE  /\ \E at, ev : ByDate(at, ev)
         /\ file \in Seq(ARecord) /\ Len(file) \in Nat /\ now \in Nat
<1>1. /\ Events \in Seq(ARecord) /\ Sorted(Events) /\ Len(Events) = Len(file)
      /\ Covers(Spans, Events, now) /\ now \in Nat
  BY SpansOfRuns
<1>2. file \in Seq(ARecord) /\ Len(file) \in Nat
  BY DEF TInv, TrailTyped
<1>3. PICK at : IsByDate(at, file)
  BY <1>2, DatedByDate
<1>4. PICK ev : ev = Events
  OBVIOUS
<1>5. ev = [n \in 1..Len(file) |-> file[at[n]]]
      /\ (\A n \in 1..Len(file) : at[n] \in 1..Len(file))
      /\ \A i \in 1..Len(file) : \E n \in 1..Len(file) : at[n] = i
  BY <1>3, <1>4 DEF IsByDate, Events
<1>6. \A n \in 1..Len(file) : ev[n] = file[at[n]] /\ At(ev[n]) \in Nat
  BY <1>1, <1>4, <1>5, RecordAt
<1>7. \A m, n \in 1..Len(file) : m <= n => At(ev[m]) <= At(ev[n])
  BY <1>1, <1>4, RecordAt DEF Sorted
<1>8. ByDate(at, ev)
  BY <1>1, <1>3, <1>4, <1>5, <1>6, <1>7 DEF ByDate
<1> QED
  BY <1>1, <1>2, <1>8

\* What is claimed are the units before now of a span.
LEMMA ClaimedBySpan ==
  ASSUME Spans \in Seq(Span), NEW t
  PROVE  t \in Claimed <=> /\ t \in Units(0, now)
                           /\ \E i \in 1..Len(Spans) : t \in Units(Spans[i].from, Spans[i].to)
<1>1. PICK spans : spans = Spans
  OBVIOUS
<1>2. DOMAIN spans = 1..Len(spans)
  BY <1>1
<1>3. t \in UnitsOf(spans) <=> /\ t \in Units(0, now)
                               /\ \E i \in DOMAIN spans : t \in Units(spans[i].from, spans[i].to)
  <2>1. UnitsOf(spans) = Units(0, now) \cap UNION {Units(spans[i].from, spans[i].to) : i \in DOMAIN spans}
    BY DEF UnitsOf
  <2>2. t \in UNION {Units(spans[i].from, spans[i].to) : i \in DOMAIN spans}
            <=> \E i \in DOMAIN spans : t \in Units(spans[i].from, spans[i].to)
    BY Zenon
  <2> QED
    BY <2>1, <2>2
<1> QED
  BY <1>1, <1>2, <1>3, Zenon DEF Claimed

\* The last run is claimed up to the last date, and up to now if that is not an
\* interval ago.
LEMMA LastRunClaimed ==
  ASSUME RInv, setBack = 0, NEW at, NEW ev, ByDate(at, ev),
         NEW b \in 1..Len(file), Unended(file, at[b], Len(file)), NEW t \in Units(At(ev[b]), now),
         t < At(ev[Len(file)]) \/ now - At(ev[Len(file)]) <= Interval
  PROVE  t \in Claimed
<1>1. /\ file \in Seq(ARecord) /\ Len(file) \in Nat /\ now \in Nat /\ InOrder(file)
      /\ IsByDate(at, file) /\ ev = Log!Dated(file) /\ Len(ev) = Len(file) /\ Covers(Spans, ev, now)
      /\ Interval \in Nat
  <2>1. TInv /\ Dates
    BY DEF RInv
  <2> QED
    BY <2>1, ReadByDate, TrailAssumption DEF ByDate, Dates, Events
<1>2. At(ev[b]) \in Nat /\ At(ev[Len(file)]) \in Nat /\ t \in Int /\ At(ev[b]) <= t /\ t < now
  <2>1. Len(file) \in 1..Len(file)
    BY <1>1
  <2>2. At(ev[b]) \in Nat /\ At(ev[Len(file)]) \in Nat
    BY <2>1 DEF ByDate
  <2> QED
    BY <1>1, <2>2 DEF Units
<1>3. Unended(ev, b, Len(file))
  BY <1>1, SameRuns
<1>4. PICK spans : spans = Spans
  OBVIOUS
<1>5. PICK i \in 1..Len(spans) : IsLastRun(ev, b, spans[i], now)
  BY <1>1, <1>3, <1>4 DEF Covers
<1>6. spans[i].from = At(ev[b]) /\ spans[i].to = LastsTo(ev, b, now)
  BY <1>5 DEF IsLastRun
<1>7. LastsTo(ev, b, now) \in Int /\ t < LastsTo(ev, b, now)
  BY <1>1, <1>2 DEF LastsTo
<1>8. t \in Units(spans[i].from, spans[i].to) /\ t \in Units(0, now)
  BY <1>1, <1>2, <1>6, <1>7 DEF Units
<1>9. Spans \in Seq(Span)
  BY <1>1 DEF Covers
<1> QED
  BY <1>4, <1>8, <1>9, ClaimedBySpan

\* A run that has ended is claimed up to its end.
LEMMA EndedRunClaimed ==
  ASSUME NEW ev, Covers(Spans, ev, now), NEW b \in 1..Len(ev), NEW e \in 1..Len(ev), Run(ev, b, e),
         NEW t \in Units(0, now), t \in Units(At(ev[b]), EndsAt(ev, e))
  PROVE  t \in Claimed
<1>1. PICK spans : spans = Spans
  OBVIOUS
<1>2. PICK i \in 1..Len(spans) : IsSpanOf(ev, b, e, spans[i])
  BY <1>1 DEF Covers
<1>3. t \in Units(spans[i].from, spans[i].to)
  BY <1>2 DEF IsSpanOf
<1>4. Spans \in Seq(Span)
  BY DEF Covers
<1> QED
  BY <1>1, <1>3, <1>4, ClaimedBySpan

\* A record that vouches for a run is, by date, before the one that ends the run.
LEMMA ClaimedToLast ==
  ASSUME NEW recs \in Seq(ARecord), InOrder(recs), NEW at, IsByDate(at, recs), NEW ev, ev = Log!Dated(recs),
         NEW b \in 1..Len(recs), NEW k \in 1..Len(recs), NEW e \in 1..Len(recs),
         InRun(recs, at[b], at[k]), Run(ev, b, e)
  PROVE  At(ev[k]) <= EndsAt(ev, e)
<1>1. PICK c \in Nat : c = Len(recs)
  OBVIOUS
<1>2. /\ ev \in Seq(ARecord) /\ Len(ev) = c /\ Sorted(ev)
      /\ \A i \in 1..c : ev[i] = recs[at[i]] /\ at[i] \in 1..c
  BY <1>1, DatedIsSorted DEF IsByDate
<1>3. /\ \A i \in 1..c : At(ev[i]) \in Nat
      /\ \A m, n \in 1..c : m <= n => At(ev[m]) <= At(ev[n])
  BY <1>2, RecordAt DEF Sorted
<1>4. at[b] < at[k] /\ ~Starts(ev[k]) /\ Starts(ev[b])
      /\ \A m \in (at[b] + 1)..(at[k] - 1) : ~Bounds(recs[m])
  BY <1>1, <1>2 DEF InRun
<1>5. at[b] < at[e] /\ Bounds(ev[e]) /\ b < e
  <2>1. Run(recs, at[b], at[e])
    BY <1>1, SameRuns
  <2> QED
    BY <2>1 DEF Run
<1>6. at[b] \in 1..c /\ at[k] \in 1..c /\ at[e] \in 1..c
  BY <1>1, <1>2
<1>7. ~(at[e] < at[k])
  <2> SUFFICES ASSUME at[e] < at[k] PROVE FALSE
    OBVIOUS
  <2>1. at[e] \in (at[b] + 1)..(at[k] - 1)
    BY <1>5, <1>6
  <2>2. Bounds(recs[at[e]])
    BY <1>1, <1>2, <1>5
  <2> QED
    BY <1>4, <2>1, <2>2
<1>8. at[k] = at[e] => k = e
  BY <1>1, SortingKeeps
<1>9. at[k] < at[e] => k < e
  <2>1. Bounds(recs[at[e]])
    BY <1>1, <1>2, <1>5
  <2> QED
    BY <1>1, <2>1, SortingKeeps
<1>10. k = e \/ k < e
  BY <1>6, <1>7, <1>8, <1>9
<1>11. CASE Stops(ev[e])
  BY <1>1, <1>3, <1>10, <1>11 DEF EndsAt
<1>12. CASE ~Stops(ev[e])
  <2>1. Starts(ev[e])
    BY <1>5, <1>12 DEF Bounds
  <2>2. k < e
    BY <1>4, <1>10, <2>1
  <2>3. e - 1 \in 1..c /\ k <= e - 1
    BY <1>1, <2>2
  <2> QED
    BY <1>1, <1>3, <1>12, <2>3 DEF EndsAt
<1> QED
  BY <1>11, <1>12

\* No time a record vouches for is lost, however many runs came after it, for any
\* interval and any grain of the dates: coverage reads the records by date, and the
\* runs are the same by date as in the order they were recorded.
THEOREM VouchedIsClaimedAlways == TrailSpec => []VouchedIsClaimed
<1>1. RInv => VouchedIsClaimed
  <2> SUFFICES ASSUME RInv, setBack = 0, NEW t \in vouched, t \in Units(0, now) PROVE t \in Claimed
    BY DEF VouchedIsClaimed
  <2>1. TInv /\ InOrder(file) /\ VouchedAre(file, vouched)
    BY DEF RInv, Dates
  <2>2. file \in Seq(ARecord) /\ Len(file) \in Nat /\ now \in Nat
    BY <2>1, ReadByDate
  <2>3. PICK at, ev : ByDate(at, ev)
    BY <2>1, ReadByDate
  <2>4. PICK c \in Nat : c = Len(file)
    BY <2>2
  <2>5. /\ IsByDate(at, file) /\ ev = Log!Dated(file) /\ Len(ev) = c /\ Covers(Spans, ev, now)
        /\ \A n \in 1..c : ev[n] = file[at[n]] /\ at[n] \in 1..c /\ At(ev[n]) \in Nat
        /\ \A i \in 1..c : \E n \in 1..c : at[n] = i
        /\ \A m, n \in 1..c : m <= n => At(ev[m]) <= At(ev[n])
    BY <2>3, <2>4 DEF ByDate, Events
  <2>6. PICK i, j \in 1..c : InRun(file, i, j) /\ t \in Units(At(file[i]), At(file[j]))
    BY <2>1, <2>4 DEF VouchedAre
  <2>7. PICK b \in 1..c : at[b] = i
    BY <2>5, Zenon
  <2>8. PICK k \in 1..c : at[k] = j
    BY <2>5, Zenon
  <2>9. InRun(file, at[b], at[k]) /\ t \in Units(At(ev[b]), At(ev[k])) /\ Starts(ev[b])
    BY <2>5, <2>6, <2>7, <2>8 DEF InRun
  <2>10. At(ev[b]) \in Nat /\ At(ev[k]) \in Nat /\ t \in Int /\ At(ev[b]) <= t /\ t < At(ev[k]) /\ t < now
    <3>1. At(ev[b]) \in Nat /\ At(ev[k]) \in Nat
      BY <2>5
    <3> QED
      BY <2>2, <2>9, <3>1 DEF Units
  <2>11. ev \in Seq(ARecord)
    BY <2>2, <2>5, DatedIsSorted
  <2>12. CASE Unended(ev, b, c)
    <3>1. Unended(file, at[b], Len(file))
      BY <2>1, <2>2, <2>4, <2>5, <2>12, SameRuns
    <3>2. c \in 1..c /\ k <= c
      BY <2>4
    <3>3. At(ev[k]) <= At(ev[c]) /\ At(ev[c]) \in Nat
      BY <2>5, <3>2
    <3>4. t < At(ev[Len(file)]) /\ t \in Units(At(ev[b]), now)
      BY <2>2, <2>4, <2>10, <3>3 DEF Units
    <3> QED
      BY <2>3, <2>4, <3>1, <3>4, LastRunClaimed
  <2>13. CASE \E e \in 1..c : Run(ev, b, e)
    <3>1. PICK e \in 1..c : Run(ev, b, e)
      BY <2>13
    <3>2. At(ev[k]) <= EndsAt(ev, e)
      BY <2>1, <2>2, <2>4, <2>5, <2>9, <3>1, ClaimedToLast
    <3>3. EndsAt(ev, e) \in Nat
      <4>1. e - 1 \in 1..c
        BY <2>4, <3>1 DEF Run
      <4> QED
        BY <2>5, <4>1 DEF EndsAt
    <3>4. t \in Units(At(ev[b]), EndsAt(ev, e))
      BY <2>10, <3>2, <3>3 DEF Units
    <3> QED
      BY <2>5, <3>1, <3>4, EndedRunClaimed
  <2> QED
    BY <2>5, <2>9, <2>11, <2>12, <2>13, RunEnds
<1> QED
  BY <1>1, RunsAlways, PTL

\* Some record of a run that is dated after t shows that run to have lived through t.
VouchedBy(recs, t) ==
    \E i, j \in 1..Len(recs) : InRun(recs, i, j) /\ t \in Units(At(recs[i]), At(recs[j]))

\* A record that comes after a start by date is of its run, or of a later one.
LEMMA VouchedByRecord ==
  ASSUME NEW recs \in Seq(ARecord), InOrder(recs), NEW at, IsByDate(at, recs), NEW ev, ev = Log!Dated(recs),
         NEW b \in 1..Len(recs), NEW k \in 1..Len(recs), Starts(ev[b]),
         NEW t, t \in Units(At(ev[b]), At(ev[k]))
  PROVE  /\ at[b] < at[k] /\ at[b] \in 1..Len(recs) /\ at[k] \in 1..Len(recs)
         /\ InRun(recs, at[b], at[k]) => VouchedBy(recs, t)
<1>1. PICK c \in Nat : c = Len(recs)
  OBVIOUS
<1>2. ev[b] = recs[at[b]] /\ ev[k] = recs[at[k]] /\ at[b] \in 1..c /\ at[k] \in 1..c
  BY <1>1, SameRuns
<1>3. At(ev[b]) \in Nat /\ At(ev[k]) \in Nat /\ (recs[at[b]].ts <= recs[at[k]].ts <=> At(ev[b]) <= At(ev[k]))
      /\ (recs[at[k]].ts <= recs[at[b]].ts <=> At(ev[k]) <= At(ev[b]))
  BY <1>1, <1>2, RecordAt
<1>4. ~(At(ev[k]) <= At(ev[b]))
  BY <1>3 DEF Units
<1>5. at[b] # at[k]
  BY <1>2, <1>3, <1>4
<1>6. ~(at[k] < at[b])
  BY <1>1, <1>2, <1>3, <1>4 DEF InOrder, Bounds
<1>7. at[b] < at[k]
  BY <1>2, <1>5, <1>6
<1> QED
  BY <1>1, <1>2, <1>7 DEF VouchedBy

\* What an ended run is claimed for, a record of it vouches for.
LEMMA EndedRunVouched ==
  ASSUME NEW recs \in Seq(ARecord), InOrder(recs), NEW at, IsByDate(at, recs), NEW ev, ev = Log!Dated(recs),
         NEW b \in 1..Len(recs), NEW e \in 1..Len(recs), Run(ev, b, e),
         NEW t, t \in Units(At(ev[b]), EndsAt(ev, e))
  PROVE  VouchedBy(recs, t)
<1>1. PICK c \in Nat : c = Len(recs)
  OBVIOUS
<1>2. /\ Starts(ev[b]) /\ Bounds(ev[e]) /\ b < e
      /\ \A m \in (b + 1)..(e - 1) : ~Bounds(ev[m])
  BY DEF Run
<1>3. Run(recs, at[b], at[e])
  BY <1>1, SameRuns
<1>4. /\ at[b] < at[e] /\ Starts(recs[at[b]])
      /\ \A m \in (at[b] + 1)..(at[e] - 1) : ~Bounds(recs[m])
  BY <1>3 DEF Run
<1>5. \A n \in 1..c : ev[n] = recs[at[n]] /\ at[n] \in 1..c
  BY <1>1, SameRuns
<1>6. CASE Stops(ev[e])
  <2>1. t \in Units(At(ev[b]), At(ev[e]))
    BY <1>6 DEF EndsAt
  <2>2. ~Starts(recs[at[e]])
    BY <1>1, <1>5, <1>6 DEF Starts, Stops
  <2>3. InRun(recs, at[b], at[e])
    BY <1>4, <2>2 DEF InRun
  <2> QED
    BY <1>2, <2>1, <2>3, VouchedByRecord
<1>7. CASE ~Stops(ev[e])
  <2>1. PICK k \in 1..c : k = e - 1
    BY <1>1, <1>2
  <2>2. t \in Units(At(ev[b]), At(ev[k])) /\ Starts(ev[e])
    BY <1>2, <1>7, <2>1 DEF EndsAt, Bounds
  <2>3. /\ at[b] < at[k]
        /\ InRun(recs, at[b], at[k]) => VouchedBy(recs, t)
    BY <1>1, <1>2, <2>2, VouchedByRecord
  <2>4. at[k] \in 1..c /\ at[e] \in 1..c /\ at[b] \in 1..c
    BY <1>1, <1>5
  <2>5. ~(at[e] < at[k]) /\ at[e] # at[k]
    <3>1. Starts(recs[at[e]])
      BY <1>1, <1>5, <2>2
    <3> QED
      BY <1>1, <2>1, <3>1, SortingKeeps
  <2>6. at[k] \in (at[b] + 1)..(at[e] - 1) /\ \A m \in (at[b] + 1)..(at[k] - 1) : m \in (at[b] + 1)..(at[e] - 1)
    BY <2>3, <2>4, <2>5
  <2>7. InRun(recs, at[b], at[k])
    BY <1>4, <2>3, <2>6 DEF InRun, Bounds
  <2> QED
    BY <2>3, <2>7
<1> QED
  BY <1>6, <1>7

\* What the last run is claimed for up to the last date, a record of it vouches for.
LEMMA LastRunVouched ==
  ASSUME NEW recs \in Seq(ARecord), InOrder(recs), NEW at, IsByDate(at, recs), NEW ev, ev = Log!Dated(recs),
         NEW b \in 1..Len(recs), Unended(ev, b, Len(recs)),
         NEW t, t \in Units(At(ev[b]), At(ev[Len(recs)]))
  PROVE  VouchedBy(recs, t)
<1>1. PICK c \in 1..Len(recs) : c = Len(recs)
  OBVIOUS
<1>2. Unended(recs, at[b], Len(recs)) /\ at[b] \in 1..Len(recs)
  BY SameRuns
<1>3. Starts(ev[b])
  BY DEF Unended
<1>4. /\ at[b] < at[c] /\ at[c] \in 1..Len(recs)
      /\ InRun(recs, at[b], at[c]) => VouchedBy(recs, t)
  BY <1>1, <1>3, VouchedByRecord
<1>5. InRun(recs, at[b], at[c])
  BY <1>2, <1>4, UnendedInRun
<1> QED
  BY <1>4, <1>5

\* The last date of the log is that of the last record of the last run.
LEMMA LastDate ==
  ASSUME RInv, setBack = 0, NEW at, NEW ev, ByDate(at, ev),
         NEW b \in 1..Len(file), Unended(file, at[b], Len(file))
  PROVE  /\ runStart # NoTime /\ runStart = At(ev[b])
         /\ lastSign = At(ev[Len(file)]) /\ lastSign \in Nat
<1>1. /\ file \in Seq(ARecord) /\ InOrder(file) /\ LastRunIs(file, runStart, lastSign)
      /\ IsByDate(at, file) /\ ev = Log!Dated(file)
  BY ReadByDate DEF RInv, Dates, ByDate, Events
<1>2. PICK c \in 1..Len(file) : c = Len(file) /\ c \in Nat
  BY <1>1
<1>3. /\ \A n \in 1..c : ev[n] = file[at[n]] /\ at[n] \in 1..c /\ At(ev[n]) \in Nat
      /\ \A i \in 1..c : \E n \in 1..c : at[n] = i
      /\ \A m, n \in 1..c : m <= n => At(ev[m]) <= At(ev[n])
  BY <1>2 DEF ByDate
<1>4. runStart # NoTime
  BY <1>1, <1>2, <1>3 DEF LastRunIs
<1>5. PICK s \in 1..Len(file) :
        /\ Unended(file, s, Len(file))
        /\ runStart = At(file[s])
        /\ \A k \in s..Len(file) : At(file[k]) <= lastSign
        /\ \E k \in s..Len(file) : At(file[k]) = lastSign
  BY <1>1, <1>4 DEF LastRunIs
<1>6. s = at[b] /\ runStart = At(ev[b])
  <2>1. s = at[b]
    BY <1>1, <1>2, <1>3, <1>5, UnendedOnce
  <2> QED
    BY <1>2, <1>3, <1>5, <2>1
<1>7. PICK k \in s..c : At(file[k]) = lastSign
  BY <1>2, <1>5
<1>8. PICK n \in 1..c : at[n] = k
  <2>1. k \in 1..c
    BY <1>2
  <2> QED
    BY <1>3, <2>1
<1>9. lastSign \in Nat /\ lastSign <= At(ev[c])
  <2>1. n \in 1..c /\ c \in 1..c /\ n <= c
    BY <1>2
  <2>2. At(ev[n]) <= At(ev[c]) /\ At(ev[n]) \in Nat /\ ev[n] = file[k]
    BY <1>3, <1>8, <2>1
  <2> QED
    BY <1>7, <2>2
<1>10. At(ev[c]) <= lastSign
  <2>1. PICK l \in 1..c : l = at[c] /\ ev[c] = file[l]
    BY <1>2, <1>3
  <2>2. CASE s <= l
    <3>1. l \in s..Len(file)
      BY <1>2, <2>2
    <3> QED
      BY <1>5, <2>1, <3>1
  <2>3. CASE ~(s <= l)
    <3>1. l < s
      BY <1>2, <2>3
    <3>2. Starts(file[s]) /\ Bounds(file[s])
      BY <1>5 DEF Unended, Bounds
    <3>3. file[l].ts <= file[s].ts
      BY <1>1, <1>2, <3>1, <3>2 DEF InOrder
    <3>4. At(file[l]) <= At(file[s]) /\ At(file[l]) \in Nat /\ At(file[s]) \in Nat
      BY <1>1, <1>2, <3>3, RecordAt
    <3>5. At(file[s]) <= lastSign
      <4>1. s \in s..Len(file)
        BY <1>2
      <4> QED
        BY <1>5, <4>1
    <3> QED
      BY <1>9, <2>1, <3>4, <3>5
  <2> QED
    BY <2>2, <2>3
<1>11. At(ev[c]) \in Nat
  BY <1>2, <1>3
<1> QED
  BY <1>2, <1>4, <1>6, <1>9, <1>10, <1>11

\* Nothing is claimed that no record of that run vouches for, but for the end of a run
\* that is taken to be alive: coverage gives a run that never stopped its last sign of
\* life, and a live one no more than an interval past it.
THEOREM ClaimsAreVouchedAlways == TrailSpec => []ClaimsAreVouched
<1>1. RInv => ClaimsAreVouched
  <2> SUFFICES ASSUME RInv, setBack = 0, NEW t \in Claimed
               PROVE  t \in vouched \/ (runStart # NoTime /\ lastSign <= t /\ now <= lastSign + Interval)
    BY DEF ClaimsAreVouched
  <2>1. TInv /\ InOrder(file) /\ VouchedAre(file, vouched)
    BY DEF RInv, Dates
  <2>2. file \in Seq(ARecord) /\ Len(file) \in Nat /\ now \in Nat /\ Interval \in Nat
    BY <2>1, ReadByDate, TrailAssumption
  <2>3. PICK at, ev : ByDate(at, ev)
    BY <2>1, ReadByDate
  <2>4. PICK c \in Nat : c = Len(file)
    BY <2>2
  <2>5. /\ IsByDate(at, file) /\ ev = Log!Dated(file) /\ Len(ev) = c /\ Covers(Spans, ev, now)
        /\ \A n \in 1..c : ev[n] = file[at[n]] /\ at[n] \in 1..c /\ At(ev[n]) \in Nat
    BY <2>3, <2>4 DEF ByDate, Events
  <2>6. Spans \in Seq(Span)
    BY <2>5 DEF Covers
  <2>7. PICK spans : spans = Spans
    OBVIOUS
  <2>8. PICK i \in 1..Len(spans) : t \in Units(0, now) /\ t \in Units(spans[i].from, spans[i].to)
    BY <2>6, <2>7, ClaimedBySpan
  <2>9. VouchedBy(file, t) => t \in vouched
    BY <2>1 DEF VouchedAre, VouchedBy
  <2>10. CASE \E b, e \in 1..c : IsSpanOf(ev, b, e, spans[i])
    <3>1. PICK b \in 1..c, e \in 1..c : IsSpanOf(ev, b, e, spans[i])
      BY <2>10
    <3>2. Run(ev, b, e) /\ t \in Units(At(ev[b]), EndsAt(ev, e))
      BY <2>8, <3>1 DEF IsSpanOf
    <3>3. VouchedBy(file, t)
      BY <2>1, <2>2, <2>4, <2>5, <3>2, EndedRunVouched
    <3> QED
      BY <2>9, <3>3
  <2>11. CASE \E b \in 1..c : IsLastRun(ev, b, spans[i], now)
    <3>1. PICK b \in 1..c : IsLastRun(ev, b, spans[i], now)
      BY <2>11
    <3>2. Unended(ev, b, c) /\ t \in Units(At(ev[b]), LastsTo(ev, b, now))
      BY <2>5, <2>8, <3>1 DEF IsLastRun
    <3>3. Unended(file, at[b], Len(file))
      BY <2>1, <2>2, <2>4, <2>5, <3>2, SameRuns
    <3>4. /\ runStart # NoTime
          /\ lastSign = At(ev[c]) /\ lastSign \in Nat
      BY <2>3, <2>4, <3>3, LastDate
    <3>5. CASE t \in Units(At(ev[b]), At(ev[c]))
      <4>1. VouchedBy(file, t)
        BY <2>1, <2>2, <2>4, <2>5, <3>2, <3>5, LastRunVouched
      <4> QED
        BY <2>9, <4>1
    <3>6. CASE t \notin Units(At(ev[b]), At(ev[c]))
      <4>1. At(ev[b]) \in Nat /\ t \in Int /\ t < now
        BY <2>2, <2>5, <2>8 DEF Units
      <4>2. now - lastSign <= Interval
        BY <2>2, <2>5, <3>2, <3>4, <3>6 DEF LastsTo
      <4>3. LastsTo(ev, b, now) \in Int
        BY <2>2, <2>5, <3>4, <4>1 DEF LastsTo
      <4>4. lastSign <= t
        BY <3>2, <3>4, <3>6, <4>1, <4>3 DEF Units
      <4> QED
        BY <2>2, <3>4, <4>2, <4>4
    <3> QED
      BY <3>5, <3>6
  <2> QED
    BY <2>5, <2>7, <2>10, <2>11 DEF Covers
<1> QED
  BY <1>1, RunsAlways, PTL

\* The run of a process whose cycles are on time is claimed to now, but for less than a
\* second in which its marker is overdue by its date though not by its time: what
\* note_still_watching counts from is not what coverage counts from.
THEOREM LiveIsClaimedAlways == TrailSpec => []LiveIsClaimed
<1>1. RInv => LiveIsClaimed
  <2> DEFINE sign == Log!FromUnix(Log!Unix(lastWatching))
  <2> SUFFICES ASSUME RInv, setBack = 0, process = "watching", cycleAt = now, NEW t \in Units(runStart, now)
               PROVE  \/ t \in Claimed
                      \/ sign <= t /\ Interval < now - sign /\ now - sign < Interval + Grain - 1
    BY DEF LiveIsClaimed
  <2>1. /\ TInv /\ InOrder(file) /\ LastRunIs(file, runStart, lastSign) /\ MemoryIs
        /\ lastWatching <= now /\ lastWatching \in MaybeTime
    BY DEF RInv, Dates, TInv, TrailTyped
  <2>2. /\ file \in Seq(ARecord) /\ Len(file) \in Nat /\ now \in Nat
        /\ Interval \in Nat /\ Grain \in Nat
    BY <2>1, ReadByDate, TrailAssumption
  <2>3. PICK at, ev : ByDate(at, ev)
    BY <2>1, ReadByDate
  <2>4. PICK c \in Nat : c = Len(file)
    BY <2>2
  <2>5. /\ \A n \in 1..c : ev[n] = file[at[n]] /\ At(ev[n]) \in Nat
        /\ \A i \in 1..c : \E n \in 1..c : at[n] = i
        /\ \A m, n \in 1..c : m <= n => At(ev[m]) <= At(ev[n])
    BY <2>3, <2>4 DEF ByDate
  <2>6. runStart # NoTime /\ lastWatching # NoTime /\ Elapsed(lastWatching, now) < Interval
    <3>1. now # NoTime
      BY <2>2 DEF NoTime
    <3> QED
      BY <2>1, <3>1 DEF MemoryIs
  <2>7. now - lastWatching < Interval /\ lastWatching \in Nat
    <3>1. lastWatching \in Nat
      BY <2>1, <2>6, BoundsAssumption DEF MaybeTime, Time
    <3> QED
      BY <2>1, <2>2, <2>6, <3>1 DEF Elapsed
  <2>8. sign \in Nat /\ sign <= lastWatching /\ lastWatching < sign + Grain
    BY <2>7, DateOf
  <2>9. PICK s \in 1..c : Unended(file, s, Len(file)) /\ runStart = At(file[s])
    BY <2>1, <2>4, <2>6 DEF LastRunIs
  <2>10. PICK b \in 1..c : at[b] = s
    BY <2>5, Zenon
  <2>11. Unended(file, at[b], Len(file)) /\ t \in Units(At(ev[b]), now)
    BY <2>5, <2>9, <2>10
  <2>12. sign <= At(ev[c]) /\ At(ev[c]) \in Nat
    <3>1. PICK i \in 1..c : At(file[i]) = sign
      BY <2>1, <2>4, <2>6 DEF MemoryIs, At
    <3>2. PICK n \in 1..c : at[n] = i
      BY <2>5, Zenon
    <3>3. At(ev[n]) = sign
      BY <2>5, <3>1, <3>2
    <3>4. c \in 1..c /\ n <= c
      BY <2>4
    <3> QED
      BY <2>5, <3>3, <3>4
  <2>13. CASE t < At(ev[c]) \/ now - At(ev[c]) <= Interval
    BY <2>3, <2>4, <2>11, <2>13, LastRunClaimed
  <2>14. CASE ~(t < At(ev[c])) /\ ~(now - At(ev[c]) <= Interval)
    <3>1. t \in Int
      BY <2>2, <2>5, <2>11 DEF Units
    <3> HIDE DEF sign
    <3> QED
      BY <2>2, <2>7, <2>8, <2>12, <2>14, <3>1
  <2> QED
    BY <2>13, <2>14
<1> QED
  BY <1>1, RunsAlways, PTL

-----------------------------------------------------------------------------
(* Downtime: when its subject was reported wrong *)

SecondOf(t) == Log!FromUnix(Log!Unix(t))

\* Of a subject that was reported in `cycles`, by a loop that was held up for `late`: t
\* is counted as downtime for a reason.
WrongAt(t, cycles, late) == \E u \in cycles : u < t + Grain /\ t <= u + ConfirmAfter + late

WrongFrom(from, to, cycles, late) == \A t \in Units(from, to) : WrongAt(t, cycles, late)

\* The recovery timer of an open incident, which began at `since` if it runs: no cycle
\* that reports it is missing, up to the last one, at c, or to what a window can hide.
\* The loop had been held up for `late` when that cycle began.
TimerIs(since, cycles, c, late) ==
    IF since = NoTime THEN c \in cycles
    ELSE \E u \in cycles : since <= u + 1 + late /\ (c - since < ConfirmAfter \/ u = c)

\* Unless it was held up, the loop had a cycle a moment ago.
LastCycleIs(late) ==
    /\ cycleAt # NoTime => now <= cycleAt + 1 + (stalled - late)
    /\ cycleAt = NoTime => DOMAIN open = {} /\ DOMAIN pending = {}
    /\ \A k \in DOMAIN pending : cycleAt \in reported[k[1]]
    /\ \A k \in DOMAIN open : TimerIs(open[k].clearingSince, reported[k[1]], cycleAt, late)

\* What is pending or open was reported wrong, from when it is dated until now.
EntriesWrong ==
    /\ \A k \in DOMAIN pending :
        /\ pending[k].firstSeen <= now
        /\ WrongFrom(SecondOf(pending[k].firstSeen), now, reported[k[1]], stalled)
    /\ \A k \in DOMAIN open :
        /\ open[k].openedAt <= now
        /\ open[k].clearingSince # NoTime => open[k].openedAt <= open[k].clearingSince
        /\ WrongFrom(SecondOf(open[k].openedAt), now, reported[k[1]], stalled)

\* Record e is the end of the incident that record b opened.
Resolves(e, b) == e.event = "resolved" /\ e.key = b.key /\ e.openedTs = b.ts

\* Incidents in the log are open, or resolved later in it.
OpenedAre(recs, op) ==
    \A i \in 1..Len(recs) : recs[i].event = "opened" =>
        /\ recs[i].openedTs = Log!None
        /\ \/ recs[i].key \in DOMAIN op /\ recs[i].ts = Log!Unix(op[recs[i].key].openedAt)
           \/ \E j \in 1..Len(recs) : i < j /\ Resolves(recs[j], recs[i])

\* Those that are resolved were reported wrong from their beginning to their end.
EndIs(e, cycles, late) ==
    /\ e.key \in Key
    /\ e.openedTs \in Nat
    /\ e.openedTs <= e.ts
    /\ WrongFrom(Log!FromUnix(e.openedTs), At(e), cycles[e.key[1]], late)

ResolvedAre(recs, cycles, late) ==
    \A j \in 1..Len(recs) : recs[j].event = "resolved" => EndIs(recs[j], cycles, late)

\* Incidents of one key come one after the other.
EndsInTurn(recs) ==
    \A i, j \in 1..Len(recs) :
        /\ i < j
        /\ recs[i].event = "resolved" /\ recs[j].event = "resolved"
        /\ recs[i].key = recs[j].key
        => recs[i].ts <= recs[j].openedTs

\* All that the log has of k ended before the second of t.
EndedBefore(recs, k, t) ==
    \A j \in 1..Len(recs) : recs[j].event = "resolved" /\ recs[j].key = k => recs[j].ts <= Log!Unix(t)

InTurn ==
    /\ EndsInTurn(file)
    /\ \A k \in DOMAIN pending : EndedBefore(file, k, pending[k].firstSeen)
    /\ \A k \in DOMAIN open : EndedBefore(file, k, open[k].openedAt)

WitnessTyped == reported \in [Subject -> SUBSET Nat] /\ stalled \in Nat

Accounted ==
    /\ \A s \in Subject : \A u \in reported[s] : u <= now
    /\ \E late \in 0..stalled : LastCycleIs(late)
    /\ EntriesWrong
    /\ OpenedAre(file, open)
    /\ ResolvedAre(file, reported, stalled)
    /\ InTurn

\* The inductive invariant.
DInv ==
    /\ RInv
    /\ WitnessTyped
    /\ restarts = 0 /\ setBack = 0 => Accounted

\* What was wrong stays so when more cycles report it, or the loop is held up for longer.
LEMMA WrongGrows ==
  ASSUME NEW cycles, NEW more \in SUBSET Nat, cycles \subseteq more,
         NEW late \in Nat, NEW later \in Nat, late <= later, NEW from \in Nat, NEW to,
         WrongFrom(from, to, cycles, late)
  PROVE  WrongFrom(from, to, more, later)
<1> SUFFICES ASSUME NEW t \in Units(from, to) PROVE WrongAt(t, more, later)
  BY DEF WrongFrom
<1>1. PICK u \in cycles : u < t + Grain /\ t <= u + ConfirmAfter + late
  BY DEF WrongFrom, WrongAt
<1>2. t \in Int /\ u \in Nat /\ u \in more
  BY DEF Units
<1>3. t <= u + ConfirmAfter + later
  BY <1>1, <1>2, TimingAssumption
<1> QED
  BY <1>1, <1>2, <1>3 DEF WrongAt

\* A cycle accounts for its own second up to itself.
LEMMA WrongWithinSecond ==
  ASSUME NEW t \in Nat, NEW cycles, t \in cycles, NEW late \in Nat
  PROVE  WrongFrom(SecondOf(t), t, cycles, late)
<1> SUFFICES ASSUME NEW x \in Units(SecondOf(t), t) PROVE WrongAt(x, cycles, late)
  BY DEF WrongFrom
<1>1. SecondOf(t) \in Nat /\ t < SecondOf(t) + Grain
  BY DateOf DEF SecondOf
<1>2. x \in Int /\ SecondOf(t) <= x /\ x <= t - 1
  BY <1>1 DEF Units
<1>3. t < x + Grain /\ x <= t + ConfirmAfter + late
  BY <1>1, <1>2, TimingAssumption, TrailAssumption
<1> QED
  BY <1>3 DEF WrongAt

\* One moment more.
LEMMA WrongOneMore ==
  ASSUME NEW n \in Nat, NEW from \in Nat, NEW cycles, NEW late,
         WrongFrom(from, n, cycles, late), WrongAt(n, cycles, late)
  PROVE  WrongFrom(from, n + 1, cycles, late)
<1> SUFFICES ASSUME NEW t \in Units(from, n + 1) PROVE WrongAt(t, cycles, late)
  BY DEF WrongFrom
<1>1. t = n \/ t \in Units(from, n)
  BY DEF Units
<1> QED
  BY <1>1 DEF WrongFrom

\* Less of it.
LEMMA WrongLess ==
  ASSUME NEW from \in Nat, NEW to \in Nat, NEW less \in Nat, less <= to, NEW cycles, NEW late,
         WrongFrom(from, to, cycles, late)
  PROVE  WrongFrom(from, less, cycles, late)
<1>1. Units(from, less) \subseteq Units(from, to)
  BY DEF Units
<1> QED
  BY <1>1 DEF WrongFrom

\* Reports and time held up only add up.
LEMMA WitnessStep ==
  ASSUME TInv, WitnessTyped, TrailNext
  PROVE  /\ WitnessTyped'
         /\ stalled <= stalled'
         /\ \A s \in Subject : reported[s] \subseteq reported'[s]
<1>1. now \in Nat
  BY BoundsAssumption DEF TInv, Inv, WellFormed, TypeOK, Time
<1>2. CASE \E a \in Assessments : Evaluate(a)
  <2>1. PICK a \in Assessments : Evaluate(a)
    BY <1>2
  <2>2. /\ reported' = [s \in Subject |-> IF \E k \in DOMAIN a : k[1] = s
                                          THEN reported[s] \cup {now} ELSE reported[s]]
        /\ stalled' = stalled
    BY <2>1 DEF Evaluate
  <2>3. \A s \in Subject : reported[s] \subseteq reported'[s] /\ reported'[s] \in SUBSET Nat
    BY <1>1, <2>2 DEF WitnessTyped
  <2> QED
    BY <2>2, <2>3 DEF WitnessTyped
<1>3. CASE Pass
  <2>1. reported' = reported /\ (stalled' = stalled \/ stalled' = stalled + 1)
    BY <1>3 DEF Pass
  <2> QED
    BY <2>1 DEF WitnessTyped
<1>4. CASE Start \/ Bind \/ BindFails \/ Deliver \/ Abort \/ RecordStopped \/ StoppedUnrecorded \/ Die \/ SetBack
  <2>1. reported' = reported /\ stalled' = stalled
    BY <1>4 DEF Start, Bind, BindFails, Deliver, Abort, RecordStopped, StoppedUnrecorded, Die, SetBack, witness
  <2> QED
    BY <2>1 DEF WitnessTyped
<1> QED
  BY <1>2, <1>3, <1>4 DEF TrailNext

\* As long as there has been one process and its clock was not set back, there was before.
LEMMA OneProcess ==
  ASSUME TInv, TrailNext, restarts' = 0, setBack' = 0
  PROVE  restarts = 0 /\ setBack = 0 /\ ~SetBack /\ ~Die /\ ~BindFails
<1>1. now \in Nat /\ setBack \in Nat /\ restarts \in Nat
  BY BoundsAssumption DEF TInv, Inv, WellFormed, TypeOK, Time
<1>2. ~SetBack
  <2> SUFFICES ASSUME SetBack PROVE FALSE
    OBVIOUS
  <2>1. PICK d \in 1..Smaller(now, MaxSetBack - setBack) : setBack' = setBack + d
    BY DEF SetBack, StepBack
  <2>2. d \in Nat /\ d > 0
    BY <1>1, <2>1, BoundsAssumption DEF Smaller
  <2> QED
    BY <1>1, <2>1, <2>2
<1>3. ~Die /\ ~BindFails
  <2>1. Die \/ BindFails => restarts' = restarts + 1
    BY DEF Die, Restart, BindFails
  <2> QED
    BY <1>1, <2>1
<1>4. setBack' = setBack /\ restarts' = restarts
  <2>1. Start \/ Bind \/ Abort \/ RecordStopped \/ StoppedUnrecorded => setBack' = setBack /\ restarts' = restarts
    BY DEF Start, Bind, Abort, RecordStopped, StoppedUnrecorded, vars, observers
  <2>2. Deliver \/ Pass => setBack' = setBack /\ restarts' = restarts
    BY DEF Deliver, Send, SendOk, SendRejected, SendFailed, Pass, Tick, observers
  <2>3. \A a \in Assessments : Evaluate(a) => setBack' = setBack /\ restarts' = restarts
    BY DEF Evaluate, Cycle
  <2> QED
    BY <1>2, <1>3, <2>1, <2>2, <2>3 DEF TrailNext
<1> QED
  BY <1>2, <1>3, <1>4

\* A log that grows: what was open is open or is resolved now, what is opened is open.
LEMMA OpenedGrows ==
  ASSUME NEW recs \in Seq(ARecord), NEW more \in Seq(ARecord), NEW all, Extends(all, recs, more),
         NEW op, OpenedAre(recs, op), NEW after,
         \A i \in 1..Len(recs) :
            /\ recs[i].event = "opened"
            /\ recs[i].key \in DOMAIN op
            /\ recs[i].ts = Log!Unix(op[recs[i].key].openedAt)
            => \/ recs[i].key \in DOMAIN after /\ recs[i].ts = Log!Unix(after[recs[i].key].openedAt)
               \/ \E j \in 1..Len(more) : Resolves(more[j], recs[i]),
         \A j \in 1..Len(more) : more[j].event = "opened" =>
            /\ more[j].openedTs = Log!None
            /\ more[j].key \in DOMAIN after
            /\ more[j].ts = Log!Unix(after[more[j].key].openedAt)
  PROVE  OpenedAre(all, after)
<1>1. PICK n \in Nat, c \in Nat, l \in Nat : n = Len(recs) /\ c = Len(all) /\ l = Len(more) /\ c = n + l
  BY ExtendsProperty
<1>2. /\ \A i \in 1..n : i \in 1..c /\ all[i] = recs[i]
      /\ \A i \in 1..c : i \in 1..n \/ (n < i /\ i - n \in 1..l /\ all[i] = more[i - n])
      /\ \A j \in 1..l : j + n \in 1..c /\ all[j + n] = more[j]
  BY <1>1, ExtendsProperty
<1> SUFFICES ASSUME NEW i \in 1..c, all[i].event = "opened"
             PROVE  /\ all[i].openedTs = Log!None
                    /\ \/ all[i].key \in DOMAIN after /\ all[i].ts = Log!Unix(after[all[i].key].openedAt)
                       \/ \E j \in 1..c : i < j /\ Resolves(all[j], all[i])
  BY <1>1 DEF OpenedAre
<1>3. CASE i \in 1..n
  <2>1. all[i] = recs[i] /\ recs[i].openedTs = Log!None
    BY <1>1, <1>2, <1>3 DEF OpenedAre
  <2>2. CASE recs[i].key \in DOMAIN op /\ recs[i].ts = Log!Unix(op[recs[i].key].openedAt)
    <3>1. CASE \E j \in 1..l : Resolves(more[j], recs[i])
      <4>1. PICK j \in 1..l : Resolves(more[j], recs[i])
        BY <3>1
      <4>2. PICK m : m = j + n
        OBVIOUS
      <4>3. m \in 1..c /\ all[m] = more[j] /\ i < m
        BY <1>1, <1>2, <1>3, <4>2
      <4> QED
        BY <2>1, <4>1, <4>3
    <3> QED
      BY <1>1, <1>3, <2>1, <2>2, <3>1
  <2>3. CASE \E j \in 1..n : i < j /\ Resolves(recs[j], recs[i])
    BY <1>2, <2>1, <2>3
  <2> QED
    BY <1>1, <1>3, <2>1, <2>2, <2>3 DEF OpenedAre
<1>4. CASE i \notin 1..n
  <2>1. i - n \in 1..l /\ all[i] = more[i - n]
    BY <1>2, <1>4
  <2> QED
    BY <1>1, <2>1
<1> QED
  BY <1>3, <1>4

LEMMA ResolvedGrows ==
  ASSUME NEW recs \in Seq(ARecord), NEW more \in Seq(ARecord), NEW all, Extends(all, recs, more),
         NEW cycles, NEW after \in [Subject -> SUBSET Nat], \A s \in Subject : cycles[s] \subseteq after[s],
         NEW late \in Nat, NEW later \in Nat, late <= later,
         ResolvedAre(recs, cycles, late),
         \A j \in 1..Len(more) : more[j].event = "resolved" => EndIs(more[j], after, later)
  PROVE  ResolvedAre(all, after, later)
<1>1. \A i \in 1..Len(recs) : i \in 1..Len(all) /\ all[i] = recs[i]
  BY ExtendsProperty
<1>2. \A i \in 1..Len(all) : i \in 1..Len(recs)
                \/ (i - Len(recs) \in 1..Len(more) /\ all[i] = more[i - Len(recs)])
  BY ExtendsProperty
<1> SUFFICES ASSUME NEW j \in 1..Len(all), all[j].event = "resolved" PROVE EndIs(all[j], after, later)
  BY DEF ResolvedAre
<1>3. CASE j \in 1..Len(recs)
  <2>1. all[j] = recs[j] /\ EndIs(recs[j], cycles, late)
    BY <1>1, <1>3 DEF ResolvedAre
  <2>2. /\ recs[j].key \in Key /\ recs[j].openedTs \in Nat /\ recs[j].openedTs <= recs[j].ts
        /\ WrongFrom(Log!FromUnix(recs[j].openedTs), At(recs[j]), cycles[recs[j].key[1]], late)
    BY <2>1 DEF EndIs
  <2>3. recs[j].key[1] \in Subject /\ Log!FromUnix(recs[j].openedTs) \in Nat
    BY <2>2, DatesKeepOrder DEF Key
  <2>4. after[recs[j].key[1]] \in SUBSET Nat /\ cycles[recs[j].key[1]] \subseteq after[recs[j].key[1]]
    BY <2>3
  <2>5. WrongFrom(Log!FromUnix(recs[j].openedTs), At(recs[j]), after[recs[j].key[1]], later)
    BY <2>2, <2>3, <2>4, WrongGrows
  <2> QED
    BY <2>1, <2>2, <2>5 DEF EndIs
<1>4. CASE j \notin 1..Len(recs)
  BY <1>2, <1>4
<1> QED
  BY <1>3, <1>4

LEMMA EndsGrow ==
  ASSUME NEW recs \in Seq(ARecord), NEW more \in Seq(ARecord), NEW all, Extends(all, recs, more),
         EndsInTurn(recs),
         \A i \in 1..Len(recs), j \in 1..Len(more) :
            /\ recs[i].event = "resolved" /\ more[j].event = "resolved" /\ recs[i].key = more[j].key
            => recs[i].ts <= more[j].openedTs,
         \A i, j \in 1..Len(more) :
            i # j /\ more[i].event = "resolved" /\ more[j].event = "resolved" => more[i].key # more[j].key
  PROVE  EndsInTurn(all)
<1>1. PICK n \in Nat, c \in Nat, l \in Nat : n = Len(recs) /\ c = Len(all) /\ l = Len(more) /\ c = n + l
  BY ExtendsProperty
<1>2. \A i \in 1..c : (i \in 1..n /\ all[i] = recs[i]) \/ (n < i /\ i - n \in 1..l /\ all[i] = more[i - n])
  <2>1. /\ \A i \in 1..Len(recs) : all[i] = recs[i]
        /\ \A i \in 1..Len(all) : i \in 1..Len(recs)
                \/ (Len(recs) < i /\ i - Len(recs) \in 1..Len(more) /\ all[i] = more[i - Len(recs)])
    BY ExtendsProperty
  <2> QED
    BY <1>1, <2>1
<1> SUFFICES ASSUME NEW i \in 1..c, NEW j \in 1..c, i < j, all[i].event = "resolved",
                    all[j].event = "resolved", all[i].key = all[j].key
             PROVE  all[i].ts <= all[j].openedTs
  BY <1>1 DEF EndsInTurn
<1>3. CASE j \in 1..n
  <2>1. i \in 1..n
    BY <1>1, <1>3
  <2>2. all[i] = recs[i] /\ all[j] = recs[j]
    BY <1>2, <1>3, <2>1
  <2> QED
    BY <1>1, <1>3, <2>1, <2>2 DEF EndsInTurn
<1>4. CASE j \notin 1..n /\ i \in 1..n
  <2>1. PICK q \in 1..l : all[j] = more[q]
    BY <1>2, <1>4
  <2>2. all[i] = recs[i]
    BY <1>1, <1>2, <1>4
  <2> QED
    BY <1>1, <1>4, <2>1, <2>2
<1>5. CASE j \notin 1..n /\ i \notin 1..n
  <2>1. PICK p \in 1..l, q \in 1..l : p = i - n /\ q = j - n /\ all[i] = more[p] /\ all[j] = more[q]
    BY <1>2, <1>5
  <2>2. p # q
    BY <1>1, <2>1
  <2> QED
    BY <1>1, <2>1, <2>2
<1> QED
  BY <1>3, <1>4, <1>5

LEMMA EndedBeforeGrows ==
  ASSUME NEW recs \in Seq(ARecord), NEW more \in Seq(ARecord), NEW all, Extends(all, recs, more),
         NEW k, \A j \in 1..Len(more) : more[j].event = "resolved" => more[j].key # k,
         NEW t, EndedBefore(recs, k, t)
  PROVE  EndedBefore(all, k, t)
<1>1. /\ \A i \in 1..Len(recs) : all[i] = recs[i]
      /\ \A i \in 1..Len(all) : i \in 1..Len(recs)
                \/ (i - Len(recs) \in 1..Len(more) /\ all[i] = more[i - Len(recs)])
  BY ExtendsProperty
<1> QED
  BY <1>1 DEF EndedBefore

\* Whatever happens without a cycle or a moment that passes.
LEMMA QuietKeeps ==
  ASSUME TInv, WitnessTyped, Accounted,
         UNCHANGED <<now, cycleAt, open, pending, reported, stalled>>,
         NEW more \in Seq(ARecord), Extends(file', file, more),
         \A j \in 1..Len(more) : more[j].event \notin {"opened", "resolved"}
  PROVE  Accounted'
<1>1. file \in Seq(ARecord)
  BY DEF TInv, TrailTyped
<1>2. OpenedAre(file, open) /\ ResolvedAre(file, reported, stalled)
  BY DEF Accounted
<1>3. OpenedAre(file', open)
  BY <1>1, <1>2, OpenedGrows
<1>4. ResolvedAre(file', reported, stalled)
  <2>1. /\ reported \in [Subject -> SUBSET Nat] /\ stalled \in Nat /\ stalled <= stalled
        /\ \A s \in Subject : reported[s] \subseteq reported[s]
    BY DEF WitnessTyped
  <2> QED
    BY <1>1, <1>2, <2>1, ResolvedGrows
<1>5. (\E late \in 0..stalled : LastCycleIs(late))' /\ EntriesWrong'
  BY DEF Accounted, LastCycleIs, EntriesWrong
<1>6. InTurn'
  <2>1. /\ EndsInTurn(file)
        /\ \A k \in DOMAIN pending : EndedBefore(file, k, pending[k].firstSeen)
        /\ \A k \in DOMAIN open : EndedBefore(file, k, open[k].openedAt)
    BY DEF Accounted, InTurn
  <2>2. EndsInTurn(file')
    BY <1>1, <2>1, EndsGrow
  <2>3. \A k, t : EndedBefore(file, k, t) => EndedBefore(file', k, t)
    BY <1>1, EndedBeforeGrows
  <2> QED
    BY <2>1, <2>2, <2>3 DEF InTurn
<1> QED
  BY <1>3, <1>4, <1>5, <1>6 DEF Accounted

\* A moment passes: whatever is pending or open was reported by the last cycle, or so
\* late before it that it may have blinked, and that was a moment ago.
LEMMA PassKeeps ==
  ASSUME TInv, MemoryIs, WitnessTyped, Accounted, Pass
  PROVE  Accounted'
<1>1. /\ now \in Nat /\ stalled \in Nat /\ ConfirmAfter \in Nat /\ Grain \in Nat /\ Grain > 0
      /\ cycleAt \in Int /\ (cycleAt # NoTime => cycleAt \in Nat)
      /\ DOMAIN open \subseteq Key /\ DOMAIN pending \subseteq Key
      /\ \A k \in DOMAIN open : open[k] \in Open
      /\ \A k \in DOMAIN pending : pending[k] \in Pending
  <2>1. TypeOK /\ now \in Nat
    BY BoundsAssumption DEF TInv, Inv, WellFormed, TypeOK, Time
  <2>2. cycleAt \in Int /\ (cycleAt # NoTime => cycleAt \in Nat)
    BY <2>1, BoundsAssumption DEF TypeOK, MaybeTime, Time, NoTime
  <2> QED
    BY <2>1, <2>2, TimingAssumption, TrailAssumption DEF TypeOK, IsPartialMap, WitnessTyped
<1>2. /\ now' = now + 1
      /\ UNCHANGED <<cycleAt, open, pending, file, reported, process>>
      /\ stalled' = IF process # "down" /\ cycleAt # now THEN stalled + 1 ELSE stalled
  BY DEF Pass, Tick, program, life
<1>3. PICK later \in Nat : later = stalled' /\ stalled <= later /\ later <= stalled + 1
  BY <1>1, <1>2
<1>4. \A s \in Subject : \A u \in reported[s] : u \in Nat /\ u <= now
  BY DEF Accounted, WitnessTyped
<1>5. PICK late \in 0..stalled : LastCycleIs(late)
  BY DEF Accounted
<1>6. late \in Nat /\ late <= stalled
  BY <1>1, <1>5
<1>7. cycleAt # NoTime /\ cycleAt # now => later = stalled + 1
  <2>1. cycleAt # NoTime => process # "down"
    BY DEF MemoryIs
  <2> QED
    BY <1>2, <1>3, <2>1
<1>8. now <= cycleAt + 1 + (stalled - late) \/ cycleAt = NoTime
  BY <1>5 DEF LastCycleIs
<1>9. ASSUME NEW cycles, \A u \in cycles : u \in Nat /\ u <= now, cycleAt \in cycles
      PROVE  WrongAt(now, cycles, later)
  <2>1. cycleAt \in Nat /\ cycleAt <= now /\ cycleAt # NoTime
    BY <1>9 DEF NoTime
  <2>2. cycleAt < now + Grain
    BY <1>1, <2>1
  <2>3. now <= cycleAt + ConfirmAfter + later
    <3>1. ConfirmAfter \in Nat /\ now \in Nat /\ stalled \in Nat
      BY <1>1
    <3>2. CASE cycleAt = now
      <4>1. now <= cycleAt
        BY <3>1, <3>2
      <4> QED
        BY <2>1, <3>1, <4>1
    <3>3. CASE cycleAt # now
      BY <1>6, <1>7, <1>8, <2>1, <3>1, <3>3
    <3> QED
      BY <3>2, <3>3
  <2> QED
    BY <1>9, <2>2, <2>3 DEF WrongAt
<1>10. ASSUME NEW cycles, \A u \in cycles : u \in Nat /\ u <= now, cycleAt # NoTime,
              NEW since \in Int, TimerIs(since, cycles, cycleAt, late)
       PROVE  WrongAt(now, cycles, later)
  <2>1. CASE cycleAt \in cycles
    BY <1>9, <1>10, <2>1
  <2>2. CASE cycleAt \notin cycles
    <3>1. PICK u \in cycles : since <= u + 1 + late /\ cycleAt - since < ConfirmAfter
      BY <1>10, <2>2 DEF TimerIs
    <3>2. u \in Nat /\ u <= now
      BY <1>10
    <3>3. cycleAt \in Nat
      BY <1>1, <1>10
    <3>4. u < now + Grain
      BY <1>1, <3>2
    <3>5. cycleAt <= u + late + ConfirmAfter
      BY <1>1, <1>6, <1>10, <3>1, <3>2, <3>3
    <3>6. now <= u + ConfirmAfter + later
      <4>1. CASE cycleAt = now
        <5>1. late \in Nat /\ late <= later /\ later \in Nat /\ ConfirmAfter \in Nat
          BY <1>1, <1>3, <1>6
        <5>2. now <= cycleAt /\ now \in Nat
          BY <1>1, <4>1
        <5> QED
          BY <3>2, <3>3, <3>5, <5>1, <5>2
      <4>2. CASE cycleAt # now
        BY <1>1, <1>6, <1>7, <1>8, <1>10, <3>2, <3>3, <3>5, <4>2
      <4> QED
        BY <4>1, <4>2
    <3> QED
      BY <3>4, <3>6 DEF WrongAt
  <2> QED
    BY <2>1, <2>2
<1>11. ASSUME NEW k \in Key, NEW t \in Time, t <= now,
              WrongFrom(SecondOf(t), now, reported[k[1]], stalled), WrongAt(now, reported[k[1]], later)
       PROVE  t <= now' /\ WrongFrom(SecondOf(t), now', reported[k[1]], later)
  <2>1. t \in Nat /\ SecondOf(t) \in Nat
    BY BoundsAssumption, DateOf DEF Time, SecondOf
  <2>2. k[1] \in Subject /\ reported[k[1]] \in SUBSET Nat
    BY DEF Key, WitnessTyped
  <2>3. WrongFrom(SecondOf(t), now, reported[k[1]], later)
    BY <1>1, <1>3, <1>11, <2>1, <2>2, WrongGrows
  <2>4. WrongFrom(SecondOf(t), now + 1, reported[k[1]], later)
    BY <1>1, <1>11, <2>1, <2>3, WrongOneMore
  <2> QED
    BY <1>1, <1>2, <1>11, <2>1, <2>4
<1>12. \A k \in Key : k[1] \in Subject
  BY DEF Key
<1>13. ASSUME NEW k \in DOMAIN pending
       PROVE  /\ pending[k].firstSeen <= now'
              /\ WrongFrom(SecondOf(pending[k].firstSeen), now', reported[k[1]], later)
  <2>1. k \in Key /\ pending[k].firstSeen \in Time
    BY <1>1 DEF Pending
  <2>2. cycleAt \in reported[k[1]]
    BY <1>5 DEF LastCycleIs
  <2>3. WrongAt(now, reported[k[1]], later)
    BY <1>4, <1>9, <1>12, <2>1, <2>2
  <2>4. /\ pending[k].firstSeen <= now
        /\ WrongFrom(SecondOf(pending[k].firstSeen), now, reported[k[1]], stalled)
    BY DEF Accounted, EntriesWrong
  <2> QED
    BY <1>11, <2>1, <2>3, <2>4
<1>14. ASSUME NEW k \in DOMAIN open
       PROVE  /\ open[k].openedAt <= now'
              /\ WrongFrom(SecondOf(open[k].openedAt), now', reported[k[1]], later)
  <2>1. k \in Key /\ open[k].openedAt \in Time /\ open[k].clearingSince \in Int
    <3>1. open[k] \in Open /\ k \in Key
      BY <1>1
    <3>2. \A t \in MaybeTime : t \in Int
      BY BoundsAssumption DEF MaybeTime, Time, NoTime
    <3> QED
      BY <3>1, <3>2 DEF Open
  <2>2. TimerIs(open[k].clearingSince, reported[k[1]], cycleAt, late) /\ cycleAt # NoTime
    BY <1>5 DEF LastCycleIs
  <2>3. WrongAt(now, reported[k[1]], later)
    BY <1>4, <1>10, <1>12, <2>1, <2>2
  <2>4. /\ open[k].openedAt <= now
        /\ WrongFrom(SecondOf(open[k].openedAt), now, reported[k[1]], stalled)
    BY DEF Accounted, EntriesWrong
  <2> QED
    BY <1>11, <2>1, <2>3, <2>4
<1>15. EntriesWrong'
  <2>1. \A k \in DOMAIN open : open[k].clearingSince # NoTime => open[k].openedAt <= open[k].clearingSince
    BY DEF Accounted, EntriesWrong
  <2> QED
    BY <1>2, <1>3, <1>13, <1>14, <2>1 DEF EntriesWrong
<1>16. late \in 0..later /\ LastCycleIs(late)'
  <2>1. late \in 0..later
    BY <1>1, <1>3, <1>6
  <2>2. cycleAt # NoTime => now' <= cycleAt + 1 + (later - late)
    <3>1. CASE cycleAt = now
      BY <1>1, <1>2, <1>3, <1>6, <3>1
    <3>2. CASE cycleAt # now /\ cycleAt # NoTime
      BY <1>1, <1>2, <1>6, <1>7, <1>8, <3>2
    <3> QED
      BY <3>1, <3>2
  <2> QED
    BY <1>2, <1>3, <1>5, <2>1, <2>2 DEF LastCycleIs
<1>17. \A s \in Subject : \A u \in reported[s] : u <= now'
  BY <1>1, <1>2, <1>4
<1>18. OpenedAre(file, open) /\ ResolvedAre(file, reported, later)
  <2>1. OpenedAre(file, open) /\ ResolvedAre(file, reported, stalled)
    BY DEF Accounted
  <2>2. ASSUME NEW j \in 1..Len(file), file[j].event = "resolved" PROVE EndIs(file[j], reported, later)
    <3>1. /\ file[j].key \in Key /\ file[j].openedTs \in Nat /\ file[j].openedTs <= file[j].ts
          /\ WrongFrom(Log!FromUnix(file[j].openedTs), At(file[j]), reported[file[j].key[1]], stalled)
      BY <2>1, <2>2 DEF ResolvedAre, EndIs
    <3>2. reported[file[j].key[1]] \in SUBSET Nat /\ Log!FromUnix(file[j].openedTs) \in Nat
      BY <1>12, <3>1, DatesKeepOrder DEF WitnessTyped
    <3>3. WrongFrom(Log!FromUnix(file[j].openedTs), At(file[j]), reported[file[j].key[1]], later)
      BY <1>1, <1>3, <3>1, <3>2, WrongGrows
    <3> QED
      BY <3>1, <3>3 DEF EndIs
  <2> QED
    BY <2>1, <2>2 DEF ResolvedAre
<1>19. InTurn'
  BY <1>2 DEF Accounted, InTurn
<1> QED
  BY <1>2, <1>3, <1>15, <1>16, <1>17, <1>18, <1>19 DEF Accounted

\* What becomes of an incident in a cycle.
LEMMA OpenAfterCases ==
  ASSUME TypeOK, NEW a \in Assessments, NEW k \in DOMAIN OpenAfter(a)
  PROVE  \/ /\ k \in Confirmed(a)
            /\ OpenAfter(a)[k].openedAt = Noted(a, k).firstSeen
            /\ OpenAfter(a)[k].clearingSince = NoTime
         \/ /\ k \in DOMAIN open \ Recovered(a)
            /\ OpenAfter(a)[k].openedAt = open[k].openedAt
            /\ \/ k \in DOMAIN a /\ OpenAfter(a)[k].clearingSince = NoTime
               \/ k \in Clearing(a) /\ OpenAfter(a)[k].clearingSince = ClearSince(k)
               \/ /\ k \notin DOMAIN a /\ k \notin Clearing(a)
                  /\ OpenAfter(a)[k].clearingSince = open[k].clearingSince
<1>1. /\ k \in (DOMAIN open \ Recovered(a)) \cup Confirmed(a)
      /\ OpenAfter(a)[k] =
            CASE k \in Confirmed(a) ->
                    [severity      |-> Noted(a, k).severity,
                     openedAt      |-> Noted(a, k).firstSeen,
                     clearingSince |-> NoTime]
              [] k \in DOMAIN a \cap DOMAIN open -> Reopened(a, k)
              [] k \in Clearing(a) -> [open[k] EXCEPT !.clearingSince = ClearSince(k)]
              [] OTHER -> open[k]
  BY Zenon DEF OpenAfter
<1>2. \A i \in DOMAIN open : open[i] \in Open
  BY DEF TypeOK, IsPartialMap
<1>3. CASE k \in Confirmed(a)
  <2>1. k \notin DOMAIN open
    BY <1>3 DEF Confirmed
  <2>2. k \notin DOMAIN a \cap DOMAIN open /\ k \notin Clearing(a)
    BY <2>1 DEF Clearing
  <2> QED
    BY <1>1, <1>3, <2>2
<1>4. CASE k \notin Confirmed(a)
  <2>1. k \in DOMAIN open \ Recovered(a)
    BY <1>1, <1>4
  <2>2. CASE k \in DOMAIN a
    <3>1. k \notin Clearing(a)
      BY <2>2 DEF Clearing
    <3>2. OpenAfter(a)[k] = Reopened(a, k)
      BY <1>1, <1>4, <2>1, <2>2, <3>1
    <3> QED
      BY <2>1, <2>2, <3>2 DEF Reopened
  <2>3. CASE k \notin DOMAIN a /\ k \in Clearing(a)
    <3>1. OpenAfter(a)[k] = [open[k] EXCEPT !.clearingSince = ClearSince(k)]
      BY <1>1, <1>4, <2>3
    <3> QED
      BY <1>2, <2>1, <2>3, <3>1 DEF Open
  <2>4. CASE k \notin DOMAIN a /\ k \notin Clearing(a)
    <3>1. OpenAfter(a)[k] = open[k]
      BY <1>1, <1>4, <2>4
    <3> QED
      BY <2>1, <2>4, <3>1
  <2> QED
    BY <2>2, <2>3, <2>4
<1> QED
  BY <1>3, <1>4

\* What is pending after a cycle was reported by it, and is dated by when it was noted.
LEMMA PendingAfterCases ==
  ASSUME TypeOK, NEW a \in Assessments, NEW k \in DOMAIN PendingAfter(a)
  PROVE  /\ k \in DOMAIN a
         /\ PendingAfter(a)[k].firstSeen = Noted(a, k).firstSeen
<1>1. /\ k \in DOMAIN a
      /\ k \in DOMAIN pending \/ k \notin DOMAIN open
      /\ PendingAfter(a)[k] = IF k \in DOMAIN open THEN pending[k] ELSE Noted(a, k)
  BY DEF PendingAfter
<1>2. \A i \in DOMAIN pending : pending[i] \in Pending
  BY DEF TypeOK, IsPartialMap
<1>3. k \in DOMAIN pending => Noted(a, k).firstSeen = pending[k].firstSeen
  BY <1>2 DEF Noted, Pending
<1> QED
  BY <1>1, <1>3

\* Which notes are of which kind.
LEMMA NotesByKind ==
  ASSUME NEW a \in Assessments, NEW r, IsNote(r, a)
  PROVE  /\ r.event = "opened" => \E k \in Confirmed(a) : r = Log!Opened(k, Noted(a, k).firstSeen)
         /\ r.event = "resolved" => \E k \in Recovered(a) : r = Log!Resolved(k, open[k].openedAt, ClearSince(k))
<1>1. /\ \A t : Log!Watching(t).event = "watching"
      /\ \A k, t : Log!Opened(k, t).event = "opened"
      /\ \A k, t, u : Log!Resolved(k, t, u).event = "resolved" /\ Log!Escalated(k, t, u).event = "escalated"
  BY DEF Log!Watching, Log!Opened, Log!Resolved, Log!Escalated
<1> QED
  BY <1>1 DEF IsNote

\* A cycle: what it reports it reported now, what it does not is within its window.
LEMMA CycleKeeps ==
  ASSUME TInv, Dates, WitnessTyped, Accounted, NEW a \in Assessments, Evaluate(a)
  PROVE  Accounted'
<1>1. /\ TypeOK /\ now \in Nat /\ stalled \in Nat /\ ConfirmAfter \in Nat
      /\ cycleAt \in Int /\ DOMAIN a \subseteq Key
      /\ DOMAIN open \subseteq Key /\ DOMAIN pending \subseteq Key
      /\ \A k \in DOMAIN open : open[k] \in Open /\ open[k].openedAt \in Nat /\ open[k].clearingSince \in Int
      /\ \A k \in DOMAIN pending : pending[k] \in Pending /\ pending[k].firstSeen \in Nat
  <2>1. TypeOK /\ now \in Nat
    BY BoundsAssumption DEF TInv, Inv, WellFormed, TypeOK, Time
  <2>2. \A t \in MaybeTime : t \in Int
    BY BoundsAssumption DEF MaybeTime, Time, NoTime
  <2>3. \A t \in Time : t \in Nat
    BY BoundsAssumption DEF Time
  <2>4. cycleAt \in Int
    BY <2>1, <2>2 DEF TypeOK
  <2>5. /\ \A k \in DOMAIN open : open[k] \in Open
        /\ \A k \in DOMAIN pending : pending[k] \in Pending
    BY <2>1 DEF TypeOK, IsPartialMap
  <2>6. DOMAIN a \subseteq Key
    BY AssessmentsTyped DEF IsPartialMap
  <2> QED
    BY <2>1, <2>2, <2>3, <2>4, <2>5, <2>6, TimingAssumption DEF TypeOK, IsPartialMap, WitnessTyped, Open, Pending
<1>2. /\ now' = now /\ cycleAt' = now /\ stalled' = stalled
      /\ open' = OpenAfter(a) /\ pending' = PendingAfter(a) /\ file' = file \o Records(a)
      /\ reported' = [s \in Subject |-> IF \E k \in DOMAIN a : k[1] = s
                                        THEN reported[s] \cup {now} ELSE reported[s]]
  BY DEF Evaluate, Cycle, Vouch
<1>3. \A k \in Key : k[1] \in Subject
  BY DEF Key
<1>4. PICK cycles : cycles = reported'
  OBVIOUS
<1>5. /\ cycles \in [Subject -> SUBSET Nat]
      /\ \A s \in Subject : reported[s] \subseteq cycles[s]
      /\ \A s \in Subject : \A u \in cycles[s] : u \in Nat /\ u <= now
      /\ \A k \in DOMAIN a : now \in cycles[k[1]]
  <2>1. \A s \in Subject : \A u \in reported[s] : u \in Nat /\ u <= now
    BY DEF Accounted, WitnessTyped
  <2>2. cycles = [s \in Subject |-> IF \E k \in DOMAIN a : k[1] = s
                                    THEN reported[s] \cup {now} ELSE reported[s]]
    BY <1>2, <1>4
  <2>3. /\ \A s \in Subject : reported[s] \subseteq cycles[s]
        /\ \A s \in Subject : \A u \in cycles[s] : u \in Nat /\ u <= now
    BY <1>1, <2>1, <2>2
  <2>4. \A k \in DOMAIN a : now \in cycles[k[1]]
    BY <1>1, <1>3, <2>2
  <2> QED
    BY <2>2, <2>3, <2>4
<1>6. PICK late \in 0..stalled : LastCycleIs(late)
  BY DEF Accounted
<1>7. ASSUME NEW k \in DOMAIN a
      PROVE  /\ Noted(a, k).firstSeen \in Nat /\ Noted(a, k).firstSeen <= now
             /\ WrongFrom(SecondOf(Noted(a, k).firstSeen), now, cycles[k[1]], stalled)
  <2>1. k \in Key /\ k[1] \in Subject /\ cycles[k[1]] \in SUBSET Nat /\ reported[k[1]] \subseteq cycles[k[1]]
    BY <1>1, <1>3, <1>5
  <2>2. CASE k \in DOMAIN pending
    <3>1. Noted(a, k).firstSeen = pending[k].firstSeen
      BY <1>1, <2>2 DEF Noted, Pending
    <3>2. /\ pending[k].firstSeen <= now
          /\ WrongFrom(SecondOf(pending[k].firstSeen), now, reported[k[1]], stalled)
      BY <2>2 DEF Accounted, EntriesWrong
    <3>3. pending[k].firstSeen \in Nat /\ SecondOf(pending[k].firstSeen) \in Nat
      BY <1>1, <2>2, DateOf DEF SecondOf
    <3>4. WrongFrom(SecondOf(pending[k].firstSeen), now, cycles[k[1]], stalled)
      BY <1>1, <2>1, <3>2, <3>3, WrongGrows
    <3> QED
      BY <3>1, <3>2, <3>3, <3>4
  <2>3. CASE k \notin DOMAIN pending
    <3>1. Noted(a, k).firstSeen = now
      BY <2>3 DEF Noted
    <3>2. WrongFrom(SecondOf(now), now, cycles[k[1]], stalled)
      BY <1>1, <1>5, WrongWithinSecond
    <3> QED
      BY <1>1, <3>1, <3>2
  <2> QED
    BY <2>2, <2>3
<1>8. ASSUME NEW k \in DOMAIN open
      PROVE  /\ open[k].openedAt <= now
             /\ WrongFrom(SecondOf(open[k].openedAt), now, cycles[k[1]], stalled)
             /\ open[k].clearingSince # NoTime =>
                    open[k].openedAt <= open[k].clearingSince /\ open[k].clearingSince <= now
  <2>1. k \in Key /\ k[1] \in Subject /\ cycles[k[1]] \in SUBSET Nat /\ reported[k[1]] \subseteq cycles[k[1]]
    BY <1>1, <1>3, <1>5
  <2>2. /\ open[k].openedAt <= now
        /\ open[k].clearingSince # NoTime => open[k].openedAt <= open[k].clearingSince
        /\ WrongFrom(SecondOf(open[k].openedAt), now, reported[k[1]], stalled)
    BY DEF Accounted, EntriesWrong
  <2>3. open[k].openedAt \in Nat /\ SecondOf(open[k].openedAt) \in Nat
    BY <1>1, DateOf DEF SecondOf
  <2>4. WrongFrom(SecondOf(open[k].openedAt), now, cycles[k[1]], stalled)
    BY <1>1, <2>1, <2>2, <2>3, WrongGrows
  <2>5. open[k].clearingSince # NoTime => open[k].clearingSince <= now
    BY DEF Dates, Datable
  <2> QED
    BY <2>2, <2>4, <2>5
<1>9. ASSUME NEW k \in DOMAIN open
      PROVE  ClearSince(k) \in Nat /\ open[k].openedAt <= ClearSince(k) /\ ClearSince(k) <= now
  <2>1. CASE open[k].clearingSince = NoTime
    BY <1>1, <1>8, <2>1 DEF ClearSince
  <2>2. CASE open[k].clearingSince # NoTime
    <3>1. open[k].openedAt <= open[k].clearingSince /\ open[k].clearingSince <= now
      BY <1>8, <2>2
    <3>2. ClearSince(k) = open[k].clearingSince
      BY <2>2 DEF ClearSince
    <3>3. open[k].openedAt \in Nat /\ open[k].clearingSince \in Int
      BY <1>1
    <3> QED
      BY <3>1, <3>2, <3>3
  <2> QED
    BY <2>1, <2>2
<1>10. ASSUME NEW k \in DOMAIN OpenAfter(a)
       PROVE  TimerIs(OpenAfter(a)[k].clearingSince, cycles[k[1]], now, stalled)
  <2>1. CASE k \in DOMAIN a /\ OpenAfter(a)[k].clearingSince = NoTime
    BY <1>5, <2>1 DEF TimerIs
  <2>2. CASE k \in DOMAIN open \ Recovered(a) /\ k \in Clearing(a) /\ OpenAfter(a)[k].clearingSince = ClearSince(k)
    <3>1. PICK since \in Nat : since = ClearSince(k)
      BY <1>9, <2>2
    <3>2. since # NoTime /\ since <= now
      BY <1>9, <2>2, <3>1 DEF NoTime
    <3>3. now - since < ConfirmAfter
      <4>1. ~(Elapsed(since, now) >= ConfirmAfter)
        BY <2>2, <3>1 DEF Recovered
      <4> QED
        BY <1>1, <3>2, <4>1 DEF Elapsed
    <3>4. k[1] \in Subject
      BY <1>1, <1>3, <2>2
    <3>5. late \in Nat /\ late <= stalled
      BY <1>1, <1>6
    <3>6. \E u \in reported[k[1]] : u \in Nat /\ since <= u + 1 + stalled
      <4>1. TimerIs(open[k].clearingSince, reported[k[1]], cycleAt, late)
        BY <1>6, <2>2 DEF LastCycleIs
      <4>2. CASE open[k].clearingSince = NoTime
        <5>1. cycleAt \in reported[k[1]]
          BY <4>1, <4>2 DEF TimerIs
        <5>2. cycleAt \in Nat
          BY <1>5, <3>4, <5>1
        <5>3. cycleAt # NoTime
          BY <5>2 DEF NoTime
        <5>4. now <= cycleAt + 1 + (stalled - late)
          BY <1>6, <5>3 DEF LastCycleIs
        <5>5. since <= cycleAt + 1 + stalled
          BY <1>1, <3>2, <3>5, <5>2, <5>4
        <5> QED
          BY <5>1, <5>2, <5>5
      <4>3. CASE open[k].clearingSince # NoTime
        <5>1. since = open[k].clearingSince
          BY <3>1, <4>3 DEF ClearSince
        <5>2. PICK u \in reported[k[1]] : since <= u + 1 + late
          BY <4>1, <4>3, <5>1 DEF TimerIs
        <5>3. u \in Nat
          BY <1>5, <3>4
        <5> QED
          BY <1>1, <3>5, <5>2, <5>3
      <4> QED
        BY <4>2, <4>3
    <3>7. PICK u \in reported[k[1]] : u \in Nat /\ since <= u + 1 + stalled
      BY <3>6
    <3>8. u \in cycles[k[1]]
      BY <1>5, <3>4
    <3>9. OpenAfter(a)[k].clearingSince = since
      BY <2>2, <3>1
    <3> QED
      BY <3>2, <3>3, <3>7, <3>8, <3>9 DEF TimerIs
  <2>3. CASE /\ k \in DOMAIN open /\ k \notin DOMAIN a /\ k \notin Clearing(a)
             /\ OpenAfter(a)[k].clearingSince = open[k].clearingSince
    <3>1. k[1] \in Unjudgeable(a)
      BY <2>3 DEF Clearing
    <3>2. <<k[1], NoHeartbeat>> \in DOMAIN a /\ <<k[1], NoHeartbeat>>[1] = k[1]
      BY <3>1 DEF Unjudgeable
    <3>3. now \in cycles[k[1]]
      BY <1>5, <3>2
    <3>4. CASE open[k].clearingSince = NoTime
      BY <2>3, <3>3, <3>4 DEF TimerIs
    <3>5. CASE open[k].clearingSince # NoTime
      <4>1. open[k].clearingSince <= now /\ open[k].clearingSince \in Int
        BY <1>1, <1>8, <2>3, <3>5
      <4>2. open[k].clearingSince <= now + 1 + stalled
        BY <1>1, <4>1
      <4> QED
        BY <2>3, <3>3, <3>5, <4>2 DEF TimerIs
    <3> QED
      BY <3>4, <3>5
  <2>4. k \in Confirmed(a) => k \in DOMAIN a
    BY DEF Confirmed
  <2> QED
    BY <1>1, <2>1, <2>2, <2>3, <2>4, OpenAfterCases
<1>11. (\E held \in 0..stalled : LastCycleIs(held))'
  <2>1. stalled \in 0..stalled
    BY <1>1
  <2>2. now # NoTime
    BY <1>1 DEF NoTime
  <2>3. now' <= cycleAt' + 1 + (stalled' - stalled)
    BY <1>1, <1>2
  <2>4. \A k \in DOMAIN pending' : cycleAt' \in reported'[k[1]]
    BY <1>1, <1>2, <1>4, <1>5, PendingAfterCases
  <2>5. \A k \in DOMAIN open' : TimerIs(open'[k].clearingSince, reported'[k[1]], cycleAt', stalled)
    BY <1>2, <1>4, <1>10
  <2> QED
    BY <1>2, <2>1, <2>2, <2>3, <2>4, <2>5 DEF LastCycleIs
<1>12. EntriesWrong'
  <2>1. ASSUME NEW k \in DOMAIN PendingAfter(a)
        PROVE  /\ PendingAfter(a)[k].firstSeen <= now
               /\ WrongFrom(SecondOf(PendingAfter(a)[k].firstSeen), now, cycles[k[1]], stalled)
    <3>1. k \in DOMAIN a /\ PendingAfter(a)[k].firstSeen = Noted(a, k).firstSeen
      BY <1>1, PendingAfterCases
    <3> QED
      BY <1>7, <3>1
  <2>2. ASSUME NEW k \in DOMAIN OpenAfter(a)
        PROVE  /\ OpenAfter(a)[k].openedAt <= now
               /\ OpenAfter(a)[k].clearingSince # NoTime =>
                    OpenAfter(a)[k].openedAt <= OpenAfter(a)[k].clearingSince
               /\ WrongFrom(SecondOf(OpenAfter(a)[k].openedAt), now, cycles[k[1]], stalled)
    <3>1. CASE /\ k \in Confirmed(a)
               /\ OpenAfter(a)[k].openedAt = Noted(a, k).firstSeen
               /\ OpenAfter(a)[k].clearingSince = NoTime
      <4>1. k \in DOMAIN a
        BY <3>1 DEF Confirmed
      <4> QED
        BY <1>7, <3>1, <4>1
    <3>2. CASE k \in DOMAIN open /\ OpenAfter(a)[k].openedAt = open[k].openedAt
      <4>1. \/ OpenAfter(a)[k].clearingSince = NoTime
            \/ OpenAfter(a)[k].clearingSince = ClearSince(k)
            \/ OpenAfter(a)[k].clearingSince = open[k].clearingSince
        <5>1. k \notin Confirmed(a)
          BY <3>2 DEF Confirmed
        <5> QED
          BY <1>1, <5>1, OpenAfterCases
      <4> QED
        BY <1>8, <1>9, <3>2, <4>1
    <3> QED
      BY <1>1, <3>1, <3>2, OpenAfterCases
  <2> QED
    BY <1>2, <1>4, <2>1, <2>2 DEF EntriesWrong
<1>13. PICK more \in Seq(ARecord) : more = Records(a)
  BY <1>1, RecordsProperty
<1>14. Extends(file', file, more) /\ file \in Seq(ARecord)
  <2>1. file \in Seq(ARecord)
    BY DEF TInv, TrailTyped
  <2> QED
    BY <1>2, <1>13, <2>1, ConcatExtends
<1>15. \A r : Among(r, more) <=> IsNote(r, a)
  BY <1>1, <1>13, RecordsProperty
<1>16. OpenedAre(file', OpenAfter(a))
  <2>1. ASSUME NEW i \in 1..Len(file), file[i].event = "opened", file[i].key \in DOMAIN open,
               file[i].ts = Log!Unix(open[file[i].key].openedAt)
        PROVE  \/ file[i].key \in DOMAIN OpenAfter(a)
                  /\ file[i].ts = Log!Unix(OpenAfter(a)[file[i].key].openedAt)
               \/ \E j \in 1..Len(more) : Resolves(more[j], file[i])
    <3>1. PICK k \in DOMAIN open : k = file[i].key
      BY <2>1
    <3>2. CASE k \in Recovered(a)
      <4>1. PICK r : r = Log!Resolved(k, open[k].openedAt, ClearSince(k))
        OBVIOUS
      <4>2. Among(r, more)
        BY <1>15, <3>2, <4>1, Zenon DEF IsNote
      <4>3. Resolves(r, file[i])
        BY <2>1, <3>1, <4>1 DEF Resolves, Log!Resolved
      <4> QED
        BY <4>2, <4>3 DEF Among
    <3>3. CASE k \notin Recovered(a)
      <4>1. k \in DOMAIN OpenAfter(a)
        BY <3>3 DEF OpenAfter
      <4>2. k \notin Confirmed(a)
        BY DEF Confirmed
      <4>3. OpenAfter(a)[k].openedAt = open[k].openedAt
        BY <1>1, <4>1, <4>2, OpenAfterCases
      <4> QED
        BY <2>1, <3>1, <4>1, <4>3
    <3> QED
      BY <3>2, <3>3
  <2>2. ASSUME NEW j \in 1..Len(more), more[j].event = "opened"
        PROVE  /\ more[j].openedTs = Log!None
               /\ more[j].key \in DOMAIN OpenAfter(a)
               /\ more[j].ts = Log!Unix(OpenAfter(a)[more[j].key].openedAt)
    <3>1. PICK r : r = more[j]
      OBVIOUS
    <3>2. IsNote(r, a)
      BY <1>15, <3>1 DEF Among
    <3>3. PICK k \in Confirmed(a) : r = Log!Opened(k, Noted(a, k).firstSeen)
      BY <2>2, <3>1, <3>2, NotesByKind
    <3>4. k \in DOMAIN OpenAfter(a)
      BY DEF OpenAfter
    <3>5. k \notin DOMAIN open
      BY DEF Confirmed
    <3>6. OpenAfter(a)[k].openedAt = Noted(a, k).firstSeen
      BY <1>1, <3>4, <3>5, OpenAfterCases
    <3>7. r.key = k /\ r.ts = Log!Unix(Noted(a, k).firstSeen) /\ r.openedTs = Log!None
      BY <3>3 DEF Log!Opened
    <3> QED
      BY <3>1, <3>4, <3>6, <3>7
  <2>3. OpenedAre(file, open)
    BY DEF Accounted
  <2> QED
    BY <1>14, <2>1, <2>2, <2>3, OpenedGrows
<1>17. ResolvedAre(file', cycles, stalled)
  <2>1. ASSUME NEW j \in 1..Len(more), more[j].event = "resolved" PROVE EndIs(more[j], cycles, stalled)
    <3>1. PICK r : r = more[j]
      OBVIOUS
    <3>2. IsNote(r, a)
      BY <1>15, <3>1 DEF Among
    <3>3. PICK k \in Recovered(a) : r = Log!Resolved(k, open[k].openedAt, ClearSince(k))
      BY <2>1, <3>1, <3>2, NotesByKind
    <3>4. k \in DOMAIN open /\ k \in Key
      BY <1>1 DEF Recovered, Clearing
    <3>5. PICK from \in Nat, to \in Nat :
            /\ from = open[k].openedAt /\ to = ClearSince(k) /\ from <= to /\ to <= now
            /\ WrongFrom(SecondOf(from), now, cycles[k[1]], stalled)
      BY <1>1, <1>8, <1>9, <3>4
    <3>6. r.key = k /\ r.openedTs = Log!Unix(from) /\ r.ts = Log!Unix(to)
      BY <3>3, <3>5 DEF Log!Resolved
    <3>7. Log!Unix(from) \in Nat /\ Log!Unix(from) <= Log!Unix(to)
      BY <3>5, UnixKeepsOrder
    <3>8. SecondOf(from) \in Nat /\ SecondOf(to) \in Nat /\ SecondOf(to) <= now
      <4>1. SecondOf(from) \in Nat /\ SecondOf(to) \in Nat /\ SecondOf(to) <= to
        BY DateOf DEF SecondOf
      <4> QED
        BY <1>1, <3>5, <4>1
    <3>9. WrongFrom(SecondOf(from), SecondOf(to), cycles[k[1]], stalled)
      BY <1>1, <3>5, <3>8, WrongLess
    <3> QED
      BY <3>1, <3>4, <3>6, <3>7, <3>9 DEF EndIs, At, SecondOf
  <2>2. ResolvedAre(file, reported, stalled)
    BY DEF Accounted
  <2> QED
    BY <1>1, <1>5, <1>14, <2>1, <2>2, ResolvedGrows
<1>18. InTurn'
  <2>1. /\ EndsInTurn(file)
        /\ \A k \in DOMAIN pending : EndedBefore(file, k, pending[k].firstSeen)
        /\ \A k \in DOMAIN open : EndedBefore(file, k, open[k].openedAt)
    BY DEF Accounted, InTurn
  <2>2. ASSUME NEW j \in 1..Len(more), more[j].event = "resolved"
        PROVE  /\ more[j].key \in Recovered(a) /\ more[j].key \in DOMAIN open
               /\ more[j] = Log!Resolved(more[j].key, open[more[j].key].openedAt, ClearSince(more[j].key))
               /\ more[j].openedTs = Log!Unix(open[more[j].key].openedAt)
    <3>1. PICK r : r = more[j]
      OBVIOUS
    <3>2. IsNote(r, a)
      BY <1>15, <3>1 DEF Among
    <3>3. PICK k \in Recovered(a) : r = Log!Resolved(k, open[k].openedAt, ClearSince(k))
      BY <2>2, <3>1, <3>2, NotesByKind
    <3>4. r.key = k /\ r.openedTs = Log!Unix(open[k].openedAt)
      BY <3>3 DEF Log!Resolved
    <3>5. k \in DOMAIN open
      BY DEF Recovered, Clearing
    <3> QED
      BY <3>1, <3>3, <3>4, <3>5
  <2>3. EndsInTurn(file')
    <3>1. ASSUME NEW i \in 1..Len(file), NEW j \in 1..Len(more),
                 file[i].event = "resolved", more[j].event = "resolved", file[i].key = more[j].key
          PROVE  file[i].ts <= more[j].openedTs
      <4>1. more[j].key \in DOMAIN open /\ more[j].openedTs = Log!Unix(open[more[j].key].openedAt)
        BY <2>2, <3>1
      <4>2. EndedBefore(file, more[j].key, open[more[j].key].openedAt)
        BY <2>1, <4>1
      <4> QED
        BY <3>1, <4>1, <4>2 DEF EndedBefore
    <3>2. ASSUME NEW i \in 1..Len(more), NEW j \in 1..Len(more), i # j,
                 more[i].event = "resolved", more[j].event = "resolved"
          PROVE  more[i].key # more[j].key
      <4> SUFFICES ASSUME more[i].key = more[j].key PROVE FALSE
        OBVIOUS
      <4>1. more[i] = more[j]
        BY <2>2, <3>2
      <4>2. Distinct(more)
        BY <1>1, <1>13, RecordsProperty
      <4> QED
        BY <3>2, <4>1, <4>2 DEF Distinct
    <3> QED
      BY <1>14, <2>1, <3>1, <3>2, EndsGrow
  <2>4. ASSUME NEW k \in DOMAIN a PROVE EndedBefore(file, k, Noted(a, k).firstSeen)
    <3>1. CASE k \in DOMAIN pending
      <4>1. Noted(a, k).firstSeen = pending[k].firstSeen
        BY <1>1, <3>1 DEF Noted, Pending
      <4> QED
        BY <2>1, <3>1, <4>1
    <3>2. CASE k \notin DOMAIN pending
      <4>1. Noted(a, k).firstSeen = now
        BY <3>2 DEF Noted
      <4> QED
        BY <4>1 DEF EndedBefore, Dates
    <3> QED
      BY <3>1, <3>2
  <2>5. ASSUME NEW k, k \notin Recovered(a), NEW t, EndedBefore(file, k, t) PROVE EndedBefore(file', k, t)
    <3>1. \A j \in 1..Len(more) : more[j].event = "resolved" => more[j].key # k
      BY <2>2, <2>5
    <3> QED
      BY <1>14, <2>5, <3>1, EndedBeforeGrows
  <2>6. \A k \in DOMAIN a : k \notin Recovered(a)
    BY DEF Recovered, Clearing
  <2>7. ASSUME NEW k \in DOMAIN PendingAfter(a) PROVE EndedBefore(file', k, PendingAfter(a)[k].firstSeen)
    <3>1. k \in DOMAIN a /\ PendingAfter(a)[k].firstSeen = Noted(a, k).firstSeen
      BY <1>1, PendingAfterCases
    <3> QED
      BY <2>4, <2>5, <2>6, <3>1
  <2>8. ASSUME NEW k \in DOMAIN OpenAfter(a) PROVE EndedBefore(file', k, OpenAfter(a)[k].openedAt)
    <3>1. CASE k \in Confirmed(a) /\ OpenAfter(a)[k].openedAt = Noted(a, k).firstSeen
      <4>1. k \in DOMAIN a
        BY <3>1 DEF Confirmed
      <4> QED
        BY <2>4, <2>5, <2>6, <3>1, <4>1
    <3>2. CASE k \in DOMAIN open \ Recovered(a) /\ OpenAfter(a)[k].openedAt = open[k].openedAt
      BY <2>1, <2>5, <3>2
    <3> QED
      BY <1>1, <3>1, <3>2, OpenAfterCases
  <2> QED
    BY <1>2, <2>3, <2>7, <2>8 DEF InTurn
<1> QED
  BY <1>2, <1>4, <1>5, <1>11, <1>12, <1>16, <1>17, <1>18 DEF Accounted

LEMMA AccountedStep ==
  ASSUME DInv, TrailNext, restarts' = 0, setBack' = 0
  PROVE  Accounted'
<1>1. restarts = 0 /\ setBack = 0 /\ ~SetBack /\ ~Die /\ ~BindFails
  BY OneProcess DEF DInv, RInv
<1>2. TInv /\ MemoryIs /\ Dates /\ WitnessTyped /\ Accounted /\ file \in Seq(ARecord)
  BY <1>1 DEF DInv, RInv, TInv, TrailTyped
<1>3. CASE Start \/ RecordStopped
  <2>1. PICK e \in ARecord : e.event \in {"started", "stopped"} /\ file' = file \o <<e>>
    <3>1. CASE Start
      <4>1. Log!Started(now) \in ARecord
        BY <1>2, RecordsOf DEF TInv, Inv, WellFormed
      <4>2. Append(file, Log!Started(now)) = file \o <<Log!Started(now)>>
        BY <1>2, <4>1
      <4>3. Log!Started(now).event = "started"
        BY DEF Log!Started
      <4> QED
        BY <3>1, <4>1, <4>2, <4>3 DEF Start
    <3>2. CASE RecordStopped
      <4>1. Log!Stopped(now) \in ARecord
        BY <1>2, RecordsOf DEF TInv, Inv, WellFormed
      <4>2. Log!Stopped(now).event = "stopped"
        BY DEF Log!Stopped
      <4> QED
        BY <3>2, <4>1, <4>2 DEF RecordStopped, Vouch
    <3> QED
      BY <1>3, <3>1, <3>2
  <2>2. PICK more \in Seq(ARecord) : more = <<e>>
    <3>1. <<e>> \in Seq(ARecord)
      OBVIOUS
    <3> QED
      BY <3>1
  <2>3. \A j \in 1..Len(more) : more[j].event \notin {"opened", "resolved"}
    <3>1. Len(more) = 1 /\ more[1] = e
      BY <2>2
    <3> QED
      BY <2>1, <3>1
  <2>4. Extends(file', file, more)
    BY <1>2, <2>1, <2>2, ConcatExtends
  <2>5. UNCHANGED <<now, cycleAt, open, pending, reported, stalled>>
    BY <1>3 DEF Start, RecordStopped, vars, program
  <2> QED
    BY <1>2, <2>3, <2>4, <2>5, QuietKeeps
<1>4. CASE Bind \/ Deliver \/ Abort \/ StoppedUnrecorded
  <2>1. UNCHANGED <<now, cycleAt, open, pending, reported, stalled, file>>
    <3>1. Bind \/ Abort \/ StoppedUnrecorded => UNCHANGED <<now, cycleAt, open, pending, reported, stalled, file>>
      BY DEF Bind, Abort, StoppedUnrecorded, vars, program, witness
    <3>2. Deliver => UNCHANGED <<now, cycleAt, open, pending, reported, stalled, file>>
      BY DEF Deliver, Send, SendOk, SendRejected, SendFailed, life, witness
    <3> QED
      BY <1>4, <3>1, <3>2
  <2>2. PICK more \in Seq(ARecord) : more = <<>>
    <3>1. <<>> \in Seq(ARecord)
      OBVIOUS
    <3> QED
      BY <3>1
  <2>3. Len(more) = 0 /\ file' = file \o more
    BY <1>2, <2>1, <2>2
  <2>4. Extends(file', file, more)
    BY <1>2, <2>3, ConcatExtends
  <2>5. \A j \in 1..Len(more) : more[j].event \notin {"opened", "resolved"}
    BY <2>3
  <2> QED
    BY <1>2, <2>1, <2>4, <2>5, QuietKeeps
<1>5. ASSUME NEW a \in Assessments, Evaluate(a) PROVE Accounted'
  BY <1>2, <1>5, CycleKeeps
<1>6. CASE Pass
  BY <1>2, <1>6, PassKeeps
<1> QED
  BY <1>1, <1>3, <1>4, <1>5, <1>6 DEF TrailNext

LEMMA InitDInv == TrailInit => DInv
<1> SUFFICES ASSUME TrailInit PROVE DInv
  OBVIOUS
<1>1. RInv
  BY InitRInv
<1>2. Len(file) = 0 /\ 1..0 = {}
  BY DEF TrailInit
<1>3. /\ open = EmptyMap /\ pending = EmptyMap /\ cycleAt = NoTime
      /\ reported = [s \in Subject |-> {}] /\ stalled = 0
  BY DEF TrailInit, Init
<1>4. DOMAIN open = {} /\ DOMAIN pending = {}
  BY <1>3 DEF EmptyMap
<1>5. WitnessTyped
  BY <1>3 DEF WitnessTyped
<1>6. OpenedAre(file, open) /\ ResolvedAre(file, reported, stalled)
  BY <1>2 DEF OpenedAre, ResolvedAre
<1>7. 0 \in 0..stalled /\ LastCycleIs(0) /\ EntriesWrong /\ InTurn
  BY <1>2, <1>3, <1>4 DEF LastCycleIs, EntriesWrong, InTurn, EndsInTurn
<1>8. \A s \in Subject : \A u \in reported[s] : u <= now
  BY <1>3
<1> QED
  BY <1>1, <1>5, <1>6, <1>7, <1>8 DEF DInv, Accounted

LEMMA NextDInv == DInv /\ [TrailNext]_trailVars => DInv'
<1> SUFFICES ASSUME DInv, [TrailNext]_trailVars PROVE DInv'
  OBVIOUS
<1>1. RInv'
  BY NextRInv DEF DInv
<1>2. CASE UNCHANGED trailVars
  <2>1. /\ UNCHANGED <<now, cycleAt, open, pending, setBack, restarts, file, reported, stalled>>
    BY <1>2 DEF trailVars, vars, program, observers, life, witness
  <2>2. WitnessTyped'
    BY <2>1 DEF DInv, WitnessTyped
  <2>3. Accounted => Accounted'
    BY <2>1 DEF Accounted, LastCycleIs, EntriesWrong, InTurn
  <2> QED
    BY <1>1, <2>1, <2>2, <2>3 DEF DInv
<1>3. CASE TrailNext
  <2>1. WitnessTyped'
    BY <1>3, WitnessStep DEF DInv, RInv
  <2>2. restarts' = 0 /\ setBack' = 0 => Accounted'
    BY <1>3, AccountedStep
  <2> QED
    BY <1>1, <2>1, <2>2 DEF DInv
<1> QED
  BY <1>2, <1>3

LEMMA DowntimeAlways == TrailSpec => []DInv
  BY InitDInv, NextDInv, PTL DEF TrailSpec

\* An incident that is resolved in the log is resolved in the log by date: its end is
\* not dated before its beginning, and was recorded after it.
LEMMA ResolvedByDate ==
  ASSUME NEW recs \in Seq(ARecord), NEW at, IsByDate(at, recs), NEW cycles, NEW late,
         ResolvedAre(recs, cycles, late),
         NEW m \in 1..Len(recs), NEW j \in 1..Len(recs), at[m] < j, Resolves(recs[j], recs[at[m]])
  PROVE  \E n \in 1..Len(recs) : m < n /\ at[n] = j
<1>1. PICK c \in Nat : c = Len(recs)
  OBVIOUS
<1>2. /\ \A i \in 1..c : at[i] \in 1..c
      /\ \A i \in 1..c : \E n \in 1..c : at[n] = i
      /\ \A i, n \in 1..c : i < n => Precedes(recs, at[i], at[n])
      /\ \A i \in 1..c : recs[i].ts \in Nat
  BY <1>1, RecordAt DEF IsByDate
<1>3. PICK n \in 1..c : at[n] = j
  BY <1>1, <1>2
<1>4. recs[at[m]].ts <= recs[j].ts
  <2>1. recs[j].event = "resolved" /\ recs[j].openedTs = recs[at[m]].ts
    BY DEF Resolves
  <2>2. recs[j].openedTs <= recs[j].ts
    BY <2>1 DEF ResolvedAre, EndIs
  <2> QED
    BY <2>1, <2>2
<1>5. m # n
  <2>1. j \in Nat /\ at[n] = j
    BY <1>1, <1>3
  <2>2. \A i \in Nat : ~(i < i)
    OBVIOUS
  <2> QED
    BY <2>1, <2>2
<1>6. ~(n < m)
  <2> SUFFICES ASSUME n < m PROVE FALSE
    OBVIOUS
  <2>1. Precedes(recs, j, at[m])
    BY <1>1, <1>2, <1>3
  <2>2. /\ at[m] \in Nat /\ j \in Nat /\ at[m] < j
        /\ recs[at[m]].ts \in Nat /\ recs[j].ts \in Nat
    <3>1. PICK i \in 1..c : i = at[m]
      BY <1>1, <1>2
    <3>2. recs[i].ts \in Nat /\ recs[j].ts \in Nat
      BY <1>1, <1>2
    <3>3. i \in Nat /\ j \in Nat
      BY <1>1
    <3> QED
      BY <3>1, <3>2, <3>3
  <2>3. recs[j].ts < recs[at[m]].ts \/ j < at[m]
    BY <2>1 DEF Precedes
  <2>4. \A a, b \in Nat : ~(a <= b /\ b < a)
    OBVIOUS
  <2>5. ~(j < at[m])
    BY <2>2, <2>4
  <2> QED
    BY <1>4, <2>2, <2>3, <2>4, <2>5
<1> QED
  BY <1>1, <1>3, <1>5, <1>6

\* Incident x of a report, read from the n-th record by date, which is e: it ended, or it is
\* still open.
Ended(x, n, e) ==
    /\ e.event = "resolved"
    /\ x = [record |-> n, subject |-> e.key[1], from |-> Log!FromUnix(e.openedTs), to |-> At(e)]

Lasts(x, n, e) ==
    /\ e.event = "opened" /\ e.openedTs = Log!None
    /\ e.key \in DOMAIN open /\ e.ts = Log!Unix(open[e.key].openedAt)
    /\ x = [record |-> n, subject |-> e.key[1], from |-> At(e), to |-> now]

LEMMA IncidentIs ==
  ASSUME TInv, OpenedAre(file, open), ResolvedAre(file, reported, stalled),
         NEW at, NEW ev, ByDate(at, ev), NEW x \in Log!Incidents(ev, now)
  PROVE  \E n \in 1..Len(file) :
            \/ Ended(x, n, file[at[n]])
            \/ Lasts(x, n, file[at[n]]) /\ \A m \in (n + 1)..Len(file) : ev[m] # ev[n]
<1>1. /\ file \in Seq(ARecord) /\ Len(file) \in Nat
  BY ReadByDate
<1>2. PICK c \in Nat : c = Len(file)
  BY <1>1
<1>3. /\ IsByDate(at, file) /\ ev = Events /\ Len(ev) = c
      /\ \A n \in 1..c : ev[n] = file[at[n]] /\ at[n] \in 1..c
  BY <1>2 DEF ByDate
<1>4. DOMAIN ev = 1..c
  <2>1. ev \in Seq(ARecord)
    BY <1>1, <1>3, DatedIsSorted DEF Events
  <2> QED
    BY <1>3, <2>1
<1>5. CASE \E n \in 1..c :
            /\ ev[n].event = "resolved"
            /\ x = [record |-> n, subject |-> ev[n].key[1],
                    from |-> Log!FromUnix(ev[n].openedTs), to |-> Log!FromUnix(ev[n].ts)]
  BY <1>2, <1>3, <1>5 DEF Ended, At
<1>6. CASE \E n \in Log!StillOpen(ev) :
            x = [record |-> n, subject |-> ev[n].key[1],
                 from |-> Log!FromUnix(ev[n].ts), to |-> now]
  <2>1. PICK n \in Log!StillOpen(ev) :
            x = [record |-> n, subject |-> ev[n].key[1],
                 from |-> Log!FromUnix(ev[n].ts), to |-> now]
    BY <1>6
  <2>2. /\ n \in 1..c /\ ev[n].event = "opened"
        /\ \A m \in (n + 1)..c :
            /\ ev[m] # ev[n]
            /\ ~(ev[m].event = "resolved" /\ ev[m].key = ev[n].key /\ ev[m].openedTs = ev[n].ts)
    BY <1>3, <1>4 DEF Log!StillOpen
  <2>3. PICK i \in 1..c : i = at[n] /\ ev[n] = file[i]
    BY <1>3, <2>2
  <2>4. ~ \E j \in 1..c : i < j /\ Resolves(file[j], file[i])
    <3> SUFFICES ASSUME NEW j \in 1..c, i < j, Resolves(file[j], file[i]) PROVE FALSE
      OBVIOUS
    <3>1. PICK m \in 1..c : n < m /\ at[m] = j
      BY <1>1, <1>2, <1>3, <2>2, <2>3, ResolvedByDate
    <3>2. m \in (n + 1)..c /\ ev[m] = file[j]
      BY <1>3, <2>2, <3>1
    <3> QED
      BY <2>2, <2>3, <3>2 DEF Resolves
  <2>5. /\ file[i].openedTs = Log!None
        /\ file[i].key \in DOMAIN open /\ file[i].ts = Log!Unix(open[file[i].key].openedAt)
    BY <1>2, <2>2, <2>3, <2>4 DEF OpenedAre
  <2>6. Lasts(x, n, file[at[n]])
    BY <2>1, <2>2, <2>3, <2>5 DEF Lasts, At
  <2> QED
    BY <1>2, <2>2, <2>6
<1> QED
  BY <1>4, <1>5, <1>6 DEF Log!Incidents

\* DownWasReported (AuditTrail): what a report counts as downtime of a subject is time
\* in which cycles reported it wrong, but for what a window may hide or the loop missed.
THEOREM DownWasReportedAlways == TrailSpec => []DownWasReported
<1>1. DInv => DownWasReported
  <2> SUFFICES ASSUME DInv, restarts = 0, setBack = 0, NEW s \in Subject, NEW t \in DownUnits(s)
               PROVE  ReportedWrong(s, t)
    BY DEF DownWasReported
  <2>1. /\ TInv /\ EntriesWrong /\ OpenedAre(file, open) /\ ResolvedAre(file, reported, stalled)
    BY DEF DInv, RInv, Accounted
  <2>2. PICK x \in Log!IncidentsOf(s, Events, 0, now) : t \in Units(x.from, x.to)
    BY DEF DownUnits
  <2>3. PICK at, ev : ByDate(at, ev)
    BY <2>1, ReadByDate
  <2>4. x \in Log!Incidents(ev, now) /\ x.subject = s
    BY <2>3 DEF ByDate, Log!IncidentsOf
  <2>5. PICK n \in 1..Len(file) : Ended(x, n, file[at[n]]) \/ Lasts(x, n, file[at[n]])
    BY <2>1, <2>3, <2>4, IncidentIs
  <2>6. PICK i \in 1..Len(file) : i = at[n]
    BY <2>3, <2>5 DEF ByDate
  <2>7. WrongFrom(x.from, x.to, reported[s], stalled)
    <3>1. CASE Ended(x, n, file[i])
      BY <2>1, <2>4, <3>1 DEF Ended, ResolvedAre, EndIs
    <3>2. CASE Lasts(x, n, file[i])
      <4>1. PICK k \in DOMAIN open : k = file[i].key
        BY <3>2 DEF Lasts
      <4>2. x.from = SecondOf(open[k].openedAt) /\ x.to = now /\ k[1] = s
        BY <2>4, <3>2, <4>1 DEF Lasts, At, SecondOf
      <4> QED
        BY <2>1, <4>2 DEF EntriesWrong
    <3> QED
      BY <2>5, <2>6, <3>1, <3>2
  <2> QED
    BY <2>2, <2>7 DEF WrongFrom, WrongAt, ReportedWrong
<1> QED
  BY <1>1, DowntimeAlways, PTL

-----------------------------------------------------------------------------
(* Downtime: how much of it *)

\* Two incidents of one rule share no time: the later one opened when the earlier one had
\* ended, and of one that is open there are not two.
LEMMA IncidentsApart ==
  ASSUME DInv, restarts = 0, setBack = 0, NEW s, OneRuleBroke(s),
         NEW x \in Log!Incidents(Events, now), NEW y \in Log!Incidents(Events, now), x # y,
         x.subject = s, y.subject = s
  PROVE  x.to <= y.from \/ y.to <= x.from
<1>1. TInv /\ OpenedAre(file, open) /\ ResolvedAre(file, reported, stalled) /\ InTurn
  BY DEF DInv, RInv, Accounted
<1>2. PICK at, ev : ByDate(at, ev)
  BY <1>1, ReadByDate
<1>3. PICK c \in Nat : c = Len(file)
  BY <1>1, ReadByDate
<1>4. /\ ev = Events /\ DOMAIN file = 1..c
      /\ \A n \in 1..c : ev[n] = file[at[n]] /\ at[n] \in 1..c /\ file[n] \in ARecord
      /\ \A m, n \in 1..c : m < n => Precedes(file, at[m], at[n])
  BY <1>1, <1>2, <1>3, ReadByDate DEF ByDate, IsByDate
<1>5. PICK n \in 1..c : \/ Ended(x, n, file[at[n]])
                        \/ Lasts(x, n, file[at[n]]) /\ \A m \in (n + 1)..c : ev[m] # ev[n]
  <2>1. x \in Log!Incidents(ev, now)
    BY <1>4
  <2> QED
    BY <1>1, <1>2, <1>3, <2>1, IncidentIs
<1>6. PICK m \in 1..c : \/ Ended(y, m, file[at[m]])
                        \/ Lasts(y, m, file[at[m]]) /\ \A l \in (m + 1)..c : ev[l] # ev[m]
  <2>1. y \in Log!Incidents(ev, now)
    BY <1>4
  <2> QED
    BY <1>1, <1>2, <1>3, <2>1, IncidentIs
<1>7. PICK i \in 1..c, j \in 1..c : i = at[n] /\ j = at[m] /\ ev[n] = file[i] /\ ev[m] = file[j]
  BY <1>4
<1>8. n # m
  BY <1>5, <1>6, <1>7 DEF Ended, Lasts
<1>9. i # j
  <2>1. n < m \/ m < n
    BY <1>8
  <2>2. file[i].ts \in Nat /\ file[j].ts \in Nat
    BY <1>4 DEF ARecord
  <2> QED
    BY <1>4, <1>7, <2>1, <2>2 DEF Precedes
<1>10. file[i].key = file[j].key
  <2>1. file[i].key[1] = s /\ file[j].key[1] = s
    BY <1>5, <1>6, <1>7 DEF Ended, Lasts
  <2> QED
    BY <1>4, <2>1 DEF OneRuleBroke
<1>11. \A e \in ARecord, d \in ARecord : e.ts \in Nat /\ (e.ts <= d.ts => At(e) <= At(d))
  BY DatesKeepOrder DEF ARecord, At
<1>12. ASSUME NEW p \in 1..c, NEW q \in 1..c, p < q, file[p].key = file[q].key,
              NEW v, NEW w, NEW k, NEW l, Ended(v, k, file[p]), Ended(w, l, file[q])
       PROVE  v.to <= w.from
  <2>1. file[p].ts <= file[q].openedTs
    BY <1>1, <1>3, <1>12 DEF InTurn, EndsInTurn, Ended
  <2>2. file[p].ts \in Nat /\ file[q].openedTs \in Nat
    <3>1. EndIs(file[q], reported, stalled)
      BY <1>1, <1>3, <1>12 DEF ResolvedAre, Ended
    <3> QED
      BY <1>4, <3>1 DEF EndIs, ARecord
  <2>3. At(file[p]) <= Log!FromUnix(file[q].openedTs)
    BY <2>1, <2>2, DatesKeepOrder DEF At
  <2> QED
    BY <1>12, <2>3 DEF Ended
<1>13. ASSUME NEW p \in 1..c, NEW q \in 1..c, file[p].key = file[q].key,
              NEW v, NEW w, NEW k, NEW l, Ended(v, k, file[p]), Lasts(w, l, file[q])
       PROVE  v.to <= w.from
  <2>1. file[p].ts <= file[q].ts
    BY <1>1, <1>3, <1>13 DEF InTurn, EndedBefore, Ended, Lasts
  <2>2. At(file[p]) <= At(file[q])
    BY <1>4, <1>11, <2>1
  <2> QED
    BY <1>13, <2>2 DEF Ended, Lasts
<1>14. ~(Lasts(x, n, file[i]) /\ Lasts(y, m, file[j]))
  <2> SUFFICES ASSUME Lasts(x, n, file[i]), Lasts(y, m, file[j]) PROVE FALSE
    OBVIOUS
  <2>1. /\ file[i].event = file[j].event /\ file[i].ts = file[j].ts /\ file[i].openedTs = file[j].openedTs
        /\ file[i].event # "resolved" /\ file[j].event # "resolved"
    BY <1>10 DEF Lasts
  <2>2. file[i] = file[j]
    <3>1. \A e, d \in ARecord : e.event = d.event /\ e.ts = d.ts /\ e.key = d.key
                              /\ e.openedTs = d.openedTs => e = d
      BY DEF ARecord
    <3> QED
      BY <1>4, <1>10, <2>1, <3>1
  <2>3. n < m => m \in (n + 1)..c
    OBVIOUS
  <2>4. m < n => n \in (m + 1)..c
    OBVIOUS
  <2> QED
    BY <1>5, <1>6, <1>7, <1>8, <2>1, <2>2, <2>3, <2>4 DEF Ended
<1>15. i < j \/ j < i
  BY <1>9
<1> QED
  BY <1>5, <1>6, <1>7, <1>10, <1>12, <1>13, <1>14, <1>15

\* A log has finitely many incidents.
LEMMA IncidentsFinite ==
  ASSUME NEW ev, IsFiniteSet(DOMAIN ev), NEW until
  PROVE  IsFiniteSet(Log!Incidents(ev, until))
<1>1. PICK f : f = [i \in DOMAIN ev |->
                       [record |-> i, subject |-> ev[i].key[1],
                        from |-> Log!FromUnix(ev[i].openedTs), to |-> Log!FromUnix(ev[i].ts)]]
  OBVIOUS
<1>2. PICK l : l = [i \in DOMAIN ev |->
                       [record |-> i, subject |-> ev[i].key[1],
                        from |-> Log!FromUnix(ev[i].ts), to |-> until]]
  OBVIOUS
<1>3. IsFiniteSet({f[i] : i \in DOMAIN ev}) /\ IsFiniteSet({l[i] : i \in DOMAIN ev})
  BY ImageIsFinite
<1>4. IsFiniteSet({f[i] : i \in DOMAIN ev} \cup {l[i] : i \in DOMAIN ev})
  BY <1>3, FS_Union
<1>5. Log!Incidents(ev, until) \subseteq {f[i] : i \in DOMAIN ev} \cup {l[i] : i \in DOMAIN ev}
  <2> SUFFICES ASSUME NEW x \in Log!Incidents(ev, until)
               PROVE  \E i \in DOMAIN ev : x = f[i] \/ x = l[i]
    OBVIOUS
  <2>1. \/ \E i \in DOMAIN ev :
              x = [record |-> i, subject |-> ev[i].key[1],
                   from |-> Log!FromUnix(ev[i].openedTs), to |-> Log!FromUnix(ev[i].ts)]
        \/ \E i \in DOMAIN ev :
              x = [record |-> i, subject |-> ev[i].key[1],
                   from |-> Log!FromUnix(ev[i].ts), to |-> until]
    BY DEF Log!Incidents, Log!StillOpen
  <2> QED
    BY <1>1, <1>2, <2>1
<1> QED
  BY <1>4, <1>5, FS_Subset

\* The beginnings and ends of incidents are times.
LEMMA IncidentTimes ==
  ASSUME TInv, OpenedAre(file, open), ResolvedAre(file, reported, stalled),
         NEW x \in Log!Incidents(Events, now)
  PROVE  x.from \in Nat /\ x.to \in Nat
<1>1. PICK at, ev : ByDate(at, ev)
  BY ReadByDate
<1>2. x \in Log!Incidents(ev, now)
  BY <1>1 DEF ByDate
<1>3. PICK n \in 1..Len(file) : Ended(x, n, file[at[n]]) \/ Lasts(x, n, file[at[n]])
  BY <1>1, <1>2, IncidentIs
<1>4. PICK i \in 1..Len(file) : i = at[n]
  BY <1>1, <1>3 DEF ByDate
<1>5. file[i] \in ARecord /\ now \in Nat /\ Grain \in Nat
  BY ReadByDate, RecordAt, TrailAssumption
<1>6. At(file[i]) \in Nat
  BY <1>5 DEF At, Log!FromUnix, ARecord
<1>7. CASE Ended(x, n, file[i])
  <2>1. file[i].openedTs \in Nat
    BY <1>7 DEF Ended, ResolvedAre, EndIs
  <2> QED
    BY <1>5, <1>6, <1>7, <2>1 DEF Ended, Log!FromUnix
<1>8. CASE Lasts(x, n, file[i])
  BY <1>5, <1>6, <1>8 DEF Lasts
<1> QED
  BY <1>3, <1>4, <1>7, <1>8

\* Incidents that share no time add up to the number of units they have in a window.
LEMMA DownAddsUp ==
  ASSUME NEW who, NEW ev, NEW since \in Int, NEW until \in Int,
         IsFiniteSet(Log!IncidentsOf(who, ev, since, until)),
         \A x \in Log!IncidentsOf(who, ev, since, until) : x.from \in Int /\ x.to \in Int,
         \A x, y \in Log!IncidentsOf(who, ev, since, until) : x # y => x.to <= y.from \/ y.to <= x.from
  PROVE  Log!Down(who, ev, since, until)
           = Cardinality(UNION {Units(x.from, x.to) \cap Units(since, until) :
                                    x \in Log!IncidentsOf(who, ev, since, until)})
<1> DEFINE D == Log!IncidentsOf(who, ev, since, until)
           Over(i) == Log!Overlap(i.from, i.to, since, until)
           w == [i \in D |-> Over(i)]
           part == [i \in D |-> Units(i.from, i.to) \cap Units(since, until)]
           AnyOf(s) == CHOOSE x \in s : TRUE
           Sum(g) == g = [s \in SUBSET D |-> IF s = {} THEN 0 ELSE Over(AnyOf(s)) + g[s \ {AnyOf(s)}]]
<1> HIDE DEF D
<1>0. /\ IsFiniteSet(D)
      /\ \A x \in D : x.from \in Int /\ x.to \in Int
      /\ \A x, y \in D : x # y => x.to <= y.from \/ y.to <= x.from
  BY DEF D
<1>1. \A x \in D : /\ IsFiniteSet(part[x])
                   /\ w[x] = Cardinality(part[x])
                   /\ w[x] \in Nat
  <2>1. ASSUME NEW x \in D
        PROVE  /\ IsFiniteSet(Units(x.from, x.to) \cap Units(since, until))
               /\ Over(x) = Cardinality(Units(x.from, x.to) \cap Units(since, until))
               /\ Over(x) \in Nat
    <3>1. PICK a \in Int, b \in Int : a = x.from /\ b = x.to
      BY <1>0
    <3>2. IsFiniteSet(Units(a, b) \cap Units(since, until))
      BY OverlapCounts
    <3>3. Log!Overlap(a, b, since, until) \in Nat
      BY OverlapCounts
    <3>4. Log!Overlap(a, b, since, until) = Cardinality(Units(a, b) \cap Units(since, until))
      BY OverlapCounts
    <3> QED
      BY <3>1, <3>2, <3>3, <3>4, Zenon
  <2> HIDE DEF Over
  <2> QED
    BY <2>1
<1>2. \A x, y \in D : x # y => part[x] \cap part[y] = {}
  <2>1. ASSUME NEW x \in D, NEW y \in D, x.to <= y.from PROVE part[x] \cap part[y] = {}
    <3>1. part[x] \subseteq Units(x.from, x.to) /\ part[y] \subseteq Units(y.from, y.to)
      OBVIOUS
    <3>2. Units(x.from, x.to) \cap Units(y.from, y.to) = {}
      BY <1>0, <2>1 DEF Units
    <3> HIDE DEF part
    <3> QED
      BY <3>1, <3>2
  <2> HIDE DEF part
  <2> QED
    BY <1>0, <2>1
<1>3. \A g : Sum(g) <=> SumEquation(g, D, w)
  <2> SUFFICES ASSUME NEW g
               PROVE  [s \in SUBSET D |-> IF s = {} THEN 0 ELSE Over(AnyOf(s)) + g[s \ {AnyOf(s)}]]
                      = [s \in SUBSET D |-> IF s = {} THEN 0 ELSE w[AnyOf(s)] + g[s \ {AnyOf(s)}]]
    BY Zenon DEF SumEquation
  <2>1. \A s \in SUBSET D : s # {} => w[AnyOf(s)] = Over(AnyOf(s))
    OBVIOUS
  <2> HIDE DEF w, AnyOf, Over
  <2> QED
    BY <2>1
<1>4. \E g : SumEquation(g, D, w)
  <2> HIDE DEF w
  <2> QED
    BY <1>0, <1>1, SumExists
<1>5. Log!Down(who, ev, since, until) = (CHOOSE g : Sum(g))[D]
  BY Zenon DEF D, Log!Down, Log!MapThenSumSet, Log!MapThenFoldSet
<1> HIDE DEF Sum, w
<1>6. Sum(CHOOSE g : Sum(g))
  BY <1>3, <1>4, Zenon
<1>7. \E g : SumEquation(g, D, w) /\ Log!Down(who, ev, since, until) = g[D]
  BY <1>3, <1>5, <1>6, Zenon
<1>8. Log!Down(who, ev, since, until) = Cardinality(UNION {part[x] : x \in D})
  <2> HIDE DEF part
  <2>1. PICK g : SumEquation(g, D, w) /\ Log!Down(who, ev, since, until) = g[D]
    BY <1>7
  <2>2. \A x \in D : IsFiniteSet(part[x]) /\ w[x] = Cardinality(part[x])
    BY <1>1, Zenon
  <2>3. g[D] = Cardinality(UNION {part[x] : x \in D})
    BY <1>0, <1>2, <2>1, <2>2, SizesAddUp
  <2> QED
    BY <2>1, <2>3, Zenon
<1>9. UNION {part[x] : x \in D} = UNION {Units(x.from, x.to) \cap Units(since, until) : x \in D}
  <2>1. \A x \in D : part[x] = Units(x.from, x.to) \cap Units(since, until)
    OBVIOUS
  <2> HIDE DEF part
  <2> QED
    BY <2>1
<1> QED
  BY <1>8, <1>9 DEF D

\* The units that incidents have in a window that ends now are those that all the
\* incidents of the log have in it.
LEMMA WindowsAgree ==
  ASSUME NEW s, NEW since \in Nat, now \in Nat,
         \A x \in Log!Incidents(Events, now) : x.from \in Nat /\ x.to \in Nat
  PROVE  UNION {Units(x.from, x.to) \cap Units(since, now) : x \in Log!IncidentsOf(s, Events, since, now)}
           = DownUnits(s) \cap Units(since, now)
<1> DEFINE Reaching(a) == Log!IncidentsOf(s, Events, a, now)
<1>1. ASSUME NEW x \in Log!Incidents(Events, now), x.subject = s, NEW a \in Nat,
             NEW t \in Units(x.from, x.to) \cap Units(a, now)
      PROVE  x \in Reaching(a)
  <2>1. PICK from \in Nat, to \in Nat : from = x.from /\ to = x.to
    BY <1>1
  <2>2. t \in Int /\ from <= t /\ t < to /\ a <= t /\ t < now
    BY <1>1, <2>1 DEF Units
  <2>3. Log!Overlap(from, to, a, now) > 0
    BY <2>2 DEF Log!Overlap, Log!Later, Log!Earlier
  <2> QED
    BY <1>1, <2>1, <2>3 DEF Log!IncidentsOf
<1>2. \A a : \A x \in Reaching(a) : x \in Log!Incidents(Events, now) /\ x.subject = s
  BY DEF Log!IncidentsOf
<1>3. Units(since, now) \subseteq Units(0, now)
  BY DEF Units
<1>4. DownUnits(s) = Units(0, now) \cap UNION {Units(x.from, x.to) : x \in Reaching(0)}
  BY DEF DownUnits
<1> HIDE DEF Reaching
<1>5. ASSUME NEW x \in Reaching(since), NEW t \in Units(x.from, x.to) \cap Units(since, now)
      PROVE  t \in DownUnits(s) \cap Units(since, now)
  <2>1. t \in Units(x.from, x.to) \cap Units(0, now)
    BY <1>3, <1>5
  <2>2. x \in Reaching(0)
    BY <1>1, <1>2, <1>5, <2>1
  <2> QED
    BY <1>4, <1>5, <2>1, <2>2
<1>6. ASSUME NEW t \in DownUnits(s) \cap Units(since, now)
      PROVE  \E x \in Reaching(since) : t \in Units(x.from, x.to) \cap Units(since, now)
  <2>1. PICK x \in Reaching(0) : t \in Units(x.from, x.to)
    BY <1>4, <1>6
  <2>2. x \in Reaching(since)
    BY <1>1, <1>2, <1>6, <2>1
  <2> QED
    BY <1>6, <2>1, <2>2
<1>7. UNION {Units(x.from, x.to) \cap Units(since, now) : x \in Reaching(since)}
        = DownUnits(s) \cap Units(since, now)
  BY <1>5, <1>6
<1> QED
  BY <1>7 DEF Reaching

\* DownCountsOnce (AuditTrail): the downtime of a window is the number of its units in
\* which the subject had an open incident; none is counted twice.
THEOREM DownCountsOnceAlways == TrailSpec => []DownCountsOnce
<1>1. DInv => DownCountsOnce
  <2> SUFFICES ASSUME DInv, restarts = 0, setBack = 0,
                      NEW s \in Subject, OneRuleBroke(s), NEW since \in 0..now
               PROVE  Log!Down(s, Events, since, now)
                        = Cardinality(DownUnits(s) \cap Units(since, now))
    BY DEF DownCountsOnce
  <2>1. TInv /\ OpenedAre(file, open) /\ ResolvedAre(file, reported, stalled)
    BY DEF DInv, RInv, Accounted
  <2>2. /\ now \in Nat /\ since \in Nat
        /\ file \in Seq(ARecord) /\ Len(file) \in Nat
    BY <2>1, ReadByDate
  <2> DEFINE D == Log!IncidentsOf(s, Events, since, now)
  <2>3. D \subseteq Log!Incidents(Events, now) /\ \A x \in D : x.subject = s
    BY DEF Log!IncidentsOf
  <2> HIDE DEF D
  <2>4. IsFiniteSet(D)
    <3>1. DOMAIN Events = 1..Len(file)
      BY <2>2 DEF Events, Log!Dated
    <3>2. IsFiniteSet(DOMAIN Events)
      BY <2>2, <3>1, IntervalSize
    <3>3. IsFiniteSet(Log!Incidents(Events, now))
      BY <3>2, IncidentsFinite
    <3> QED
      BY <2>3, <3>3, FS_Subset
  <2>5. \A x \in Log!Incidents(Events, now) : x.from \in Nat /\ x.to \in Nat
    BY <2>1, IncidentTimes
  <2>6. \A x, y \in D : x # y => x.to <= y.from \/ y.to <= x.from
    BY <2>3, IncidentsApart
  <2>7. Log!Down(s, Events, since, now)
          = Cardinality(UNION {Units(x.from, x.to) \cap Units(since, now) : x \in D})
    <3>1. \A x \in D : x.from \in Int /\ x.to \in Int
      BY <2>3, <2>5
    <3> QED
      BY <2>2, <2>4, <2>6, <3>1, DownAddsUp DEF D
  <2>8. UNION {Units(x.from, x.to) \cap Units(since, now) : x \in D} = DownUnits(s) \cap Units(since, now)
    BY <2>2, <2>5, WindowsAgree DEF D
  <2> QED
    BY <2>7, <2>8
<1> QED
  BY <1>1, DowntimeAlways, PTL

=============================================================================
