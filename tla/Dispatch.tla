------------------------------ MODULE Dispatch ------------------------------
(***************************************************************************)
(* The dispatcher of src/src/notify.rs, driven by the watch loop of        *)
(* src/src/main.rs: every tick one task evaluates the rules, reconciles    *)
(* what they report with the incidents already open, queues what is new,   *)
(* and then delivers the queue one awaited send at a time before it ticks  *)
(* again. Time is counted in ticks.                                        *)
(***************************************************************************)
EXTENDS Alerts

CONSTANTS
    ConfirmAfter,  \* how long a condition must hold, or be gone, to be reported
    BaseRetry,     \* BASE_RETRY
    MaxRetry,      \* MAX_RETRY
    MaxTime,       \* bound: the clock stops here
    LastUpset,     \* bound: after this time the world and the notifier are stable
    MaxSetBack,    \* bound: how far the wall clock is set back in all
    MaxRestarts    \* bound: how often the process is killed and started again

ASSUME TimingAssumption ==
    /\ ConfirmAfter \in Nat
    /\ BaseRetry \in Nat \ {0}
    /\ MaxRetry \in Nat \ {0}
ASSUME BoundsAssumption ==
    /\ MaxTime \in Nat
    /\ LastUpset \in Nat
    /\ MaxSetBack \in Nat
    /\ MaxRestarts \in Nat

Time == 0..MaxTime

\* Option<SystemTime>::None, below every time.
NoTime == -1
MaybeTime == Time \cup {NoTime}

VARIABLES
    now,       \* the wall clock
    cycleAt,   \* `now` as the watch loop read it at the start of this cycle
    phase,     \* "ticking", or "sending" while a send is awaited
    open,      \* incidents reported and not cleared: some keys -> Open
    pending,   \* conditions seen and not confirmed: some keys -> Pending
    outbox,    \* messages queued, oldest first
    failures,  \* consecutive_failures
    retryAt,   \* retry_at
    dropped,   \* messages given up on, each with an error in the log
    trail      \* the last audit record of each key
program == <<cycleAt, phase, open, pending, outbox, failures, retryAt, dropped, trail>>

\* Observers: they record what happened and influence nothing.
VARIABLES
    wrong,      \* the assessments of the last cycle: some keys -> Severity
    spell,      \* the last unbroken run of cycles reporting a key: from when by
                \* the wall clock, and when it began and ended in true time
    told,       \* the level of the last message delivered about a key
    setBack,    \* how far the clock has been set back so far
    restarts    \* restarts so far
observers == <<wrong, spell, told, setBack, restarts>>

vars == <<now, program, observers>>

-----------------------------------------------------------------------------
(* Types *)

Open == [severity : Severity, openedAt : Time, clearingSince : MaybeTime]
Pending == [severity : Severity, firstSeen : Time, latest : Severity]
Record == [event : {"none", "opened", "escalated", "resolved"},
           severity : Level, openedAt : MaybeTime, endedAt : MaybeTime]
\* True times: the clock, plus what it has been set back.
Elapsable == 0..(MaxTime + MaxSetBack)
Spell == [from : Time, began : Elapsable, ended : Elapsable]

\* Maps with some keys of K: m is one of them, and all of them.
IsPartialMap(m, K, V) == DOMAIN m \subseteq K /\ m \in [DOMAIN m -> V]
PartialMap(K, V) == UNION {[D -> V] : D \in SUBSET K}
EmptyMap == [k \in {} |-> 0]

TypeOK ==
    /\ now \in Time
    /\ cycleAt \in MaybeTime
    /\ phase \in {"ticking", "sending"}
    /\ IsPartialMap(open, Key, Open)
    /\ IsPartialMap(pending, Key, Pending)
    /\ outbox \in Seq(Message)
    /\ failures \in Nat
    /\ retryAt \in NoTime..(MaxTime + MaxRetry)
    /\ dropped \in Nat
    /\ trail \in [Key -> Record]
    /\ IsPartialMap(wrong, Key, Severity)
    /\ IsPartialMap(spell, Key, Spell)
    /\ told \in [Key -> Level]
    /\ setBack \in 0..MaxSetBack
    /\ restarts \in 0..MaxRestarts

-----------------------------------------------------------------------------
(* Helpers *)

\* duration_since(..).unwrap_or(ZERO): a clock that went backwards reads zero.
Elapsed(from, to) == IF to >= from THEN to - from ELSE 0

Worse(a, b) == IF a >= b THEN a ELSE b

Smaller(a, b) == IF a <= b THEN a ELSE b

\* 1u32 << doublings, for doublings in 0..8.
Doubled == <<1, 2, 4, 8, 16, 32, 64, 128, 256>>

\* How long to wait after the n-th consecutive failure, n > 0.
Backoff(n) == Smaller(BaseRetry * Doubled[1 + Smaller(n - 1, 8)], MaxRetry)

\* Subjects whose heartbeat is missing: their other rules were not evaluated.
Unjudgeable(a) == {s \in Subject : <<s, NoHeartbeat>> \in DOMAIN a}

\* What `evaluate` can return: some keys with a severity, and nothing else about
\* a job whose heartbeat is missing (assess_job returns early).
Assessments ==
    {a \in PartialMap(Key, Severity) :
        \A k \in DOMAIN a : k[1] \in Unjudgeable(a) => k[2] = NoHeartbeat}

-----------------------------------------------------------------------------
(* reconcile: what one cycle's assessments change *)

\* The bug of restarting the confirmation window at every report.
NotedAfresh(a, k) == [severity |-> a[k], firstSeen |-> now, latest |-> a[k]]

\* The bug of keeping the assessment that opened the window.
NotedOnce(a, k) ==
    IF k \in DOMAIN pending
    THEN [pending[k] EXCEPT !.severity = Worse(@, a[k])]
    ELSE [severity |-> a[k], firstSeen |-> now, latest |-> a[k]]

\* The pending entry of a condition reported now and not open.
Noted(a, k) ==
    IF k \in DOMAIN pending
    THEN [pending[k] EXCEPT !.severity = Worse(@, a[k]), !.latest = a[k]]
    ELSE [severity |-> a[k], firstSeen |-> now, latest |-> a[k]]

Confirmed(a) ==
    {k \in DOMAIN a \ DOMAIN open :
        Elapsed(Noted(a, k).firstSeen, now) >= ConfirmAfter}

\* The bug of repeating an alert that has not become worse.
EscalatedAgain(a) == {k \in DOMAIN a \cap DOMAIN open : a[k] >= open[k].severity}

Escalated(a) == {k \in DOMAIN a \cap DOMAIN open : a[k] > open[k].severity}

\* The bug of reading a suppressed rule as a recovered one.
ClearingSuppressed(a) == {k \in DOMAIN open : k \notin DOMAIN a}

Clearing(a) ==
    {k \in DOMAIN open : k \notin DOMAIN a /\ k[1] \notin Unjudgeable(a)}

\* The bug of restarting the recovery window at every clear cycle.
ClearSinceNow(k) == now

ClearSince(k) ==
    IF open[k].clearingSince = NoTime THEN now ELSE open[k].clearingSince

Recovered(a) == {k \in Clearing(a) : Elapsed(ClearSince(k), now) >= ConfirmAfter}

\* The bug of leaving the recovery timer running when the condition is back.
ReopenedClearing(a, k) == [open[k] EXCEPT !.severity = Worse(@, a[k])]

\* The bug of walking back down when the condition becomes less severe.
ReopenedDown(a, k) ==
    [severity |-> a[k], openedAt |-> open[k].openedAt, clearingSince |-> NoTime]

Reopened(a, k) ==
    [severity      |-> Worse(open[k].severity, a[k]),
     openedAt      |-> open[k].openedAt,
     clearingSince |-> NoTime]

OpenAfter(a) ==
    [k \in (DOMAIN open \ Recovered(a)) \cup Confirmed(a) |->
        CASE k \in Confirmed(a) ->
                [severity      |-> Noted(a, k).severity,
                 openedAt      |-> Noted(a, k).firstSeen,
                 clearingSince |-> NoTime]
          [] k \in DOMAIN a \cap DOMAIN open -> Reopened(a, k)
          [] k \in Clearing(a) -> [open[k] EXCEPT !.clearingSince = ClearSince(k)]
          [] OTHER -> open[k]]

\* The bug of keeping a condition that blinked away.
PendingAfterUnretained(a) ==
    [k \in (DOMAIN pending \cup (DOMAIN a \ DOMAIN open)) \ Confirmed(a) |->
        IF k \in DOMAIN open \/ k \notin DOMAIN a THEN pending[k] ELSE Noted(a, k)]

\* pending.retain(still_wrong), after the insertions and removals of the loop.
PendingAfter(a) ==
    [k \in ((DOMAIN pending \cup (DOMAIN a \ DOMAIN open)) \ Confirmed(a)) \cap DOMAIN a |->
        IF k \in DOMAIN open THEN pending[k] ELSE Noted(a, k)]

\* The bug of dating an incident from its confirmation.
RecordAfterDatedNow(a, k) ==
    CASE k \in Confirmed(a) ->
            [event |-> "opened", severity |-> Noted(a, k).severity,
             openedAt |-> now, endedAt |-> NoTime]
      [] k \in Escalated(a) ->
            [event |-> "escalated", severity |-> a[k],
             openedAt |-> open[k].openedAt, endedAt |-> NoTime]
      [] k \in Recovered(a) ->
            [event |-> "resolved", severity |-> AllClear,
             openedAt |-> open[k].openedAt, endedAt |-> ClearSince(k)]
      [] OTHER -> trail[k]

\* The audit record written for a key this cycle, or the one it had.
RecordAfter(a, k) ==
    CASE k \in Confirmed(a) ->
            [event |-> "opened", severity |-> Noted(a, k).severity,
             openedAt |-> Noted(a, k).firstSeen, endedAt |-> NoTime]
      [] k \in Escalated(a) ->
            [event |-> "escalated", severity |-> a[k],
             openedAt |-> open[k].openedAt, endedAt |-> NoTime]
      [] k \in Recovered(a) ->
            [event |-> "resolved", severity |-> AllClear,
             openedAt |-> open[k].openedAt, endedAt |-> ClearSince(k)]
      [] OTHER -> trail[k]

\* Alerts are rendered from the assessment of this cycle.
AlertsOf(a) == {[key |-> k, level |-> a[k]] : k \in Confirmed(a) \cup Escalated(a)}
ClearsOf(a) == {[key |-> k, level |-> AllClear] : k \in Recovered(a)}

-----------------------------------------------------------------------------
(* Actions *)

Init ==
    /\ now = 0
    /\ cycleAt = NoTime
    /\ phase = "ticking"
    /\ open = EmptyMap
    /\ pending = EmptyMap
    /\ outbox = <<>>
    /\ failures = 0
    /\ retryAt = NoTime
    /\ dropped = 0
    /\ trail = [k \in Key |-> [event |-> "none", severity |-> AllClear,
                               openedAt |-> NoTime, endedAt |-> NoTime]]
    /\ wrong = EmptyMap
    /\ spell = EmptyMap
    /\ told = [k \in Key |-> AllClear]
    /\ setBack = 0
    /\ restarts = 0

\* Time that no clock step disturbs.
TrueTime == now + setBack

\* The observers' view of a cycle.
Observe(a) ==
    /\ wrong' = a
    /\ spell' = [k \in DOMAIN spell \cup DOMAIN a |->
                    IF k \notin DOMAIN a THEN spell[k]
                    ELSE IF k \in DOMAIN wrong THEN [spell[k] EXCEPT !.ended = TrueTime]
                    ELSE [from |-> now, began |-> TrueTime, ended |-> TrueTime]]

\* One evaluation cycle up to the first send: reconcile, then flush's test of
\* the retry timer. A second cycle at the same reading changes nothing.
Cycle(a) ==
    /\ phase = "ticking"
    /\ cycleAt = now \/ LastUpset < now => a = wrong
    /\ cycleAt' = now
    /\ open' = OpenAfter(a)
    /\ pending' = PendingAfter(a)
    /\ trail' = [k \in Key |-> RecordAfter(a, k)]
    /\ \E alerts \in Orderings(AlertsOf(a)), clears \in Orderings(ClearsOf(a)) :
        LET queued == outbox \o alerts \o clears
        IN  /\ outbox' = KeepNewest(queued, MaxOutbox)
            /\ dropped' = dropped + (Len(queued) - Len(outbox'))
    /\ phase' = IF outbox' = <<>> \/ now < retryAt THEN "ticking" ELSE "sending"
    /\ Observe(a)
    /\ UNCHANGED <<now, failures, retryAt, told, setBack, restarts>>

\* The front of the queue leaves it, and the loop goes on to the next entry.
PopFront ==
    /\ outbox' = Tail(outbox)
    /\ phase' = IF Len(outbox) = 1 THEN "ticking" ELSE "sending"

\* The notifier accepted the message.
SendOk ==
    /\ phase = "sending"
    /\ PopFront
    /\ told' = [told EXCEPT ![Head(outbox).key] = Head(outbox).level]
    /\ failures' = 0
    /\ retryAt' = NoTime
    /\ UNCHANGED <<now, cycleAt, open, pending, dropped, trail,
                   wrong, spell, setBack, restarts>>

\* The notifier will never accept it (a 4xx other than 429).
SendRejected ==
    /\ phase = "sending"
    /\ now <= LastUpset
    /\ PopFront
    /\ dropped' = dropped + 1
    /\ UNCHANGED <<now, cycleAt, open, pending, failures, retryAt, trail, observers>>

\* The bug of discarding a message that could not be delivered.
SendFailedDiscards ==
    /\ phase = "sending"
    /\ now <= LastUpset
    /\ outbox' = Tail(outbox)
    /\ failures' = failures + 1
    /\ retryAt' = cycleAt + Backoff(failures + 1)
    /\ phase' = "ticking"
    /\ UNCHANGED <<now, cycleAt, open, pending, dropped, trail, observers>>

\* The notifier could not be reached, or is overloaded: keep the message, and
\* wait from the time this cycle began.
SendFailed ==
    /\ phase = "sending"
    /\ now <= LastUpset
    /\ failures' = failures + 1
    /\ retryAt' = cycleAt + Backoff(failures + 1)
    /\ phase' = "ticking"
    /\ UNCHANGED <<now, cycleAt, open, pending, outbox, dropped, trail,
                   observers>>

\* Time passes, also while a send is awaited.
Tick ==
    /\ now < MaxTime
    /\ now' = now + 1
    /\ UNCHANGED <<program, observers>>

\* The wall clock is set back.
StepBack ==
    /\ now <= LastUpset
    /\ \E d \in 1..Smaller(now, MaxSetBack - setBack) :
        /\ now' = now - d
        /\ setBack' = setBack + d
    /\ UNCHANGED <<program, wrong, spell, told, restarts>>

\* The process ends, at any point, and a new one starts: everything it held in
\* memory is gone. The audit trail is in a file and stays.
Restart ==
    /\ restarts < MaxRestarts
    /\ now <= LastUpset
    /\ restarts' = restarts + 1
    /\ cycleAt' = NoTime
    /\ phase' = "ticking"
    /\ open' = EmptyMap
    /\ pending' = EmptyMap
    /\ outbox' = <<>>
    /\ failures' = 0
    /\ retryAt' = NoTime
    /\ dropped' = 0
    /\ wrong' = EmptyMap
    /\ UNCHANGED <<now, trail, spell, told, setBack>>

Send == SendOk \/ SendRejected \/ SendFailed

Next ==
    \/ \E a \in Assessments : Cycle(a)
    \/ SendOk
    \/ SendRejected
    \/ SendFailed
    \/ Tick
    \/ StepBack
    \/ Restart

Spec == Init /\ [][Next]_vars

-----------------------------------------------------------------------------
(* Safety *)

\* A key is unconfirmed or reported, never both: the loop of reconcile takes
\* the open branch first and removes a confirmed key from `pending`.
OpenNotPending == DOMAIN open \cap DOMAIN pending = {}

\* The confirmation window measures an unbroken run: an unconfirmed condition
\* was reported by every cycle since it was first seen, the last one included,
\* and the level it would be announced with is that of the last (reconcile,
\* `pending.retain`).
PendingUnbroken ==
    \A k \in DOMAIN pending :
        /\ k \in DOMAIN wrong
        /\ pending[k].firstSeen = spell[k].from
        /\ pending[k].latest = wrong[k]

\* The level of the last of the first n messages of a queue that are about k, or what
\* is known already if none of them is.
LastAbout(k, queue, n, known) ==
    LET about == {i \in 1..n : queue[i].key = k}
    IN  IF about = {} THEN known
        ELSE queue[CHOOSE i \in about : \A j \in about : j <= i].level

\* What a person knows about k once the first n messages of the outbox are delivered.
ToldAfter(k, n) == LastAbout(k, outbox, n, told[k])

\* One message may follow another: an alert opens, a worse one escalates, an
\* all-clear ends.
Follows(old, new) == IF old = AllClear THEN new # AllClear
                                       ELSE new = AllClear \/ new > old

\* As long as nothing was given up on and the process lives, the messages about
\* a key, delivered and queued, are one coherent story that ends in the state
\* of its incident: no alert twice, no all-clear before or without its alert,
\* whatever failed and was retried in between (notify.rs, `outbox`).
StoryCoherent ==
    dropped = 0 /\ restarts = 0 =>
        \A k \in Key :
            /\ \A i \in DOMAIN outbox :
                outbox[i].key = k => Follows(ToldAfter(k, i - 1), outbox[i].level)
            /\ ToldAfter(k, Len(outbox)) # AllClear <=> k \in DOMAIN open

\* The audit trail agrees with the dispatcher: a key's last record is an
\* `opened` or `escalated`, with the incident's severity and beginning, exactly
\* while the incident is open (reconcile writes it at the same moment).
TrailAgrees ==
    restarts = 0 =>
        \A k \in Key :
            /\ trail[k].event \in {"opened", "escalated"} <=> k \in DOMAIN open
            /\ k \in DOMAIN open =>
                    /\ trail[k].severity = open[k].severity
                    /\ trail[k].openedAt = open[k].openedAt

\* The outbox never holds more than MAX_OUTBOX messages, and a send is awaited
\* only while there is one to send.
OutboxBounded ==
    /\ Len(outbox) <= MaxOutbox
    /\ phase = "sending" => outbox # <<>>

-----------------------------------------------------------------------------
(* The inductive invariant: what makes the two damping windows honest *)

\* A condition the last cycle reported is either waiting or open.
WrongAccounted == DOMAIN wrong \subseteq DOMAIN open \cup DOMAIN pending

\* Whatever is or was open has been reported, and a run of reports is dated from
\* a clock that has not run ahead of true time since.
SpellsDated ==
    /\ DOMAIN wrong \cup DOMAIN open \subseteq DOMAIN spell
    /\ \A k \in DOMAIN spell :
        /\ spell[k].began <= spell[k].ended
        /\ spell[k].ended <= TrueTime
        /\ spell[k].began <= spell[k].from + setBack

\* A recovery timer that runs was started after the last report of its key.
ClearingDated ==
    \A k \in DOMAIN open :
        open[k].clearingSince # NoTime =>
            spell[k].ended <= open[k].clearingSince + setBack

\* The windows are measured from the entries of `pending` and `open`; these say
\* that the entries mean what the observers saw, in true time.
WindowsHonest ==
    /\ OpenNotPending
    /\ PendingUnbroken
    /\ WrongAccounted
    /\ SpellsDated
    /\ ClearingDated

-----------------------------------------------------------------------------
(* Action properties *)

\* A condition is reported only after every cycle of a window of ConfirmAfter
\* has reported it, and the incident is dated from the first of them. A wall clock
\* that is set back can lengthen the window, never shorten it (README, "Damped").
HeldBeforeOpened ==
    [][\A k \in DOMAIN open' \ DOMAIN open :
            /\ k \in DOMAIN wrong'
            /\ open'[k].openedAt = spell'[k].from
            /\ TrueTime - spell'[k].began >= ConfirmAfter]_vars

\* An incident ends only in a cycle that judged its subject and found the
\* condition gone, at least ConfirmAfter after the last cycle that reported it;
\* a job whose heartbeat is missing keeps its incidents (reconcile).
GoneBeforeCleared ==
    [][\A k \in DOMAIN open \ DOMAIN open' :
            \/ restarts' > restarts
            \/ /\ k \notin DOMAIN wrong'
               /\ k[1] \notin Unjudgeable(wrong')
               /\ TrueTime - spell[k].ended >= ConfirmAfter]_vars

\* The whole delivery machinery keeps the promise of AlertStream.
Stream == INSTANCE AlertStream WITH
    incident <- [k \in Key |-> IF k \in DOMAIN open THEN open[k].severity
                                                    ELSE AllClear],
    queue <- outbox
KeepsPromise == Stream!Spec

-----------------------------------------------------------------------------
(* What the repository says and the code does not do: refuted *)

\* notify.rs:860, "The worst severity reported so far": the severity an incident
\* is kept with is the worst a message about it has named. It is not: a
\* condition that was critical while unconfirmed and is a warning when confirmed
\* opens as critical, is announced as a warning and can never escalate.
SeverityIsTold ==
    dropped = 0 /\ restarts = 0 =>
        \A k \in DOMAIN open : ToldAfter(k, Len(outbox)) = open[k].severity

-----------------------------------------------------------------------------
(* Liveness *)

\* The watch loop ticks, time passes, and a send that is awaited returns; once
\* the world is stable (LastUpset) the notifier accepts what it is sent.
FairSpec ==
    /\ Spec
    /\ WF_vars(\E a \in Assessments : Cycle(a))
    /\ WF_vars(Send)
    /\ WF_vars(Tick)

\* A condition that stays is reported, nothing is left in the queue, after any
\* number of failed sends and of restarts, and the person knows of it, unless a
\* message was given up on since the process started (flush).
PersistentIsTold ==
    \A k \in Key :
        <>[](k \in DOMAIN wrong) =>
            <>[](/\ k \in DOMAIN open
                 /\ outbox = <<>>
                 /\ told[k] # AllClear \/ dropped > 0)

\* Whoever has been told of an incident that is over is told so, unless a message
\* was given up on or a restart forgot the incident: README, "Every alert gets an
\* all-clear".
ToldIsCleared ==
    \A k \in Key :
        <>[](/\ k \notin DOMAIN wrong
             /\ k[1] \notin Unjudgeable(wrong)) =>
            <>[](told[k] = AllClear \/ dropped > 0 \/ restarts > 0)

=============================================================================
