------------------------------- MODULE Report -------------------------------
(***************************************************************************)
(* The audit trail and what `stillwatch report` makes of it                *)
(* (src/src/incidents.rs): the records, the stretches of time that were    *)
(* demonstrably watched, and the downtime of each subject. Pure functions  *)
(* of the records of the log and the window asked for.                     *)
(***************************************************************************)
EXTENDS Integers, Sequences, FiniteSets, SequencesExt, FiniteSetsExt

CONSTANTS
    Interval,  \* WATCHING_INTERVAL
    Grain      \* how many units of time make up the second a record is dated by

\* Option<SystemTime>::None, and the subject of a record that has none.
None == -1
Nobody == <<"", "">>

-----------------------------------------------------------------------------
(* Records *)

\* A record is dated in whole seconds.
Unix(t) == t \div Grain
FromUnix(ts) == ts * Grain

Started(t)  == [event |-> "started",  ts |-> Unix(t), key |-> Nobody, openedTs |-> None]
Stopped(t)  == [event |-> "stopped",  ts |-> Unix(t), key |-> Nobody, openedTs |-> None]
Watching(t) == [event |-> "watching", ts |-> Unix(t), key |-> Nobody, openedTs |-> None]
Opened(k, t) == [event |-> "opened", ts |-> Unix(t), key |-> k, openedTs |-> None]
Escalated(k, from, t) ==
    [event |-> "escalated", ts |-> Unix(t), key |-> k, openedTs |-> Unix(from)]
Resolved(k, from, t) ==
    [event |-> "resolved", ts |-> Unix(t), key |-> k, openedTs |-> Unix(from)]

\* read_all: the records by date, those of one second in the order written. A
\* record's place is the number of records that come before it.
Dated(file) ==
    LET Before(i) == {j \in DOMAIN file : \/ file[j].ts < file[i].ts
                                          \/ file[j].ts = file[i].ts /\ j < i}
        place == [i \in DOMAIN file |-> 1 + Cardinality(Before(i))]
    IN  [n \in DOMAIN file |-> file[CHOOSE i \in DOMAIN file : place[i] = n]]

-----------------------------------------------------------------------------
(* Coverage *)

Later(a, b) == IF a >= b THEN a ELSE b
Earlier(a, b) == IF a <= b THEN a ELSE b

\* The bug of forgetting to close the run at a `stopped`.
SeenStillOpen(s, e) ==
    LET at == FromUnix(e.ts)
    IN  IF e.event = "started"
        THEN [spans |-> IF s.open = None THEN s.spans
                        ELSE Append(s.spans, [from |-> s.open, to |-> s.last, clean |-> FALSE]),
              open |-> at, last |-> at]
        ELSE IF e.event = "stopped" /\ s.open # None
        THEN [s EXCEPT !.spans = Append(@, [from |-> s.open, to |-> at, clean |-> TRUE]),
                       !.last = at]
        ELSE [s EXCEPT !.last = at]

\* The bug of letting only starts and stops count as signs of life.
SeenMarkersIgnored(s, e) ==
    LET at == FromUnix(e.ts)
    IN  CASE e.event = "started" ->
                [spans |-> IF s.open = None THEN s.spans
                           ELSE Append(s.spans, [from |-> s.open, to |-> s.last, clean |-> FALSE]),
                 open |-> at, last |-> at]
          [] e.event = "stopped" ->
                [spans |-> IF s.open = None THEN s.spans
                           ELSE Append(s.spans, [from |-> s.open, to |-> at, clean |-> TRUE]),
                 open |-> None, last |-> at]
          [] OTHER -> s

\* coverage, one record further: a run lasts from its `started` to its
\* `stopped`; one that never said so, to the last record before the next run.
Seen(s, e) ==
    LET at == FromUnix(e.ts)
    IN  CASE e.event = "started" ->
                [spans |-> IF s.open = None THEN s.spans
                           ELSE Append(s.spans, [from |-> s.open, to |-> s.last, clean |-> FALSE]),
                 open |-> at, last |-> at]
          [] e.event = "stopped" ->
                [spans |-> IF s.open = None THEN s.spans
                           ELSE Append(s.spans, [from |-> s.open, to |-> at, clean |-> TRUE]),
                 open |-> None, last |-> at]
          [] OTHER -> [s EXCEPT !.last = at]

\* The bug of taking every run that has not ended for a live one.
LastRunAssumedLive(open, last, until) ==
    [from |-> open, to |-> Later(until, open), clean |-> TRUE]

\* The run the log ends in: live as long as its next `watching` is not overdue.
LastRun(open, last, until) ==
    IF until - Later(last, open) <= Interval
    THEN [from |-> open, to |-> Later(until, open), clean |-> TRUE]
    ELSE [from |-> open, to |-> Later(last, open), clean |-> FALSE]

Coverage(events, until) ==
    LET s == FoldLeft(Seen, [spans |-> <<>>, open |-> None, last |-> None], events)
    IN  IF s.open = None THEN s.spans
        ELSE Append(s.spans, LastRun(s.open, s.last, until))

Overlap(from, to, since, until) ==
    Later(0, Earlier(to, until) - Later(from, since))

Watched(spans, since, until) ==
    MapThenSumSet(LAMBDA i : Overlap(spans[i].from, spans[i].to, since, until), DOMAIN spans)

Unknown(spans, since, until) ==
    Later(0, Later(0, until - since) - Watched(spans, since, until))

UncleanShutdowns(spans) == Cardinality({i \in DOMAIN spans : ~spans[i].clean})

-----------------------------------------------------------------------------
(* Incidents *)

\* The bug of leaving a resolved incident among the open ones.
StillOpenUnpaired(events) == {i \in DOMAIN events : events[i].event = "opened"}

\* Opened, and no resolution of it after it in the log. Of equal records, which
\* the report keeps under one key, the last stands for all.
StillOpen(events) ==
    {i \in DOMAIN events :
        /\ events[i].event = "opened"
        /\ \A j \in (i + 1)..Len(events) :
            /\ events[j] # events[i]
            /\ ~(/\ events[j].event = "resolved"
                 /\ events[j].key = events[i].key
                 /\ events[j].openedTs = events[i].ts)}

\* The bug of letting a resolved incident last to the end of the window.
IncidentsNeverEnd(events, until) ==
    {[record |-> i, subject |-> events[i].key[1],
      from |-> FromUnix(events[i].openedTs), to |-> until] :
        i \in {j \in DOMAIN events : events[j].event = "resolved"}}
    \cup
    {[record |-> i, subject |-> events[i].key[1],
      from |-> FromUnix(events[i].ts), to |-> until] : i \in StillOpen(events)}

\* The incidents of the log: those resolved, with the dates of the resolution,
\* and those still open, which last to the end of the window.
Incidents(events, until) ==
    {[record |-> i, subject |-> events[i].key[1],
      from |-> FromUnix(events[i].openedTs), to |-> FromUnix(events[i].ts)] :
        i \in {j \in DOMAIN events : events[j].event = "resolved"}}
    \cup
    {[record |-> i, subject |-> events[i].key[1],
      from |-> FromUnix(events[i].ts), to |-> until] : i \in StillOpen(events)}

\* Those of one subject that reach into the window.
IncidentsOf(s, events, since, until) ==
    {i \in Incidents(events, until) :
        i.subject = s /\ Overlap(i.from, i.to, since, until) > 0}

Down(s, events, since, until) ==
    MapThenSumSet(LAMBDA i : Overlap(i.from, i.to, since, until),
                  IncidentsOf(s, events, since, until))

\* What uptime is a percentage of `watched`; no percentage if nothing was.
Up(s, events, spans, since, until) ==
    Later(0, Watched(spans, since, until) - Down(s, events, since, until))

=============================================================================
