------------------------------- MODULE Alerts -------------------------------
(***************************************************************************)
(* The vocabulary the dispatcher and its promise share: incident keys,     *)
(* severities, the messages a person receives, and the bounded outbox they *)
(* wait in (src/src/notify.rs).                                            *)
(***************************************************************************)
EXTENDS Integers, Sequences, FiniteSets

CONSTANTS
    Subject,      \* names of jobs and checks
    Condition,    \* what can be wrong with one of them
    NoHeartbeat,  \* the condition that suppresses a job's other rules
    MaxOutbox     \* MAX_OUTBOX: how many undelivered messages are kept

ASSUME NamesAssumption ==
    /\ IsFiniteSet(Subject)
    /\ IsFiniteSet(Condition)
    /\ NoHeartbeat \in Condition
ASSUME OutboxAssumption == MaxOutbox \in Nat \ {0}

\* IncidentKey: the subject, and what is wrong with it.
Key == Subject \X Condition

\* Severity, ordered as the code derives it: Warn < Critical.
Warn == 1
Critical == 2
Severity == {Warn, Critical}

\* Level of a message: a severity, or the all-clear.
AllClear == 0
Level == Severity \cup {AllClear}

\* Notification, without its wording.
Message == [key : Key, level : Level]

\* The sequences that list every element of the finite set S exactly once. The
\* order of the messages of one cycle is the order of the rules in the config
\* file (alerts) or of a BTreeMap (all-clears): any order is allowed here.
Orderings(S) ==
    {s \in [1..Cardinality(S) -> S] :
        \A i, j \in DOMAIN s : i # j => s[i] # s[j]}

\* The newest n entries of a queue: what is left after each push onto a full
\* outbox has evicted the oldest entry.
KeepNewest(q, n) ==
    IF Len(q) <= n THEN q ELSE SubSeq(q, Len(q) - n + 1, Len(q))

=============================================================================
