----------------------------- MODULE AlertStream ----------------------------
(***************************************************************************)
(* What stillwatch promises the person it wakes, whatever the rules, the   *)
(* clock and the network do: for each incident an alert, then only worse   *)
(* alerts, then one all-clear, queued in the order things happened.        *)
(* src/README.md, "Alert fatigue is the real failure mode", in the form    *)
(* the code keeps; Dispatch implements this specification.                 *)
(***************************************************************************)
EXTENDS Alerts

VARIABLES
    incident,  \* [Key -> Level]: the severity of the open incident, or AllClear
    queue      \* messages queued and not yet delivered, oldest first

vars == <<incident, queue>>

TypeOK ==
    /\ incident \in [Key -> Level]
    /\ queue \in Seq(Message)
    /\ Len(queue) <= MaxOutbox

Init ==
    /\ incident = [k \in Key |-> AllClear]
    /\ queue = <<>>

\* An incident may open, get worse or end. It never walks back down.
NewsAllowed(old, new) ==
    \/ new = old
    \/ new = AllClear
    \/ new > old

\* The keys there is something to say about.
News(new) == {k \in Key : new[k] # incident[k]}

\* One evaluation: every key whose incident changed gets exactly one message,
\* alerts before all-clears; nothing is said about the others. An opening alert
\* may carry a lower level than the incident (the alert shows the condition as
\* it is when confirmed, the incident its worst so far); an escalation may not.
Judge ==
    \E new \in [Key -> Level] :
        /\ \A k \in Key : NewsAllowed(incident[k], new[k])
        /\ \E level \in [News(new) -> Level] :
            /\ \A k \in News(new) :
                /\ level[k] <= new[k]
                /\ level[k] = AllClear <=> new[k] = AllClear
                /\ incident[k] # AllClear => level[k] = new[k]
            /\ \E alerts \in Orderings({[key |-> k, level |-> level[k]] :
                                   k \in {j \in News(new) : new[j] # AllClear}}),
                 clears \in Orderings({[key |-> k, level |-> AllClear] :
                                   k \in {j \in News(new) : new[j] = AllClear}}) :
                queue' = KeepNewest(queue \o alerts \o clears, MaxOutbox)
        /\ incident' = new

\* The oldest message leaves the queue: delivered, or refused for good.
Depart ==
    /\ queue # <<>>
    /\ queue' = Tail(queue)
    /\ UNCHANGED incident

\* A new process knows nothing of the old one's incidents.
Forget ==
    /\ incident' = [k \in Key |-> AllClear]
    /\ queue' = <<>>

Next == Judge \/ Depart \/ Forget

Spec == Init /\ [][Next]_vars

=============================================================================
