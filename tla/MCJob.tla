------------------------------- MODULE MCJob -------------------------------
(***************************************************************************)
(* Instances of Job for TLC: two ratio rules with windows of different     *)
(* length over the counters of four kinds of beats, and a job with and     *)
(* without a heartbeat rule.                                               *)
(***************************************************************************)
EXTENDS Job, TLC

Short == [name |-> "short", window |-> 2, num |-> 1, den |-> 2, sample |-> 2]
Long == [name |-> "long", window |-> 4, num |-> 1, den |-> 2, sample |-> 4]
MCRatios == {Short, Long}

Beat(worked, data, fetched, parsed) ==
    [worked |-> worked, data |-> data, fetched |-> fetched, parsed |-> parsed]
MCDetail == {Beat(TRUE, 1, None, None), Beat(FALSE, None, 4, 3),
             Beat(FALSE, None, 2, None), Beat(FALSE, None, None, 3)}

MCRules == {{"alive", "worked", "freshness", "ratio"}, {"worked", "ratio"}}

=============================================================================
