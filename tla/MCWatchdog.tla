----------------------------- MODULE MCWatchdog -----------------------------
(***************************************************************************)
(* Instances of Watchdog for TLC. Beats carry the counters of one ratio,   *)
(* all of them or none parsed.                                             *)
(***************************************************************************)
EXTENDS Watchdog, TLC

MCRatios ==
    {[name |-> "yield", unreported |-> "yield-unreported",
      window |-> 4, num |-> 1, den |-> 2, sample |-> 1]}

MCDetail ==
    {[worked |-> FALSE, data |-> Never, fetched |-> 1, parsed |-> n] : n \in {0, 1}}

=============================================================================
