------------------------------ MODULE MCCheck ------------------------------
(***************************************************************************)
(* Instances of Check for TLC. The percentile is the median, which differs *)
(* from the maximum in windows of a few observations.                      *)
(***************************************************************************)
EXTENDS Check, TLC

=============================================================================
