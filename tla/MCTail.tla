------------------------------- MODULE MCTail -------------------------------
(***************************************************************************)
(* Instances of Tail for TLC: three lines of two halves, and a scan that   *)
(* takes three halves, so that it can start inside a line.                 *)
(***************************************************************************)
EXTENDS Tail

=============================================================================
