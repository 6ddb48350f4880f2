----------------------------- MODULE MCDispatch -----------------------------
(***************************************************************************)
(* Instances of Dispatch for TLC. Condition "ratio" stands for any rule a  *)
(* missing heartbeat suppresses.                                           *)
(***************************************************************************)
EXTENDS Dispatch, TLC

=============================================================================
