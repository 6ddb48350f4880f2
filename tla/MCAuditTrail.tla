---------------------------- MODULE MCAuditTrail ----------------------------
(***************************************************************************)
(* Instances of AuditTrail for TLC. A unit of time is a cycle of the       *)
(* evaluator, except where Grain says that it is a fraction of a second.   *)
(***************************************************************************)
EXTENDS AuditTrail, TLC

=============================================================================
