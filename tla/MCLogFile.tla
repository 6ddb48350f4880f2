----------------------------- MODULE MCLogFile -----------------------------
(***************************************************************************)
(* Instances of LogFile for TLC: logs a few lines long.                    *)
(***************************************************************************)
EXTENDS LogFile, TLC

=============================================================================
