------------------------------ MODULE MCTimers ------------------------------
(***************************************************************************)
(* Instances of Timers for TLC; the constants are in the .cfg files.       *)
(***************************************************************************)
EXTENDS Timers

=============================================================================
