---------------------------- MODULE MCSystemTime ----------------------------
(***************************************************************************)
(* Instances of SystemTime for TLC: every u64 but zero is set.             *)
(***************************************************************************)
EXTENDS SystemTime

AllTimes == 1 .. U64Max

=============================================================================
