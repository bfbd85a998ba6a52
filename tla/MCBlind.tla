------------------------------ MODULE MCBlind ------------------------------
(***************************************************************************)
(* Instances of Blind for TLC.  The two handlers of the pool run the same  *)
(* code, so the safety runs may identify states that swap them.            *)
(***************************************************************************)
EXTENDS Blind, TLC

HandlerSymmetry == Permutations(WebTasks)

=============================================================================
