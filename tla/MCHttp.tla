------------------------------- MODULE MCHttp -------------------------------
(***************************************************************************)
(* Instances of Http for TLC: bodies of different lengths, no two bytes of *)
(* one alike, so that bytes lost, repeated or out of order show.           *)
(***************************************************************************)
EXTENDS Http

CONSTANT Lengths

BodiesOf == {[i \in 1 .. n |-> i] : n \in Lengths}

=============================================================================
