------------------------------- MODULE MCOta -------------------------------
(***************************************************************************)
(* Instances of Ota for TLC.                                               *)
(***************************************************************************)
EXTENDS Ota

\* Releases of one and two chunks, that fit.
Fitting == [r \in Releases |-> IF r = 1 THEN 1 ELSE 2]

\* The same, and a last release one chunk too large for a partition of two.
Growing == [r \in Releases |->
              IF r = MaxRelease THEN 3 ELSE IF r = 1 THEN 1 ELSE 2]

=============================================================================
