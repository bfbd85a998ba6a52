------------------------------ MODULE MCClock ------------------------------
(***************************************************************************)
(* Instances of Clock for TLC: years of two days of six units.  The clocks *)
(* go forward on the first day and back on the second.                     *)
(***************************************************************************)
EXTENDS Clock

\* The sunset is never at the same time on two days in a row.
Sunsets == [d \in 0 .. YearLength - 1 |-> IF d = 0 THEN 5 ELSE 3]

=============================================================================
