------------------------------- MODULE MCNvs -------------------------------
(***************************************************************************)
(* Instances of Nvs for TLC: two networks whose names have the same        *)
(* length and whose passwords do not, and a third pair that shares a name  *)
(* with the first.                                                         *)
(***************************************************************************)
EXTENDS Nvs

NetworkPairs ==
  {[ssid |-> "attic", password |-> "hunter"],
   [ssid |-> "cabin", password |-> "longer one"],
   [ssid |-> "attic", password |-> "rotated"]}

StringLength ==
  [s \in Strings |->
     CASE s \in {"attic", "cabin"} -> 5
       [] s = "hunter" -> 6
       [] s = "rotated" -> 7
       [] s = "longer one" -> 10]

=============================================================================
