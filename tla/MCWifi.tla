------------------------------- MODULE MCWifi -------------------------------
(***************************************************************************)
(* Instances of Wifi for TLC: a home network that can get a new access     *)
(* point or lose the encryption of the one it has, and another network     *)
(* whose scan does not report the authentication.                          *)
(***************************************************************************)
EXTENDS Wifi

AccessPoints ==
  {[ssid |-> "home", bssid |-> "old", auth |-> 3],
   [ssid |-> "home", bssid |-> "old", auth |-> 0],
   [ssid |-> "home", bssid |-> "new", auth |-> 3],
   [ssid |-> "other", bssid |-> "away", auth |-> 99]}

=============================================================================
