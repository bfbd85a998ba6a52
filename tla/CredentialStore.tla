-------------------------- MODULE CredentialStore --------------------------
(***************************************************************************)
(* What the credential storage promises: a register that holds one whole   *)
(* pair or nothing.  A pair replaces another only by way of nothing, and   *)
(* no other value is ever read back.                                       *)
(***************************************************************************)
CONSTANTS Pairs, NoPair

VARIABLE stored

Init == stored = NoPair

Save(pair) == stored = NoPair /\ stored' = pair

Forget == stored # NoPair /\ stored' = NoPair

Next == Forget \/ \E pair \in Pairs : Save(pair)

Spec == Init /\ [][Next]_stored

=============================================================================
