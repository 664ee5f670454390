------------------------------ MODULE MCPayouts ------------------------------
(* Instances of ProviderPayouts for TLC. *)
EXTENDS ProviderPayouts, TLC

Interchangeable == Permutations(Admins) \cup Permutations(Credits)
                     \cup Permutations(Settlements) \cup Permutations(Providers)
=============================================================================
