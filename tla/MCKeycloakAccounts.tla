------------------------- MODULE MCKeycloakAccounts -------------------------
(* Instances of KeycloakAccounts.                                           *)
EXTENDS KeycloakAccounts, TLC

Symmetry == Permutations(Workers) \cup Permutations(Passwords)
=============================================================================
