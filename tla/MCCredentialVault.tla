------------------------- MODULE MCCredentialVault -------------------------
(* Small instances of CredentialVault for TLC. *)
EXTENDS CredentialVault, TLC

\* Renewals are interchangeable, and so are clearings.
Symmetry == Permutations(Requests) \cup Permutations(Deletes)
============================================================================
