------------------------- MODULE MCProductCreation -------------------------
(* Small instances of ProductCreation for TLC. *)
EXTENDS ProductCreation, TLC

\* Requests are interchangeable, and so are payloads.
Symmetry == Permutations(Requests) \cup Permutations(Payloads)
===========================================================================
