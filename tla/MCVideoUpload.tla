---------------------------- MODULE MCVideoUpload ----------------------------
(* Small instances of VideoUpload for TLC. *)
EXTENDS VideoUpload, TLC

\* Requests are interchangeable.
Symmetry == Permutations(Requests)

\* The bound of the instance: two requests at work, beside the late calls of
\* the others.
TwoAtWork == Cardinality({r \in Requests : at[r] # "idle"}) \leq 2
=============================================================================
