---------------------- MODULE MCCredentialAcquisition ----------------------
(* Two jobs and three requests at work: enough for a start to meet the     *)
(* cancellation and the continuation of another's job.                     *)
EXTENDS CredentialAcquisition, TLC

Symmetry == Permutations(Jobs) \cup Permutations(Handlers)
=============================================================================
