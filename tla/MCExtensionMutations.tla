------------------------ MODULE MCExtensionMutations ------------------------
(* Two products, one content and three jobs: a batch and a job after it.   *)
EXTENDS ExtensionMutations, TLC

Symmetry ==
  Permutations(Ids) \cup Permutations(Products)
===========================================================================
