------------------------ MODULE MCSocialPublishing ------------------------
(* Small instances of SocialPublishing for TLC. *)
EXTENDS SocialPublishing, FiniteSets, TLC

\* Requests are interchangeable, and so are jobs.
Symmetry == Permutations(Requests) \cup Permutations(Jobs)

\* The bound of the large run: every request of the instance races on one job,
\* or one request runs beside every prepare request.
ManyOnOne ==
  \/ Cardinality({j \in Jobs : prep[j] # "idle"}) \leq 1
  \/ Cardinality({r \in Requests : pc[r] # "idle"}) \leq 1
===========================================================================
