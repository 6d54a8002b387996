--------------------------- MODULE MCUserAccounts ---------------------------
(* Two users, who may demote each other, and two requests.                 *)
EXTENDS UserAccounts, FiniteSets, TLC

Symmetry == Permutations(Users) \cup Permutations(Handlers)

\* Two writes in all, of one user or of both, and three kinds of sessions.
TwoWrites ==
  /\ \A u, v \in Users : u # v => row[u].revision + row[v].revision <= 4
  /\ Cardinality(sessions) <= 3
=============================================================================
