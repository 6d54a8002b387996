------------------------ MODULE MCProductMutations ------------------------
(* Small instances of ProductMutations for TLC. *)
EXTENDS ProductMutations, TLC

\* Requests are interchangeable, and so are products.
Symmetry == Permutations(Requests) \cup Permutations(Products)

\* Contents are interchangeable, so every product may begin with the same one.
First == CHOOSE c \in Contents : TRUE

SmallInit == Init /\ content = [p \in Products |-> First]

SmallSpec == SmallInit /\ [][Next]_vars

\* No request is about the product, and its state is the first of many.
Aside(p) ==
  /\ latest[p] = Nil
  /\ \A r \in Requests : p \notin req[r].prods
  /\ p \notin review
  /\ shelf[p] = "online"
  /\ content[p] = First

\* The bound: every request of the instance races on one product, or two of
\* them write batches of two products in calm weather.
OneProductOrTwoRequests ==
  \/ \E p \in Products : Aside(p)
  \/ calm /\ \E r \in Requests : pc[r] = "idle"
===========================================================================
