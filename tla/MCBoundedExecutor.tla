------------------------- MODULE MCBoundedExecutor -------------------------
(* Outer calls are interchangeable, and so are the workers.                 *)
EXTENDS BoundedExecutor

Symmetry ==
  {p @@ q : p \in Permutations(Tasks \ Inner), q \in Permutations(Workers)}
=============================================================================
