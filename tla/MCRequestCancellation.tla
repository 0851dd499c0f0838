----------------------- MODULE MCRequestCancellation -----------------------
(* The threads of each kind and the registrants are interchangeable.        *)
EXTENDS RequestCancellation, TLC

Symmetry ==
  Permutations(Cancellers) \cup Permutations(Finalizers) \cup Permutations(Registrants)
=============================================================================
