---------------------------- MODULE MCShortLinks ----------------------------
(* Three codes for two places, so that links are pruned and codes reused.   *)
EXTENDS ShortLinks, TLC

MCCodeOrder == [c \in Codes |-> CASE c = "a" -> 1 [] c = "b" -> 2 [] c = "c" -> 3]

Symmetry == Permutations(Urls)
=============================================================================
