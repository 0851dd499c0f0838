---------------------------- MODULE MCCacheFetch ----------------------------
(* Requests whose client never leaves are interchangeable.                  *)
EXTENDS CacheFetch, TLC

Symmetry == Permutations(Consumers \ Cancellable)
=============================================================================
