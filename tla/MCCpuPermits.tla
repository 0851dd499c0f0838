---------------------------- MODULE MCCpuPermits ----------------------------
(* Flows are interchangeable.                                               *)
EXTENDS CpuPermits, TLC

Symmetry == Permutations(Flows)
=============================================================================
