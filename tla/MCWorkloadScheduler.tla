------------------------ MODULE MCWorkloadScheduler ------------------------
(* Three tasks, one per cost class: t1 and t2 together fill both limits,    *)
(* t3 is larger than the byte limit, so that it meets whichever limit is    *)
(* tested first.                                                            *)
EXTENDS WorkloadScheduler

CONSTANTS t1, t2, t3

MCCost == [t \in Tasks |-> CASE t = t1 -> 0 [] t = t2 -> 1 [] t = t3 -> 2]
MCBytes == [t \in Tasks |-> CASE t = t1 -> 1 [] t = t2 -> 2 [] t = t3 -> 4]
MCDeadline == [t \in Tasks |-> IF t = t2 THEN 1 ELSE Never]
=============================================================================
