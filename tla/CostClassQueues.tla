-------------------------- MODULE CostClassQueues --------------------------
(***************************************************************************)
(* The selection policy of WorkloadScheduler::takeTaskLocked               *)
(* (src/src/utils/workload_scheduler.h), as operators over the set of      *)
(* non-empty queues.  Queue 0 is Low, 1 is Medium, 2 is High.  A queue may *)
(* be served while it has credit; a round-robin cursor breaks ties; when   *)
(* no non-empty queue has credit left, the non-empty ones are refilled and *)
(* the empty ones lose theirs.                                             *)
(***************************************************************************)
EXTENDS Integers

Classes == 0 .. 2

kWeights == [c \in Classes |-> IF c = 0 THEN 8 ELSE IF c = 1 THEN 4 ELSE 1]

Credits == [Classes -> 0 .. 8]

activeHasCredit(credits, nonEmpty) == \E c \in nonEmpty : credits[c] # 0

Refilled(credits, nonEmpty) ==
  IF activeHasCredit(credits, nonEmpty)
  THEN credits
  ELSE [c \in Classes |-> IF c \in nonEmpty THEN kWeights[c] ELSE 0]

(***************************************************************************)
(* The loop of at most 2 * queues_.size() attempts: k is the number of     *)
(* queues skipped before the one that is served.  next_queue_ is kept      *)
(* modulo the number of queues; the code lets the size_t cursor run and    *)
(* takes the remainder at each attempt.                                    *)
(***************************************************************************)
Servable(credits, nonEmpty, c) == c \in nonEmpty /\ credits[c] # 0

Attempt(next, k) == (next + k) % 3

SkipsTo(credits, nonEmpty, next, k) ==
  /\ Servable(credits, nonEmpty, Attempt(next, k))
  /\ \A j \in 0 .. 5 : j < k => ~ Servable(credits, nonEmpty, Attempt(next, j))
=============================================================================
