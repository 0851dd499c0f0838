----------------------------- MODULE CpuPermits -----------------------------
(***************************************************************************)
(* The cooperative CPU permits of src/src/utils/cooperative_cpu.h: a       *)
(* CpuPermitGate, the CpuPermitLease of every flow, and                    *)
(* waitWithoutCpuPermit(), which gives the permit back while the flow      *)
(* blocks and takes one again before it goes on.  The resource governor    *)
(* moves the limit at any time.                                            *)
(*                                                                         *)
(* A step is one critical section of mutex_ or one call of the condition   *)
(* variable.  acquire() never sleeps longer than 25 ms: it may wake        *)
(* without a notification, which is its only way to see that its request   *)
(* was cancelled or has run out of time.                                   *)
(***************************************************************************)
EXTENDS Integers, FiniteSets

CONSTANTS
  Flows,      \* flows, each with its lease
  MaxLimit    \* bound on the limit the governor sets

ASSUME PermitAssumption == IsFiniteSet(Flows) /\ MaxLimit \in Nat \ {0}

VARIABLES
  limit, active, waiting, stopping,   \* the gate
  pc,        \* per flow: what it does
  held,      \* the leases that hold a permit
  asleep,    \* the flows in condition_.wait_until()
  notifying, \* the flows between the release and its notify_one()
  ended,     \* the flows whose request is cancelled or past its deadline
  under,     \* history: the limit under which a flow got its permit
  older      \* history: the permits still out that were given before it

gate == <<limit, active, waiting, stopping>>
vars == <<gate, pc, held, asleep, notifying, ended, under, older>>

(* A flow waits in acquire() at "first" for its first permit and at         *)
(* "again" in resumeOrThrow(); "run" is work that needs the CPU, "blocked"  *)
(* a wait without a permit.  After a refusal the first acquire() ends the   *)
(* flow ("refused"), resumeOrThrow() throws ("throw"), and code between it  *)
(* and the end of the flow, such as render_template(), may catch that and   *)
(* go on without a permit ("bare").                                         *)
PCs == {"new", "first", "again", "run", "blocked", "refused", "throw", "bare", "done"}

Unwinding == {"refused", "throw", "bare"}

InAcquire(f) == pc[f] \in {"first", "again"}

Init ==
  /\ limit \in 1 .. MaxLimit /\ active = 0 /\ waiting = 0 /\ stopping = FALSE
  /\ pc = [f \in Flows |-> "new"] /\ held = {} /\ asleep = {} /\ notifying = {}
  /\ ended = {} /\ under = [f \in Flows |-> 0]
  /\ older = [f \in Flows |-> {}]

-----------------------------------------------------------------------------
(* The lease.                                                              *)

(* CpuPermitLease::acquire() reaches the gate.                              *)
Enter(f, from, to) ==
  /\ pc[f] = from /\ f \notin notifying
  /\ pc' = [pc EXCEPT ![f] = to]
  /\ waiting' = waiting + 1
  /\ UNCHANGED <<limit, active, stopping, held, asleep, notifying, ended, under, older>>

Begin(f)  == Enter(f, "new", "first")
Resume(f) == Enter(f, "blocked", "again")

(* CpuPermitLease::release() and CpuPermitGate::release().                  *)
Release(f, to) ==
  /\ pc' = [pc EXCEPT ![f] = to]
  /\ held' = held \ {f}
  /\ active' = IF active # 0 THEN active - 1 ELSE active
  /\ notifying' = notifying \cup {f}
  /\ under' = [under EXCEPT ![f] = 0]
  /\ older' = [g \in Flows |-> IF g = f THEN {} ELSE older[g] \ {f}]
  /\ UNCHANGED <<limit, waiting, stopping, asleep, ended>>

(* Fault: the scoped wait keeps the permit.                                 *)
Block_KeepsPermit(f) ==
  /\ pc[f] = "run"
  /\ pc' = [pc EXCEPT ![f] = "blocked"]
  /\ UNCHANGED <<gate, held, asleep, notifying, ended, under, older>>

(* ScopedCpuWait: the flow is about to block.                               *)
Block(f) == pc[f] = "run" /\ Release(f, "blocked")

(* ~CpuPermitLease() of a flow that ends while it holds the permit.         *)
Finish(f) == pc[f] = "run" /\ Release(f, "done")

(* Fault: the lease is released although it holds nothing.                  *)
Unwind_Releases(f) ==
  /\ pc[f] \in Unwinding
  /\ Release(f, "done")

(* ~CpuPermitLease() after a refused acquire(): nothing is held.            *)
Unwind(f) ==
  /\ pc[f] \in Unwinding
  /\ pc' = [pc EXCEPT ![f] = "done"]
  /\ UNCHANGED <<gate, held, asleep, notifying, ended, under, older>>

(* The exception of resumeOrThrow() is caught on the way out.  A later      *)
(* ScopedCpuWait finds nothing held: it neither releases nor acquires.      *)
Catch(f) ==
  /\ pc[f] = "throw"
  /\ pc' = [pc EXCEPT ![f] = "bare"]
  /\ UNCHANGED <<gate, held, asleep, notifying, ended, under, older>>

-----------------------------------------------------------------------------
(* CpuPermitGate::acquire(): one round of its loop.                        *)

Refused(f) == stopping \/ f \in ended

(* Where a refusal leaves the flow.                                         *)
Refusal(f) == IF pc[f] = "first" THEN "refused" ELSE "throw"

Refuse(f) ==
  /\ InAcquire(f) /\ f \notin asleep /\ Refused(f)
  /\ pc' = [pc EXCEPT ![f] = Refusal(f)]
  /\ waiting' = waiting - 1
  /\ UNCHANGED <<limit, active, stopping, held, asleep, notifying, ended, under, older>>

(* Fault: permits are counted against the most there may ever be instead of *)
(* the limit that the governor has set.                                     *)
Grant_Capacity(f) ==
  /\ InAcquire(f) /\ f \notin asleep /\ ~ Refused(f) /\ active < MaxLimit
  /\ active' = active + 1 /\ waiting' = waiting - 1
  /\ held' = held \cup {f}
  /\ pc' = [pc EXCEPT ![f] = "run"]
  /\ under' = [under EXCEPT ![f] = limit] /\ older' = [older EXCEPT ![f] = held]
  /\ UNCHANGED <<limit, stopping, asleep, notifying, ended>>

Grant(f) ==
  /\ InAcquire(f) /\ f \notin asleep /\ ~ Refused(f) /\ active < limit
  /\ active' = active + 1 /\ waiting' = waiting - 1
  /\ held' = held \cup {f}
  /\ pc' = [pc EXCEPT ![f] = "run"]
  /\ under' = [under EXCEPT ![f] = limit] /\ older' = [older EXCEPT ![f] = held]
  /\ UNCHANGED <<limit, stopping, asleep, notifying, ended>>

Sleep(f) ==
  /\ InAcquire(f) /\ f \notin asleep /\ ~ Refused(f) /\ active >= limit
  /\ asleep' = asleep \cup {f}
  /\ UNCHANGED <<gate, pc, held, notifying, ended, under, older>>

(* Fault: the wait has no time limit.                                       *)
WakeUp_Never(f) ==
  /\ FALSE /\ f \in asleep
  /\ UNCHANGED vars

(* wait_until() returns after 25 ms or at the deadline.                     *)
WakeUp(f) ==
  /\ f \in asleep
  /\ asleep' = asleep \ {f}
  /\ UNCHANGED <<gate, pc, held, notifying, ended, under, older>>

(* notify_one(), after the mutex was released, wakes a sleeper if any.      *)
NotifyOne(f) ==
  /\ f \in notifying /\ notifying' = notifying \ {f}
  /\ IF asleep = {} THEN UNCHANGED asleep
     ELSE \E g \in asleep : asleep' = asleep \ {g}
  /\ UNCHANGED <<gate, pc, held, ended, under, older>>

-----------------------------------------------------------------------------
(* setLimit() and requestShutdown(); their notify_all() comes with the      *)
(* step, since a sleeper may wake at any time anyway.                       *)

AtLeastOne(n) == IF n = 0 THEN 1 ELSE n

SetLimit ==
  /\ \E n \in 0 .. MaxLimit : limit' = AtLeastOne(n)
  /\ asleep' = {}
  /\ UNCHANGED <<active, waiting, stopping, pc, held, notifying, ended, under, older>>

GateShutdown ==
  /\ ~ stopping /\ stopping' = TRUE /\ asleep' = {}
  /\ UNCHANGED <<limit, active, waiting, pc, held, notifying, ended, under, older>>

(* The request of a flow is cancelled or its deadline passes; nobody        *)
(* notifies the gate of that.                                               *)
EndRequest(f) ==
  /\ f \notin ended /\ ended' = ended \cup {f}
  /\ UNCHANGED <<gate, pc, held, asleep, notifying, under, older>>

Loop(f) == Refuse(f) \/ Grant(f) \/ Sleep(f) \/ WakeUp(f)

Next ==
  \/ \E f \in Flows : \/ Begin(f) \/ Resume(f) \/ Block(f) \/ Finish(f) \/ Unwind(f) \/ Catch(f)
                      \/ Loop(f) \/ NotifyOne(f) \/ EndRequest(f)
  \/ SetLimit \/ GateShutdown

Spec == Init /\ [][Next]_vars

(* Threads in the gate run; flows need not end and limits need not rise.    *)
FairSpec == Spec /\ \A f \in Flows : WF_vars(Loop(f))

-----------------------------------------------------------------------------
(* Properties.                                                             *)

(* Every variable has its type.                                             *)
TypeOK ==
  /\ limit \in 1 .. MaxLimit /\ active \in Nat /\ waiting \in Int
  /\ stopping \in BOOLEAN /\ pc \in [Flows -> PCs]
  /\ held \subseteq Flows /\ asleep \subseteq Flows /\ notifying \subseteq Flows
  /\ ended \subseteq Flows /\ under \in [Flows -> 0 .. MaxLimit]
  /\ older \in [Flows -> SUBSET Flows]

(* active_ is exactly the number of leases that hold a permit: release()    *)
(* never needs its test for zero, and no exception on the way out of        *)
(* waitWithoutCpuPermit() leaks a permit or returns one twice.              *)
PermitsMatch == active = Cardinality(held)

(* A flow gives its permit back before it blocks and computes with one;     *)
(* what computes without one is the rest of a flow whose request has ended  *)
(* or whose gate stops.                                                     *)
RunsWithPermit ==
  \A f \in Flows :
    /\ f \in held <=> pc[f] = "run"
    /\ pc[f] \in Unwinding => Refused(f)

(* waiting_ is the number of flows inside acquire(), whichever way they     *)
(* leave it.                                                                *)
WaitersMatch == waiting = Cardinality({f \in Flows : InAcquire(f)})

(* Every permit was given within the limit of that moment: together with    *)
(* the permits given before it that are still out it is no more than the    *)
(* limit allowed then.  For the newest permit these are all there are, so   *)
(* after the governor has lowered the limit below the permits that are out  *)
(* nobody gets one until enough are back.                                   *)
NeverOverdrawn == \A f \in held : Cardinality(older[f] \cup {f}) <= under[f]

(* A flow whose request has ended, or whose gate stops, leaves acquire()    *)
(* although nobody notifies the gate of a cancelled request.                *)
AcquireReturns == \A f \in Flows : (InAcquire(f) /\ Refused(f)) ~> ~ InAcquire(f)
=============================================================================
