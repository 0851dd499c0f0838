-------------------------- MODULE ThreadLimitProofs --------------------------
(***************************************************************************)
(* Proofs for the two components that ration the threads.  CpuPermits: for *)
(* any number of flows and any limits the gate counts exactly the permits  *)
(* that are held.  BoundedExecutor: for any submitters, workers, stopping  *)
(* threads and capacity every accepted task has one owner until its future *)
(* is ready, and a shutdown that has joined leaves nothing.                *)
(***************************************************************************)
EXTENDS CpuPermits, BoundedExecutor, FiniteSetTheorems, TLAPS

Waiters == {f \in Flows : InAcquire(f)}

IInv == TypeOK /\ RunsWithPermit /\ PermitsMatch /\ WaitersMatch

(* Adding and removing one flow changes a count of flows by one.            *)
LEMMA OneMore ==
  ASSUME NEW S \in SUBSET Flows, NEW f \in Flows, f \notin S
  PROVE  Cardinality(S \cup {f}) = Cardinality(S) + 1
BY PermitAssumption, FS_Subset, FS_AddElement

LEMMA OneLess ==
  ASSUME NEW S \in SUBSET Flows, NEW f \in S
  PROVE  /\ Cardinality(S \ {f}) = Cardinality(S) - 1
         /\ Cardinality(S) \in Nat \ {0}
<1>1. IsFiniteSet(S)
  BY PermitAssumption, FS_Subset
<1>2. Cardinality(S \ {f}) = Cardinality(S) - 1
  BY <1>1, FS_RemoveElement
<1>3. Cardinality(S) \in Nat /\ Cardinality(S) # 0
  BY <1>1, FS_CardinalityType, FS_EmptySet
<1> QED BY <1>2, <1>3

LEMMA InitIInv == Init => IInv
<1> SUFFICES ASSUME Init PROVE IInv
  OBVIOUS
<1>1. TypeOK
  <2>1. 0 \in 0 .. MaxLimit
    BY PermitAssumption
  <2>2. limit \in 1 .. MaxLimit /\ active \in Nat /\ waiting \in Int
    BY DEF Init
  <2>5. stopping \in BOOLEAN
    BY DEF Init
  <2>3. /\ pc \in [Flows -> PCs] /\ under \in [Flows -> 0 .. MaxLimit]
        /\ older \in [Flows -> SUBSET Flows]
    BY <2>1 DEF Init, PCs
  <2>4. held = {} /\ asleep = {} /\ notifying = {} /\ ended = {}
    BY DEF Init
  <2> QED BY <2>2, <2>3, <2>4, <2>5 DEF TypeOK
<1>2. RunsWithPermit
  BY DEF Init, RunsWithPermit, Unwinding
<1>3. held = {} /\ {f \in Flows : InAcquire(f)} = {} /\ active = 0 /\ waiting = 0
  BY DEF Init, InAcquire
<1> QED BY <1>1, <1>2, <1>3, FS_EmptySet DEF IInv, PermitsMatch, WaitersMatch

(* How a step of one flow changes the set of waiters.                       *)
LEMMA WaitersAfter ==
  ASSUME pc \in [Flows -> PCs], NEW f \in Flows, NEW to \in PCs,
         pc' = [pc EXCEPT ![f] = to]
  PROVE  Waiters' = IF to \in {"first", "again"} THEN Waiters \cup {f} ELSE Waiters \ {f}
BY DEF Waiters, InAcquire

LEMMA EnterStep ==
  ASSUME IInv, NEW f \in Flows, Begin(f) \/ Resume(f) PROVE IInv'
<1> USE DEF IInv, Begin, Resume, Enter
<1>1. PICK to \in {"first", "again"} : pc' = [pc EXCEPT ![f] = to]
  OBVIOUS
<1>2. TypeOK'
  BY DEF TypeOK, PCs
<1>3. RunsWithPermit'
  BY <1>1 DEF TypeOK, RunsWithPermit, Refused, Unwinding
<1>4. WaitersMatch'
  <2>1. Waiters' = Waiters \cup {f}
    BY <1>1, WaitersAfter DEF TypeOK, PCs
  <2>2. f \notin Waiters /\ Waiters \in SUBSET Flows
    BY DEF Waiters, InAcquire
  <2>3. Cardinality(Waiters') = Cardinality(Waiters) + 1
    BY <2>1, <2>2, OneMore
  <2> QED BY <2>3 DEF WaitersMatch, Waiters
<1> QED BY <1>2, <1>3, <1>4 DEF PermitsMatch

LEMMA ReleaseStep ==
  ASSUME IInv, NEW f \in Flows, Block(f) \/ Finish(f) PROVE IInv'
<1> USE DEF IInv, Block, Finish, Release
<1>1. PICK to \in {"blocked", "done"} : pc' = [pc EXCEPT ![f] = to]
  OBVIOUS
<1>2. TypeOK'
  <2>1. active' \in Nat
    BY DEF TypeOK
  <2>2. under' \in [Flows -> 0 .. MaxLimit] /\ older' \in [Flows -> SUBSET Flows]
    BY PermitAssumption DEF TypeOK
  <2>3. pc' \in [Flows -> PCs]
    BY <1>1 DEF TypeOK, PCs
  <2>4. held' \subseteq Flows /\ notifying' \subseteq Flows
    BY DEF TypeOK
  <2> QED BY <2>1, <2>2, <2>3, <2>4 DEF TypeOK
<1>3. RunsWithPermit'
  BY <1>1 DEF TypeOK, RunsWithPermit, Refused, Unwinding
<1>4. PermitsMatch'
  <2>1. f \in held /\ held \in SUBSET Flows
    BY DEF RunsWithPermit, TypeOK
  <2>2. Cardinality(held \ {f}) = Cardinality(held) - 1 /\ active # 0
    BY <2>1, OneLess DEF PermitsMatch
  <2> QED BY <2>2 DEF PermitsMatch
<1>5. WaitersMatch'
  <2>1. Waiters' = Waiters
    BY <1>1, WaitersAfter DEF TypeOK, PCs, Waiters, InAcquire
  <2> QED BY <2>1 DEF WaitersMatch, Waiters
<1> QED BY <1>2, <1>3, <1>4, <1>5

LEMMA LeaveStep ==
  ASSUME IInv, NEW f \in Flows, Refuse(f) \/ Grant(f) PROVE IInv'
<1> USE DEF IInv, Refuse, Grant
<1>1. PICK to \in {"refused", "throw", "run"} : pc' = [pc EXCEPT ![f] = to]
  BY DEF Refusal
<1>2. TypeOK'
  BY PermitAssumption DEF TypeOK, PCs, Refusal
<1>3. RunsWithPermit'
  BY <1>1 DEF TypeOK, RunsWithPermit, InAcquire, Refusal, Refused, Unwinding
<1>4. PermitsMatch'
  <2>1. f \notin held /\ held \in SUBSET Flows
    BY DEF RunsWithPermit, InAcquire, TypeOK
  <2>2. Cardinality(held \cup {f}) = Cardinality(held) + 1
    BY <2>1, OneMore
  <2> QED BY <2>2 DEF PermitsMatch
<1>5. WaitersMatch'
  <2>1. Waiters' = Waiters \ {f}
    BY <1>1, WaitersAfter DEF TypeOK, PCs
  <2>2. f \in Waiters /\ Waiters \in SUBSET Flows
    BY DEF Waiters
  <2>3. Cardinality(Waiters') = Cardinality(Waiters) - 1
    BY <2>1, <2>2, OneLess
  <2> QED BY <2>3 DEF WaitersMatch, Waiters
<1> QED BY <1>2, <1>3, <1>4, <1>5

LEMMA UnwindStep ==
  ASSUME IInv, NEW f \in Flows, Unwind(f) \/ Catch(f) PROVE IInv'
<1> USE DEF IInv, Unwind, Catch, Unwinding, gate
<1>0. PICK to \in {"bare", "done"} : pc' = [pc EXCEPT ![f] = to]
  OBVIOUS
<1>1. TypeOK'
  BY DEF TypeOK, PCs
<1>2. RunsWithPermit' /\ PermitsMatch'
  BY <1>0 DEF TypeOK, RunsWithPermit, Refused, PermitsMatch
<1>3. WaitersMatch'
  <2>1. Waiters' = Waiters
    BY <1>0, WaitersAfter DEF TypeOK, PCs, Waiters, InAcquire
  <2> QED BY <2>1 DEF WaitersMatch, Waiters
<1> QED BY <1>1, <1>2, <1>3

(* The steps that move no flow and no permit.                               *)
LEMMA OtherStep ==
  ASSUME IInv, \/ \E f \in Flows : Sleep(f) \/ WakeUp(f) \/ NotifyOne(f) \/ EndRequest(f)
               \/ SetLimit \/ GateShutdown \/ UNCHANGED vars
  PROVE  IInv'
<1> USE DEF IInv, Sleep, WakeUp, NotifyOne, EndRequest, SetLimit, GateShutdown, vars, gate
<1>1. UNCHANGED <<active, waiting, pc, held>>
  OBVIOUS
<1>2. TypeOK'
  <2>1. limit' \in 1 .. MaxLimit
    BY PermitAssumption DEF TypeOK, AtLeastOne
  <2>2. stopping' \in BOOLEAN
    BY DEF TypeOK
  <2>3. asleep' \subseteq Flows
    BY DEF TypeOK, InAcquire
  <2>4. notifying' \subseteq Flows /\ ended' \subseteq Flows
    BY DEF TypeOK
  <2>5. UNCHANGED <<under, older>>
    OBVIOUS
  <2> QED BY <1>1, <2>1, <2>2, <2>3, <2>4, <2>5 DEF TypeOK
<1>3. PermitsMatch' /\ WaitersMatch'
  BY <1>1 DEF PermitsMatch, WaitersMatch, InAcquire
<1>4. (stopping => stopping') /\ ended \subseteq ended'
  OBVIOUS
<1>5. RunsWithPermit'
  BY <1>1, <1>4 DEF RunsWithPermit, Refused
<1> QED BY <1>2, <1>3, <1>5

(* The counters of the gate agree with the leases in every state.           *)
THEOREM IInvHolds == Spec => []IInv
<1>1. Init => IInv
  BY InitIInv
<1>2. IInv /\ [Next]_vars => IInv'
  BY EnterStep, ReleaseStep, LeaveStep, UnwindStep, OtherStep DEF Next, Loop
<1> QED BY <1>1, <1>2, PTL DEF Spec

(* active_ is the number of leases that hold a permit, so the test for zero *)
(* in CpuPermitGate::release() never hides a double release.                *)
THEOREM PermitsCorrect == Spec => []PermitsMatch
<1>1. IInv => PermitsMatch
  BY DEF IInv
<1> QED BY <1>1, IInvHolds, PTL

(* A flow blocks only without a permit, and computes without one only after *)
(* its request ended or the gate stopped.                                   *)
THEOREM RunsOnlyWithPermit == Spec => []RunsWithPermit
<1>1. IInv => RunsWithPermit
  BY DEF IInv
<1> QED BY <1>1, IInvHolds, PTL

(* waiting_ is the number of flows inside acquire().                        *)
THEOREM WaitersCorrect == Spec => []WaitersMatch
<1>1. IInv => WaitersMatch
  BY DEF IInv
<1> QED BY <1>1, IInvHolds, PTL

-----------------------------------------------------------------------------
(* Every permit was given within the limit of its moment.                   *)

(* The permits that are older than one that is out are out themselves.      *)
OlderHeld == \A f \in held : older[f] \subseteq held

Drawn == OlderHeld /\ NeverOverdrawn

(* A permit is given while fewer are out than the limit allows.             *)
LEMMA GrantDraws == ASSUME IInv, Drawn, NEW g \in Flows, Grant(g) PROVE Drawn'
<1> USE DEF Grant
<1>1. /\ held \subseteq Flows /\ under \in [Flows -> 0 .. MaxLimit]
      /\ older \in [Flows -> SUBSET Flows] /\ limit \in 1 .. MaxLimit
  BY DEF IInv, TypeOK
<1>2. g \notin held
  BY DEF IInv, RunsWithPermit, InAcquire
<1>3. \A f \in held : older'[f] = older[f] /\ under'[f] = under[f]
  BY <1>1, <1>2
<1>4. older'[g] = held /\ under'[g] = limit /\ held' = held \cup {g}
  BY <1>1
<1>5. Cardinality(held \cup {g}) = active + 1 /\ active + 1 <= limit
  BY <1>1, <1>2, OneMore DEF IInv, PermitsMatch, TypeOK
<1>6. OlderHeld'
  BY <1>3, <1>4 DEF Drawn, OlderHeld
<1>7. NeverOverdrawn'
  <2> SUFFICES ASSUME NEW f \in held' PROVE Cardinality(older'[f] \cup {f}) <= under'[f]
    BY DEF NeverOverdrawn
  <2>1. CASE f = g
    BY <1>4, <1>5, <2>1
  <2>2. CASE f \in held
    BY <1>3, <2>2 DEF Drawn, NeverOverdrawn
  <2> QED BY <1>4, <2>1, <2>2
<1> QED BY <1>6, <1>7 DEF Drawn

(* A permit that is given back was older than some, and leaves them fewer.  *)
LEMMA ReleaseDraws ==
  ASSUME IInv, Drawn, NEW g \in Flows, Block(g) \/ Finish(g) PROVE Drawn'
<1> USE DEF Block, Finish, Release
<1>1. /\ held \subseteq Flows /\ under \in [Flows -> 0 .. MaxLimit]
      /\ older \in [Flows -> SUBSET Flows]
  BY DEF IInv, TypeOK
<1>2. \A f \in held' : f \in held /\ older'[f] = older[f] \ {g} /\ under'[f] = under[f]
  BY <1>1
<1>3. OlderHeld'
  BY <1>2 DEF Drawn, OlderHeld
<1>4. NeverOverdrawn'
  <2> SUFFICES ASSUME NEW f \in held' PROVE Cardinality(older'[f] \cup {f}) <= under'[f]
    BY DEF NeverOverdrawn
  <2>1. older'[f] \cup {f} \subseteq older[f] \cup {f} /\ f \in Flows
    BY <1>1, <1>2
  <2>2. IsFiniteSet(older[f] \cup {f})
    BY <1>1, <2>1, PermitAssumption, FS_Subset
  <2>3. /\ Cardinality(older'[f] \cup {f}) <= Cardinality(older[f] \cup {f})
        /\ Cardinality(older'[f] \cup {f}) \in Nat /\ Cardinality(older[f] \cup {f}) \in Nat
    BY <2>1, <2>2, FS_Subset, FS_CardinalityType
  <2>4. Cardinality(older[f] \cup {f}) <= under[f] /\ under'[f] = under[f] /\ under[f] \in Int
    BY <1>1, <1>2, <2>1 DEF Drawn, NeverOverdrawn
  <2> QED BY <2>3, <2>4
<1> QED BY <1>3, <1>4 DEF Drawn

LEMMA OtherDraws ==
  ASSUME Drawn, UNCHANGED <<held, under, older>> PROVE Drawn'
BY DEF Drawn, OlderHeld, NeverOverdrawn

(* Nobody is given a permit beyond the limit of that moment: a flow that    *)
(* holds one and those that were there before it fit in the limit it was    *)
(* given under, however the governor moves the limit.                       *)
THEOREM OverdrawnNever == Spec => []NeverOverdrawn
<1>1. Init => Drawn
  BY DEF Init, Drawn, OlderHeld, NeverOverdrawn
<1>2. IInv /\ Drawn /\ [Next]_vars => Drawn'
  <2> SUFFICES ASSUME IInv, Drawn, [Next]_vars PROVE Drawn'
    OBVIOUS
  <2>1. CASE \E f \in Flows : Grant(f)
    BY <2>1, GrantDraws
  <2>2. CASE \E f \in Flows : Block(f) \/ Finish(f)
    BY <2>2, ReleaseDraws
  <2>3. CASE \/ \E f \in Flows : \/ Begin(f) \/ Resume(f) \/ Unwind(f) \/ Catch(f)
                                \/ Refuse(f) \/ Sleep(f) \/ WakeUp(f) \/ NotifyOne(f)
                                \/ EndRequest(f)
             \/ SetLimit \/ GateShutdown \/ UNCHANGED vars
    BY <2>3, OtherDraws DEF Begin, Resume, Enter, Unwind, Catch, Refuse, Sleep, WakeUp,
       NotifyOne, EndRequest, SetLimit, GateShutdown, vars
  <2> QED BY <2>1, <2>2, <2>3 DEF Next, Loop
<1>3. Drawn => NeverOverdrawn
  BY DEF Drawn
<1> QED BY <1>1, <1>2, <1>3, IInvHolds, PTL DEF Spec

-----------------------------------------------------------------------------
(* BoundedExecutor: where an accepted task is.                             *)

(* Accepted, and the future not ready.                                      *)
Open(t) == call[t] = "submitted" /\ outcome[t] = "none"

Queued(t) == \E i \in 1 .. Len(tasks_) : tasks_[i] = t

(* The queue has open tasks, each of them once.                             *)
QueueInv ==
  \A i \in 1 .. Len(tasks_) :
    /\ Open(tasks_[i])
    /\ \A j \in 1 .. Len(tasks_) : tasks_[i] = tasks_[j] => i = j

(* A worker between the pop and the end of the task has an open task of its *)
(* own, that is not in the queue any more.                                  *)
HeldInv ==
  \A w \in Workers :
    /\ wpc[w] \in {"space", "run"} <=> task[w] # NoTask
    /\ task[w] # NoTask => Open(task[w]) /\ ~ Queued(task[w])
    /\ \A v \in Workers : task[v] = task[w] /\ task[w] # NoTask => v = w

(* The same for the local deque of a thread inside requestShutdown().       *)
DequeInv ==
  \A x \in Callers :
    /\ cancelled[x] # {} => call[x] \in {"notify", "destroy"}
    /\ \A t \in cancelled[x] :
         /\ Open(t) /\ ~ Queued(t) /\ \A w \in Workers : task[w] # t
         /\ \A y \in Callers : t \in cancelled[y] => y = x

(* An open task is at one of these places, and a call that is not decided   *)
(* has no outcome.                                                          *)
Somewhere ==
  \A t \in Tasks :
    /\ Open(t) => \/ Queued(t) \/ \E w \in Workers : task[w] = t
                  \/ \E x \in Callers : t \in cancelled[x]
    /\ call[t] # "submitted" => outcome[t] = "none"

(* Workers leave an executor that accepts nothing and has nothing queued,   *)
(* and a thread that joins is back after them.                              *)
Leaving ==
  /\ \A w \in Workers : wpc[w] = "exited" => stopping_ /\ tasks_ = <<>>
  /\ \A s \in Joiners : call[s] = "returned" => \A w \in Workers : wpc[w] = "exited"

Places == QueueInv /\ HeldInv /\ DequeInv /\ Somewhere

PoolInv == ExecutorTypeOK /\ WithinCapacity /\ Places /\ Leaving

LEMMA PoolInit == ExecutorInit => PoolInv
<1> SUFFICES ASSUME ExecutorInit PROVE PoolInv
  OBVIOUS
<1> USE DEF ExecutorInit
<1>1. ExecutorTypeOK
  <2>1. tasks_ \in Seq(Tasks) /\ notices \in Nat
    OBVIOUS
  <2>5. stopping_ \in BOOLEAN /\ requested \in BOOLEAN
    OBVIOUS
  <2>2. call \in [Callers -> CallPCs] /\ cancelled \in [Callers -> SUBSET Tasks]
    BY DEF CallPCs
  <2>3. outcome \in [Tasks -> Outcomes] /\ over \subseteq Tasks /\ late \subseteq Tasks
    BY DEF Outcomes
  <2>4. /\ wpc \in [Workers -> WorkerPCs] /\ task \in [Workers -> Tasks \cup {NoTask}]
        /\ inner \in [Workers -> Inner \cup {NoTask}]
    BY DEF WorkerPCs
  <2> QED BY <2>1, <2>2, <2>3, <2>4, <2>5 DEF ExecutorTypeOK
<1>2. Len(tasks_) = 0 /\ \A t : ~ Queued(t)
  BY DEF Queued
<1>3. WithinCapacity
  BY <1>2, ExecutorAssumption DEF WithinCapacity
<1>4. QueueInv /\ HeldInv /\ DequeInv
  BY <1>2 DEF QueueInv, HeldInv, DequeInv
<1>5. Somewhere /\ Leaving
  BY ExecutorAssumption DEF Somewhere, Leaving, Open, Callers
<1> QED BY <1>1, <1>3, <1>4, <1>5 DEF PoolInv, Places

(* Tasks in T that get their outcome leave the place of the thread that had *)
(* them; the others stay where they are.                                    *)
LEMMA SettlePlaces ==
  ASSUME ExecutorTypeOK, Places, NEW T \in SUBSET Tasks, UNCHANGED tasks_,
         \A t \in T : ~ Queued(t) /\ ~ Open(t)',
         \A t \in Tasks \ T : Open(t)' <=> Open(t),
         \A t \in Tasks : call'[t] # "submitted" => outcome'[t] = "none",
         \A w \in Workers : task'[w] = IF task[w] \in T THEN NoTask ELSE task[w],
         \A w \in Workers : wpc'[w] \in {"space", "run"} <=> task'[w] # NoTask,
         \A x \in Callers : cancelled'[x] = cancelled[x] \ T,
         \A x \in Callers : cancelled'[x] # {} => call'[x] \in {"notify", "destroy"}
  PROVE  Places'
<1>1. QueueInv /\ HeldInv /\ DequeInv /\ Somewhere /\ tasks_ \in Seq(Tasks)
  BY DEF ExecutorTypeOK, Places
<1>2. \A t \in Tasks : Queued(t)' <=> Queued(t)
  BY DEF Queued
<1>3. QueueInv'
  <2>1. \A i \in 1 .. Len(tasks_) : tasks_[i] \in Tasks \ T /\ Open(tasks_[i])
    BY <1>1 DEF QueueInv, Queued
  <2>2. \A i \in 1 .. Len(tasks_) : Open(tasks_[i])'
    BY <2>1 DEF Open
  <2> QED BY <1>1, <2>2 DEF QueueInv
<1>4. \A w \in Workers : task'[w] # NoTask => task'[w] = task[w] /\ task[w] \in Tasks \ T
  BY DEF ExecutorTypeOK
<1>5. HeldInv'
  <2>1. ASSUME NEW w \in Workers, task'[w] # NoTask PROVE Open(task[w])' /\ ~ Queued(task[w])'
    <3>1. Open(task[w]) /\ ~ Queued(task[w]) /\ task[w] \in Tasks \ T
      BY <1>1, <1>4, <2>1 DEF HeldInv
    <3> QED BY <1>2, <1>4, <2>1, <3>1 DEF Open, Queued
  <2>2. \A v, w \in Workers : task'[v] = task'[w] /\ task'[w] # NoTask => v = w
    BY <1>1, <1>4 DEF HeldInv
  <2> QED BY <2>1, <2>2 DEF HeldInv
<1>6. DequeInv'
  <2>1. \A x \in Callers : \A u \in cancelled'[x] : u \in Tasks \ T /\ u \in cancelled[x]
    BY DEF ExecutorTypeOK
  <2>2. \A x \in Callers : \A u \in cancelled'[x] : Open(u)' /\ ~ Queued(u)'
    BY <1>1, <1>2, <2>1 DEF DequeInv
  <2>3. \A x \in Callers : \A u \in cancelled'[x] : \A w \in Workers : task'[w] # u
    BY <1>1, <2>1, ExecutorAssumption DEF DequeInv
  <2>4. \A x \in Callers : \A u \in cancelled'[x] :
          \A y \in Callers : u \in cancelled'[y] => y = x
    BY <1>1, <2>1 DEF DequeInv
  <2> QED BY <2>2, <2>3, <2>4 DEF DequeInv, Callers
<1>7. Somewhere'
  <2>1. ASSUME NEW t \in Tasks, Open(t)'
        PROVE  \/ Queued(t)' \/ \E w \in Workers : task'[w] = t
               \/ \E x \in Callers : t \in cancelled'[x]
    BY <1>1, <1>2, <2>1 DEF Somewhere
  <2> QED BY <2>1 DEF Somewhere, Callers
<1> QED BY <1>3, <1>5, <1>6, <1>7 DEF Places

(* A step that moves no task: the queue, the deques, the outcomes and what  *)
(* the workers hold stay, and no thread leaves requestShutdown() with       *)
(* tasks in its deque.                                                      *)
LEMMA SamePlaces ==
  ASSUME ExecutorTypeOK, Places, UNCHANGED <<tasks_, cancelled, outcome, task>>,
         \A t \in Tasks : call'[t] = "submitted" <=> call[t] = "submitted",
         \A x \in Callers : cancelled[x] # {} => call'[x] \in {"notify", "destroy"},
         \A w \in Workers : wpc'[w] \in {"space", "run"} <=> wpc[w] \in {"space", "run"}
  PROVE  Places'
<1>1. \A t \in Tasks : Open(t)' <=> Open(t)
  BY DEF Open
<1>2. \A t \in Tasks : call'[t] # "submitted" => outcome'[t] = "none"
  BY DEF Places, Somewhere
<1>3. \A w \in Workers : wpc'[w] \in {"space", "run"} <=> task'[w] # NoTask
  BY DEF Places, HeldInv
<1>4. {} \in SUBSET Tasks /\ \A x \in Callers : cancelled[x] = cancelled[x] \ {}
  OBVIOUS
<1> QED BY <1>1, <1>2, <1>3, <1>4, SettlePlaces

(* What a caller of one kind may be.                                        *)
LEMMA CallersAre == Tasks \subseteq Callers /\ Stoppers \subseteq Callers
  BY DEF Callers

(* A thread that goes from one point of its call to another, neither inside *)
(* requestShutdown() nor over the decision, leaves every task in its place. *)
LEMMA GotoPlaces ==
  ASSUME PoolInv, NEW x \in Callers, NEW to, Goto(x, to),
         call[x] \notin {"submitted", "notify", "destroy"}, to # "submitted",
         UNCHANGED <<tasks_, cancelled, outcome, task, wpc>>
  PROVE  Places'
<1>1. call \in [Callers -> CallPCs] /\ Places /\ ExecutorTypeOK /\ DequeInv
  BY DEF PoolInv, ExecutorTypeOK, Places
<1>2. call'[x] = to /\ \A y \in Callers : y # x => call'[y] = call[y]
  BY <1>1 DEF Goto
<1>3. \A t \in Tasks : call'[t] = "submitted" <=> call[t] = "submitted"
  BY <1>2, CallersAre
<1>4. \A y \in Callers : cancelled[y] # {} => call'[y] \in {"notify", "destroy"}
  BY <1>1, <1>2 DEF DequeInv
<1> QED BY <1>1, <1>3, <1>4, SamePlaces

LEMMA CallPlaces ==
  ASSUME PoolInv, NEW t \in Tasks,
         \/ End(t) \/ Late(t) \/ Call(t)
         \/ AwaitSpace(t) \/ WakeSubmitter(t)
  PROVE  Places'
<1>1. t \in Callers
  BY CallersAre
<1>2. CASE End(t) \/ Late(t)
  <2>1. UNCHANGED <<tasks_, cancelled, outcome, task, wpc, call>>
    BY <1>2 DEF End, Late, callers, workers
  <2> QED BY <2>1, SamePlaces DEF PoolInv, Places, DequeInv
<1>3. CASE Call(t) \/ AwaitSpace(t) \/ WakeSubmitter(t)
  <2>1. UNCHANGED <<tasks_, cancelled, outcome, task, wpc>> /\ call[t] \in {"new", "loop", "asleep"}
    BY <1>3 DEF Call, AwaitSpace, WakeSubmitter, workers
  <2>2. PICK to \in {"stop", "loop", "asleep"} : Goto(t, to)
    BY <1>3 DEF Call, AwaitSpace, WakeSubmitter
  <2> QED BY <1>1, <2>1, <2>2, GotoPlaces
<1> QED BY <1>2, <1>3

LEMMA StopperPlaces ==
  ASSUME PoolInv, NEW x \in Callers,
         \/ RaiseFlag(x) \/ PlainShutdown(x) \/ Join(x)
         \/ AlreadyStopping(x)
  PROVE  Places'
<1>1. UNCHANGED <<tasks_, cancelled, outcome, task, wpc>> /\ call[x] \in {"new", "join", "stop"}
  BY DEF RaiseFlag, PlainShutdown, Join, AlreadyStopping, workers
<1>2. PICK to \in {"stop", "returned", "loop", "join"} : Goto(x, to)
  BY DEF RaiseFlag, PlainShutdown, Join, AlreadyStopping, AfterShutdown
<1> QED BY <1>1, <1>2, GotoPlaces

LEMMA WakePlaces ==
  ASSUME PoolInv,
         \/ NotifyWorker
         \/ \E x \in Callers : NotifyAll(x)
         \/ \E w \in Workers : Wait(w) \/ Exit(w) \/ NotifySpace(w)
  PROVE  Places'
<1>1. /\ call \in [Callers -> CallPCs] /\ wpc \in [Workers -> WorkerPCs]
      /\ Places /\ ExecutorTypeOK /\ DequeInv
  BY DEF PoolInv, ExecutorTypeOK, Places
<1>2. UNCHANGED <<tasks_, cancelled, outcome, task>>
  BY DEF NotifyWorker, NotifyAll, Wait, Exit, NotifySpace, callers
<1>3. \A w \in Workers : wpc'[w] \in {"space", "run"} <=> wpc[w] \in {"space", "run"}
  BY <1>1 DEF NotifyWorker, NotifyAll, Wait, Exit, NotifySpace
<1>4. \A y \in Callers : \/ call'[y] = call[y]
                         \/ call[y] = "notify" /\ call'[y] = "destroy"
                         \/ call[y] = "asleep" /\ call'[y] = "loop"
  BY <1>1 DEF NotifyWorker, NotifyAll, Wait, Exit, NotifySpace, callers
<1>5. \A t \in Tasks : call'[t] = "submitted" <=> call[t] = "submitted"
  BY <1>4, CallersAre
<1>6. \A y \in Callers : cancelled[y] # {} => call'[y] \in {"notify", "destroy"}
  BY <1>1, <1>4 DEF DequeInv
<1> QED BY <1>1, <1>2, <1>3, <1>5, <1>6, SamePlaces

(* An accepted task is new in the queue.                                    *)
LEMMA EnqueuePlaces ==
  ASSUME PoolInv, NEW t \in Tasks, Enqueue(t) PROVE Places'
<1>1. /\ call \in [Callers -> CallPCs] /\ tasks_ \in Seq(Tasks) /\ t \in Callers
      /\ QueueInv /\ HeldInv /\ DequeInv /\ Somewhere /\ ExecutorTypeOK
  BY CallersAre DEF PoolInv, ExecutorTypeOK, Places
<1>2. call'[t] = "submitted" /\ \A y \in Callers : y # t => call'[y] = call[y]
  BY <1>1 DEF Enqueue, Goto
<1>3. UNCHANGED <<cancelled, outcome, task, wpc>> /\ call[t] = "loop" /\ tasks_' = Append(tasks_, t)
  BY DEF Enqueue, workers
<1>4. ~ Open(t) /\ Open(t)' /\ \A u \in Tasks : u # t => (Open(u)' <=> Open(u))
  BY <1>1, <1>2, <1>3, CallersAre DEF Open, Somewhere
<1>5. /\ Len(tasks_') = Len(tasks_) + 1 /\ Len(tasks_) \in Nat /\ tasks_'[Len(tasks_) + 1] = t
      /\ \A i \in 1 .. Len(tasks_) : tasks_'[i] = tasks_[i] /\ tasks_[i] \in Tasks /\ tasks_[i] # t
  BY <1>1, <1>3, <1>4 DEF QueueInv
<1>6. \A u \in Tasks : Queued(u)' <=> Queued(u) \/ u = t
  BY <1>5 DEF Queued
<1>7. QueueInv'
  BY <1>1, <1>4, <1>5 DEF QueueInv
<1>8. \A w \in Workers : task[w] # NoTask => task[w] \in Tasks /\ task[w] # t
  BY <1>1, <1>4 DEF ExecutorTypeOK, HeldInv
<1>9. HeldInv'
  BY <1>1, <1>3, <1>4, <1>6, <1>8 DEF HeldInv
<1>10. \A x \in Callers : \A u \in cancelled[x] : u \in Tasks /\ u # t
  BY <1>1, <1>4 DEF ExecutorTypeOK, DequeInv
<1>11. DequeInv'
  <2>1. \A x \in Callers : cancelled'[x] # {} => call'[x] \in {"notify", "destroy"}
    BY <1>1, <1>2, <1>3 DEF DequeInv
  <2>2. \A x \in Callers : \A u \in cancelled'[x] : Open(u)' /\ ~ Queued(u)'
    BY <1>1, <1>3, <1>4, <1>6, <1>10 DEF DequeInv
  <2>3. \A x \in Callers : \A u \in cancelled'[x] :
          /\ \A w \in Workers : task'[w] # u
          /\ \A y \in Callers : u \in cancelled'[y] => y = x
    BY <1>1, <1>3 DEF DequeInv
  <2> QED BY <2>1, <2>2, <2>3 DEF DequeInv, Callers
<1>12. Somewhere'
  BY <1>1, <1>2, <1>3, <1>4, <1>6, CallersAre DEF Somewhere, Callers
<1> QED BY <1>7, <1>9, <1>11, <1>12 DEF Places

(* A worker takes the front of the queue.                                   *)
LEMMA TakePlaces ==
  ASSUME PoolInv, NEW w \in Workers, Take(w) PROVE Places'
<1>1. /\ tasks_ \in Seq(Tasks) /\ task \in [Workers -> Tasks \cup {NoTask}]
      /\ wpc \in [Workers -> WorkerPCs]
      /\ QueueInv /\ HeldInv /\ DequeInv /\ Somewhere /\ ExecutorTypeOK
  BY DEF PoolInv, ExecutorTypeOK, Places
<1> DEFINE t == Head(tasks_)
<1>2. tasks_ # <<>> /\ tasks_' = Tail(tasks_) /\ UNCHANGED <<call, cancelled, outcome>>
  BY DEF Take, callers
<1>3. /\ Len(tasks_) \in Nat \ {0} /\ Len(tasks_') = Len(tasks_) - 1 /\ t = tasks_[1]
      /\ \A i \in 1 .. Len(tasks_') : tasks_'[i] = tasks_[i + 1] /\ i + 1 \in 1 .. Len(tasks_)
      /\ \A i \in 2 .. Len(tasks_) : tasks_'[i - 1] = tasks_[i] /\ i - 1 \in 1 .. Len(tasks_')
      /\ \A i \in 1 .. Len(tasks_) : tasks_[i] \in Tasks /\ (i # 1 => tasks_[i] # t)
  BY <1>1, <1>2 DEF QueueInv
<1>4. t \in Tasks /\ Open(t) /\ Queued(t) /\ t # NoTask
  BY <1>1, <1>3, ExecutorAssumption DEF QueueInv, Queued
<1>5. \A u \in Tasks : Open(u)' <=> Open(u)
  BY <1>2 DEF Open
<1>6. \A u \in Tasks : Queued(u)' <=> Queued(u) /\ u # t
  <2> SUFFICES ASSUME NEW u \in Tasks PROVE Queued(u)' <=> Queued(u) /\ u # t
    OBVIOUS
  <2>1. ASSUME Queued(u)' PROVE Queued(u) /\ u # t
    <3>1. PICK i \in 1 .. Len(tasks_') : tasks_'[i] = u
      BY <2>1 DEF Queued
    <3>2. i + 1 \in 1 .. Len(tasks_) /\ tasks_[i + 1] = u /\ i + 1 # 1
      BY <1>3, <3>1
    <3> QED BY <1>3, <3>2 DEF Queued
  <2>2. ASSUME Queued(u), u # t PROVE Queued(u)'
    <3>1. PICK i \in 1 .. Len(tasks_) : tasks_[i] = u
      BY <2>2 DEF Queued
    <3>2. i \in 2 .. Len(tasks_)
      BY <1>3, <2>2, <3>1
    <3> QED BY <1>3, <3>1, <3>2 DEF Queued
  <2> QED BY <2>1, <2>2
<1>7. /\ task'[w] = t /\ wpc'[w] = "space" /\ task[w] = NoTask
      /\ \A v \in Workers : v # w => task'[v] = task[v] /\ wpc'[v] = wpc[v]
  BY <1>1 DEF Take, HeldInv
<1> HIDE DEF t
<1>8. QueueInv'
  <2>1. \A i \in 1 .. Len(tasks_') : Open(tasks_[i])'
    BY <1>1, <1>2, <1>3 DEF QueueInv, Open
  <2>2. \A i, j \in 1 .. Len(tasks_') : tasks_'[i] = tasks_'[j] => i = j
    <3> SUFFICES ASSUME NEW i \in 1 .. Len(tasks_'), NEW j \in 1 .. Len(tasks_'),
                        tasks_'[i] = tasks_'[j]
        PROVE i = j
      OBVIOUS
    <3>1. i + 1 = j + 1
      BY <1>1, <1>3 DEF QueueInv
    <3> QED BY <1>3, <3>1
  <2> QED BY <2>1, <2>2 DEF QueueInv
<1>9. \A v \in Workers : task[v] # t /\ (task[v] # NoTask => task[v] \in Tasks)
  BY <1>1, <1>4 DEF HeldInv
<1>10. HeldInv'
  <2>1. \A v \in Workers : wpc'[v] \in {"space", "run"} <=> task'[v] # NoTask
    BY <1>1, <1>4, <1>7 DEF HeldInv
  <2>2. \A v \in Workers : task'[v] # NoTask => Open(task[v])' /\ ~ Queued(task[v])'
    <3> SUFFICES ASSUME NEW v \in Workers, NEW u \in Tasks, task'[v] = u
        PROVE  Open(u)' /\ ~ Queued(u)'
      BY <1>4, <1>7, <1>9 DEF Open, Queued
    <3> QED BY <1>1, <1>4, <1>5, <1>6, <1>7, ExecutorAssumption DEF HeldInv
  <2>3. \A u, v \in Workers : task'[u] = task'[v] /\ task'[v] # NoTask => u = v
    BY <1>1, <1>7, <1>9 DEF HeldInv
  <2> QED BY <2>1, <2>2, <2>3 DEF HeldInv
<1>11. DequeInv'
  <2>0. \A x \in Callers : \A u \in cancelled[x] : u \in Tasks /\ u # t
    BY <1>1, <1>4 DEF ExecutorTypeOK, DequeInv
  <2>1. \A x \in Callers : cancelled'[x] # {} => call'[x] \in {"notify", "destroy"}
    BY <1>1, <1>2 DEF DequeInv
  <2>2. \A x \in Callers : \A u \in cancelled'[x] : Open(u)' /\ ~ Queued(u)'
    BY <1>1, <1>2, <1>5, <1>6, <2>0 DEF DequeInv
  <2>3. \A x \in Callers : \A u \in cancelled'[x] :
          /\ \A v \in Workers : task'[v] # u
          /\ \A y \in Callers : u \in cancelled'[y] => y = x
    BY <1>1, <1>2, <1>7, <2>0 DEF DequeInv
  <2> QED BY <2>1, <2>2, <2>3 DEF DequeInv, Callers
<1>12. Somewhere'
  <2>1. \A u \in Tasks : (\E v \in Workers : task[v] = u) => \E v \in Workers : task'[v] = u
    <3> SUFFICES ASSUME NEW u \in Tasks, NEW v \in Workers, task[v] = u PROVE task'[v] = u
      OBVIOUS
    <3> QED BY <1>7, ExecutorAssumption
  <2> QED BY <1>1, <1>2, <1>5, <1>6, <1>7, <2>1 DEF Somewhere, Callers
<1> QED BY <1>8, <1>10, <1>11, <1>12 DEF Places

(* A refused call gets its outcome with the decision: it was never open.    *)
LEMMA RefusePlaces ==
  ASSUME PoolInv, NEW t \in Tasks, Reject(t) PROVE Places'
<1>1. /\ call \in [Callers -> CallPCs] /\ outcome \in [Tasks -> Outcomes]
      /\ t \in Callers /\ Places /\ ExecutorTypeOK /\ Somewhere /\ DequeInv /\ HeldInv
  BY CallersAre DEF PoolInv, ExecutorTypeOK, Places
<1>2. /\ call[t] = "loop" /\ call'[t] = "submitted" /\ outcome'[t] # "none"
      /\ \A y \in Callers : y # t => call'[y] = call[y]
      /\ \A u \in Tasks : u # t => outcome'[u] = outcome[u]
  BY <1>1 DEF Reject, Goto
<1>3. UNCHANGED <<tasks_, cancelled, task, wpc>>
  BY DEF Reject, workers
<1>4. \A u \in Tasks : Open(u)' <=> Open(u)
  BY <1>2, CallersAre DEF Open
<1>5. \A u \in Tasks : call'[u] # "submitted" => outcome'[u] = "none"
  BY <1>1, <1>2, CallersAre DEF Somewhere
<1>6. \A y \in Callers : cancelled[y] # {} => call'[y] \in {"notify", "destroy"}
  BY <1>1, <1>2 DEF DequeInv
<1>7. {} \in SUBSET Tasks /\ \A x \in Callers : cancelled[x] = cancelled[x] \ {}
  OBVIOUS
<1>8. \A w \in Workers : wpc'[w] \in {"space", "run"} <=> task'[w] # NoTask
  BY <1>1, <1>3 DEF HeldInv
<1> QED BY <1>1, <1>3, <1>4, <1>5, <1>6, <1>7, <1>8, SettlePlaces

(* The worker's task gets its result.                                       *)
LEMMA RunPlaces ==
  ASSUME PoolInv, NEW w \in Workers, Run(w) PROVE Places'
<1>1. /\ outcome \in [Tasks -> Outcomes] /\ task \in [Workers -> Tasks \cup {NoTask}]
      /\ wpc \in [Workers -> WorkerPCs]
      /\ Places /\ ExecutorTypeOK /\ Somewhere /\ DequeInv /\ HeldInv
  BY DEF PoolInv, ExecutorTypeOK, Places
<1> DEFINE T == {task[w]}
<1>2. task[w] \in Tasks /\ task[w] # NoTask /\ Open(task[w]) /\ ~ Queued(task[w])
  BY <1>1 DEF Run, HeldInv
<1>3. UNCHANGED <<tasks_, call, cancelled>>
  BY DEF Run, callers
<1>4. outcome'[task[w]] = "result" /\ \A u \in Tasks \ T : outcome'[u] = outcome[u]
  BY <1>1, <1>2 DEF Run
<1>5. /\ wpc'[w] = "test" /\ task'[w] = NoTask
      /\ \A v \in Workers : v # w => task'[v] = task[v] /\ wpc'[v] = wpc[v] /\ task[v] # task[w]
  BY <1>1, <1>2 DEF Run, HeldInv
<1>6. T \in SUBSET Tasks /\ \A u \in T : ~ Queued(u) /\ ~ Open(u)'
  BY <1>2, <1>4 DEF Open
<1>7. \A u \in Tasks \ T : Open(u)' <=> Open(u)
  BY <1>3, <1>4 DEF Open
<1>8. \A u \in Tasks : call'[u] # "submitted" => outcome'[u] = "none"
  BY <1>1, <1>2, <1>3, <1>4 DEF Somewhere, Open
<1>9. \A v \in Workers : task'[v] = IF task[v] \in T THEN NoTask ELSE task[v]
  BY <1>5
<1>10. \A v \in Workers : wpc'[v] \in {"space", "run"} <=> task'[v] # NoTask
  BY <1>1, <1>5 DEF HeldInv
<1>11. \A x \in Callers : cancelled'[x] = cancelled[x] \ T
  BY <1>1, <1>3 DEF DequeInv
<1>12. \A x \in Callers : cancelled'[x] # {} => call'[x] \in {"notify", "destroy"}
  BY <1>1, <1>3 DEF DequeInv
<1> QED BY <1>1, <1>3, <1>6, <1>7, <1>8, <1>9, <1>10, <1>11, <1>12, SettlePlaces

(* The tasks in the deque of a stopping thread get a broken promise.        *)
LEMMA DestroyPlaces ==
  ASSUME PoolInv, NEW x \in Callers, Destroy(x) PROVE Places'
<1>1. /\ call \in [Callers -> CallPCs] /\ cancelled \in [Callers -> SUBSET Tasks]
      /\ Places /\ ExecutorTypeOK /\ Somewhere /\ DequeInv /\ HeldInv
  BY DEF PoolInv, ExecutorTypeOK, Places
<1> DEFINE T == cancelled[x]
<1>2. T \in SUBSET Tasks /\ \A t \in T : Open(t) /\ ~ Queued(t) /\ \A w \in Workers : task[w] # t
  BY <1>1 DEF DequeInv
<1>3. UNCHANGED <<tasks_, task, wpc>>
  BY DEF Destroy, workers
<1>4. /\ call[x] = "destroy" /\ call'[x] \notin {"submitted", "notify", "destroy"}
      /\ \A y \in Callers : y # x => call'[y] = call[y]
  BY <1>1 DEF Destroy, Goto, AfterShutdown
<1>5. \A t \in Tasks : outcome'[t] = IF t \in T THEN "broken" ELSE outcome[t]
  BY DEF Destroy
<1>6. cancelled'[x] = {} /\ \A y \in Callers : y # x => cancelled'[y] = cancelled[y]
  BY <1>1 DEF Destroy
<1>7. \A t \in T : ~ Queued(t) /\ ~ Open(t)'
  BY <1>2, <1>5 DEF Open
<1>8. \A t \in Tasks \ T : Open(t)' <=> Open(t)
  BY <1>4, <1>5, CallersAre DEF Open
<1>9. \A t \in Tasks : call'[t] # "submitted" => outcome'[t] = "none"
  <2> SUFFICES ASSUME NEW t \in Tasks, call'[t] # "submitted" PROVE outcome'[t] = "none"
    OBVIOUS
  <2>1. call[t] # "submitted"
    BY <1>4, CallersAre
  <2> QED BY <1>1, <1>2, <1>5, <2>1 DEF Somewhere, Open
<1>10. \A w \in Workers : task'[w] = IF task[w] \in T THEN NoTask ELSE task[w]
  BY <1>2, <1>3
<1>11. \A w \in Workers : wpc'[w] \in {"space", "run"} <=> task'[w] # NoTask
  BY <1>1, <1>3 DEF HeldInv
<1>12. \A y \in Callers : cancelled'[y] = cancelled[y] \ T
  BY <1>1, <1>6 DEF DequeInv
<1>13. \A y \in Callers : cancelled'[y] # {} => call'[y] \in {"notify", "destroy"}
  BY <1>1, <1>4, <1>6 DEF DequeInv
<1> HIDE DEF T
<1> QED BY <1>1, <1>2, <1>3, <1>7, <1>8, <1>9, <1>10, <1>11, <1>12, <1>13, SettlePlaces

(* The first thread to stop the executor takes the queue, or leaves it.     *)
LEMMA StopPlaces ==
  ASSUME PoolInv, NEW x \in Callers, NEW b \in BOOLEAN,
         RequestShutdown(x, b)
  PROVE  Places'
<1>1. /\ call \in [Callers -> CallPCs] /\ cancelled \in [Callers -> SUBSET Tasks]
      /\ tasks_ \in Seq(Tasks)
      /\ Places /\ ExecutorTypeOK /\ QueueInv /\ Somewhere /\ DequeInv /\ HeldInv
  BY DEF PoolInv, ExecutorTypeOK, Places
<1>2. UNCHANGED <<outcome, task, wpc>>
  BY DEF RequestShutdown, workers
<1>3. /\ call[x] = "stop" /\ call'[x] = "notify"
      /\ \A y \in Callers : y # x => call'[y] = call[y]
  BY <1>1 DEF RequestShutdown, Goto
<1>4. \A t \in Tasks : call'[t] = "submitted" <=> call[t] = "submitted"
  BY <1>3, CallersAre
<1>5. CASE ~ b
  <2>1. UNCHANGED <<tasks_, cancelled>>
    BY <1>5 DEF RequestShutdown
  <2>2. \A y \in Callers : cancelled[y] # {} => call'[y] \in {"notify", "destroy"}
    BY <1>1, <1>3 DEF DequeInv
  <2> QED BY <1>1, <1>2, <1>4, <2>1, <2>2, SamePlaces
<1>6. CASE b
  <2>1. tasks_' = <<>> /\ cancelled' = [cancelled EXCEPT ![x] = Range(tasks_)]
    BY <1>6 DEF RequestShutdown
  <2>2. /\ cancelled[x] = {} /\ cancelled'[x] = Range(tasks_)
        /\ \A y \in Callers : y # x => cancelled'[y] = cancelled[y]
    BY <1>1, <1>3, <2>1 DEF DequeInv
  <2>3. \A t : t \in Range(tasks_) <=> Queued(t)
    BY <1>1 DEF Range, Queued
  <2>4. \A t \in Tasks : Open(t)' <=> Open(t)
    BY <1>2, <1>4 DEF Open
  <2>5. Len(tasks_') = 0 /\ \A t \in Tasks : ~ Queued(t)'
    BY <2>1 DEF Queued
  <2>6. QueueInv'
    BY <2>5 DEF QueueInv
  <2>7. HeldInv'
    <3>1. ASSUME NEW w \in Workers, task[w] # NoTask PROVE Open(task[w])' /\ ~ Queued(task[w])'
      <4>1. task[w] \in Tasks /\ Open(task[w])
        BY <1>1, <3>1 DEF HeldInv, ExecutorTypeOK
      <4> QED BY <1>2, <2>4, <2>5, <4>1 DEF Open, Queued
    <3> QED BY <1>1, <1>2, <3>1 DEF HeldInv
  <2>8. DequeInv'
    <3>1. \A y \in Callers : cancelled'[y] # {} => call'[y] \in {"notify", "destroy"}
      BY <1>1, <1>3, <2>2 DEF DequeInv
    <3>2. \A t \in Range(tasks_) : t \in Tasks /\ Open(t) /\ \A w \in Workers : task[w] # t
      BY <1>1, <2>3, ExecutorAssumption DEF Queued, QueueInv, HeldInv
    <3>3. \A y \in Callers : \A t \in cancelled[y] : t \in Tasks /\ Open(t) /\ ~ Queued(t)
             /\ \A w \in Workers : task[w] # t
      BY <1>1 DEF DequeInv
    <3>4. \A y \in Callers : \A t \in cancelled'[y] :
            Open(t)' /\ ~ Queued(t)' /\ \A w \in Workers : task'[w] # t
      BY <1>2, <2>2, <2>4, <2>5, <3>2, <3>3
    <3>5. \A y \in Callers : \A t \in cancelled'[y] :
            \A z \in Callers : t \in cancelled'[z] => z = y
      BY <1>1, <2>2, <2>3, <3>3 DEF DequeInv
    <3> QED BY <3>1, <3>4, <3>5 DEF DequeInv, Callers
  <2>9. Somewhere'
    <3>1. ASSUME NEW t \in Tasks, Open(t)
          PROVE  (\E w \in Workers : task'[w] = t) \/ \E y \in Callers : t \in cancelled'[y]
      BY <1>1, <1>2, <2>2, <2>3, <3>1 DEF Somewhere
    <3>2. \A t \in Tasks : call'[t] # "submitted" => outcome'[t] = "none"
      BY <1>1, <1>2, <1>4 DEF Somewhere
    <3> QED BY <2>4, <3>1, <3>2 DEF Somewhere, Callers
  <2> QED BY <2>6, <2>7, <2>8, <2>9 DEF Places
<1> QED BY <1>5, <1>6

-----------------------------------------------------------------------------
(* BoundedExecutor: types, the capacity and the end.                       *)

(* The queue keeps its type and its bound; it grows only while the executor *)
(* is not stopping.                                                         *)
LEMMA QueueStep ==
  ASSUME PoolInv, [ExecutorNext]_executor
  PROVE  /\ tasks_' \in Seq(Tasks) /\ WithinCapacity'
         /\ stopping_ /\ tasks_ = <<>> => tasks_' = <<>>
         /\ stopping_ => stopping_'
<1>1. tasks_ \in Seq(Tasks) /\ Len(tasks_) <= queue_capacity_ /\ queue_capacity_ \in Nat
  BY ExecutorAssumption DEF PoolInv, ExecutorTypeOK, WithinCapacity
<1> DEFINE Goal == /\ tasks_' \in Seq(Tasks) /\ Len(tasks_') <= queue_capacity_
                   /\ stopping_ /\ tasks_ = <<>> => tasks_' = <<>>
<1>2. ASSUME UNCHANGED <<tasks_, stopping_>> PROVE Goal
  <2>1. UNCHANGED tasks_
    BY <1>2
  <2> QED BY <1>1, <2>1
<1>3. ASSUME NEW x, NEW b, RequestShutdown(x, b) PROVE Goal
  <2>1. ~ stopping_ /\ (tasks_' = <<>> \/ UNCHANGED tasks_)
    BY <1>3 DEF RequestShutdown
  <2>2. CASE UNCHANGED tasks_
    BY <1>1, <2>1, <2>2
  <2>3. CASE tasks_' = <<>>
    <3>1. tasks_' \in Seq(Tasks) /\ Len(tasks_') = 0
      BY <2>3
    <3> QED BY <1>1, <2>3, <3>1
  <2> QED BY <2>1, <2>2, <2>3
<1>4. ASSUME NEW t \in Tasks, Enqueue(t) PROVE Goal
  <2>1. ~ stopping_ /\ tasks_' = Append(tasks_, t) /\ Len(tasks_) < queue_capacity_
    BY <1>4 DEF Enqueue, Rejection, HasRoom
  <2> QED BY <1>1, <2>1
<1>5. ASSUME NEW w \in Workers, Take(w) PROVE Goal
  <2>1. tasks_ # <<>> /\ tasks_' = Tail(tasks_) /\ UNCHANGED stopping_
    BY <1>5 DEF Take
  <2> QED BY <1>1, <2>1
<1>6. \/ UNCHANGED <<tasks_, stopping_>>
      \/ \E x \in Callers : \E b \in BOOLEAN : RequestShutdown(x, b)
      \/ \E t \in Tasks : Enqueue(t)
      \/ \E w \in Workers : Take(w)
  <2>1. CASE NotifyWorker \/ UNCHANGED executor
    BY <2>1 DEF NotifyWorker, executor
  <2>2. ASSUME NEW x \in Callers, CancellingStop(x)
        PROVE  UNCHANGED <<tasks_, stopping_>> \/ RequestShutdown(x, TRUE)
    BY <2>2 DEF CancellingStop, StopStep, AlreadyStopping, NotifyAll, Destroy
  <2>3. ASSUME NEW t \in Tasks, End(t) \/ Late(t) \/ Call(t) \/ Submit(t)
        PROVE  \/ UNCHANGED <<tasks_, stopping_>> \/ CancellingStop(t) \/ Enqueue(t)
    BY <2>3 DEF End, Late, Call, Submit, Reject, AwaitSpace, WakeSubmitter
  <2>4. ASSUME NEW s \in Stoppers, RaiseFlag(s) \/ PlainShutdown(s) \/ Stop(s)
        PROVE  \/ UNCHANGED <<tasks_, stopping_>> \/ CancellingStop(s)
               \/ RequestShutdown(s, FALSE)
    BY <2>4 DEF RaiseFlag, PlainShutdown, Stop, Join
  <2>5. ASSUME NEW w \in Workers, Worker(w)
        PROVE  UNCHANGED <<tasks_, stopping_>> \/ Take(w)
    BY <2>5 DEF Worker, Wait, Exit, NotifySpace, Run
  <2> QED BY <2>1, <2>2, <2>3, <2>4, <2>5, CallersAre DEF ExecutorNext
<1>7. Goal
  BY <1>2, <1>3, <1>4, <1>5, <1>6
<1>8. stopping_ => stopping_'
  BY <1>6, Zenon DEF RequestShutdown, Enqueue, Take
<1> QED BY <1>7, <1>8 DEF WithinCapacity

(* Every other variable keeps its type.                                     *)
LEMMA PoolTypes ==
  ASSUME PoolInv, [ExecutorNext]_executor PROVE ExecutorTypeOK'
<1>0. /\ ExecutorTypeOK /\ tasks_ \in Seq(Tasks) /\ tasks_' \in Seq(Tasks) /\ HeldInv
      /\ call \in [Callers -> CallPCs] /\ cancelled \in [Callers -> SUBSET Tasks]
      /\ outcome \in [Tasks -> Outcomes] /\ over \subseteq Tasks /\ late \subseteq Tasks
      /\ notices \in Nat /\ wpc \in [Workers -> WorkerPCs]
      /\ task \in [Workers -> Tasks \cup {NoTask}]
      /\ inner \in [Workers -> Inner \cup {NoTask}]
  BY QueueStep DEF PoolInv, ExecutorTypeOK, Places
<1>1. stopping_ \in BOOLEAN /\ requested \in BOOLEAN
  BY DEF PoolInv, ExecutorTypeOK
<1>2. CASE UNCHANGED executor
  BY <1>2, <1>0, <1>1 DEF executor, callers, clock, workers, ExecutorTypeOK, Callers
<1>3. CASE NotifyWorker
  <2>1. /\ UNCHANGED <<stopping_, requested, call, cancelled, outcome, over, late, task, inner>>
        /\ notices' \in Nat /\ wpc' \in [Workers -> WorkerPCs]
    BY <1>0, <1>3 DEF NotifyWorker, callers, clock, WorkerPCs
  <2> QED BY <1>0, <1>1, <2>1 DEF ExecutorTypeOK, Callers
<1>4. ASSUME NEW t \in Tasks, End(t) \/ Late(t) \/ Call(t)
      PROVE  ExecutorTypeOK'
  <2>1. UNCHANGED <<stopping_, requested, cancelled, outcome, notices, wpc, task>>
    BY <1>4 DEF End, Late, Call, callers, clock, workers
  <2>2. over' \subseteq Tasks /\ late' \subseteq Tasks
    BY <1>0, <1>4 DEF End, Late, Call, clock
  <2>3. call' \in [Callers -> CallPCs]
    BY <1>0, <1>4, CallersAre DEF End, Late, Call, callers, Goto, CallPCs
  <2>4. inner' \in [Workers -> Inner \cup {NoTask}]
    BY <1>0, <1>4 DEF End, Late, Call, MayCall, workers
  <2> QED BY <1>0, <1>1, <2>1, <2>2, <2>3, <2>4 DEF ExecutorTypeOK, Callers
<1>5. ASSUME NEW x \in Callers,
             \/ StopStep(x) \/ \E b \in BOOLEAN : RequestShutdown(x, b)
      PROVE  ExecutorTypeOK'
  <2>1. UNCHANGED <<requested, over, late, notices, task, inner>>
    BY <1>5 DEF StopStep, AlreadyStopping, NotifyAll, Destroy,
           RequestShutdown, clock, workers
  <2>2. stopping_' \in BOOLEAN
    BY <1>1, <1>5 DEF StopStep, AlreadyStopping, NotifyAll, Destroy,
           RequestShutdown
  <2>3. call' \in [Callers -> CallPCs]
    BY <1>0, <1>5 DEF StopStep, AlreadyStopping, NotifyAll, Destroy,
           RequestShutdown, Goto, CallPCs, AfterShutdown
  <2>4. wpc' \in [Workers -> WorkerPCs]
    BY <1>0, <1>5 DEF StopStep, AlreadyStopping, NotifyAll, Destroy,
           RequestShutdown, WorkerPCs, workers
  <2>5. outcome' \in [Tasks -> Outcomes]
    BY <1>0, <1>5 DEF StopStep, AlreadyStopping, NotifyAll, Destroy,
           RequestShutdown, Outcomes
  <2>6. cancelled' \in [Callers -> SUBSET Tasks]
    <3>1. Range(tasks_) \in SUBSET Tasks
      BY <1>0 DEF Range
    <3> QED BY <1>0, <1>5, <3>1 DEF StopStep, AlreadyStopping, NotifyAll,
                Destroy, RequestShutdown
  <2> QED BY <1>0, <1>1, <2>1, <2>2, <2>3, <2>4, <2>5, <2>6 DEF ExecutorTypeOK, Callers
<1>6. ASSUME NEW t \in Tasks,
             Reject(t) \/ Enqueue(t) \/ AwaitSpace(t) \/ WakeSubmitter(t)
      PROVE  ExecutorTypeOK'
  <2>1. UNCHANGED <<stopping_, requested, cancelled, over, late, wpc, task, inner>>
    BY <1>6 DEF Reject, Enqueue, AwaitSpace, WakeSubmitter, clock, workers
  <2>2. call' \in [Callers -> CallPCs]
    BY <1>0, <1>6, CallersAre DEF Reject, Enqueue, AwaitSpace, WakeSubmitter,
           Goto, CallPCs
  <2>3. outcome' \in [Tasks -> Outcomes] /\ notices' \in Nat
    BY <1>0, <1>6 DEF Reject, Enqueue, AwaitSpace, WakeSubmitter, Rejection,
           Outcomes
  <2> QED BY <1>0, <1>1, <2>1, <2>2, <2>3 DEF ExecutorTypeOK, Callers
<1>7. ASSUME NEW s \in Stoppers, RaiseFlag(s) \/ PlainShutdown(s) \/ Join(s)
      PROVE  ExecutorTypeOK'
  <2>1. UNCHANGED <<stopping_, cancelled, outcome, over, late, notices, wpc, task, inner>>
    BY <1>7 DEF RaiseFlag, PlainShutdown, Join, clock, workers
  <2>2. requested' \in BOOLEAN
    BY <1>1, <1>7 DEF RaiseFlag, PlainShutdown, Join
  <2>3. call' \in [Callers -> CallPCs]
    BY <1>0, <1>7, CallersAre DEF RaiseFlag, PlainShutdown, Join, Goto, CallPCs
  <2> QED BY <1>0, <1>1, <2>1, <2>2, <2>3 DEF ExecutorTypeOK, Callers
<1>8. ASSUME NEW w \in Workers, Worker(w) PROVE ExecutorTypeOK'
  <2>0. Run(w) => task[w] \in Tasks
    BY <1>0 DEF Run, HeldInv
  <2>1. UNCHANGED <<stopping_, requested, cancelled, over, late, notices>>
    BY <1>8 DEF Worker, Wait, Exit, Take, NotifySpace, Run,
           callers, clock
  <2>2. call' \in [Callers -> CallPCs]
    BY <1>0, <1>8 DEF Worker, Wait, Exit, Take, NotifySpace, Run,
           callers, CallPCs
  <2>3. wpc' \in [Workers -> WorkerPCs]
    BY <1>0, <1>8 DEF Worker, Wait, Exit, Take, NotifySpace, Run,
           WorkerPCs
  <2>4. outcome' \in [Tasks -> Outcomes]
    BY <1>0, <1>8, <2>0 DEF Worker, Wait, Exit, Take, NotifySpace,
           Run, Outcomes
  <2>5. task' \in [Workers -> Tasks \cup {NoTask}] /\ inner' \in [Workers -> Inner \cup {NoTask}]
    <3>1. tasks_ # <<>> => Head(tasks_) \in Tasks
      BY <1>0
    <3> QED BY <1>0, <1>8, <3>1 DEF Worker, Wait, Exit, Take,
               NotifySpace, Run
  <2> QED BY <1>0, <1>1, <2>1, <2>2, <2>3, <2>4, <2>5 DEF ExecutorTypeOK, Callers
<1> QED BY <1>2, <1>3, <1>4, <1>5, <1>6, <1>7, <1>8, CallersAre
        DEF ExecutorNext, Submit, Stop, CancellingStop

(* A worker leaves only through Exit(), and a thread that joins is back     *)
(* only through Join().                                                     *)
LEMMA LeavingStep ==
  ASSUME PoolInv, [ExecutorNext]_executor PROVE Leaving'
<1>0. /\ call \in [Callers -> CallPCs] /\ wpc \in [Workers -> WorkerPCs]
      /\ Leaving /\ Joiners \subseteq Stoppers /\ Tasks \cap Stoppers = {}
  BY ExecutorAssumption DEF PoolInv, ExecutorTypeOK
<1>1. stopping_ /\ tasks_ = <<>> => stopping_' /\ tasks_' = <<>>
  BY QueueStep
<1>2. ASSUME NEW w \in Workers
      PROVE  /\ wpc[w] = "exited" => wpc'[w] = "exited"
             /\ wpc'[w] = "exited" => wpc[w] = "exited" \/ Exit(w)
  <2>1. CASE NotifyWorker \/ UNCHANGED executor
    BY <1>0, <2>1 DEF NotifyWorker, executor, workers
  <2>2. ASSUME NEW x \in Callers,
               \/ CancellingStop(x) \/ RequestShutdown(x, FALSE) \/ Reject(x)
               \/ Enqueue(x) \/ AwaitSpace(x) \/ WakeSubmitter(x) \/ End(x)
               \/ Late(x) \/ Call(x) \/ RaiseFlag(x) \/ PlainShutdown(x)
               \/ Join(x)
        PROVE  wpc'[w] = "exited" <=> wpc[w] = "exited"
    <3>1. CASE NotifyAll(x)
      BY <1>0, <3>1 DEF NotifyAll
    <3>2. CASE UNCHANGED wpc
      BY <3>2
    <3> QED BY <2>2, <3>1, <3>2 DEF CancellingStop, StopStep, AlreadyStopping,
               Destroy, RequestShutdown, Reject, Enqueue, AwaitSpace,
               WakeSubmitter, End, Late, Call, RaiseFlag, PlainShutdown,
               Join, workers
  <2>3. ASSUME NEW v \in Workers, Worker(v)
        PROVE  /\ wpc[w] = "exited" => wpc'[w] = "exited"
               /\ wpc'[w] = "exited" => wpc[w] = "exited" \/ Exit(w)
    BY <1>0, <2>3 DEF Worker, Wait, Exit, Take, NotifySpace, Run
  <2> QED BY <2>1, <2>2, <2>3, CallersAre DEF ExecutorNext, Submit, Stop
<1>3. \A w \in Workers : wpc'[w] = "exited" => stopping_' /\ tasks_' = <<>>
  BY <1>0, <1>1, <1>2 DEF Leaving, Exit
<1>4. ASSUME NEW s \in Joiners, call'[s] = "returned"
      PROVE  call[s] = "returned" \/ Join(s)
  <2>0. s \in Stoppers /\ s \in Callers /\ s \notin Tasks
    BY <1>0, CallersAre
  <2>1. CASE UNCHANGED call
    BY <1>4, <2>1
  <2>2. ASSUME NEW x \in Callers, CancellingStop(x) \/ RequestShutdown(x, FALSE)
        PROVE  call[s] = "returned"
    BY <1>0, <1>4, <2>0, <2>2 DEF CancellingStop, StopStep, AlreadyStopping,
       NotifyAll, Destroy, RequestShutdown, Goto, AfterShutdown
  <2>3. ASSUME NEW t \in Tasks,
               Reject(t) \/ Enqueue(t) \/ AwaitSpace(t) \/ WakeSubmitter(t)
               \/ End(t) \/ Late(t) \/ Call(t)
        PROVE  call[s] = "returned"
    BY <1>0, <1>4, <2>0, <2>3, CallersAre DEF Reject, Enqueue, AwaitSpace,
       WakeSubmitter, End, Late, Call, Goto, callers
  <2>4. ASSUME NEW r \in Stoppers, RaiseFlag(r) \/ PlainShutdown(r) \/ Join(r)
        PROVE  call[s] = "returned" \/ Join(s)
    <3>1. CASE r = s
      BY <1>0, <1>4, <2>0, <2>4, <3>1 DEF RaiseFlag, PlainShutdown, Goto
    <3>2. CASE r # s
      BY <1>0, <1>4, <2>0, <2>4, <3>2 DEF RaiseFlag, PlainShutdown, Join, Goto
    <3> QED BY <3>1, <3>2
  <2>5. ASSUME NEW w \in Workers, Worker(w) PROVE call[s] = "returned"
    BY <1>0, <1>4, <2>0, <2>5 DEF Worker, Wait, Exit, Take,
       NotifySpace, Run, callers
  <2>6. NotifyWorker \/ UNCHANGED executor => UNCHANGED call
    BY DEF NotifyWorker, executor, callers
  <2> QED BY <2>1, <2>2, <2>3, <2>4, <2>5, <2>6, CallersAre DEF ExecutorNext, Submit, Stop
<1>5. \A s \in Joiners : call'[s] = "returned" => \A w \in Workers : wpc'[w] = "exited"
  BY <1>0, <1>2, <1>4 DEF Leaving, Join
<1> QED BY <1>3, <1>5 DEF Leaving

(* The inductive invariant of the executor.                                 *)
THEOREM PoolInvHolds == ExecutorSpec => []PoolInv
<1>1. ExecutorInit => PoolInv
  BY PoolInit
<1>2. PoolInv /\ [ExecutorNext]_executor => PoolInv'
  <2> SUFFICES ASSUME PoolInv, [ExecutorNext]_executor PROVE PoolInv'
    OBVIOUS
  <2>1. ExecutorTypeOK' /\ WithinCapacity' /\ Leaving'
    BY PoolTypes, QueueStep, LeavingStep
  <2>2. Places'
    <3>1. CASE UNCHANGED executor
      <4>1. UNCHANGED <<tasks_, cancelled, outcome, task, wpc, call>>
        BY <3>1 DEF executor, callers, workers
      <4> QED BY <4>1, SamePlaces DEF PoolInv, Places, DequeInv
    <3>2. ASSUME NEW x \in Callers, CancellingStop(x) \/ RequestShutdown(x, FALSE)
          PROVE  Places'
      BY <3>2, StopPlaces, StopperPlaces, WakePlaces, DestroyPlaces
         DEF CancellingStop, StopStep
    <3>3. ASSUME NEW t \in Tasks, End(t) \/ Late(t) \/ Call(t) \/ Submit(t)
          PROVE  Places'
      BY <3>2, <3>3, CallPlaces, RefusePlaces, EnqueuePlaces, CallersAre DEF Submit
    <3>4. ASSUME NEW s \in Stoppers, RaiseFlag(s) \/ PlainShutdown(s) \/ Stop(s)
          PROVE  Places'
      BY <3>2, <3>4, StopperPlaces, CallersAre DEF Stop
    <3>5. ASSUME NEW w \in Workers, Worker(w) PROVE Places'
      BY <3>5, WakePlaces, TakePlaces, RunPlaces DEF Worker
    <3> QED BY <3>1, <3>3, <3>4, <3>5, WakePlaces DEF ExecutorNext
  <2> QED BY <2>1, <2>2 DEF PoolInv
<1> QED BY <1>1, <1>2, PTL DEF ExecutorSpec

(* The queue never outgrows its capacity, and an accepted task whose future *)
(* is not ready is in exactly one of the queue, a worker and the deque of   *)
(* one stopping thread, whichever threads race to submit, take and stop.    *)
THEOREM ExecutorConsistent == ExecutorSpec => []Consistent
<1>1. PoolInv => Consistent
  <2> SUFFICES ASSUME PoolInv, NEW t \in Tasks
      PROVE  IF Open(t) THEN \E h \in Holders(t) : Holders(t) = {h}
             ELSE Holders(t) = {}
    BY DEF PoolInv, Consistent, OneOwner, Open
  <2>0. QueueInv /\ HeldInv /\ DequeInv /\ Somewhere /\ tasks_ \in Seq(Tasks) /\ t # NoTask
    BY ExecutorAssumption DEF PoolInv, Places, ExecutorTypeOK
  <2> DEFINE Q == {i \in DOMAIN tasks_ : tasks_[i] = t}
             W == {w \in Workers : task[w] = t}
             D == {x \in Callers : t \in cancelled[x]}
  <2>1. Holders(t) = {<<"queue", i>> : i \in Q} \cup {<<"worker", w>> : w \in W}
                            \cup {<<"deque", x>> : x \in D}
    BY DEF Holders
  <2>2. /\ \A i, j \in Q : i = j
        /\ \A v, w \in W : v = w
        /\ \A x, y \in D : x = y
    BY <2>0 DEF QueueInv, HeldInv, DequeInv
  <2>3. /\ Q # {} => W = {} /\ D = {} /\ Open(t)
        /\ W # {} => D = {} /\ Open(t)
        /\ D # {} => Open(t)
    BY <2>0 DEF QueueInv, HeldInv, DequeInv, Queued
  <2>4. Open(t) => Q # {} \/ W # {} \/ D # {}
    BY <2>0 DEF Somewhere, Queued
  <2> HIDE DEF Q, W, D
  <2>5. CASE Q # {}
    <3>1. PICK i \in Q : Q = {i}
      BY <2>2, <2>5
    <3>2. Holders(t) = {<<"queue", i>>}
      BY <2>1, <2>3, <2>5, <3>1
    <3> QED BY <2>3, <2>5, <3>2
  <2>6. CASE W # {} /\ Q = {}
    <3>1. PICK w \in W : W = {w}
      BY <2>2, <2>6
    <3>2. Holders(t) = {<<"worker", w>>}
      BY <2>1, <2>3, <2>6, <3>1
    <3> QED BY <2>3, <2>6, <3>2
  <2>7. CASE D # {} /\ Q = {} /\ W = {}
    <3>1. PICK x \in D : D = {x}
      BY <2>2, <2>7
    <3>2. Holders(t) = {<<"deque", x>>}
      BY <2>1, <2>7, <3>1
    <3> QED BY <2>3, <2>7, <3>2
  <2>8. CASE Q = {} /\ W = {} /\ D = {}
    <3>1. Holders(t) = {} /\ ~ Open(t)
      BY <2>1, <2>4, <2>8
    <3> QED BY <3>1
  <2> QED BY <2>5, <2>6, <2>7, <2>8
<1> QED BY <1>1, PoolInvHolds, PTL

(* When a thread is back from join(), no worker is left, the queue is       *)
(* empty, and what was accepted has its outcome or is in the deque of a     *)
(* thread still inside requestShutdown().                                   *)
THEOREM JoinEndsAll == ExecutorSpec => []JoinedMeansOver
<1>1. PoolInv => JoinedMeansOver
  <2> SUFFICES ASSUME PoolInv, NEW s \in Joiners, call[s] = "returned"
      PROVE  /\ tasks_ = <<>> /\ \A w \in Workers : wpc[w] = "exited"
             /\ \A t \in Tasks : call[t] = "submitted" =>
                  outcome[t] # "none" \/ \E x \in Callers : t \in cancelled[x]
    BY DEF JoinedMeansOver
  <2>1. HeldInv /\ Somewhere /\ Leaving /\ Workers # {} /\ NoTask \notin Tasks
    BY ExecutorAssumption DEF PoolInv, Places
  <2>2. \A w \in Workers : wpc[w] = "exited" /\ task[w] = NoTask
    BY <2>1 DEF Leaving, HeldInv
  <2>3. tasks_ = <<>>
    BY <2>1, <2>2 DEF Leaving
  <2>4. \A t \in Tasks : ~ Queued(t)
    BY <2>3 DEF Queued
  <2> QED BY <2>1, <2>2, <2>3, <2>4 DEF Somewhere, Open
<1> QED BY <1>1, PoolInvHolds, PTL
=============================================================================
