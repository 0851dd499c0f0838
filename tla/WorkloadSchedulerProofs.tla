---------------------- MODULE WorkloadSchedulerProofs ----------------------
(***************************************************************************)
(* What holds of WorkloadScheduler for any number of tasks, workers and    *)
(* shutdown callers, any limits and any clock bound.                       *)
(***************************************************************************)
EXTENDS WorkloadScheduler, FiniteSetTheorems, TLAPS

USE DEF Classes

-----------------------------------------------------------------------------
(* The selection policy.                                                   *)

(* kWeights fit the credit array.                                           *)
LEMMA WeightsAreCredits == kWeights \in Credits /\ \A c \in Classes : kWeights[c] # 0
  BY DEF kWeights, Credits

(* After the refill at the top of takeTaskLocked() some non-empty queue has *)
(* credit, whatever the credits were.                                       *)
LEMMA RefillGivesCredit ==
  ASSUME NEW credits \in Credits, NEW S \in SUBSET Classes, S # {}
  PROVE  /\ Refilled(credits, S) \in Credits
         /\ activeHasCredit(Refilled(credits, S), S)
<1>1. CASE activeHasCredit(credits, S)
  BY <1>1 DEF Refilled
<1>2. CASE ~ activeHasCredit(credits, S)
  <2> DEFINE r == [c \in Classes |-> IF c \in S THEN kWeights[c] ELSE 0]
  <2>1. Refilled(credits, S) = r
    BY <1>2 DEF Refilled
  <2>2. r \in Credits
    BY DEF kWeights, Credits
  <2>3. PICK c \in S : TRUE
    OBVIOUS
  <2>4. r[c] # 0
    BY <2>3, WeightsAreCredits
  <2> QED BY <2>1, <2>2, <2>3, <2>4 DEF activeHasCredit
<1> QED BY <1>1, <1>2

(* The round-robin loop then always serves a queue within three attempts:   *)
(* the fallback to the oldest head and the nullptr after it are dead code   *)
(* when a task is queued.                                                   *)
THEOREM AttemptFindsQueue ==
  ASSUME NEW credits \in Credits, NEW S \in SUBSET Classes, S # {},
         NEW next \in Classes
  PROVE  \E k \in 0 .. 2 : SkipsTo(Refilled(credits, S), S, next, k)
<1> DEFINE r == Refilled(credits, S)
           ok(k) == Servable(r, S, Attempt(next, k))
<1>1. PICK c \in S : r[c] # 0
  BY RefillGivesCredit DEF activeHasCredit
<1>2. Servable(r, S, c)
  BY <1>1 DEF Servable
<1>3. \E k \in 0 .. 2 : Attempt(next, k) = c
  <2>1. c \in 0 .. 2 /\ next \in 0 .. 2
    BY <1>1
  <2>2. CASE c >= next
    <3>1. c - next \in 0 .. 2 /\ (next + (c - next)) % 3 = c
      BY <2>1, <2>2
    <3> QED BY <3>1 DEF Attempt
  <2>3. CASE c < next
    <3>1. c + 3 - next \in 0 .. 2 /\ (next + (c + 3 - next)) % 3 = c
      BY <2>1, <2>3
    <3> QED BY <3>1 DEF Attempt
  <2> QED BY <2>1, <2>2, <2>3
<1>4. ok(0) \/ ok(1) \/ ok(2)
  BY <1>2, <1>3
<1>5. CASE ok(0)
  BY <1>5 DEF SkipsTo
<1>6. CASE ~ ok(0) /\ ok(1)
  <2>1. \A j \in 0 .. 5 : j < 1 => j = 0
    OBVIOUS
  <2> QED BY <1>6, <2>1 DEF SkipsTo
<1>7. CASE ~ ok(0) /\ ~ ok(1) /\ ok(2)
  <2>1. \A j \in 0 .. 5 : j < 2 => j = 0 \/ j = 1
    OBVIOUS
  <2> QED BY <1>7, <2>1 DEF SkipsTo
<1> QED BY <1>4, <1>5, <1>6, <1>7

-----------------------------------------------------------------------------
(* Type correctness, one step of the proof per group of variables.         *)

LEMMA TypeInit == Init => TypeOK
<1> SUFFICES ASSUME Init PROVE TypeOK
  OBVIOUS
<1> USE SchedulerAssumption DEF Init
<1>1. QueuesOK
  <2>1. <<>> \in Seq(Tasks)
    OBVIOUS
  <2>2. queues_ \in [Classes -> Seq(Tasks)]
    BY <2>1
  <2>3. stopping_ \in BOOLEAN
    OBVIOUS
  <2> QED BY <2>2, <2>3 DEF QueuesOK
<1>2. CountersOK
  BY DEF CountersOK
<1>3. PolicyOK
  BY WeightsAreCredits DEF PolicyOK
<1>4. ClockOK
  BY DEF ClockOK
<1>5. ThreadsOK
  BY DEF ThreadsOK, Phases, Outcomes, Reasons, WorkerPCs, StopperPCs
<1> QED BY <1>1, <1>2, <1>3, <1>4, <1>5 DEF TypeOK

(* What popping the head of a non-empty queue yields.                       *)
LEMMA PopTypes ==
  ASSUME QueuesOK, NEW c \in NonEmpty
  PROVE  /\ c \in Classes
         /\ Head(queues_[c]) \in Tasks
         /\ Tail(queues_[c]) \in Seq(Tasks)
         /\ queues_[c] \in Seq(Tasks) /\ queues_[c] # <<>>
  BY DEF QueuesOK, NonEmpty

LEMMA CountersStep == TypeOK /\ [Next]_vars => CountersOK'
<1> SUFFICES ASSUME TypeOK, [Next]_vars PROVE CountersOK'
  OBVIOUS
<1> USE DEF CountersOK, counters
<1>0. CountersOK /\ Bytes \in [Tasks -> Nat]
  BY SchedulerAssumption DEF TypeOK
<1>1. CASE Tick \/ NotifyOne
  BY <1>0, <1>1 DEF Tick, NotifyOne
<1>2. ASSUME NEW t \in Tasks, RequestCancellation(t) \/ Submitter(t)
      PROVE  CountersOK'
  <2>1. Bytes[t] \in Nat
    BY <1>0
  <2>2. CASE RequestCancellation(t) \/ Stamp(t)
    BY <1>0, <2>2 DEF RequestCancellation, Stamp
  <2>3. CASE Accept(t)
    BY <1>0, <2>1, <2>3 DEF Accept
  <2>4. CASE Refuse(t)
    BY <1>0, <2>4 DEF Refuse
  <2> QED BY <1>2, <2>2, <2>3, <2>4 DEF Submitter
<1>3. ASSUME NEW w \in Workers, Take(w) PROVE CountersOK'
  <2>1. PICK c \in NonEmpty : popLocked(w, c)
    BY <1>3 DEF Take
  <2>2. Bytes[Head(queues_[c])] \in Nat
    BY <1>0, PopTypes DEF TypeOK
  <2> QED BY <1>0, <1>3, <2>1, <2>2 DEF Take, popLocked
<1>4. ASSUME NEW w \in Workers, Worker(w), ~ Take(w) PROVE CountersOK'
  BY <1>0, <1>4 DEF Worker, Wait, Exit, Start, Run, CancelTaken, Complete,
                    CountCancelled, Release
<1>5. ASSUME NEW s \in Stoppers, Stopper(s) PROVE CountersOK'
  BY <1>0, <1>5 DEF Stopper, RequestShutdown, ShutdownAgain, DrainOne,
                    CancelDrained, DrainDone, NotifyAll, Join
<1>6. CASE UNCHANGED vars
  BY <1>0, <1>6 DEF vars
<1> QED BY <1>1, <1>2, <1>3, <1>4, <1>5, <1>6 DEF Next

LEMMA QueuesStep == TypeOK /\ [Next]_vars => QueuesOK'
<1> SUFFICES ASSUME TypeOK, [Next]_vars PROVE QueuesOK'
  OBVIOUS
<1>0. /\ QueuesOK /\ queues_ \in [Classes -> Seq(Tasks)] /\ stopping_ \in BOOLEAN
      /\ Cost \in [Tasks -> Classes]
  BY SchedulerAssumption DEF TypeOK, QueuesOK
<1>1. CASE UNCHANGED <<queues_, stopping_>>
  BY <1>0, <1>1 DEF QueuesOK
<1>2. ASSUME NEW t \in Tasks, Accept(t) PROVE QueuesOK'
  <2>1. Cost[t] \in Classes /\ Append(queues_[Cost[t]], t) \in Seq(Tasks)
    BY <1>0
  <2>2. queues_' \in [Classes -> Seq(Tasks)]
    BY <1>0, <1>2, <2>1 DEF Accept
  <2> QED BY <1>0, <1>2, <2>2 DEF Accept, QueuesOK
<1>3. ASSUME NEW w \in Workers, Take(w) PROVE QueuesOK'
  <2>1. PICK c \in NonEmpty : popLocked(w, c)
    BY <1>3 DEF Take
  <2>2. queues_' \in [Classes -> Seq(Tasks)]
    BY <1>0, <2>1, PopTypes DEF popLocked
  <2> QED BY <1>0, <1>3, <2>2 DEF Take, QueuesOK
<1>4. ASSUME NEW s \in Stoppers, DrainOne(s) PROVE QueuesOK'
  <2>1. PICK c \in NonEmpty : queues_' = [queues_ EXCEPT ![c] = Tail(@)]
    BY <1>4 DEF DrainOne
  <2>2. queues_' \in [Classes -> Seq(Tasks)]
    BY <1>0, <2>1, PopTypes
  <2> QED BY <1>0, <1>4, <2>2 DEF DrainOne, QueuesOK
<1>5. ASSUME NEW s \in Stoppers, NEW b \in BOOLEAN, RequestShutdown(s, b)
      PROVE  QueuesOK'
  BY <1>0, <1>5 DEF RequestShutdown, QueuesOK
<1>6. \/ UNCHANGED <<queues_, stopping_>>
      \/ \E t \in Tasks : Accept(t)
      \/ \E w \in Workers : Take(w)
      \/ \E s \in Stoppers : DrainOne(s) \/ \E b \in BOOLEAN : RequestShutdown(s, b)
  BY DEF Next, vars, Tick, NotifyOne, RequestCancellation, Submitter, Stamp, Refuse,
         Worker, Wait, Exit, Start, Run, CancelTaken, Complete, CountCancelled,
         Release, Stopper, ShutdownAgain, CancelDrained, DrainDone, NotifyAll, Join
<1> QED BY <1>1, <1>2, <1>3, <1>4, <1>5, <1>6

LEMMA PolicyStep == TypeOK /\ [Next]_vars => PolicyOK'
<1> SUFFICES ASSUME TypeOK, [Next]_vars PROVE PolicyOK'
  OBVIOUS
<1>0. PolicyOK
  BY DEF TypeOK
<1>1. CASE UNCHANGED policy
  BY <1>0, <1>1 DEF policy, PolicyOK
<1>2. ASSUME NEW c \in NonEmpty, PopCredited(c) PROVE PolicyOK'
  <2> DEFINE r == Refilled(credits_, NonEmpty)
  <2>1. PICK k \in 0 .. 5 :
          /\ SkipsTo(r, NonEmpty, next_queue_, k)
          /\ c = Attempt(next_queue_, k)
          /\ credits_' = [r EXCEPT ![c] = @ - 1]
          /\ next_queue_' = Attempt(next_queue_, k + 1)
    BY <1>2 DEF PopCredited
  <2>2. r \in Credits /\ r[c] # 0 /\ c \in Classes
    BY <1>0, <2>1, RefillGivesCredit DEF PolicyOK, NonEmpty, SkipsTo, Servable
  <2>3. [r EXCEPT ![c] = @ - 1] \in Credits
    <3>1. r \in [Classes -> 0 .. 8] /\ r[c] - 1 \in 0 .. 8
      BY <2>2 DEF Credits
    <3> QED BY <2>2, <3>1 DEF Credits
  <2>4. Attempt(next_queue_, k + 1) \in Classes
    BY <1>0, <2>1 DEF Attempt, PolicyOK
  <2> QED BY <2>1, <2>3, <2>4 DEF PolicyOK
<1>3. UNCHANGED policy \/ \E c \in NonEmpty : PopCredited(c)
  BY DEF Next, vars, Tick, NotifyOne, RequestCancellation, Submitter, Stamp, Accept,
         Refuse, Worker, Wait, Exit, Take, PopAged, Start, Run, CancelTaken, Complete,
         CountCancelled, Release, Stopper, RequestShutdown, ShutdownAgain, DrainOne,
         CancelDrained, DrainDone, NotifyAll, Join
<1> QED BY <1>1, <1>2, <1>3

LEMMA ClockStep == TypeOK /\ [Next]_vars => ClockOK'
<1> SUFFICES ASSUME TypeOK, [Next]_vars PROVE ClockOK'
  OBVIOUS
<1>0. ClockOK /\ MaxTime \in Nat
  BY SchedulerAssumption DEF TypeOK
<1>1. CASE UNCHANGED clock
  BY <1>0, <1>1 DEF clock, ClockOK
<1>2. CASE Tick
  BY <1>0, <1>2 DEF Tick, ClockOK
<1>3. ASSUME NEW t \in Tasks, RequestCancellation(t) \/ Stamp(t) PROVE ClockOK'
  BY <1>0, <1>3 DEF RequestCancellation, Stamp, ClockOK
<1>4. UNCHANGED clock \/ Tick \/ \E t \in Tasks : RequestCancellation(t) \/ Stamp(t)
  BY DEF Next, vars, NotifyOne, Submitter, Accept, Refuse, Worker, Wait, Exit, Take,
         Start, Run, CancelTaken, Complete, CountCancelled, Release, Stopper,
         RequestShutdown, ShutdownAgain, DrainOne, CancelDrained, DrainDone,
         NotifyAll, Join
<1> QED BY <1>1, <1>2, <1>3, <1>4

LEMMA ThreadsStep == TypeOK /\ [Next]_vars => ThreadsOK'
<1> SUFFICES ASSUME TypeOK, [Next]_vars PROVE ThreadsOK'
  OBVIOUS
<1>0. ThreadsOK /\ QueuesOK
  BY DEF TypeOK
<1> USE DEF ThreadsOK, Phases, WorkerPCs, StopperPCs, workers, stoppers
<1>1. CASE Tick \/ NotifyOne
  BY <1>0, <1>1 DEF Tick, NotifyOne
<1>2. ASSUME NEW t \in Tasks, RequestCancellation(t) \/ Stamp(t) \/ Accept(t)
      PROVE  ThreadsOK'
  BY <1>0, <1>2 DEF RequestCancellation, Stamp, Accept
<1>3. ASSUME NEW t \in Tasks, Refuse(t) PROVE ThreadsOK'
  <2>1. SubmitStatus(t) \in Outcomes
    BY DEF SubmitStatus, Outcomes, Reasons
  <2> QED BY <1>0, <1>3, <2>1 DEF Refuse
<1>4. ASSUME NEW w \in Workers, Take(w) PROVE ThreadsOK'
  <2>1. PICK c \in NonEmpty : popLocked(w, c)
    BY <1>4 DEF Take
  <2>2. Head(queues_[c]) \in Tasks
    BY <1>0, PopTypes
  <2> QED BY <1>0, <1>4, <2>1, <2>2 DEF Take, popLocked
<1>5. ASSUME NEW w \in Workers, Run(w) \/ CancelTaken(w) PROVE ThreadsOK'
  BY <1>0, <1>5 DEF Run, CancelTaken, Complete, Outcomes, Reasons
<1>6. ASSUME NEW w \in Workers,
             Wait(w) \/ Exit(w) \/ Start(w) \/ CountCancelled(w) \/ Release(w)
      PROVE  ThreadsOK'
  BY <1>0, <1>6 DEF Wait, Exit, Start, CountCancelled, Release
<1>7. ASSUME NEW s \in Stoppers, NEW b \in BOOLEAN, RequestShutdown(s, b)
      PROVE  ThreadsOK'
  BY <1>0, <1>7 DEF RequestShutdown
<1>8. ASSUME NEW s \in Stoppers, DrainOne(s) PROVE ThreadsOK'
  <2>1. PICK c \in NonEmpty :
          /\ drained' = [drained EXCEPT ![s] = Head(queues_[c])]
          /\ phase' = [phase EXCEPT ![Head(queues_[c])] = "drained"]
    BY <1>8 DEF DrainOne
  <2>2. Head(queues_[c]) \in Tasks
    BY <1>0, PopTypes
  <2> QED BY <1>0, <1>8, <2>1, <2>2 DEF DrainOne
<1>9. ASSUME NEW s \in Stoppers, CancelDrained(s) PROVE ThreadsOK'
  BY <1>0, <1>9 DEF CancelDrained, Outcomes, Reasons
<1>10. ASSUME NEW s \in Stoppers,
              ShutdownAgain(s) \/ DrainDone(s) \/ NotifyAll(s) \/ Join(s)
       PROVE  ThreadsOK'
  BY <1>0, <1>10 DEF ShutdownAgain, DrainDone, NotifyAll, Join
<1>11. CASE UNCHANGED vars
  BY <1>0, <1>11 DEF vars
<1> QED BY <1>1, <1>2, <1>3, <1>4, <1>5, <1>6, <1>7, <1>8, <1>9, <1>10, <1>11
        DEF Next, Submitter, Worker, Stopper

(* Every variable of the scheduler keeps its type, whatever the interleaving *)
(* of submissions, workers and shutdown callers.                             *)
THEOREM TypeCorrect == Spec => []TypeOK
<1>1. TypeOK /\ [Next]_vars => TypeOK'
  BY CountersStep, QueuesStep, PolicyStep, ClockStep, ThreadsStep DEF TypeOK
<1> QED BY TypeInit, <1>1, PTL DEF Spec

-----------------------------------------------------------------------------
(* The inductive invariant: where a task is, given its phase.              *)

(* The deques hold queued tasks of their class, each of them once ...       *)
QueueInv ==
  \A c \in Classes : \A i \in 1 .. Len(queues_[c]) :
    /\ phase[queues_[c][i]] = "queued" /\ Cost[queues_[c][i]] = c
    /\ \A j \in 1 .. Len(queues_[c]) : queues_[c][i] = queues_[c][j] => i = j

(* ... and every queued task.                                               *)
QueuedIsThere ==
  \A t \in Tasks : phase[t] = "queued" =>
    \E i \in 1 .. Len(queues_[Cost[t]]) : queues_[Cost[t]][i] = t

(* A worker between the pop and the completion holds a task of its own, and *)
(* a taken task is in some worker's hands.                                  *)
HeldInv ==
  /\ \A w \in Workers :
       IF wpc[w] \in {"holding", "running"}
       THEN held[w] \in Tasks /\ phase[held[w]] = "taken"
       ELSE held[w] = NoTask
  /\ \A v, w \in Workers : held[v] = held[w] /\ held[w] # NoTask => v = w
  /\ \A t \in Tasks : phase[t] = "taken" => \E w \in Workers : held[w] = t

(* The same for the thread that empties the deques; there is at most one.   *)
DrainInv ==
  /\ \A s \in Stoppers :
       IF spc[s] = "cancel"
       THEN drained[s] \in Tasks /\ phase[drained[s]] = "drained"
       ELSE drained[s] = NoTask
  /\ \A r, s \in Stoppers :
       spc[r] \in {"drain", "cancel"} /\ spc[s] \in {"drain", "cancel"} => r = s
  /\ \A s \in Stoppers : spc[s] # "idle" => stopping_
  /\ stopping_ => \E s \in Stoppers : spc[s] # "idle"
  /\ \A t \in Tasks : phase[t] = "drained" => \E s \in Stoppers : drained[s] = t

(* A task is done exactly when its future or completion has been given its  *)
(* status.                                                                  *)
DoneInv == \A t \in Tasks : phase[t] = "done" <=> outcome[t] # "none"

(* Workers leave only when nothing is queued for them any more, and join()  *)
(* returns only when they have left.                                        *)
ExitInv ==
  /\ \A w \in Workers : wpc[w] = "exited" => stopping_ /\ queued_entries_ = 0
  /\ \A s \in Stoppers : spc[s] = "returned" =>
       \A w \in Workers : wpc[w] = "exited"

IInv ==
  /\ TypeOK /\ QueueInv /\ QueuedIsThere /\ HeldInv /\ DrainInv /\ DoneInv
  /\ EntriesMatch /\ ExitInv

-----------------------------------------------------------------------------
LEMMA IInvInit == Init => IInv
<1> SUFFICES ASSUME Init PROVE IInv
  OBVIOUS
<1>1. TypeOK
  BY TypeInit
<1>2. QueueInv /\ QueuedIsThere /\ EntriesMatch
  <2>1. \A c \in Classes : queues_[c] = <<>> /\ Len(queues_[c]) = 0
    BY DEF Init
  <2>2. ~ Draining
    BY DEF Init, Draining
  <2>3. TotalQueued = 0
    <3>1. Len(queues_[0]) = 0 /\ Len(queues_[1]) = 0 /\ Len(queues_[2]) = 0
      BY <2>1
    <3> QED BY <3>1 DEF TotalQueued
  <2> QED BY <2>1, <2>2, <2>3 DEF Init, QueueInv, QueuedIsThere, EntriesMatch
<1>3. HeldInv /\ DrainInv /\ DoneInv /\ ExitInv
  BY DEF Init, HeldInv, DrainInv, DoneInv, ExitInv
<1> QED BY <1>1, <1>2, <1>3 DEF IInv

(* Steps that touch neither the deques nor the set of queued tasks.         *)
LEMMA QueueUntouched ==
  ASSUME QueueInv, QueuedIsThere, QueuesOK, UNCHANGED queues_,
         \A t \in Tasks : phase'[t] = "queued" <=> phase[t] = "queued"
  PROVE  QueueInv' /\ QueuedIsThere' /\ TotalQueued' = TotalQueued
<1>1. \A c \in Classes : \A i \in 1 .. Len(queues_[c]) : queues_[c][i] \in Tasks
  BY DEF QueuesOK
<1> QED BY <1>1 DEF QueueInv, QueuedIsThere, TotalQueued

(* Pushing a task that is not queued yet at the back of its class.          *)
LEMMA QueuePush ==
  ASSUME QueueInv, QueuedIsThere, QueuesOK, ThreadsOK, NEW t \in Tasks,
         phase[t] # "queued",
         phase' = [phase EXCEPT ![t] = "queued"],
         queues_' = [queues_ EXCEPT ![Cost[t]] = Append(@, t)]
  PROVE  QueueInv' /\ QueuedIsThere' /\ TotalQueued' = TotalQueued + 1
<1>0. /\ Cost[t] \in Classes /\ phase \in [Tasks -> Phases]
      /\ queues_ \in [Classes -> Seq(Tasks)] /\ Cost \in [Tasks -> Classes]
  BY SchedulerAssumption DEF QueuesOK, ThreadsOK
<1> DEFINE q == queues_[Cost[t]]
<1>1. q \in Seq(Tasks) /\ Len(q) \in Nat
  BY <1>0
<1>2. /\ queues_'[Cost[t]] = Append(q, t)
      /\ Len(Append(q, t)) = Len(q) + 1
      /\ Append(q, t)[Len(q) + 1] = t
      /\ \A i \in 1 .. Len(q) : Append(q, t)[i] = q[i]
  BY <1>0, <1>1
<1>3. \A c \in Classes \ {Cost[t]} : queues_'[c] = queues_[c]
  BY <1>0
<1>4. \A c \in Classes : \A i \in 1 .. Len(queues_[c]) :
        queues_[c][i] \in Tasks /\ queues_[c][i] # t
  BY <1>0 DEF QueueInv
<1>5. QueueInv'
  <2> SUFFICES ASSUME NEW c \in Classes, NEW i \in 1 .. Len(queues_'[c])
      PROVE  /\ phase'[queues_'[c][i]] = "queued" /\ Cost[queues_'[c][i]] = c
             /\ \A j \in 1 .. Len(queues_'[c]) :
                  queues_'[c][i] = queues_'[c][j] => i = j
    BY DEF QueueInv
  <2>1. CASE c # Cost[t]
    BY <1>0, <1>3, <1>4, <2>1 DEF QueueInv
  <2>2. CASE c = Cost[t] /\ i = Len(q) + 1
    BY <1>0, <1>1, <1>2, <1>4, <2>2
  <2>3. CASE c = Cost[t] /\ i # Len(q) + 1
    <3>1. i \in 1 .. Len(q)
      BY <1>1, <1>2, <2>3
    <3>2. phase'[q[i]] = "queued" /\ Cost[q[i]] = c
      BY <1>0, <1>4, <2>3, <3>1 DEF QueueInv
    <3>3. \A j \in 1 .. Len(q) : q[i] = q[j] => i = j
      BY <2>3, <3>1 DEF QueueInv
    <3> QED BY <1>0, <1>1, <1>2, <1>4, <2>3, <3>1, <3>2, <3>3
  <2> QED BY <2>1, <2>2, <2>3
<1>6. QueuedIsThere'
  <2> SUFFICES ASSUME NEW u \in Tasks, phase'[u] = "queued"
      PROVE  \E i \in 1 .. Len(queues_'[Cost[u]]) : queues_'[Cost[u]][i] = u
    BY DEF QueuedIsThere
  <2>1. CASE u = t
    BY <1>1, <1>2, <2>1
  <2>2. CASE u # t
    <3>1. PICK i \in 1 .. Len(queues_[Cost[u]]) : queues_[Cost[u]][i] = u
      BY <1>0, <2>2 DEF QueuedIsThere
    <3>2. Cost[u] \in Classes
      BY <1>0
    <3> QED BY <1>1, <1>2, <1>3, <3>1, <3>2
  <2> QED BY <2>1, <2>2
<1>7. TotalQueued' = TotalQueued + 1
  <2> DEFINE l(c) == Len(queues_[c])
             m(c) == Len(queues_'[c])
  <2>1. l(0) \in Nat /\ l(1) \in Nat /\ l(2) \in Nat
    BY <1>0
  <2>2. m(Cost[t]) = l(Cost[t]) + 1 /\ \A c \in Classes \ {Cost[t]} : m(c) = l(c)
    BY <1>2, <1>3
  <2>3. TotalQueued = l(0) + l(1) + l(2) /\ TotalQueued' = m(0) + m(1) + m(2)
    BY DEF TotalQueued
  <2> HIDE DEF l, m
  <2>4. CASE Cost[t] = 0
    BY <2>1, <2>2, <2>3, <2>4
  <2>5. CASE Cost[t] = 1
    BY <2>1, <2>2, <2>3, <2>5
  <2>6. CASE Cost[t] = 2
    BY <2>1, <2>2, <2>3, <2>6
  <2> QED BY <1>0, <2>4, <2>5, <2>6
<1> QED BY <1>5, <1>6, <1>7

(* Popping the head of a class and giving it a phase other than queued.     *)
LEMMA QueuePop ==
  ASSUME QueueInv, QueuedIsThere, QueuesOK, ThreadsOK, NEW c \in NonEmpty,
         NEW p, p # "queued",
         phase' = [phase EXCEPT ![Head(queues_[c])] = p],
         queues_' = [queues_ EXCEPT ![c] = Tail(@)]
  PROVE  /\ QueueInv' /\ QueuedIsThere' /\ TotalQueued' = TotalQueued - 1
         /\ Head(queues_[c]) \in Tasks /\ phase[Head(queues_[c])] = "queued"
<1>0. /\ phase \in [Tasks -> Phases] /\ queues_ \in [Classes -> Seq(Tasks)]
      /\ Cost \in [Tasks -> Classes]
  BY SchedulerAssumption DEF QueuesOK, ThreadsOK
<1> DEFINE q == queues_[c]
           h == Head(q)
<1>1. /\ c \in Classes /\ q \in Seq(Tasks) /\ q # <<>> /\ Len(q) \in Nat
      /\ Len(q) >= 1 /\ h = q[1] /\ h \in Tasks
  BY <1>0, PopTypes
<1>2. /\ queues_'[c] = Tail(q) /\ Len(Tail(q)) = Len(q) - 1
      /\ \A i \in 1 .. Len(q) - 1 : Tail(q)[i] = q[i + 1]
  BY <1>0, <1>1
<1>3. \A d \in Classes \ {c} : queues_'[d] = queues_[d]
  BY <1>0
<1>4. phase[h] = "queued" /\ Cost[h] = c
  BY <1>1 DEF QueueInv
<1>5. \A d \in Classes : \A i \in 1 .. Len(queues_[d]) :
        /\ queues_[d][i] \in Tasks
        /\ queues_[d][i] = h => d = c /\ i = 1
  BY <1>0, <1>1, <1>4 DEF QueueInv
<1>6. QueueInv'
  <2> SUFFICES ASSUME NEW d \in Classes, NEW i \in 1 .. Len(queues_'[d])
      PROVE  /\ phase'[queues_'[d][i]] = "queued" /\ Cost[queues_'[d][i]] = d
             /\ \A j \in 1 .. Len(queues_'[d]) :
                  queues_'[d][i] = queues_'[d][j] => i = j
    BY DEF QueueInv
  <2>1. CASE d # c
    BY <1>0, <1>3, <1>5, <2>1 DEF QueueInv
  <2>2. CASE d = c
    <3>0. Len(queues_'[d]) = Len(q) - 1
      BY <1>2, <2>2
    <3>1. i \in 1 .. Len(q) - 1 /\ i + 1 \in 1 .. Len(q)
      BY <1>1, <3>0
    <3>2. phase'[q[i + 1]] = "queued" /\ Cost[q[i + 1]] = c
      BY <1>0, <1>1, <1>5, <3>1 DEF QueueInv
    <3>3. \A j \in 1 .. Len(q) - 1 : q[i + 1] = q[j + 1] => i = j
      <4> SUFFICES ASSUME NEW j \in 1 .. Len(q) - 1, q[i + 1] = q[j + 1] PROVE i = j
        OBVIOUS
      <4>1. j + 1 \in 1 .. Len(q)
        BY <1>1
      <4>2. i + 1 = j + 1
        BY <1>1, <3>1, <4>1 DEF QueueInv
      <4> QED BY <3>1, <4>2
    <3> QED BY <1>1, <1>2, <2>2, <3>1, <3>2, <3>3
  <2> QED BY <2>1, <2>2
<1>7. QueuedIsThere'
  <2> SUFFICES ASSUME NEW u \in Tasks, phase'[u] = "queued"
      PROVE  \E i \in 1 .. Len(queues_'[Cost[u]]) : queues_'[Cost[u]][i] = u
    BY DEF QueuedIsThere
  <2>1. u # h /\ phase[u] = "queued"
    BY <1>0, <1>1
  <2>2. PICK i \in 1 .. Len(queues_[Cost[u]]) : queues_[Cost[u]][i] = u
    BY <2>1 DEF QueuedIsThere
  <2>3. Cost[u] \in Classes
    BY <1>0
  <2>4. CASE Cost[u] # c
    BY <1>3, <2>2, <2>3, <2>4
  <2>5. CASE Cost[u] = c
    <3>1. i # 1
      BY <1>1, <2>1, <2>2, <2>5
    <3>2. i - 1 \in 1 .. Len(q) - 1
      BY <1>1, <2>2, <2>5, <3>1
    <3>3. Tail(q)[i - 1] = u
      BY <1>1, <1>2, <2>2, <2>5, <3>2
    <3> QED BY <1>2, <2>5, <3>2, <3>3
  <2> QED BY <2>4, <2>5
<1>8. TotalQueued' = TotalQueued - 1
  <2> DEFINE l(d) == Len(queues_[d])
             m(d) == Len(queues_'[d])
  <2>1. l(0) \in Nat /\ l(1) \in Nat /\ l(2) \in Nat
    BY <1>0
  <2>2. m(c) = l(c) - 1 /\ \A d \in Classes \ {c} : m(d) = l(d)
    BY <1>2, <1>3
  <2>3. TotalQueued = l(0) + l(1) + l(2) /\ TotalQueued' = m(0) + m(1) + m(2)
    BY DEF TotalQueued
  <2> HIDE DEF l, m
  <2>4. CASE c = 0
    BY <2>1, <2>2, <2>3, <2>4
  <2>5. CASE c = 1
    BY <2>1, <2>2, <2>3, <2>5
  <2>6. CASE c = 2
    BY <2>1, <2>2, <2>3, <2>6
  <2> QED BY <1>1, <2>4, <2>5, <2>6
<1> QED BY <1>1, <1>4, <1>6, <1>7, <1>8

-----------------------------------------------------------------------------
(* The deques and the counter that mirrors them.                           *)
LEMMA QueueStep ==
  IInv /\ [Next]_vars => QueueInv' /\ QueuedIsThere' /\ EntriesMatch'
<1> SUFFICES ASSUME IInv, [Next]_vars
    PROVE QueueInv' /\ QueuedIsThere' /\ EntriesMatch'
  OBVIOUS
<1>0. /\ TypeOK /\ QueueInv /\ QueuedIsThere /\ HeldInv /\ DrainInv /\ EntriesMatch
      /\ QueuesOK /\ ThreadsOK
      /\ phase \in [Tasks -> Phases] /\ spc \in [Stoppers -> StopperPCs]
      /\ queued_entries_ \in Nat
  BY DEF IInv, TypeOK, ThreadsOK, CountersOK
<1> DEFINE Same == /\ UNCHANGED <<queues_, queued_entries_>>
                   /\ \A t \in Tasks : phase'[t] = "queued" <=> phase[t] = "queued"
<1>1. ASSUME Same, Draining' = Draining PROVE QueueInv' /\ QueuedIsThere' /\ EntriesMatch'
  BY <1>0, <1>1, QueueUntouched DEF EntriesMatch
<1>2. ASSUME Same, UNCHANGED spc PROVE QueueInv' /\ QueuedIsThere' /\ EntriesMatch'
  <2>1. Draining' = Draining
    BY <1>2 DEF Draining
  <2> QED BY <1>1, <1>2, <2>1
<1>3. CASE Tick \/ NotifyOne \/ UNCHANGED vars
  BY <1>2, <1>3 DEF Tick, NotifyOne, vars, counters, stoppers
<1>4. ASSUME NEW t \in Tasks, RequestCancellation(t) \/ Stamp(t) \/ Refuse(t)
      PROVE  QueueInv' /\ QueuedIsThere' /\ EntriesMatch'
  BY <1>0, <1>2, <1>4 DEF RequestCancellation, Stamp, Refuse, counters, stoppers
<1>5. ASSUME NEW t \in Tasks, Accept(t) PROVE QueueInv' /\ QueuedIsThere' /\ EntriesMatch'
  <2>1. QueueInv' /\ QueuedIsThere' /\ TotalQueued' = TotalQueued + 1
    BY <1>0, <1>5, QueuePush DEF Accept
  <2>2. ~ stopping_
    BY <1>5 DEF Accept, SubmitStatus
  <2>3. ~ Draining /\ ~ Draining'
    BY <1>0, <1>5, <2>2 DEF Accept, stoppers, Draining, DrainInv
  <2> QED BY <1>0, <1>5, <2>1, <2>3 DEF Accept, EntriesMatch
<1>6. ASSUME NEW w \in Workers, Take(w) PROVE QueueInv' /\ QueuedIsThere' /\ EntriesMatch'
  <2>1. PICK c \in NonEmpty : popLocked(w, c)
    BY <1>6 DEF Take
  <2>2. QueueInv' /\ QueuedIsThere' /\ TotalQueued' = TotalQueued - 1
    BY <1>0, <2>1, QueuePop DEF popLocked
  <2>3. ~ Draining /\ ~ Draining'
    BY <1>0, <1>6 DEF Take, stoppers, Draining, EntriesMatch
  <2> QED BY <1>0, <2>1, <2>2, <2>3 DEF popLocked, EntriesMatch
<1>7. ASSUME NEW w \in Workers, Run(w) \/ CancelTaken(w)
      PROVE  QueueInv' /\ QueuedIsThere' /\ EntriesMatch'
  <2>1. held[w] \in Tasks /\ phase[held[w]] = "taken"
    BY <1>0, <1>7 DEF Run, CancelTaken, HeldInv
  <2>2. Same /\ UNCHANGED spc
    BY <1>0, <1>7, <2>1 DEF Run, CancelTaken, Complete, counters, stoppers
  <2> QED BY <1>2, <2>2
<1>8. ASSUME NEW w \in Workers,
             Wait(w) \/ Exit(w) \/ Start(w) \/ CountCancelled(w) \/ Release(w)
      PROVE  QueueInv' /\ QueuedIsThere' /\ EntriesMatch'
  BY <1>2, <1>8 DEF Wait, Exit, Start, CountCancelled, Release, counters, stoppers
<1>9. ASSUME NEW s \in Stoppers, NEW b \in BOOLEAN, RequestShutdown(s, b)
      PROVE  QueueInv' /\ QueuedIsThere' /\ EntriesMatch'
  <2>1. UNCHANGED <<queues_, phase>>
    BY <1>9 DEF RequestShutdown
  <2>2. QueueInv' /\ QueuedIsThere' /\ TotalQueued' = TotalQueued
    BY <1>0, <2>1, QueueUntouched
  <2>3. ~ Draining
    BY <1>0, <1>9 DEF RequestShutdown, DrainInv, Draining
  <2>4. CASE b
    BY <1>0, <1>9, <2>2, <2>4 DEF RequestShutdown, Draining, EntriesMatch
  <2>5. CASE ~ b
    <3>1. ~ Draining'
      BY <1>0, <1>9, <2>3, <2>5 DEF RequestShutdown, Draining
    <3> QED BY <1>9, <1>0, <2>2, <2>3, <2>5, <3>1 DEF RequestShutdown, EntriesMatch
  <2> QED BY <2>4, <2>5
<1>10. ASSUME NEW s \in Stoppers, DrainOne(s)
       PROVE  QueueInv' /\ QueuedIsThere' /\ EntriesMatch'
  <2>1. PICK c \in NonEmpty :
          /\ phase' = [phase EXCEPT ![Head(queues_[c])] = "drained"]
          /\ queues_' = [queues_ EXCEPT ![c] = Tail(@)]
    BY <1>10 DEF DrainOne
  <2>2. QueueInv' /\ QueuedIsThere'
    BY <1>0, <2>1, QueuePop
  <2>3. Draining /\ Draining' /\ UNCHANGED queued_entries_
    BY <1>0, <1>10 DEF DrainOne, Draining, counters
  <2> QED BY <1>0, <2>2, <2>3 DEF EntriesMatch
<1>11. ASSUME NEW s \in Stoppers, CancelDrained(s)
       PROVE  QueueInv' /\ QueuedIsThere' /\ EntriesMatch'
  <2>1. drained[s] \in Tasks /\ phase[drained[s]] = "drained"
    BY <1>0, <1>11 DEF CancelDrained, DrainInv
  <2>2. Same /\ Draining /\ Draining'
    BY <1>0, <1>11, <2>1 DEF CancelDrained, Draining, counters
  <2> QED BY <1>1, <2>2
<1>12. ASSUME NEW s \in Stoppers, DrainDone(s)
       PROVE  QueueInv' /\ QueuedIsThere' /\ EntriesMatch'
  <2>1. UNCHANGED <<queues_, phase, queued_entries_>>
    BY <1>12 DEF DrainDone, counters
  <2>2. QueueInv' /\ QueuedIsThere' /\ TotalQueued' = TotalQueued
    BY <1>0, <2>1, QueueUntouched
  <2>3. TotalQueued = 0
    <3>1. \A c \in Classes : queues_[c] = <<>>
      BY <1>12 DEF DrainDone, NonEmpty
    <3>2. Len(queues_[0]) = 0 /\ Len(queues_[1]) = 0 /\ Len(queues_[2]) = 0
      BY <3>1
    <3> QED BY <3>2 DEF TotalQueued
  <2>4. queued_entries_ = 0
    BY <1>0, <1>12 DEF DrainDone, Draining, EntriesMatch
  <2> QED BY <2>1, <2>2, <2>3, <2>4 DEF EntriesMatch
<1>13. ASSUME NEW s \in Stoppers, ShutdownAgain(s) \/ NotifyAll(s) \/ Join(s)
       PROVE  QueueInv' /\ QueuedIsThere' /\ EntriesMatch'
  <2>1. Same
    BY <1>13 DEF ShutdownAgain, NotifyAll, Join, counters
  <2>2. \A r \in Stoppers : spc'[r] \in {"drain", "cancel"} <=> spc[r] \in {"drain", "cancel"}
    BY <1>0, <1>13 DEF ShutdownAgain, NotifyAll, Join
  <2>3. Draining' = Draining
    BY <2>2 DEF Draining
  <2> QED BY <1>1, <2>1, <2>3
<1> QED BY <1>3, <1>4, <1>5, <1>6, <1>7, <1>8, <1>9, <1>10, <1>11, <1>12, <1>13
        DEF Next, Submitter, Worker, Stopper

-----------------------------------------------------------------------------
(* The tasks in workers' hands.                                            *)
LEMMA HeldStep == IInv /\ [Next]_vars => HeldInv'
<1> SUFFICES ASSUME IInv, [Next]_vars PROVE HeldInv'
  OBVIOUS
<1>0. /\ QueueInv /\ QueuedIsThere /\ HeldInv /\ DrainInv /\ QueuesOK /\ ThreadsOK
      /\ phase \in [Tasks -> Phases] /\ wpc \in [Workers -> WorkerPCs]
      /\ held \in [Workers -> Tasks \cup {NoTask}]
      /\ NoTask \notin Tasks
  BY SchedulerAssumption DEF IInv, TypeOK, ThreadsOK
<1> DEFINE Busy(w) == wpc[w] \in {"holding", "running"}
           SamePhase == \A t \in Tasks : phase'[t] = "taken" <=> phase[t] = "taken"
<1>1. ASSUME UNCHANGED held, SamePhase, \A w \in Workers : Busy(w)' <=> Busy(w)
      PROVE  HeldInv'
  BY <1>0, <1>1 DEF HeldInv
<1>2. CASE Tick \/ UNCHANGED vars
  BY <1>1, <1>2 DEF Tick, vars, workers
<1>3. CASE NotifyOne
  BY <1>0, <1>1, <1>3 DEF NotifyOne
<1>4. ASSUME NEW t \in Tasks, RequestCancellation(t) \/ Submitter(t) PROVE HeldInv'
  BY <1>0, <1>1, <1>4 DEF RequestCancellation, Submitter, Stamp, Accept, Refuse, workers
<1>5. ASSUME NEW w \in Workers, Take(w) PROVE HeldInv'
  <2>1. PICK c \in NonEmpty : popLocked(w, c)
    BY <1>5 DEF Take
  <2> DEFINE h == Head(queues_[c])
  <2>2. h \in Tasks /\ phase[h] = "queued"
    BY <1>0, <2>1, QueuePop DEF popLocked
  <2>3. /\ held' = [held EXCEPT ![w] = h] /\ phase' = [phase EXCEPT ![h] = "taken"]
        /\ wpc' = [wpc EXCEPT ![w] = "holding"] /\ ~ Busy(w)
    BY <1>5, <2>1 DEF popLocked, Take
  <2>4. held[w] = NoTask /\ \A v \in Workers : held[v] # h
    BY <1>0, <2>2, <2>3 DEF HeldInv
  <2> HIDE DEF h
  <2> QED BY <1>0, <2>2, <2>3, <2>4 DEF HeldInv
<1>6. ASSUME NEW w \in Workers, Run(w) \/ CancelTaken(w) PROVE HeldInv'
  <2>1. Busy(w) /\ held[w] \in Tasks /\ phase[held[w]] = "taken"
    BY <1>0, <1>6 DEF Run, CancelTaken, HeldInv
  <2>2. /\ held' = [held EXCEPT ![w] = NoTask]
        /\ phase' = [phase EXCEPT ![held[w]] = "done"]
    BY <1>6 DEF Run, CancelTaken, Complete
  <2>3. wpc' = [wpc EXCEPT ![w] = "release"] \/ wpc' = [wpc EXCEPT ![w] = "count"]
    BY <1>6 DEF Run, CancelTaken, Complete
  <2> QED BY <1>0, <2>1, <2>2, <2>3 DEF HeldInv
<1>7. ASSUME NEW w \in Workers,
             Wait(w) \/ Exit(w) \/ Start(w) \/ CountCancelled(w) \/ Release(w)
      PROVE  HeldInv'
  BY <1>0, <1>1, <1>7 DEF Wait, Exit, Start, CountCancelled, Release
<1>8. ASSUME NEW s \in Stoppers, DrainOne(s) PROVE HeldInv'
  <2>1. PICK c \in NonEmpty :
          /\ phase' = [phase EXCEPT ![Head(queues_[c])] = "drained"]
          /\ queues_' = [queues_ EXCEPT ![c] = Tail(@)]
    BY <1>8 DEF DrainOne
  <2>2. Head(queues_[c]) \in Tasks /\ phase[Head(queues_[c])] = "queued"
    BY <1>0, <2>1, QueuePop
  <2> QED BY <1>0, <1>1, <1>8, <2>1, <2>2 DEF DrainOne, workers
<1>9. ASSUME NEW s \in Stoppers, CancelDrained(s) PROVE HeldInv'
  BY <1>0, <1>1, <1>9 DEF CancelDrained, DrainInv, workers
<1>10. ASSUME NEW s \in Stoppers, NEW b \in BOOLEAN,
              RequestShutdown(s, b) \/ ShutdownAgain(s) \/ DrainDone(s) \/ Join(s)
       PROVE  HeldInv'
  BY <1>1, <1>10 DEF RequestShutdown, ShutdownAgain, DrainDone, Join, workers
<1>11. ASSUME NEW s \in Stoppers, NotifyAll(s) PROVE HeldInv'
  BY <1>0, <1>1, <1>11 DEF NotifyAll
<1> QED BY <1>2, <1>3, <1>4, <1>5, <1>6, <1>7, <1>8, <1>9, <1>10, <1>11
        DEF Next, Worker, Stopper

(* The task in the hands of the thread that shuts down.                     *)
LEMMA DrainStep == IInv /\ [Next]_vars => DrainInv'
<1> SUFFICES ASSUME IInv, [Next]_vars PROVE DrainInv'
  OBVIOUS
<1>0. /\ QueueInv /\ QueuedIsThere /\ HeldInv /\ DrainInv /\ QueuesOK /\ ThreadsOK
      /\ phase \in [Tasks -> Phases] /\ spc \in [Stoppers -> StopperPCs]
      /\ drained \in [Stoppers -> Tasks \cup {NoTask}]
      /\ NoTask \notin Tasks
  BY SchedulerAssumption DEF IInv, TypeOK, ThreadsOK
<1> DEFINE SamePhase == \A t \in Tasks : phase'[t] = "drained" <=> phase[t] = "drained"
<1>1. ASSUME UNCHANGED <<spc, drained, stopping_>>, SamePhase PROVE DrainInv'
  BY <1>0, <1>1 DEF DrainInv
<1>2. CASE Tick \/ NotifyOne \/ UNCHANGED vars
  BY <1>1, <1>2 DEF Tick, NotifyOne, vars, stoppers
<1>3. ASSUME NEW t \in Tasks, RequestCancellation(t) \/ Submitter(t) PROVE DrainInv'
  BY <1>0, <1>1, <1>3 DEF RequestCancellation, Submitter, Stamp, Accept, Refuse, stoppers
<1>4. ASSUME NEW w \in Workers, Take(w) PROVE DrainInv'
  <2>1. PICK c \in NonEmpty : popLocked(w, c)
    BY <1>4 DEF Take
  <2>2. Head(queues_[c]) \in Tasks /\ phase[Head(queues_[c])] = "queued"
    BY <1>0, <2>1, QueuePop DEF popLocked
  <2> QED BY <1>0, <1>1, <1>4, <2>1, <2>2 DEF Take, popLocked, stoppers
<1>5. ASSUME NEW w \in Workers, Run(w) \/ CancelTaken(w) PROVE DrainInv'
  BY <1>0, <1>1, <1>5 DEF Run, CancelTaken, Complete, HeldInv, stoppers
<1>6. ASSUME NEW w \in Workers,
             Wait(w) \/ Exit(w) \/ Start(w) \/ CountCancelled(w) \/ Release(w)
      PROVE  DrainInv'
  BY <1>1, <1>6 DEF Wait, Exit, Start, CountCancelled, Release, stoppers
<1>7. ASSUME NEW s \in Stoppers, NEW b \in BOOLEAN, RequestShutdown(s, b)
      PROVE  DrainInv'
  <2>1. \A r \in Stoppers : spc[r] = "idle"
    BY <1>0, <1>7 DEF RequestShutdown, DrainInv
  <2>2. spc' = [spc EXCEPT ![s] = "drain"] \/ spc' = [spc EXCEPT ![s] = "notify"]
    BY <1>7 DEF RequestShutdown
  <2>3. stopping_' /\ UNCHANGED <<phase, drained>>
    BY <1>7 DEF RequestShutdown
  <2> QED BY <1>0, <2>1, <2>2, <2>3 DEF DrainInv
<1>8. ASSUME NEW s \in Stoppers, DrainOne(s) PROVE DrainInv'
  <2>1. PICK c \in NonEmpty :
          /\ drained' = [drained EXCEPT ![s] = Head(queues_[c])]
          /\ phase' = [phase EXCEPT ![Head(queues_[c])] = "drained"]
          /\ queues_' = [queues_ EXCEPT ![c] = Tail(@)]
    BY <1>8 DEF DrainOne
  <2> DEFINE h == Head(queues_[c])
  <2>2. h \in Tasks /\ phase[h] = "queued"
    BY <1>0, <2>1, QueuePop
  <2>3. /\ drained' = [drained EXCEPT ![s] = h]
        /\ phase' = [phase EXCEPT ![h] = "drained"]
        /\ spc' = [spc EXCEPT ![s] = "cancel"] /\ spc[s] = "drain"
        /\ UNCHANGED stopping_
    BY <1>8, <2>1 DEF DrainOne
  <2> HIDE DEF h
  <2>4. drained[s] = NoTask
    BY <1>0, <2>3 DEF DrainInv
  <2> QED BY <1>0, <2>2, <2>3, <2>4 DEF DrainInv
<1>9. ASSUME NEW s \in Stoppers, CancelDrained(s) PROVE DrainInv'
  <2>1. drained[s] \in Tasks /\ phase[drained[s]] = "drained"
    BY <1>0, <1>9 DEF CancelDrained, DrainInv
  <2>2. /\ drained' = [drained EXCEPT ![s] = NoTask]
        /\ phase' = [phase EXCEPT ![drained[s]] = "done"]
        /\ spc' = [spc EXCEPT ![s] = "drain"] /\ spc[s] = "cancel"
        /\ UNCHANGED stopping_
    BY <1>9 DEF CancelDrained
  <2>3. \A r \in Stoppers \ {s} : drained[r] = NoTask
    BY <1>0, <2>2 DEF DrainInv
  <2> QED BY <1>0, <2>1, <2>2, <2>3 DEF DrainInv
<1>10. ASSUME NEW s \in Stoppers, ShutdownAgain(s) \/ DrainDone(s) \/ NotifyAll(s) \/ Join(s)
       PROVE  DrainInv'
  <2>1. /\ UNCHANGED <<phase, drained, stopping_>> /\ stopping_ /\ spc[s] # "cancel"
        /\ \/ spc' = [spc EXCEPT ![s] = "join"]
           \/ spc' = [spc EXCEPT ![s] = "notify"]
           \/ spc' = [spc EXCEPT ![s] = "returned"]
    BY <1>0, <1>10 DEF ShutdownAgain, DrainDone, NotifyAll, Join, DrainInv
  <2> QED BY <1>0, <2>1 DEF DrainInv
<1> QED BY <1>2, <1>3, <1>4, <1>5, <1>6, <1>7, <1>8, <1>9, <1>10
        DEF Next, Worker, Stopper

-----------------------------------------------------------------------------
(* Completions, and the workers' exit.                                     *)
LEMMA DoneStep == IInv /\ [Next]_vars => DoneInv'
<1> SUFFICES ASSUME IInv, [Next]_vars PROVE DoneInv'
  OBVIOUS
<1>0. /\ QueueInv /\ QueuedIsThere /\ HeldInv /\ DrainInv /\ DoneInv /\ QueuesOK
      /\ ThreadsOK /\ phase \in [Tasks -> Phases] /\ outcome \in [Tasks -> Outcomes]
  BY DEF IInv, TypeOK, ThreadsOK
<1>1. ASSUME UNCHANGED outcome,
             \A t \in Tasks : phase'[t] = "done" <=> phase[t] = "done"
      PROVE  DoneInv'
  BY <1>1, <1>0 DEF DoneInv
<1>2. ASSUME NEW t \in Tasks, NEW o \in Outcomes, o # "none",
             outcome' = [outcome EXCEPT ![t] = o],
             phase' = [phase EXCEPT ![t] = "done"]
      PROVE  DoneInv'
  BY <1>2, <1>0 DEF DoneInv
<1>3. CASE Tick \/ NotifyOne \/ UNCHANGED vars
  BY <1>1, <1>3 DEF Tick, NotifyOne, vars
<1>4. ASSUME NEW t \in Tasks, RequestCancellation(t) \/ Stamp(t) \/ Accept(t)
      PROVE  DoneInv'
  BY <1>0, <1>1, <1>4 DEF RequestCancellation, Stamp, Accept
<1>5. ASSUME NEW t \in Tasks, Refuse(t) PROVE DoneInv'
  <2>1. SubmitStatus(t) \in Outcomes /\ SubmitStatus(t) # "none"
    BY DEF SubmitStatus, Outcomes, Reasons
  <2> QED BY <1>2, <1>5, <2>1 DEF Refuse
<1>6. ASSUME NEW w \in Workers, Take(w) PROVE DoneInv'
  <2>1. PICK c \in NonEmpty : popLocked(w, c)
    BY <1>6 DEF Take
  <2>2. Head(queues_[c]) \in Tasks /\ phase[Head(queues_[c])] = "queued"
    BY <1>0, <2>1, QueuePop DEF popLocked
  <2> QED BY <1>0, <1>1, <1>6, <2>1, <2>2 DEF Take, popLocked
<1>7. ASSUME NEW w \in Workers, Run(w) \/ CancelTaken(w) PROVE DoneInv'
  <2>1. held[w] \in Tasks
    BY <1>0, <1>7 DEF Run, CancelTaken, HeldInv
  <2>2. PICK o \in {"Accepted", "Cancelled", "Deadline"} :
          /\ outcome' = [outcome EXCEPT ![held[w]] = o]
          /\ phase' = [phase EXCEPT ![held[w]] = "done"]
    BY <1>7 DEF Run, CancelTaken, Complete
  <2>3. o \in Outcomes /\ o # "none"
    BY DEF Outcomes, Reasons
  <2> QED BY <1>2, <2>1, <2>2, <2>3
<1>8. ASSUME NEW w \in Workers,
             Wait(w) \/ Exit(w) \/ Start(w) \/ CountCancelled(w) \/ Release(w)
      PROVE  DoneInv'
  BY <1>1, <1>8 DEF Wait, Exit, Start, CountCancelled, Release
<1>9. ASSUME NEW s \in Stoppers, DrainOne(s) PROVE DoneInv'
  <2>1. PICK c \in NonEmpty :
          /\ phase' = [phase EXCEPT ![Head(queues_[c])] = "drained"]
          /\ queues_' = [queues_ EXCEPT ![c] = Tail(@)]
    BY <1>9 DEF DrainOne
  <2>2. Head(queues_[c]) \in Tasks /\ phase[Head(queues_[c])] = "queued"
    BY <1>0, <2>1, QueuePop
  <2> QED BY <1>0, <1>1, <1>9, <2>1, <2>2 DEF DrainOne
<1>10. ASSUME NEW s \in Stoppers, CancelDrained(s) PROVE DoneInv'
  <2>1. drained[s] \in Tasks
    BY <1>0, <1>10 DEF CancelDrained, DrainInv
  <2>2. "Stopping" \in Outcomes
    BY DEF Outcomes, Reasons
  <2> QED BY <1>2, <1>10, <2>1, <2>2 DEF CancelDrained
<1>11. ASSUME NEW s \in Stoppers, NEW b \in BOOLEAN,
              \/ RequestShutdown(s, b) \/ ShutdownAgain(s) \/ DrainDone(s)
              \/ NotifyAll(s) \/ Join(s)
       PROVE  DoneInv'
  BY <1>1, <1>11 DEF RequestShutdown, ShutdownAgain, DrainDone, NotifyAll, Join
<1> QED BY <1>3, <1>4, <1>5, <1>6, <1>7, <1>8, <1>9, <1>10, <1>11
        DEF Next, Submitter, Worker, Stopper

LEMMA ExitStep == IInv /\ [Next]_vars => ExitInv'
<1> SUFFICES ASSUME IInv, [Next]_vars PROVE ExitInv'
  OBVIOUS
<1>0. /\ ExitInv /\ wpc \in [Workers -> WorkerPCs] /\ spc \in [Stoppers -> StopperPCs]
      /\ DrainInv
  BY DEF IInv, TypeOK, ThreadsOK
<1> USE DEF ExitInv
<1>1. CASE Tick \/ NotifyOne \/ UNCHANGED vars
  BY <1>0, <1>1 DEF Tick, NotifyOne, vars, workers, stoppers, counters
<1>2. ASSUME NEW t \in Tasks, RequestCancellation(t) \/ Stamp(t) \/ Refuse(t)
      PROVE  ExitInv'
  BY <1>0, <1>2 DEF RequestCancellation, Stamp, Refuse, workers, stoppers, counters
<1>3. ASSUME NEW t \in Tasks, Accept(t) PROVE ExitInv'
  <2>1. ~ stopping_
    BY <1>3 DEF Accept, SubmitStatus
  <2> QED BY <1>0, <1>3, <2>1 DEF Accept, workers, stoppers
<1>4. ASSUME NEW w \in Workers, Take(w) PROVE ExitInv'
  BY <1>0, <1>4 DEF Take, stoppers
<1>5. ASSUME NEW w \in Workers, Run(w) \/ CancelTaken(w) PROVE ExitInv'
  BY <1>0, <1>5 DEF Run, CancelTaken, Complete, stoppers, counters
<1>6. ASSUME NEW w \in Workers,
             Wait(w) \/ Exit(w) \/ Start(w) \/ CountCancelled(w) \/ Release(w)
      PROVE  ExitInv'
  BY <1>0, <1>6 DEF Wait, Exit, Start, CountCancelled, Release, stoppers, counters
<1>7. ASSUME NEW s \in Stoppers, NEW b \in BOOLEAN, RequestShutdown(s, b)
      PROVE  ExitInv'
  BY <1>0, <1>7 DEF RequestShutdown, workers
<1>8. ASSUME NEW s \in Stoppers,
             \/ ShutdownAgain(s) \/ DrainOne(s) \/ CancelDrained(s) \/ DrainDone(s)
             \/ NotifyAll(s) \/ Join(s)
      PROVE  ExitInv'
  BY <1>0, <1>8 DEF ShutdownAgain, DrainOne, CancelDrained, DrainDone, NotifyAll, Join,
                    workers, counters
<1> QED BY <1>1, <1>2, <1>3, <1>4, <1>5, <1>6, <1>7, <1>8
        DEF Next, Submitter, Worker, Stopper

-----------------------------------------------------------------------------
(* The theorems.                                                           *)

(* The inductive invariant holds of every behaviour of the scheduler.       *)
THEOREM IInvHolds == Spec => []IInv
<1>1. IInv /\ [Next]_vars => IInv'
  <2> SUFFICES ASSUME IInv, [Next]_vars PROVE IInv'
    OBVIOUS
  <2>1. TypeOK'
    BY CountersStep, QueuesStep, PolicyStep, ClockStep, ThreadsStep DEF IInv, TypeOK
  <2> QED BY <2>1, QueueStep, HeldStep, DrainStep, DoneStep, ExitStep DEF IInv
<1> QED BY IInvInit, <1>1, PTL DEF Spec

(* queued_entries_ always mirrors the deques, so that a worker that sees it *)
(* non-zero finds a task (AttemptFindsQueue), and one that sees zero has    *)
(* nothing to do.                                                           *)
THEOREM EntriesCorrect == Spec => []EntriesMatch
<1>1. IInv => EntriesMatch
  BY DEF IInv
<1> QED BY IInvHolds, <1>1, PTL

(* Admission keeps both limits for every interleaving, any task sizes and   *)
(* any limits.                                                              *)
THEOREM LimitsHold == Spec => []WithinLimits
<1>1. Init => WithinLimits
  BY SchedulerAssumption DEF Init, WithinLimits
<1>2. TypeOK /\ WithinLimits /\ [Next]_vars => WithinLimits'
  <2> SUFFICES ASSUME TypeOK, WithinLimits, [Next]_vars PROVE WithinLimits'
    OBVIOUS
  <2>0. /\ queued_entries_ \in Nat /\ queued_bytes_ \in Int
        /\ max_entries_ \in Nat \ {0} /\ max_bytes_ \in Nat \ {0}
        /\ Bytes \in [Tasks -> Nat] /\ QueuesOK
    BY SchedulerAssumption DEF TypeOK, CountersOK
  <2>1. CASE UNCHANGED <<queued_entries_, queued_bytes_>>
    BY <2>1 DEF WithinLimits
  <2>2. ASSUME NEW t \in Tasks, Accept(t) PROVE WithinLimits'
    <3>1. /\ ~ (queued_entries_ >= max_entries_)
          /\ ~ (queued_bytes_ > max_bytes_ - Bytes[t])
      BY <2>2 DEF Accept, SubmitStatus
    <3>2. Bytes[t] \in Nat
      BY <2>0
    <3>3. queued_entries_' = queued_entries_ + 1 /\ queued_bytes_' = queued_bytes_ + Bytes[t]
      BY <2>2 DEF Accept
    <3> QED BY <2>0, <3>1, <3>2, <3>3 DEF WithinLimits
  <2>3. ASSUME NEW w \in Workers, Take(w) PROVE WithinLimits'
    <3>1. PICK c \in NonEmpty : popLocked(w, c)
      BY <2>3 DEF Take
    <3>2. Bytes[Head(queues_[c])] \in Nat
      BY <2>0, PopTypes
    <3>3. /\ queued_entries_' = queued_entries_ - 1
          /\ queued_bytes_' = queued_bytes_ - Bytes[Head(queues_[c])]
      BY <3>1 DEF popLocked
    <3> QED BY <2>0, <3>2, <3>3 DEF WithinLimits
  <2>4. ASSUME NEW s \in Stoppers, NEW b \in BOOLEAN, RequestShutdown(s, b)
        PROVE  WithinLimits'
    BY <2>0, <2>4 DEF RequestShutdown, WithinLimits
  <2>5. \/ UNCHANGED <<queued_entries_, queued_bytes_>>
        \/ \E t \in Tasks : Accept(t)
        \/ \E w \in Workers : Take(w)
        \/ \E s \in Stoppers, b \in BOOLEAN : RequestShutdown(s, b)
    BY DEF Next, vars, counters, Tick, NotifyOne, RequestCancellation, Submitter, Stamp,
           Refuse, Worker, Wait, Exit, Start, Run, CancelTaken, Complete,
           CountCancelled, Release, Stopper, ShutdownAgain, DrainOne, CancelDrained,
           DrainDone, NotifyAll, Join
  <2> QED BY <2>1, <2>2, <2>3, <2>4, <2>5
<1> QED BY TypeCorrect, <1>1, <1>2, PTL DEF Spec

(* No promise or completion is ever settled twice: neither a worker racing  *)
(* another worker, nor a worker racing a shutdown, nor a refusal.           *)
THEOREM SettlesOnce == Spec => SettledOnce
<1>1. IInv /\ [Next]_vars =>
        [\A t \in Tasks : outcome[t] # "none" => outcome'[t] = outcome[t]]_vars
  <2> SUFFICES ASSUME IInv, [Next]_vars, NEW t \in Tasks, outcome[t] # "none"
      PROVE outcome'[t] = outcome[t]
    OBVIOUS
  <2>0. /\ HeldInv /\ DrainInv /\ phase[t] = "done" /\ outcome \in [Tasks -> Outcomes]
    BY DEF IInv, DoneInv, TypeOK, ThreadsOK
  <2>1. ASSUME NEW u \in Tasks, Refuse(u) PROVE outcome'[t] = outcome[t]
    BY <2>0, <2>1 DEF Refuse
  <2>2. ASSUME NEW w \in Workers, Run(w) \/ CancelTaken(w) PROVE outcome'[t] = outcome[t]
    <3>1. phase[held[w]] = "taken"
      BY <2>0, <2>2 DEF Run, CancelTaken, HeldInv
    <3>2. \E o \in {"Accepted", "Cancelled", "Deadline"} :
            outcome' = [outcome EXCEPT ![held[w]] = o]
      BY <2>2 DEF Run, CancelTaken, Complete
    <3> QED BY <2>0, <3>1, <3>2
  <2>3. ASSUME NEW s \in Stoppers, CancelDrained(s) PROVE outcome'[t] = outcome[t]
    <3>1. phase[drained[s]] = "drained"
      BY <2>0, <2>3 DEF CancelDrained, DrainInv
    <3> QED BY <2>0, <2>3, <3>1 DEF CancelDrained
  <2>4. \/ UNCHANGED outcome \/ \E u \in Tasks : Refuse(u)
        \/ \E w \in Workers : Run(w) \/ CancelTaken(w)
        \/ \E s \in Stoppers : CancelDrained(s)
    BY DEF Next, vars, Tick, NotifyOne, RequestCancellation, Submitter, Stamp, Accept,
           Worker, Wait, Exit, Take, Start, CountCancelled, Release, Stopper,
           RequestShutdown, ShutdownAgain, DrainOne, DrainDone, NotifyAll, Join
  <2> QED BY <2>1, <2>2, <2>3, <2>4
<1> QED BY IInvHolds, <1>1, PTL DEF Spec, SettledOnce

(* Once a cancelling shutdown has begun, no worker takes what is still in   *)
(* the deques.                                                              *)
THEOREM DrainExclusive == Spec => DrainIsExclusive
<1>1. IInv /\ [Next]_vars =>
        [Draining => \A t \in QueuedTasks : phase'[t] \in {"queued", "drained"}]_vars
  <2> SUFFICES ASSUME IInv, [Next]_vars, Draining, NEW t \in QueuedTasks
      PROVE phase'[t] \in {"queued", "drained"}
    OBVIOUS
  <2>0. /\ HeldInv /\ DrainInv /\ QueuesOK /\ queued_entries_ = 0
        /\ t \in Tasks /\ phase[t] = "queued" /\ phase \in [Tasks -> Phases]
    BY DEF IInv, TypeOK, ThreadsOK, EntriesMatch, QueuedTasks
  <2>1. ASSUME NEW u \in Tasks, Submitter(u) PROVE phase'[t] \in {"queued", "drained"}
    BY <2>0, <2>1 DEF Submitter, Stamp, Accept, Refuse
  <2>2. ASSUME NEW w \in Workers, Run(w) \/ CancelTaken(w)
        PROVE phase'[t] \in {"queued", "drained"}
    <3>1. phase[held[w]] = "taken" /\ phase' = [phase EXCEPT ![held[w]] = "done"]
      BY <2>0, <2>2 DEF Run, CancelTaken, Complete, HeldInv
    <3> QED BY <2>0, <3>1
  <2>3. ASSUME NEW s \in Stoppers, DrainOne(s) PROVE phase'[t] \in {"queued", "drained"}
    BY <2>0, <2>3 DEF DrainOne
  <2>4. ASSUME NEW s \in Stoppers, CancelDrained(s) PROVE phase'[t] \in {"queued", "drained"}
    <3>1. phase[drained[s]] = "drained"
      BY <2>0, <2>4 DEF CancelDrained, DrainInv
    <3> QED BY <2>0, <2>4, <3>1 DEF CancelDrained
  <2>5. \/ UNCHANGED phase \/ \E u \in Tasks : Submitter(u)
        \/ \E w \in Workers : Run(w) \/ CancelTaken(w)
        \/ \E s \in Stoppers : DrainOne(s) \/ CancelDrained(s)
    BY <2>0 DEF Next, vars, Tick, NotifyOne, RequestCancellation, Worker, Wait, Exit,
           Take, Start, CountCancelled, Release, Stopper, RequestShutdown,
           ShutdownAgain, DrainDone, NotifyAll, Join
  <2> QED BY <2>0, <2>1, <2>2, <2>3, <2>4, <2>5
<1> QED BY IInvHolds, <1>1, PTL DEF Spec, DrainIsExclusive

(* When all callers of shutdown() are back, every worker is gone and every  *)
(* accepted task has been given its outcome.                                *)
THEOREM ShutdownSettles == Spec => []ShutdownSettlesAll
<1>1. IInv => ShutdownSettlesAll
  <2> SUFFICES ASSUME IInv, stopping_,
                      \A s \in Stoppers : spc[s] \in {"idle", "returned"}
      PROVE /\ \A w \in Workers : wpc[w] = "exited"
            /\ \A t \in Tasks : phase[t] \in {"new", "stamped", "done"}
    BY DEF ShutdownSettlesAll
  <2>1. \A w \in Workers : wpc[w] = "exited"
    BY DEF IInv, DrainInv, ExitInv
  <2>2. queued_entries_ = 0 /\ ~ Draining
    BY <2>1, SchedulerAssumption DEF IInv, ExitInv, Draining
  <2>3. TotalQueued = 0
    BY <2>2 DEF IInv, EntriesMatch
  <2>4. \A c \in Classes : Len(queues_[c]) = 0
    <3> DEFINE l(c) == Len(queues_[c])
    <3>1. l(0) \in Nat /\ l(1) \in Nat /\ l(2) \in Nat
      BY DEF IInv, TypeOK, QueuesOK
    <3>2. l(0) + l(1) + l(2) = 0
      BY <2>3 DEF TotalQueued
    <3> HIDE DEF l
    <3>3. l(0) = 0 /\ l(1) = 0 /\ l(2) = 0
      BY <3>1, <3>2
    <3> QED BY <3>3 DEF l
  <2>5. ASSUME NEW t \in Tasks PROVE phase[t] \in {"new", "stamped", "done"}
    <3>1. phase[t] \in Phases
      BY DEF IInv, TypeOK, ThreadsOK
    <3>2. phase[t] # "queued"
      <4>1. Cost[t] \in Classes
        BY SchedulerAssumption
      <4> QED BY <2>4, <4>1 DEF IInv, QueuedIsThere
    <3>3. phase[t] # "taken"
      BY <2>1, SchedulerAssumption DEF IInv, HeldInv
    <3>4. phase[t] # "drained"
      BY SchedulerAssumption DEF IInv, DrainInv
    <3> QED BY <3>1, <3>2, <3>3, <3>4 DEF Phases
  <2> QED BY <2>1, <2>5
<1> QED BY IInvHolds, <1>1, PTL

-----------------------------------------------------------------------------
(* Ownership.                                                              *)

(* No deque is longer than the entry limit, also while it is emptied.       *)
Short == \A c \in Classes : Len(queues_[c]) <= max_entries_

(* What appending to a deque does to its length.                            *)
LEMMA Lengths ==
  ASSUME NEW q \in Seq(Tasks), NEW t \in Tasks
  PROVE  Len(q) \in Nat /\ Len(Append(q, t)) = Len(q) + 1
  OBVIOUS

(* Admission counts the tasks of all the deques together.                   *)
THEOREM DequesShort == Spec => []Short
<1>1. Init => Short
  <2> SUFFICES ASSUME Init, NEW c \in Classes PROVE Len(queues_[c]) <= max_entries_
    BY DEF Short
  <2>1. Len(queues_[c]) = 0
    BY DEF Init
  <2> QED BY <2>1, SchedulerAssumption
<1>2. IInv /\ Short /\ [Next]_vars => Short'
  <2> SUFFICES ASSUME IInv, Short, [Next]_vars PROVE Short'
    OBVIOUS
  <2>0. /\ queues_ \in [Classes -> Seq(Tasks)] /\ Cost \in [Tasks -> Classes]
        /\ max_entries_ \in Nat /\ queued_entries_ \in Nat
    BY SchedulerAssumption DEF IInv, TypeOK, QueuesOK, CountersOK
  <2>1. CASE UNCHANGED queues_
    BY <2>1 DEF Short
  <2>2. ASSUME NEW t \in Tasks, Accept(t) PROVE Short'
    <3>1. queued_entries_ < max_entries_ /\ ~ stopping_
      BY <2>0, <2>2 DEF Accept, SubmitStatus
    <3>2. ~ Draining
      BY <3>1 DEF IInv, DrainInv, Draining
    <3>3. Len(queues_[0]) + Len(queues_[1]) + Len(queues_[2]) < max_entries_
      BY <3>1, <3>2 DEF IInv, EntriesMatch, TotalQueued
    <3>4. \A c \in Classes : Len(queues_[c]) \in Nat
      BY <2>0
    <3>5. \A c \in Classes : Len(queues_[c]) + 1 <= max_entries_
      BY <2>0, <3>3, <3>4
    <3>6. queues_' = [queues_ EXCEPT ![Cost[t]] = Append(@, t)] /\ Cost[t] \in Classes
      BY <2>0, <2>2 DEF Accept
    <3>7. ASSUME NEW c \in Classes PROVE Len(queues_'[c]) <= max_entries_
      <4>1. queues_[c] \in Seq(Tasks) /\ Len(queues_[c]) + 1 <= max_entries_
        BY <2>0, <3>5
      <4>2. CASE c = Cost[t]
        <5>1. queues_'[c] = Append(queues_[c], t)
          BY <2>0, <3>6, <4>2
        <5> QED BY <4>1, <5>1, Lengths
      <4>3. CASE c # Cost[t]
        <5>1. queues_'[c] = queues_[c]
          BY <2>0, <3>6, <4>3
        <5> QED BY <5>1 DEF Short
      <4> QED BY <4>2, <4>3
    <3> QED BY <3>7 DEF Short
  <2>3. ASSUME NEW d \in NonEmpty, queues_' = [queues_ EXCEPT ![d] = Tail(@)] PROVE Short'
    <3>1. ASSUME NEW c \in Classes PROVE Len(queues_'[c]) <= max_entries_
      <4>1. queues_[c] \in Seq(Tasks) /\ Len(queues_[c]) <= max_entries_
        BY <2>0 DEF Short
      <4>2. CASE c = d
        <5>1. queues_'[c] = Tail(queues_[c]) /\ queues_[c] # <<>>
          BY <2>0, <2>3, <4>2 DEF NonEmpty
        <5>2. Len(Tail(queues_[c])) = Len(queues_[c]) - 1 /\ Len(queues_[c]) \in Nat
          BY <4>1, <5>1
        <5> QED BY <2>0, <4>1, <5>1, <5>2
      <4>3. CASE c # d
        <5>1. queues_'[c] = queues_[c]
          BY <2>0, <2>3, <4>3
        <5> QED BY <4>1, <5>1
      <4> QED BY <4>2, <4>3
    <3> QED BY <3>1 DEF Short
  <2>4. ASSUME NEW w \in Workers, Take(w) PROVE Short'
    BY <2>3, <2>4 DEF Take, popLocked
  <2>5. ASSUME NEW s \in Stoppers, DrainOne(s) PROVE Short'
    BY <2>3, <2>5 DEF DrainOne
  <2>6. \/ UNCHANGED queues_ \/ \E t \in Tasks : Accept(t)
        \/ \E w \in Workers : Take(w)
        \/ \E s \in Stoppers : DrainOne(s)
    BY DEF Next, vars, Tick, NotifyOne, RequestCancellation, Submitter, Stamp, Refuse, Worker,
           Wait, Exit, Start, Run, CancelTaken, Complete, CountCancelled, Release, Stopper,
           RequestShutdown, ShutdownAgain, CancelDrained, DrainDone, NotifyAll, Join
  <2> QED BY <2>1, <2>2, <2>4, <2>5, <2>6
<1> QED BY <1>1, <1>2, IInvHolds, PTL DEF Spec

(* An accepted task without an outcome is in exactly one slot of one deque, *)
(* or with exactly one worker, or with the thread that shuts down; every    *)
(* other task is nowhere.  Nothing is dropped and nothing is handled twice. *)
THEOREM OwnersCorrect == Spec => []OneOwner
<1>1. IInv /\ Short => OneOwner
  <2> SUFFICES ASSUME IInv, Short, NEW t \in Tasks
               PROVE  Owners(t) = IF phase[t] \in {"queued", "taken", "drained"} THEN 1 ELSE 0
    BY DEF OneOwner
  <2> DEFINE H == {w \in Workers : held[w] = t}
             D == {s \in Stoppers : drained[s] = t}
  <2>0. /\ t # NoTask /\ Cost[t] \in Classes /\ max_entries_ \in Nat
        /\ queues_ \in [Classes -> Seq(Tasks)]
    BY SchedulerAssumption DEF IInv, TypeOK, QueuesOK
  <2>1. /\ phase[t] # "queued" => Slots(t) = {}
        /\ phase[t] = "queued" => \E i : Slots(t) = {<<Cost[t], i>>}
    <3>1. ASSUME NEW c \in Classes, NEW i \in 1 .. max_entries_, <<c, i>> \in Slots(t)
          PROVE  /\ phase[t] = "queued" /\ c = Cost[t] /\ queues_[c][i] = t
                 /\ i \in 1 .. Len(queues_[c])
      <4>1. i <= Len(queues_[c]) /\ queues_[c][i] = t
        BY <3>1 DEF Slots
      <4>2. i \in 1 .. Len(queues_[c])
        BY <2>0, <4>1
      <4> QED BY <4>1, <4>2 DEF IInv, QueueInv
    <3>2. \A slot \in Slots(t) : \E c \in Classes, i \in 1 .. max_entries_ : slot = <<c, i>>
      BY DEF Slots
    <3>3. phase[t] # "queued" => Slots(t) = {}
      BY <3>1, <3>2
    <3>4. ASSUME phase[t] = "queued" PROVE \E i : Slots(t) = {<<Cost[t], i>>}
      <4>1. PICK i \in 1 .. Len(queues_[Cost[t]]) : queues_[Cost[t]][i] = t
        BY <3>4 DEF IInv, QueuedIsThere
      <4>2. i \in 1 .. max_entries_ /\ i <= Len(queues_[Cost[t]])
        BY <2>0, <4>1 DEF Short
      <4>3. <<Cost[t], i>> \in Slots(t)
        BY <2>0, <4>1, <4>2 DEF Slots
      <4>4. ASSUME NEW slot \in Slots(t) PROVE slot = <<Cost[t], i>>
        <5>1. PICK c \in Classes, j \in 1 .. max_entries_ : slot = <<c, j>>
          BY <3>2
        <5>2. c = Cost[t] /\ queues_[c][j] = t /\ j \in 1 .. Len(queues_[c])
          BY <3>1, <5>1
        <5>3. j = i
          BY <2>0, <4>1, <5>2 DEF IInv, QueueInv
        <5> QED BY <5>1, <5>2, <5>3
      <4> QED BY <4>3, <4>4
    <3> QED BY <3>3, <3>4
  <2>2. (phase[t] # "taken" => H = {}) /\ (phase[t] = "taken" => \E w : H = {w})
    <3>1. \A w \in Workers : held[w] = t => phase[t] = "taken"
      BY <2>0 DEF IInv, HeldInv
    <3>2. ASSUME phase[t] = "taken" PROVE \E w : H = {w}
      <4>1. PICK w \in Workers : held[w] = t
        BY <3>2 DEF IInv, HeldInv
      <4>2. \A v \in Workers : held[v] = t => v = w
        BY <2>0, <4>1 DEF IInv, HeldInv
      <4>3. H = {w}
        BY <4>1, <4>2
      <4> QED BY <4>3
    <3> QED BY <3>1, <3>2
  <2>3. (phase[t] # "drained" => D = {}) /\ (phase[t] = "drained" => \E s : D = {s})
    <3>1. \A s \in Stoppers : drained[s] = t => phase[t] = "drained" /\ spc[s] = "cancel"
      BY <2>0 DEF IInv, DrainInv
    <3>2. ASSUME phase[t] = "drained" PROVE \E s : D = {s}
      <4>1. PICK s \in Stoppers : drained[s] = t
        BY <3>2 DEF IInv, DrainInv
      <4>2. \A r \in Stoppers : drained[r] = t => r = s
        BY <3>1, <4>1 DEF IInv, DrainInv
      <4>3. D = {s}
        BY <4>1, <4>2
      <4> QED BY <4>3
    <3> QED BY <3>1, <3>2
  <2>4. Cardinality({}) = 0 /\ \A x : Cardinality({x}) = 1
    BY FS_EmptySet, FS_Singleton
  <2>5. Owners(t) = Cardinality(Slots(t)) + Cardinality(H) + Cardinality(D)
    BY DEF Owners
  <2> HIDE DEF H, D
  <2>6. CASE phase[t] = "queued"
    <3>1. Cardinality(Slots(t)) = 1 /\ Cardinality(H) = 0 /\ Cardinality(D) = 0
      BY <2>1, <2>2, <2>3, <2>4, <2>6
    <3> QED BY <2>5, <2>6, <3>1
  <2>7. CASE phase[t] = "taken"
    <3>1. Cardinality(Slots(t)) = 0 /\ Cardinality(H) = 1 /\ Cardinality(D) = 0
      BY <2>1, <2>2, <2>3, <2>4, <2>7
    <3> QED BY <2>5, <2>7, <3>1
  <2>8. CASE phase[t] = "drained"
    BY <2>1, <2>2, <2>3, <2>4, <2>5, <2>8, SMTT(20)
  <2>9. CASE phase[t] \notin {"queued", "taken", "drained"}
    BY <2>1, <2>2, <2>3, <2>4, <2>5, <2>9
  <2> QED BY <2>6, <2>7, <2>8, <2>9
<1> QED BY <1>1, IInvHolds, DequesShort, PTL
-----------------------------------------------------------------------------
(* The statistics.                                                         *)

Busy    == {w \in Workers : wpc[w] \in {"holding", "running", "count", "release"}}
InHand  == {w \in Workers : wpc[w] \in {"holding", "running", "count"}}
Served  == {t \in Tasks : outcome[t] = "Accepted"}
Decided == {t \in Tasks : phase[t] \notin {"new", "stamped"}}

(* The counters at any moment, also while tasks are in hand: active_ counts *)
(* the workers between the pop and the release, and an accepted task is     *)
(* queued, served, counted as cancelled or still in a worker's hands.       *)
Stats ==
  /\ IsFiniteSet(Served) /\ IsFiniteSet(Decided)
  /\ active_ = Cardinality(Busy)
  /\ accepted_ = queued_entries_ + cancelled_ + Cardinality(Served) + Cardinality(InHand)
  /\ accepted_ + rejected_ = Cardinality(Decided)

(* One element more or less in a finite set.                                *)
LEMMA OneMore ==
  ASSUME NEW S, IsFiniteSet(S), NEW x, x \notin S
  PROVE  IsFiniteSet(S \cup {x}) /\ Cardinality(S \cup {x}) = Cardinality(S) + 1
  BY FS_AddElement

LEMMA OneLess ==
  ASSUME NEW S, IsFiniteSet(S), NEW x \in S
  PROVE  Cardinality(S \ {x}) = Cardinality(S) - 1
  BY FS_RemoveElement

(* The sets of workers are finite, and all the sizes are numbers.           *)
LEMMA Sizes ==
  ASSUME TypeOK, Stats
  PROVE  /\ IsFiniteSet(Busy) /\ IsFiniteSet(InHand)
         /\ Cardinality(Busy) \in Nat /\ Cardinality(InHand) \in Nat
         /\ Cardinality(Served) \in Nat /\ Cardinality(Decided) \in Nat
         /\ queued_entries_ \in Nat /\ cancelled_ \in Nat /\ accepted_ \in Nat
         /\ rejected_ \in Nat /\ active_ \in Int
<1>1. Busy \subseteq Workers /\ InHand \subseteq Workers /\ IsFiniteSet(Workers)
  BY SchedulerAssumption DEF Busy, InHand
<1>2. IsFiniteSet(Busy) /\ IsFiniteSet(InHand)
  BY <1>1, FS_Subset
<1> QED BY <1>2, FS_CardinalityType DEF Stats, TypeOK, CountersOK

(* A step after which no worker, no outcome and no decision counts          *)
(* differently.                                                             *)
LEMMA SameSets ==
  ASSUME Stats, UNCHANGED <<Busy, InHand, Served, Decided, active_, accepted_, rejected_>>,
         queued_entries_' + cancelled_' = queued_entries_ + cancelled_
  PROVE  Stats'
  BY DEF Stats

(* A worker that moves between two steps on the same side of both counters. *)
LEMMA SameWorkers ==
  ASSUME TypeOK, NEW w \in Workers, NEW next, wpc' = [wpc EXCEPT ![w] = next],
         \/ {wpc[w], next} \subseteq {"holding", "running", "count"}
         \/ {wpc[w], next} \subseteq {"test", "waiting", "exited"}
  PROVE  UNCHANGED <<Busy, InHand>>
<1>1. wpc \in [Workers -> WorkerPCs]
  BY DEF TypeOK, ThreadsOK
<1>2. \A v \in Workers : v # w => wpc'[v] = wpc[v]
  BY <1>1
<1>3. wpc'[w] = next
  BY <1>1
<1> QED BY <1>2, <1>3 DEF Busy, InHand

(* A task that has been decided stays so.                                   *)
LEMMA SameDecided ==
  ASSUME TypeOK, NEW t \in Tasks, NEW p, phase' = [phase EXCEPT ![t] = p],
         phase[t] \in {"new", "stamped"} <=> p \in {"new", "stamped"}
  PROVE  UNCHANGED Decided
<1>1. phase \in [Tasks -> Phases]
  BY DEF TypeOK, ThreadsOK
<1>2. phase'[t] = p /\ \A u \in Tasks : u # t => phase'[u] = phase[u]
  BY <1>1
<1> QED BY <1>2 DEF Decided

(* A task that ends otherwise than by being run.                            *)
LEMMA SameServed ==
  ASSUME TypeOK, DoneInv, NEW t \in Tasks, phase[t] # "done", NEW o, o # "Accepted",
         outcome' = [outcome EXCEPT ![t] = o]
  PROVE  UNCHANGED Served
<1>1. outcome \in [Tasks -> Outcomes] /\ outcome[t] = "none"
  BY DEF TypeOK, ThreadsOK, DoneInv
<1>2. outcome'[t] = o /\ \A u \in Tasks : u # t => outcome'[u] = outcome[u]
  BY <1>1
<1> QED BY <1>1, <1>2 DEF Served

(* A submission is decided once.                                            *)
LEMMA OneDecided ==
  ASSUME TypeOK, Stats, NEW t \in Tasks, NEW p, p \notin {"new", "stamped"},
         phase[t] = "stamped", phase' = [phase EXCEPT ![t] = p]
  PROVE  IsFiniteSet(Decided') /\ Cardinality(Decided') = Cardinality(Decided) + 1
<1>1. phase \in [Tasks -> Phases]
  BY DEF TypeOK, ThreadsOK
<1>2. phase'[t] = p /\ \A u \in Tasks : u # t => phase'[u] = phase[u]
  BY <1>1
<1>3. Decided' = Decided \cup {t} /\ t \notin Decided
  BY <1>2 DEF Decided
<1>4. IsFiniteSet(Decided)
  BY DEF Stats
<1> QED BY <1>3, <1>4, OneMore

LEMMA AcceptStats == ASSUME IInv, Stats, NEW t \in Tasks, Accept(t) PROVE Stats'
<1>1. IsFiniteSet(Decided') /\ Cardinality(Decided') = Cardinality(Decided) + 1
  BY OneDecided DEF Accept, IInv
<1>2. UNCHANGED <<Busy, InHand, Served, active_, rejected_, cancelled_>>
  BY DEF Accept, Busy, InHand, Served, workers
<1>3. accepted_' = accepted_ + 1 /\ queued_entries_' = queued_entries_ + 1
  BY DEF Accept
<1>4. TypeOK
  BY DEF IInv
<1> QED BY <1>1, <1>2, <1>3, <1>4, Sizes DEF Stats

LEMMA RefuseStats == ASSUME IInv, Stats, NEW t \in Tasks, Refuse(t) PROVE Stats'
<1>1. IsFiniteSet(Decided') /\ Cardinality(Decided') = Cardinality(Decided) + 1
  BY OneDecided DEF Refuse, IInv
<1>2. UNCHANGED <<Busy, InHand, active_, accepted_, cancelled_, queued_entries_>>
  BY DEF Refuse, Busy, InHand, workers
<1>3. UNCHANGED Served
  BY SameServed DEF Refuse, IInv
<1>4. rejected_' = rejected_ + 1
  BY DEF Refuse
<1>5. TypeOK
  BY DEF IInv
<1> QED BY <1>1, <1>2, <1>3, <1>4, <1>5, Sizes DEF Stats

LEMMA TakeStats == ASSUME IInv, Stats, NEW w \in Workers, Take(w) PROVE Stats'
<1>0. TypeOK /\ wpc \in [Workers -> WorkerPCs] /\ QueuesOK
  BY DEF IInv, TypeOK, ThreadsOK
<1>1. PICK c \in NonEmpty : popLocked(w, c)
  BY DEF Take
<1>2. Head(queues_[c]) \in Tasks /\ phase[Head(queues_[c])] = "queued"
  <2>1. queues_[c] \in Seq(Tasks) /\ queues_[c] # <<>> /\ c \in Classes
    BY <1>0, PopTypes
  <2>2. 1 \in 1 .. Len(queues_[c]) /\ Head(queues_[c]) = queues_[c][1]
    BY <2>1
  <2> QED BY <1>0, <2>1, <2>2, PopTypes DEF IInv, QueueInv
<1>3. UNCHANGED Decided
  BY <1>0, <1>1, <1>2, SameDecided DEF popLocked
<1>4. UNCHANGED <<Served, accepted_, rejected_, cancelled_>>
  BY DEF Take, Served
<1>5. wpc[w] = "test" /\ wpc'[w] = "holding" /\ \A v \in Workers : v # w => wpc'[v] = wpc[v]
  BY <1>0 DEF Take
<1>6. Busy' = Busy \cup {w} /\ w \notin Busy /\ InHand' = InHand \cup {w} /\ w \notin InHand
  BY <1>5 DEF Busy, InHand
<1>7. Cardinality(Busy') = Cardinality(Busy) + 1 /\ Cardinality(InHand') = Cardinality(InHand) + 1
  BY <1>0, <1>6, Sizes, OneMore
<1>8. queued_entries_' = queued_entries_ - 1 /\ active_' = active_ + 1
  BY <1>1 DEF popLocked
<1> QED BY <1>0, <1>3, <1>4, <1>7, <1>8, Sizes DEF Stats

LEMMA RunStats == ASSUME IInv, Stats, NEW w \in Workers, Run(w) PROVE Stats'
<1>0. TypeOK /\ wpc \in [Workers -> WorkerPCs] /\ outcome \in [Tasks -> Outcomes]
  BY DEF IInv, TypeOK, ThreadsOK
<1>1. held[w] \in Tasks /\ phase[held[w]] = "taken" /\ outcome[held[w]] = "none"
  BY DEF IInv, HeldInv, DoneInv, Run
<1>2. UNCHANGED Decided
  BY <1>0, <1>1, SameDecided DEF Run, Complete
<1>3. outcome'[held[w]] = "Accepted"
      /\ \A u \in Tasks : u # held[w] => outcome'[u] = outcome[u]
  BY <1>0, <1>1 DEF Run, Complete
<1>4. Served' = Served \cup {held[w]} /\ held[w] \notin Served
  BY <1>1, <1>3 DEF Served
<1>5. wpc[w] = "running" /\ wpc'[w] = "release" /\ \A v \in Workers : v # w => wpc'[v] = wpc[v]
  BY <1>0 DEF Run, Complete
<1>6. Busy' = Busy /\ InHand' = InHand \ {w} /\ w \in InHand
  BY <1>5 DEF Busy, InHand
<1>7. IsFiniteSet(Served') /\ Cardinality(Served') = Cardinality(Served) + 1
  BY <1>4, OneMore DEF Stats
<1>8. Cardinality(InHand') = Cardinality(InHand) - 1
  BY <1>0, <1>6, Sizes, OneLess
<1>9. UNCHANGED <<active_, accepted_, rejected_, cancelled_, queued_entries_>>
  BY DEF Run, Complete, counters
<1> QED BY <1>0, <1>2, <1>6, <1>7, <1>8, <1>9, Sizes DEF Stats

LEMMA CountStats ==
  ASSUME IInv, Stats, NEW w \in Workers, CountCancelled(w) \/ Release(w) PROVE Stats'
<1>0. TypeOK /\ wpc \in [Workers -> WorkerPCs]
  BY DEF IInv, TypeOK, ThreadsOK
<1>1. UNCHANGED <<Served, Decided, accepted_, rejected_, queued_entries_>>
  BY DEF CountCancelled, Release, Served, Decided
<1>2. CASE CountCancelled(w)
  <2>1. wpc[w] = "count" /\ wpc'[w] = "release" /\ \A v \in Workers : v # w => wpc'[v] = wpc[v]
    BY <1>0, <1>2 DEF CountCancelled
  <2>2. Busy' = Busy /\ InHand' = InHand \ {w} /\ w \in InHand
    BY <2>1 DEF Busy, InHand
  <2>3. Cardinality(InHand') = Cardinality(InHand) - 1
    BY <1>0, <2>2, Sizes, OneLess
  <2>4. cancelled_' = cancelled_ + 1 /\ active_' = active_
    BY <1>2 DEF CountCancelled
  <2> QED BY <1>0, <1>1, <2>2, <2>3, <2>4, Sizes DEF Stats
<1>3. CASE Release(w)
  <2>1. wpc[w] = "release" /\ wpc'[w] = "test" /\ \A v \in Workers : v # w => wpc'[v] = wpc[v]
    BY <1>0, <1>3 DEF Release
  <2>2. InHand' = InHand /\ Busy' = Busy \ {w} /\ w \in Busy
    BY <2>1 DEF Busy, InHand
  <2>3. Cardinality(Busy') = Cardinality(Busy) - 1
    BY <1>0, <2>2, Sizes, OneLess
  <2>4. active_' = active_ - 1 /\ cancelled_' = cancelled_
    BY <1>3 DEF Release
  <2> QED BY <1>0, <1>1, <2>2, <2>3, <2>4, Sizes DEF Stats
<1> QED BY <1>2, <1>3

(* The other steps of a worker and the wake-ups count nothing.              *)
LEMMA WorkerStats ==
  ASSUME IInv, Stats, NEW w \in Workers, Wait(w) \/ Exit(w) \/ Start(w) \/ CancelTaken(w)
  PROVE  Stats'
<1>0. TypeOK
  BY DEF IInv
<1>1. UNCHANGED <<Busy, InHand>>
  BY <1>0, SameWorkers DEF Wait, Exit, Start, CancelTaken, Complete
<1>2. UNCHANGED <<active_, accepted_, rejected_, cancelled_, queued_entries_>>
  BY DEF Wait, Exit, Start, CancelTaken, Complete, counters
<1>3. CASE UNCHANGED <<phase, outcome>>
  BY <1>1, <1>2, <1>3, SameSets DEF Served, Decided
<1>4. CASE CancelTaken(w)
  <2>1. held[w] \in Tasks /\ phase[held[w]] = "taken"
    BY <1>4 DEF IInv, HeldInv, CancelTaken
  <2>2. UNCHANGED Decided
    BY <1>0, <1>4, <2>1, SameDecided DEF CancelTaken, Complete
  <2>3. UNCHANGED Served
    BY <1>0, <1>4, <2>1, SameServed DEF CancelTaken, Complete, IInv
  <2> QED BY <1>1, <1>2, <2>2, <2>3, SameSets
<1> QED BY <1>3, <1>4 DEF Wait, Exit, Start

LEMMA WakeStats ==
  ASSUME IInv, Stats, NotifyOne \/ \E s \in Stoppers : NotifyAll(s) PROVE Stats'
<1>0. wpc \in [Workers -> WorkerPCs]
  BY DEF IInv, TypeOK, ThreadsOK
<1>1. \A v \in Workers : wpc'[v] = wpc[v] \/ (wpc[v] = "waiting" /\ wpc'[v] = "test")
  BY <1>0 DEF NotifyOne, NotifyAll
<1>2. UNCHANGED <<Busy, InHand>>
  BY <1>1 DEF Busy, InHand
<1>3. UNCHANGED <<Served, Decided, active_, accepted_, rejected_, cancelled_, queued_entries_>>
  BY DEF NotifyOne, NotifyAll, Served, Decided, counters
<1> QED BY <1>2, <1>3, SameSets

(* A cancelling shutdown moves all of queued_entries_ to cancelled_ at      *)
(* once, and what it cancels afterwards is not counted again.               *)
LEMMA StopperStats ==
  ASSUME IInv, Stats, NEW s \in Stoppers,
         \/ \E b \in BOOLEAN : RequestShutdown(s, b)
         \/ DrainOne(s) \/ CancelDrained(s)
  PROVE  Stats'
<1>0. TypeOK /\ QueuesOK
  BY DEF IInv, TypeOK
<1>1. UNCHANGED <<Busy, InHand, active_, accepted_, rejected_>>
  BY DEF RequestShutdown, DrainOne, CancelDrained, Busy, InHand, workers, counters
<1>2. CASE \E b \in BOOLEAN : RequestShutdown(s, b)
  <2>1. queued_entries_' + cancelled_' = queued_entries_ + cancelled_
    BY <1>0, <1>2, Sizes DEF RequestShutdown
  <2>2. UNCHANGED <<Served, Decided>>
    BY <1>2 DEF RequestShutdown, Served, Decided
  <2> QED BY <1>1, <2>1, <2>2, SameSets
<1>3. CASE DrainOne(s)
  <2>1. PICK c \in NonEmpty : phase' = [phase EXCEPT ![Head(queues_[c])] = "drained"]
    BY <1>3 DEF DrainOne
  <2>2. Head(queues_[c]) \in Tasks /\ phase[Head(queues_[c])] = "queued"
    <3>1. queues_[c] \in Seq(Tasks) /\ queues_[c] # <<>> /\ c \in Classes
      BY <1>0, PopTypes
    <3>2. 1 \in 1 .. Len(queues_[c]) /\ Head(queues_[c]) = queues_[c][1]
      BY <3>1
    <3> QED BY <1>0, <3>1, <3>2, PopTypes DEF IInv, QueueInv
  <2>3. UNCHANGED Decided
    BY <1>0, <2>1, <2>2, SameDecided
  <2>4. UNCHANGED <<Served, queued_entries_, cancelled_>>
    BY <1>3 DEF DrainOne, Served, counters
  <2> QED BY <1>1, <2>3, <2>4, SameSets
<1>4. CASE CancelDrained(s)
  <2>1. drained[s] \in Tasks /\ phase[drained[s]] = "drained"
    BY <1>4 DEF IInv, DrainInv, CancelDrained
  <2>2. UNCHANGED Decided
    BY <1>0, <1>4, <2>1, SameDecided DEF CancelDrained
  <2>3. UNCHANGED Served
    BY <1>0, <1>4, <2>1, SameServed DEF CancelDrained, IInv
  <2>4. UNCHANGED <<queued_entries_, cancelled_>>
    BY <1>4 DEF CancelDrained, counters
  <2> QED BY <1>1, <2>2, <2>3, <2>4, SameSets
<1> QED BY <1>2, <1>3, <1>4

LEMMA StampStats == ASSUME IInv, Stats, NEW t \in Tasks, Stamp(t) PROVE Stats'
<1>1. UNCHANGED Decided
  BY SameDecided DEF Stamp, IInv
<1>2. UNCHANGED <<Busy, InHand, Served, active_, accepted_, rejected_, cancelled_, queued_entries_>>
  BY DEF Stamp, Busy, InHand, Served, workers, counters
<1> QED BY <1>1, <1>2, SameSets

(* The counters balance in every state.                                     *)
THEOREM StatsHold == Spec => []Stats
<1>1. Init => Stats
  <2> SUFFICES ASSUME Init PROVE Stats
    OBVIOUS
  <2>1. Busy = {} /\ InHand = {} /\ Served = {} /\ Decided = {}
    BY DEF Init, Busy, InHand, Served, Decided
  <2>2. IsFiniteSet({}) /\ Cardinality({}) = 0
    BY FS_EmptySet
  <2> QED BY <2>1, <2>2 DEF Init, Stats
<1>2. IInv /\ Stats /\ [Next]_vars => Stats'
  <2> SUFFICES ASSUME IInv, Stats, [Next]_vars PROVE Stats'
    OBVIOUS
  <2>1. CASE UNCHANGED <<wpc, phase, outcome, active_, accepted_, rejected_, cancelled_,
                         queued_entries_>>
    BY <2>1, SameSets DEF Busy, InHand, Served, Decided
  <2>2. CASE \E t \in Tasks : Submitter(t)
    BY <2>2, StampStats, AcceptStats, RefuseStats DEF Submitter
  <2>3. CASE \E w \in Workers : Worker(w)
    BY <2>3, TakeStats, RunStats, CountStats, WorkerStats DEF Worker
  <2>4. CASE NotifyOne \/ \E s \in Stoppers : NotifyAll(s)
    BY <2>4, WakeStats
  <2>5. ASSUME NEW s \in Stoppers,
               (\E b \in BOOLEAN : RequestShutdown(s, b)) \/ DrainOne(s) \/ CancelDrained(s)
        PROVE  Stats'
    BY <2>5, StopperStats
  <2> QED BY <2>1, <2>2, <2>3, <2>4, <2>5 DEF Next, vars, workers, counters, Tick,
             RequestCancellation, Stopper, ShutdownAgain, DrainDone, Join
<1> QED BY <1>1, <1>2, IInvHolds, PTL DEF Spec

(* Whenever no task is in hand every accepted task is queued, was run or    *)
(* was counted as cancelled, active_ is zero, and every refused submission  *)
(* was counted: no path through the workers or a shutdown counts a task     *)
(* twice or not at all.                                                     *)
THEOREM StatisticsCorrect == Spec => []StatisticsBalance
<1>1. IInv /\ Stats => StatisticsBalance
  <2> SUFFICES ASSUME IInv, Stats, Quiet
      PROVE /\ active_ = 0
            /\ accepted_ = queued_entries_ + cancelled_ + Cardinality(Served)
            /\ accepted_ + rejected_ = Cardinality(Decided)
    BY DEF StatisticsBalance, Served, Decided
  <2>1. Busy = {} /\ InHand = {}
    BY DEF Quiet, Busy, InHand
  <2>2. Cardinality({}) = 0
    BY FS_EmptySet
  <2>3. TypeOK
    BY DEF IInv
  <2> QED BY <2>1, <2>2, <2>3, Sizes DEF Stats
<1> QED BY <1>1, IInvHolds, StatsHold, PTL

-----------------------------------------------------------------------------
(* The byte counter.                                                       *)

(* The invariant: the counter, and that the queued bytes can be counted.    *)
ByteInv == IsFiniteSet(BytesOf(QueuedTasks)) /\ BytesMatch

(* One task more has its own bytes more, and no byte belongs to two tasks.  *)
LEMMA BytesOfOne ==
  ASSUME NEW S \in SUBSET Tasks, IsFiniteSet(BytesOf(S)), NEW t \in Tasks, t \notin S
  PROVE  /\ IsFiniteSet(BytesOf(S \cup {t}))
         /\ SumBytes(S \cup {t}) = SumBytes(S) + Bytes[t]
         /\ SumBytes(S) \in Nat /\ Bytes[t] \in Nat
<1> DEFINE B == {t} \X (1 .. Bytes[t])
<1>1. Bytes[t] \in Nat
  BY SchedulerAssumption
<1>2. IsFiniteSet(B) /\ Cardinality(B) = Bytes[t]
  <2>1. IsFiniteSet({t}) /\ Cardinality({t}) = 1
    BY FS_Singleton
  <2>2. IsFiniteSet(1 .. Bytes[t]) /\ Cardinality(1 .. Bytes[t]) = Bytes[t]
    BY <1>1, FS_Interval, SMTT(20)
  <2>3. IsFiniteSet(B) /\ Cardinality(B) = 1 * Bytes[t]
    BY <2>1, <2>2, FS_Product, ZenonT(40)
  <2> QED BY <1>1, <2>3
<1>3. BytesOf(S \cup {t}) = BytesOf(S) \cup B
  BY DEF BytesOf
<1>4. BytesOf(S) \cap B = {}
  BY DEF BytesOf
<1> HIDE DEF B
<1>5. Cardinality({}) = 0 /\ Cardinality(BytesOf(S)) \in Nat
  BY FS_EmptySet, FS_CardinalityType
<1>6. IsFiniteSet(BytesOf(S) \cup B)
      /\ Cardinality(BytesOf(S) \cup B) = Cardinality(BytesOf(S)) + Cardinality(B) - 0
  BY <1>2, <1>4, <1>5, FS_Union
<1>7. Cardinality(BytesOf(S) \cup B) = Cardinality(BytesOf(S)) + Bytes[t]
  BY <1>1, <1>2, <1>5, <1>6
<1> QED BY <1>1, <1>3, <1>5, <1>6, <1>7 DEF SumBytes

(* One task less: some of the bytes go.                                     *)
LEMMA BytesOfFewer ==
  ASSUME NEW S, NEW T \in SUBSET S, IsFiniteSet(BytesOf(S))
  PROVE  IsFiniteSet(BytesOf(T))
<1>1. BytesOf(T) \subseteq BytesOf(S)
  BY DEF BytesOf
<1> QED BY <1>1, FS_Subset

(* What a pop, by a worker or by the shutdown, does to the queued tasks.    *)
LEMMA PopQueued ==
  ASSUME IInv, NEW c \in NonEmpty, NEW p, p # "queued",
         phase' = [phase EXCEPT ![Head(queues_[c])] = p]
  PROVE  /\ Head(queues_[c]) \in QueuedTasks
         /\ QueuedTasks' = QueuedTasks \ {Head(queues_[c])}
<1>0. QueuesOK /\ phase \in [Tasks -> Phases] /\ QueueInv
  BY DEF IInv, TypeOK, ThreadsOK
<1>1. queues_[c] \in Seq(Tasks) /\ queues_[c] # <<>> /\ c \in Classes
  BY <1>0, PopTypes
<1>2. 1 \in 1 .. Len(queues_[c]) /\ Head(queues_[c]) = queues_[c][1]
  BY <1>1
<1>3. Head(queues_[c]) \in Tasks /\ phase[Head(queues_[c])] = "queued"
  BY <1>0, <1>1, <1>2, PopTypes DEF QueueInv
<1>4. /\ phase'[Head(queues_[c])] = p
      /\ \A u \in Tasks : u # Head(queues_[c]) => phase'[u] = phase[u]
  BY <1>0, <1>3
<1> QED BY <1>3, <1>4 DEF QueuedTasks

LEMMA AcceptBytes == ASSUME IInv, ByteInv, NEW t \in Tasks, Accept(t) PROVE ByteInv'
<1>0. phase \in [Tasks -> Phases] /\ DrainInv
  BY DEF IInv, TypeOK, ThreadsOK
<1>1. QueuedTasks' = QueuedTasks \cup {t} /\ t \notin QueuedTasks
  <2>1. phase[t] = "stamped" /\ phase'[t] = "queued"
        /\ \A u \in Tasks : u # t => phase'[u] = phase[u]
    BY <1>0 DEF Accept
  <2> QED BY <2>1 DEF QueuedTasks
<1>2. ~ Draining /\ ~ Draining'
  BY <1>0 DEF Accept, SubmitStatus, stoppers, Draining, DrainInv
<1>3. QueuedTasks \in SUBSET Tasks
  BY DEF QueuedTasks
<1>4. /\ IsFiniteSet(BytesOf(QueuedTasks'))
      /\ SumBytes(QueuedTasks') = SumBytes(QueuedTasks) + Bytes[t]
  BY <1>1, <1>3, BytesOfOne DEF ByteInv
<1>5. queued_bytes_' = queued_bytes_ + Bytes[t]
  BY DEF Accept
<1> QED BY <1>2, <1>4, <1>5 DEF ByteInv, BytesMatch, BytesOf, SumBytes

LEMMA TakeBytes == ASSUME IInv, ByteInv, NEW w \in Workers, Take(w) PROVE ByteInv'
<1>1. PICK c \in NonEmpty : popLocked(w, c)
  BY DEF Take
<1> DEFINE t == Head(queues_[c])
<1>2. t \in QueuedTasks /\ QueuedTasks' = QueuedTasks \ {t}
  BY <1>1, PopQueued DEF popLocked
<1>3. ~ Draining /\ ~ Draining'
  BY DEF IInv, Take, stoppers, Draining, EntriesMatch
<1>4. QueuedTasks' \in SUBSET Tasks /\ t \in Tasks /\ t \notin QueuedTasks'
      /\ QueuedTasks = QueuedTasks' \cup {t}
  BY <1>2 DEF QueuedTasks
<1>5. queued_bytes_' = queued_bytes_ - Bytes[t]
  BY <1>1 DEF popLocked
<1> HIDE DEF t
<1>6. IsFiniteSet(BytesOf(QueuedTasks'))
  BY <1>2, BytesOfFewer DEF ByteInv
<1>7. /\ SumBytes(QueuedTasks) = SumBytes(QueuedTasks') + Bytes[t]
      /\ SumBytes(QueuedTasks') \in Nat /\ Bytes[t] \in Nat
  BY <1>4, <1>6, BytesOfOne
<1> QED BY <1>3, <1>5, <1>6, <1>7 DEF ByteInv, BytesMatch, BytesOf, SumBytes

(* The shutdown sets the counter to zero first and empties the deques       *)
(* after that.                                                              *)
LEMMA StopBytes ==
  ASSUME IInv, ByteInv, NEW s \in Stoppers,
         (\E b \in BOOLEAN : RequestShutdown(s, b)) \/ DrainOne(s) \/ DrainDone(s)
  PROVE  ByteInv'
<1>0. DrainInv /\ QueuesOK /\ QueuedIsThere /\ spc \in [Stoppers -> StopperPCs]
  BY DEF IInv, TypeOK, ThreadsOK
<1>1. ASSUME NEW b \in BOOLEAN, RequestShutdown(s, b) PROVE ByteInv'
  <2>1. UNCHANGED QueuedTasks
    BY <1>1 DEF RequestShutdown, QueuedTasks
  <2>2. ~ Draining
    BY <1>0, <1>1 DEF RequestShutdown, DrainInv, Draining
  <2>3. CASE b
    <3>1. Draining' /\ queued_bytes_' = 0
      BY <1>0, <1>1, <2>3 DEF RequestShutdown, Draining
    <3> QED BY <2>1, <3>1 DEF ByteInv, BytesMatch, BytesOf
  <2>4. CASE ~ b
    <3>1. ~ Draining' /\ UNCHANGED queued_bytes_
      BY <1>0, <1>1, <2>2, <2>4 DEF RequestShutdown, Draining
    <3> QED BY <2>1, <2>2, <3>1 DEF ByteInv, BytesMatch, BytesOf, SumBytes
  <2> QED BY <2>3, <2>4
<1>2. CASE DrainOne(s)
  <2>1. PICK c \in NonEmpty : phase' = [phase EXCEPT ![Head(queues_[c])] = "drained"]
    BY <1>2 DEF DrainOne
  <2>2. QueuedTasks' \in SUBSET QueuedTasks
    BY <2>1, PopQueued
  <2>3. IsFiniteSet(BytesOf(QueuedTasks'))
    BY <2>2, BytesOfFewer DEF ByteInv
  <2>4. Draining /\ Draining' /\ UNCHANGED queued_bytes_
    BY <1>0, <1>2 DEF DrainOne, Draining, counters
  <2> QED BY <2>3, <2>4 DEF ByteInv, BytesMatch, BytesOf
<1>3. CASE DrainDone(s)
  <2>1. QueuedTasks = {} /\ QueuedTasks' = {}
    <3>1. \A c \in Classes : queues_[c] = <<>>
      BY <1>3 DEF DrainDone, NonEmpty
    <3>2. \A t \in Tasks : Cost[t] \in Classes
      BY SchedulerAssumption
    <3>3. Len(<<>>) = 0 /\ \A i \in 1 .. 0 : FALSE
      OBVIOUS
    <3>4. QueuedTasks = {}
      BY <1>0, <3>1, <3>2, <3>3 DEF QueuedIsThere, QueuedTasks
    <3> QED BY <1>3, <3>4 DEF DrainDone, QueuedTasks
  <2>2. BytesOf(QueuedTasks') = {}
    BY <2>1 DEF BytesOf
  <2>3. queued_bytes_' = 0
    BY <1>3 DEF DrainDone, Draining, counters, ByteInv, BytesMatch
  <2>4. IsFiniteSet({}) /\ Cardinality({}) = 0
    BY FS_EmptySet
  <2> QED BY <2>2, <2>3, <2>4 DEF ByteInv, BytesMatch, BytesOf, SumBytes
<1> QED BY <1>1, <1>2, <1>3

(* Every other step leaves the queued tasks and the counter alone.          *)
LEMMA OtherBytes ==
  ASSUME ByteInv, UNCHANGED <<QueuedTasks, queued_bytes_, Draining>>
  PROVE  ByteInv'
  BY DEF ByteInv, BytesMatch, BytesOf, SumBytes

(* Accounted for any number of tasks, workers and shutdowns: queued_bytes_  *)
(* is the size of what is queued, so that the subtraction in popLocked()    *)
(* never wraps and an idle scheduler has its whole byte budget back; with   *)
(* it the entry counter, the single owner and the balance of the counters.  *)
THEOREM AccountsCorrect == Spec => []Accounted
<1>1. Init => ByteInv
  <2> SUFFICES ASSUME Init PROVE ByteInv
    OBVIOUS
  <2>1. BytesOf(QueuedTasks) = {}
    BY DEF Init, QueuedTasks, BytesOf
  <2>2. IsFiniteSet({}) /\ Cardinality({}) = 0
    BY FS_EmptySet
  <2> QED BY <2>1, <2>2 DEF Init, ByteInv, BytesMatch, SumBytes
<1>2. IInv /\ ByteInv /\ [Next]_vars => ByteInv'
  <2> SUFFICES ASSUME IInv, ByteInv, [Next]_vars PROVE ByteInv'
    OBVIOUS
  <2>0. /\ phase \in [Tasks -> Phases] /\ spc \in [Stoppers -> StopperPCs]
        /\ HeldInv /\ DrainInv
    BY DEF IInv, TypeOK, ThreadsOK
  <2>1. CASE UNCHANGED <<phase, queued_bytes_, spc>>
    BY <2>1, OtherBytes DEF QueuedTasks, Draining
  <2>2. ASSUME NEW t \in Tasks, Stamp(t) \/ Refuse(t) PROVE ByteInv'
    <3>1. UNCHANGED QueuedTasks
      BY <2>0, <2>2 DEF Stamp, Refuse, QueuedTasks
    <3>2. UNCHANGED <<queued_bytes_, Draining>>
      BY <2>2 DEF Stamp, Refuse, counters, stoppers, Draining
    <3> QED BY <3>1, <3>2, OtherBytes
  <2>3. ASSUME NEW w \in Workers, Run(w) \/ CancelTaken(w) PROVE ByteInv'
    <3>1. held[w] \in Tasks /\ phase[held[w]] = "taken"
      BY <2>0, <2>3 DEF Run, CancelTaken, HeldInv
    <3>2. UNCHANGED QueuedTasks
      BY <2>0, <2>3, <3>1 DEF Run, CancelTaken, Complete, QueuedTasks
    <3>3. UNCHANGED <<queued_bytes_, Draining>>
      BY <2>3 DEF Run, CancelTaken, Complete, counters, stoppers, Draining
    <3> QED BY <3>2, <3>3, OtherBytes
  <2>4. ASSUME NEW s \in Stoppers, CancelDrained(s) PROVE ByteInv'
    <3>1. drained[s] \in Tasks /\ phase[drained[s]] = "drained"
      BY <2>0, <2>4 DEF CancelDrained, DrainInv
    <3>2. UNCHANGED QueuedTasks
      BY <2>0, <2>4, <3>1 DEF CancelDrained, QueuedTasks
    <3>3. UNCHANGED queued_bytes_ /\ Draining /\ Draining'
      BY <2>0, <2>4 DEF CancelDrained, counters, Draining
    <3> QED BY <3>2, <3>3, OtherBytes
  <2>5. ASSUME NEW s \in Stoppers, ShutdownAgain(s) \/ NotifyAll(s) \/ Join(s) PROVE ByteInv'
    <3>1. \A r \in Stoppers : spc'[r] \in {"drain", "cancel"} <=> spc[r] \in {"drain", "cancel"}
      BY <2>0, <2>5 DEF ShutdownAgain, NotifyAll, Join
    <3>2. UNCHANGED <<QueuedTasks, queued_bytes_, Draining>>
      BY <2>5, <3>1 DEF ShutdownAgain, NotifyAll, Join, counters, QueuedTasks, Draining
    <3> QED BY <3>2, OtherBytes
  <2>6. \/ UNCHANGED <<phase, queued_bytes_, spc>>
        \/ \E t \in Tasks : Submitter(t)
        \/ \E w \in Workers : Take(w) \/ Run(w) \/ CancelTaken(w)
        \/ \E s \in Stoppers : Stopper(s)
    BY DEF Next, vars, counters, stoppers, Tick, NotifyOne, RequestCancellation, Worker,
           Wait, Exit, Start, CountCancelled, Release
  <2> QED BY <2>1, <2>2, <2>3, <2>4, <2>5, <2>6, AcceptBytes, TakeBytes, StopBytes
          DEF Submitter, Stopper
<1>3. IInv /\ ByteInv => EntriesMatch /\ BytesMatch
  BY DEF IInv, ByteInv
<1>4. BytesMatch /\ EntriesMatch /\ StatisticsBalance /\ OneOwner => Accounted
  BY DEF Accounted
<1> QED BY <1>1, <1>2, <1>3, <1>4, IInvHolds, StatisticsCorrect, OwnersCorrect, PTL DEF Spec
=============================================================================
