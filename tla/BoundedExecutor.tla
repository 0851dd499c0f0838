-------------------------- MODULE BoundedExecutor --------------------------
(***************************************************************************)
(* BoundedExecutor (src/src/utils/bounded_executor.h) and the ruleset      *)
(* executor of src/src/handler/multithread.cpp that is built from it: a    *)
(* fixed pool of workers, a queue of bounded length, submitters that wait  *)
(* a short time for room, and a shutdown that may start in any thread,     *)
(* even in a submitter that finds the shutdown flag set.                   *)
(*                                                                         *)
(* A step is one critical section of mutex_ or one call outside it.  cv_   *)
(* has the workers in wait() and the notify_one() calls still owed;        *)
(* space_cv_ is waited for with a time limit.  A task that is destroyed    *)
(* without being run leaves its caller a broken promise.                   *)
(***************************************************************************)
EXTENDS Naturals, Sequences, SequencesExt, FiniteSets

CONSTANTS
  Tasks,           \* the calls of submitUntil(), each with its task
  Inner,           \* the calls made by a task that a worker runs
  Workers,
  Stoppers,        \* threads that call shutdown() or requestShutdown()
  Joiners,         \* those of them that also join()
  NoTask,
  queue_capacity_

ASSUME ExecutorAssumption ==
  /\ queue_capacity_ \in Nat \ {0} /\ Inner \subseteq Tasks
  /\ Joiners \subseteq Stoppers /\ NoTask \notin Tasks
  /\ IsFiniteSet(Workers) /\ Workers # {} /\ Tasks \cap Stoppers = {}

Callers == Tasks \cup Stoppers

VARIABLES
  tasks_, stopping_,
  requested,   \* rulesetExecutorShutdownRequested
  call,        \* per caller: where its call is
  cancelled,   \* per caller: cancelled_tasks of its requestShutdown()
  outcome,     \* per task: what its future holds
  over,        \* the submitters whose request is cancelled or out of time
  late,        \* the submitters that have waited 50 ms
  notices,     \* notify_one() calls still owed
  wpc, task,   \* per worker: where workerLoop() is, and its task
  inner        \* per worker: the call its task has made

callers == <<call, cancelled>>
clock   == <<over, late>>
workers == <<wpc, task, inner>>
executor == <<tasks_, stopping_, requested, callers, outcome, clock, notices, workers>>

(* A call of rulesetExecutor() with the flag set passes through "stop",     *)
(* "notify" and "destroy", which are requestShutdown(), before it submits.  *)
CallPCs == {"new", "stop", "notify", "destroy", "loop", "asleep", "submitted",
        "join", "returned"}
WorkerPCs == {"test", "waiting", "space", "run", "exited"}
Outcomes  == {"none", "result", "broken", "Stopping", "Recursive", "Ended", "QueueFull"}

ExecutorInit ==
  /\ tasks_ = <<>> /\ stopping_ = FALSE /\ requested = FALSE
  /\ call = [x \in Callers |-> "new"] /\ cancelled = [x \in Callers |-> {}]
  /\ outcome = [t \in Tasks |-> "none"] /\ over = {} /\ late = {} /\ notices = 0
  /\ wpc = [w \in Workers |-> "test"] /\ task = [w \in Workers |-> NoTask]
  /\ inner = [w \in Workers |-> NoTask]

Goto(x, to) == call' = [call EXCEPT ![x] = to]

-----------------------------------------------------------------------------
(* The clock and the requests.                                             *)

(* The end of a request matters while its call is in the loop.              *)
End(t) ==
  /\ call[t] \in {"loop", "asleep"} /\ t \notin over
  /\ over' = over \cup {t}
  /\ UNCHANGED <<tasks_, stopping_, requested, callers, outcome, late, notices, workers>>

Late(t) ==
  /\ call[t] \in {"loop", "asleep"} /\ t \notin late
  /\ late' = late \cup {t}
  /\ UNCHANGED <<tasks_, stopping_, requested, callers, outcome, over, notices, workers>>

-----------------------------------------------------------------------------
(* requestShutdown(cancel_pending): the critical section, the two           *)
(* notify_all() and the end of the local deque with the tasks in it.        *)

AfterShutdown(x) == IF x \in Tasks THEN "loop" ELSE "join"

RequestShutdown(x, cancel_pending) ==
  /\ call[x] = "stop"
  /\ ~ stopping_ /\ stopping_' = TRUE
  /\ IF cancel_pending
     THEN cancelled' = [cancelled EXCEPT ![x] = Range(tasks_)] /\ tasks_' = <<>>
     ELSE UNCHANGED <<cancelled, tasks_>>
  /\ Goto(x, "notify")
  /\ UNCHANGED <<requested, outcome, clock, notices, workers>>

AlreadyStopping(x) ==
  /\ call[x] = "stop" /\ stopping_
  /\ Goto(x, AfterShutdown(x))
  /\ UNCHANGED <<tasks_, stopping_, requested, cancelled, outcome, clock, notices, workers>>

NotifyAll(x) ==
  /\ call[x] = "notify"
  /\ wpc' = [w \in Workers |-> IF wpc[w] = "waiting" THEN "test" ELSE wpc[w]]
  /\ call' = [y \in Callers |-> IF y = x THEN "destroy"
                              ELSE IF call[y] = "asleep" THEN "loop" ELSE call[y]]
  /\ UNCHANGED <<tasks_, stopping_, requested, cancelled, outcome, clock, notices, task, inner>>

Destroy(x) ==
  /\ call[x] = "destroy"
  /\ outcome' = [t \in Tasks |-> IF t \in cancelled[x] THEN "broken" ELSE outcome[t]]
  /\ cancelled' = [cancelled EXCEPT ![x] = {}]
  /\ Goto(x, AfterShutdown(x))
  /\ UNCHANGED <<tasks_, stopping_, requested, clock, notices, workers>>

-----------------------------------------------------------------------------
(* The stoppers: requestRulesetExecutorShutdown(), shutdownRulesetExecutor() *)
(* and the plain shutdown() of the class, which sets no flag.               *)

RaiseFlag(s) ==
  /\ call[s] = "new" /\ requested' = TRUE /\ Goto(s, "stop")
  /\ UNCHANGED <<tasks_, stopping_, cancelled, outcome, clock, notices, workers>>

PlainShutdown(s) ==
  /\ call[s] = "new" /\ Goto(s, "stop")
  /\ UNCHANGED <<tasks_, stopping_, requested, cancelled, outcome, clock, notices, workers>>

Join(s) ==
  /\ call[s] = "join"
  /\ s \in Joiners => \A w \in Workers : wpc[w] = "exited"
  /\ Goto(s, "returned")
  /\ UNCHANGED <<tasks_, stopping_, requested, cancelled, outcome, clock, notices, workers>>

-----------------------------------------------------------------------------
(* The submitters: rulesetExecutor(), then submitUntil().                   *)

MayCall(t) ==
  \/ t \notin Inner /\ UNCHANGED inner
  \/ \E w \in Workers : /\ t \in Inner /\ wpc[w] = "run" /\ inner[w] = NoTask
                        /\ task[w] # t
                        /\ inner' = [inner EXCEPT ![w] = t]

Call(t) ==
  /\ call[t] = "new" /\ MayCall(t)
  /\ Goto(t, IF requested THEN "stop" ELSE "loop")
  /\ UNCHANGED <<tasks_, stopping_, requested, cancelled, outcome, clock, notices, wpc, task>>

(* Fault: a task may submit to the executor that runs it.                   *)
Rejection_NotRecursive(t) ==
  IF stopping_ THEN "Stopping"
  ELSE IF t \in over THEN "Ended"
  ELSE IF t \in late THEN "QueueFull"
  ELSE "none"

(* What a round of the loop refuses with; a thread that has waited 50 ms is *)
(* refused even if there is room by now.                                    *)
Rejection(t) ==
  IF stopping_ THEN "Stopping"
  ELSE IF t \in Inner THEN "Recursive"
  ELSE IF t \in over THEN "Ended"
  ELSE IF t \in late THEN "QueueFull"
  ELSE "none"

Reject(t) ==
  /\ call[t] = "loop" /\ Rejection(t) # "none"
  /\ outcome' = [outcome EXCEPT ![t] = Rejection(t)] /\ Goto(t, "submitted")
  /\ UNCHANGED <<tasks_, stopping_, requested, cancelled, clock, notices, workers>>

HasRoom == Len(tasks_) < queue_capacity_

Enqueue(t) ==
  /\ call[t] = "loop" /\ Rejection(t) = "none" /\ HasRoom
  /\ tasks_' = Append(tasks_, t) /\ notices' = notices + 1 /\ Goto(t, "submitted")
  /\ UNCHANGED <<stopping_, requested, cancelled, outcome, clock, workers>>

AwaitSpace(t) ==
  /\ call[t] = "loop" /\ Rejection(t) = "none" /\ ~ HasRoom
  /\ Goto(t, "asleep")
  /\ UNCHANGED <<tasks_, stopping_, requested, cancelled, outcome, clock, notices, workers>>

(* wait_until() returns after 10 ms, or at one of the deadlines.            *)
WakeSubmitter(t) ==
  /\ call[t] = "asleep" /\ Goto(t, "loop")
  /\ UNCHANGED <<tasks_, stopping_, requested, cancelled, outcome, clock, notices, workers>>

NotifyWorker ==
  /\ notices > 0 /\ notices' = notices - 1
  /\ IF \E w \in Workers : wpc[w] = "waiting"
     THEN \E w \in Workers : wpc[w] = "waiting" /\ wpc' = [wpc EXCEPT ![w] = "test"]
     ELSE UNCHANGED wpc
  /\ UNCHANGED <<tasks_, stopping_, requested, callers, outcome, clock, task, inner>>

-----------------------------------------------------------------------------
(* workerLoop().                                                           *)

Wait(w) ==
  /\ wpc[w] = "test" /\ ~ stopping_ /\ tasks_ = <<>>
  /\ wpc' = [wpc EXCEPT ![w] = "waiting"]
  /\ UNCHANGED <<tasks_, stopping_, requested, callers, outcome, clock, notices, task, inner>>

(* Fault: a stopping worker leaves what is queued.                         *)
Exit_OnStop(w) ==
  /\ wpc[w] = "test" /\ stopping_
  /\ wpc' = [wpc EXCEPT ![w] = "exited"]
  /\ UNCHANGED <<tasks_, stopping_, requested, callers, outcome, clock, notices, task, inner>>

Exit(w) ==
  /\ wpc[w] = "test" /\ stopping_ /\ tasks_ = <<>>
  /\ wpc' = [wpc EXCEPT ![w] = "exited"]
  /\ UNCHANGED <<tasks_, stopping_, requested, callers, outcome, clock, notices, task, inner>>

(* Fault: the worker looks at the front task and pops it after running it.  *)
Take_Peeks(w) ==
  /\ wpc[w] = "test" /\ tasks_ # <<>>
  /\ task' = [task EXCEPT ![w] = Head(tasks_)] /\ UNCHANGED tasks_
  /\ wpc' = [wpc EXCEPT ![w] = "space"]
  /\ UNCHANGED <<stopping_, requested, callers, outcome, clock, notices, inner>>

Take(w) ==
  /\ wpc[w] = "test" /\ tasks_ # <<>>
  /\ task' = [task EXCEPT ![w] = Head(tasks_)] /\ tasks_' = Tail(tasks_)
  /\ wpc' = [wpc EXCEPT ![w] = "space"]
  /\ UNCHANGED <<stopping_, requested, callers, outcome, clock, notices, inner>>

NotifySpace(w) ==
  /\ wpc[w] = "space" /\ wpc' = [wpc EXCEPT ![w] = "run"]
  /\ call' = [y \in Callers |-> IF call[y] = "asleep" THEN "loop" ELSE call[y]]
  /\ UNCHANGED <<tasks_, stopping_, requested, cancelled, outcome, clock, notices, task, inner>>

(* The task ends, after the future of the call it made, if any, is ready.   *)
Run(w) ==
  /\ wpc[w] = "run" /\ (inner[w] # NoTask => outcome[inner[w]] # "none")
  /\ outcome' = [outcome EXCEPT ![task[w]] = "result"]
  /\ wpc' = [wpc EXCEPT ![w] = "test"]
  /\ task' = [task EXCEPT ![w] = NoTask] /\ inner' = [inner EXCEPT ![w] = NoTask]
  /\ UNCHANGED <<tasks_, stopping_, requested, callers, clock, notices>>

-----------------------------------------------------------------------------
StopStep(x) == AlreadyStopping(x) \/ NotifyAll(x) \/ Destroy(x)

CancellingStop(x) == RequestShutdown(x, TRUE) \/ StopStep(x)

Submit(t) ==
  \/ CancellingStop(t) \/ Reject(t) \/ Enqueue(t) \/ AwaitSpace(t) \/ WakeSubmitter(t)

Stop(s) == CancellingStop(s) \/ RequestShutdown(s, FALSE) \/ Join(s)

Worker(w) == Wait(w) \/ Exit(w) \/ Take(w) \/ NotifySpace(w) \/ Run(w)

ExecutorNext ==
  \/ NotifyWorker
  \/ \E t \in Tasks : End(t) \/ Late(t) \/ Call(t) \/ Submit(t)
  \/ \E s \in Stoppers : RaiseFlag(s) \/ PlainShutdown(s) \/ Stop(s)
  \/ \E w \in Workers : Worker(w)

ExecutorSpec == ExecutorInit /\ [][ExecutorNext]_executor

(* Threads that can run do, tasks end, and 50 ms pass.                      *)
Fairness ==
  /\ WF_executor(NotifyWorker)
  /\ \A t \in Tasks : WF_executor(Submit(t)) /\ WF_executor(Late(t))
  /\ \A s \in Stoppers : WF_executor(Stop(s))
  /\ \A w \in Workers : WF_executor(Worker(w))

ExecutorFairSpec == ExecutorSpec /\ Fairness

-----------------------------------------------------------------------------
(* Properties.                                                             *)

(* Every variable has its type.                                             *)
ExecutorTypeOK ==
  /\ tasks_ \in Seq(Tasks) /\ stopping_ \in BOOLEAN /\ requested \in BOOLEAN
  /\ call \in [Callers -> CallPCs] /\ cancelled \in [Callers -> SUBSET Tasks]
  /\ outcome \in [Tasks -> Outcomes] /\ over \subseteq Tasks /\ late \subseteq Tasks
  /\ notices \in Nat /\ wpc \in [Workers -> WorkerPCs]
  /\ task \in [Workers -> Tasks \cup {NoTask}]
  /\ inner \in [Workers -> Inner \cup {NoTask}]

(* The queue never outgrows its capacity, however many submitters wait for  *)
(* the same free place.                                                     *)
WithinCapacity == Len(tasks_) <= queue_capacity_

(* An accepted task whose future is not ready is at exactly one place: the  *)
(* queue, a worker, or the local deque of one requestShutdown() call.       *)
Holders(t) ==
  {<<"queue", i>> : i \in {i \in DOMAIN tasks_ : tasks_[i] = t}}
    \cup {<<"worker", w>> : w \in {w \in Workers : task[w] = t}}
    \cup {<<"deque", x>> : x \in {x \in Callers : t \in cancelled[x]}}

OneOwner ==
  \A t \in Tasks :
    IF call[t] = "submitted" /\ outcome[t] = "none"
    THEN \E h \in Holders(t) : Holders(t) = {h}
    ELSE Holders(t) = {}

(* Queue, workers and shutdown agree about every task.                      *)
Consistent == ExecutorTypeOK /\ WithinCapacity /\ OneOwner

(* When shutdown() is back in every thread that joins, no worker is left    *)
(* and what was accepted has its outcome or is about to be destroyed by a   *)
(* submitter that won the race to stop the executor.                        *)
JoinedMeansOver ==
  (\E s \in Joiners : call[s] = "returned") =>
    /\ tasks_ = <<>> /\ \A w \in Workers : wpc[w] = "exited"
    /\ \A t \in Tasks : call[t] = "submitted" =>
         outcome[t] # "none" \/ \E x \in Callers : t \in cancelled[x]

(* Every call comes to an end: a submission gets its outcome, because no    *)
(* wakeup is lost, the queue wait ends and a task that submits to its own   *)
(* executor cannot wait for itself, and a shutdown that has begun returns.  *)
EveryCallReturns ==
  <>[]( /\ \A t \in Tasks : call[t] # "new" => outcome[t] # "none"
        /\ \A s \in Stoppers : call[s] \in {"new", "returned"} )
=============================================================================
