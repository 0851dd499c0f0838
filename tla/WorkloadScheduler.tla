------------------------- MODULE WorkloadScheduler -------------------------
(***************************************************************************)
(* WorkloadScheduler (src/src/utils/workload_scheduler.h): a bounded       *)
(* priority executor.  Any thread submits tasks, a fixed pool of workers   *)
(* takes them from three cost-class queues, and any thread may shut the    *)
(* scheduler down, cancelling what is queued or letting it drain.          *)
(*                                                                         *)
(* A step is one critical section of mutex_, or one call made outside it.  *)
(* condition_ is modelled with the set of workers blocked in wait() and    *)
(* the notify_one() calls that submitters still owe, so that a lost wakeup *)
(* would be a behaviour of the model.  Time is a logical clock: enqueued_at*)
(* is read before the lock is taken, so queue order and time order differ. *)
(***************************************************************************)
EXTENDS CostClassQueues, Sequences, FiniteSets

CONSTANTS
  Tasks,        \* the closures handed to submit()/submitAsync()
  Workers,      \* the pool started by the constructor
  Stoppers,     \* threads that call shutdown(); the destructor is one of them
  NoTask,       \* a null shared_ptr<TaskBase>
  max_entries_, max_bytes_,
  Cost,         \* Cost[t]: queueIndex(normalizedCost(cost))
  Bytes,        \* Bytes[t]: the bytes argument of submit()
  Deadline,     \* Deadline[t]: a clock value, or Never (time_point::max())
  Never,
  Cancellable,  \* the tasks submitted with a token somebody may cancel
  AgeLimit,     \* the 500 ms after which the oldest head goes first
  MaxTime       \* bound on the logical clock

ASSUME SchedulerAssumption ==
  /\ IsFiniteSet(Workers) /\ Workers # {}
  /\ NoTask \notin Tasks
  /\ max_entries_ \in Nat \ {0} /\ max_bytes_ \in Nat \ {0}
  /\ Cost \in [Tasks -> Classes] /\ Bytes \in [Tasks -> Nat]
  /\ MaxTime \in Nat /\ AgeLimit \in Nat /\ Never = MaxTime + 1
  /\ Deadline \in [Tasks -> 0 .. Never] /\ Cancellable \subseteq Tasks

VARIABLES
  queues_, queued_entries_, queued_bytes_, active_,
  accepted_, rejected_, cancelled_, credits_, next_queue_, stopping_,
  now,          \* Clock::now()
  stamp,        \* stamp[t]: task->enqueued_at
  phase,        \* phase[t]: how far the task has come
  outcome,      \* outcome[t]: the status its future or completion was given
  token,        \* the tasks whose cancellation token is set
  notices,      \* notify_one() calls that accepted submissions still owe
  wpc, held,    \* per worker: where workerLoop() is, and its local task
  spc, drained  \* per stopper: where shutdown() is, and its local task

counters == <<queued_entries_, queued_bytes_, active_, accepted_, rejected_,
              cancelled_>>
policy   == <<credits_, next_queue_>>
clock    == <<now, stamp, token>>
workers  == <<wpc, held>>
stoppers == <<spc, drained>>
vars == <<queues_, counters, policy, stopping_, clock, phase, outcome, notices,
          workers, stoppers>>

Reasons  == {"EntryLimit", "ByteLimit", "Deadline", "Cancelled", "Stopping"}
Outcomes == Reasons \cup {"Accepted", "none"}
Phases   == {"new", "stamped", "queued", "taken", "drained", "done"}
WorkerPCs  == {"test", "waiting", "holding", "running", "count", "release",
               "exited"}
StopperPCs == {"idle", "drain", "cancel", "notify", "join", "returned"}

Init ==
  /\ queues_ = [c \in Classes |-> <<>>]
  /\ queued_entries_ = 0 /\ queued_bytes_ = 0 /\ active_ = 0
  /\ accepted_ = 0 /\ rejected_ = 0 /\ cancelled_ = 0
  /\ credits_ = kWeights /\ next_queue_ = 0 /\ stopping_ = FALSE
  /\ now = 0 /\ stamp = [t \in Tasks |-> 0] /\ token = {}
  /\ phase = [t \in Tasks |-> "new"] /\ outcome = [t \in Tasks |-> "none"]
  /\ notices = 0
  /\ wpc = [w \in Workers |-> "test"] /\ held = [w \in Workers |-> NoTask]
  /\ spc = [s \in Stoppers |-> "idle"] /\ drained = [s \in Stoppers |-> NoTask]

-----------------------------------------------------------------------------
(* The environment: time passes, and requests are cancelled.               *)

Tick ==
  /\ now < MaxTime
  /\ now' = now + 1
  /\ UNCHANGED <<queues_, counters, policy, stopping_, stamp, token, phase,
                 outcome, notices, workers, stoppers>>

RequestCancellation(t) ==
  /\ t \in Cancellable \ token
  /\ token' = token \cup {t}
  /\ UNCHANGED <<queues_, counters, policy, stopping_, now, stamp, phase,
                 outcome, notices, workers, stoppers>>

-----------------------------------------------------------------------------
(* submit() and submitAsync(): the same admission, first the clock read     *)
(* outside the lock, then the critical section.  A refused task is known    *)
(* to its submitter alone, which cancels it at once.                        *)

Stamp(t) ==
  /\ phase[t] = "new"
  /\ phase' = [phase EXCEPT ![t] = "stamped"]
  /\ stamp' = [stamp EXCEPT ![t] = now]
  /\ UNCHANGED <<queues_, counters, policy, stopping_, now, token, outcome,
                 notices, workers, stoppers>>

(* Fault: the byte limit is tested without the new task's bytes.            *)
SubmitStatus_ForgetsBytes(t) ==
  IF stopping_ THEN "Stopping"
  ELSE IF t \in token THEN "Cancelled"
  ELSE IF stamp[t] >= Deadline[t] THEN "Deadline"
  ELSE IF queued_entries_ >= max_entries_ THEN "EntryLimit"
  ELSE IF queued_bytes_ >= max_bytes_ THEN "ByteLimit"
  ELSE "Accepted"

SubmitStatus(t) ==
  IF stopping_ THEN "Stopping"
  ELSE IF t \in token THEN "Cancelled"
  ELSE IF stamp[t] >= Deadline[t] THEN "Deadline"
  ELSE IF queued_entries_ >= max_entries_ THEN "EntryLimit"
  ELSE IF Bytes[t] > max_bytes_ \/ queued_bytes_ > max_bytes_ - Bytes[t]
       THEN "ByteLimit"
  ELSE "Accepted"

Accept(t) ==
  /\ phase[t] = "stamped"
  /\ SubmitStatus(t) = "Accepted"
  /\ queues_' = [queues_ EXCEPT ![Cost[t]] = Append(@, t)]
  /\ queued_entries_' = queued_entries_ + 1
  /\ queued_bytes_' = queued_bytes_ + Bytes[t]
  /\ accepted_' = accepted_ + 1
  /\ phase' = [phase EXCEPT ![t] = "queued"]
  /\ notices' = notices + 1
  /\ UNCHANGED <<active_, rejected_, cancelled_, policy, stopping_, clock,
                 outcome, workers, stoppers>>

Refuse(t) ==
  /\ phase[t] = "stamped"
  /\ SubmitStatus(t) # "Accepted"
  /\ rejected_' = rejected_ + 1
  /\ outcome' = [outcome EXCEPT ![t] = SubmitStatus(t)]
  /\ phase' = [phase EXCEPT ![t] = "done"]
  /\ UNCHANGED <<queues_, queued_entries_, queued_bytes_, active_, accepted_,
                 cancelled_, policy, stopping_, clock, notices, workers,
                 stoppers>>

(* Fault: the notification of an accepted submission is forgotten.          *)
NotifyOne_Forgotten ==
  /\ notices > 0
  /\ notices' = notices - 1
  /\ UNCHANGED <<queues_, counters, policy, stopping_, clock, phase, outcome,
                 workers, stoppers>>

(* condition_.notify_one(), after the lock is released: it wakes one of the *)
(* workers blocked at that moment, and is lost if there is none.            *)
NotifyOne ==
  /\ notices > 0
  /\ notices' = notices - 1
  /\ IF \E w \in Workers : wpc[w] = "waiting"
     THEN \E w \in Workers : /\ wpc[w] = "waiting"
                             /\ wpc' = [wpc EXCEPT ![w] = "test"]
     ELSE wpc' = wpc
  /\ UNCHANGED <<queues_, counters, policy, stopping_, clock, phase, outcome,
                 held, stoppers>>

-----------------------------------------------------------------------------
(* takeTaskLocked() and popLocked(), called with mutex_ held.              *)

NonEmpty == {c \in Classes : queues_[c] # <<>>}

IsOldest(c) ==
  /\ c \in NonEmpty
  /\ \A d \in NonEmpty :
       \/ stamp[Head(queues_[c])] < stamp[Head(queues_[d])]
       \/ stamp[Head(queues_[c])] = stamp[Head(queues_[d])] /\ c <= d

Aged(c) == IsOldest(c) /\ now - stamp[Head(queues_[c])] >= AgeLimit

PopAged(c) == Aged(c) /\ UNCHANGED policy

PopCredited(c) ==
  /\ \A d \in NonEmpty : ~ Aged(d)
  /\ LET refilled == Refilled(credits_, NonEmpty) IN
     \E k \in 0 .. 5 :
       /\ SkipsTo(refilled, NonEmpty, next_queue_, k)
       /\ c = Attempt(next_queue_, k)
       /\ credits_' = [refilled EXCEPT ![c] = @ - 1]
       /\ next_queue_' = Attempt(next_queue_, k + 1)

popLocked(w, c) ==
  /\ held' = [held EXCEPT ![w] = Head(queues_[c])]
  /\ phase' = [phase EXCEPT ![Head(queues_[c])] = "taken"]
  /\ queues_' = [queues_ EXCEPT ![c] = Tail(@)]
  /\ queued_entries_' = queued_entries_ - 1
  /\ queued_bytes_' = queued_bytes_ - Bytes[Head(queues_[c])]
  /\ active_' = active_ + 1

-----------------------------------------------------------------------------
(* workerLoop(): test the predicate under the lock, then wait, return or    *)
(* take; judge the task; run or cancel it; account for it.                  *)

Wait(w) ==
  /\ wpc[w] = "test"
  /\ ~ stopping_ /\ queued_entries_ = 0
  /\ wpc' = [wpc EXCEPT ![w] = "waiting"]
  /\ UNCHANGED <<queues_, counters, policy, stopping_, clock, phase, outcome,
                 notices, held, stoppers>>

Exit(w) ==
  /\ wpc[w] = "test"
  /\ stopping_ /\ queued_entries_ = 0
  /\ wpc' = [wpc EXCEPT ![w] = "exited"]
  /\ UNCHANGED <<queues_, counters, policy, stopping_, clock, phase, outcome,
                 notices, held, stoppers>>

Take(w) ==
  /\ wpc[w] = "test"
  /\ queued_entries_ # 0
  /\ \E c \in NonEmpty : (PopAged(c) \/ PopCredited(c)) /\ popLocked(w, c)
  /\ wpc' = [wpc EXCEPT ![w] = "holding"]
  /\ UNCHANGED <<accepted_, rejected_, cancelled_, stopping_, clock, outcome,
                 notices, stoppers>>

Start(w) ==
  /\ wpc[w] = "holding"
  /\ held[w] \notin token /\ now < Deadline[held[w]]
  /\ wpc' = [wpc EXCEPT ![w] = "running"]
  /\ UNCHANGED <<queues_, counters, policy, stopping_, clock, phase, outcome,
                 notices, held, stoppers>>

Complete(w, status, next) ==
  /\ outcome' = [outcome EXCEPT ![held[w]] = status]
  /\ phase' = [phase EXCEPT ![held[w]] = "done"]
  /\ held' = [held EXCEPT ![w] = NoTask]
  /\ wpc' = [wpc EXCEPT ![w] = next]
  /\ UNCHANGED <<queues_, counters, policy, stopping_, clock, notices, stoppers>>

(* run(): the value or the exception of the function, either is Accepted.   *)
Run(w) == wpc[w] = "running" /\ Complete(w, "Accepted", "release")

(* Fault: a task that was cancelled is run all the same.                    *)
CancelTaken_FallsThrough(w) ==
  /\ wpc[w] = "holding"
  /\ held[w] \in token \/ now >= Deadline[held[w]]
  /\ outcome' = [outcome EXCEPT ![held[w]] = "Cancelled"]
  /\ wpc' = [wpc EXCEPT ![w] = "running"]
  /\ UNCHANGED <<queues_, counters, policy, stopping_, clock, phase, notices,
                 held, stoppers>>

CancelTaken(w) ==
  /\ wpc[w] = "holding"
  /\ \/ held[w] \in token /\ Complete(w, "Cancelled", "count")
     \/ /\ held[w] \notin token /\ now >= Deadline[held[w]]
        /\ Complete(w, "Deadline", "count")

CountCancelled(w) ==
  /\ wpc[w] = "count"
  /\ cancelled_' = cancelled_ + 1
  /\ wpc' = [wpc EXCEPT ![w] = "release"]
  /\ UNCHANGED <<queues_, queued_entries_, queued_bytes_, active_, accepted_,
                 rejected_, policy, stopping_, clock, phase, outcome, notices,
                 held, stoppers>>

Release(w) ==
  /\ wpc[w] = "release"
  /\ active_' = active_ - 1
  /\ wpc' = [wpc EXCEPT ![w] = "test"]
  /\ UNCHANGED <<queues_, queued_entries_, queued_bytes_, accepted_, rejected_,
                 cancelled_, policy, stopping_, clock, phase, outcome, notices,
                 held, stoppers>>

-----------------------------------------------------------------------------
(* shutdown(cancel_pending) = requestShutdown(cancel_pending); join().      *)
(* The first caller zeroes the counters at once and then cancels the queued *)
(* tasks one lock acquisition at a time; later callers only join, and so    *)
(* does the destructor after an explicit shutdown().                        *)

(* Fault: a cancelling shutdown leaves queued_entries_ to the pops.         *)
RequestShutdown_KeepsEntries(s, cancel_pending) ==
  /\ spc[s] = "idle" /\ ~ stopping_
  /\ stopping_' = TRUE
  /\ cancelled_' = IF cancel_pending THEN cancelled_ + queued_entries_
                                     ELSE cancelled_
  /\ spc' = [spc EXCEPT ![s] = IF cancel_pending THEN "drain" ELSE "notify"]
  /\ UNCHANGED <<queues_, queued_entries_, queued_bytes_, active_, accepted_,
                 rejected_, policy, clock, phase, outcome, notices, workers,
                 drained>>

RequestShutdown(s, cancel_pending) ==
  /\ spc[s] = "idle" /\ ~ stopping_
  /\ stopping_' = TRUE
  /\ IF cancel_pending
     THEN /\ cancelled_' = cancelled_ + queued_entries_
          /\ queued_entries_' = 0 /\ queued_bytes_' = 0
          /\ spc' = [spc EXCEPT ![s] = "drain"]
     ELSE /\ UNCHANGED <<cancelled_, queued_entries_, queued_bytes_>>
          /\ spc' = [spc EXCEPT ![s] = "notify"]
  /\ UNCHANGED <<queues_, active_, accepted_, rejected_, policy, clock, phase,
                 outcome, notices, workers, drained>>

ShutdownAgain(s) ==
  /\ spc[s] \in {"idle", "returned"} /\ stopping_
  /\ spc' = [spc EXCEPT ![s] = "join"]
  /\ UNCHANGED <<queues_, counters, policy, stopping_, clock, phase, outcome,
                 notices, workers, drained>>

DrainOne(s) ==
  /\ spc[s] = "drain"
  /\ \E c \in NonEmpty :
       /\ \A d \in NonEmpty : c <= d
       /\ drained' = [drained EXCEPT ![s] = Head(queues_[c])]
       /\ phase' = [phase EXCEPT ![Head(queues_[c])] = "drained"]
       /\ queues_' = [queues_ EXCEPT ![c] = Tail(@)]
  /\ spc' = [spc EXCEPT ![s] = "cancel"]
  /\ UNCHANGED <<counters, policy, stopping_, clock, outcome, notices, workers>>

CancelDrained(s) ==
  /\ spc[s] = "cancel"
  /\ outcome' = [outcome EXCEPT ![drained[s]] = "Stopping"]
  /\ phase' = [phase EXCEPT ![drained[s]] = "done"]
  /\ drained' = [drained EXCEPT ![s] = NoTask]
  /\ spc' = [spc EXCEPT ![s] = "drain"]
  /\ UNCHANGED <<queues_, counters, policy, stopping_, clock, notices, workers>>

DrainDone(s) ==
  /\ spc[s] = "drain" /\ NonEmpty = {}
  /\ spc' = [spc EXCEPT ![s] = "notify"]
  /\ UNCHANGED <<queues_, counters, policy, stopping_, clock, phase, outcome,
                 notices, workers, drained>>

(* Fault: shutdown wakes one worker instead of all.                         *)
NotifyAll_One(s) ==
  /\ spc[s] = "notify"
  /\ \/ \E w \in Workers : /\ wpc[w] = "waiting"
                             /\ wpc' = [wpc EXCEPT ![w] = "test"]
     \/ (\A w \in Workers : wpc[w] # "waiting") /\ wpc' = wpc
  /\ spc' = [spc EXCEPT ![s] = "join"]
  /\ UNCHANGED <<queues_, counters, policy, stopping_, clock, phase, outcome,
                 notices, held, drained>>

NotifyAll(s) ==
  /\ spc[s] = "notify"
  /\ wpc' = [w \in Workers |-> IF wpc[w] = "waiting" THEN "test" ELSE wpc[w]]
  /\ spc' = [spc EXCEPT ![s] = "join"]
  /\ UNCHANGED <<queues_, counters, policy, stopping_, clock, phase, outcome,
                 notices, held, drained>>

Join(s) ==
  /\ spc[s] = "join"
  /\ \A w \in Workers : wpc[w] = "exited"
  /\ spc' = [spc EXCEPT ![s] = "returned"]
  /\ UNCHANGED <<queues_, counters, policy, stopping_, clock, phase, outcome,
                 notices, workers, drained>>

-----------------------------------------------------------------------------
Submitter(t) == Stamp(t) \/ Accept(t) \/ Refuse(t)

Worker(w) ==
  \/ Wait(w) \/ Exit(w) \/ Take(w) \/ Start(w) \/ Run(w) \/ CancelTaken(w)
  \/ CountCancelled(w) \/ Release(w)

Stopper(s) ==
  \/ \E cancel_pending \in BOOLEAN : RequestShutdown(s, cancel_pending)
  \/ ShutdownAgain(s) \/ DrainOne(s) \/ CancelDrained(s) \/ DrainDone(s)
  \/ NotifyAll(s) \/ Join(s)

Next ==
  \/ Tick \/ NotifyOne
  \/ \E t \in Tasks : Submitter(t) \/ RequestCancellation(t)
  \/ \E w \in Workers : Worker(w)
  \/ \E s \in Stoppers : Stopper(s)

Spec == Init /\ [][Next]_vars

ShutdownStep(s) ==
  \/ DrainOne(s) \/ CancelDrained(s) \/ DrainDone(s) \/ NotifyAll(s) \/ Join(s)

(* Threads that can run do run: submissions are decided, and as long as a   *)
(* notification, a worker or a shutdown in progress can move, one of them   *)
(* does.  That is less than the scheduler of the operating system gives     *)
(* each thread, and enough.  Nobody has to submit, cancel or shut down.     *)
Fairness ==
  /\ WF_vars(\E t \in Tasks : Accept(t) \/ Refuse(t))
  /\ WF_vars(\/ NotifyOne \/ \E w \in Workers : Worker(w)
             \/ \E s \in Stoppers : ShutdownStep(s))

FairSpec == Spec /\ Fairness

-----------------------------------------------------------------------------
(* Properties.                                                             *)

QueuesOK == queues_ \in [Classes -> Seq(Tasks)] /\ stopping_ \in BOOLEAN

CountersOK ==
  /\ queued_entries_ \in Nat /\ queued_bytes_ \in Int /\ active_ \in Int
  /\ accepted_ \in Nat /\ rejected_ \in Nat /\ cancelled_ \in Nat
  /\ notices \in Nat

PolicyOK == credits_ \in Credits /\ next_queue_ \in Classes

ClockOK ==
  /\ now \in 0 .. MaxTime /\ stamp \in [Tasks -> 0 .. MaxTime]
  /\ token \subseteq Cancellable

ThreadsOK ==
  /\ phase \in [Tasks -> Phases] /\ outcome \in [Tasks -> Outcomes]
  /\ wpc \in [Workers -> WorkerPCs] /\ held \in [Workers -> Tasks \cup {NoTask}]
  /\ spc \in [Stoppers -> StopperPCs]
  /\ drained \in [Stoppers -> Tasks \cup {NoTask}]

(* Every variable has its type.                                             *)
TypeOK == QueuesOK /\ CountersOK /\ PolicyOK /\ ClockOK /\ ThreadsOK

QueuedTasks == {t \in Tasks : phase[t] = "queued"}

Draining == \E s \in Stoppers : spc[s] \in {"drain", "cancel"}

TotalQueued == Len(queues_[0]) + Len(queues_[1]) + Len(queues_[2])

(* The bytes of a set of tasks, one element for each of them.              *)
BytesOf(S) == UNION {{t} \X (1 .. Bytes[t]) : t \in S}

SumBytes(S) == Cardinality(BytesOf(S))

(* queued_entries_, which admission and the wait predicate read, is the     *)
(* number of tasks in the deques, except while a cancelling shutdown        *)
(* empties them: then it is zero already.                                   *)
EntriesMatch ==
  queued_entries_ = IF Draining THEN 0 ELSE TotalQueued

(* queued_bytes_ is likewise the sum of the queued tasks' sizes: the        *)
(* subtraction in popLocked() never wraps, and an idle scheduler has its    *)
(* whole byte budget back.                                                  *)
BytesMatch ==
  queued_bytes_ = IF Draining THEN 0 ELSE SumBytes(QueuedTasks)

(* Neither limit is exceeded, whatever order submissions, pops and shutdown *)
(* happen in.                                                               *)
WithinLimits == queued_entries_ <= max_entries_ /\ queued_bytes_ <= max_bytes_

Slots(t) == {slot \in Classes \X (1 .. max_entries_) :
               slot[2] <= Len(queues_[slot[1]]) /\ queues_[slot[1]][slot[2]] = t}

Owners(t) == Cardinality(Slots(t))
             + Cardinality({w \in Workers : held[w] = t})
             + Cardinality({s \in Stoppers : drained[s] = t})

(* An accepted task without an outcome is in exactly one place: a slot of   *)
(* one deque, the hands of one worker, or the hands of the thread that      *)
(* shuts down.  Nothing is dropped and nothing is handled twice.            *)
OneOwner ==
  \A t \in Tasks :
    Owners(t) =
      IF phase[t] \in {"queued", "taken", "drained"} THEN 1 ELSE 0

(* A promise or completion is settled at most once, so the catch in Task    *)
(* and the exchange in CallbackTask::complete() never have to hide a second *)
(* attempt.                                                                 *)
SettledOnce ==
  [][\A t \in Tasks : outcome[t] # "none" => outcome'[t] = outcome[t]]_vars

(* While a cancelling shutdown empties the deques, no worker takes a queued *)
(* task any more, although the tasks are still in the deques when the lock  *)
(* is free between two pops.                                                *)
DrainIsExclusive ==
  [][Draining => \A t \in QueuedTasks : phase'[t] \in {"queued", "drained"}]_vars

Quiet ==
  /\ \A w \in Workers : wpc[w] \in {"test", "waiting", "exited"}
  /\ ~ Draining

(* Whenever no task is in hand, the statistics add up: every accepted task  *)
(* is queued, was run or was counted as cancelled, active_ is zero, and     *)
(* every refused one was counted.                                           *)
StatisticsBalance ==
  Quiet =>
    /\ active_ = 0
    /\ accepted_ = queued_entries_ + cancelled_
                     + Cardinality({t \in Tasks : outcome[t] = "Accepted"})
    /\ accepted_ + rejected_
         = Cardinality({t \in Tasks : phase[t] \notin {"new", "stamped"}})

(* All of the accounting together: what admission reads, the byte budget,   *)
(* the statistics, and who has each task.                                   *)
Accounted == EntriesMatch /\ BytesMatch /\ StatisticsBalance /\ OneOwner

(* When every thread that called shutdown() is back, the workers are gone   *)
(* and no accepted task is left without an outcome.                         *)
ShutdownSettlesAll ==
  stopping_ /\ (\A s \in Stoppers : spc[s] \in {"idle", "returned"}) =>
    /\ \A w \in Workers : wpc[w] = "exited"
    /\ \A t \in Tasks : phase[t] \in {"new", "stamped", "done"}

(* Every submission is answered in the end: no wakeup is lost between the   *)
(* predicate test and the wait, no class is starved for ever, no task is    *)
(* forgotten by a shutdown.  (Each task is submitted once and an outcome    *)
(* stays, so this says the same as a leads-to for every task.)              *)
EveryTaskSettled ==
  <>[](\A t \in Tasks : phase[t] # "new" => outcome[t] # "none")

(* A shutdown ends: all workers leave workerLoop(), and every caller        *)
(* returns, each time that it calls.                                        *)
ShutdownTerminates ==
  \A s \in Stoppers :
    []<>(stopping_ => /\ \A w \in Workers : wpc[w] = "exited"
                      /\ spc[s] \in {"idle", "returned"})
=============================================================================
