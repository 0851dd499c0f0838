# A TLA+ model of SubConverter-Extended

SubConverter-Extended is an HTTP service that fetches proxy subscriptions,
parses them and renders configuration files. The conversion itself is a pure
transformation of text. What makes the program hard is around it: requests that
share work, work that outlives the request it was started for, clients that go
away at any moment, bounded queues and permits, shutdown, files that must
survive a crash, and an updater that replaces the program while it can be
interrupted. This project models those parts, checks them with TLC on small
instances and proves the central invariants with TLAPS for all sizes.

Paths below are relative to the repository, with `src/` in front as in
`PROJECT.json`: the C++ code is under `src/src/`.

## 1. Inventory

How the parts work together for one request to `/sub`:

1. The server session (Beast) creates a *request context* with a deadline and a
   cancellation state. The timer, the socket observer and the shutdown cancel it.
2. `convertSubscriptionAsync()` looks into the response cache, joins a call that
   is in flight for the same key, or becomes its owner and submits the
   conversion to the *workload scheduler*.
3. The conversion runs under a *CPU permit*, which it gives up while it waits.
   It fetches through `webGetOwnedAsync()`, which shares a *cache fetch
   operation* among all requests for a resource, and commits the result to the
   *cache storage*. All transfers are driven by the one worker thread of the
   *curl multi engine*. Rulesets are fetched through the *bounded executor*.
4. The response is sent and `finalizeResponse()` decides how the request ended;
   the conversion is counted in the *usage statistics*, which a thread of their
   own writes to disk.

| Component | State | Operations | Hard behaviour | What makes it correct |
|---|---|---|---|---|
| Workload scheduler (`utils/workload_scheduler.h`) | three deques, entry and byte counters, credits, condition variable | submit, submitAsync, worker loop, shutdown (drain or cancel), join | lost wakeups, shutdown that releases the lock between pops | limits hold, every task has one owner and one outcome, shutdown ends |
| Single-flight cache fetch (`handler/webget.cpp`) | registry, operation with consumer count and subscribers, consumer record | join, subscribe, detach, publish, erase | three kinds of threads, window between attach and hand-over | count exact, one operation per key, every consumer answered once |
| curl multi engine (`handler/webget.cpp`) | transfers pending, active and delayed, their counters, prune flag, wake generation, stop flags | construct, submit, worker loop, retry, cancel, deadline, shutdown | a flag set before the queue changes, a notification without the lock, shutdown during construction | a transfer is in one place, every transfer ends, no thread outlives the shutdown |
| Cache storage (`handler/cache_storage.cpp`) | body, header and marker files | update, read headers | crash or failed write between files | readable headers belong to the body |
| Request context (`server/request_context.h`) | reason, callbacks, drain flag, outcome | cancel, register, reset, finalizeResponse | cancel against register, against send, against finish | no callback left behind, outcome fits |
| CPU permits (`utils/cooperative_cpu.h`) | active, waiting, limit; a lease per flow | acquire, release, wait without permit, set limit, shutdown | exceptions while a permit is given up, moving limit | permits counted exactly, whoever runs holds one |
| Bounded executor (`utils/bounded_executor.h`, `handler/multithread.cpp`) | queue, stop flag, shutdown flag | submitUntil, worker loop, shutdown, join | calls from inside a task, two stoppers | one owner, every call returns |
| Short links (`handler/short_link_storage.cpp`) | records in memory and in a file | create, update, delete, prune, resolve, load | failing writes and reads, restart | memory is backed by the file, confirmations hold |
| Single flight of `/sub` (`handler/interfaces.cpp`) | call per key, consumers, gauges, response cache | join, own, retry, publish, detach | owner leaves, last consumer leaves, retry | answered once, nobody harmed by who leaves |
| Usage statistics (`handler/statistics.cpp`, `handler/statistics_v2.cpp`) | counters, buckets, windows, dirty marks; two checkpoints and a log | record, advance, checkpoint, append, compact, load, repair, recover, stop | crash or failure between any two file operations, counting during a write | nothing reported as written is lost, windows fit their buckets |
| Portable updater (`bridge/cmd/portable-updater`) | program directories, journal | apply, rollback, recover | crash and failure at every file operation | a startable root, nothing lost, recovery possible |

The other components are listed in `PROJECT.json` under `components`, each with
the reason why it is not modelled; section 7 sums them up.

## 2. Modules

| Module | Models | Proofs |
|---|---|---|
| `CostClassQueues` | credit and round-robin policy of `takeTaskLocked` as operators | in `WorkloadSchedulerProofs` |
| `WorkloadScheduler` | the scheduler; uses `CostClassQueues` | `WorkloadSchedulerProofs` |
| `Coalescing` | nothing of the code: what a single flight promises its clients | through its two implementations |
| `CacheFetch` | `webGetOwnedAsync()`, `webGetOwned()` and `CacheFetchOperation` for one key; implements `Coalescing` | `CacheFetchProofs` |
| `CurlMultiEngine` | `CurlMultiEngine` and `requestOutboundFetchShutdown()` | `WebGetProofs` |
| `CacheStorage` | `updateCacheFiles()` with a visible and a durable directory | `WebGetProofs` |
| `RequestCancellation` | `RequestCancellationState`, `finalizeResponse()` | `RequestCancellationProofs` |
| `CpuPermits` | `CpuPermitGate`, leases, `waitWithoutCpuPermit()` | `ThreadLimitProofs` |
| `BoundedExecutor` | `BoundedExecutor` and `rulesetExecutor()` | `ThreadLimitProofs` |
| `ShortLinks` | the short-link store | `PersistenceProofs` |
| `SubSingleFlight` | `convertSubscriptionAsync()`; implements `Coalescing` | `SubSingleFlightProofs` |
| `StatisticsCore` | the counters in memory, as operators on a record | `PersistenceProofs` |
| `StatisticsStore` | checkpoints, log and the thread that writes them; extends `StatisticsCore` | `PersistenceProofs` |
| `PortableUpdater` | `apply()`, `rollback()`, `recover()` | `PortableUpdaterProofs` |

`MC<module>` gives constants their values where a configuration file cannot.
An action is a critical section, an atomic access or a system call: whatever the
code can be interrupted between. Local variables of a thread are functions over
threads, with a program counter named after the point in the code. `PROJECT.json`
maps every definition to the lines it models.

Definitions called `X_Something` with a comment "Fault:" are not part of any
specification. Each is a plausible mistake in the code behind `X`; putting it in
place of `X` makes TLC report the property it belongs to, which shows that the
property depends on that code.

### WorkloadScheduler

Variables: the deques (per class), `queued_entries_`, `queued_bytes_`, credits
and cursor, the counters of the statistics, per worker its step and task, per
stopper its step, per task its state and outcome, the time. `Accept`, `Refuse`
and `NotifyOne` are `submit()`/`submitAsync()` (the notification comes after the
unlock); `Wait`, `Take`, `Start`, `Run`, `CancelTaken`, `Release`, `Exit` are the
worker loop; `RequestShutdown`, `DrainOne`, `CancelDrained`, `NotifyAll`, `Join`
the shutdown. A wait is a step to sleep, woken by a notification.

### Coalescing

Clients, and flights that are open, landed or dropped. A flight for a resource
is launched only when no other can be joined; it is dropped only when everybody
who waits for it has left; a client is answered once, with the result of its
flight or as cancelled if it has left. There are no locks, counts or callbacks.
`CacheFetch` and `SubSingleFlight` each instantiate it with a refinement mapping
and check `ImplementsCoalescing`, the abstract specification, as a property:
whatever a caller, a canceller and a publisher do to each other's records, seen
from outside it is one of these steps or nothing.

### CacheFetch

For one registry key: per operation its consumer count, subscribers, `done_`,
`abandoned_`, result and stage of work; per request the caller's locals, the
consumer record and the completion. The caller, the completer (canceller or
publisher) and the worker of an operation interleave. The work is a few stages:
whether the abandoned flag is looked at before or after a stage matters, what
the stage computes does not. `webGetOwned()` shares the loop around
`attachConsumer()` and then differs: its owner fetches itself, the others block
in `wait()`, and two destructors clean up. The kind of owner is part of the
registry key, so synchronous and asynchronous requests never share an operation
and a behaviour has one kind.

### CurlMultiEngine

`pending_`, `delayed_` and `active_` with their counters, the worker's label and
locals, labels for `submit()` and for the threads in `shutdown()`. The worker
holds `mutex_` over several steps only while it decides to sleep. Three things
are delicate and each has its own step: the cancellation callback sets
`pending_prune_requested_` and may run before `submit()` has put the transfer
into the queue; `wakeWorker()` notifies without `mutex_`, so that a worker about
to sleep is missed (`wake_generation_` is abstracted to "has moved on since the
worker read it"); and the constructor publishes the instance and then reads the
shutdown flag, while `requestOutboundFetchShutdown()` sets the flag and then
reads the instance. Passing time is an event: `Expire` for a deadline, `Due` for
a retry time.

### StatisticsStore

`files` is what the process sees, `disk` has for every file all contents that a
power failure may leave. A log record is whole or torn. The one thread is first
`initialize()`, then the worker loop; requests count while it waits, renames,
flushes or appends, the only points where its steps and theirs do not commute.
File operations fail, the process is killed, power fails. `disk.late` names the
checkpoint files whose rename may not have reached the disk and that nobody
synchronises any more, because the process was killed between `rename()` and the
sync of the directory or did not look at the failed sync; the behaviour goes on
with such a directory. `excused` records what the code does lose, and ends the
behaviour there: a power failure that undoes a late rename, a start that could
not open or read the files, and a roll-back that empties the log because its size
could not be found out (section 4).

### CacheStorage

`visible` is what a running process sees, `disk` what survives a power failure;
a rename changes the first, a directory sync copies it to the second, and
`PowerFailure` may keep or lose what is not synchronised. `ResultHonest`,
`CrashConsistent` and `CompleteIsDurable` are about the order marker, body,
headers, removal of the marker. `blind` remembers that the marker could be
neither written nor inspected: the update then answers that the headers are
invalidated without knowing, and `ResultHonest` asks only that the old pair is
there as before. In every other case headers that are called invalidated cannot
be read. `flushCache()` has no caller and is left out.

### RequestCancellation

One request, cancelling threads, finalizing threads and registered callbacks.
Atomics are taken to be sequentially consistent. `overdue` names the finalizers
that were called after the deadline had passed, `winner` the one whose outcome
stands; both are history.

### CpuPermits

Flows acquire, block without the permit, resume, are refused, unwind, or catch
the refusal and go on without a permit (as template rendering does). `under[f]`
is the limit a permit was given under and `older[f]` the permits given before it
that are still out; `NeverOverdrawn` compares the two for every permit, so it also
speaks of a limit that was lowered below the permits that are out.

### BoundedExecutor

Calls of `submitUntil()`, some of them made by a running task, workers, and
shutdown by `main()` or by a submitter that finds the shutdown flag.

### ShortLinks

`records` in memory and `file`; reading and writing may fail, the process may
restart. History variables record what was confirmed to clients.

### SubSingleFlight

A call is named after the request that owns it. The request's thread, its
cancellation callback and the publisher of a call interleave; the conversion is
a step with any outcome. The scheduler is used as `WorkloadScheduler` describes
it: a submission is refused, or settled exactly once.

### PortableUpdater

`place` says which release every directory holds, `pending` is the journal. The
exchange is one step plus a sync on Linux and three renames on Windows. Every
file operation may fail, with the partial effects it can have, the process may
die anywhere, and a validation may turn out either way each time.

## 3. Runs

| Run | Instance | What it shows |
|---|---|---|
| `workload_scheduler` | 3 tasks of different class and size (two fill both limits, one is too large), 2 workers, 1 thread that shuts down any number of times, 2 entries, 3 bytes, deadline and ageing | `Accounted` (counters and a single owner per task), `WithinLimits`, `SettledOnce`; `EveryTaskSettled` and `ShutdownTerminates`: no wakeup is lost |
| `cache_fetch` | 2 requests, both cancellable, 3 operations, either kind | `Consistent` (count, registry), `ConsumerAnswered`, `ImplementsCoalescing` |
| `cache_storage` | 4 updates | `CrashConsistent`, `CompleteIsDurable`, `ResultHonest` |
| `request_cancellation` | 1 canceller, 1 finalizer (which also cancels), 2 callbacks | `Consistent`, `EndIsHonest` (a request is counted once, a success was sent in full and before the deadline passed, a request that ended as cancelled leaves its work cancelled), `SendingIsSpared`, `CallbacksDelivered` |
| `cpu_permits` | 3 flows, limits 1 and 2 | `PermitsMatch`, `RunsWithPermit`, `NeverOverdrawn`, `AcquireReturns` |
| `bounded_executor` | 2 calls and 2 calls from inside a task, 2 workers, queue of 1, 1 stopper | `Consistent`, `JoinedMeansOver`, `EveryCallReturns` |
| `short_links` | 3 codes, 2 URLs, 2 times, 2 entries | `MemoryIsOnDisk`, `ConfirmedSurvives`, `DeletedStaysDeleted` |
| `sub_single_flight` | 2 requests, 1 cacheable key | `Consistent`, `WorkIsWanted`, `AnsweredUnlessWorking`, `ImplementsCoalescing` |
| `portable_updater` | 3 releases, both platforms | `RootIsSound`, `Journalled`, `InterruptedExchangeRecovers` |
| `portable_updater_stuck` | 2 releases, Linux | violates `Reconcilable` (section 4) |
| `curl_engine` | 2 transfers, one cancellable, 1 handle, 1 retry, 1 thread that requests shutdown | `TransfersAccounted`, `NothingOutlivesShutdown`, `CancellationNoticed`, `EverythingEnds` |
| `statistics_store` | 2 conversions, ring of 2 minutes and a window over both, 3 generations, 2 log records, 1 failing operation, 2 process starts | `UnmarkedIsWritten`, `NothingLost`, `WindowIsSum`, `ShutdownWrites` |

Why the bounds are enough. The interesting cases need an actor of each kind and
one more to interfere: two workers and a stopper, a follower besides the owner,
a callback registered while another is delivered. The limits are chosen so that
they are reached (three tasks for two places; a task larger than the byte limit;
a queue of one). `MaxOps = 3` lets a retry replace an operation twice; two
requests create at most that many in every run. `MaxVersion = 4` allows an
update after a failed, after a complete update. Three releases allow an update
after a rollback. `MaxTime`, `Never` and `AgeLimit` let a task be fresh, aged or
past its deadline. In the engine one handle for two transfers makes one wait in
`pending_`, and one retry puts it into `delayed_`; three transfers without the
liveness property were checked by hand (15 million states, no error). In the
statistics a ring of two minutes wraps within `MaxTime`, three generations write
each of the two checkpoint files once and one of them again, and one fault with
two starts allows a failure before or after a crash. In the cancellation one
finalizer that also cancels is enough for the liveness property; two finalizers
with one callback were checked by hand without it (6 million states, no error).
Time, operations, updates, generations, log records, faults and starts are cut
off; everything else is finite by itself.

Deadlock is checked where the system should always be able to go on
(`cache_storage`, `cpu_permits`, `short_links`, `sub_single_flight`) and switched
off where it may stop: a scheduler or executor that was shut down, requests that
have all been answered, an engine that was stopped, an installation that is up
to date, a process that was started as often as the bound allows.

### Fairness

- `WorkloadScheduler`, `BoundedExecutor`: a worker that can go on does, a
  notification that is owed is made, a shutdown that was started continues, and
  a running task ends. These are threads of the process and the tasks are
  bounded by deadlines. Nobody has to submit or to shut down. For the scheduler
  it is enough that one of them moves as long as one can.
- `CacheFetch`: a call that has begun runs to its end, cancellation callbacks
  run, continuations are run by the scheduler, and every transfer ends because
  the engine ends it (`EverythingEnds`). Nobody has to call or to cancel.
- `CurlMultiEngine`: the worker, the constructor, threads inside `submit()` and
  `shutdown()`, callbacks; and time passes, so that deadlines expire (every fetch
  has a finite one, `networkFetchDeadline()`) and retries fall due. The network
  owes nothing: no transfer has to finish by itself.
- `RequestCancellation`: a thread inside `cancel()` or a registration leaves it.
- `CpuPermits`: a flow inside `acquire()` is scheduled; the 25 ms poll of
  `wait_for` is the step `WakeUp`.
- `SubSingleFlight`: request threads, callbacks and publishers run. Nothing is
  assumed about the conversion, so a request may wait as long as the work it
  shares does, and `AnsweredUnlessWorking` says that it waits for nothing else.

No run needs strong fairness.

## 4. Findings and observations

Finding: `portable_updater_stuck` (`src/bridge/cmd/portable-updater/install.go:156`).
The old root is moved away from the path the journal names before the journal
is removed. If the process dies in between, or the directory sync fails,
`recover()` refuses for ever, and with it `apply()`, `rollback()` and the
launcher.

Observations: what the code does where no document says otherwise.

- `webget.cpp:235`. If the last consumer leaves between the continuation's look
  at its token and `publish()`, an operation is both done and abandoned.
  `attachConsumer()` tests `done_` first and lets a later request join it as
  completed; `subscribe()` tests `abandoned_` first and drops the callback. That
  request was never counted as a consumer, so `ConsumerAnswered` does not speak
  of it. Nobody else keeps the consumer alive (the cancellation callback has a weak
  reference, `webget.cpp:4082`), so it is destroyed with its completion and the
  request is never answered by it, not by a cancellation or deadline either.
- `webget.cpp:3549`. An update that can neither write the marker nor find out
  whether there is one answers `UnchangedHeadersInvalidated`, and the caller logs
  `headers=invalidated`; if there was none the old headers are still readable.
  They belong to the body, so nothing wrong is served. `ResultHonest` excepts the
  case as `blind`.
- `webget.cpp:3739`. The owner of a synchronous fetch works under its own
  deadline and cancellation, and its failure is everybody's: a follower with a
  patient client is answered with the failure of an owner whose client left.
  Asynchronous operations have a token of their own.
- `short_link_storage.cpp:278`. A creation whose write fails takes back the new
  link but not the pruning it did before.
- `webget.cpp`, engine: a cancellation callback that runs before `submit()` has
  queued its transfer can be used up by a prune of the queue without it. The
  transfer is then noticed when a handle is free, or at its deadline
  (`CancellationNoticed` excepts it as `early`). A missed `wakeWorker()` delays a
  cancelled transfer in `delayed_` until its retry time, never for ever.
- `statistics.cpp:882`. A start that cannot open or read the store, for instance
  because the old process still holds the lock, counts from zero, and the later
  recovery writes these counters over the files. `NothingLost` is about starts
  that could load.
- `statistics_v2.cpp:1663`. If the process is killed between the rename of a
  checkpoint (1559) and the sync of the directory (1566), or this sync fails,
  which `replaceFile()` ignores, the next process goes by the new checkpoint. Its
  `load()` cuts off and synchronises the log of the old generation before it
  synchronises the directory (1671); if there is nothing to cut off, it appends
  and reports patches without ever synchronising the directory. A power failure
  can then bring the old checkpoint back without its log, and counts that were
  reported as written are gone. `NothingLost` holds with such a late rename as
  long as the rename is not undone, and excepts the power failure that undoes it;
  without the exception TLC shows a loss in 15 states. Synchronising the
  directory in `load()` before anything else would close it.
- `statistics_v2.cpp:908`. A restart with the clock set back leaves out of the
  window the buckets that are now in the future. `WindowIsSum` is about a clock
  that goes forward.
- `interfaces.cpp:2427`. A follower of the synchronous `/sub` flight can join a
  call that has failed and is not erased yet, and inherits the failure; the
  asynchronous flight retries.

## 5. Proofs

Every proof is by an inductive invariant: `Init => IInv`,
`IInv /\ [Next]_vars => IInv'`, one step per action and one per conjunct that
the action can disturb, and a last temporal step. TLC checked each invariant on
the instance of the component's run before it was proved. A theorem holds for
every value of the constants that satisfies the named `ASSUME`s.

**WorkloadSchedulerProofs** - any tasks, workers, stoppers, limits, sizes and
deadlines. `TypeCorrect`, `EntriesCorrect`, `LimitsHold`, `SettlesOnce`,
`DrainExclusive` (during a cancelling shutdown no worker takes what is still in
a deque), `ShutdownSettles`, `AttemptFindsQueue` (the round-robin loop always
serves a queue within three attempts), and `AccountsCorrect`, the whole of
`Accounted`. `IInv` is the type, what is in the deques (`QueueInv`,
`QueuedIsThere`), what workers and stoppers hold (`HeldInv`, `DrainInv`), what is
finished (`DoneInv`), the entry counter and when workers may exit (`ExitInv`).
The strengthening is needed because "settled once" depends on a task being in
one place only, and that on the counter being zero while a shutdown drains. For
`Accounted` three invariants are added on top of it: that the deques are short
(`Short`, for the single owner), `Stats` (each counter is the number of tasks with
a certain fate, or the number minus those between two counts), and `ByteInv`. The
byte counter is a sum over tasks; the model takes it as the cardinality of the
set of all bytes `<<task, number>>`, so that queueing or taking a task is a
disjoint union or a difference and needs no induction.

**CacheFetchProofs** - any requests of both kinds and any operations.
`BookkeepingHolds` is `Consistent`: `consumers_` is exactly the number of attached
consumers, the registry holds nothing finished, nobody waits for an operation
that nobody works on. `IInv` says per request and per operation what the position
of each thread implies (`AtLabel`, `HandedOver`, `Answers`, `Counted`, `Delivers`).
`Coalesces` is the refinement: `Coalescing` sees an operation as open, landed or
dropped, and a request as waiting for one or not. A lemma per action shows the
abstract step it is, and that it changes no other flight, member or reply; the
steps that abandon, publish and join are the abstract `Drop`, `Land` and `Join`
or `Launch`, most of the others are stutters.

**SubSingleFlightProofs** - any requests and keys. `OnlyWantedWork`
(`WorkIsWanted`), `BookkeepingHolds` (`Consistent`), `Coalesces`. The same argument
with more stages: a call is accepting, publishing, done or abandoned, and a
request's claim is taken by whoever answers it. The two gauges are cardinalities
of the owners that have not released and the followers that wait.

**PortableUpdaterProofs** - any releases, both platforms. `RootStaysSound`,
`NothingIsLost` (`Journalled`), `Recovers` (`InterruptedExchangeRecovers`). `IInv`
describes the layouts of the directories a journal can be found with: before and
after the exchange, and on Windows the two in between with one release aside. A
step of an exchange, a crash or a failure goes from one of them to another, and
each of them is one that `repairInterruptedSwap()` can finish or undo. The layout
after the old root was moved away is named too (`Retained_`): there the root is
sound and nothing is lost, but recovery refuses, which is the finding above.

**RequestCancellationProofs** - any threads and registrants. `NobodyIsLeft`
(`Consistent`), `EndStaysHonest`, and the action property `SendingStaysSpared`.
`IInv` adds that the exchange of the reason has one winner, that a callback still
to be invoked is in one place, what the finalizer read (`FinalizerKnows`), that
nobody speaks of the deadline before it has passed and no overdue finalizer takes
the branch of a response in time (`Deadlines`), and that the finalizer whose
outcome stands is done (`WinnerDone`), so what it saw cannot change any more.

**ThreadLimitProofs** - two components that ration threads. `CpuPermits`, any
flows and limits: `PermitsCorrect`, `RunsOnlyWithPermit`, `WaitersCorrect`, and
`OverdrawnNever`. The last needs that the older permits recorded with a permit
are all still out (`OlderHeld`): a permit that comes back leaves every `older`
set, and a new one is given when fewer than the limit are out, which are its
older ones. `BoundedExecutor`, any callers, workers, stoppers and capacity:
`ExecutorConsistent` and `JoinEndsAll`. `PoolInv` says where an open task is (queue,
worker, or the stopper that took the queue), and that it is nowhere else.

**WebGetProofs** - what stands below `webGet()`. `CurlMultiEngine`, any transfers,
requesters, window, retries and clock bound: `TransfersStayAccounted`,
`NothingOutlives`, `CancellationStands`. `EInv` consists of: the places of a
transfer are disjoint and no queue holds one twice (`Parted`); the counters
(`Counted`); what the worker has in hand at each label (`InHand`); a worker that has
left has left nothing (`Lifetime`); the handshake of construction and shutdown
(`Handshake`); and the prune flag (`Cancelling`). Pruning and retrying remove some
elements of a queue and move others; the model takes the result as a sequence
chosen by increasing positions, and the central lemma is that an increasing
choice of as many places as are kept hits each of them once (pigeonhole).
`Handshake` is the argument that matters at shutdown: the constructor publishes
itself before it looks at the flag, the requester raises the flag before it looks
for an engine, so one of them sees the other and the worker is stopped.
`CacheStorage`, any number of updates, kills and power failures:
`NeverPairsStaleHeaders`, `CompleteSurvives`, `ResultTrue`, `StorageTypes`.
`StorageInv` adds that a marker guards every mismatch in both the visible and the
durable state (`Guarded`), that an update has its marker durable before it touches
the body (`StartedSafe`), that only a fresh marker is undone (`UndoOnlyFresh`), and
what has been written at each step (`Written`). `ResultTrue` has the exception of
`ResultHonest`: headers called invalidated are unreadable unless the marker could
be neither written nor inspected.

**PersistenceProofs** - what is kept in files. `StatisticsStore`, any ring and
window, any number of conversions, generations, log records, faults and starts:
`StorePersists` (`NothingLost`), `UnmarkedStaysWritten`, `WindowStaysExact`
(`WindowIsSum`), `OrderlyShutdownWrites`. The argument has three layers.

- `load()`: what is known after k records of a log is a recursive function, and
  `Walked` says of each k that as many records are kept as were valid and that
  the rest changes nothing. From it follow the facts about whole logs that the
  steps need: a record that continues a valid log is applied and nothing else
  changes (`ReplayAppend`), a log cut after the records that are kept means the
  same (`ReplayCut`), records of other generations add nothing (`ReplayForeign`).
- The counters: the window is a sum over the ring. The model takes it as the
  number of conversions `<<slot, number>>` in the buckets it covers, so that the
  next minute exchanges one bucket for another (`CardinalityExchange`); `Placed`
  and `Past` say that a bucket is in the slot of its minute and older than the
  current one, without which the bucket that expires is not the one subtracted.
  `Grows` says that every change of the counters is marked and counted in
  `dirty_version_`, and `DirtyPatchFacts` that the marked part, applied to an image
  that differs only there, gives the whole image.
- The thread: `IInv` holds the type, where the thread may be and for what
  (`AtLabel`), and, until a loss that the code does not prevent, what the files
  and the disk hold at each label: `Settled` or `Replacing` for the directory,
  `Tidy` for the log, `Underway` for the image that is being written, `Cut`,
  `Appending`, `Resting`. `Survives` is the invariant behind `NothingLost`: the
  checkpoints the process goes by, with every log that a power failure may leave,
  replay to one of the candidates, and so does every combination of checkpoints
  and log as long as no rename is late. It is inductive because no log ever holds
  a record newer than the checkpoints (`NoNewer`), so the step that renames a new
  checkpoint into place makes every old record foreign before the log is cut. A
  kill or a failed sync in the middle of a rename makes it late (`Forgotten`),
  and only a sync of the directory makes all combinations sound again.
  `WindowStaysExact` is about a clock that goes forward, by steps of any size.

`ShortLinks`, any codes, URLs, limits and failures: `MemoryBacked`,
`ConfirmedHolds`, `DeletionFinal`. `LinksInv` adds that stores are well formed and
that what is confirmed is in memory once it was loaded (`ConfirmedLoaded`).

`ThreadLimitProofs`, `WebGetProofs` and `PersistenceProofs` extend two components
each, so `BoundedExecutor`, `CacheStorage` and `ShortLinks` have specifications with
names of their own (`ExecutorSpec`, `StorageSpec`, `LinksSpec`). The theorems assume
only the named `ASSUME`s, which TLC evaluates in the component's run: finite sets
of threads where a cardinality is taken, positive limits, a window that fits its
ring, and that names of different things differ.

With this every invariant and every action property of the runs is a theorem.
Only model-checked are the liveness properties, because the prover handles neither
fairness nor `ENABLED`. Modules with proofs use no recursive operator, which the
prover cannot handle; recursive functions are reasoned about with the least
counterexample of a set of naturals (`UpTo`), since the library's induction
theorems take an operator that none of the provers can instantiate.

## 6. Limits of the model

- Atomics are sequentially consistent; the code uses acquire/release order.
- Crashes are process deaths, in `CacheStorage` and `StatisticsStore` also power
  failures.
- The clock of the statistics moves forward only, across restarts too.
- What follows a loss of the statistics that section 4 names is not explored.
- One registry key, one response key, one updater at a time.
- The contents of subscriptions, URLs, headers and user files are opaque.
- Destructors and the lifetime of captured objects are outside the model.

## 7. Not modelled

The subscription parser, the generators, the request key, pages, templates and
the front end (a large part of the program's own lines) turn text into text
and keep no state between calls; what could be checked about them is the meaning
of some twenty file formats, which is neither in the code nor in its documents.
Vendored code under `include/` (JSON, HTTP, dates, regular expressions) is not
this program's. The rest is left out for smaller reasons:

- one mutex and one critical section per operation: the curl handle pool, the
  dashboard's limiter, the settings snapshot, the response cache's byte budget;
- computations that cannot fail or wait: the LRU cache (its two users compute
  purely and never look at a token) and the governor (`CpuPermits` takes any
  limits it may choose);
- contracts that are not in this repository: Beast, Asio and httplib sessions,
  the package managers behind the OpenWrt updater, QuickJS;
- the DNS template directory, whose pruning without a lock only changes how many
  files are kept;
- the lock file between two updaters, which is created before its pid is written
  (`main.go:313`), so that a second updater may take it for stale;
- the synchronous `/sub` flight of servers without Beast, which polls instead of
  being called back;
- the order in which `main()` stops the parts; that each of them stops is shown.

## 8. Next

What is left is of another kind than these proofs: liveness, which stays with
TLC, and the components of section 7 that keep some state, of which the
synchronous `/sub` flight and the lock file of the updater have the most to say.
