-------------------------- MODULE CurlMultiEngine --------------------------
(***************************************************************************)
(* CurlMultiEngine (src/src/handler/webget.cpp): one worker thread drives  *)
(* all outbound transfers through a curl multi handle.  Any thread submits *)
(* a transfer to pending_; the worker moves it to active_ while the handle *)
(* window has room, completes it, or puts it into delayed_ for a retry.    *)
(* A request's cancellation sets pending_prune_requested_ and wakes the    *)
(* worker; every transfer has a deadline; shutdown() stops the worker and  *)
(* joins it.  The engine is a function-local static: the first user        *)
(* constructs it while another thread may already have asked for shutdown. *)
(*                                                                         *)
(* Only the worker touches active_ and delayed_; pending_, stopping_,      *)
(* joining_ and joined_ are guarded by mutex_, which the worker holds over *)
(* several steps only while it decides to sleep.  Only the worker reads    *)
(* the clock: a deadline or a retry time that passes is an event of its    *)
(* own, Expire or Due, seen when the worker next looks.                    *)
(***************************************************************************)
EXTENDS Integers, Sequences, SequencesExt, FiniteSets

CONSTANTS
  Transfers,    \* calls of submit()
  Cancellable,  \* those whose request may be cancelled
  Requesters,   \* calls of requestOutboundFetchShutdown()
  Window,       \* handle_window_, 0 for unbounded
  RetryLimit    \* retry_limit in finish()

Constructor == "constructor"
Callers == Requesters \cup {Constructor}

ASSUME EngineAssumption ==
  /\ IsFiniteSet(Transfers) /\ Cancellable \subseteq Transfers
  /\ Constructor \notin Requesters /\ Window \in Nat /\ RetryLimit \in Nat

VARIABLES
  pending_, delayed_, active_,     \* where transfers wait and run
  pendingCount, activeCount,       \* pending_count_, active_count_
  attempts,                        \* retry_attempts of each transfer
  noted,        \* transfers whose least deadline is next_pending_deadline_ns_
  pruneRequested,
  woken,        \* wake_generation_ has moved on since the worker read it
  stopping_, joining_, joined_, available_,
  instance, shutdownRequested,     \* the two globals of the shutdown handshake
  wpc, cursor, local,   \* the worker: label, index into delayed_, transfers in hand
  spc, kpc,             \* labels of submit() and of shutdown()'s callers
  cancelled, fire,      \* tokens set; callbacks that have still to run
  expired, due,         \* deadlines and retry times that have passed
  done,                 \* transfers whose completion was called
  early                 \* history: called back before it was in pending_

queues   == <<pending_, delayed_, active_, pendingCount, activeCount, attempts, noted>>
stop     == <<stopping_, joining_, joined_, available_, instance, shutdownRequested>>
tokens   == <<cancelled, fire, early>>
clock    == <<expired, due>>
vars == <<queues, pruneRequested, woken, stop, wpc, cursor, local, spc, kpc, tokens,
          clock, done>>

Init ==
  /\ pending_ = <<>> /\ delayed_ = <<>> /\ active_ = {}
  /\ pendingCount = 0 /\ activeCount = 0
  /\ attempts = [t \in Transfers |-> 0] /\ noted = {}
  /\ pruneRequested = FALSE /\ woken = FALSE
  /\ stopping_ = FALSE /\ joining_ = FALSE /\ joined_ = FALSE /\ available_ = FALSE
  /\ instance = FALSE /\ shutdownRequested = FALSE
  /\ wpc = "none" /\ cursor = 0 /\ local = {}
  /\ spc = [t \in Transfers |-> "new"] /\ kpc = [k \in Callers |-> "idle"]
  /\ cancelled = {} /\ fire = {} /\ expired = {} /\ due = {} /\ done = {} /\ early = {}

Locked == wpc \in {"test", "sleep"}      \* the worker holds mutex_
HasRoom == Window = 0 \/ Cardinality(active_) < Window

(* wakeWorker(): the generation moves on, which matters to a worker that    *)
(* has read it, and a worker that sleeps on condition_ wakes; mutex_ is not *)
(* taken, so a worker about to sleep is missed.  A worker in                *)
(* curl_multi_poll() returns from there by itself.                          *)
Wake ==
  /\ woken' = (woken \/ wpc = "test")
  /\ wpc' = IF wpc = "blocked" THEN "prune" ELSE wpc

-----------------------------------------------------------------------------
(* Construction, submission and cancellation.                              *)

(* The worker is started, or libcurl cannot be used and there is none.      *)
Construct ==
  /\ kpc[Constructor] = "idle"
  /\ \/ available_' = TRUE /\ wpc' = "prune"
        /\ kpc' = [kpc EXCEPT ![Constructor] = "publish"]
     \/ kpc' = [kpc EXCEPT ![Constructor] = "back"] /\ UNCHANGED <<available_, wpc>>
  /\ UNCHANGED <<queues, pruneRequested, woken, stopping_, joining_, joined_, instance,
                 shutdownRequested, cursor, local, spc, tokens, clock, done>>

PublishInstance ==
  /\ kpc[Constructor] = "publish"
  /\ instance' = TRUE
  /\ kpc' = [kpc EXCEPT ![Constructor] = "check"]
  /\ UNCHANGED <<queues, pruneRequested, woken, stopping_, joining_, joined_, available_,
                 shutdownRequested, wpc, cursor, local, spc, tokens, clock, done>>

(* Fault: the constructor does not look for a shutdown request again.        *)
CheckShutdown_Skipped ==
  /\ kpc[Constructor] = "check"
  /\ kpc' = [kpc EXCEPT ![Constructor] = "back"]
  /\ UNCHANGED <<queues, pruneRequested, woken, stop, wpc, cursor, local, spc, tokens,
                 clock, done>>

CheckShutdown ==
  /\ kpc[Constructor] = "check"
  /\ kpc' = [kpc EXCEPT ![Constructor] = IF shutdownRequested THEN "enter" ELSE "back"]
  /\ UNCHANGED <<queues, pruneRequested, woken, stop, wpc, cursor, local, spc, tokens,
                 clock, done>>

(* The callback of a cancellation.                                          *)
Callback ==
  /\ pruneRequested' = TRUE
  /\ Wake

(* submit(), first part: the callback is registered, and runs at once if    *)
(* the request is cancelled already.                                        *)
Register(t) ==
  /\ spc[t] = "new" /\ kpc[Constructor] = "back"
  /\ spc' = [spc EXCEPT ![t] = "registered"]
  /\ IF t \in cancelled
     THEN Callback /\ early' = early \cup {t}
     ELSE UNCHANGED <<pruneRequested, woken, wpc, early>>
  /\ UNCHANGED <<queues, stop, cursor, local, kpc, cancelled, fire, clock, done>>

(* submit(), the part under mutex_: an engine that is stopping or was never *)
(* available completes the transfer at once.                                *)
Enqueue(t) ==
  /\ spc[t] = "registered" /\ ~ Locked
  /\ IF stopping_ \/ ~ available_
     THEN /\ done' = done \cup {t}
          /\ spc' = [spc EXCEPT ![t] = "back"]
          /\ UNCHANGED <<pending_, pendingCount, noted>>
     ELSE /\ pending_' = Append(pending_, t)
          /\ pendingCount' = pendingCount + 1
          /\ noted' = noted \cup {t}
          /\ spc' = [spc EXCEPT ![t] = "wake"]
          /\ UNCHANGED done
  /\ UNCHANGED <<delayed_, active_, activeCount, attempts, pruneRequested, woken, stop,
                 wpc, cursor, local, kpc, tokens, clock>>

WakeForSubmit(t) ==
  /\ spc[t] = "wake"
  /\ Wake
  /\ spc' = [spc EXCEPT ![t] = "back"]
  /\ UNCHANGED <<queues, pruneRequested, stop, cursor, local, kpc, tokens, clock, done>>

(* The request's token is set first, its callbacks run afterwards.          *)
Cancel(t) ==
  /\ t \in Cancellable \ cancelled
  /\ cancelled' = cancelled \cup {t}
  /\ fire' = IF spc[t] = "new" \/ t \in done THEN fire ELSE fire \cup {t}
  /\ UNCHANGED <<queues, pruneRequested, woken, stop, wpc, cursor, local, spc, kpc, early,
                 clock, done>>

Fire(t) ==
  /\ t \in fire
  /\ fire' = fire \ {t}
  /\ early' = IF spc[t] = "registered" THEN early \cup {t} ELSE early
  /\ Callback
  /\ UNCHANGED <<queues, stop, cursor, local, spc, kpc, cancelled, clock, done>>

(* The clock.                                                              *)
Expire(t) ==
  /\ spc[t] # "new" /\ t \notin expired \cup done
  /\ expired' = expired \cup {t}
  /\ UNCHANGED <<queues, pruneRequested, woken, stop, wpc, cursor, local, spc, kpc, tokens,
                 due, done>>

Due(t) ==
  /\ t \in Range(delayed_) \ due
  /\ due' = due \cup {t}
  /\ UNCHANGED <<queues, pruneRequested, woken, stop, wpc, cursor, local, spc, kpc, tokens,
                 expired, done>>

-----------------------------------------------------------------------------
(* The worker, run(): prunePending, processDelayed, processPending,         *)
(* performTransfers, cancelExpired, the stop test, and a wait.             *)

Goto(label) == wpc' = label

(* finish(), its retry test: a recoverable failure is tried again unless    *)
(* the engine stops, the request is cancelled or its deadline is too near.  *)
MayRetry(t) ==
  /\ attempts[t] < RetryLimit
  /\ ~ stopping_ /\ ~ shutdownRequested
  /\ t \notin cancelled \cup expired

(* prunePending(): the flag is taken, then pending_ is searched under       *)
(* mutex_ and the rest stays in its order, then what was removed is         *)
(* completed.                                                               *)
Prune ==
  /\ wpc = "prune"
  /\ Goto(IF pruneRequested \/ noted \cap expired # {} THEN "splice" ELSE "delayed")
  /\ pruneRequested' = FALSE
  /\ cursor' = 1
  /\ UNCHANGED <<queues, woken, stop, local, spc, kpc, tokens, clock, done>>

Splice ==
  LET gone == Range(pending_) \cap (cancelled \cup expired)
      stay == {i \in DOMAIN pending_ : pending_[i] \notin gone}
  IN
  /\ wpc = "splice"
  /\ \E from \in [1 .. Cardinality(stay) -> stay] :
       /\ \A i, j \in DOMAIN from : i < j => from[i] < from[j]
       /\ pending_' = [i \in DOMAIN from |-> pending_[from[i]]]
  /\ pendingCount' = pendingCount - Cardinality(gone)
  /\ noted' = Range(pending_')
  /\ local' = gone
  /\ Goto("complete")
  /\ UNCHANGED <<delayed_, active_, activeCount, attempts, pruneRequested, woken, stop,
                 cursor, spc, kpc, tokens, clock, done>>

CompletePruned ==
  /\ wpc = "complete"
  /\ done' = done \cup local /\ local' = {}
  /\ Goto("delayed")
  /\ UNCHANGED <<queues, pruneRequested, woken, stop, cursor, spc, kpc, tokens, clock>>

(* processDelayed(): the transfer at the cursor is completed when it has    *)
(* ended, started when its time has come and there is room, else left.      *)
ProcessDelayed ==
  /\ wpc = "delayed" /\ cursor <= Len(delayed_)
  /\ LET t    == delayed_[cursor]
         over == stopping_ \/ t \in cancelled \cup expired
     IN  IF over \/ (t \in due /\ HasRoom)
         THEN /\ delayed_' = RemoveAt(delayed_, cursor)
              /\ pendingCount' = pendingCount - 1
              /\ done' = IF over THEN done \cup {t} ELSE done
              /\ local' = IF over THEN {} ELSE {t}
              /\ due' = due \ {t}
              /\ Goto(IF over THEN "delayed" ELSE "start")
              /\ UNCHANGED cursor
         ELSE /\ cursor' = cursor + 1
              /\ UNCHANGED <<delayed_, pendingCount, done, local, due, wpc>>
  /\ UNCHANGED <<pending_, active_, activeCount, attempts, noted, pruneRequested, woken,
                 stop, spc, kpc, tokens, expired>>

DelayedProcessed ==
  /\ wpc = "delayed" /\ cursor > Len(delayed_)
  /\ cursor' = 0
  /\ Goto("pending")
  /\ UNCHANGED <<queues, pruneRequested, woken, stop, local, spc, kpc, tokens, clock, done>>

(* processPending(): one transfer is taken under mutex_ and started.        *)
ProcessPending ==
  /\ wpc = "pending"
  /\ IF pending_ = <<>> \/ ~ HasRoom
     THEN Goto("drain") /\ UNCHANGED <<pending_, pendingCount, local>>
     ELSE /\ pending_' = Tail(pending_)
          /\ pendingCount' = pendingCount - 1
          /\ local' = {Head(pending_)}
          /\ Goto("start")
  /\ UNCHANGED <<delayed_, active_, activeCount, attempts, noted, pruneRequested, woken,
                 stop, cursor, spc, kpc, tokens, clock, done>>

(* startTransfer(): a transfer that is over, or that libcurl refuses, is    *)
(* completed instead.                                                       *)
StartTransfer ==
  /\ wpc = "start"
  /\ \/ done' = done \cup local /\ UNCHANGED <<active_, activeCount>>
     \/ /\ ~ stopping_ /\ local \cap (cancelled \cup expired) = {}
        /\ active_' = active_ \cup local
        /\ activeCount' = activeCount + 1
        /\ UNCHANGED done
  /\ local' = {}
  /\ Goto(IF cursor = 0 THEN "pending" ELSE "delayed")
  /\ UNCHANGED <<pending_, delayed_, pendingCount, attempts, noted, pruneRequested, woken,
                 stop, cursor, spc, kpc, tokens, clock>>

(* Fault: a transfer put off for a retry is not counted as pending.         *)
Retry_Uncounted(t) ==
  /\ wpc = "drain" /\ t \in active_ /\ MayRetry(t)
  /\ active_' = active_ \ {t} /\ activeCount' = activeCount - 1
  /\ delayed_' = Append(delayed_, t)
  /\ attempts' = [attempts EXCEPT ![t] = @ + 1]
  /\ UNCHANGED <<pending_, pendingCount, noted, pruneRequested, woken, stop, wpc, cursor,
                 local, spc, kpc, tokens, clock, done>>

(* performTransfers() and drainMessages(): libcurl reports that a transfer  *)
(* has ended; finish() completes it or puts it off.                         *)
Retry(t) ==
  /\ wpc = "drain" /\ t \in active_ /\ MayRetry(t)
  /\ active_' = active_ \ {t} /\ activeCount' = activeCount - 1
  /\ delayed_' = Append(delayed_, t)
  /\ pendingCount' = pendingCount + 1
  /\ attempts' = [attempts EXCEPT ![t] = @ + 1]
  /\ UNCHANGED <<pending_, noted, pruneRequested, woken, stop, wpc, cursor, local, spc, kpc,
                 tokens, clock, done>>

Ended(t) ==
  /\ wpc = "drain" /\ t \in active_
  /\ active_' = active_ \ {t} /\ activeCount' = activeCount - 1
  /\ done' = done \cup {t}
  /\ UNCHANGED <<pending_, delayed_, pendingCount, attempts, noted, pruneRequested, woken,
                 stop, wpc, cursor, local, spc, kpc, tokens, clock>>

(* No further message, and cancelExpired().                                 *)
CancelExpired ==
  LET over == active_ \cap (cancelled \cup expired) IN
  /\ wpc = "drain"
  /\ active_' = active_ \ over /\ activeCount' = activeCount - Cardinality(over)
  /\ done' = done \cup over
  /\ Goto("stop")
  /\ UNCHANGED <<pending_, delayed_, pendingCount, attempts, noted, pruneRequested, woken,
                 stop, cursor, local, spc, kpc, tokens, clock>>

(* run(), the stop test: pending_ is swapped out under mutex_.              *)
StopTest ==
  /\ wpc = "stop"
  /\ IF stopping_
     THEN /\ local' = Range(pending_) /\ pending_' = <<>>
          /\ pendingCount' = pendingCount - Len(pending_)
          /\ Goto("flush")
     ELSE Goto("dispatch") /\ UNCHANGED <<local, pending_, pendingCount>>
  /\ UNCHANGED <<delayed_, active_, activeCount, attempts, noted, pruneRequested, woken,
                 stop, cursor, spc, kpc, tokens, clock, done>>

(* cancelActive(), then pending and delayed transfers, and the loop ends.   *)
Flush ==
  /\ wpc = "flush"
  /\ done' = done \cup active_ \cup local \cup Range(delayed_)
  /\ active_' = {} /\ activeCount' = activeCount - Cardinality(active_)
  /\ delayed_' = <<>> /\ pendingCount' = pendingCount - Len(delayed_)
  /\ local' = {}
  /\ Goto("exit")
  /\ UNCHANGED <<pending_, attempts, noted, pruneRequested, woken, stop, cursor, spc, kpc,
                 tokens, clock>>

(* hasDispatchableWork().                                                   *)
HasDispatchableWork ==
  \/ pruneRequested
  \/ noted \cap expired # {}
  \/ HasRoom /\ (pending_ # <<>> \/ Range(delayed_) \cap due # {})

(* Fault: the test takes the flag that prunePending() is to find.           *)
Dispatch_TakesFlag ==
  /\ wpc = "dispatch"
  /\ Goto(IF HasDispatchableWork THEN "prune"
          ELSE IF active_ = {} THEN "wait" ELSE "poll")
  /\ pruneRequested' = FALSE
  /\ UNCHANGED <<queues, woken, stop, cursor, local, spc, kpc, tokens,
                 clock, done>>

Dispatch ==
  /\ wpc = "dispatch"
  /\ Goto(IF HasDispatchableWork THEN "prune"
          ELSE IF active_ = {} THEN "wait" ELSE "poll")
  /\ UNCHANGED <<queues, pruneRequested, woken, stop, cursor, local, spc, kpc, tokens,
                 clock, done>>

(* waitForActivity() without active transfers, under mutex_: the generation *)
(* is read and every reason not to sleep is looked for; then the predicate, *)
(* and the sleep, which releases mutex_.                                    *)
Wait ==
  /\ wpc = "wait"
  /\ Goto(IF stopping_ \/ pending_ # <<>>
             \/ Range(delayed_) \cap (cancelled \cup expired) # {}
          THEN "prune" ELSE "test")
  /\ UNCHANGED <<queues, pruneRequested, woken, stop, cursor, local, spc, kpc, tokens, clock, done>>

TestPredicate ==
  /\ wpc = "test"
  /\ Goto(IF woken THEN "prune" ELSE "sleep")
  /\ woken' = FALSE
  /\ UNCHANGED <<queues, pruneRequested, stop, cursor, local, spc, kpc, tokens,
                 clock, done>>

Sleep ==
  /\ wpc = "sleep"
  /\ Goto("blocked")
  /\ UNCHANGED <<queues, pruneRequested, woken, stop, cursor, local, spc, kpc, tokens,
                 clock, done>>

(* wait_until(): the first retry time or deadline in delayed_.              *)
WaitTimeout ==
  /\ wpc = "blocked" /\ Range(delayed_) \cap (due \cup expired) # {}
  /\ Goto("prune")
  /\ UNCHANGED <<queues, pruneRequested, woken, stop, cursor, local, spc, kpc, tokens,
                 clock, done>>

(* curl_multi_poll() returns: activity, curl_multi_wakeup() or its timeout. *)
Poll ==
  /\ wpc = "poll"
  /\ Goto("prune")
  /\ UNCHANGED <<queues, pruneRequested, woken, stop, cursor, local, spc, kpc, tokens,
                 clock, done>>

-----------------------------------------------------------------------------
(* requestOutboundFetchShutdown() and shutdown().                          *)

StepTo(k, label) == kpc' = [kpc EXCEPT ![k] = label]

RequestShutdown(k) ==
  /\ kpc[k] = "idle"
  /\ shutdownRequested' = TRUE
  /\ StepTo(k, "load")
  /\ UNCHANGED <<queues, pruneRequested, woken, stopping_, joining_, joined_, available_,
                 instance, wpc, cursor, local, spc, tokens, clock, done>>

LoadInstance(k) ==
  /\ kpc[k] = "load"
  /\ StepTo(k, IF instance THEN "enter" ELSE "back")
  /\ UNCHANGED <<queues, pruneRequested, woken, stop, wpc, cursor, local, spc, tokens,
                 clock, done>>

(* Fault: stopping_ is set without mutex_.                                  *)
EnterShutdown_Unlocked(k) ==
  /\ kpc[k] = "enter"
  /\ IF joined_
     THEN StepTo(k, "back") /\ UNCHANGED <<stopping_, joining_>>
     ELSE /\ stopping_' = TRUE /\ joining_' = TRUE
          /\ StepTo(k, IF joining_ THEN "await" ELSE "wake")
  /\ UNCHANGED <<queues, pruneRequested, woken, joined_, available_, instance,
                 shutdownRequested, wpc, cursor, local, spc, tokens, clock, done>>

(* The first caller joins the worker, later ones wait for joined_.          *)
EnterShutdown(k) ==
  /\ kpc[k] = "enter" /\ ~ Locked
  /\ IF joined_
     THEN StepTo(k, "back") /\ UNCHANGED <<stopping_, joining_>>
     ELSE /\ stopping_' = TRUE /\ joining_' = TRUE
          /\ StepTo(k, IF joining_ THEN "await" ELSE "wake")
  /\ UNCHANGED <<queues, pruneRequested, woken, joined_, available_, instance,
                 shutdownRequested, wpc, cursor, local, spc, tokens, clock, done>>

WakeForShutdown(k) ==
  /\ kpc[k] = "wake"
  /\ Wake
  /\ StepTo(k, "join")
  /\ UNCHANGED <<queues, pruneRequested, stop, cursor, local, spc, tokens, clock, done>>

Join(k) ==
  /\ kpc[k] = "join" /\ wpc = "exit"
  /\ available_' = FALSE /\ joined_' = TRUE /\ joining_' = FALSE
  /\ StepTo(k, "back")
  /\ UNCHANGED <<queues, pruneRequested, woken, stopping_, instance, shutdownRequested, wpc,
                 cursor, local, spc, tokens, clock, done>>

AwaitJoined(k) ==
  /\ kpc[k] = "await" /\ joined_
  /\ StepTo(k, "back")
  /\ UNCHANGED <<queues, pruneRequested, woken, stop, wpc, cursor, local, spc, tokens,
                 clock, done>>

-----------------------------------------------------------------------------
Worker ==
  \/ Prune \/ Splice \/ CompletePruned \/ ProcessDelayed \/ DelayedProcessed
  \/ ProcessPending \/ StartTransfer \/ CancelExpired \/ StopTest \/ Flush \/ Dispatch
  \/ Wait \/ TestPredicate \/ Sleep \/ WaitTimeout \/ Poll

Network == \E t \in Transfers : Retry(t) \/ Ended(t)

Submitter(t) == Enqueue(t) \/ WakeForSubmit(t)

Stopper(k) ==
  \/ LoadInstance(k) \/ EnterShutdown(k) \/ WakeForShutdown(k) \/ Join(k) \/ AwaitJoined(k)

Next ==
  \/ Construct \/ PublishInstance \/ CheckShutdown
  \/ \E t \in Transfers :
       Register(t) \/ Submitter(t) \/ Cancel(t) \/ Fire(t) \/ Expire(t) \/ Due(t)
  \/ Worker \/ Network
  \/ \E k \in Requesters : RequestShutdown(k)
  \/ \E k \in Callers : Stopper(k)

Spec == Init /\ [][Next]_vars

(* Threads run, callbacks that have begun return, deadlines and retry times *)
(* come.  Nobody has to submit, to cancel or to stop, and the network owes  *)
(* nothing.                                                                 *)
FairSpec ==
  /\ Spec
  /\ WF_vars(PublishInstance \/ CheckShutdown) /\ WF_vars(Worker)
  /\ \A t \in Transfers :
       WF_vars(Submitter(t)) /\ WF_vars(Fire(t)) /\ WF_vars(Expire(t)) /\ WF_vars(Due(t))
  /\ \A k \in Callers : WF_vars(Stopper(k))

-----------------------------------------------------------------------------
(* Properties.                                                             *)

(* Every variable has its type.                                             *)
TypeOK ==
  /\ pending_ \in Seq(Transfers) /\ delayed_ \in Seq(Transfers)
  /\ active_ \subseteq Transfers /\ local \subseteq Transfers /\ done \subseteq Transfers
  /\ pendingCount \in Nat /\ activeCount \in Nat
  /\ attempts \in [Transfers -> 0 .. RetryLimit] /\ noted \subseteq Transfers
  /\ pruneRequested \in BOOLEAN /\ woken \in BOOLEAN /\ stopping_ \in BOOLEAN
  /\ joining_ \in BOOLEAN /\ joined_ \in BOOLEAN /\ available_ \in BOOLEAN
  /\ instance \in BOOLEAN /\ shutdownRequested \in BOOLEAN
  /\ cursor \in Nat
  /\ wpc \in {"none", "prune", "splice", "complete", "delayed", "pending", "start", "drain",
              "stop", "flush", "dispatch", "wait", "test", "sleep", "blocked", "poll", "exit"}
  /\ spc \in [Transfers -> {"new", "registered", "wake", "back"}]
  /\ kpc \in [Callers -> {"idle", "publish", "check", "load", "enter", "wake", "join",
                          "await", "back"}]
  /\ fire \subseteq cancelled /\ cancelled \subseteq Cancellable
  /\ expired \subseteq Transfers /\ due \subseteq Transfers /\ early \subseteq cancelled

(* The places that hold a transfer: a queue, the set of active handles, the *)
(* worker's hands or the completions.                                       *)
Holders(t) ==
  {<<"pending", i>> : i \in {i \in DOMAIN pending_ : pending_[i] = t}}
  \cup {<<"delayed", i>> : i \in {i \in DOMAIN delayed_ : delayed_[i] = t}}
  \cup {<<name, 0>> : name \in {n \in {"active", "local", "done"} :
            t \in [active |-> active_, local |-> local, done |-> done][n]}}

(* No transfer is lost or held twice on its way through submit(), the       *)
(* queues, retries, pruning and the stop; the two counters that the         *)
(* snapshot reports are the sizes of the queues at any moment, and the      *)
(* handle window is never exceeded.                                         *)
TransfersAccounted ==
  /\ TypeOK
  /\ \A t \in Transfers : IF spc[t] \in {"new", "registered"}
                           THEN Holders(t) = {}
                           ELSE \E h \in Holders(t) : Holders(t) = {h}
  /\ pendingCount = Len(pending_) + Len(delayed_)
  /\ activeCount = Cardinality(active_)
  /\ Window # 0 => Cardinality(active_) <= Window

(* Once the constructor and one request for shutdown have returned, the     *)
(* worker is over whichever of them saw the other, every transfer that was  *)
(* accepted is completed, and none will be accepted.                        *)
NothingOutlivesShutdown ==
  kpc[Constructor] = "back" /\ (\E k \in Requesters : kpc[k] = "back")
  => /\ wpc \in {"none", "exit"}
     /\ \A t \in Transfers : spc[t] \in {"wake", "back"} => t \in done
     /\ stopping_ \/ ~ available_

(* A cancellation that finds its transfer in pending_ is not overlooked:    *)
(* when the worker rests after the callback has run, the request to prune   *)
(* still stands, and ends the poll.  A callback that runs before submit()   *)
(* has queued the transfer is excepted: its request may be used up on a     *)
(* queue that does not hold the transfer yet, which then waits for a free   *)
(* handle or its deadline.                                                  *)
CancellationNoticed ==
  wpc \in {"blocked", "poll"} =>
    \A t \in (Range(pending_) \cap cancelled) \ (fire \cup early) : pruneRequested

(* Every transfer that is submitted is completed, though the network may    *)
(* never answer, a wake-up may be missed and a shutdown may come at any     *)
(* time; and every shutdown returns.                                        *)
EverythingEnds ==
  /\ \A t \in Transfers : (spc[t] = "registered") ~> (t \in done)
  /\ \A k \in Requesters : (kpc[k] = "load") ~> (kpc[k] = "back")
=============================================================================
