----------------------------- MODULE CacheFetch -----------------------------
(***************************************************************************)
(* The single-flight cache fetch of webGetOwnedAsync()                     *)
(* (src/src/handler/webget.cpp) for one registry key.  Requests for the    *)
(* same resource share a CacheFetchOperation found in cache_fetches: the   *)
(* request that creates it is its owner and starts the work, the others    *)
(* subscribe.  A request whose client goes away is completed at once and   *)
(* detached; when the last consumer leaves, the operation is abandoned and *)
(* its work cancelled.                                                     *)
(*                                                                         *)
(* A step is one critical section (cache_fetch_mutex, the operation's      *)
(* mutex_ or the consumer's subscription_mutex) or one call outside them.  *)
(* Three kinds of threads interleave: the one that calls                   *)
(* webGetOwnedAsync(c), the one that completes c (canceller, publisher or  *)
(* the caller itself), and the one that works for an operation.            *)
(*                                                                         *)
(* webGetOwned(), its synchronous twin, shares operations in the same way, *)
(* but its owner fetches on its own thread and the others block in wait(). *)
(* The kind of owner is part of the registry key, so the two never meet: a *)
(* behaviour is about a key of one kind.                                   *)
(***************************************************************************)
EXTENDS Integers, FiniteSets

CONSTANTS
  Consumers,    \* calls of webGetOwnedAsync()
  Cancellable,  \* those whose request may be cancelled
  MaxOps        \* bound on the operations ever created

NoOp == 0
Ops == 1 .. MaxOps

ASSUME FetchAssumption ==
  IsFiniteSet(Consumers) /\ Cancellable \subseteq Consumers /\ MaxOps \in Nat \ {0}

VARIABLES
  kind,         \* CacheFetchOwnerKind of the registry key
  registry,     \* cache_fetches[key], or NoOp
  created,      \* operations created so far
  consumers_, subs, abandoned_, done_, result,   \* per operation
  stage, todo, current,  \* per operation: its work, and its publisher
  pc, op, owner, attached,   \* per consumer: locals of webGetOwnedAsync()
  cop, cattached, csub, detached,  \* the consumer's subscription record
  cpc, outcome, calls,   \* its completion
  cancelled     \* consumers whose request context is cancelled

operations == <<consumers_, subs, abandoned_, done_, result>>
work       == <<stage, todo, current>>
locals     == <<pc, op, owner, attached>>
record     == <<cop, cattached, csub, detached>>
completion == <<cpc, outcome, calls>>
vars == <<kind, registry, created, operations, work, locals, record, completion,
          cancelled>>

Stages == {"unstarted", "load", "reading", "network", "finalize", "commit",
           "deliver", "end"}
CallerPCs == {"idle", "check", "lookup", "attach", "evict", "record", "undo",
              "undoPublish", "subscribe", "setsub", "start", "fetch", "wait",
              "cleanup", "guard", "returned"}
CompleterPCs == {"none", "detach", "unsubscribe", "release", "call", "done"}
Outcomes == {"none", "ok", "fail", "cancelled", "refused"}

Init ==
  /\ kind \in {"Sync", "Async"}
  /\ registry = NoOp /\ created = 0
  /\ consumers_ = [o \in Ops |-> 0] /\ subs = [o \in Ops |-> {}]
  /\ abandoned_ = [o \in Ops |-> FALSE] /\ done_ = [o \in Ops |-> FALSE]
  /\ result = [o \in Ops |-> "none"]
  /\ stage = [o \in Ops |-> "unstarted"] /\ todo = [o \in Ops |-> {}]
  /\ current = [o \in Ops |-> {}]
  /\ pc = [c \in Consumers |-> "idle"] /\ op = [c \in Consumers |-> NoOp]
  /\ owner = [c \in Consumers |-> FALSE] /\ attached = [c \in Consumers |-> FALSE]
  /\ cop = [c \in Consumers |-> NoOp] /\ cattached = [c \in Consumers |-> FALSE]
  /\ csub = [c \in Consumers |-> FALSE] /\ detached = [c \in Consumers |-> FALSE]
  /\ cpc = [c \in Consumers |-> "none"] /\ outcome = [c \in Consumers |-> "none"]
  /\ calls = [c \in Consumers |-> 0]
  /\ cancelled = {}

-----------------------------------------------------------------------------
(* CacheFetchOperation.                                                    *)

releaseConsumer(o) ==
  IF consumers_[o] = 0 THEN UNCHANGED <<consumers_, abandoned_>>
  ELSE /\ consumers_' = [consumers_ EXCEPT ![o] = @ - 1]
       /\ abandoned_' = [abandoned_ EXCEPT
                           ![o] = @ \/ (consumers_[o] = 1 /\ ~ done_[o])]

(* finish(): the first result stays; the callbacks are swapped out and then *)
(* invoked one after the other by the publishing thread.                    *)
Finish(o, r) ==
  /\ ~ done_[o]
  /\ done_' = [done_ EXCEPT ![o] = TRUE]
  /\ result' = [result EXCEPT ![o] = r]
  /\ todo' = [todo EXCEPT ![o] = subs[o]]
  /\ subs' = [subs EXCEPT ![o] = {}]
  /\ stage' = [stage EXCEPT ![o] = "deliver"]
  /\ UNCHANGED <<consumers_, abandoned_, current>>

(* eraseAsyncOwnedCacheFetch(): only the entry that still is this operation.*)
EraseIfCurrent(o) == registry' = IF registry = o THEN NoOp ELSE registry

-----------------------------------------------------------------------------
(* completeOwnedWebGetAsyncConsumer(): the exchange on completion_claimed,  *)
(* then detach (under subscription_mutex), unsubscribe, release, call.      *)

Claimed(c) == cpc[c] # "none"

Claim(c, out) ==
  IF Claimed(c) THEN UNCHANGED completion
  ELSE /\ cpc' = [cpc EXCEPT ![c] = "detach"]
       /\ outcome' = [outcome EXCEPT ![c] = out]
       /\ UNCHANGED calls

Detach(c) ==
  /\ cpc[c] = "detach"
  /\ outcome' = [outcome EXCEPT ![c] = IF c \in cancelled THEN "cancelled" ELSE @]
  /\ detached' = [detached EXCEPT ![c] = TRUE]
  /\ cpc' = [cpc EXCEPT ![c] = "unsubscribe"]
  /\ UNCHANGED <<registry, created, operations, work, locals, cop, cattached, csub,
                 calls, cancelled>>

Unsubscribe(c) ==
  /\ cpc[c] = "unsubscribe"
  /\ IF cop[c] # NoOp /\ csub[c]
     THEN subs' = [subs EXCEPT ![cop[c]] = @ \ {c}]
     ELSE UNCHANGED subs
  /\ cpc' = [cpc EXCEPT ![c] = "release"]
  /\ UNCHANGED <<registry, created, consumers_, abandoned_, done_, result, work,
                 locals, record, outcome, calls, cancelled>>

Release(c) ==
  /\ cpc[c] = "release"
  /\ IF cop[c] # NoOp /\ cattached[c]
     THEN releaseConsumer(cop[c])
     ELSE UNCHANGED <<consumers_, abandoned_>>
  /\ cpc' = [cpc EXCEPT ![c] = "call"]
  /\ UNCHANGED <<registry, created, subs, done_, result, work, locals, record,
                 outcome, calls, cancelled>>

Call(c) ==
  /\ cpc[c] = "call"
  /\ calls' = [calls EXCEPT ![c] = @ + 1]
  /\ cpc' = [cpc EXCEPT ![c] = "done"]
  /\ UNCHANGED <<registry, created, operations, work, locals, record, outcome,
                 cancelled>>

(* The request context is cancelled; the callback that                      *)
(* registerOwnedWebGetAsyncCancellation() left there completes the consumer.*)
Cancel(c) ==
  /\ c \in Cancellable \ cancelled
  /\ cancelled' = cancelled \cup {c}
  /\ UNCHANGED <<registry, created, operations, work, locals, record, completion>>

(* That callback holds only a weak reference.  The consumer is kept by the  *)
(* call of webGetOwnedAsync() and by the callback it leaves with the        *)
(* operation; one that subscribe() dropped is gone with the call.           *)
Alive(c) == pc[c] # "returned" \/ \E o \in Ops : c \in subs[o] \cup todo[o]

CancelCallback(c) ==
  /\ kind = "Async" /\ c \in cancelled /\ pc[c] # "idle" /\ Alive(c) /\ ~ Claimed(c)
  /\ Claim(c, "cancelled")
  /\ UNCHANGED <<registry, created, operations, work, locals, record, cancelled>>

-----------------------------------------------------------------------------
(* webGetOwnedAsync().                                                     *)

Goto(c, label) == pc' = [pc EXCEPT ![c] = label]

(* The cancellation callback is registered.                                 *)
Begin(c) ==
  /\ kind = "Async" /\ pc[c] = "idle"
  /\ Goto(c, "check")
  /\ UNCHANGED <<registry, created, operations, work, op, owner, attached, record,
                 completion, cancelled>>

(* A request that is cancelled already, has a URL it may not fetch or no     *)
(* cache time, is completed without an operation.                            *)
Check(c) ==
  /\ pc[c] = "check"
  /\ \/ Claimed(c) /\ Goto(c, "returned") /\ UNCHANGED completion
     \/ ~ Claimed(c) /\ Goto(c, "returned") /\ Claim(c, "refused")
     \/ ~ Claimed(c) /\ Goto(c, "lookup") /\ UNCHANGED completion
  /\ UNCHANGED <<registry, created, operations, work, op, owner, attached, record,
                 cancelled>>

Lookup(c) ==
  /\ pc[c] = "lookup"
  /\ IF registry = NoOp
     THEN /\ created < MaxOps
          /\ created' = created + 1
          /\ registry' = created + 1
          /\ op' = [op EXCEPT ![c] = created + 1]
     ELSE /\ op' = [op EXCEPT ![c] = registry]
          /\ UNCHANGED <<registry, created>>
  /\ owner' = [owner EXCEPT ![c] = registry = NoOp]
  /\ Goto(c, "attach")
  /\ UNCHANGED <<operations, work, attached, record, completion, cancelled>>

(* attachConsumer(): a finished operation is reused only if it succeeded    *)
(* (Completed), and one that failed or was abandoned is evicted.            *)
Joinable(o)  == ~ done_[o] /\ ~ abandoned_[o]
Completed(o) == done_[o] /\ result[o] = "ok"
Evicted(o)   == ~ Joinable(o) /\ ~ Completed(o)

Attach(c) ==
  /\ pc[c] = "attach"
  /\ attached' = [attached EXCEPT ![c] = Joinable(op[c])]
  /\ consumers_' = IF Joinable(op[c]) THEN [consumers_ EXCEPT ![op[c]] = @ + 1]
                                      ELSE consumers_
  /\ Goto(c, IF Evicted(op[c]) THEN "evict"
             ELSE IF kind = "Async" THEN "record"
             ELSE IF owner[c] THEN "fetch" ELSE "wait")
  /\ UNCHANGED <<registry, created, subs, abandoned_, done_, result, work, op, owner,
                 record, completion, cancelled>>

Evict(c) ==
  /\ pc[c] = "evict"
  /\ EraseIfCurrent(op[c])
  /\ Goto(c, "lookup")
  /\ UNCHANGED <<created, operations, work, op, owner, attached, record, completion,
                 cancelled>>

(* attachOwnedWebGetAsyncConsumer(): the consumer takes over the attachment *)
(* unless it was completed in the meantime.                                 *)
Record(c) ==
  /\ pc[c] = "record"
  /\ IF detached[c] \/ Claimed(c)
     THEN Goto(c, "undo") /\ UNCHANGED <<cop, cattached>>
     ELSE /\ cop' = [cop EXCEPT ![c] = op[c]]
          /\ cattached' = [cattached EXCEPT ![c] = attached[c]]
          /\ Goto(c, "subscribe")
  /\ UNCHANGED <<registry, created, operations, work, op, owner, attached, csub,
                 detached, completion, cancelled>>

(* Fault: a caller that lost its consumer keeps the attachment.             *)
Undo_Leaks(c) ==
  /\ pc[c] = "undo"
  /\ Goto(c, IF owner[c] THEN "undoPublish" ELSE "returned")
  /\ UNCHANGED <<registry, created, operations, work, op, owner, attached, record,
                 completion, cancelled>>

Undo(c) ==
  /\ pc[c] = "undo"
  /\ IF attached[c] THEN releaseConsumer(op[c])
                    ELSE UNCHANGED <<consumers_, abandoned_>>
  /\ Goto(c, IF owner[c] THEN "undoPublish" ELSE "returned")
  /\ UNCHANGED <<registry, created, subs, done_, result, work, op, owner, attached,
                 record, completion, cancelled>>

(* Fault: the owner that gives up drops the callbacks.                      *)
UndoPublish_Silent(c) ==
  /\ pc[c] = "undoPublish"
  /\ done_' = [done_ EXCEPT ![op[c]] = TRUE] /\ result' = [result EXCEPT ![op[c]] = "fail"]
  /\ subs' = [subs EXCEPT ![op[c]] = {}]
  /\ stage' = [stage EXCEPT ![op[c]] = "deliver"]
  /\ Goto(c, "returned")
  /\ UNCHANGED <<registry, created, consumers_, abandoned_, todo, current, op, owner,
                 attached, record, completion, cancelled>>

(* The owner that gives up before the start publishes an exception, so that *)
(* requests that joined in the meantime are answered.                       *)
UndoPublish(c) ==
  /\ pc[c] = "undoPublish"
  /\ Finish(op[c], "fail")
  /\ Goto(c, "returned")
  /\ UNCHANGED <<registry, created, op, owner, attached, record, completion,
                 cancelled>>

Subscribe(c) ==
  /\ pc[c] = "subscribe"
  /\ \/ /\ abandoned_[op[c]]
        /\ Goto(c, "start") /\ UNCHANGED <<subs, completion>>
     \/ /\ ~ abandoned_[op[c]] /\ ~ done_[op[c]]
        /\ subs' = [subs EXCEPT ![op[c]] = @ \cup {c}]
        /\ Goto(c, "setsub") /\ UNCHANGED completion
     \/ /\ ~ abandoned_[op[c]] /\ done_[op[c]]
        /\ Claim(c, result[op[c]])
        /\ Goto(c, "start") /\ UNCHANGED subs
  /\ UNCHANGED <<registry, created, consumers_, abandoned_, done_, result, work, op,
                 owner, attached, record, cancelled>>

SetSubscription(c) ==
  /\ pc[c] = "setsub"
  /\ IF detached[c]
     THEN subs' = [subs EXCEPT ![op[c]] = @ \ {c}] /\ UNCHANGED csub
     ELSE csub' = [csub EXCEPT ![c] = TRUE] /\ UNCHANGED subs
  /\ Goto(c, "start")
  /\ UNCHANGED <<registry, created, consumers_, abandoned_, done_, result, work, op,
                 owner, attached, cop, cattached, detached, completion, cancelled>>

Start(c) ==
  /\ pc[c] = "start"
  /\ stage' = IF owner[c] THEN [stage EXCEPT ![op[c]] = "load"] ELSE stage
  /\ Goto(c, "returned")
  /\ UNCHANGED <<registry, created, operations, todo, current, op, owner, attached,
                 record, completion, cancelled>>

-----------------------------------------------------------------------------
(* webGetOwned(): the loop around attachConsumer() is the same.             *)

(* A URL that may not be fetched, inline data, no cache time or a fresh     *)
(* cached copy: the call answers without an operation.                      *)
SyncBegin(c) ==
  /\ kind = "Sync" /\ pc[c] = "idle"
  /\ \/ Goto(c, "lookup") /\ UNCHANGED completion
     \/ /\ outcome' = [outcome EXCEPT ![c] = "refused"]
        /\ calls' = [calls EXCEPT ![c] = @ + 1]
        /\ Goto(c, "returned") /\ UNCHANGED cpc
  /\ UNCHANGED <<registry, created, operations, work, op, owner, attached, record,
                 cancelled>>

(* The owner fetches and publishes what it got, or the exception.           *)
SyncPublish(c, r) ==
  /\ pc[c] = "fetch"
  /\ done_' = [done_ EXCEPT ![op[c]] = TRUE]
  /\ result' = [result EXCEPT ![op[c]] = r]
  /\ Goto(c, "wait")
  /\ UNCHANGED <<registry, created, consumers_, subs, abandoned_, work, op, owner,
                 attached, record, completion, cancelled>>

(* wait() has no deadline.  The permit given up for it is taken again,      *)
(* which throws if the request was cancelled or the program shuts down;     *)
(* otherwise the result is copied and written to the cache, or replaced by  *)
(* a stale copy.                                                            *)
SyncWait(c) ==
  /\ pc[c] = "wait" /\ done_[op[c]]
  /\ \E out \in {result[op[c]], "refused", "cancelled"} :
       /\ out = "cancelled" => c \in cancelled
       /\ outcome' = [outcome EXCEPT ![c] = out]
  /\ Goto(c, "cleanup")
  /\ UNCHANGED <<registry, created, operations, work, op, owner, attached, record,
                 cpc, calls, cancelled>>

(* The destructors on every way out: CacheFetchOwnerCleanup, then           *)
(* CacheFetchConsumerGuard.                                                 *)
SyncCleanup(c) ==
  /\ pc[c] = "cleanup"
  /\ IF owner[c] THEN EraseIfCurrent(op[c]) ELSE UNCHANGED registry
  /\ Goto(c, "guard")
  /\ UNCHANGED <<created, operations, work, op, owner, attached, record, completion,
                 cancelled>>

SyncReturn(c) ==
  /\ pc[c] = "guard"
  /\ IF attached[c] THEN releaseConsumer(op[c])
                    ELSE UNCHANGED <<consumers_, abandoned_>>
  /\ calls' = [calls EXCEPT ![c] = @ + 1]
  /\ Goto(c, "returned")
  /\ UNCHANGED <<registry, created, subs, done_, result, work, op, owner, attached,
                 record, cpc, outcome, cancelled>>

-----------------------------------------------------------------------------
(* The work of an operation: a continuation reads a fresh cached copy, or   *)
(* the curl engine fetches (once more from jsDelivr when a GitHub source    *)
(* fails) and another continuation commits the result to the cache or       *)
(* serves a stale copy.  A continuation looks at the cancellation token     *)
(* when it starts (Judge) and not again before it publishes; one that is    *)
(* refused, cancelled or throws publishes a failure.                        *)

Advance(o, from, to) ==
  /\ stage[o] = from
  /\ stage' = [stage EXCEPT ![o] = to]
  /\ UNCHANGED <<registry, created, operations, todo, current, locals, record,
                 completion, cancelled>>

Judge(o) ==
  /\ ~ abandoned_[o]
  /\ Advance(o, "load", "reading") \/ Advance(o, "finalize", "commit")

CacheMiss(o) == Advance(o, "reading", "network")
Fetched(o)   == Advance(o, "network", "finalize")

Publish(o, r) ==
  /\ stage[o] \in IF r = "ok" THEN {"reading", "commit"}
                   ELSE {"load", "reading", "network", "finalize", "commit"}
  /\ Finish(o, r)
  /\ UNCHANGED <<registry, created, locals, record, completion, cancelled>>

(* The publisher invokes the callbacks in turn; each runs the completion of *)
(* its consumer to the end unless somebody else has claimed it.             *)
Delivered(o) == \A c \in current[o] : cpc[c] = "done"

(* Fault: the publisher calls back whether or not it wins the claim.        *)
Deliver_Unclaimed(o) ==
  /\ stage[o] = "deliver" /\ Delivered(o)
  /\ \E c \in todo[o] :
       /\ todo' = [todo EXCEPT ![o] = @ \ {c}]
       /\ current' = [current EXCEPT ![o] = IF Claimed(c) THEN {} ELSE {c}]
       /\ IF Claimed(c) THEN calls' = [calls EXCEPT ![c] = @ + 1] /\ UNCHANGED <<cpc, outcome>>
                        ELSE Claim(c, result[o])
  /\ UNCHANGED <<registry, created, operations, stage, locals, record, cancelled>>

Deliver(o) ==
  /\ stage[o] = "deliver" /\ Delivered(o)
  /\ \E c \in todo[o] :
       /\ todo' = [todo EXCEPT ![o] = @ \ {c}]
       /\ current' = [current EXCEPT ![o] = IF Claimed(c) THEN {} ELSE {c}]
       /\ Claim(c, result[o])
  /\ UNCHANGED <<registry, created, operations, stage, locals, record, cancelled>>

Erase(o) ==
  /\ stage[o] = "deliver" /\ Delivered(o) /\ todo[o] = {}
  /\ EraseIfCurrent(o)
  /\ stage' = [stage EXCEPT ![o] = "end"]
  /\ UNCHANGED <<created, operations, todo, current, locals, record, completion,
                 cancelled>>

-----------------------------------------------------------------------------
Caller(c) ==
  \/ Check(c) \/ Lookup(c) \/ Attach(c) \/ Evict(c) \/ Record(c) \/ Undo(c)
  \/ UndoPublish(c) \/ Subscribe(c) \/ SetSubscription(c) \/ Start(c)

SyncCaller(c) ==
  \/ \E r \in {"ok", "fail"} : SyncPublish(c, r)
  \/ SyncWait(c) \/ SyncCleanup(c) \/ SyncReturn(c)

Completer(c) ==
  Detach(c) \/ Unsubscribe(c) \/ Release(c) \/ Call(c) \/ CancelCallback(c)

Worker(o) ==
  \/ Judge(o) \/ CacheMiss(o) \/ Fetched(o)
  \/ \E r \in {"ok", "fail"} : Publish(o, r)
  \/ Deliver(o) \/ Erase(o)

Next ==
  /\ \/ \E c \in Consumers :
          \/ Begin(c) \/ SyncBegin(c) \/ Cancel(c) \/ Caller(c) \/ SyncCaller(c)
          \/ Completer(c)
     \/ \E o \in Ops : Worker(o)
  /\ UNCHANGED kind

Spec == Init /\ [][Next]_vars

(* A call that has begun runs to its end, cancellation callbacks run, the   *)
(* scheduler runs continuations and the curl engine bounds every transfer   *)
(* by a timeout.  Nobody has to call or to cancel.                          *)
FairSpec ==
  /\ Spec
  /\ \A c \in Consumers : /\ WF_vars((Caller(c) \/ SyncCaller(c)) /\ UNCHANGED kind)
                            /\ WF_vars(Completer(c) /\ UNCHANGED kind)
  /\ \A o \in Ops : WF_vars(Worker(o) /\ UNCHANGED kind)

-----------------------------------------------------------------------------
(* Properties.                                                             *)

(* Every variable has its type.                                             *)
TypeOK ==
  /\ kind \in {"Sync", "Async"}
  /\ registry \in Ops \cup {NoOp} /\ created \in 0 .. MaxOps
  /\ consumers_ \in [Ops -> Nat] /\ subs \in [Ops -> SUBSET Consumers]
  /\ abandoned_ \in [Ops -> BOOLEAN] /\ done_ \in [Ops -> BOOLEAN]
  /\ result \in [Ops -> {"none", "ok", "fail"}]
  /\ stage \in [Ops -> Stages]
  /\ todo \in [Ops -> SUBSET Consumers] /\ current \in [Ops -> SUBSET Consumers]
  /\ pc \in [Consumers -> CallerPCs] /\ op \in [Consumers -> Ops \cup {NoOp}]
  /\ owner \in [Consumers -> BOOLEAN] /\ attached \in [Consumers -> BOOLEAN]
  /\ cop \in [Consumers -> Ops \cup {NoOp}] /\ cattached \in [Consumers -> BOOLEAN]
  /\ csub \in [Consumers -> BOOLEAN] /\ detached \in [Consumers -> BOOLEAN]
  /\ cpc \in [Consumers -> CompleterPCs] /\ outcome \in [Consumers -> Outcomes]
  /\ calls \in [Consumers -> Nat] /\ cancelled \subseteq Cancellable

(* Who still counts for an operation: callers between attachConsumer() and  *)
(* the hand-over, consumers that have not been released, and synchronous    *)
(* callers until their guard is destroyed.                                  *)
Attachments(o) ==
  {c \in Consumers : op[c] = o /\ attached[c]
                     /\ pc[c] \in {"record", "undo", "fetch", "wait", "cleanup",
                                   "guard"}}
  \cup {c \in Consumers : cop[c] = o /\ cattached[c]
                          /\ cpc[c] \notin {"call", "done"}}

(* consumers_ is exactly the number of attachments, whichever of caller,    *)
(* canceller and publisher gives them back: the early return of             *)
(* releaseConsumer() for zero consumers never has to save the count.        *)
ConsumersCounted == \A o \in Ops : consumers_[o] = Cardinality(Attachments(o))

(* When every call has returned and every operation that was started has    *)
(* ended, the registry is empty: no entry outlives its operation.           *)
RegistryReclaimed ==
  ( /\ \A c \in Consumers : pc[c] \in {"idle", "returned"} /\ cpc[c] \in {"none", "done"}
    /\ \A o \in Ops : stage[o] \in {"unstarted", "end"} )
  => registry = NoOp

(* An operation that can still be joined is the one in the registry, so     *)
(* that no request starts another for the key, although both publishers and *)
(* retries erase entries without holding on to them.                        *)
RegistryCurrent == \A o \in 1 .. created : Joinable(o) => registry = o

(* The bookkeeping of operations, consumers and registry together.          *)
Consistent == TypeOK /\ ConsumersCounted /\ RegistryCurrent /\ RegistryReclaimed

(* Every request that was ever counted as a consumer is answered in the     *)
(* end, cancelled or not, whoever the owner is and however it fails.        *)
ConsumerAnswered ==
  \A c \in Consumers : attached[c] ~> (calls[c] = 1)

(* The detailed protocol implements Coalescing: one operation at a time can *)
(* be joined for the key; work is given up only when everybody who waits    *)
(* for it has left; and whoever wins the race to complete a request, it is  *)
(* answered once, with the result of the operation it joined or as          *)
(* cancelled because it was.  A retry never joins an operation that failed  *)
(* before, as the comment in attachConsumer() promises for the time in      *)
(* which the owner still delivers callbacks.  A consumer is with its        *)
(* operation from attachConsumer() to its answer.                           *)
Waits(c) ==
  /\ op[c] # NoOp /\ calls[c] = 0
  /\ pc[c] \notin {"attach", "evict", "lookup"}

Abstract == INSTANCE Coalescing WITH
  Clients <- Consumers, Flights <- Ops, Resource <- [o \in Ops |-> NoOp],
  NoFlight <- NoOp,
  flight <- [o \in Ops |-> IF o > created THEN "unused"
                           ELSE IF done_[o] THEN result[o]
                           ELSE IF abandoned_[o] THEN "dropped" ELSE "open"],
  member <- [c \in Consumers |-> IF Waits(c) THEN op[c] ELSE NoOp],
  left <- cancelled,
  reply <- [c \in Consumers |-> IF calls[c] = 0 THEN "none" ELSE outcome[c]],
  times <- calls

ImplementsCoalescing == Abstract!Spec
=============================================================================
