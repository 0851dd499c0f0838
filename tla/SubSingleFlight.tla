--------------------------- MODULE SubSingleFlight ---------------------------
(***************************************************************************)
(* The single flight of /sub (src/src/handler/interfaces.cpp):             *)
(* ConversionService::convertSubscriptionAsync(), the calls it shares      *)
(* between requests with the same key, and the way a request leaves one.   *)
(*                                                                         *)
(* A request creates at most one call, so a call is named after the        *)
(* request that owns it.  The thread of a request, the thread that runs    *)
(* its cancellation callback and the thread that publishes a call          *)
(* interleave; a step is one critical section of g_async_sub_inflight_mutex *)
(* or of a call's mutex, or one atomic exchange.  The scheduler is used    *)
(* through what WorkloadScheduler shows of it: a task is refused at once,  *)
(* or settled later, exactly once.                                         *)
(***************************************************************************)
EXTENDS Integers, FiniteSets

CONSTANTS
  Requests,     \* requests for /sub
  Keys,         \* what buildSubRequestKey() tells apart
  NoCall,       \* no entry in g_async_sub_inflight
  Key,          \* the key of each request
  Cacheable     \* keys without age and explain

ASSUME RequestAssumption ==
  /\ IsFiniteSet(Requests) /\ NoCall \notin Requests
  /\ Key \in [Requests -> Keys]
  /\ Cacheable \subseteq Keys

VARIABLES
  pc,           \* the step of the request's thread
  ended,        \* its context is cancelled: client gone, deadline
  call,         \* consumer->call
  registered,   \* its callback is registered with the context
  claim,        \* completion_claimed, and what the claimer has still to do
  waiting,      \* consumer->waiting_counted
  answer,       \* what its completion was called with
  answered,     \* how often it was called
  phase, consumers, result, released,  \* the AsyncInflightSubRequest
  workEnded,    \* call->work_context is cancelled
  outcome,      \* what the scheduler settles the call's task with
  pub, todo,    \* the step of the publishing thread; consumers it took over
  inflight,     \* g_async_sub_inflight
  cached,       \* keys with an entry in the response cache
  activeOwners, waitingFollowers,      \* the two gauges
  stopping      \* conversion_shutdown_requested

requestVars == <<pc, ended, call, registered, claim, waiting, answer, answered>>
callVars    == <<phase, consumers, result, released, workEnded, outcome, pub, todo>>
sharedVars  == <<inflight, cached, activeOwners, waitingFollowers, stopping>>
vars == <<requestVars, callVars, sharedVars>>

Answers  == {"success", "failure", "cancelled", "stopping"}
Outcomes == {"success", "failure", "cancelled"}
None     == "none"

Init ==
  /\ pc = [r \in Requests |-> "new"]
  /\ ended = [r \in Requests |-> FALSE]
  /\ call = [r \in Requests |-> NoCall]
  /\ registered = [r \in Requests |-> FALSE]
  /\ claim = [r \in Requests |-> "free"]
  /\ waiting = [r \in Requests |-> FALSE]
  /\ answer = [r \in Requests |-> None]
  /\ answered = [r \in Requests |-> 0]
  /\ phase = [c \in Requests |-> "unused"]
  /\ consumers = [c \in Requests |-> {}]
  /\ result = [c \in Requests |-> FALSE]
  /\ released = [c \in Requests |-> FALSE]
  /\ workEnded = [c \in Requests |-> FALSE]
  /\ outcome = [c \in Requests |-> None]
  /\ pub = [c \in Requests |-> None]
  /\ todo = [c \in Requests |-> {}]
  /\ inflight = [k \in Keys |-> NoCall]
  /\ cached = {}
  /\ activeOwners = 0 /\ waitingFollowers = 0
  /\ stopping = FALSE

-----------------------------------------------------------------------------
(* What the steps share.                                                   *)

(* The completion of r is called with a.                                    *)
Invoke(r, a) ==
  /\ answer' = [answer EXCEPT ![r] = a]
  /\ answered' = [answered EXCEPT ![r] = @ + 1]

(* Fault: the entry of the key is erased whoever owns it.                   *)
EraseInflight_Any(c) ==
  inflight' = [inflight EXCEPT ![Key[c]] = NoCall]

(* eraseAsyncInflightSubRequest(): only the call's own entry.               *)
EraseInflight(c) ==
  inflight' = [inflight EXCEPT ![Key[c]] = IF @ = c THEN NoCall ELSE @]

(* releaseAsyncInflightOwner().                                             *)
ReleaseOwner(c) ==
  /\ activeOwners' = IF released[c] THEN activeOwners ELSE activeOwners - 1
  /\ released' = [released EXCEPT ![c] = TRUE]

(* The call that loses r is left without consumers while it still accepts.  *)
LastLeaves(r) ==
  phase[call[r]] = "Accepting" /\ consumers[call[r]] \ {r} = {}

(* Fault: a consumer that leaves is not taken off the waiting gauge.        *)
Detach_KeepsGauge(r) ==
  /\ consumers' = [consumers EXCEPT ![call[r]] = @ \ {r}]
  /\ phase' = [phase EXCEPT ![call[r]] = IF LastLeaves(r) THEN "Abandoned" ELSE @]
  /\ waiting' = [waiting EXCEPT ![r] = FALSE]
  /\ UNCHANGED waitingFollowers

(* detachAsyncSubRequestConsumer(), up to cancel_owner: the section under   *)
(* call->mutex and the gauge.                                               *)
Detach(r) ==
  /\ consumers' = [consumers EXCEPT ![call[r]] = @ \ {r}]
  /\ phase' = [phase EXCEPT ![call[r]] = IF LastLeaves(r) THEN "Abandoned" ELSE @]
  /\ waiting' = [waiting EXCEPT ![r] = FALSE]
  /\ waitingFollowers' = IF waiting[r] THEN waitingFollowers - 1 ELSE waitingFollowers

-----------------------------------------------------------------------------
(* convertSubscriptionAsync() on the thread of the request.                *)

(* Answered before any work: shutting down, already cancelled, refused by   *)
(* prepareSubRequest(), or found in the response cache.                     *)
AnswerEarly(r) ==
  /\ pc[r] = "new"
  /\ pc' = [pc EXCEPT ![r] = "returned"]
  /\ \/ stopping /\ Invoke(r, "stopping")
     \/ ~stopping /\ ended[r] /\ Invoke(r, "cancelled")
     \/ ~stopping /\ ~ended[r] /\ Invoke(r, "failure")
     \/ ~stopping /\ ~ended[r]
        /\ Key[r] \in cached \cap Cacheable /\ Invoke(r, "success")
  /\ UNCHANGED <<ended, call, registered, claim, waiting, callVars, sharedVars>>

(* Not prepared.coalesce: a task of its own, which the scheduler refuses or *)
(* keeps.                                                                   *)
SubmitStandalone(r) ==
  /\ pc[r] = "new" /\ ~stopping /\ ~ended[r]
  /\ \/ /\ pc' = [pc EXCEPT ![r] = "returned"]
        /\ Invoke(r, "failure")
     \/ /\ pc' = [pc EXCEPT ![r] = "standalone"]
        /\ UNCHANGED <<answer, answered>>
  /\ UNCHANGED <<ended, call, registered, claim, waiting, callVars, sharedVars>>

(* The scheduler settles that task.                                         *)
SettleStandalone(r) ==
  /\ pc[r] = "standalone"
  /\ pc' = [pc EXCEPT ![r] = "returned"]
  /\ \/ \E a \in {"success", "failure"} : Invoke(r, a)
     \/ ended[r] /\ Invoke(r, "cancelled")
     \/ stopping /\ Invoke(r, "stopping")
  /\ UNCHANGED <<ended, call, registered, claim, waiting, callVars, sharedVars>>

MissCache(r) ==
  /\ pc[r] = "new" /\ ~stopping /\ ~ended[r]
  /\ Key[r] \notin cached \cap Cacheable
  /\ pc' = [pc EXCEPT ![r] = "lookup"]
  /\ UNCHANGED <<ended, call, registered, claim, waiting, answer, answered,
                 callVars, sharedVars>>

(* Under g_async_sub_inflight_mutex: join the call of the key, or make one  *)
(* with the request as its first consumer.                                  *)
Join(r) ==
  /\ pc[r] = "lookup" /\ inflight[Key[r]] # NoCall
  /\ pc' = [pc EXCEPT ![r] = "peek"]
  /\ call' = [call EXCEPT ![r] = inflight[Key[r]]]
  /\ claim' = [claim EXCEPT ![r] = "free"]
  /\ registered' = [registered EXCEPT ![r] = FALSE]
  /\ UNCHANGED <<ended, waiting, answer, answered, callVars, sharedVars>>

Own(r) ==
  /\ pc[r] = "lookup" /\ inflight[Key[r]] = NoCall
  /\ pc' = [pc EXCEPT ![r] = "own"]
  /\ call' = [call EXCEPT ![r] = r]
  /\ claim' = [claim EXCEPT ![r] = "free"]
  /\ registered' = [registered EXCEPT ![r] = FALSE]
  /\ phase' = [phase EXCEPT ![r] = "Accepting"]
  /\ consumers' = [consumers EXCEPT ![r] = {r}]
  /\ inflight' = [inflight EXCEPT ![Key[r]] = r]
  /\ activeOwners' = activeOwners + 1
  /\ UNCHANGED <<ended, waiting, answer, answered, result, released, workEnded,
                 outcome, pub, todo, cached, waitingFollowers, stopping>>

(* A follower looks at the call for the first time.                         *)
Peek(r) ==
  /\ pc[r] = "peek"
  /\ pc' = [pc EXCEPT ![r] = CASE phase[call[r]] = "Accepting" -> "register"
                               [] phase[call[r]] \in {"Publishing", "Done"}
                                  /\ result[call[r]] -> "ready"
                               [] OTHER -> "retry"]
  /\ UNCHANGED <<ended, call, registered, claim, waiting, answer, answered,
                 callVars, sharedVars>>

(* Fault: an owner registers no callback.                                   *)
Register_FollowersOnly(r) ==
  /\ pc[r] \in {"register", "own"}
  /\ pc' = [pc EXCEPT ![r] = IF @ = "own" THEN "submit" ELSE "attach"]
  /\ registered' = [registered EXCEPT ![r] = pc[r] = "register"]
  /\ UNCHANGED <<ended, call, claim, waiting, answer, answered, callVars, sharedVars>>

(* registerAsyncSubRequestCancellation(), by a follower or by an owner; a   *)
(* context that has ended calls the callback during the registration.       *)
Register(r) ==
  /\ pc[r] \in {"register", "own"}
  /\ pc' = [pc EXCEPT ![r] = IF @ = "own" THEN "submit" ELSE "attach"]
  /\ registered' = [registered EXCEPT ![r] = TRUE]
  /\ UNCHANGED <<ended, call, claim, waiting, answer, answered, callVars, sharedVars>>

(* The follower was cancelled: its callback answers it.                     *)
SeeClaimed(r) ==
  /\ pc[r] = "attach" /\ claim[r] # "free"
  /\ pc' = [pc EXCEPT ![r] = "returned"]
  /\ UNCHANGED <<ended, call, registered, claim, waiting, answer, answered,
                 callVars, sharedVars>>

(* The second look at the call, under its mutex; the follower may have been *)
(* cancelled after SeeClaimed had found it alive.                           *)
Attach(r) ==
  /\ pc[r] = "attach"
  /\ IF phase[call[r]] = "Accepting" /\ claim[r] = "free"
       THEN /\ pc' = [pc EXCEPT ![r] = "returned"]
            /\ consumers' = [consumers EXCEPT ![call[r]] = @ \cup {r}]
            /\ waiting' = [waiting EXCEPT ![r] = TRUE]
            /\ waitingFollowers' = waitingFollowers + 1
       ELSE /\ pc' = [pc EXCEPT ![r] =
                        CASE phase[call[r]] = "Accepting" -> "returned"
                          [] phase[call[r]] \in {"Publishing", "Done"}
                             /\ result[call[r]] -> "ready"
                          [] OTHER -> "retry"]
            /\ UNCHANGED <<consumers, waiting, waitingFollowers>>
  /\ UNCHANGED <<ended, call, registered, claim, answer, answered, phase, result,
                 released, workEnded, outcome, pub, todo, inflight, cached,
                 activeOwners, stopping>>

(* The call is over without a result: its entry goes, and the request takes *)
(* its completion back, unless the callback was faster, and starts again.   *)
RetryErase(r) ==
  /\ pc[r] = "retry"
  /\ pc' = [pc EXCEPT ![r] = "reclaim"]
  /\ EraseInflight(call[r])
  /\ UNCHANGED <<ended, call, registered, claim, waiting, answer, answered, callVars,
                 cached, activeOwners, waitingFollowers, stopping>>

RetryClaim(r) ==
  /\ pc[r] = "reclaim"
  /\ IF claim[r] = "free"
       THEN /\ claim' = [claim EXCEPT ![r] = "taken"]
            /\ pc' = [pc EXCEPT ![r] = "lookup"]
       ELSE /\ pc' = [pc EXCEPT ![r] = "returned"]
            /\ UNCHANGED claim
  /\ UNCHANGED <<ended, call, registered, waiting, answer, answered,
                 callVars, sharedVars>>

(* The result was there: completeAsyncSubRequestSuccess() on this thread.   *)
ClaimReady(r) ==
  /\ pc[r] = "ready"
  /\ IF claim[r] = "free"
       THEN /\ claim' = [claim EXCEPT ![r] = "deliver"]
            /\ pc' = [pc EXCEPT ![r] = "answer"]
       ELSE /\ pc' = [pc EXCEPT ![r] = "returned"]
            /\ UNCHANGED claim
  /\ UNCHANGED <<ended, call, registered, waiting, answer, answered,
                 callVars, sharedVars>>

(* The owner submits the work.  Refused, it publishes the failure itself;   *)
(* a cancelled work context is always refused.                              *)
Submit(r) ==
  /\ pc[r] = "submit"
  /\ pc' = [pc EXCEPT ![r] = "returned"]
  /\ \/ /\ ~workEnded[r]
        /\ pub' = [pub EXCEPT ![r] = "queued"]
        /\ UNCHANGED outcome
     \/ /\ pub' = [pub EXCEPT ![r] = "swap"]
        /\ outcome' = [outcome EXCEPT ![r] = IF workEnded[r] THEN "cancelled"
                                                             ELSE "failure"]
  /\ UNCHANGED <<ended, call, registered, claim, waiting, answer, answered, phase,
                 consumers, result, released, workEnded, todo, sharedVars>>

-----------------------------------------------------------------------------
(* The task of a call ends and its result is published.                    *)

(* A cancelled work context may still come too late to stop the work.       *)
Settle(c) ==
  /\ pub[c] = "queued"
  /\ \E o \in Outcomes :
       /\ o = "cancelled" => workEnded[c]
       /\ outcome' = [outcome EXCEPT ![c] = o]
       /\ pub' = [pub EXCEPT ![c] = IF o = "success" THEN "publish" ELSE "swap"]
  /\ UNCHANGED <<requestVars, phase, consumers, result, released, workEnded, todo,
                 sharedVars>>

(* publishAsyncSubRequestSuccess(), the first section.                      *)
Publish(c) ==
  /\ pub[c] = "publish"
  /\ IF phase[c] = "Abandoned" \/ consumers[c] = {}
       THEN /\ phase' = [phase EXCEPT ![c] = "Abandoned"]
            /\ pub' = [pub EXCEPT ![c] = "swap"]
            /\ UNCHANGED result
       ELSE /\ phase' = [phase EXCEPT ![c] = "Publishing"]
            /\ result' = [result EXCEPT ![c] = TRUE]
            /\ pub' = [pub EXCEPT ![c] = "store"]
  /\ UNCHANGED <<requestVars, consumers, released, workEnded, outcome, todo, sharedVars>>

(* storeCachedSubResponse(); the cache may be off or the body too large.    *)
Store(c) ==
  /\ pub[c] = "store"
  /\ pub' = [pub EXCEPT ![c] = "swap"]
  /\ \E stored \in SUBSET ({Key[c]} \cap Cacheable) : cached' = cached \cup stored
  /\ UNCHANGED <<requestVars, phase, consumers, result, released, workEnded, outcome,
                 todo, inflight, activeOwners, waitingFollowers, stopping>>

(* The last section of both publications: take the consumers over.          *)
Swap(c) ==
  /\ pub[c] = "swap"
  /\ pub' = [pub EXCEPT ![c] = "erase"]
  /\ phase' = [phase EXCEPT ![c] = IF @ = "Abandoned" THEN @ ELSE "Done"]
  /\ todo' = [todo EXCEPT ![c] = consumers[c]]
  /\ consumers' = [consumers EXCEPT ![c] = {}]
  /\ UNCHANGED <<requestVars, result, released, workEnded, outcome, sharedVars>>

Retire(c) ==
  /\ pub[c] = "erase"
  /\ pub' = [pub EXCEPT ![c] = "deliver"]
  /\ EraseInflight(c) /\ ReleaseOwner(c)
  /\ UNCHANGED <<requestVars, phase, consumers, result, workEnded, outcome, todo,
                 cached, waitingFollowers, stopping>>

(* The publisher is in the middle of answering one of its consumers.        *)
Delivering(c) ==
  \E r \in Requests : claim[r] = "deliver" /\ pc[r] = "returned" /\ call[r] = c

(* Fault: the completion is taken without claiming it.                      *)
Deliver_Unclaimed(c, r) ==
  /\ pub[c] = "deliver" /\ r \in todo[c] /\ ~Delivering(c)
  /\ todo' = [todo EXCEPT ![c] = @ \ {r}]
  /\ claim' = [claim EXCEPT ![r] = "deliver"]
  /\ UNCHANGED <<pc, ended, call, registered, waiting, answer, answered, phase,
                 consumers, result, released, workEnded, outcome, pub, sharedVars>>

(* The loop of a publication, one consumer after the other; a consumer that *)
(* its callback has claimed is passed over.                                 *)
Deliver(c, r) ==
  /\ pub[c] = "deliver" /\ r \in todo[c] /\ ~Delivering(c)
  /\ todo' = [todo EXCEPT ![c] = @ \ {r}]
  /\ claim' = [claim EXCEPT ![r] = IF @ = "free" THEN "deliver" ELSE @]
  /\ UNCHANGED <<pc, ended, call, registered, waiting, answer, answered, phase,
                 consumers, result, released, workEnded, outcome, pub, sharedVars>>

(* The rest of completeAsyncSubRequestSuccess() and -Failure(): the claim   *)
(* makes it the only one to touch this consumer.                            *)
Complete(r) ==
  /\ claim[r] = "deliver"
  /\ claim' = [claim EXCEPT ![r] = "taken"]
  /\ pc' = [pc EXCEPT ![r] = "returned"]
  /\ Invoke(r, IF ended[r] THEN "cancelled" ELSE outcome[call[r]])
  /\ Detach(r)
  /\ UNCHANGED <<ended, call, registered, result, released, workEnded, outcome, pub,
                 todo, inflight, cached, activeOwners, stopping>>

-----------------------------------------------------------------------------
(* completeAsyncSubRequestCancellation(): the callback of the context.     *)

CancelClaim(r) ==
  /\ ended[r] /\ registered[r] /\ claim[r] = "free"
  /\ claim' = [claim EXCEPT ![r] = "detach"]
  /\ UNCHANGED <<pc, ended, call, registered, waiting, answer, answered,
                 callVars, sharedVars>>

CancelDetach(r) ==
  /\ claim[r] = "detach"
  /\ claim' = [claim EXCEPT ![r] = IF LastLeaves(r) THEN "stop work" ELSE "call"]
  /\ Detach(r)
  /\ UNCHANGED <<pc, ended, call, registered, answer, answered, result, released,
                 workEnded, outcome, pub, todo, inflight, cached, activeOwners, stopping>>

(* The last consumer has left: the work is cancelled, ...                   *)
CancelWork(r) ==
  /\ claim[r] = "stop work"
  /\ claim' = [claim EXCEPT ![r] = "retire"]
  /\ workEnded' = [workEnded EXCEPT ![call[r]] = TRUE]
  /\ UNCHANGED <<pc, ended, call, registered, waiting, answer, answered, phase,
                 consumers, result, released, outcome, pub, todo, sharedVars>>

(* ... and the call taken out of the registry.                              *)
CancelRetire(r) ==
  /\ claim[r] = "retire"
  /\ claim' = [claim EXCEPT ![r] = "call"]
  /\ EraseInflight(call[r]) /\ ReleaseOwner(call[r])
  /\ UNCHANGED <<pc, ended, call, registered, waiting, answer, answered, phase,
                 consumers, result, workEnded, outcome, pub, todo, cached,
                 waitingFollowers, stopping>>

CancelAnswer(r) ==
  /\ claim[r] = "call"
  /\ claim' = [claim EXCEPT ![r] = "taken"]
  /\ Invoke(r, "cancelled")
  /\ UNCHANGED <<pc, ended, call, registered, waiting, callVars, sharedVars>>

-----------------------------------------------------------------------------
(* What happens around it.                                                 *)

(* The client leaves or the deadline of the request passes.                 *)
End(r) ==
  /\ ~ended[r]
  /\ ended' = [ended EXCEPT ![r] = TRUE]
  /\ UNCHANGED <<pc, call, registered, claim, waiting, answer, answered, callVars,
                 sharedVars>>

(* requestConversionSchedulerShutdown().                                    *)
RequestShutdown ==
  /\ ~stopping
  /\ stopping' = TRUE
  /\ UNCHANGED <<requestVars, callVars, inflight, cached, activeOwners, waitingFollowers>>

(* An entry of the response cache expires.                                  *)
Expire(k) ==
  /\ k \in cached
  /\ cached' = cached \ {k}
  /\ UNCHANGED <<requestVars, callVars, inflight, activeOwners, waitingFollowers, stopping>>

(* Everything is answered and every thread is through.                      *)
Quiet ==
  /\ \A r \in Requests : pc[r] = "returned" /\ answered[r] > 0
                         /\ claim[r] \in {"free", "taken"}
  /\ \A c \in Requests : pub[c] = None \/ (pub[c] = "deliver" /\ todo[c] = {})

Rest == Quiet /\ UNCHANGED vars

RequestStep(r) ==
  \/ AnswerEarly(r) \/ SubmitStandalone(r) \/ MissCache(r)
  \/ Join(r) \/ Own(r) \/ Peek(r) \/ Register(r) \/ SeeClaimed(r) \/ Attach(r)
  \/ RetryErase(r) \/ RetryClaim(r) \/ ClaimReady(r) \/ Submit(r)

CallbackStep(r) ==
  CancelClaim(r) \/ CancelDetach(r) \/ CancelWork(r) \/ CancelRetire(r) \/ CancelAnswer(r)

PublisherStep(c) ==
  Publish(c) \/ Store(c) \/ Swap(c) \/ Retire(c) \/ \E r \in Requests : Deliver(c, r)

Next ==
  \/ \E r \in Requests :
       RequestStep(r) \/ CallbackStep(r) \/ Complete(r) \/ SettleStandalone(r) \/ End(r)
  \/ \E c \in Requests : Settle(c) \/ PublisherStep(c)
  \/ RequestShutdown
  \/ \E k \in Keys : Expire(k)
  \/ Rest

Spec == Init /\ [][Next]_vars

(* The threads of the requests, the callbacks and the publishers keep       *)
(* running; nothing is said about the work itself.                          *)
ThreadFairness ==
  \A r \in Requests :
    /\ WF_vars(RequestStep(r)) /\ WF_vars(CallbackStep(r))
    /\ WF_vars(PublisherStep(r)) /\ WF_vars(Complete(r))

ThreadSpec == Spec /\ ThreadFairness

-----------------------------------------------------------------------------
Steps  == {"new", "standalone", "lookup", "peek", "register", "attach", "retry",
           "reclaim", "ready", "answer", "own", "submit", "returned"}
Claims == {"free", "detach", "stop work", "retire", "call", "deliver", "taken"}
Phases == {"unused", "Accepting", "Publishing", "Done", "Abandoned"}
Publishing == {None, "queued", "publish", "store", "swap", "erase", "deliver"}

(* Types of the state of convertSubscriptionAsync() and of the calls; the   *)
(* gauges are unsigned and may not wrap.                                    *)
TypeOK ==
  /\ pc \in [Requests -> Steps] /\ ended \in [Requests -> BOOLEAN]
  /\ call \in [Requests -> Requests \cup {NoCall}]
  /\ registered \in [Requests -> BOOLEAN] /\ claim \in [Requests -> Claims]
  /\ waiting \in [Requests -> BOOLEAN]
  /\ answer \in [Requests -> Answers \cup {None}] /\ answered \in [Requests -> Nat]
  /\ phase \in [Requests -> Phases]
  /\ consumers \in [Requests -> SUBSET Requests]
  /\ result \in [Requests -> BOOLEAN] /\ released \in [Requests -> BOOLEAN]
  /\ workEnded \in [Requests -> BOOLEAN]
  /\ outcome \in [Requests -> Outcomes \cup {None}]
  /\ pub \in [Requests -> Publishing] /\ todo \in [Requests -> SUBSET Requests]
  /\ inflight \in [Keys -> Requests \cup {NoCall}] /\ cached \subseteq Keys
  /\ activeOwners \in Nat /\ waitingFollowers \in Nat /\ stopping \in BOOLEAN

(* A call that accepts requests is the one the registry holds for its key,  *)
(* however abandoned calls are cleared away, and has consumers; once its    *)
(* work has been cancelled for the lack of them nobody waits for it again.  *)
WorkIsWanted ==
  \A c \in Requests :
    /\ phase[c] = "Accepting" => inflight[Key[c]] = c /\ consumers[c] # {}
    /\ workEnded[c] => consumers[c] = {} /\ todo[c] = {}

(* A request that returned unanswered is still somebody's to answer: a      *)
(* callback or a publisher has claimed it, or it waits with a call.         *)
SomebodyAnswers ==
  \A r \in Requests :
    (pc[r] = "returned" /\ answered[r] = 0 /\ claim[r] \in {"free", "taken"}) =>
      \E c \in Requests : r \in consumers[c] \cup todo[c]

(* The two gauges count the calls and the followers there are, and once     *)
(* everything is answered both are back at zero and the registry is empty.  *)
GaugesMatch ==
  /\ activeOwners = Cardinality({c \in Requests : phase[c] # "unused" /\ ~released[c]})
  /\ waitingFollowers = Cardinality({r \in Requests : waiting[r]})
  /\ Quiet => activeOwners = 0 /\ waitingFollowers = 0
              /\ \A k \in Keys : inflight[k] = NoCall

(* The bookkeeping of calls, consumers and gauges together.                 *)
Consistent == TypeOK /\ SomebodyAnswers /\ GaugesMatch

(* Every request is answered in the end, through any number of retries,     *)
(* except one that waits for work that does not end.  A request for shared  *)
(* work whose client has left does not even wait for that.                  *)
AnsweredUnlessWorking ==
  <>[](\A r \in Requests :
         \/ answered[r] > 0
         \/ pc[r] = "standalone"
         \/ call[r] # NoCall /\ pub[call[r]] = "queued" /\ ~ended[r])

(* The detailed protocol implements Coalescing: of all the calls for a key  *)
(* at most one accepts requests, however abandoned calls are cleared away;  *)
(* a call is given up only when all its consumers have left; whichever of   *)
(* the publisher, the callback and the request's own thread gets there      *)
(* first, a request is answered once, and is told that it was cancelled     *)
(* only if its own context ended.  A request is with a call while the call  *)
(* or its publisher holds it as a consumer, or it has found the result.     *)
Waits(r) ==
  /\ call[r] # NoCall /\ answered[r] = 0
  /\ \/ r \in consumers[call[r]] \cup todo[call[r]]
     \/ claim[r] = "deliver" \/ pc[r] = "ready"

ReplyOf(r) ==
  IF answer[r] = "success" THEN "ok" ELSE IF answer[r] = "failure" THEN "fail"
  ELSE IF answer[r] = "stopping" THEN "refused" ELSE answer[r]

Abstract == INSTANCE Coalescing WITH
  Clients <- Requests, Flights <- Requests, Resource <- Key, NoFlight <- NoCall,
  flight <- [c \in Requests |->
               IF phase[c] = "unused" THEN "unused"
               ELSE IF phase[c] = "Accepting" THEN "open"
               ELSE IF phase[c] = "Abandoned" THEN "dropped"
               ELSE IF result[c] THEN "ok" ELSE "fail"],
  member <- [r \in Requests |-> IF Waits(r) THEN call[r] ELSE NoCall],
  left <- {r \in Requests : ended[r]},
  reply <- [r \in Requests |-> ReplyOf(r)],
  times <- answered

ImplementsCoalescing == Abstract!Spec
==============================================================================
