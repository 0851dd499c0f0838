------------------------- MODULE RequestCancellation -------------------------
(***************************************************************************)
(* The cancellation state of one request and the way the request ends      *)
(* (src/src/server/request_context.h): RequestCancellationState with its   *)
(* callbacks, the drain flag that spares a response which is being sent,   *)
(* and finalizeResponse().                                                 *)
(*                                                                         *)
(* Any thread may cancel: the deadline timer, the observer of the socket,  *)
(* the shutdown of the server, and finalizeResponse() itself.  A step is   *)
(* one atomic access or one critical section of callbacks_mutex; the       *)
(* atomics are taken to be sequentially consistent.                        *)
(***************************************************************************)
EXTENDS Integers, FiniteSets

CONSTANTS
  Cancellers,   \* threads that cancel the request
  Finalizers,   \* threads that finish it
  Registrants   \* holders of a RequestCancellationRegistration

ASSUME ThreadAssumption ==
  IsFiniteSet(Cancellers) /\ IsFiniteSet(Finalizers) /\ IsFiniteSet(Registrants)
  /\ Cancellers \cap Finalizers = {}

Threads == Cancellers \cup Finalizers
Reasons == {"Deadline", "ClientDisconnected", "Shutdown"}
Failures == {"None", "Capacity", "Client", "Server", "User"}
Suggestions == {"Capacity", "Client", "Server"}  \* Server also for Upstream and User
Terminals == {"Completed", "Cancelled", "DeadlineExceeded", "Rejected", "Failed"}
Statuses == {"ok", "client error", "server error"}
None == "None"

VARIABLES
  reason, drain, callbacks,   \* the RequestCancellationState
  rpc, invoked,               \* per registrant: its step, times called back
  cpc, why, batch,            \* per thread: its step in cancel(), its callbacks
  expired,                    \* the deadline of the request has passed
  suggested,                  \* suggested_failure_
  fpc, sent, status, saw, failure,  \* per finalizer: its step and locals
  outcome, finished,          \* terminal_outcome_; the terminal counter
  overdue,                    \* history: finalizers called after the deadline
  winner,                     \* history: the finalizer whose outcome stands
  sparedBy                    \* history: shutdowns that began while sending

cancellation == <<reason, drain, callbacks>>
registrants  == <<rpc, invoked>>
cancelling   == <<cpc, why, batch>>
finalizing   == <<fpc, sent, status, saw, failure, outcome, finished, overdue, winner>>
vars == <<cancellation, registrants, cancelling, expired, suggested, finalizing, sparedBy>>

NoOutcome == <<None, None>>

Init ==
  /\ reason = None /\ drain = FALSE /\ callbacks = {}
  /\ rpc = [r \in Registrants |-> "new"] /\ invoked = [r \in Registrants |-> 0]
  /\ cpc = [t \in Threads |-> "idle"] /\ why = [t \in Threads |-> None]
  /\ batch = [t \in Threads |-> {}]
  /\ expired = FALSE /\ suggested = None
  /\ fpc = [f \in Finalizers |-> "new"] /\ sent = [f \in Finalizers |-> FALSE]
  /\ status = [f \in Finalizers |-> "ok"] /\ saw = [f \in Finalizers |-> None]
  /\ failure = [f \in Finalizers |-> None]
  /\ outcome = NoOutcome /\ finished = 0
  /\ overdue = {} /\ winner = None /\ sparedBy = {}

-----------------------------------------------------------------------------
(* cancelRequestCancellationState().                                       *)

(* The call, on any thread; a canceller calls once.                         *)
Enter(t, r) ==
  /\ cpc[t] = "idle"
  /\ cpc' = [cpc EXCEPT ![t] = "check"]
  /\ why' = [why EXCEPT ![t] = r]
  /\ sparedBy' = IF drain /\ r = "Shutdown" THEN sparedBy \cup {t} ELSE sparedBy
  /\ UNCHANGED batch

Cancel(t) ==
  /\ t \in Cancellers /\ why[t] = None
  /\ \E r \in Reasons : (r = "Deadline" => expired) /\ Enter(t, r)
  /\ UNCHANGED <<cancellation, registrants, expired, suggested, finalizing>>

(* Fault: the drain flag is not looked at.                                  *)
CheckDrain_Skipped(t) ==
  /\ cpc[t] = "check"
  /\ cpc' = [cpc EXCEPT ![t] = "cas"]
  /\ UNCHANGED <<cancellation, registrants, why, batch, expired, suggested, finalizing,
                 sparedBy>>

CheckDrain(t) ==
  /\ cpc[t] = "check"
  /\ cpc' = [cpc EXCEPT ![t] = IF why[t] = "Shutdown" /\ drain THEN "idle" ELSE "cas"]
  /\ UNCHANGED <<cancellation, registrants, why, batch, expired, suggested, finalizing,
                 sparedBy>>

Exchange(t) ==
  /\ cpc[t] = "cas"
  /\ IF reason = None
     THEN reason' = why[t] /\ cpc' = [cpc EXCEPT ![t] = "swap"]
     ELSE cpc' = [cpc EXCEPT ![t] = "idle"] /\ UNCHANGED reason
  /\ UNCHANGED <<drain, callbacks, registrants, why, batch, expired, suggested,
                 finalizing, sparedBy>>

Swap(t) ==
  /\ cpc[t] = "swap"
  /\ batch' = [batch EXCEPT ![t] = callbacks] /\ callbacks' = {}
  /\ cpc' = [cpc EXCEPT ![t] = "invoke"]
  /\ UNCHANGED <<reason, drain, registrants, why, expired, suggested, finalizing,
                 sparedBy>>

(* Fault: a callback that throws ends the delivery of the others.           *)
Invoke_StopsAtThrow(t) ==
  /\ cpc[t] = "invoke"
  /\ cpc' = [cpc EXCEPT ![t] = "idle"] /\ batch' = [batch EXCEPT ![t] = {}]
  /\ \/ batch[t] = {} /\ UNCHANGED invoked
     \/ \E r \in batch[t] : invoked' = [invoked EXCEPT ![r] = @ + 1]
  /\ UNCHANGED <<cancellation, rpc, why, expired, suggested, finalizing, sparedBy>>

(* One callback, which may throw; the next is called all the same.          *)
Invoke(t) ==
  /\ cpc[t] = "invoke"
  /\ IF batch[t] = {}
     THEN cpc' = [cpc EXCEPT ![t] = "idle"] /\ UNCHANGED <<batch, invoked>>
     ELSE \E r \in batch[t] :
            /\ batch' = [batch EXCEPT ![t] = @ \ {r}]
            /\ invoked' = [invoked EXCEPT ![r] = @ + 1]
            /\ UNCHANGED cpc
  /\ UNCHANGED <<cancellation, rpc, why, expired, suggested, finalizing, sparedBy>>

-----------------------------------------------------------------------------
(* registerRequestCancellationCallback() and reset(), which does not wait   *)
(* for a callback that runs.                                                *)

(* Fault: the reason is not looked at again under the mutex.                *)
Register_NoRecheck(r) ==
  /\ rpc[r] = "new"
  /\ callbacks' = callbacks \cup {r}
  /\ rpc' = [rpc EXCEPT ![r] = "registered"]
  /\ UNCHANGED <<reason, drain, invoked, cancelling, expired, suggested, finalizing,
                 sparedBy>>

Register(r) ==
  /\ rpc[r] = "new"
  /\ IF reason = None
     THEN /\ callbacks' = callbacks \cup {r}
          /\ rpc' = [rpc EXCEPT ![r] = "registered"]
     ELSE rpc' = [rpc EXCEPT ![r] = "invoke"] /\ UNCHANGED callbacks
  /\ UNCHANGED <<reason, drain, invoked, cancelling, expired, suggested, finalizing,
                 sparedBy>>

InvokeNow(r) ==
  /\ rpc[r] = "invoke"
  /\ invoked' = [invoked EXCEPT ![r] = @ + 1]
  /\ rpc' = [rpc EXCEPT ![r] = "reset"]
  /\ UNCHANGED <<cancellation, cancelling, expired, suggested, finalizing, sparedBy>>

Reset(r) ==
  /\ rpc[r] = "registered"
  /\ callbacks' = callbacks \ {r}
  /\ rpc' = [rpc EXCEPT ![r] = "reset"]
  /\ UNCHANGED <<reason, drain, invoked, cancelling, expired, suggested, finalizing,
                 sparedBy>>

-----------------------------------------------------------------------------
(* The request itself.                                                     *)

Expire ==
  /\ ~ expired /\ expired' = TRUE
  /\ UNCHANGED <<cancellation, registrants, cancelling, suggested, finalizing, sparedBy>>

(* suggestFailure(): the first suggestion stays.                            *)
SuggestFailure ==
  /\ suggested = None
  /\ suggested' \in Suggestions
  /\ UNCHANGED <<cancellation, registrants, cancelling, expired, finalizing, sparedBy>>

(* setCurrentStage(Send).                                                   *)
StartSending ==
  /\ ~ drain /\ drain' = TRUE
  /\ UNCHANGED <<reason, callbacks, registrants, cancelling, expired, suggested,
                 finalizing, sparedBy>>

-----------------------------------------------------------------------------
(* finalizeResponse(status, response_sent).                                *)

(* The arguments (the server passes 500 for a response it could not send,   *)
(* and only sends in the Send stage), and the failure that is read first. *)
Finalize(f) ==
  /\ fpc[f] = "new"
  /\ \E s \in Statuses, ok \in BOOLEAN :
       /\ IF ok THEN drain ELSE s = "server error"
       /\ status' = [status EXCEPT ![f] = s] /\ sent' = [sent EXCEPT ![f] = ok]
  /\ failure' = [failure EXCEPT ![f] = suggested]
  /\ fpc' = [fpc EXCEPT ![f] = "reason"]
  /\ overdue' = IF expired THEN overdue \cup {f} ELSE overdue
  /\ UNCHANGED <<cancellation, registrants, cancelling, expired, suggested, saw, outcome,
                 finished, winner, sparedBy>>

ReadReason(f) ==
  /\ fpc[f] = "reason"
  /\ saw' = [saw EXCEPT ![f] = reason]
  /\ fpc' = [fpc EXCEPT ![f] = "branch"]
  /\ UNCHANGED <<cancellation, registrants, cancelling, expired, suggested, sent, status,
                 failure, outcome, finished, overdue, winner, sparedBy>>

(* Fault: only a timer that has already cancelled the request is noticed.   *)
Late_NoDeadline(f) == saw[f] = "Deadline"

(* A response that was not sent, or too late, cancels the request first.    *)
Late(f) == saw[f] = "Deadline" \/ expired

Branch(f) ==
  /\ fpc[f] = "branch"
  /\ \/ ~ sent[f] /\ Enter(f, "ClientDisconnected")
        /\ fpc' = [fpc EXCEPT ![f] = "finish unsent"]
     \/ sent[f] /\ Late(f) /\ Enter(f, "Deadline")
        /\ fpc' = [fpc EXCEPT ![f] = "finish late"]
     \/ sent[f] /\ ~ Late(f) /\ fpc' = [fpc EXCEPT ![f] = "finish"]
        /\ UNCHANGED <<cancelling, sparedBy>>
  /\ UNCHANGED <<cancellation, registrants, expired, suggested, sent, status, saw,
                 failure, outcome, finished, overdue, winner>>

Or(given, default) == IF given = None THEN default ELSE given

(* The terminal state and the failure it is attributed to, for a response   *)
(* that was sent in time; the rest is decided before.                       *)
SentVerdict(f) ==
  LET why_ == failure[f] IN
  IF saw[f] # None
  THEN <<"Cancelled", Or(why_, IF saw[f] = "Shutdown" THEN "Server" ELSE "Client")>>
  ELSE IF why_ = "Capacity" THEN <<"Rejected", why_>>
  ELSE IF why_ = "Client" THEN <<"Cancelled", why_>>
  ELSE IF status[f] = "server error" THEN <<"Failed", Or(why_, "Server")>>
  ELSE IF status[f] = "client error" THEN <<"Completed", Or(why_, "User")>>
  ELSE <<"Completed", why_>>

Verdict(f) ==
  IF fpc[f] = "finish unsent" THEN <<"Cancelled", "Client">>
  ELSE IF fpc[f] = "finish late" THEN <<"DeadlineExceeded", Or(failure[f], "Client")>>
  ELSE SentVerdict(f)

(* tryFinish(): the first outcome stays and is counted.                     *)
TryFinish(f) ==
  /\ fpc[f] \in {"finish", "finish late", "finish unsent"} /\ cpc[f] = "idle"
  /\ IF outcome = NoOutcome
     THEN outcome' = Verdict(f) /\ finished' = finished + 1 /\ winner' = f
     ELSE UNCHANGED <<outcome, finished, winner>>
  /\ fpc' = [fpc EXCEPT ![f] = "done"]
  /\ UNCHANGED <<cancellation, registrants, cancelling, expired, suggested, sent, status,
                 saw, failure, overdue, sparedBy>>

-----------------------------------------------------------------------------
InCancel(t) == CheckDrain(t) \/ Exchange(t) \/ Swap(t) \/ Invoke(t)

Next ==
  \/ \E t \in Threads : Cancel(t) \/ InCancel(t)
  \/ \E r \in Registrants : Register(r) \/ InvokeNow(r) \/ Reset(r)
  \/ Expire \/ SuggestFailure \/ StartSending
  \/ \E f \in Finalizers : Finalize(f) \/ ReadReason(f) \/ Branch(f) \/ TryFinish(f)

Spec == Init /\ [][Next]_vars

(* A thread that has entered cancel() or a registration leaves it.          *)
FairSpec ==
  /\ Spec
  /\ \A t \in Threads : WF_vars(InCancel(t))
  /\ \A r \in Registrants : WF_vars(InvokeNow(r))

-----------------------------------------------------------------------------
(* Properties.                                                             *)

(* Every variable has its type.                                             *)
TypeOK ==
  /\ reason \in Reasons \cup {None} /\ drain \in BOOLEAN /\ callbacks \subseteq Registrants
  /\ rpc \in [Registrants -> {"new", "registered", "invoke", "reset"}]
  /\ invoked \in [Registrants -> 0 .. 1]
  /\ cpc \in [Threads -> {"idle", "check", "cas", "swap", "invoke"}]
  /\ why \in [Threads -> Reasons \cup {None}]
  /\ batch \in [Threads -> SUBSET Registrants]
  /\ expired \in BOOLEAN /\ suggested \in Failures
  /\ fpc \in [Finalizers -> {"new", "reason", "branch", "finish", "finish late",
                             "finish unsent", "done"}]
  /\ sent \in [Finalizers -> BOOLEAN] /\ status \in [Finalizers -> Statuses]
  /\ saw \in [Finalizers -> Reasons \cup {None}] /\ failure \in [Finalizers -> Failures]
  /\ outcome \in (Terminals \X Failures) \cup {NoOutcome} /\ finished \in Nat
  /\ overdue \subseteq Finalizers /\ winner \in Finalizers \cup {None}
  /\ sparedBy \subseteq Threads

(* Once a cancellation has been delivered nobody is left behind: a callback *)
(* that was registered while the winner was between its exchange and its    *)
(* swap is delivered with the others, a later one is invoked at once.       *)
NobodyLeftBehind ==
  reason # None /\ (\A t \in Threads : cpc[t] \notin {"swap", "invoke"})
    => callbacks = {} /\ \A t \in Threads : batch[t] = {}

(* The cancellation state as a whole.                                       *)
Consistent == TypeOK /\ NobodyLeftBehind

(* A shutdown that begins after the response started to be sent does not    *)
(* cancel the request: setCurrentStage(Send) made it one to be drained.     *)
SendingIsSpared ==
  [][\A t \in sparedBy : cpc'[t] = "swap" => cpc[t] = "swap"]_vars

(* A request ends once and is counted once, however many finish it.  If it  *)
(* is counted as a success, the response had been sent in full before the   *)
(* deadline passed, and its finalizer saw neither a cancellation nor a      *)
(* failure; if it is counted as late, the deadline has passed.  One that    *)
(* ends as cancelled or late leaves a cancelled token behind, so that the   *)
(* work done for it stops, unless the handler attributed the failure to the *)
(* client itself.                                                           *)
EndIsHonest ==
  /\ finished = IF outcome = NoOutcome THEN 0 ELSE 1
  /\ outcome = <<"Completed", None>> =>
       /\ winner \in Finalizers \ overdue /\ sent[winner] /\ status[winner] = "ok"
       /\ saw[winner] = None /\ failure[winner] = None
  /\ outcome[1] = "DeadlineExceeded" => expired
  /\ outcome[1] \in {"Cancelled", "DeadlineExceeded"} =>
       reason # None \/ suggested = "Client"

(* Every callback of a cancelled request is invoked or withdrawn.           *)
CallbacksDelivered ==
  \A r \in Registrants :
    (reason # None /\ rpc[r] \in {"registered", "invoke"})
      ~> (invoked[r] = 1 \/ rpc[r] = "reset")
=============================================================================
