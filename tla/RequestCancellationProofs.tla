--------------------- MODULE RequestCancellationProofs ---------------------
(***************************************************************************)
(* Proofs for RequestCancellation: with any number of threads that cancel, *)
(* finish and register, every callback runs at most once and none is left  *)
(* behind, the recorded end of a request is what happened to it, and a     *)
(* shutdown spares a response that is being sent.                          *)
(***************************************************************************)
EXTENDS RequestCancellation, TLAPS

(* The exchange of the reason has at most one winner, which alone takes the *)
(* callbacks and delivers them.                                             *)
Delivering(t) == cpc[t] \in {"swap", "invoke"}

OneWinner ==
  /\ \A t \in Threads : Delivering(t) => reason # None
  /\ \A t, u \in Threads : Delivering(t) /\ Delivering(u) => t = u
  /\ \A t \in Threads : batch[t] # {} => cpc[t] = "invoke"
  /\ \A t \in Threads : cpc[t] # "idle" => why[t] # None
  /\ reason # None /\ callbacks # {} => \E t \in Threads : cpc[t] = "swap"

(* A callback that is still to be invoked is in one place: with the state,  *)
(* with the winner, or with the registrant itself.                          *)
InvokedOnce ==
  /\ \A r \in callbacks : rpc[r] = "registered" /\ invoked[r] = 0
  /\ \A r \in Registrants : rpc[r] \in {"new", "invoke"} => invoked[r] = 0
  /\ \A t \in Threads : \A r \in batch[t] :
       rpc[r] \in {"registered", "reset"} /\ invoked[r] = 0 /\ r \notin callbacks

(* What a finalizer knows of the token and of the suggested failure.        *)
FinalizerKnows ==
  /\ \A f \in Finalizers : saw[f] # None => reason # None
  /\ \A f \in Finalizers : failure[f] # None => suggested = failure[f]
  /\ \A f \in Finalizers : fpc[f] = "finish" => sent[f]
  /\ \A f \in Finalizers : fpc[f] \in {"finish late", "finish unsent"} =>
       why[f] \in {"ClientDisconnected", "Deadline"} /\ (cpc[f] = "idle" => reason # None)

(* Whoever speaks of the deadline does so after it has passed, and a        *)
(* finalizer that was called after it never takes the branch of a response  *)
(* that is in time.                                                         *)
Deadlines ==
  /\ reason = "Deadline" => expired
  /\ \A t \in Threads : why[t] = "Deadline" => expired
  /\ \A f \in Finalizers : saw[f] = "Deadline" => expired
  /\ \A f \in overdue : expired
  /\ \A f \in Finalizers : fpc[f] = "finish" => f \notin overdue
  /\ \A f \in Finalizers : fpc[f] = "finish late" => expired

(* The finalizer whose outcome stands has nothing left to do.               *)
WinnerDone == outcome # NoOutcome => winner \in Finalizers /\ fpc[winner] = "done"

(* A shutdown that found the drain flag set gets no further than the check. *)
Spared ==
  \A t \in sparedBy : /\ t \in Cancellers /\ drain /\ why[t] = "Shutdown"
                      /\ cpc[t] \in {"check", "idle"}

IInv ==
  /\ TypeOK /\ OneWinner /\ InvokedOnce /\ FinalizerKnows /\ Deadlines /\ WinnerDone
  /\ Spared /\ EndIsHonest

-----------------------------------------------------------------------------
(* An end that stands stays honest while its finalizer is left alone.       *)
LEMMA StandingEnd ==
  ASSUME EndIsHonest, UNCHANGED <<outcome, finished, winner, expired, reason, suggested>>,
         outcome = <<"Completed", None>> =>
           /\ sent'[winner] = sent[winner] /\ status'[winner] = status[winner]
           /\ saw'[winner] = saw[winner] /\ failure'[winner] = failure[winner]
           /\ (winner \in overdue' => winner \in overdue)
  PROVE  EndIsHonest'
BY DEF EndIsHonest, NoOutcome, None

(* A thread enters cancel(); a shutdown that finds the drain flag set is    *)
(* noted as spared.                                                         *)
LEMMA CancelKeeps ==
  ASSUME IInv, NEW t \in Threads, Cancel(t) PROVE IInv'
<1> USE ThreadAssumption DEF IInv, Threads, Reasons, None, cancellation, registrants,
   cancelling, finalizing, Cancel, Enter
<1>1. TypeOK'
  <2>1. PICK r \in Reasons : Enter(t, r)
    OBVIOUS
  <2>2. /\ cpc' \in [Threads -> {"idle", "check", "cas", "swap", "invoke"}]
        /\ why' \in [Threads -> Reasons \cup {None}]
        /\ sparedBy' \subseteq Threads
    BY <2>1 DEF TypeOK
  <2> QED BY <2>2 DEF TypeOK
<1>2. OneWinner'
  <2>1. PICK r \in Reasons : Enter(t, r)
    OBVIOUS
  <2>2. /\ cpc[t] = "idle" /\ cpc' = [cpc EXCEPT ![t] = "check"]
        /\ why' = [why EXCEPT ![t] = r] /\ r # None
    BY <2>1
  <2>3. \A u \in Threads : cpc'[u] # "check" => cpc'[u] = cpc[u] /\ why'[u] = why[u]
    BY <2>2 DEF TypeOK
  <2>4. \A u \in Threads : cpc[u] # "idle" => cpc'[u] = cpc[u]
    BY <2>2 DEF TypeOK
  <2>5. \A u \in Threads : cpc'[u] # "idle" => why'[u] # None
    BY <2>2 DEF TypeOK, OneWinner
  <2>6. UNCHANGED <<reason, callbacks, batch>>
    OBVIOUS
  <2> QED BY <2>3, <2>4, <2>5, <2>6 DEF OneWinner, Delivering
<1>3. InvokedOnce'
  BY DEF InvokedOnce, OneWinner, Delivering, TypeOK
<1>4. FinalizerKnows'
  BY DEF FinalizerKnows, OneWinner, Delivering, TypeOK
<1>5. Spared'
  <2>1. PICK r \in Reasons : Enter(t, r)
    OBVIOUS
  <2>2. t \notin sparedBy
    BY DEF Spared
  <2>3. \A u \in sparedBy : u \in Threads /\ u # t
    BY <2>2 DEF TypeOK
  <2>4. \A u \in sparedBy : cpc'[u] = cpc[u] /\ why'[u] = why[u]
    BY <2>1, <2>3 DEF TypeOK
  <2>5. cpc'[t] = "check" /\ why'[t] = r
    BY <2>1 DEF TypeOK
  <2>6. \A u \in sparedBy' : u \in sparedBy \/ (u = t /\ drain /\ r = "Shutdown")
    BY <2>1
  <2> QED BY <2>4, <2>5, <2>6 DEF Spared
<1>6. EndIsHonest'
  BY DEF EndIsHonest, WinnerDone, TypeOK
<1>7. Deadlines' /\ WinnerDone'
  BY DEF Deadlines, WinnerDone, TypeOK
<1> QED BY <1>1, <1>2, <1>3, <1>4, <1>5, <1>6, <1>7

(* A spared shutdown leaves here; no finalizer does.                        *)
LEMMA CheckDrainKeeps ==
  ASSUME IInv, NEW t \in Threads, CheckDrain(t) PROVE IInv'
<1> USE ThreadAssumption DEF IInv, Threads, Reasons, None, cancellation, registrants,
   cancelling, finalizing, CheckDrain
<1>1. TypeOK'
  BY DEF TypeOK, OneWinner, InvokedOnce
<1>2. OneWinner'
  BY DEF OneWinner, Delivering, TypeOK
<1>3. InvokedOnce'
  BY DEF InvokedOnce, OneWinner, Delivering, TypeOK
<1>4. FinalizerKnows'
  BY DEF FinalizerKnows, OneWinner, Delivering, TypeOK
<1>5. Spared'
  BY DEF Spared, TypeOK
<1>6. EndIsHonest'
  BY DEF EndIsHonest, WinnerDone, TypeOK
<1>7. Deadlines' /\ WinnerDone'
  BY DEF Deadlines, WinnerDone, TypeOK
<1> QED BY <1>1, <1>2, <1>3, <1>4, <1>5, <1>6, <1>7

(* Only the first to set the reason goes on to deliver.                     *)
LEMMA ExchangeKeeps ==
  ASSUME IInv, NEW t \in Threads, Exchange(t) PROVE IInv'
<1> USE ThreadAssumption DEF IInv, Threads, Reasons, None, cancellation, registrants,
   cancelling, finalizing, Exchange
<1>1. TypeOK'
  BY ZenonT(40) DEF TypeOK, OneWinner, InvokedOnce
<1>2. OneWinner'
  <2>1. CASE reason = None
    <3>1. \A u \in Threads : ~ Delivering(u) /\ batch[u] = {}
      BY <2>1 DEF OneWinner, Delivering, TypeOK
    <3>2. cpc' = [cpc EXCEPT ![t] = "swap"] /\ reason' = why[t] /\ why[t] # None
      BY <2>1 DEF OneWinner
    <3>3. cpc'[t] = "swap" /\ \A u \in Threads : u # t => cpc'[u] = cpc[u]
      BY <3>2 DEF TypeOK
    <3>4. \A u \in Threads : Delivering(u)' => u = t
      BY <3>1, <3>3 DEF Delivering
    <3>5. \A u \in Threads : cpc'[u] # "idle" => why[u] # None
      BY <3>3, <3>2 DEF OneWinner
    <3> QED BY <3>1, <3>2, <3>3, <3>4, <3>5 DEF OneWinner
  <2>2. CASE reason # None
    <3>1. UNCHANGED <<reason, batch, why, callbacks>> /\ cpc[t] = "cas"
          /\ cpc' = [cpc EXCEPT ![t] = "idle"]
      BY <2>2
    <3>2. \A u \in Threads : cpc'[u] = "idle" \/ cpc'[u] = cpc[u]
      BY <3>1 DEF TypeOK
    <3>3. \A u \in Threads : Delivering(u) => cpc'[u] = cpc[u]
      BY <3>1 DEF TypeOK, Delivering
    <3>4. \A u \in Threads : Delivering(u)' => Delivering(u)
      BY <3>2 DEF Delivering
    <3> QED BY <3>1, <3>2, <3>3, <3>4 DEF OneWinner, Delivering
  <2> QED BY <2>1, <2>2
<1>3. InvokedOnce'
  BY DEF InvokedOnce, OneWinner, Delivering, TypeOK
<1>4. FinalizerKnows'
  BY DEF FinalizerKnows, OneWinner, Delivering, TypeOK
<1>5. Spared'
  BY DEF Spared, TypeOK
<1>6. EndIsHonest'
  BY DEF EndIsHonest, WinnerDone, TypeOK
<1>7. Deadlines' /\ WinnerDone'
  BY DEF Deadlines, WinnerDone, TypeOK
<1> QED BY <1>1, <1>2, <1>3, <1>4, <1>5, <1>6, <1>7

(* The winner takes all callbacks, which were with the state until now.     *)
LEMMA SwapKeeps ==
  ASSUME IInv, NEW t \in Threads, Swap(t) PROVE IInv'
<1> USE ThreadAssumption DEF IInv, Threads, Reasons, None, cancellation, registrants,
   cancelling, finalizing, Swap
<1>1. TypeOK'
  BY DEF TypeOK, OneWinner, InvokedOnce
<1>2. OneWinner'
  BY DEF OneWinner, Delivering, TypeOK
<1>3. InvokedOnce'
  BY DEF InvokedOnce, OneWinner, Delivering, TypeOK
<1>4. FinalizerKnows'
  BY DEF FinalizerKnows, OneWinner, Delivering, TypeOK
<1>5. Spared'
  BY DEF Spared, TypeOK
<1>6. EndIsHonest'
  BY DEF EndIsHonest, WinnerDone, TypeOK
<1>7. Deadlines' /\ WinnerDone'
  BY DEF Deadlines, WinnerDone, TypeOK
<1> QED BY <1>1, <1>2, <1>3, <1>4, <1>5, <1>6, <1>7

(* The winner invokes one callback of its batch, which is in no other.      *)
LEMMA InvokeKeeps ==
  ASSUME IInv, NEW t \in Threads, Invoke(t) PROVE IInv'
<1> USE ThreadAssumption DEF IInv, Threads, Reasons, None, cancellation, registrants,
   cancelling, finalizing, Invoke
<1>1. TypeOK'
  <2>1. CASE batch[t] = {}
    BY <2>1 DEF TypeOK
  <2>2. CASE batch[t] # {}
    <3>1. PICK r \in batch[t] : /\ batch' = [batch EXCEPT ![t] = @ \ {r}]
                                /\ invoked' = [invoked EXCEPT ![r] = @ + 1]
      BY <2>2
    <3>2. r \in Registrants /\ invoked[r] = 0
      BY DEF TypeOK, InvokedOnce
    <3>3. batch' \in [Threads -> SUBSET Registrants]
      BY <3>1 DEF TypeOK
    <3>4. invoked' = [invoked EXCEPT ![r] = 1] /\ 1 \in 0 .. 1
      BY <3>1, <3>2
    <3>5. invoked' \in [Registrants -> 0 .. 1]
      BY <3>4 DEF TypeOK
    <3> QED BY <2>2, <3>3, <3>5 DEF TypeOK
  <2> QED BY <2>1, <2>2
<1>2. OneWinner'
  <2>1. CASE batch[t] = {}
    <3>1. cpc[t] = "invoke" /\ cpc' = [cpc EXCEPT ![t] = "idle"]
          /\ UNCHANGED <<reason, batch, why, callbacks>>
      BY <2>1
    <3>2. \A u \in Threads : u # t => cpc'[u] = cpc[u]
      BY <3>1 DEF TypeOK
    <3>3. cpc'[t] = "idle"
      BY <3>1 DEF TypeOK
    <3> QED BY <2>1, <3>1, <3>2, <3>3 DEF OneWinner, Delivering
  <2>2. CASE batch[t] # {}
    <3>0. PICK r \in batch[t] : batch' = [batch EXCEPT ![t] = @ \ {r}]
      BY <2>2
    <3>1. \A u \in Threads : batch'[u] \subseteq batch[u]
      BY <3>0 DEF TypeOK
    <3>2. UNCHANGED <<reason, cpc, why, callbacks>>
      BY <2>2
    <3> QED BY <3>1, <3>2 DEF OneWinner, Delivering
  <2> QED BY <2>1, <2>2
<1>3. InvokedOnce'
  <2>1. CASE batch[t] = {}
    BY <2>1 DEF InvokedOnce
  <2>2. CASE batch[t] # {}
    <3>1. PICK r \in batch[t] : /\ batch' = [batch EXCEPT ![t] = @ \ {r}]
                                /\ invoked' = [invoked EXCEPT ![r] = @ + 1]
      BY <2>2
    <3>2. r \in Registrants /\ invoked[r] = 0
      BY DEF TypeOK, InvokedOnce
    <3>3. r \notin callbacks /\ rpc[r] \notin {"new", "invoke"}
      BY DEF InvokedOnce
    <3>4. \A u \in Threads : r \notin batch'[u] /\ batch'[u] \subseteq batch[u]
      BY <3>1 DEF TypeOK, OneWinner, Delivering
    <3>5. \A s \in Registrants : s # r => invoked'[s] = invoked[s]
      BY <3>1 DEF TypeOK
    <3>6. \A u \in Threads : batch[u] \subseteq Registrants
      BY DEF TypeOK
    <3>7. callbacks \subseteq Registrants /\ UNCHANGED <<callbacks, rpc>>
      BY DEF TypeOK
    <3> QED BY <3>3, <3>4, <3>5, <3>6, <3>7 DEF InvokedOnce
  <2> QED BY <2>1, <2>2
<1>4. FinalizerKnows'
  BY DEF FinalizerKnows, OneWinner, Delivering, TypeOK
<1>5. Spared'
  BY DEF Spared, TypeOK
<1>6. EndIsHonest'
  BY DEF EndIsHonest, WinnerDone, TypeOK
<1>7. Deadlines' /\ WinnerDone'
  BY DEF Deadlines, WinnerDone, TypeOK
<1> QED BY <1>1, <1>2, <1>3, <1>4, <1>5, <1>6, <1>7

(* A registration is kept with the state only while there is no reason.     *)
LEMMA RegisterKeeps ==
  ASSUME IInv, NEW r \in Registrants, Register(r) PROVE IInv'
<1> USE ThreadAssumption DEF IInv, Threads, Reasons, None, cancellation, registrants,
   cancelling, finalizing, Register
<1>1. TypeOK'
  <2>1. \E step \in {"registered", "invoke"} : rpc' = [rpc EXCEPT ![r] = step]
    OBVIOUS
  <2>2. rpc' \in [Registrants -> {"new", "registered", "invoke", "reset"}]
    BY <2>1, ZenonT(40) DEF TypeOK
  <2>3. callbacks' \subseteq callbacks \cup {r}
    OBVIOUS
  <2>4. callbacks' \subseteq Registrants
    BY <2>3 DEF TypeOK
  <2> QED BY <2>2, <2>4 DEF TypeOK
<1>2. OneWinner'
  BY DEF OneWinner, Delivering, TypeOK
<1>3. InvokedOnce'
  <2>1. UNCHANGED <<invoked, batch>> /\ callbacks' \subseteq callbacks \cup {r}
    OBVIOUS
  <2>2. \A s \in Registrants : s # r => rpc'[s] = rpc[s]
    BY DEF TypeOK
  <2>3. (r \in callbacks' => rpc'[r] = "registered") /\ invoked[r] = 0
    BY DEF TypeOK, InvokedOnce
  <2>4. r \notin callbacks /\ \A t \in Threads : r \notin batch[t]
    BY DEF InvokedOnce
  <2>5. \A t \in Threads : batch[t] \subseteq Registrants
    BY DEF TypeOK
  <2>6. callbacks \subseteq Registrants
    BY DEF TypeOK
  <2> QED BY <2>1, <2>2, <2>3, <2>4, <2>5, <2>6 DEF InvokedOnce
<1>4. FinalizerKnows'
  BY DEF FinalizerKnows, OneWinner, Delivering, TypeOK
<1>5. Spared'
  BY DEF Spared, TypeOK
<1>6. EndIsHonest'
  BY DEF EndIsHonest, WinnerDone, TypeOK
<1>7. Deadlines' /\ WinnerDone'
  BY DEF Deadlines, WinnerDone, TypeOK
<1> QED BY <1>1, <1>2, <1>3, <1>4, <1>5, <1>6, <1>7

(* A late registrant invokes its own callback.                              *)
LEMMA InvokeNowKeeps ==
  ASSUME IInv, NEW r \in Registrants, InvokeNow(r) PROVE IInv'
<1> USE ThreadAssumption DEF IInv, Threads, Reasons, None, cancellation, registrants,
   cancelling, finalizing, InvokeNow
<1>1. TypeOK'
  <2>1. invoked[r] = 0
    BY DEF InvokedOnce
  <2>0. invoked' = [invoked EXCEPT ![r] = 1] /\ 1 \in 0 .. 1
    BY <2>1
  <2>2. invoked' \in [Registrants -> 0 .. 1]
    BY <2>0 DEF TypeOK
  <2>3. rpc' \in [Registrants -> {"new", "registered", "invoke", "reset"}]
    BY DEF TypeOK
  <2> QED BY <2>2, <2>3 DEF TypeOK
<1>2. OneWinner'
  BY DEF OneWinner, Delivering, TypeOK
<1>3. InvokedOnce'
  BY ZenonT(40) DEF InvokedOnce, OneWinner, Delivering, TypeOK
<1>4. FinalizerKnows'
  BY DEF FinalizerKnows, OneWinner, Delivering, TypeOK
<1>5. Spared'
  BY DEF Spared, TypeOK
<1>6. EndIsHonest'
  BY DEF EndIsHonest, WinnerDone, TypeOK
<1>7. Deadlines' /\ WinnerDone'
  BY DEF Deadlines, WinnerDone, TypeOK
<1> QED BY <1>1, <1>2, <1>3, <1>4, <1>5, <1>6, <1>7

(* A registration that is withdrawn may still be in the winner's batch.     *)
LEMMA ResetKeeps ==
  ASSUME IInv, NEW r \in Registrants, Reset(r) PROVE IInv'
<1> USE ThreadAssumption DEF IInv, Threads, Reasons, None, cancellation, registrants,
   cancelling, finalizing, Reset
<1>1. TypeOK'
  BY DEF TypeOK, OneWinner, InvokedOnce
<1>2. OneWinner'
  BY DEF OneWinner, Delivering, TypeOK
<1>3. InvokedOnce'
  BY DEF InvokedOnce, OneWinner, Delivering, TypeOK
<1>4. FinalizerKnows'
  BY DEF FinalizerKnows, OneWinner, Delivering, TypeOK
<1>5. Spared'
  BY DEF Spared, TypeOK
<1>6. EndIsHonest'
  BY DEF EndIsHonest, WinnerDone, TypeOK
<1>7. Deadlines' /\ WinnerDone'
  BY DEF Deadlines, WinnerDone, TypeOK
<1> QED BY <1>1, <1>2, <1>3, <1>4, <1>5, <1>6, <1>7

(* The deadline passes.                                                     *)
LEMMA ExpireKeeps ==
  ASSUME IInv, Expire PROVE IInv'
<1> USE ThreadAssumption DEF IInv, Threads, Reasons, None, cancellation, registrants,
   cancelling, finalizing, Expire
<1>1. TypeOK'
  BY DEF TypeOK, OneWinner, InvokedOnce
<1>2. OneWinner'
  BY DEF OneWinner, Delivering, TypeOK
<1>3. InvokedOnce'
  BY DEF InvokedOnce, OneWinner, Delivering, TypeOK
<1>4. FinalizerKnows'
  BY DEF FinalizerKnows, OneWinner, Delivering, TypeOK
<1>5. Spared'
  BY DEF Spared, TypeOK
<1>6. EndIsHonest'
  BY DEF EndIsHonest, WinnerDone, TypeOK
<1>7. Deadlines' /\ WinnerDone'
  BY DEF Deadlines, WinnerDone, TypeOK
<1> QED BY <1>1, <1>2, <1>3, <1>4, <1>5, <1>6, <1>7

(* The first suggestion stays, so what a finalizer has read stays true.     *)
LEMMA SuggestFailureKeeps ==
  ASSUME IInv, SuggestFailure PROVE IInv'
<1> USE ThreadAssumption DEF IInv, Threads, Reasons, None, cancellation, registrants,
   cancelling, finalizing, SuggestFailure
<1>1. TypeOK'
  BY DEF TypeOK, Suggestions, Failures
<1>2. OneWinner'
  BY DEF OneWinner, Delivering, TypeOK
<1>3. InvokedOnce'
  BY DEF InvokedOnce, OneWinner, Delivering, TypeOK
<1>4. FinalizerKnows'
  BY DEF FinalizerKnows, OneWinner, Delivering, TypeOK
<1>5. Spared'
  BY DEF Spared, TypeOK
<1>6. EndIsHonest'
  BY DEF EndIsHonest, WinnerDone, TypeOK
<1>7. Deadlines' /\ WinnerDone'
  BY DEF Deadlines, WinnerDone, TypeOK
<1> QED BY <1>1, <1>2, <1>3, <1>4, <1>5, <1>6, <1>7

(* The drain flag is set and never cleared.                                 *)
LEMMA StartSendingKeeps ==
  ASSUME IInv, StartSending PROVE IInv'
<1> USE ThreadAssumption DEF IInv, Threads, Reasons, None, cancellation, registrants,
   cancelling, finalizing, StartSending
<1>1. TypeOK'
  BY DEF TypeOK, OneWinner, InvokedOnce
<1>2. OneWinner'
  BY DEF OneWinner, Delivering, TypeOK
<1>3. InvokedOnce'
  BY DEF InvokedOnce, OneWinner, Delivering, TypeOK
<1>4. FinalizerKnows'
  BY DEF FinalizerKnows, OneWinner, Delivering, TypeOK
<1>5. Spared'
  BY DEF Spared, TypeOK
<1>6. EndIsHonest'
  BY DEF EndIsHonest, WinnerDone, TypeOK
<1>7. Deadlines' /\ WinnerDone'
  BY DEF Deadlines, WinnerDone, TypeOK
<1> QED BY <1>1, <1>2, <1>3, <1>4, <1>5, <1>6, <1>7

(* A finalizer notes its arguments and the suggested failure.               *)
LEMMA FinalizeKeeps ==
  ASSUME IInv, NEW f \in Finalizers, Finalize(f) PROVE IInv'
<1> USE ThreadAssumption DEF IInv, Threads, Reasons, None, cancellation, registrants,
   cancelling, finalizing, Finalize
<1>1. TypeOK'
  <2>1. PICK s \in Statuses, ok \in BOOLEAN : status' = [status EXCEPT ![f] = s]
                                              /\ sent' = [sent EXCEPT ![f] = ok]
    OBVIOUS
  <2>2. status' \in [Finalizers -> Statuses]
    BY <2>1 DEF TypeOK
  <2>3. sent' \in [Finalizers -> BOOLEAN]
    BY <2>1 DEF TypeOK
  <2>4. failure' \in [Finalizers -> Failures]
    BY DEF TypeOK
  <2>5. fpc' \in [Finalizers -> {"new", "reason", "branch", "finish", "finish late",
                                 "finish unsent", "done"}]
    BY DEF TypeOK
  <2> QED BY <2>2, <2>3, <2>4, <2>5 DEF TypeOK
<1>2. OneWinner'
  BY DEF OneWinner, Delivering, TypeOK
<1>3. InvokedOnce'
  BY DEF InvokedOnce, OneWinner, Delivering, TypeOK
<1>4. FinalizerKnows'
  BY ZenonT(40) DEF FinalizerKnows, OneWinner, Delivering, TypeOK
<1>5. Spared'
  BY DEF Spared, TypeOK
<1>6. EndIsHonest'
  <2>1. UNCHANGED <<outcome, finished, winner, expired, reason, suggested>>
    OBVIOUS
  <2>2. ASSUME outcome = <<"Completed", None>>
        PROVE  /\ sent'[winner] = sent[winner] /\ status'[winner] = status[winner]
               /\ saw'[winner] = saw[winner] /\ failure'[winner] = failure[winner]
               /\ (winner \in overdue' => winner \in overdue)
    <3>1. winner \in Finalizers /\ winner # f
      BY <2>2 DEF WinnerDone, NoOutcome
    <3> QED BY <3>1 DEF TypeOK
  <2> QED BY <2>1, <2>2, StandingEnd
<1>7. Deadlines' /\ WinnerDone'
  BY DEF Deadlines, WinnerDone, TypeOK
<1> QED BY <1>1, <1>2, <1>3, <1>4, <1>5, <1>6, <1>7

(* A finalizer reads the reason, which once set stays.                      *)
LEMMA ReadReasonKeeps ==
  ASSUME IInv, NEW f \in Finalizers, ReadReason(f) PROVE IInv'
<1> USE ThreadAssumption DEF IInv, Threads, Reasons, None, cancellation, registrants,
   cancelling, finalizing, ReadReason
<1>1. TypeOK'
  BY DEF TypeOK, OneWinner, InvokedOnce
<1>2. OneWinner'
  BY DEF OneWinner, Delivering, TypeOK
<1>3. InvokedOnce'
  BY DEF InvokedOnce, OneWinner, Delivering, TypeOK
<1>4. FinalizerKnows'
  BY DEF FinalizerKnows, OneWinner, Delivering, TypeOK
<1>5. Spared'
  BY DEF Spared, TypeOK
<1>6. EndIsHonest'
  <2>1. UNCHANGED <<outcome, finished, winner, expired, reason, suggested>>
    OBVIOUS
  <2>2. ASSUME outcome = <<"Completed", None>>
        PROVE  /\ sent'[winner] = sent[winner] /\ status'[winner] = status[winner]
               /\ saw'[winner] = saw[winner] /\ failure'[winner] = failure[winner]
               /\ (winner \in overdue' => winner \in overdue)
    <3>1. winner \in Finalizers /\ winner # f
      BY <2>2 DEF WinnerDone, NoOutcome
    <3> QED BY <3>1 DEF TypeOK
  <2> QED BY <2>1, <2>2, StandingEnd
<1>7. Deadlines' /\ WinnerDone'
  BY DEF Deadlines, WinnerDone, TypeOK
<1> QED BY <1>1, <1>2, <1>3, <1>4, <1>5, <1>6, <1>7

(* A response that was not sent or is late enters cancel(), and never as a  *)
(* shutdown.                                                                *)
LEMMA BranchKeeps ==
  ASSUME IInv, NEW f \in Finalizers, Branch(f) PROVE IInv'
<1> USE ThreadAssumption DEF IInv, Threads, Reasons, None, cancellation, registrants,
   cancelling, finalizing, Branch, Enter
<1>1. TypeOK'
  <2>1. f \in Threads /\ f \notin Cancellers
    OBVIOUS
  <2>2. \/ \E w \in {"ClientDisconnected", "Deadline"} : Enter(f, w)
        \/ UNCHANGED <<cpc, why, batch, sparedBy>>
    OBVIOUS
  <2>3. /\ cpc' \in [Threads -> {"idle", "check", "cas", "swap", "invoke"}]
        /\ why' \in [Threads -> Reasons \cup {None}]
        /\ sparedBy' = sparedBy /\ batch' = batch
    <3>1. CASE UNCHANGED <<cpc, why, batch, sparedBy>>
      BY <3>1 DEF TypeOK
    <3>2. CASE \E w \in {"ClientDisconnected", "Deadline"} : Enter(f, w)
      <4>1. PICK w \in {"ClientDisconnected", "Deadline"} : Enter(f, w)
        BY <3>2
      <4>2. cpc' = [cpc EXCEPT ![f] = "check"] /\ why' = [why EXCEPT ![f] = w]
            /\ sparedBy' = sparedBy /\ batch' = batch
        BY <4>1
      <4> QED BY <2>1, <4>2 DEF TypeOK
    <3> QED BY <2>2, <3>1, <3>2
  <2>5. \E step \in {"finish", "finish late", "finish unsent"} : fpc' = [fpc EXCEPT ![f] = step]
    OBVIOUS
  <2>4. fpc' \in [Finalizers -> {"new", "reason", "branch", "finish", "finish late",
                                 "finish unsent", "done"}]
    BY <2>5, ZenonT(40) DEF TypeOK
  <2> QED BY <2>3, <2>4 DEF TypeOK
<1>2. OneWinner'
  <2>1. f \in Threads /\ f \notin Cancellers
    OBVIOUS
  <2>2. \/ \E w \in {"ClientDisconnected", "Deadline"} : Enter(f, w)
        \/ UNCHANGED <<cpc, why, batch, sparedBy>>
    OBVIOUS
  <2>3. \A u \in Threads : cpc[u] # "idle" => cpc'[u] = cpc[u]
    BY <2>1, <2>2 DEF TypeOK
  <2>4. \A u \in Threads : cpc'[u] # "check" => cpc'[u] = cpc[u]
    BY <2>1, <2>2 DEF TypeOK
  <2>5. \A u \in Threads : cpc'[u] # "idle" => why'[u] # None
    BY <2>1, <2>2 DEF TypeOK, OneWinner
  <2>6. UNCHANGED <<reason, callbacks, batch>>
    BY <2>2
  <2> QED BY <2>3, <2>4, <2>5, <2>6 DEF OneWinner, Delivering
<1>3. InvokedOnce'
  BY DEF InvokedOnce, OneWinner, Delivering, TypeOK
<1>4. FinalizerKnows'
  <2>1. f \in Threads /\ f \notin Cancellers
    OBVIOUS
  <2>2. \/ \E w \in {"ClientDisconnected", "Deadline"} : Enter(f, w)
        \/ UNCHANGED <<cpc, why, batch, sparedBy>>
    OBVIOUS
  <2>3. \A g \in Finalizers : g # f => fpc'[g] = fpc[g] /\ cpc'[g] = cpc[g] /\ why'[g] = why[g]
    BY <2>2 DEF TypeOK
  <2>4. UNCHANGED <<reason, saw, failure, suggested, sent>>
    OBVIOUS
  <2>5. fpc'[f] = "finish" => sent[f]
    BY DEF TypeOK
  <2>6. fpc'[f] # "finish" =>
          why'[f] \in {"ClientDisconnected", "Deadline"} /\ cpc'[f] = "check"
    BY <2>1 DEF TypeOK
  <2> QED BY <2>3, <2>4, <2>5, <2>6, ZenonT(40) DEF FinalizerKnows
<1>5. Spared'
  <2>1. f \in Threads /\ f \notin Cancellers
    OBVIOUS
  <2>2. \/ \E w \in {"ClientDisconnected", "Deadline"} : Enter(f, w)
        \/ UNCHANGED <<cpc, why, batch, sparedBy>>
    OBVIOUS
  <2>3. sparedBy' = sparedBy /\ drain' = drain
    BY <2>2
  <2>4. \A u \in sparedBy : u \in Threads /\ u # f
    BY <2>1 DEF Spared
  <2>5. \A u \in sparedBy : cpc'[u] = cpc[u] /\ why'[u] = why[u]
    BY <2>2, <2>4 DEF TypeOK
  <2>6. \A u \in sparedBy : u \in Cancellers /\ drain /\ why[u] = "Shutdown"
                            /\ cpc[u] \in {"check", "idle"}
    BY DEF Spared
  <2>7. ASSUME NEW u \in sparedBy
        PROVE  u \in Cancellers /\ drain' /\ why'[u] = "Shutdown" /\ cpc'[u] \in {"check", "idle"}
    <3>1. u \in Cancellers /\ why'[u] = "Shutdown" /\ cpc'[u] \in {"check", "idle"}
      BY <2>5, <2>6
    <3>2. drain
      BY DEF Spared
    <3>3. drain'
      BY <2>3, <3>2
    <3> QED BY <3>1, <3>3
  <2> QED BY <2>3, <2>7 DEF Spared
<1>6. EndIsHonest'
  BY DEF EndIsHonest
<1>7. Deadlines'
  <2>1. UNCHANGED <<reason, expired, saw, overdue>>
    OBVIOUS
  <2>2. f \in Threads /\ \A t \in Threads : t # f => why'[t] = why[t]
    BY DEF TypeOK
  <2>3. why'[f] = "Deadline" => expired
    BY DEF TypeOK, Deadlines, Late
  <2>4. \A g \in Finalizers : g # f => fpc'[g] = fpc[g]
    BY DEF TypeOK
  <2>5. fpc'[f] = "finish" => ~ expired
    BY DEF TypeOK, Late
  <2>6. fpc'[f] = "finish late" => expired
    BY DEF TypeOK, Late, Deadlines
  <2>7. fpc'[f] = "finish" => f \notin overdue
    BY <2>5, Zenon DEF Deadlines
  <2>8. \A t \in Threads : why'[t] = "Deadline" => expired
    BY <2>2, <2>3 DEF Deadlines
  <2>9. \A g \in Finalizers : fpc'[g] = "finish" => g \notin overdue
    BY <2>4, <2>7 DEF Deadlines
  <2>10. \A g \in Finalizers : fpc'[g] = "finish late" => expired
    BY <2>4, <2>6 DEF Deadlines
  <2> HIDE DEF Branch, Enter
  <2> QED BY <2>1, <2>8, <2>9, <2>10 DEF Deadlines
<1>8. WinnerDone'
  <2>1. fpc[f] = "branch" /\ \A g \in Finalizers : g # f => fpc'[g] = fpc[g]
    BY DEF TypeOK
  <2> QED BY <2>1 DEF WinnerDone
<1> QED BY <1>1, <1>2, <1>3, <1>4, <1>5, <1>6, <1>7, <1>8

(* The verdict follows from what the finalizer saw, and the first one       *)
(* stays.                                                                   *)
LEMMA TryFinishKeeps ==
  ASSUME IInv, NEW f \in Finalizers, TryFinish(f) PROVE IInv'
<1> USE ThreadAssumption DEF IInv, Threads, Reasons, None, cancellation, registrants,
   cancelling, finalizing, TryFinish
<1>1. TypeOK'
  <2>1. Verdict(f) \in Terminals \X Failures
    BY DEF TypeOK, Verdict, SentVerdict, Or, Terminals, Failures
  <2>2. fpc' \in [Finalizers -> {"new", "reason", "branch", "finish", "finish late",
                                 "finish unsent", "done"}]
    BY DEF TypeOK
  <2>3. outcome' \in {Verdict(f), outcome}
    OBVIOUS
  <2>4. outcome' \in (Terminals \X Failures) \cup {NoOutcome}
    BY <2>1, <2>3 DEF TypeOK
  <2>5. finished' \in Nat
    <3>1. finished \in Nat
      BY DEF TypeOK
    <3>2. CASE outcome = NoOutcome
      <4>1. finished' = finished + 1
        BY <3>2
      <4> QED BY ONLY <3>1, <4>1
    <3>3. CASE outcome # NoOutcome
      BY <3>1, <3>3
    <3> QED BY <3>2, <3>3
  <2> QED BY <2>2, <2>4, <2>5 DEF TypeOK
<1>2. OneWinner'
  BY DEF OneWinner, Delivering, TypeOK
<1>3. InvokedOnce'
  BY DEF InvokedOnce, OneWinner, Delivering, TypeOK
<1>4. FinalizerKnows'
  BY DEF FinalizerKnows, OneWinner, Delivering, TypeOK
<1>5. Spared'
  BY DEF Spared, TypeOK
<1>6. EndIsHonest'
  <2>1. UNCHANGED <<reason, suggested, sent, saw, failure, status, overdue, expired>>
    OBVIOUS
  <2>2. CASE outcome # NoOutcome
    <3>1. UNCHANGED <<outcome, finished, winner>>
      BY <2>2
    <3> QED BY <2>1, <3>1, StandingEnd
  <2>3. CASE outcome = NoOutcome
    <3>1. outcome' = Verdict(f) /\ winner' = f /\ finished' = finished + 1 /\ finished = 0
      BY <2>3 DEF EndIsHonest
    <3>2. Verdict(f) # NoOutcome
      BY DEF Verdict, SentVerdict, NoOutcome
    <3>3. finished' = IF outcome' = NoOutcome THEN 0 ELSE 1
      BY ONLY <3>1, <3>2
    <3>4. Verdict(f) = <<"Completed", None>> =>
            fpc[f] = "finish" /\ saw[f] = None /\ failure[f] = None /\ status[f] = "ok"
      BY DEF Verdict, SentVerdict, Or, TypeOK, Statuses
    <3>5. fpc[f] = "finish" => sent[f] /\ f \notin overdue
      BY DEF FinalizerKnows, Deadlines
    <3>6. Verdict(f)[1] = "DeadlineExceeded" => expired
      BY DEF Verdict, SentVerdict, Deadlines
    <3>7. Verdict(f)[1] \in {"Cancelled", "DeadlineExceeded"} =>
            fpc[f] # "finish" \/ saw[f] # None \/ failure[f] = "Client"
      BY DEF Verdict, SentVerdict
    <3>8. fpc[f] # "finish" \/ saw[f] # None => reason # None
      BY DEF FinalizerKnows
    <3>9. failure[f] = "Client" => suggested = "Client"
      BY DEF FinalizerKnows
    <3>10. outcome' = <<"Completed", None>> =>
             /\ winner' \in Finalizers \ overdue' /\ sent'[winner'] /\ status'[winner'] = "ok"
             /\ saw'[winner'] = None /\ failure'[winner'] = None
      BY <2>1, <3>1, <3>4, <3>5, Zenon
    <3>11. outcome'[1] = "DeadlineExceeded" => expired'
      <4>1. outcome'[1] = Verdict(f)[1]
        BY ONLY <3>1
      <4>2. outcome'[1] = "DeadlineExceeded" => expired
        BY ONLY <4>1, <3>6
      <4>3. expired' = expired
        BY ONLY <2>1
      <4> QED BY ONLY <4>2, <4>3
    <3>12. outcome'[1] \in {"Cancelled", "DeadlineExceeded"} =>
             reason' # None \/ suggested' = "Client"
      BY <2>1, <3>1, <3>7, <3>8, <3>9
    <3> QED BY ONLY <3>3, <3>10, <3>11, <3>12 DEF EndIsHonest, NoOutcome
  <2> QED BY <2>2, <2>3
<1>7. Deadlines' /\ WinnerDone'
  <2>1. fpc'[f] = "done" /\ \A g \in Finalizers : g # f => fpc'[g] = fpc[g]
    BY DEF TypeOK
  <2>2. winner' \in {winner, f} /\ (winner' # f => outcome # NoOutcome)
    OBVIOUS
  <2> QED BY <2>1, <2>2 DEF Deadlines, WinnerDone
<1> QED BY <1>1, <1>2, <1>3, <1>4, <1>5, <1>6, <1>7

(* A step that changes nothing.                                             *)
LEMMA IdleKeeps ==
  ASSUME IInv, UNCHANGED vars PROVE IInv'
<1> USE ThreadAssumption DEF IInv, Threads, Reasons, None, cancellation, registrants,
   cancelling, finalizing, vars
<1>1. TypeOK'
  BY DEF TypeOK, OneWinner, InvokedOnce
<1>2. OneWinner'
  BY DEF OneWinner, Delivering, TypeOK
<1>3. InvokedOnce'
  BY DEF InvokedOnce, OneWinner, Delivering, TypeOK
<1>4. FinalizerKnows'
  BY DEF FinalizerKnows, OneWinner, Delivering, TypeOK
<1>5. Spared'
  BY DEF Spared, TypeOK
<1>6. EndIsHonest'
  BY DEF EndIsHonest, WinnerDone, TypeOK
<1>7. Deadlines' /\ WinnerDone'
  BY DEF Deadlines, WinnerDone, TypeOK
<1> QED BY <1>1, <1>2, <1>3, <1>4, <1>5, <1>6, <1>7

-----------------------------------------------------------------------------
(* A new request has no reason, no callback and no outcome.                 *)
LEMMA InitIInv == Init => IInv
<1> SUFFICES ASSUME Init PROVE IInv
  OBVIOUS
<1> USE DEF Init, None, NoOutcome
<1>1. TypeOK
  <2>1. /\ callbacks \subseteq Registrants /\ sparedBy \subseteq Threads
        /\ reason \in Reasons \cup {None} /\ suggested \in Failures /\ finished \in Nat
        /\ outcome \in (Terminals \X Failures) \cup {NoOutcome}
    BY DEF Failures
  <2>2. rpc \in [Registrants -> {"new", "registered", "invoke", "reset"}]
        /\ invoked \in [Registrants -> 0 .. 1]
    OBVIOUS
  <2>3. /\ cpc \in [Threads -> {"idle", "check", "cas", "swap", "invoke"}]
        /\ why \in [Threads -> Reasons \cup {None}] /\ batch \in [Threads -> SUBSET Registrants]
    OBVIOUS
  <2>4. /\ fpc \in [Finalizers -> {"new", "reason", "branch", "finish", "finish late",
                                   "finish unsent", "done"}]
        /\ status \in [Finalizers -> Statuses] /\ failure \in [Finalizers -> Failures]
        /\ saw \in [Finalizers -> Reasons \cup {None}]
    BY DEF Statuses, Failures
  <2>5. sent \in [Finalizers -> BOOLEAN] /\ drain \in BOOLEAN /\ expired \in BOOLEAN
    OBVIOUS
  <2> QED BY <2>1, <2>2, <2>3, <2>4, <2>5 DEF TypeOK
<1>2. OneWinner /\ InvokedOnce /\ Spared
  BY DEF OneWinner, InvokedOnce, Spared, Delivering
<1>3. FinalizerKnows
  BY DEF FinalizerKnows
<1>4. EndIsHonest
  <2>1. outcome # <<"Completed", None>> /\ outcome[1] = "None"
    OBVIOUS
  <2> QED BY <2>1 DEF EndIsHonest
<1>5. Deadlines /\ WinnerDone
  BY DEF Deadlines, WinnerDone
<1> QED BY <1>1, <1>2, <1>3, <1>4, <1>5 DEF IInv

(* Every step of any thread keeps the invariant.                            *)
LEMMA StepKeeps == IInv /\ [Next]_vars => IInv'
<1> SUFFICES ASSUME IInv, [Next]_vars PROVE IInv'
  OBVIOUS
<1>1. CASE \E t \in Threads : Cancel(t) \/ InCancel(t)
  BY <1>1, CancelKeeps, CheckDrainKeeps, ExchangeKeeps, SwapKeeps, InvokeKeeps DEF InCancel
<1>2. CASE \E r \in Registrants : Register(r) \/ InvokeNow(r) \/ Reset(r)
  BY <1>2, RegisterKeeps, InvokeNowKeeps, ResetKeeps
<1>3. CASE Expire \/ SuggestFailure \/ StartSending
  BY <1>3, ExpireKeeps, SuggestFailureKeeps, StartSendingKeeps
<1>4. CASE \E f \in Finalizers : Finalize(f) \/ ReadReason(f) \/ Branch(f) \/ TryFinish(f)
  BY <1>4, FinalizeKeeps, ReadReasonKeeps, BranchKeeps, TryFinishKeeps
<1>5. CASE UNCHANGED vars
  BY <1>5, IdleKeeps
<1> QED BY <1>1, <1>2, <1>3, <1>4, <1>5 DEF Next

(* The inductive invariant: one winner delivers, every callback is in one   *)
(* place, and finalizers know what they have read.                          *)
THEOREM IInvHolds == Spec => []IInv
BY InitIInv, StepKeeps, PTL DEF Spec

(* Every callback of a cancelled request is invoked at most once, and when  *)
(* the winner of the exchange has delivered, none is left with the state or *)
(* in a batch, however registrations and cancellations interleave.          *)
THEOREM NobodyIsLeft == Spec => []Consistent
<1>1. IInv => Consistent
  BY DEF IInv, Consistent, NobodyLeftBehind, OneWinner, TypeOK
<1> QED BY <1>1, IInvHolds, PTL

(* finalizeResponse() records one end and counts it once; a success only    *)
(* for a response that was sent in full before the deadline and saw neither *)
(* a cancellation nor a failure, a late end only after the deadline, and a  *)
(* cancelled or late one only with a cancelled token or a failure of the    *)
(* client.                                                                  *)
THEOREM EndStaysHonest == Spec => []EndIsHonest
BY IInvHolds, PTL DEF IInv

(* A shutdown that begins after setCurrentStage(Send) never wins the        *)
(* exchange of the cancellation reason.                                     *)
THEOREM SendingStaysSpared == Spec => SendingIsSpared
<1>1. IInv /\ [Next]_vars => [\A t \in sparedBy : cpc'[t] = "swap" => cpc[t] = "swap"]_vars
  <2> SUFFICES ASSUME IInv, Next, NEW t \in sparedBy, cpc'[t] = "swap"
               PROVE  cpc[t] = "swap"
    OBVIOUS
  <2>1. cpc[t] \in {"check", "idle"} /\ why[t] = "Shutdown" /\ drain
    BY DEF IInv, Spared
  <2>2. t \in Threads /\ cpc \in [Threads -> {"idle", "check", "cas", "swap", "invoke"}]
    BY DEF IInv, TypeOK
  <2>3. ASSUME NEW u \in Threads, NEW label, label # "swap", cpc' = [cpc EXCEPT ![u] = label]
        PROVE  cpc'[t] # "swap"
    BY <2>1, <2>2, <2>3
  <2>4. CASE \E u \in Threads : Cancel(u) \/ CheckDrain(u) \/ Swap(u) \/ Invoke(u)
    BY <2>1, <2>2, <2>3, <2>4 DEF Cancel, Enter, CheckDrain, Swap, Invoke
  <2>5. CASE \E u \in Threads : Exchange(u)
    BY <2>1, <2>2, <2>5 DEF Exchange
  <2>6. CASE \E f \in Finalizers : Branch(f)
    BY <2>1, <2>2, <2>3, <2>6 DEF Branch, Enter, cancelling, Threads
  <2>7. CASE UNCHANGED cpc
    BY <2>1, <2>7
  <2> QED BY <2>4, <2>5, <2>6, <2>7 DEF Next, InCancel, Register, InvokeNow, Reset, Expire,
             SuggestFailure, StartSending, Finalize, ReadReason, TryFinish, cancelling
<1> QED BY <1>1, IInvHolds, PTL DEF Spec, SendingIsSpared
=============================================================================
