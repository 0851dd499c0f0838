-------------------------- MODULE CacheFetchProofs --------------------------
(***************************************************************************)
(* Proofs for CacheFetch: for any number of requests, cancellable or not,  *)
(* and of operations, the bookkeeping of the single flight is right and    *)
(* the protocol implements Coalescing.                                     *)
(***************************************************************************)
EXTENDS CacheFetch, FiniteSetTheorems, TLAPS

(* Nothing refers to an operation that was not created, and those are fresh.*)
Known ==
  /\ registry \in 0 .. created
  /\ \A c \in Consumers : op[c] \in 0 .. created
  /\ \A o \in Ops : o > created => /\ ~ done_[o] /\ ~ abandoned_[o]
                                   /\ stage[o] = "unstarted"

(* The registry key decides which of the two protocols a call follows.      *)
OneKind ==
  /\ \A c \in Consumers :
       /\ pc[c] \in {"check", "record", "undo", "undoPublish", "subscribe", "setsub",
                     "start"} => kind = "Async"
       /\ pc[c] \in {"fetch", "wait", "cleanup", "guard"} => kind = "Sync"
       /\ Claimed(c) => kind = "Async" /\ pc[c] # "idle"
  /\ \A o \in Ops : stage[o] # "unstarted" => kind = "Async"

(* What a caller knows at each of its labels.                               *)
AtLabel(c) ==
  /\ pc[c] \in {"idle", "check"} => op[c] = NoOp
  /\ pc[c] \notin {"idle", "check", "lookup", "returned"} => op[c] # NoOp
  /\ pc[c] \in {"idle", "check", "lookup", "attach", "evict"} => ~ attached[c]
  /\ pc[c] = "evict" => ~ Joinable(op[c])
  /\ pc[c] \in {"undoPublish", "fetch"} => owner[c]
  /\ pc[c] \in {"cleanup", "guard"} => done_[op[c]]
  /\ op[c] = NoOp => ~ owner[c] /\ ~ attached[c]

(* The subscription record is the caller's attachment once it is handed     *)
(* over, and a caller that does not hand it over has lost its consumer.     *)
HandedOver(c) ==
  /\ IF cop[c] = NoOp
     THEN ~ cattached[c] /\ pc[c] \notin {"subscribe", "setsub", "start"}
     ELSE /\ cop[c] = op[c] /\ cattached[c] = attached[c]
          /\ pc[c] \in {"subscribe", "setsub", "start", "returned"}
  /\ detached[c] => Claimed(c)
  /\ pc[c] \in {"undo", "undoPublish"} => Claimed(c)
  /\ (kind = "Async" /\ pc[c] = "returned" /\ cop[c] = NoOp) => Claimed(c)

(* An operation has one owner, and no work before the owner starts it.      *)
Owned ==
  /\ \A c, d \in Consumers : owner[c] /\ owner[d] /\ op[c] = op[d] => c = d
  /\ \A c \in Consumers :
       owner[c] /\ pc[c] \in {"attach", "evict", "record", "undo", "undoPublish",
                              "subscribe", "setsub", "start", "fetch"}
       => ~ done_[op[c]] /\ stage[op[c]] = "unstarted"

(* An operation that delivers has its result, and so has everybody in its   *)
(* callback list.                                                           *)
Delivers(o) ==
  /\ stage[o] \in {"deliver", "end"} => done_[o]
  /\ done_[o] => result[o] \in {"ok", "fail"}
  /\ \A c \in subs[o] \cup todo[o] : cop[c] = o
  /\ todo[o] # {} => done_[o]

(* An answer is the operation's result, a cancellation or a refusal, and    *)
(* only a cancelled request is completed before its operation is done.      *)
Reason(c) ==
  \/ outcome[c] = "cancelled" /\ c \in cancelled
  \/ outcome[c] = "refused"
  \/ /\ outcome[c] \in {"ok", "fail"} /\ op[c] # NoOp
     /\ pc[c] \notin {"lookup", "attach", "evict"}
     /\ done_[op[c]] /\ result[op[c]] = outcome[c]

Answers(c) ==
  /\ calls[c] = IF cpc[c] = "done" \/ (kind = "Sync" /\ pc[c] = "returned") THEN 1 ELSE 0
  /\ Claimed(c) \/ pc[c] \in {"cleanup", "guard"} => Reason(c)
  /\ Claimed(c) => \/ c \in cancelled
                   \/ cop[c] # NoOp /\ done_[op[c]]
                   \/ op[c] = NoOp /\ pc[c] = "returned"

(* Whoever waits with an operation that is not done was counted.            *)
Counted(c) == Waits(c) /\ ~ done_[op[c]] => attached[c]

(* Somebody will erase the registry entry: its owner or its publisher.      *)
Reclaimable ==
  registry # NoOp =>
    \/ stage[registry] \notin {"unstarted", "end"}
    \/ \E c \in Consumers :
         /\ owner[c] /\ op[c] = registry
         /\ pc[c] \in {"attach", "evict", "record", "undo", "undoPublish", "subscribe",
                       "setsub", "start", "fetch", "wait", "cleanup"}

Each ==
  /\ \A c \in Consumers : AtLabel(c) /\ HandedOver(c) /\ Answers(c) /\ Counted(c)
  /\ \A o \in Ops : Delivers(o)

IInv ==
  /\ TypeOK /\ Known /\ OneKind /\ Owned /\ Each
  /\ ConsumersCounted /\ RegistryCurrent /\ Reclaimable

-----------------------------------------------------------------------------
(* Adding and removing one consumer changes a count of consumers by one.    *)
LEMMA OneMore ==
  ASSUME NEW S \in SUBSET Consumers, NEW c \in Consumers, c \notin S
  PROVE  Cardinality(S \cup {c}) = Cardinality(S) + 1
BY FetchAssumption, FS_Subset, FS_AddElement

LEMMA OneLess ==
  ASSUME NEW S \in SUBSET Consumers, NEW c \in S
  PROVE  /\ Cardinality(S \ {c}) = Cardinality(S) - 1
         /\ Cardinality(S) \in Nat \ {0}
<1>1. IsFiniteSet(S)
  BY FetchAssumption, FS_Subset
<1>2. Cardinality(S \ {c}) = Cardinality(S) - 1
  BY <1>1, FS_RemoveElement
<1>3. Cardinality(S) \in Nat /\ Cardinality(S) # 0
  BY <1>1, FS_CardinalityType, FS_EmptySet
<1> QED BY <1>2, <1>3

(* What releaseConsumer() does to an operation one of whose consumers       *)
(* gives its place back: the count is not zero, and the operation is        *)
(* abandoned when that consumer was the last.                               *)
LEMMA GiveBack ==
  ASSUME TypeOK, ConsumersCounted, NEW o \in Ops, NEW c \in Attachments(o),
         releaseConsumer(o)
  PROVE  /\ consumers_' = [consumers_ EXCEPT ![o] = @ - 1]
         /\ consumers_' \in [Ops -> Nat] /\ abandoned_' \in [Ops -> BOOLEAN]
         /\ \A p \in Ops \ {o} : abandoned_'[p] = abandoned_[p]
         /\ abandoned_[o] => abandoned_'[o]
         /\ (abandoned_'[o] /\ ~ abandoned_[o])
            => ~ done_[o] /\ Cardinality(Attachments(o)) = 1
<1>0. Attachments(o) \in SUBSET Consumers
  BY DEF Attachments
<1>1. consumers_[o] = Cardinality(Attachments(o)) /\ consumers_[o] \in Nat \ {0}
  BY <1>0, OneLess DEF ConsumersCounted
<1>2. /\ consumers_' = [consumers_ EXCEPT ![o] = @ - 1]
      /\ abandoned_' = [abandoned_ EXCEPT
                          ![o] = @ \/ (consumers_[o] = 1 /\ ~ done_[o])]
  BY <1>1 DEF releaseConsumer
<1>3. consumers_' \in [Ops -> Nat]
  <2>1. consumers_[o] - 1 \in Nat
    BY <1>1
  <2> QED BY <1>2, <2>1 DEF TypeOK
<1>4. abandoned_[o] \/ (consumers_[o] = 1 /\ ~ done_[o]) \in BOOLEAN
  OBVIOUS
<1>5. abandoned_' \in [Ops -> BOOLEAN]
  BY <1>2, <1>4 DEF TypeOK
<1> QED BY <1>1, <1>2, <1>3, <1>5 DEF TypeOK

(* One attachment less is one consumer less.                                *)
LEMMA CountGivenBack ==
  ASSUME TypeOK, ConsumersCounted, NEW o \in Ops, NEW c \in Attachments(o),
         releaseConsumer(o),
         \A p \in Ops : Attachments(p)' = IF p = o THEN Attachments(p) \ {c}
                                          ELSE Attachments(p)
  PROVE  ConsumersCounted'
<1>1. consumers_' = [consumers_ EXCEPT ![o] = @ - 1]
  BY GiveBack
<1>2. Cardinality(Attachments(o) \ {c}) = Cardinality(Attachments(o)) - 1
  BY OneLess DEF Attachments
<1> QED BY <1>1, <1>2 DEF ConsumersCounted, TypeOK

LEMMA InitIInv == Init => IInv
<1> SUFFICES ASSUME Init PROVE IInv
  OBVIOUS
<1>1. TypeOK
  BY FetchAssumption DEF Init, TypeOK, Ops, NoOp, Stages, CallerPCs, CompleterPCs,
     Outcomes
<1>2. Known /\ OneKind /\ Owned /\ Reclaimable /\ RegistryCurrent
  BY FetchAssumption DEF Init, Known, OneKind, Owned, Reclaimable, RegistryCurrent,
     NoOp, Ops, Claimed
<1>3. Each
  BY DEF Init, Each, AtLabel, HandedOver, Answers, Counted, Delivers, NoOp, Claimed,
     Waits
<1>4. ConsumersCounted
  <2>1. \A o \in Ops : Attachments(o) = {}
    BY DEF Init, Attachments
  <2> QED BY <2>1, FS_EmptySet DEF Init, ConsumersCounted
<1> QED BY <1>1, <1>2, <1>3, <1>4 DEF IInv

-----------------------------------------------------------------------------
(* The calls of webGetOwnedAsync() and webGetOwned().                       *)


LEMMA BeginStep ==
  ASSUME IInv, NEW c \in Consumers, Begin(c), UNCHANGED kind PROVE IInv'
<1> USE DEF IInv, Begin, Goto, NoOp, Joinable, operations, work, record, completion,
   locals
<1>1. TypeOK'
  BY DEF TypeOK, CallerPCs, CompleterPCs, Outcomes, Stages
<1>2. Known'
  BY DEF TypeOK, Known, Ops
<1>3. OneKind'
  BY DEF TypeOK, OneKind, Claimed
<1>4. Owned'
  BY DEF TypeOK, Owned
<1>5. Each'
  <2>1. ASSUME NEW d \in Consumers PROVE (AtLabel(d) /\ HandedOver(d))'
    BY DEF TypeOK, Each, AtLabel, HandedOver, Claimed
  <2>2. ASSUME NEW d \in Consumers PROVE (Answers(d) /\ Counted(d))'
    BY DEF TypeOK, Each, AtLabel, HandedOver, Answers, Counted, Claimed, Waits,
       Reason, OneKind
  <2>3. ASSUME NEW p \in Ops PROVE Delivers(p)'
    BY DEF TypeOK, Each, Delivers
  <2> QED BY <2>1, <2>2, <2>3 DEF Each
<1>6. RegistryCurrent' /\ Reclaimable'
  BY DEF TypeOK, Known, Each, AtLabel, RegistryCurrent, Reclaimable
<1>7. ConsumersCounted'
  <2>1. ASSUME NEW p \in Ops PROVE Attachments(p)' = Attachments(p)
    BY DEF TypeOK, Each, AtLabel, HandedOver, Claimed, Attachments
  <2> QED BY <2>1 DEF ConsumersCounted
<1> QED BY <1>1, <1>2, <1>3, <1>4, <1>5, <1>6, <1>7 DEF IInv

LEMMA CheckStep ==
  ASSUME IInv, NEW c \in Consumers, Check(c), UNCHANGED kind PROVE IInv'
<1> USE DEF IInv, Check, Claim, Goto, NoOp, Joinable, operations, work, record,
   completion, locals
<1>1. TypeOK'
  <2>1. pc' \in [Consumers -> CallerPCs]
    BY DEF TypeOK, CallerPCs
  <2>2. calls' = calls /\ (\/ cpc' = cpc /\ outcome' = outcome
                           \/ /\ cpc' = [cpc EXCEPT ![c] = "detach"]
                              /\ outcome' = [outcome EXCEPT ![c] = "refused"])
    OBVIOUS
  <2>3. cpc' \in [Consumers -> CompleterPCs]
    BY <2>2 DEF TypeOK, CompleterPCs
  <2>4. outcome' \in [Consumers -> Outcomes]
    BY <2>2 DEF TypeOK, Outcomes
  <2> QED BY <2>1, <2>2, <2>3, <2>4 DEF TypeOK
<1>2. Known'
  BY DEF TypeOK, Known, Ops
<1>3. OneKind'
  BY DEF TypeOK, OneKind, Claimed
<1>4. Owned'
  BY DEF TypeOK, Owned
<1>5. Each'
  <2>1. ASSUME NEW d \in Consumers PROVE (AtLabel(d) /\ HandedOver(d))'
    BY DEF TypeOK, Each, AtLabel, HandedOver, Claimed
  <2>2. ASSUME NEW d \in Consumers PROVE (Answers(d) /\ Counted(d))'
    BY DEF TypeOK, Each, AtLabel, HandedOver, Answers, Counted, Claimed, Waits,
       Reason, OneKind
  <2>3. ASSUME NEW p \in Ops PROVE Delivers(p)'
    BY DEF TypeOK, Each, Delivers
  <2> QED BY <2>1, <2>2, <2>3 DEF Each
<1>6. RegistryCurrent' /\ Reclaimable'
  BY DEF TypeOK, Known, Each, AtLabel, RegistryCurrent, Reclaimable
<1>7. ConsumersCounted'
  <2>1. ASSUME NEW p \in Ops PROVE Attachments(p)' = Attachments(p)
    BY DEF TypeOK, Each, AtLabel, HandedOver, Claimed, Attachments
  <2> QED BY <2>1 DEF ConsumersCounted
<1> QED BY <1>1, <1>2, <1>3, <1>4, <1>5, <1>6, <1>7 DEF IInv

LEMMA LookupFindsStep ==
  ASSUME IInv, NEW c \in Consumers, Lookup(c), registry # NoOp, UNCHANGED kind PROVE IInv'
<1> USE DEF IInv, Lookup, Goto, NoOp, Joinable, operations, work, record, completion,
   locals
<1>0. /\ op[c] \in 0 .. created /\ cop[c] = NoOp /\ ~ attached[c]
      /\ registry \in 1 .. created
      /\ registry \in Ops /\ UNCHANGED <<registry, created>>
      /\ op' = [op EXCEPT ![c] = registry] /\ owner' = [owner EXCEPT ![c] = FALSE]
  <2>1. op[c] \in 0 .. created /\ cop[c] = NoOp /\ ~ attached[c]
    BY DEF Known, Each, AtLabel, HandedOver
  <2>2. registry \in 1 .. created /\ registry \in Ops
    BY DEF Known, TypeOK
  <2>3. owner' = [owner EXCEPT ![c] = FALSE]
    OBVIOUS
  <2> QED BY <2>1, <2>2, <2>3
<1>1. TypeOK'
  BY <1>0, FetchAssumption DEF TypeOK, CallerPCs, CompleterPCs, Outcomes, Stages
<1>2. Known'
  BY <1>0, FetchAssumption DEF TypeOK, Known, Ops
<1>3. OneKind'
  BY <1>0, FetchAssumption DEF TypeOK, OneKind, Claimed
<1>4. Owned'
  BY <1>0, FetchAssumption DEF TypeOK, Owned
<1>5. Each'
  <2>1. ASSUME NEW d \in Consumers PROVE (AtLabel(d) /\ HandedOver(d))'
    BY <1>0, FetchAssumption DEF TypeOK, Each, AtLabel, HandedOver, Claimed
  <2>2. ASSUME NEW d \in Consumers PROVE (Answers(d) /\ Counted(d))'
    BY <1>0, FetchAssumption DEF TypeOK, Each, AtLabel, HandedOver, Answers,
       Counted, Claimed, Waits, Reason, OneKind
  <2>3. ASSUME NEW p \in Ops PROVE Delivers(p)'
    BY <1>0, FetchAssumption DEF TypeOK, Each, Delivers
  <2> QED BY <2>1, <2>2, <2>3 DEF Each
<1>6. RegistryCurrent' /\ Reclaimable'
  BY <1>0, FetchAssumption DEF TypeOK, Known, Each, AtLabel, RegistryCurrent,
     Reclaimable
<1>7. ConsumersCounted'
  <2>1. ASSUME NEW p \in Ops PROVE Attachments(p)' = Attachments(p)
    BY <1>0, FetchAssumption DEF TypeOK, Each, AtLabel, HandedOver, Claimed, Attachments
  <2> QED BY <2>1 DEF ConsumersCounted
<1> QED BY <1>1, <1>2, <1>3, <1>4, <1>5, <1>6, <1>7 DEF IInv

LEMMA LookupCreatesStep ==
  ASSUME IInv, NEW c \in Consumers, Lookup(c), registry = NoOp, UNCHANGED kind PROVE IInv'
<1> USE DEF IInv, Lookup, Goto, NoOp, Joinable, operations, work, record, completion,
   locals
<1>0. /\ op[c] \in 0 .. created /\ cop[c] = NoOp /\ ~ attached[c]
      /\ created' = created + 1 /\ registry' = created + 1
      /\ op' = [op EXCEPT ![c] = created + 1] /\ owner' = [owner EXCEPT ![c] = TRUE]
      /\ created + 1 \in Ops /\ created + 1 > created /\ created + 1 # 0
  <2>1. op[c] \in 0 .. created /\ cop[c] = NoOp /\ ~ attached[c]
    BY DEF Known, Each, AtLabel, HandedOver
  <2>2. created + 1 \in Ops /\ created + 1 > created /\ created + 1 # 0
    BY FetchAssumption DEF TypeOK, Ops
  <2>3. owner' = [owner EXCEPT ![c] = TRUE]
    OBVIOUS
  <2> QED BY <2>1, <2>2, <2>3
<1>1. TypeOK'
  <2>1. created' \in 0 .. MaxOps
    BY <1>0 DEF Ops
  <2> QED BY <1>0, <2>1 DEF TypeOK, CallerPCs
<1>2. Known'
  BY <1>0 DEF TypeOK, Known, Ops
<1>3. OneKind'
  BY <1>0 DEF TypeOK, OneKind, Claimed
<1>4. Owned'
  BY <1>0 DEF TypeOK, Owned, Known
<1>5. Each'
  <2>1. ASSUME NEW d \in Consumers PROVE (AtLabel(d) /\ HandedOver(d))'
    BY <1>0 DEF TypeOK, Each, AtLabel, HandedOver, Claimed
  <2>2. ASSUME NEW d \in Consumers PROVE (Answers(d) /\ Counted(d))'
    BY <1>0 DEF TypeOK, Each, AtLabel, HandedOver, Answers, Counted, Claimed,
       Waits, Reason, OneKind, Known
  <2>3. ASSUME NEW p \in Ops PROVE Delivers(p)'
    BY <1>0 DEF TypeOK, Each, Delivers
  <2> QED BY <2>1, <2>2, <2>3 DEF Each
<1>6. RegistryCurrent' /\ Reclaimable'
  BY <1>0 DEF TypeOK, Known, Each, AtLabel, RegistryCurrent, Reclaimable
<1>7. ConsumersCounted'
  <2>1. ASSUME NEW p \in Ops PROVE Attachments(p)' = Attachments(p)
    BY <1>0 DEF TypeOK, Each, AtLabel, HandedOver, Claimed, Attachments
  <2> QED BY <2>1 DEF ConsumersCounted
<1> QED BY <1>1, <1>2, <1>3, <1>4, <1>5, <1>6, <1>7 DEF IInv

LEMMA AttachStep ==
  ASSUME IInv, NEW c \in Consumers, Attach(c), UNCHANGED kind PROVE IInv'
<1> USE DEF IInv, Attach, Evicted, Completed, Goto, NoOp, Joinable, operations, work,
   record, completion, locals
<1>0. op[c] \in Ops /\ op[c] # NoOp /\ cop[c] = NoOp /\ ~ attached[c] /\ ~ cattached[c]
  BY DEF TypeOK, Each, AtLabel, HandedOver
<1>1. TypeOK'
  BY <1>0 DEF TypeOK, CallerPCs, CompleterPCs, Outcomes, Stages
<1>2. Known'
  BY <1>0 DEF TypeOK, Known, Ops
<1>3. OneKind'
  BY <1>0 DEF TypeOK, OneKind, Claimed
<1>4. Owned'
  BY <1>0 DEF TypeOK, Owned
<1>5. Each'
  <2>1. ASSUME NEW d \in Consumers PROVE (AtLabel(d) /\ HandedOver(d))'
    BY <1>0 DEF TypeOK, Each, AtLabel, HandedOver, Claimed
  <2>2. ASSUME NEW d \in Consumers PROVE (Answers(d) /\ Counted(d))'
    BY <1>0 DEF TypeOK, Each, AtLabel, HandedOver, Answers, Counted, Claimed,
       Waits, Reason, OneKind
  <2>3. ASSUME NEW p \in Ops PROVE Delivers(p)'
    BY <1>0 DEF TypeOK, Each, Delivers
  <2> QED BY <2>1, <2>2, <2>3 DEF Each
<1>6. RegistryCurrent' /\ Reclaimable'
  BY <1>0 DEF TypeOK, Known, Each, AtLabel, RegistryCurrent, Reclaimable
<1>7. ConsumersCounted'
  <2>1. CASE ~ Joinable(op[c])
    <3>1. ASSUME NEW p \in Ops PROVE Attachments(p)' = Attachments(p)
      BY <1>0, <2>1 DEF TypeOK, Attachments
    <3> QED BY <2>1, <3>1 DEF ConsumersCounted
  <2>2. CASE Joinable(op[c])
    <3>1. ASSUME NEW p \in Ops
          PROVE  Attachments(p)' = IF p = op[c] THEN Attachments(p) \cup {c}
                                   ELSE Attachments(p)
      BY <1>0, <2>2, ZenonT(40) DEF TypeOK, Attachments
    <3>2. c \notin Attachments(op[c])
      BY <1>0 DEF Attachments
    <3>3. Attachments(op[c]) \in SUBSET Consumers
      BY DEF Attachments
    <3>4. Cardinality(Attachments(op[c]) \cup {c}) = Cardinality(Attachments(op[c])) + 1
      BY <3>2, <3>3, OneMore
    <3> QED BY <1>0, <2>2, <3>1, <3>4 DEF ConsumersCounted, TypeOK
  <2> QED BY <2>1, <2>2
<1> QED BY <1>1, <1>2, <1>3, <1>4, <1>5, <1>6, <1>7 DEF IInv

LEMMA EvictStep ==
  ASSUME IInv, NEW c \in Consumers, Evict(c), UNCHANGED kind PROVE IInv'
<1> USE DEF IInv, Evict, EraseIfCurrent, Goto, NoOp, Joinable, operations, work,
   record, completion, locals
<1>1. TypeOK'
  BY DEF TypeOK, CallerPCs, CompleterPCs, Outcomes, Stages
<1>2. Known'
  BY DEF TypeOK, Known, Ops
<1>3. OneKind'
  BY DEF TypeOK, OneKind, Claimed
<1>4. Owned'
  BY DEF TypeOK, Owned
<1>5. Each'
  <2>1. ASSUME NEW d \in Consumers PROVE (AtLabel(d) /\ HandedOver(d))'
    BY DEF TypeOK, Each, AtLabel, HandedOver, Claimed
  <2>2. ASSUME NEW d \in Consumers PROVE (Answers(d) /\ Counted(d))'
    BY DEF TypeOK, Each, AtLabel, HandedOver, Answers, Counted, Claimed, Waits,
       Reason, OneKind
  <2>3. ASSUME NEW p \in Ops PROVE Delivers(p)'
    BY DEF TypeOK, Each, Delivers
  <2> QED BY <2>1, <2>2, <2>3 DEF Each
<1>6. RegistryCurrent' /\ Reclaimable'
  BY DEF TypeOK, Known, Each, AtLabel, RegistryCurrent, Reclaimable
<1>7. ConsumersCounted'
  <2>1. ASSUME NEW p \in Ops PROVE Attachments(p)' = Attachments(p)
    BY DEF TypeOK, Each, AtLabel, HandedOver, Claimed, Attachments
  <2> QED BY <2>1 DEF ConsumersCounted
<1> QED BY <1>1, <1>2, <1>3, <1>4, <1>5, <1>6, <1>7 DEF IInv

LEMMA RecordStep ==
  ASSUME IInv, NEW c \in Consumers, Record(c), UNCHANGED kind PROVE IInv'
<1> USE DEF IInv, Record, Goto, NoOp, Joinable, operations, work, record, completion,
   locals
<1>1. TypeOK'
  <2>1. cop' \in [Consumers -> Ops \cup {NoOp}] /\ pc' \in [Consumers -> CallerPCs]
    BY DEF TypeOK, CallerPCs
  <2>2. cattached' \in [Consumers -> BOOLEAN]
    BY DEF TypeOK
  <2> QED BY <2>1, <2>2 DEF TypeOK
<1>2. Known'
  BY DEF TypeOK, Known, Ops
<1>3. OneKind'
  BY DEF TypeOK, OneKind, Claimed
<1>4. Owned'
  BY DEF TypeOK, Owned
<1>5. Each'
  <2>1. ASSUME NEW d \in Consumers PROVE (AtLabel(d) /\ HandedOver(d))'
    BY DEF TypeOK, Each, AtLabel, HandedOver, Claimed
  <2>2. ASSUME NEW d \in Consumers PROVE (Answers(d) /\ Counted(d))'
    BY DEF TypeOK, Each, AtLabel, HandedOver, Answers, Counted, Claimed, Waits,
       Reason, OneKind
  <2>3. ASSUME NEW p \in Ops PROVE Delivers(p)'
    <3>1. cop[c] = NoOp
      BY DEF Each, HandedOver
    <3>2. c \notin subs[p] \cup todo[p]
      <4>1. p # NoOp
        BY DEF Ops
      <4> QED BY <3>1, <4>1 DEF Each, Delivers
    <3> QED BY <3>2 DEF TypeOK, Each, Delivers
  <2> QED BY <2>1, <2>2, <2>3 DEF Each
<1>6. RegistryCurrent' /\ Reclaimable'
  BY DEF TypeOK, Known, Each, AtLabel, RegistryCurrent, Reclaimable
<1>7. ConsumersCounted'
  <2>1. ASSUME NEW p \in Ops PROVE Attachments(p)' = Attachments(p)
    BY DEF TypeOK, Each, AtLabel, HandedOver, Claimed, Attachments
  <2> QED BY <2>1 DEF ConsumersCounted
<1> QED BY <1>1, <1>2, <1>3, <1>4, <1>5, <1>6, <1>7 DEF IInv

LEMMA UndoStep ==
  ASSUME IInv, NEW c \in Consumers, Undo(c), UNCHANGED kind PROVE IInv'
<1> USE DEF IInv, Undo, Goto, NoOp, Joinable, operations, work, record, completion,
   locals
<1>0. /\ op[c] \in Ops /\ cop[c] = NoOp /\ c \in cancelled
      /\ consumers_' \in [Ops -> Nat] /\ abandoned_' \in [Ops -> BOOLEAN]
      /\ \A p \in Ops : abandoned_[p] => abandoned_'[p]
      /\ \A p \in Ops : p > created => ~ abandoned_'[p]
  <2>1. op[c] \in Ops /\ op[c] \in 0 .. created /\ cop[c] = NoOp /\ c \in cancelled
    BY DEF TypeOK, Known, Each, AtLabel, HandedOver, Answers
  <2>2. CASE ~ attached[c]
    BY <2>1, <2>2 DEF TypeOK, Known
  <2>3. CASE attached[c]
    <3>1. c \in Attachments(op[c])
      BY <2>3 DEF Attachments
    <3>2. /\ consumers_' \in [Ops -> Nat] /\ abandoned_' \in [Ops -> BOOLEAN]
          /\ \A p \in Ops \ {op[c]} : abandoned_'[p] = abandoned_[p]
          /\ abandoned_[op[c]] => abandoned_'[op[c]]
      BY <2>1, <2>3, <3>1, GiveBack
    <3>3. \A p \in Ops : p > created => p # op[c]
      BY <2>1 DEF TypeOK, Ops
    <3> QED BY <2>1, <3>2, <3>3 DEF TypeOK, Known
  <2> QED BY <2>2, <2>3
<1>1. TypeOK'
  BY <1>0 DEF TypeOK, CallerPCs, CompleterPCs, Outcomes, Stages
<1>2. Known'
  BY <1>0 DEF TypeOK, Known, Ops
<1>3. OneKind'
  BY <1>0 DEF TypeOK, OneKind, Claimed
<1>4. Owned'
  BY <1>0 DEF TypeOK, Owned
<1>5. Each'
  <2>1. ASSUME NEW d \in Consumers PROVE (AtLabel(d) /\ HandedOver(d))'
    BY <1>0 DEF TypeOK, Each, AtLabel, HandedOver, Claimed
  <2>2. ASSUME NEW d \in Consumers PROVE (Answers(d) /\ Counted(d))'
    BY <1>0 DEF TypeOK, Each, AtLabel, HandedOver, Answers, Counted, Claimed,
       Waits, Reason, OneKind
  <2>3. ASSUME NEW p \in Ops PROVE Delivers(p)'
    BY <1>0 DEF TypeOK, Each, Delivers
  <2> QED BY <2>1, <2>2, <2>3 DEF Each
<1>6. RegistryCurrent' /\ Reclaimable'
  <2>1. 1 .. created \subseteq Ops
    BY FetchAssumption DEF TypeOK, Ops
  <2>2. RegistryCurrent'
    BY <1>0, <2>1 DEF TypeOK, RegistryCurrent
  <2>3. Reclaimable'
    BY DEF TypeOK, Reclaimable
  <2> QED BY <2>2, <2>3
<1>7. ConsumersCounted'
  <2>1. CASE ~ attached[c]
    <3>1. ASSUME NEW p \in Ops PROVE Attachments(p)' = Attachments(p)
      BY <2>1 DEF TypeOK, Attachments
    <3> QED BY <2>1, <3>1 DEF ConsumersCounted
  <2>2. CASE attached[c]
    <3>1. c \in Attachments(op[c])
      BY <2>2 DEF Attachments
    <3>2. ASSUME NEW p \in Ops
          PROVE  Attachments(p)' = IF p = op[c] THEN Attachments(p) \ {c}
                                   ELSE Attachments(p)
      <4>1. cop[c] # p /\ (cop[c] # p)'
        BY <1>0 DEF Ops
      <4> QED BY <4>1, <2>2 DEF TypeOK, Attachments
    <3> QED BY <1>0, <2>2, <3>1, <3>2, CountGivenBack
  <2> QED BY <2>1, <2>2
<1> QED BY <1>1, <1>2, <1>3, <1>4, <1>5, <1>6, <1>7 DEF IInv

LEMMA UndoPublishStep ==
  ASSUME IInv, NEW c \in Consumers, UndoPublish(c), UNCHANGED kind PROVE IInv'
<1> USE DEF IInv, UndoPublish, Finish, Goto, NoOp, Joinable, operations, work, record,
   completion, locals
<1>0. op[c] \in Ops /\ op[c] \in 1 .. created /\ cop[c] = NoOp /\ owner[c]
  BY DEF TypeOK, Known, Each, AtLabel, HandedOver
<1>1. TypeOK'
  BY <1>0 DEF TypeOK, CallerPCs, CompleterPCs, Outcomes, Stages
<1>2. Known'
  BY <1>0 DEF TypeOK, Known, Ops
<1>3. OneKind'
  BY <1>0 DEF TypeOK, OneKind, Claimed
<1>4. Owned'
  BY <1>0 DEF TypeOK, Owned
<1>5. Each'
  <2>1. ASSUME NEW d \in Consumers PROVE (AtLabel(d) /\ HandedOver(d))'
    BY <1>0 DEF TypeOK, Each, AtLabel, HandedOver, Claimed
  <2>2. ASSUME NEW d \in Consumers PROVE (Answers(d) /\ Counted(d))'
    BY <1>0 DEF TypeOK, Each, AtLabel, HandedOver, Answers, Counted, Claimed,
       Waits, Reason, OneKind
  <2>3. ASSUME NEW p \in Ops PROVE Delivers(p)'
    BY <1>0 DEF TypeOK, Each, Delivers
  <2> QED BY <2>1, <2>2, <2>3 DEF Each
<1>6. RegistryCurrent' /\ Reclaimable'
  BY <1>0 DEF TypeOK, Known, Each, AtLabel, RegistryCurrent, Reclaimable
<1>7. ConsumersCounted'
  <2>1. ASSUME NEW p \in Ops PROVE Attachments(p)' = Attachments(p)
    BY <1>0 DEF TypeOK, Each, AtLabel, HandedOver, Claimed, Attachments
  <2> QED BY <2>1 DEF ConsumersCounted
<1> QED BY <1>1, <1>2, <1>3, <1>4, <1>5, <1>6, <1>7 DEF IInv

LEMMA SubscribeStep ==
  ASSUME IInv, NEW c \in Consumers, Subscribe(c), UNCHANGED kind PROVE IInv'
<1> USE DEF IInv, Subscribe, Claim, Goto, NoOp, Joinable, operations, work, record,
   completion, locals
<1>0. op[c] \in Ops /\ op[c] \in 1 .. created /\ cop[c] = op[c] /\ cop[c] # NoOp
  BY DEF TypeOK, Known, Each, AtLabel, HandedOver
<1>1. TypeOK'
  <2>1. pc' \in [Consumers -> CallerPCs] /\ subs' \in [Ops -> SUBSET Consumers]
    BY <1>0, SMTT(20) DEF TypeOK, CallerPCs
  <2>2. cpc' \in [Consumers -> CompleterPCs] /\ calls' \in [Consumers -> Nat]
    BY DEF TypeOK, CompleterPCs
  <2>3. outcome' \in [Consumers -> Outcomes]
    BY <1>0 DEF TypeOK, Outcomes
  <2> QED BY <2>1, <2>2, <2>3 DEF TypeOK
<1>2. Known'
  BY <1>0 DEF TypeOK, Known, Ops
<1>3. OneKind'
  BY <1>0 DEF TypeOK, OneKind, Claimed
<1>4. Owned'
  BY <1>0 DEF TypeOK, Owned
<1>5. Each'
  <2>1. ASSUME NEW d \in Consumers PROVE (AtLabel(d) /\ HandedOver(d))'
    BY <1>0 DEF TypeOK, Each, AtLabel, HandedOver, Claimed
  <2>2. ASSUME NEW d \in Consumers PROVE (Answers(d) /\ Counted(d))'
    BY <1>0 DEF TypeOK, Each, AtLabel, HandedOver, Answers, Counted, Claimed,
       Waits, Reason, OneKind, Delivers
  <2>3. ASSUME NEW p \in Ops PROVE Delivers(p)'
    BY <1>0, SMTT(20) DEF TypeOK, Each, Delivers
  <2> QED BY <2>1, <2>2, <2>3 DEF Each
<1>6. RegistryCurrent' /\ Reclaimable'
  BY <1>0 DEF TypeOK, Known, Each, AtLabel, RegistryCurrent, Reclaimable
<1>7. ConsumersCounted'
  <2>1. ASSUME NEW p \in Ops PROVE Attachments(p)' = Attachments(p)
    BY <1>0 DEF TypeOK, Each, AtLabel, HandedOver, Claimed, Attachments
  <2> QED BY <2>1 DEF ConsumersCounted
<1> QED BY <1>1, <1>2, <1>3, <1>4, <1>5, <1>6, <1>7 DEF IInv

LEMMA SetSubscriptionStep ==
  ASSUME IInv, NEW c \in Consumers, SetSubscription(c), UNCHANGED kind PROVE IInv'
<1> USE DEF IInv, SetSubscription, Goto, NoOp, Joinable, operations, work, record,
   completion, locals
<1>0. op[c] \in Ops /\ cop[c] = op[c] /\ cop[c] # NoOp
  BY DEF TypeOK, Known, Each, AtLabel, HandedOver
<1>1. TypeOK'
  <2>1. pc' \in [Consumers -> CallerPCs] /\ subs' \in [Ops -> SUBSET Consumers]
    BY <1>0 DEF TypeOK, CallerPCs
  <2>2. csub' \in [Consumers -> BOOLEAN]
    BY DEF TypeOK
  <2> QED BY <2>1, <2>2 DEF TypeOK
<1>2. Known'
  BY <1>0 DEF TypeOK, Known, Ops
<1>3. OneKind'
  BY <1>0 DEF TypeOK, OneKind, Claimed
<1>4. Owned'
  BY <1>0 DEF TypeOK, Owned
<1>5. Each'
  <2>1. ASSUME NEW d \in Consumers PROVE (AtLabel(d) /\ HandedOver(d))'
    BY <1>0 DEF TypeOK, Each, AtLabel, HandedOver, Claimed
  <2>2. ASSUME NEW d \in Consumers PROVE (Answers(d) /\ Counted(d))'
    BY <1>0 DEF TypeOK, Each, AtLabel, HandedOver, Answers, Counted, Claimed,
       Waits, Reason, OneKind
  <2>3. ASSUME NEW p \in Ops PROVE Delivers(p)'
    BY <1>0 DEF TypeOK, Each, Delivers
  <2> QED BY <2>1, <2>2, <2>3 DEF Each
<1>6. RegistryCurrent' /\ Reclaimable'
  BY <1>0 DEF TypeOK, Known, Each, AtLabel, RegistryCurrent, Reclaimable
<1>7. ConsumersCounted'
  <2>1. ASSUME NEW p \in Ops PROVE Attachments(p)' = Attachments(p)
    BY <1>0 DEF TypeOK, Each, AtLabel, HandedOver, Claimed, Attachments
  <2> QED BY <2>1 DEF ConsumersCounted
<1> QED BY <1>1, <1>2, <1>3, <1>4, <1>5, <1>6, <1>7 DEF IInv

LEMMA StartStep ==
  ASSUME IInv, NEW c \in Consumers, Start(c), UNCHANGED kind PROVE IInv'
<1> USE DEF IInv, Start, Goto, NoOp, Joinable, operations, work, record, completion,
   locals
<1>0. op[c] \in Ops /\ op[c] \in 1 .. created /\ cop[c] = op[c] /\ cop[c] # NoOp
  BY DEF TypeOK, Known, Each, AtLabel, HandedOver
<1>1. TypeOK'
  BY <1>0 DEF TypeOK, CallerPCs, CompleterPCs, Outcomes, Stages
<1>2. Known'
  BY <1>0 DEF TypeOK, Known, Ops
<1>3. OneKind'
  BY <1>0 DEF TypeOK, OneKind, Claimed
<1>4. Owned'
  BY <1>0 DEF TypeOK, Owned
<1>5. Each'
  <2>1. ASSUME NEW d \in Consumers PROVE (AtLabel(d) /\ HandedOver(d))'
    BY <1>0 DEF TypeOK, Each, AtLabel, HandedOver, Claimed
  <2>2. ASSUME NEW d \in Consumers PROVE (Answers(d) /\ Counted(d))'
    BY <1>0 DEF TypeOK, Each, AtLabel, HandedOver, Answers, Counted, Claimed,
       Waits, Reason, OneKind
  <2>3. ASSUME NEW p \in Ops PROVE Delivers(p)'
    BY <1>0 DEF TypeOK, Each, Delivers
  <2> QED BY <2>1, <2>2, <2>3 DEF Each
<1>6. RegistryCurrent' /\ Reclaimable'
  BY <1>0 DEF TypeOK, Known, Each, AtLabel, RegistryCurrent, Reclaimable
<1>7. ConsumersCounted'
  <2>1. ASSUME NEW p \in Ops PROVE Attachments(p)' = Attachments(p)
    BY <1>0 DEF TypeOK, Each, AtLabel, HandedOver, Claimed, Attachments
  <2> QED BY <2>1 DEF ConsumersCounted
<1> QED BY <1>1, <1>2, <1>3, <1>4, <1>5, <1>6, <1>7 DEF IInv

LEMMA SyncBeginStep ==
  ASSUME IInv, NEW c \in Consumers, SyncBegin(c), UNCHANGED kind PROVE IInv'
<1> USE DEF IInv, SyncBegin, Goto, NoOp, Joinable, operations, work, record,
   completion, locals
<1>1. TypeOK'
  <2>1. pc' \in [Consumers -> CallerPCs]
    BY DEF TypeOK, CallerPCs
  <2>2. outcome' \in [Consumers -> Outcomes] /\ calls' \in [Consumers -> Nat]
        /\ cpc' \in [Consumers -> CompleterPCs]
    BY DEF TypeOK, Outcomes
  <2> QED BY <2>1, <2>2 DEF TypeOK
<1>2. Known'
  BY DEF TypeOK, Known, Ops
<1>3. OneKind'
  BY DEF TypeOK, OneKind, Claimed
<1>4. Owned'
  BY DEF TypeOK, Owned
<1>5. Each'
  <2>1. ASSUME NEW d \in Consumers PROVE (AtLabel(d) /\ HandedOver(d))'
    BY DEF TypeOK, Each, AtLabel, HandedOver, Claimed
  <2>2. ASSUME NEW d \in Consumers PROVE (Answers(d) /\ Counted(d))'
    BY DEF TypeOK, Each, AtLabel, HandedOver, Answers, Counted, Claimed, Waits,
       Reason, OneKind
  <2>3. ASSUME NEW p \in Ops PROVE Delivers(p)'
    BY DEF TypeOK, Each, Delivers
  <2> QED BY <2>1, <2>2, <2>3 DEF Each
<1>6. RegistryCurrent' /\ Reclaimable'
  BY DEF TypeOK, Known, Each, AtLabel, RegistryCurrent, Reclaimable
<1>7. ConsumersCounted'
  <2>1. ASSUME NEW p \in Ops PROVE Attachments(p)' = Attachments(p)
    BY DEF TypeOK, Each, AtLabel, HandedOver, Claimed, Attachments
  <2> QED BY <2>1 DEF ConsumersCounted
<1> QED BY <1>1, <1>2, <1>3, <1>4, <1>5, <1>6, <1>7 DEF IInv

LEMMA SyncPublishStep ==
  ASSUME IInv, NEW c \in Consumers, NEW r \in {"ok", "fail"}, SyncPublish(c, r), UNCHANGED kind PROVE IInv'
<1> USE DEF IInv, SyncPublish, Goto, NoOp, Joinable, operations, work, record,
   completion, locals
<1>0. op[c] \in Ops /\ op[c] \in 1 .. created /\ cop[c] = NoOp /\ owner[c]
  BY DEF TypeOK, Known, Each, AtLabel, HandedOver
<1>1. TypeOK'
  BY <1>0 DEF TypeOK, CallerPCs, CompleterPCs, Outcomes, Stages
<1>2. Known'
  BY <1>0 DEF TypeOK, Known, Ops
<1>3. OneKind'
  BY <1>0 DEF TypeOK, OneKind, Claimed
<1>4. Owned'
  BY <1>0 DEF TypeOK, Owned
<1>5. Each'
  <2>1. ASSUME NEW d \in Consumers PROVE (AtLabel(d) /\ HandedOver(d))'
    BY <1>0 DEF TypeOK, Each, AtLabel, HandedOver, Claimed
  <2>2. ASSUME NEW d \in Consumers PROVE (Answers(d) /\ Counted(d))'
    BY <1>0 DEF TypeOK, Each, AtLabel, HandedOver, Answers, Counted, Claimed,
       Waits, Reason, OneKind, Owned
  <2>3. ASSUME NEW p \in Ops PROVE Delivers(p)'
    BY <1>0 DEF TypeOK, Each, Delivers
  <2> QED BY <2>1, <2>2, <2>3 DEF Each
<1>6. RegistryCurrent' /\ Reclaimable'
  BY <1>0 DEF TypeOK, Known, Each, AtLabel, RegistryCurrent, Reclaimable
<1>7. ConsumersCounted'
  <2>1. ASSUME NEW p \in Ops PROVE Attachments(p)' = Attachments(p)
    BY <1>0 DEF TypeOK, Each, AtLabel, HandedOver, Claimed, Attachments
  <2> QED BY <2>1 DEF ConsumersCounted
<1> QED BY <1>1, <1>2, <1>3, <1>4, <1>5, <1>6, <1>7 DEF IInv

LEMMA SyncWaitStep ==
  ASSUME IInv, NEW c \in Consumers, SyncWait(c), UNCHANGED kind PROVE IInv'
<1> USE DEF IInv, SyncWait, Goto, NoOp, Joinable, operations, work, record,
   completion, locals
<1>0. op[c] \in Ops /\ op[c] \in 1 .. created /\ cop[c] = NoOp
  BY DEF TypeOK, Known, Each, AtLabel, HandedOver
<1>1. TypeOK'
  BY <1>0, SMTT(20) DEF TypeOK, CallerPCs, CompleterPCs, Outcomes, Stages
<1>2. Known'
  BY <1>0 DEF TypeOK, Known, Ops
<1>3. OneKind'
  BY <1>0 DEF TypeOK, OneKind, Claimed
<1>4. Owned'
  BY <1>0 DEF TypeOK, Owned
<1>5. Each'
  <2>1. ASSUME NEW d \in Consumers PROVE (AtLabel(d) /\ HandedOver(d))'
    BY <1>0 DEF TypeOK, Each, AtLabel, HandedOver, Claimed
  <2>2. ASSUME NEW d \in Consumers PROVE (Answers(d) /\ Counted(d))'
    BY <1>0 DEF TypeOK, Each, AtLabel, HandedOver, Answers, Counted, Claimed,
       Waits, Reason, OneKind, Delivers
  <2>3. ASSUME NEW p \in Ops PROVE Delivers(p)'
    BY <1>0 DEF TypeOK, Each, Delivers
  <2> QED BY <2>1, <2>2, <2>3 DEF Each
<1>6. RegistryCurrent' /\ Reclaimable'
  BY <1>0 DEF TypeOK, Known, Each, AtLabel, RegistryCurrent, Reclaimable
<1>7. ConsumersCounted'
  <2>1. ASSUME NEW p \in Ops PROVE Attachments(p)' = Attachments(p)
    BY <1>0 DEF TypeOK, Each, AtLabel, HandedOver, Claimed, Attachments
  <2> QED BY <2>1 DEF ConsumersCounted
<1> QED BY <1>1, <1>2, <1>3, <1>4, <1>5, <1>6, <1>7 DEF IInv

LEMMA SyncCleanupStep ==
  ASSUME IInv, NEW c \in Consumers, SyncCleanup(c), UNCHANGED kind PROVE IInv'
<1> USE DEF IInv, SyncCleanup, EraseIfCurrent, Goto, NoOp, Joinable, operations, work,
   record, completion, locals
<1>0. op[c] \in Ops /\ op[c] \in 1 .. created /\ cop[c] = NoOp
  BY DEF TypeOK, Known, Each, AtLabel, HandedOver
<1>1. TypeOK'
  BY <1>0 DEF TypeOK, CallerPCs, CompleterPCs, Outcomes, Stages
<1>2. Known'
  BY <1>0 DEF TypeOK, Known, Ops
<1>3. OneKind'
  BY <1>0 DEF TypeOK, OneKind, Claimed
<1>4. Owned'
  BY <1>0 DEF TypeOK, Owned
<1>5. Each'
  <2>1. ASSUME NEW d \in Consumers PROVE (AtLabel(d) /\ HandedOver(d))'
    BY <1>0 DEF TypeOK, Each, AtLabel, HandedOver, Claimed
  <2>2. ASSUME NEW d \in Consumers PROVE (Answers(d) /\ Counted(d))'
    BY <1>0 DEF TypeOK, Each, AtLabel, HandedOver, Answers, Counted, Claimed,
       Waits, Reason, OneKind
  <2>3. ASSUME NEW p \in Ops PROVE Delivers(p)'
    BY <1>0 DEF TypeOK, Each, Delivers
  <2> QED BY <2>1, <2>2, <2>3 DEF Each
<1>6. RegistryCurrent' /\ Reclaimable'
  BY <1>0 DEF TypeOK, Known, Each, AtLabel, RegistryCurrent, Reclaimable
<1>7. ConsumersCounted'
  <2>1. ASSUME NEW p \in Ops PROVE Attachments(p)' = Attachments(p)
    BY <1>0 DEF TypeOK, Each, AtLabel, HandedOver, Claimed, Attachments
  <2> QED BY <2>1 DEF ConsumersCounted
<1> QED BY <1>1, <1>2, <1>3, <1>4, <1>5, <1>6, <1>7 DEF IInv

LEMMA SyncReturnStep ==
  ASSUME IInv, NEW c \in Consumers, SyncReturn(c), UNCHANGED kind PROVE IInv'
<1> USE DEF IInv, SyncReturn, Goto, NoOp, Joinable, operations, work, record,
   completion, locals
<1>0. /\ op[c] \in Ops /\ cop[c] = NoOp /\ done_[op[c]]
      /\ consumers_' \in [Ops -> Nat] /\ abandoned_' \in [Ops -> BOOLEAN]
      /\ \A p \in Ops : abandoned_[p] => abandoned_'[p]
      /\ \A p \in Ops : p > created => ~ abandoned_'[p]
  <2>1. op[c] \in Ops /\ op[c] \in 0 .. created /\ cop[c] = NoOp /\ done_[op[c]]
    BY DEF TypeOK, Known, Each, AtLabel, HandedOver, Answers
  <2>2. CASE ~ attached[c]
    BY <2>1, <2>2 DEF TypeOK, Known
  <2>3. CASE attached[c]
    <3>1. c \in Attachments(op[c])
      BY <2>3 DEF Attachments
    <3>2. /\ consumers_' \in [Ops -> Nat] /\ abandoned_' \in [Ops -> BOOLEAN]
          /\ \A p \in Ops \ {op[c]} : abandoned_'[p] = abandoned_[p]
          /\ abandoned_[op[c]] => abandoned_'[op[c]]
      BY <2>1, <2>3, <3>1, GiveBack
    <3>3. \A p \in Ops : p > created => p # op[c]
      BY <2>1 DEF TypeOK, Ops
    <3> QED BY <2>1, <3>2, <3>3 DEF TypeOK, Known
  <2> QED BY <2>2, <2>3
<1>1. TypeOK'
  BY <1>0 DEF TypeOK, CallerPCs, CompleterPCs, Outcomes, Stages
<1>2. Known'
  BY <1>0 DEF TypeOK, Known, Ops
<1>3. OneKind'
  BY <1>0 DEF TypeOK, OneKind, Claimed
<1>4. Owned'
  BY <1>0 DEF TypeOK, Owned
<1>5. Each'
  <2>1. ASSUME NEW d \in Consumers PROVE (AtLabel(d) /\ HandedOver(d))'
    BY <1>0 DEF TypeOK, Each, AtLabel, HandedOver, Claimed, OneKind
  <2>2. ASSUME NEW d \in Consumers PROVE (Answers(d) /\ Counted(d))'
    BY <1>0 DEF TypeOK, Each, AtLabel, HandedOver, Answers, Counted, Claimed,
       Waits, Reason, OneKind
  <2>3. ASSUME NEW p \in Ops PROVE Delivers(p)'
    BY <1>0 DEF TypeOK, Each, Delivers
  <2> QED BY <2>1, <2>2, <2>3 DEF Each
<1>6. RegistryCurrent' /\ Reclaimable'
  <2>1. 1 .. created \subseteq Ops
    BY FetchAssumption DEF TypeOK, Ops
  <2>2. RegistryCurrent'
    BY <1>0, <2>1 DEF TypeOK, RegistryCurrent
  <2>3. Reclaimable'
    BY DEF TypeOK, Reclaimable
  <2> QED BY <2>2, <2>3
<1>7. ConsumersCounted'
  <2>1. CASE ~ attached[c]
    <3>1. ASSUME NEW p \in Ops PROVE Attachments(p)' = Attachments(p)
      BY <2>1 DEF TypeOK, Attachments
    <3> QED BY <2>1, <3>1 DEF ConsumersCounted
  <2>2. CASE attached[c]
    <3>1. c \in Attachments(op[c])
      BY <2>2 DEF Attachments
    <3>2. ASSUME NEW p \in Ops
          PROVE  Attachments(p)' = IF p = op[c] THEN Attachments(p) \ {c}
                                   ELSE Attachments(p)
      <4>1. cop[c] # p /\ (cop[c] # p)'
        BY <1>0 DEF Ops
      <4> QED BY <4>1, <2>2 DEF TypeOK, Attachments
    <3> QED BY <1>0, <2>2, <3>1, <3>2, CountGivenBack
  <2> QED BY <2>1, <2>2
<1> QED BY <1>1, <1>2, <1>3, <1>4, <1>5, <1>6, <1>7 DEF IInv

-----------------------------------------------------------------------------
(* The completion of a consumer.                                            *)

LEMMA CancelStep ==
  ASSUME IInv, NEW c \in Consumers, Cancel(c), UNCHANGED kind PROVE IInv'
<1> USE DEF IInv, Cancel, Goto, NoOp, Joinable, operations, work, record, completion,
   locals
<1>1. TypeOK'
  BY DEF TypeOK, CallerPCs, CompleterPCs, Outcomes, Stages
<1>2. Known'
  BY DEF TypeOK, Known, Ops
<1>3. OneKind'
  BY DEF TypeOK, OneKind, Claimed
<1>4. Owned'
  BY DEF TypeOK, Owned
<1>5. Each'
  <2>1. ASSUME NEW d \in Consumers PROVE (AtLabel(d) /\ HandedOver(d))'
    BY DEF TypeOK, Each, AtLabel, HandedOver, Claimed
  <2>2. ASSUME NEW d \in Consumers PROVE (Answers(d) /\ Counted(d))'
    BY DEF TypeOK, Each, AtLabel, HandedOver, Answers, Counted, Claimed, Waits,
       Reason, OneKind
  <2>3. ASSUME NEW p \in Ops PROVE Delivers(p)'
    BY DEF TypeOK, Each, Delivers
  <2> QED BY <2>1, <2>2, <2>3 DEF Each
<1>6. RegistryCurrent' /\ Reclaimable'
  BY DEF TypeOK, Known, Each, AtLabel, RegistryCurrent, Reclaimable
<1>7. ConsumersCounted'
  <2>1. ASSUME NEW p \in Ops PROVE Attachments(p)' = Attachments(p)
    BY DEF TypeOK, Each, AtLabel, HandedOver, Claimed, Attachments
  <2> QED BY <2>1 DEF ConsumersCounted
<1> QED BY <1>1, <1>2, <1>3, <1>4, <1>5, <1>6, <1>7 DEF IInv

LEMMA CancelCallbackStep ==
  ASSUME IInv, NEW c \in Consumers, CancelCallback(c), UNCHANGED kind PROVE IInv'
<1> USE DEF IInv, CancelCallback, Claim, Goto, NoOp, Joinable, operations, work,
   record, completion, locals
<1>1. TypeOK'
  BY ZenonT(40) DEF TypeOK, CallerPCs, CompleterPCs, Outcomes, Stages
<1>2. Known'
  BY DEF TypeOK, Known, Ops
<1>3. OneKind'
  BY DEF TypeOK, OneKind, Claimed
<1>4. Owned'
  BY DEF TypeOK, Owned
<1>5. Each'
  <2>1. ASSUME NEW d \in Consumers PROVE (AtLabel(d) /\ HandedOver(d))'
    BY DEF TypeOK, Each, AtLabel, HandedOver, Claimed
  <2>2. ASSUME NEW d \in Consumers PROVE (Answers(d) /\ Counted(d))'
    BY DEF TypeOK, Each, AtLabel, HandedOver, Answers, Counted, Claimed, Waits,
       Reason, OneKind
  <2>3. ASSUME NEW p \in Ops PROVE Delivers(p)'
    BY DEF TypeOK, Each, Delivers
  <2> QED BY <2>1, <2>2, <2>3 DEF Each
<1>6. RegistryCurrent' /\ Reclaimable'
  BY DEF TypeOK, Known, Each, AtLabel, RegistryCurrent, Reclaimable
<1>7. ConsumersCounted'
  <2>1. ASSUME NEW p \in Ops PROVE Attachments(p)' = Attachments(p)
    BY DEF TypeOK, Each, AtLabel, HandedOver, Claimed, Attachments
  <2> QED BY <2>1 DEF ConsumersCounted
<1> QED BY <1>1, <1>2, <1>3, <1>4, <1>5, <1>6, <1>7 DEF IInv

LEMMA DetachStep ==
  ASSUME IInv, NEW c \in Consumers, Detach(c), UNCHANGED kind PROVE IInv'
<1> USE DEF IInv, Detach, Goto, NoOp, Joinable, operations, work, record, completion,
   locals
<1>1. TypeOK'
  BY DEF TypeOK, CallerPCs, CompleterPCs, Outcomes, Stages
<1>2. Known'
  BY DEF TypeOK, Known, Ops
<1>3. OneKind'
  BY DEF TypeOK, OneKind, Claimed
<1>4. Owned'
  BY DEF TypeOK, Owned
<1>5. Each'
  <2>1. ASSUME NEW d \in Consumers PROVE (AtLabel(d) /\ HandedOver(d))'
    BY DEF TypeOK, Each, AtLabel, HandedOver, Claimed
  <2>2. ASSUME NEW d \in Consumers PROVE (Answers(d) /\ Counted(d))'
    BY DEF TypeOK, Each, AtLabel, HandedOver, Answers, Counted, Claimed, Waits,
       Reason, OneKind
  <2>3. ASSUME NEW p \in Ops PROVE Delivers(p)'
    BY DEF TypeOK, Each, Delivers
  <2> QED BY <2>1, <2>2, <2>3 DEF Each
<1>6. RegistryCurrent' /\ Reclaimable'
  BY DEF TypeOK, Known, Each, AtLabel, RegistryCurrent, Reclaimable
<1>7. ConsumersCounted'
  <2>1. ASSUME NEW p \in Ops PROVE Attachments(p)' = Attachments(p)
    BY DEF TypeOK, Each, AtLabel, HandedOver, Claimed, Attachments
  <2> QED BY <2>1 DEF ConsumersCounted
<1> QED BY <1>1, <1>2, <1>3, <1>4, <1>5, <1>6, <1>7 DEF IInv

LEMMA UnsubscribeStep ==
  ASSUME IInv, NEW c \in Consumers, Unsubscribe(c), UNCHANGED kind PROVE IInv'
<1> USE DEF IInv, Unsubscribe, Goto, NoOp, Joinable, operations, work, record,
   completion, locals
<1>1. TypeOK'
  <2>1. subs' \in [Ops -> SUBSET Consumers]
    BY DEF TypeOK
  <2>2. cpc' \in [Consumers -> CompleterPCs]
    BY DEF TypeOK, CompleterPCs
  <2> QED BY <2>1, <2>2 DEF TypeOK
<1>2. Known'
  BY DEF TypeOK, Known, Ops
<1>3. OneKind'
  BY DEF TypeOK, OneKind, Claimed
<1>4. Owned'
  BY DEF TypeOK, Owned
<1>5. Each'
  <2>1. ASSUME NEW d \in Consumers PROVE (AtLabel(d) /\ HandedOver(d))'
    BY DEF TypeOK, Each, AtLabel, HandedOver, Claimed
  <2>2. ASSUME NEW d \in Consumers PROVE (Answers(d) /\ Counted(d))'
    BY DEF TypeOK, Each, AtLabel, HandedOver, Answers, Counted, Claimed, Waits,
       Reason, OneKind
  <2>3. ASSUME NEW p \in Ops PROVE Delivers(p)'
    BY DEF TypeOK, Each, Delivers
  <2> QED BY <2>1, <2>2, <2>3 DEF Each
<1>6. RegistryCurrent' /\ Reclaimable'
  BY DEF TypeOK, Known, Each, AtLabel, RegistryCurrent, Reclaimable
<1>7. ConsumersCounted'
  <2>1. ASSUME NEW p \in Ops PROVE Attachments(p)' = Attachments(p)
    BY DEF TypeOK, Each, AtLabel, HandedOver, Claimed, Attachments
  <2> QED BY <2>1 DEF ConsumersCounted
<1> QED BY <1>1, <1>2, <1>3, <1>4, <1>5, <1>6, <1>7 DEF IInv

LEMMA ReleaseStep ==
  ASSUME IInv, NEW c \in Consumers, Release(c), UNCHANGED kind PROVE IInv'
<1> USE DEF IInv, Release, Goto, NoOp, Joinable, operations, work, record, completion,
   locals
<1>0. /\ consumers_' \in [Ops -> Nat] /\ abandoned_' \in [Ops -> BOOLEAN]
      /\ \A p \in Ops : abandoned_[p] => abandoned_'[p]
      /\ \A p \in Ops : p > created => ~ abandoned_'[p]
  <2>1. CASE cop[c] = NoOp \/ ~ cattached[c]
    BY <2>1 DEF TypeOK, Known
  <2>2. CASE cop[c] # NoOp /\ cattached[c]
    <3>1. cop[c] \in Ops /\ c \in Attachments(cop[c])
      BY <2>2 DEF TypeOK, Attachments
    <3>2. /\ consumers_' \in [Ops -> Nat] /\ abandoned_' \in [Ops -> BOOLEAN]
          /\ \A p \in Ops \ {cop[c]} : abandoned_'[p] = abandoned_[p]
          /\ abandoned_[cop[c]] => abandoned_'[cop[c]]
      BY <2>2, <3>1, GiveBack
    <3>3. cop[c] \in 0 .. created
      BY <2>2 DEF Known, Each, HandedOver
    <3>4. \A p \in Ops : p > created => p # cop[c]
      BY <3>3 DEF TypeOK, Ops
    <3> QED BY <3>1, <3>2, <3>4 DEF TypeOK, Known
  <2> QED BY <2>1, <2>2
<1>1. TypeOK'
  BY <1>0 DEF TypeOK, CallerPCs, CompleterPCs, Outcomes, Stages
<1>2. Known'
  BY <1>0 DEF TypeOK, Known, Ops
<1>3. OneKind'
  BY <1>0 DEF TypeOK, OneKind, Claimed
<1>4. Owned'
  BY <1>0 DEF TypeOK, Owned
<1>5. Each'
  <2>1. ASSUME NEW d \in Consumers PROVE (AtLabel(d) /\ HandedOver(d))'
    BY <1>0 DEF TypeOK, Each, AtLabel, HandedOver, Claimed
  <2>2. ASSUME NEW d \in Consumers PROVE (Answers(d) /\ Counted(d))'
    BY <1>0 DEF TypeOK, Each, AtLabel, HandedOver, Answers, Counted, Claimed,
       Waits, Reason, OneKind
  <2>3. ASSUME NEW p \in Ops PROVE Delivers(p)'
    BY <1>0 DEF TypeOK, Each, Delivers
  <2> QED BY <2>1, <2>2, <2>3 DEF Each
<1>6. RegistryCurrent' /\ Reclaimable'
  <2>1. 1 .. created \subseteq Ops
    BY FetchAssumption DEF TypeOK, Ops
  <2>2. RegistryCurrent'
    BY <1>0, <2>1 DEF TypeOK, RegistryCurrent
  <2>3. Reclaimable'
    BY DEF TypeOK, Reclaimable
  <2> QED BY <2>2, <2>3
<1>7. ConsumersCounted'
  <2>1. CASE cop[c] = NoOp \/ ~ cattached[c]
    <3>1. ASSUME NEW p \in Ops PROVE Attachments(p)' = Attachments(p)
      <4>1. p # NoOp
        BY DEF Ops
      <4> QED BY <2>1, <4>1 DEF TypeOK, Each, HandedOver, Attachments
    <3> QED BY <2>1, <3>1 DEF ConsumersCounted
  <2>2. CASE cop[c] # NoOp /\ cattached[c]
    <3>1. cop[c] \in Ops /\ c \in Attachments(cop[c])
      BY <2>2 DEF TypeOK, Attachments
    <3>2. ASSUME NEW p \in Ops
          PROVE  Attachments(p)' = IF p = cop[c] THEN Attachments(p) \ {c}
                                   ELSE Attachments(p)
      BY <2>2 DEF TypeOK, Each, HandedOver, Attachments
    <3> QED BY <2>2, <3>1, <3>2, CountGivenBack
  <2> QED BY <2>1, <2>2
<1> QED BY <1>1, <1>2, <1>3, <1>4, <1>5, <1>6, <1>7 DEF IInv

LEMMA CallStep ==
  ASSUME IInv, NEW c \in Consumers, Call(c), UNCHANGED kind PROVE IInv'
<1> USE DEF IInv, Call, Goto, NoOp, Joinable, operations, work, record, completion,
   locals
<1>1. TypeOK'
  BY DEF TypeOK, CallerPCs, CompleterPCs, Outcomes, Stages
<1>2. Known'
  BY DEF TypeOK, Known, Ops
<1>3. OneKind'
  BY DEF TypeOK, OneKind, Claimed
<1>4. Owned'
  BY DEF TypeOK, Owned
<1>5. Each'
  <2>1. ASSUME NEW d \in Consumers PROVE (AtLabel(d) /\ HandedOver(d))'
    BY DEF TypeOK, Each, AtLabel, HandedOver, Claimed
  <2>2. ASSUME NEW d \in Consumers PROVE (Answers(d) /\ Counted(d))'
    BY DEF TypeOK, Each, AtLabel, HandedOver, Answers, Counted, Claimed, Waits,
       Reason, OneKind
  <2>3. ASSUME NEW p \in Ops PROVE Delivers(p)'
    BY DEF TypeOK, Each, Delivers
  <2> QED BY <2>1, <2>2, <2>3 DEF Each
<1>6. RegistryCurrent' /\ Reclaimable'
  BY DEF TypeOK, Known, Each, AtLabel, RegistryCurrent, Reclaimable
<1>7. ConsumersCounted'
  <2>1. ASSUME NEW p \in Ops PROVE Attachments(p)' = Attachments(p)
    BY DEF TypeOK, Each, AtLabel, HandedOver, Claimed, Attachments
  <2> QED BY <2>1 DEF ConsumersCounted
<1> QED BY <1>1, <1>2, <1>3, <1>4, <1>5, <1>6, <1>7 DEF IInv

-----------------------------------------------------------------------------
(* The work of an operation.                                                *)

LEMMA WorkStep ==
  ASSUME IInv, NEW o \in Ops, Judge(o) \/ CacheMiss(o) \/ Fetched(o), UNCHANGED kind PROVE IInv'
<1> USE DEF IInv, Judge, CacheMiss, Fetched, Advance, Goto, NoOp, Joinable,
   operations, work, record, completion, locals
<1>1. TypeOK'
  BY DEF TypeOK, CallerPCs, CompleterPCs, Outcomes, Stages
<1>2. Known'
  BY ZenonT(40) DEF TypeOK, Known, Ops
<1>3. OneKind'
  BY DEF TypeOK, OneKind, Claimed
<1>4. Owned'
  BY DEF TypeOK, Owned, Each, AtLabel
<1>5. Each'
  <2>1. ASSUME NEW d \in Consumers PROVE (AtLabel(d) /\ HandedOver(d))'
    BY DEF TypeOK, Each, AtLabel, HandedOver, Claimed
  <2>2. ASSUME NEW d \in Consumers PROVE (Answers(d) /\ Counted(d))'
    BY DEF TypeOK, Each, AtLabel, HandedOver, Answers, Counted, Claimed, Waits,
       Reason, OneKind
  <2>3. ASSUME NEW p \in Ops PROVE Delivers(p)'
    BY DEF TypeOK, Each, Delivers
  <2> QED BY <2>1, <2>2, <2>3 DEF Each
<1>6. RegistryCurrent' /\ Reclaimable'
  BY DEF TypeOK, Known, Each, AtLabel, RegistryCurrent, Reclaimable
<1>7. ConsumersCounted'
  <2>1. ASSUME NEW p \in Ops PROVE Attachments(p)' = Attachments(p)
    BY DEF TypeOK, Each, AtLabel, HandedOver, Claimed, Attachments
  <2> QED BY <2>1 DEF ConsumersCounted
<1> QED BY <1>1, <1>2, <1>3, <1>4, <1>5, <1>6, <1>7 DEF IInv

LEMMA PublishStep ==
  ASSUME IInv, NEW o \in Ops, NEW r \in {"ok", "fail"}, Publish(o, r), UNCHANGED kind PROVE IInv'
<1> USE DEF IInv, Publish, Finish, Goto, NoOp, Joinable, operations, work, record,
   completion, locals
<1>1. TypeOK'
  BY DEF TypeOK, CallerPCs, CompleterPCs, Outcomes, Stages
<1>2. Known'
  BY DEF TypeOK, Known, Ops
<1>3. OneKind'
  BY DEF TypeOK, OneKind, Claimed
<1>4. Owned'
  BY DEF TypeOK, Owned
<1>5. Each'
  <2>1. ASSUME NEW d \in Consumers PROVE (AtLabel(d) /\ HandedOver(d))'
    BY DEF TypeOK, Each, AtLabel, HandedOver, Claimed
  <2>2. ASSUME NEW d \in Consumers PROVE (Answers(d) /\ Counted(d))'
    BY DEF TypeOK, Each, AtLabel, HandedOver, Answers, Counted, Claimed, Waits,
       Reason, OneKind
  <2>3. ASSUME NEW p \in Ops PROVE Delivers(p)'
    BY DEF TypeOK, Each, Delivers
  <2> QED BY <2>1, <2>2, <2>3 DEF Each
<1>6. RegistryCurrent' /\ Reclaimable'
  BY DEF TypeOK, Known, Each, AtLabel, RegistryCurrent, Reclaimable
<1>7. ConsumersCounted'
  <2>1. ASSUME NEW p \in Ops PROVE Attachments(p)' = Attachments(p)
    BY DEF TypeOK, Each, AtLabel, HandedOver, Claimed, Attachments
  <2> QED BY <2>1 DEF ConsumersCounted
<1> QED BY <1>1, <1>2, <1>3, <1>4, <1>5, <1>6, <1>7 DEF IInv

LEMMA DeliverStep ==
  ASSUME IInv, NEW o \in Ops, Deliver(o), UNCHANGED kind PROVE IInv'
<1> USE DEF IInv, Claim, Goto, NoOp, Joinable, operations, work, record, completion,
   locals
<1>0. PICK c \in todo[o] :
        /\ todo' = [todo EXCEPT ![o] = @ \ {c}]
        /\ current' = [current EXCEPT ![o] = IF Claimed(c) THEN {} ELSE {c}]
        /\ Claim(c, result[o])
        /\ stage[o] = "deliver" /\ done_[o] /\ result[o] \in {"ok", "fail"}
        /\ c \in Consumers /\ cop[c] = o /\ op[c] = o /\ o # NoOp
        /\ pc[c] \in {"subscribe", "setsub", "start", "returned"}
        /\ UNCHANGED <<registry, created, operations, stage, locals, record, cancelled>>
  <2>1. stage[o] = "deliver" /\ done_[o] /\ result[o] \in {"ok", "fail"} /\ o # NoOp
    BY DEF Deliver, Each, Delivers, Ops
  <2>2. ASSUME NEW c \in todo[o]
        PROVE  /\ c \in Consumers /\ cop[c] = o /\ op[c] = o
               /\ pc[c] \in {"subscribe", "setsub", "start", "returned"}
    BY <2>1 DEF TypeOK, Each, Delivers, HandedOver
  <2> QED BY <2>1, <2>2 DEF Deliver
<1>1. TypeOK'
  <2>1. todo' \in [Ops -> SUBSET Consumers] /\ current' \in [Ops -> SUBSET Consumers]
    BY <1>0 DEF TypeOK
  <2>2. outcome' \in [Consumers -> Outcomes] /\ calls' \in [Consumers -> Nat]
        /\ cpc' \in [Consumers -> CompleterPCs]
    <3>1. result[o] \in Outcomes /\ "detach" \in CompleterPCs
      BY <1>0 DEF Outcomes, CompleterPCs
    <3> QED BY <1>0, <3>1 DEF TypeOK
  <2> QED BY <1>0, <2>1, <2>2 DEF TypeOK
<1>2. Known'
  BY <1>0 DEF TypeOK, Known, Ops
<1>3. OneKind'
  BY <1>0 DEF TypeOK, OneKind, Claimed
<1>4. Owned'
  BY <1>0 DEF TypeOK, Owned
<1>5. Each'
  <2>1. ASSUME NEW d \in Consumers PROVE (AtLabel(d) /\ HandedOver(d))'
    BY <1>0 DEF TypeOK, Each, AtLabel, HandedOver, Claimed
  <2>2. ASSUME NEW d \in Consumers PROVE (Answers(d) /\ Counted(d))'
    BY <1>0 DEF TypeOK, Each, AtLabel, HandedOver, Answers, Counted, Claimed,
       Waits, Reason, OneKind
  <2>3. ASSUME NEW p \in Ops PROVE Delivers(p)'
    BY <1>0 DEF TypeOK, Each, Delivers
  <2> QED BY <2>1, <2>2, <2>3 DEF Each
<1>6. RegistryCurrent' /\ Reclaimable'
  BY <1>0 DEF TypeOK, Known, Each, AtLabel, RegistryCurrent, Reclaimable
<1>7. ConsumersCounted'
  <2>1. ASSUME NEW p \in Ops PROVE Attachments(p)' = Attachments(p)
    BY <1>0 DEF TypeOK, Claimed, Attachments
  <2> QED BY <1>0, <2>1 DEF ConsumersCounted
<1> QED BY <1>1, <1>2, <1>3, <1>4, <1>5, <1>6, <1>7 DEF IInv

LEMMA EraseStep ==
  ASSUME IInv, NEW o \in Ops, Erase(o), UNCHANGED kind PROVE IInv'
<1> USE DEF IInv, Erase, EraseIfCurrent, Goto, NoOp, Joinable, operations, work,
   record, completion, locals
<1>0. done_[o]
  BY DEF Each, Delivers
<1>1. TypeOK'
  BY <1>0 DEF TypeOK, CallerPCs, CompleterPCs, Outcomes, Stages
<1>2. Known'
  BY <1>0 DEF TypeOK, Known, Ops
<1>3. OneKind'
  BY <1>0 DEF TypeOK, OneKind, Claimed
<1>4. Owned'
  BY <1>0 DEF TypeOK, Owned
<1>5. Each'
  <2>1. ASSUME NEW d \in Consumers PROVE (AtLabel(d) /\ HandedOver(d))'
    BY <1>0 DEF TypeOK, Each, AtLabel, HandedOver, Claimed
  <2>2. ASSUME NEW d \in Consumers PROVE (Answers(d) /\ Counted(d))'
    BY <1>0 DEF TypeOK, Each, AtLabel, HandedOver, Answers, Counted, Claimed,
       Waits, Reason, OneKind
  <2>3. ASSUME NEW p \in Ops PROVE Delivers(p)'
    BY <1>0 DEF TypeOK, Each, Delivers
  <2> QED BY <2>1, <2>2, <2>3 DEF Each
<1>6. RegistryCurrent' /\ Reclaimable'
  BY <1>0 DEF TypeOK, Known, Each, AtLabel, RegistryCurrent, Reclaimable
<1>7. ConsumersCounted'
  <2>1. ASSUME NEW p \in Ops PROVE Attachments(p)' = Attachments(p)
    BY <1>0 DEF TypeOK, Each, AtLabel, HandedOver, Claimed, Attachments
  <2> QED BY <2>1 DEF ConsumersCounted
<1> QED BY <1>1, <1>2, <1>3, <1>4, <1>5, <1>6, <1>7 DEF IInv

-----------------------------------------------------------------------------
LEMMA NextIInv == IInv /\ [Next]_vars => IInv'
<1> SUFFICES ASSUME IInv, [Next]_vars PROVE IInv'
  OBVIOUS
<1>1. ASSUME NEW c \in Consumers, Caller(c), UNCHANGED kind PROVE IInv'
  <2>1. CASE Lookup(c)
    BY <1>1, <2>1, LookupFindsStep, LookupCreatesStep
  <2> QED BY <1>1, <2>1, CheckStep, AttachStep, EvictStep, RecordStep, UndoStep,
             UndoPublishStep, SubscribeStep, SetSubscriptionStep, StartStep DEF Caller
<1>2. ASSUME NEW c \in Consumers, SyncCaller(c), UNCHANGED kind PROVE IInv'
  BY <1>2, SyncPublishStep, SyncWaitStep, SyncCleanupStep, SyncReturnStep DEF SyncCaller
<1>3. ASSUME NEW c \in Consumers, Completer(c), UNCHANGED kind PROVE IInv'
  BY <1>3, DetachStep, UnsubscribeStep, ReleaseStep, CallStep, CancelCallbackStep
     DEF Completer
<1>4. ASSUME NEW o \in Ops, Worker(o), UNCHANGED kind PROVE IInv'
  BY <1>4, WorkStep, PublishStep, DeliverStep, EraseStep DEF Worker
<1>5. CASE UNCHANGED vars
  <2> USE <1>5 DEF IInv, vars, operations, work, record, completion, locals
  <2>1. TypeOK' /\ Known' /\ OneKind' /\ Owned'
    BY DEF TypeOK, Known, OneKind, Owned, Claimed
  <2>2. Each'
    BY DEF Each, AtLabel, HandedOver, Answers, Counted, Delivers, Claimed, Waits,
           Reason, Joinable
  <2>3. ConsumersCounted' /\ RegistryCurrent' /\ Reclaimable'
    BY DEF ConsumersCounted, Attachments, RegistryCurrent, Joinable, Reclaimable
  <2> QED BY <2>1, <2>2, <2>3
<1> QED BY <1>1, <1>2, <1>3, <1>4, <1>5, BeginStep, SyncBeginStep, CancelStep DEF Next

(* The inductive invariant of the flights, their participants and their     *)
(* threads.                                                                 *)
THEOREM IInvHolds == Spec => []IInv
BY InitIInv, NextIInv, PTL DEF Spec

(* The bookkeeping of the single flight is right for any number of requests *)
(* and operations: consumers_ counts exactly those who still hold a place,  *)
(* whoever gives it back; an operation that can be joined is the one in the *)
(* registry; and no registry entry outlives the calls and the work that     *)
(* could erase it.                                                          *)
THEOREM BookkeepingHolds == Spec => []Consistent
<1>1. IInv => RegistryReclaimed
  BY DEF IInv, RegistryReclaimed, Reclaimable, TypeOK
<1>2. IInv => Consistent
  BY <1>1 DEF IInv, Consistent
<1> QED BY <1>2, IInvHolds, PTL

-----------------------------------------------------------------------------
(* The refinement.  The abstract state, value by value, and what a step has *)
(* to do to it to be one of the steps of Coalescing.                        *)

FlightOf(o) ==
  IF o > created THEN "unused"
  ELSE IF done_[o] THEN result[o] ELSE IF abandoned_[o] THEN "dropped" ELSE "open"

MemberOf(c) == IF Waits(c) THEN op[c] ELSE NoOp
ReplyOf(c)  == IF calls[c] = 0 THEN "none" ELSE outcome[c]

KeepFlights(S) == \A o \in Ops \ S : FlightOf(o)' = FlightOf(o)
KeepMembers(S) == \A c \in Consumers \ S : MemberOf(c)' = MemberOf(c)
KeepReplies(S) == \A c \in Consumers \ S : ReplyOf(c)' = ReplyOf(c)

LEMMA Stutters ==
  ASSUME KeepFlights({}), KeepMembers({}), KeepReplies({}), UNCHANGED <<cancelled, calls>>
  PROVE  UNCHANGED Abstract!vars
BY DEF Abstract!vars, KeepFlights, KeepMembers, KeepReplies, FlightOf, MemberOf, ReplyOf

LEMMA Launches ==
  ASSUME NEW o \in Ops, FlightOf(o) = "unused", FlightOf(o)' = "open",
         \A p \in Ops : FlightOf(p) # "open",
         KeepFlights({o}), KeepMembers({}), KeepReplies({}), UNCHANGED <<cancelled, calls>>
  PROVE  Abstract!Next
<1>1. Abstract!Launch(o)
  BY DEF Abstract!Launch, KeepFlights, KeepMembers, KeepReplies, FlightOf, MemberOf,
     ReplyOf
<1> QED BY <1>1 DEF Abstract!Next

LEMMA Lands ==
  ASSUME NEW o \in Ops, NEW r \in {"ok", "fail"}, FlightOf(o) \in {"open", "dropped"},
         FlightOf(o)' = r,
         KeepFlights({o}), KeepMembers({}), KeepReplies({}), UNCHANGED <<cancelled, calls>>
  PROVE  Abstract!Next
<1>1. Abstract!Land(o, r)
  BY DEF Abstract!Land, KeepFlights, KeepMembers, KeepReplies, FlightOf, MemberOf,
     ReplyOf
<1> QED BY <1>1 DEF Abstract!Next

LEMMA Drops ==
  ASSUME NEW o \in Ops, FlightOf(o) = "open", FlightOf(o)' = "dropped",
         \A c \in Consumers : MemberOf(c) = o => c \in cancelled,
         KeepFlights({o}), KeepMembers({}), KeepReplies({}), UNCHANGED <<cancelled, calls>>
  PROVE  Abstract!Next
<1>1. Abstract!Drop(o)
  BY DEF Abstract!Drop, Abstract!UnwantedBut, KeepFlights, KeepMembers, KeepReplies,
     FlightOf, MemberOf, ReplyOf
<1> QED BY <1>1 DEF Abstract!Next

LEMMA Joins ==
  ASSUME NEW c \in Consumers, NEW o \in Ops, FlightOf(o) \in {"open", "ok"},
         calls[c] = 0, MemberOf(c) = NoOp, MemberOf(c)' = o,
         KeepFlights({}), KeepMembers({c}), KeepReplies({}), UNCHANGED <<cancelled, calls>>
  PROVE  Abstract!Next
<1>1. Abstract!Join(c, o)
  BY DEF Abstract!Join, KeepFlights, KeepMembers, KeepReplies, FlightOf, MemberOf,
     ReplyOf
<1> QED BY <1>1 DEF Abstract!Next

LEMMA AnswersOnce ==
  ASSUME NEW c \in Consumers, NEW a \in {"ok", "fail", "cancelled", "refused"},
         calls \in [Consumers -> Nat],
         calls[c] = 0, calls' = [calls EXCEPT ![c] = 1], ReplyOf(c)' = a,
         \/ a = "cancelled" /\ c \in cancelled
         \/ a = "refused"
         \/ a \in {"ok", "fail"} /\ MemberOf(c) \in Ops /\ FlightOf(MemberOf(c)) = a,
         MemberOf(c)' = NoOp,
         KeepFlights({}), KeepMembers({c}), KeepReplies({c}), UNCHANGED cancelled
  PROVE  Abstract!Next
<1>0. NoOp \notin Ops
  BY DEF NoOp, Ops
<1>1. Abstract!Answer(c, a)
  BY <1>0 DEF Abstract!Answer, KeepFlights, KeepMembers, KeepReplies, FlightOf,
     MemberOf, ReplyOf
<1> QED BY <1>1 DEF Abstract!Next
(* When the last place is given back by a request that was cancelled,       *)
(* nobody waits for the operation but requests that were cancelled.         *)
LEMMA LastIsUnwanted ==
  ASSUME IInv, NEW o \in Ops, NEW c \in Attachments(o), c \in cancelled,
         Cardinality(Attachments(o)) = 1, ~ done_[o]
  PROVE  \A d \in Consumers : MemberOf(d) = o => d \in cancelled
<1> SUFFICES ASSUME NEW d \in Consumers, MemberOf(d) = o, d # c PROVE d \in cancelled
  OBVIOUS
<1>1. Attachments(o) \in SUBSET Consumers /\ o # NoOp
  BY DEF Attachments, NoOp, Ops
<1>2. d \notin Attachments(o)
  <2>1. IsFiniteSet(Attachments(o) \ {c}) /\ Cardinality(Attachments(o) \ {c}) = 0
    BY <1>1, OneLess, FetchAssumption, FS_Subset
  <2> QED BY <2>1, FS_EmptySet
<1>3. Waits(d) /\ op[d] = o /\ attached[d]
  BY <1>1 DEF MemberOf, IInv, Each, Counted
<1>4. CASE cop[d] = NoOp
  <2>1. pc[d] \in {"undoPublish", "returned"}
    BY <1>1, <1>2, <1>3, <1>4 DEF Attachments, Waits, IInv, TypeOK, CallerPCs,
       Each, AtLabel, HandedOver
  <2>2. Claimed(d)
    BY <1>3, <1>4, <2>1 DEF Waits, IInv, TypeOK, Each, HandedOver, Answers
  <2> QED BY <1>1, <1>3, <1>4, <2>2 DEF IInv, Each, Answers
<1>5. CASE cop[d] # NoOp
  <2>1. Claimed(d)
    BY <1>2, <1>3, <1>5 DEF Attachments, Claimed, IInv, Each, HandedOver
  <2> QED BY <1>1, <1>3, <2>1 DEF IInv, Each, Answers
<1> QED BY <1>4, <1>5

(* Steps that Coalescing does not see.                                      *)

LEMMA QuietCallerMaps ==
  ASSUME IInv, NEW c \in Consumers,
         Begin(c) \/ Check(c) \/ (Lookup(c) /\ registry # NoOp) \/ Evict(c) \/ Record(c),
         UNCHANGED kind
  PROVE  UNCHANGED Abstract!vars
<1> USE DEF IInv, Begin, Check, Claim, Lookup, Evict, Record, Goto, NoOp, operations,
   work, record, completion, locals
<1>1. KeepFlights({}) /\ UNCHANGED <<cancelled, calls>>
  BY DEF KeepFlights, FlightOf
<1>2. KeepMembers({})
  BY DEF KeepMembers, MemberOf, Waits, TypeOK, Each, AtLabel
<1>3. KeepReplies({})
  BY DEF KeepReplies, ReplyOf, TypeOK, Each, Answers, Claimed, OneKind
<1> QED BY <1>1, <1>2, <1>3, Stutters

LEMMA QuietSubscriberMaps ==
  ASSUME IInv, NEW c \in Consumers,
         Subscribe(c) \/ SetSubscription(c) \/ Start(c),
         UNCHANGED kind
  PROVE  UNCHANGED Abstract!vars
<1> USE DEF IInv, Subscribe, Claim, SetSubscription, Start, Goto, NoOp, operations,
   work, record, completion, locals
<1>1. KeepFlights({}) /\ UNCHANGED <<cancelled, calls>>
  BY DEF KeepFlights, FlightOf
<1>2. KeepMembers({})
  BY DEF KeepMembers, MemberOf, Waits, TypeOK, Each, AtLabel
<1>3. KeepReplies({})
  BY DEF KeepReplies, ReplyOf, TypeOK, Each, Answers, Claimed, OneKind
<1> QED BY <1>1, <1>2, <1>3, Stutters

LEMMA QuietSyncMaps ==
  ASSUME IInv, NEW c \in Consumers,
         SyncWait(c) \/ SyncCleanup(c),
         UNCHANGED kind
  PROVE  UNCHANGED Abstract!vars
<1> USE DEF IInv, SyncWait, SyncCleanup, Goto, NoOp, operations, work, record,
   completion, locals
<1>1. KeepFlights({}) /\ UNCHANGED <<cancelled, calls>>
  BY DEF KeepFlights, FlightOf
<1>2. KeepMembers({})
  BY DEF KeepMembers, MemberOf, Waits, TypeOK, Each, AtLabel
<1>3. KeepReplies({})
  BY DEF KeepReplies, ReplyOf, TypeOK, Each, Answers, Claimed, OneKind
<1> QED BY <1>1, <1>2, <1>3, Stutters

LEMMA QuietCompleterMaps ==
  ASSUME IInv, NEW c \in Consumers,
         CancelCallback(c) \/ Detach(c) \/ Unsubscribe(c),
         UNCHANGED kind
  PROVE  UNCHANGED Abstract!vars
<1> USE DEF IInv, CancelCallback, Claim, Detach, Unsubscribe, Goto, NoOp, operations,
   work, record, completion, locals
<1>1. KeepFlights({}) /\ UNCHANGED <<cancelled, calls>>
  BY DEF KeepFlights, FlightOf
<1>2. KeepMembers({})
  BY DEF KeepMembers, MemberOf, Waits, TypeOK, Each, AtLabel
<1>3. KeepReplies({})
  BY DEF KeepReplies, ReplyOf, TypeOK, Each, Answers, Claimed, OneKind
<1> QED BY <1>1, <1>2, <1>3, Stutters

LEMMA QuietWorkerMaps ==
  ASSUME IInv, NEW o \in Ops,
         Judge(o) \/ CacheMiss(o) \/ Fetched(o) \/ Deliver(o) \/ Erase(o),
         UNCHANGED kind
  PROVE  UNCHANGED Abstract!vars
<1> USE DEF IInv, Judge, CacheMiss, Fetched, Advance, Deliver, Claim, Erase, Goto,
   NoOp, operations, work, record, completion, locals
<1>1. KeepFlights({}) /\ UNCHANGED <<cancelled, calls>>
  BY DEF KeepFlights, FlightOf
<1>2. KeepMembers({})
  BY DEF KeepMembers, MemberOf, Waits, TypeOK, Each, AtLabel
<1>3. KeepReplies({})
  BY DEF KeepReplies, ReplyOf, TypeOK, Each, Answers, Claimed, OneKind
<1> QED BY <1>1, <1>2, <1>3, Stutters

-----------------------------------------------------------------------------
(* The steps that Coalescing sees.                                          *)
LEMMA LookupMaps ==
  ASSUME IInv, NEW c \in Consumers, Lookup(c), registry = NoOp PROVE Abstract!Next
<1> USE DEF IInv, Lookup, Goto, NoOp, operations, work, record, completion
<1>1. created + 1 \in Ops /\ created' = created + 1 /\ created \in Nat
  BY FetchAssumption DEF TypeOK, Ops
<1>0. PICK o \in Ops : o = created + 1
  BY <1>1
<1>2. FlightOf(o) = "unused" /\ FlightOf(o)' = "open"
  BY <1>0, <1>1 DEF FlightOf, Known
<1>3. \A p \in Ops : FlightOf(p) # "open"
  <2>1. \A p \in Ops : p <= created => p \in 1 .. created
    BY <1>1 DEF Ops
  <2>2. \A p \in Ops : p \in 1 .. created => done_[p] \/ abandoned_[p]
    BY DEF RegistryCurrent, Joinable, Ops
  <2>3. \A p \in Ops : done_[p] => result[p] \in {"ok", "fail"}
    BY DEF Each, Delivers
  <2> QED BY <1>1, <2>1, <2>2, <2>3 DEF FlightOf, Ops
<1>4. KeepFlights({o})
  BY <1>0, <1>1 DEF KeepFlights, FlightOf, Ops
<1>5. KeepMembers({}) /\ KeepReplies({})
  BY DEF KeepMembers, KeepReplies, MemberOf, ReplyOf, Waits, TypeOK
<1> QED BY <1>1, <1>2, <1>3, <1>4, <1>5, Launches

LEMMA AttachMaps ==
  ASSUME IInv, NEW c \in Consumers, Attach(c) PROVE Abstract!Next \/ UNCHANGED Abstract!vars
<1> USE DEF IInv, Attach, Goto, NoOp, work, record, completion
<1>1. KeepFlights({}) /\ KeepReplies({}) /\ KeepMembers({c})
  BY DEF KeepFlights, KeepReplies, KeepMembers, FlightOf, ReplyOf, MemberOf, Waits,
     TypeOK
<1>2. MemberOf(c) = NoOp /\ op[c] \in Ops /\ op[c] # NoOp
  BY DEF MemberOf, Waits, TypeOK, Each, AtLabel
<1>3. CASE Evicted(op[c]) \/ calls[c] # 0
  <2>1. MemberOf(c)' = NoOp
    BY <1>3 DEF MemberOf, Waits, TypeOK
  <2> QED BY <1>1, <1>2, <2>1, Stutters DEF KeepMembers
<1>4. CASE ~ Evicted(op[c]) /\ calls[c] = 0
  <2>1. MemberOf(c)' = op[c]
    BY <1>2, <1>4 DEF MemberOf, Waits, TypeOK
  <2>2. ~ (op[c] > created)
    BY DEF Known, TypeOK
  <2>3. FlightOf(op[c]) \in {"open", "ok"}
    BY <1>4, <2>2 DEF FlightOf, Evicted, Joinable, Completed
  <2> QED BY <1>1, <1>2, <1>4, <2>1, <2>3, Joins
<1> QED BY <1>3, <1>4 DEF TypeOK

(* A place that is given back before the result is there: the operation is  *)
(* dropped if it was the last.                                              *)
LEMMA GiveBackMaps ==
  ASSUME IInv, NEW o \in Ops, NEW c \in Attachments(o), releaseConsumer(o),
         c \in cancelled \/ done_[o],
         UNCHANGED <<created, done_, result, cancelled, calls>>,
         KeepMembers({}), KeepReplies({})
  PROVE  Abstract!Next \/ UNCHANGED Abstract!vars
<1> USE DEF IInv
<1>1. KeepFlights({o})
  BY GiveBack DEF KeepFlights, FlightOf
<1>2. CASE FlightOf(o)' = FlightOf(o)
  BY <1>1, <1>2, Stutters DEF KeepFlights
<1>3. CASE FlightOf(o)' # FlightOf(o)
  <2>1. o <= created /\ ~ done_[o] /\ ~ abandoned_[o] /\ abandoned_'[o]
    BY <1>3, GiveBack DEF FlightOf, TypeOK, Ops
  <2>2. FlightOf(o) = "open" /\ FlightOf(o)' = "dropped"
    BY <2>1 DEF FlightOf, TypeOK, Ops
  <2>3. Cardinality(Attachments(o)) = 1
    BY <2>1, GiveBack
  <2>4. \A d \in Consumers : MemberOf(d) = o => d \in cancelled
    BY <2>1, <2>3, LastIsUnwanted
  <2> QED BY <1>1, <2>2, <2>4, Drops
<1> QED BY <1>2, <1>3

LEMMA UndoMaps ==
  ASSUME IInv, NEW c \in Consumers, Undo(c) PROVE Abstract!Next \/ UNCHANGED Abstract!vars
<1> USE DEF IInv, Undo, Goto, NoOp, work, record, completion
<1>1. KeepMembers({}) /\ KeepReplies({})
  BY DEF KeepMembers, KeepReplies, MemberOf, ReplyOf, Waits, TypeOK
<1>2. CASE ~ attached[c]
  BY <1>1, <1>2, Stutters DEF KeepFlights, FlightOf
<1>3. CASE attached[c]
  <2>1. op[c] \in Ops /\ c \in Attachments(op[c]) /\ c \in cancelled
    BY <1>3 DEF TypeOK, Attachments, Each, AtLabel, HandedOver, Answers
  <2> QED BY <1>1, <1>3, <2>1, GiveBackMaps
<1> QED BY <1>2, <1>3

LEMMA ReleaseMaps ==
  ASSUME IInv, NEW c \in Consumers, Release(c) PROVE Abstract!Next \/ UNCHANGED Abstract!vars
<1> USE DEF IInv, Release, NoOp, work, record, locals
<1>1. KeepMembers({}) /\ KeepReplies({})
  BY DEF KeepMembers, KeepReplies, MemberOf, ReplyOf, Waits, TypeOK
<1>2. CASE cop[c] = NoOp \/ ~ cattached[c]
  BY <1>1, <1>2, Stutters DEF KeepFlights, FlightOf
<1>3. CASE cop[c] # NoOp /\ cattached[c]
  <2>1. cop[c] \in Ops /\ c \in Attachments(cop[c])
    BY <1>3 DEF TypeOK, Attachments
  <2>2. c \in cancelled \/ done_[cop[c]]
    BY <1>3 DEF Each, HandedOver, Answers, Claimed
  <2> QED BY <1>1, <1>3, <2>1, <2>2, GiveBackMaps
<1> QED BY <1>2, <1>3

LEMMA UndoPublishMaps ==
  ASSUME IInv, NEW c \in Consumers, UndoPublish(c) PROVE Abstract!Next
<1> USE DEF IInv, UndoPublish, Finish, Goto, NoOp, record, completion
<1>1. op[c] \in Ops /\ ~ (op[c] > created)
  BY DEF TypeOK, Known, Each, AtLabel
<1>2. FlightOf(op[c]) \in {"open", "dropped"} /\ FlightOf(op[c])' = "fail"
  BY <1>1 DEF FlightOf, TypeOK
<1>3. KeepFlights({op[c]}) /\ KeepMembers({}) /\ KeepReplies({})
  BY <1>1 DEF KeepFlights, KeepMembers, KeepReplies, FlightOf, MemberOf, ReplyOf,
     Waits, TypeOK
<1> QED BY <1>1, <1>2, <1>3, Lands

LEMMA PublishMaps ==
  ASSUME IInv, NEW o \in Ops, NEW r \in {"ok", "fail"}, Publish(o, r) PROVE Abstract!Next
<1> USE DEF IInv, Publish, Finish, record, completion, locals
<1>1. ~ (o > created)
  BY DEF Known
<1>2. FlightOf(o) \in {"open", "dropped"} /\ FlightOf(o)' = r
  BY <1>1 DEF FlightOf, TypeOK
<1>3. KeepFlights({o}) /\ KeepMembers({}) /\ KeepReplies({})
  BY DEF KeepFlights, KeepMembers, KeepReplies, FlightOf, MemberOf, ReplyOf, Waits,
     TypeOK
<1> QED BY <1>2, <1>3, Lands

LEMMA SyncPublishMaps ==
  ASSUME IInv, NEW c \in Consumers, NEW r \in {"ok", "fail"}, SyncPublish(c, r)
  PROVE  Abstract!Next
<1> USE DEF IInv, SyncPublish, Goto, NoOp, record, completion
<1>1. op[c] \in Ops /\ ~ (op[c] > created) /\ ~ done_[op[c]]
  BY DEF TypeOK, Known, Each, AtLabel, Owned
<1>2. FlightOf(op[c]) \in {"open", "dropped"} /\ FlightOf(op[c])' = r
  BY <1>1 DEF FlightOf, TypeOK
<1>3. KeepFlights({op[c]}) /\ KeepMembers({}) /\ KeepReplies({})
  BY <1>1 DEF KeepFlights, KeepMembers, KeepReplies, FlightOf, MemberOf, ReplyOf,
     Waits, TypeOK
<1> QED BY <1>1, <1>2, <1>3, Lands

LEMMA CancelMaps ==
  ASSUME IInv, NEW c \in Consumers, Cancel(c) PROVE Abstract!Next
<1> USE DEF Cancel, operations, locals, completion
<1>1. Abstract!Leave(c)
  BY DEF Abstract!Leave, Waits
<1> QED BY <1>1 DEF Abstract!Next

(* A request that has not been answered is answered for the reason recorded *)
(* with its outcome.                                                        *)
LEMMA AnswerMaps ==
  ASSUME IInv, NEW c \in Consumers, calls[c] = 0, calls' = [calls EXCEPT ![c] = 1],
         Reason(c), outcome'[c] = outcome[c],
         \A d \in Consumers \ {c} : outcome'[d] = outcome[d] /\ pc'[d] = pc[d],
         KeepFlights({}), UNCHANGED <<op, cancelled>>
  PROVE  Abstract!Next
<1> USE DEF IInv, NoOp
<1>1. ReplyOf(c)' = outcome[c] /\ MemberOf(c)' = NoOp
  BY DEF ReplyOf, MemberOf, Waits, TypeOK
<1>2. KeepMembers({c}) /\ KeepReplies({c})
  BY DEF KeepMembers, KeepReplies, MemberOf, ReplyOf, Waits, TypeOK
<1>3. \/ outcome[c] = "cancelled" /\ c \in cancelled
      \/ outcome[c] = "refused"
      \/ outcome[c] \in {"ok", "fail"} /\ MemberOf(c) \in Ops
         /\ FlightOf(MemberOf(c)) = outcome[c]
  <2>1. CASE /\ outcome[c] \in {"ok", "fail"} /\ op[c] # NoOp
             /\ pc[c] \notin {"lookup", "attach", "evict"}
             /\ done_[op[c]] /\ result[op[c]] = outcome[c]
    <3>1. MemberOf(c) = op[c] /\ op[c] \in Ops /\ ~ (op[c] > created)
      BY <2>1 DEF MemberOf, Waits, TypeOK, Known
    <3> QED BY <2>1, <3>1 DEF FlightOf
  <2> QED BY <2>1 DEF Reason
<1>4. calls \in [Consumers -> Nat]
  BY DEF TypeOK
<1> QED BY <1>1, <1>2, <1>3, <1>4, AnswersOnce

LEMMA CallMaps ==
  ASSUME IInv, NEW c \in Consumers, Call(c) \/ SyncReturn(c) PROVE Abstract!Next
<1> USE DEF IInv, Call, SyncReturn, Goto, NoOp, operations, work, record, locals
<1>1. calls[c] = 0 /\ Reason(c)
  BY DEF Each, Answers, Claimed, OneKind
<1>2. calls' = [calls EXCEPT ![c] = 1]
  BY <1>1 DEF TypeOK
<1>3. KeepFlights({})
  <2>1. CASE Call(c) \/ ~ attached[c]
    BY <2>1 DEF KeepFlights, FlightOf
  <2>2. CASE SyncReturn(c) /\ attached[c]
    <3>1. op[c] \in Ops /\ c \in Attachments(op[c]) /\ done_[op[c]]
      BY <2>2 DEF TypeOK, Attachments, Each, AtLabel
    <3>2. \A p \in Ops : ~ done_[p] => abandoned_'[p] = abandoned_[p]
      BY <2>2, <3>1, GiveBack
    <3> QED BY <2>2, <3>2 DEF KeepFlights, FlightOf
  <2> QED BY <2>1, <2>2
<1> QED BY <1>1, <1>2, <1>3, AnswerMaps DEF TypeOK

LEMMA SyncBeginMaps ==
  ASSUME IInv, NEW c \in Consumers, SyncBegin(c)
  PROVE  Abstract!Next \/ UNCHANGED Abstract!vars
<1> USE DEF IInv, SyncBegin, Goto, NoOp, operations, work, record, completion
<1>1. calls[c] = 0 /\ op[c] = NoOp /\ MemberOf(c) = NoOp /\ MemberOf(c)' = NoOp
  BY DEF Each, Answers, AtLabel, OneKind, Claimed, MemberOf, Waits
<1>2. KeepFlights({}) /\ KeepMembers({c}) /\ KeepReplies({c})
  BY DEF KeepFlights, KeepMembers, KeepReplies, FlightOf, MemberOf, ReplyOf, Waits,
     TypeOK
<1>3. CASE UNCHANGED completion
  BY <1>1, <1>2, <1>3, Stutters DEF KeepMembers, KeepReplies, ReplyOf
<1>4. CASE outcome' = [outcome EXCEPT ![c] = "refused"] /\ calls' = [calls EXCEPT ![c] = @ + 1]
  <2>1. calls' = [calls EXCEPT ![c] = 1] /\ ReplyOf(c)' = "refused"
    BY <1>1, <1>4 DEF ReplyOf, TypeOK
  <2>2. calls \in [Consumers -> Nat]
    BY DEF TypeOK
  <2> QED BY <1>1, <1>2, <2>1, <2>2, AnswersOnce
<1> QED BY <1>3, <1>4

(* The single flight implements Coalescing: whoever completes a request,    *)
(* and however cancellation, publication, eviction and retry interleave,    *)
(* one operation at a time can be joined, work is given up only when nobody *)
(* wants it, and every request is answered at most once, with the result of *)
(* the operation it joined, as cancelled because it was, or as refused.     *)
THEOREM Coalesces == Spec => ImplementsCoalescing
<1>1. Init => Abstract!Init
  BY DEF Init, Abstract!Init, Waits, NoOp, Ops
<1>2. IInv /\ [Next]_vars => [Abstract!Next]_Abstract!vars
  <2> SUFFICES ASSUME IInv, [Next]_vars PROVE Abstract!Next \/ UNCHANGED Abstract!vars
    OBVIOUS
  <2>1. ASSUME NEW c \in Consumers, Caller(c), UNCHANGED kind
        PROVE  Abstract!Next \/ UNCHANGED Abstract!vars
    BY <2>1, LookupMaps, AttachMaps, UndoMaps, UndoPublishMaps, QuietCallerMaps,
       QuietSubscriberMaps DEF Caller
  <2>2. ASSUME NEW c \in Consumers, SyncCaller(c), UNCHANGED kind
        PROVE  Abstract!Next \/ UNCHANGED Abstract!vars
    BY <2>2, SyncPublishMaps, QuietSyncMaps, CallMaps DEF SyncCaller
  <2>3. ASSUME NEW c \in Consumers, Completer(c), UNCHANGED kind
        PROVE  Abstract!Next \/ UNCHANGED Abstract!vars
    BY <2>3, QuietCompleterMaps, ReleaseMaps, CallMaps DEF Completer
  <2>4. ASSUME NEW o \in Ops, Worker(o), UNCHANGED kind
        PROVE  Abstract!Next \/ UNCHANGED Abstract!vars
    BY <2>4, PublishMaps, QuietWorkerMaps DEF Worker
  <2>5. CASE UNCHANGED vars
    BY <2>5, Stutters DEF vars, operations, completion, locals, KeepFlights,
       KeepMembers, KeepReplies, FlightOf, MemberOf, ReplyOf, Waits
  <2> QED BY <2>1, <2>2, <2>3, <2>4, <2>5, QuietCallerMaps, SyncBeginMaps, CancelMaps DEF Next
<1> QED BY <1>1, <1>2, IInvHolds, PTL DEF Spec, ImplementsCoalescing, Abstract!Spec
=============================================================================
