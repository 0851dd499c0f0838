----------------------------- MODULE WebGetProofs -----------------------------
(***************************************************************************)
(* Proofs for what stands below webGet(): CurlMultiEngine, which transfers,*)
(* and CacheStorage, which keeps what was fetched.  For any number of      *)
(* transfers, requests for shutdown and retries no transfer is lost and    *)
(* nothing outlives a shutdown; for any number of updates, kills and power *)
(* failures headers that can be read belong to the body.                   *)
(***************************************************************************)
EXTENDS CurlMultiEngine, CacheStorage, FiniteSetTheorems, SequenceTheorems, TLAPS

(* No transfer is in a queue twice.                                         *)
Once(s) == \A i, j \in DOMAIN s : s[i] = s[j] => i = j

(* A transfer that submit() has queued or completed is in one place.        *)
Parted ==
  /\ Once(pending_) /\ Once(delayed_)
  /\ Range(pending_) \cap Range(delayed_) = {}
  /\ (Range(pending_) \cup Range(delayed_)) \cap (active_ \cup local \cup done) = {}
  /\ active_ \cap local = {} /\ active_ \cap done = {} /\ local \cap done = {}
  /\ Range(pending_) \cup Range(delayed_) \cup active_ \cup local \cup done
       = {t \in Transfers : spc[t] \in {"wake", "back"}}

Counted ==
  /\ pendingCount = Len(pending_) + Len(delayed_)
  /\ activeCount = Cardinality(active_)
  /\ Window # 0 => Cardinality(active_) <= Window

(* What the worker has in hand, and that a transfer it is about to start    *)
(* was taken while there was room.                                          *)
InHand ==
  /\ local # {} => wpc \in {"complete", "start", "flush"}
  /\ wpc = "start" => (\E t \in Transfers : local = {t}) /\ HasRoom
  /\ wpc \in {"splice", "complete", "delayed"} => cursor # 0

(* Before the worker exists nothing is queued, and it leaves nothing.       *)
Lifetime ==
  /\ wpc = "none" => /\ pending_ = <<>> /\ delayed_ = <<>> /\ active_ = {}
                     /\ ~ available_ /\ kpc[Constructor] \in {"idle", "back"}
  /\ wpc = "flush" => stopping_ /\ pending_ = <<>>
  /\ wpc = "exit" => /\ stopping_ /\ pending_ = <<>> /\ delayed_ = <<>> /\ active_ = {}
  /\ wpc # "none" => kpc[Constructor] # "idle"

(* The constructor publishes before it looks for a request, a requester     *)
(* requests before it looks for the instance: one of them sees the other.   *)
Handshake ==
  /\ \A k \in Requesters : kpc[k] # "idle" => shutdownRequested
  /\ kpc[Constructor] # "load"
  /\ instance \/ wpc = "none" \/ kpc[Constructor] = "publish"
  /\ joined_ => wpc = "exit"
  /\ wpc \notin {"none", "exit"} /\ kpc[Constructor] = "back"
     => \A k \in Requesters : kpc[k] # "back"

(* The request to prune stands until the worker has taken it to splice.     *)
Cancelling ==
  /\ \A t \in (Range(pending_) \cap cancelled) \ (fire \cup early) :
       pruneRequested \/ wpc = "splice"
  /\ \A t \in cancelled : spc[t] = "registered" => t \in fire \cup early

EInv == TypeOK /\ Parted /\ Counted /\ InHand /\ Lifetime /\ Handshake /\ Cancelling

-----------------------------------------------------------------------------
(* Queues.                                                                 *)

LEMMA AppendOnce ==
  ASSUME NEW s \in Seq(Transfers), Once(s), NEW t \in Transfers, t \notin Range(s)
  PROVE  /\ Append(s, t) \in Seq(Transfers) /\ Once(Append(s, t))
         /\ Range(Append(s, t)) = Range(s) \cup {t}
         /\ Len(Append(s, t)) = Len(s) + 1
<1>1. Append(s, t) \in Seq(Transfers) /\ Len(Append(s, t)) = Len(s) + 1
  OBVIOUS
<1>2. \A i \in 1 .. Len(s) : Append(s, t)[i] = s[i] /\ s[i] # t
  BY DEF Range
<1>3. Append(s, t)[Len(s) + 1] = t
  OBVIOUS
<1>4. DOMAIN Append(s, t) = 1 .. Len(s) + 1 /\ DOMAIN s = 1 .. Len(s)
  OBVIOUS
<1>5. Once(Append(s, t))
  BY <1>2, <1>3, <1>4 DEF Once
<1>6. Range(Append(s, t)) = Range(s) \cup {t}
  BY <1>2, <1>3, <1>4 DEF Range
<1> QED BY <1>1, <1>5, <1>6

LEMMA TailOnce ==
  ASSUME NEW s \in Seq(Transfers), Once(s), s # <<>>
  PROVE  /\ Tail(s) \in Seq(Transfers) /\ Once(Tail(s)) /\ Head(s) \in Range(s)
         /\ Range(Tail(s)) = Range(s) \ {Head(s)}
         /\ Len(Tail(s)) = Len(s) - 1 /\ Len(s) \in Nat \ {0}
<1>1. Tail(s) \in Seq(Transfers) /\ Len(Tail(s)) = Len(s) - 1 /\ Len(s) \in Nat \ {0}
  OBVIOUS
<1>2. \A i \in 1 .. Len(s) - 1 : Tail(s)[i] = s[i + 1]
  OBVIOUS
<1>3. Head(s) = s[1]
  OBVIOUS
<1>4. DOMAIN Tail(s) = 1 .. Len(s) - 1 /\ DOMAIN s = 1 .. Len(s)
  BY <1>1
<1>5. Once(Tail(s))
  BY <1>1, <1>2, <1>4 DEF Once
<1>6. Range(Tail(s)) \subseteq Range(s) \ {Head(s)}
  BY <1>1, <1>2, <1>3, <1>4 DEF Range, Once
<1>7. ASSUME NEW x \in Range(s) \ {Head(s)} PROVE x \in Range(Tail(s))
  <2>1. PICK i \in 1 .. Len(s) : x = s[i]
    BY <1>4 DEF Range
  <2>2. i # 1
    BY <2>1, <1>3
  <2>3. i - 1 \in 1 .. Len(s) - 1 /\ Tail(s)[i - 1] = s[i]
    BY <1>1, <1>2, <2>1, <2>2
  <2> QED BY <2>1, <2>3, <1>4 DEF Range
<1>8. Head(s) \in Range(s)
  BY <1>1, <1>3, <1>4 DEF Range
<1> QED BY <1>1, <1>5, <1>6, <1>7, <1>8

LEMMA RemoveOnce ==
  ASSUME NEW s \in Seq(Transfers), Once(s), NEW n \in 1 .. Len(s)
  PROVE  /\ RemoveAt(s, n) \in Seq(Transfers) /\ Once(RemoveAt(s, n)) /\ s[n] \in Range(s)
         /\ Range(RemoveAt(s, n)) = Range(s) \ {s[n]}
         /\ Len(RemoveAt(s, n)) = Len(s) - 1 /\ Len(s) \in Nat \ {0}
<1> DEFINE r == RemoveAt(s, n)
           a == SubSeq(s, 1, n - 1)
           b == SubSeq(s, n + 1, Len(s))
<1>1. /\ a \in Seq(Transfers) /\ Len(a) = n - 1
      /\ \A i \in 1 .. n - 1 : a[i] = s[i]
  OBVIOUS
<1>2. /\ b \in Seq(Transfers) /\ Len(b) = Len(s) - n
      /\ \A i \in 1 .. Len(s) - n : b[i] = s[n + i]
  OBVIOUS
<1>3. r = a \o b
  BY DEF RemoveAt
<1> HIDE DEF a, b, r
<1>4. /\ r \in Seq(Transfers) /\ Len(r) = Len(s) - 1 /\ Len(s) \in Nat \ {0}
      /\ DOMAIN r = 1 .. Len(s) - 1 /\ DOMAIN s = 1 .. Len(s)
  BY <1>1, <1>2, <1>3, SMTT(20)
<1>5. \A i \in 1 .. n - 1 : r[i] = s[i]
  BY <1>1, <1>2, <1>3
<1>6. \A i \in n .. Len(s) - 1 : r[i] = s[i + 1]
  <2> TAKE i \in n .. Len(s) - 1
  <2>1. r[i] = b[i - (n - 1)]
    BY <1>1, <1>2, <1>3
  <2>2. i - (n - 1) \in 1 .. Len(s) - n /\ n + (i - (n - 1)) = i + 1
    BY <1>4
  <2> QED BY <2>1, <2>2, <1>2
<1>7. Once(r)
  <2> DEFINE from(i) == IF i < n THEN i ELSE i + 1
  <2>1. \A i \in 1 .. Len(s) - 1 : from(i) \in 1 .. Len(s) /\ r[i] = s[from(i)]
    BY <1>4, <1>5, <1>6
  <2>2. \A i, j \in 1 .. Len(s) - 1 : from(i) = from(j) => i = j
    BY <1>4
  <2> QED BY <1>4, <2>1, <2>2 DEF Once
<1>8. Range(r) \subseteq Range(s) \ {s[n]}
  BY <1>4, <1>5, <1>6 DEF Range, Once
<1>9. ASSUME NEW x \in Range(s) \ {s[n]} PROVE x \in Range(r)
  <2>1. PICK i \in 1 .. Len(s) : x = s[i]
    BY <1>4 DEF Range
  <2>2. CASE i < n
    BY <2>1, <2>2, <1>4, <1>5 DEF Range
  <2>3. CASE i > n
    <3>1. i - 1 \in n .. Len(s) - 1 /\ r[i - 1] = s[i]
      BY <2>3, <1>4, <1>6
    <3>2. i - 1 \in DOMAIN r
      BY <3>1, <1>4
    <3> QED BY <3>1, <3>2, <2>1 DEF Range
  <2> QED BY <2>1, <2>2, <2>3, <1>4
<1>10. s[n] \in Range(s)
  BY <1>4 DEF Range
<1> QED BY <1>4, <1>7, <1>8, <1>9, <1>10 DEF r

(* The size of a set of transfers taken from a queue is the number of       *)
(* places they had.                                                         *)
LEMMA PlacesCount ==
  ASSUME NEW s \in Seq(Transfers), Once(s), NEW I \in SUBSET DOMAIN s
  PROVE  /\ IsFiniteSet(I) /\ IsFiniteSet({s[i] : i \in I})
         /\ Cardinality({s[i] : i \in I}) = Cardinality(I)
<1> DEFINE f == [i \in I |-> s[i]]
           T == {s[i] : i \in I}
<1>1. IsFiniteSet(DOMAIN s)
  BY FS_Interval
<1>2. IsFiniteSet(I)
  BY <1>1, FS_Subset
<1>3. f \in Surjection(I, T)
  BY DEF Surjection
<1>4. f \in Injection(I, T)
  BY <1>3 DEF Injection, IsInjective, Surjection, Once
<1> HIDE DEF f, T
<1>5. IsFiniteSet(T) /\ Cardinality(T) = Cardinality(I)
  BY <1>2, <1>3, <1>4, FS_Surjection
<1> QED BY <1>2, <1>5 DEF T

LEMMA SameInterval ==
  ASSUME NEW a \in Nat, NEW b \in Nat, 1 .. a = 1 .. b
  PROVE  a = b
<1>1. a \in 1 .. a => a \in 1 .. b
  OBVIOUS
<1>2. b \in 1 .. b => b \in 1 .. a
  OBVIOUS
<1> QED BY <1>1, <1>2

(* What prunePending() leaves in the queue: a strictly increasing choice of *)
(* as many places as stay is a choice of all of them.                       *)
Spliced(s, gone, stay, from, r) ==
  /\ s \in Seq(Transfers) /\ Once(s) /\ gone \subseteq Range(s)
  /\ stay = {i \in DOMAIN s : s[i] \notin gone}
  /\ from \in [1 .. Cardinality(stay) -> stay]
  /\ \A i, j \in DOMAIN from : i < j => from[i] < from[j]
  /\ r = [i \in DOMAIN from |-> s[from[i]]]

LEMMA SpliceOnce ==
  ASSUME NEW s, NEW gone, NEW stay, NEW from, NEW r, Spliced(s, gone, stay, from, r)
  PROVE  /\ r \in Seq(Transfers) /\ Once(r) /\ Range(r) = Range(s) \ gone
         /\ Cardinality(gone) \in Nat /\ Len(r) = Len(s) - Cardinality(gone)
<1> USE DEF Spliced
<1> DEFINE leave == {i \in DOMAIN s : s[i] \in gone}
           n     == Cardinality(stay)
<1>1. DOMAIN s = 1 .. Len(s) /\ Len(s) \in Nat
  OBVIOUS
<1>2. /\ IsFiniteSet(stay) /\ IsFiniteSet(leave) /\ stay \in SUBSET DOMAIN s
      /\ Cardinality({s[i] : i \in leave}) = Cardinality(leave)
  <2>1. stay \in SUBSET DOMAIN s /\ leave \in SUBSET DOMAIN s
    OBVIOUS
  <2> QED BY <2>1, PlacesCount
<1>3. {s[i] : i \in leave} = gone
  BY DEF Range
<1>4. n \in Nat /\ Cardinality(leave) \in Nat
  BY <1>2, FS_CardinalityType
<1>5. n + Cardinality(leave) = Len(s)
  <2>1. stay \cap leave = {} /\ stay \cup leave = 1 .. Len(s)
    BY <1>1
  <2>2. Cardinality(stay \cup leave) = n + Cardinality(leave) - Cardinality(stay \cap leave)
    BY <1>2, FS_Union
  <2>3. Cardinality({}) = 0
    BY FS_EmptySet
  <2>4. Cardinality(1 .. Len(s)) = IF 1 > Len(s) THEN 0 ELSE Len(s) - 1 + 1
    <3>1. 1 \in Int /\ Len(s) \in Int
      BY <1>1
    <3> QED BY <3>1, FS_Interval
  <2>5. Cardinality(1 .. Len(s)) = n + Cardinality(leave) - 0
    BY <2>1, <2>2, <2>3
  <2> QED BY <2>4, <2>5, <1>1, <1>4
<1> HIDE DEF leave, n
<1>6. DOMAIN from = 1 .. n /\ from \in [1 .. n -> stay]
  BY DEF n
<1>7. \A i, j \in 1 .. n : from[i] = from[j] => i = j
  <2> SUFFICES ASSUME NEW i \in 1 .. n, NEW j \in 1 .. n, i < j
               PROVE  from[i] # from[j]
    BY <1>4
  <2>1. from[i] < from[j]
    BY <1>6
  <2>2. from[i] \in Nat /\ from[j] \in Nat
    <3>1. from[i] \in DOMAIN s /\ from[j] \in DOMAIN s
      BY <1>6, <1>2
    <3> QED BY <3>1, <1>1
  <2> QED BY <2>1, <2>2
<1>8. \A i \in stay : \E j \in 1 .. n : from[j] = i
  <2>1. from \in Injection(1 .. n, stay)
    BY <1>6, <1>7 DEF Injection, IsInjective
  <2>2. Cardinality(1 .. n) = n
    BY <1>4, FS_Interval
  <2>3. from \in Surjection(1 .. n, stay)
    BY <2>1, <2>2, <1>2, FS_Injection DEF n
  <2> QED BY <2>3 DEF Surjection
<1>9. DOMAIN r = 1 .. n /\ \A i \in 1 .. n : r[i] = s[from[i]] /\ from[i] \in stay
  BY <1>6
<1>10. r \in Seq(Transfers) /\ Len(r) = n
  <2>1. \A i \in 1 .. n : s[from[i]] \in Transfers
    <3> TAKE i \in 1 .. n
    <3>1. from[i] \in 1 .. Len(s)
      BY <1>9, <1>2, <1>1
    <3> QED BY <3>1
  <2>2. r \in [1 .. n -> Transfers]
    BY <1>6, <2>1
  <2>3. r \in Seq(Transfers)
    BY <2>2, <1>4, SeqDef, ZenonT(40)
  <2>4. Len(r) \in Nat /\ DOMAIN r = 1 .. Len(r)
    BY <2>3, LenProperties
  <2>5. Len(r) = n
    <3>1. 1 .. Len(r) = 1 .. n
      BY <2>4, <1>9
    <3> QED BY <3>1, <2>4, <1>4, SameInterval
  <2> QED BY <2>3, <2>5
<1>11. Once(r)
  BY <1>2, <1>7, <1>9 DEF Once
<1>12. Range(r) \subseteq Range(s) \ gone
  BY <1>2, <1>9 DEF Range
<1>13. ASSUME NEW x \in Range(s) \ gone PROVE x \in Range(r)
  <2>1. PICK i \in DOMAIN s : x = s[i]
    BY DEF Range
  <2>2. i \in stay
    BY <2>1
  <2>3. PICK j \in 1 .. n : from[j] = i
    BY <1>8, <2>2
  <2> QED BY <2>1, <2>3, <1>9 DEF Range
<1>14. Cardinality(gone) = Cardinality(leave)
  BY <1>2, <1>3
<1>15. Range(r) = Range(s) \ gone
  BY <1>12, <1>13
<1>16. Len(r) = Len(s) - Cardinality(gone)
  BY <1>1, <1>4, <1>5, <1>10, <1>14
<1> QED BY <1>4, <1>10, <1>11, <1>14, <1>15, <1>16

(* A set of transfers is finite.                                            *)
LEMMA FewTransfers ==
  ASSUME NEW S \in SUBSET Transfers
  PROVE  IsFiniteSet(S) /\ Cardinality(S) \in Nat
BY EngineAssumption, FS_Subset, FS_CardinalityType

-----------------------------------------------------------------------------
(* What each group of steps leaves alone.                                  *)

(* No transfer moves.                                                       *)
LEMMA NoMove ==
  ASSUME EInv, UNCHANGED <<queues, local, done>>,
         \A t \in Transfers :
            spc[t] \in {"wake", "back"} <=> spc'[t] \in {"wake", "back"}
  PROVE  Parted' /\ Counted'
<1>1. {t \in Transfers : spc[t] \in {"wake", "back"}}
       = {t \in Transfers : spc'[t] \in {"wake", "back"}}
  OBVIOUS
<1>2. UNCHANGED <<pending_, delayed_, active_, local, done, pendingCount, activeCount>>
  BY DEF queues
<1>3. Parted'
  BY <1>1, <1>2 DEF EInv, Parted, Once
<1>4. Counted'
  BY <1>2 DEF EInv, Counted
<1> QED BY <1>3, <1>4

(* A step of the worker that is neither prunePending()'s leaves the         *)
(* shutdown and the tokens alone.                                           *)
LEMMA WorkerFrame ==
  ASSUME EInv, UNCHANGED <<stop, kpc, spc, tokens>>,
         wpc \notin {"none", "exit"}, wpc' # "none"
  PROVE  /\ Handshake'
         /\ (/\ wpc # "splice" /\ UNCHANGED pruneRequested
             /\ Range(pending_)' \subseteq Range(pending_)) => Cancelling'
<1>1. Handshake'
  BY DEF EInv, Handshake, stop
<1>2. ASSUME wpc # "splice", UNCHANGED pruneRequested,
             Range(pending_)' \subseteq Range(pending_)
      PROVE  Cancelling'
  BY <1>2 DEF EInv, Cancelling, tokens
<1> QED BY <1>1, <1>2

(* Steps of the worker that only move it along.                             *)
LEMMA MoveOnStep ==
  ASSUME EInv, \/ Prune \/ DelayedProcessed \/ Dispatch \/ Wait \/ TestPredicate
               \/ Sleep \/ WaitTimeout \/ Poll
  PROVE  EInv'
<1> USE DEF Prune, DelayedProcessed, Dispatch, Wait, TestPredicate, Sleep, WaitTimeout,
      Poll, Goto
<1>1. /\ UNCHANGED <<queues, stop, local, spc, kpc, tokens, clock, done>>
      /\ wpc \notin {"none", "exit", "start", "flush", "splice"}
      /\ wpc' \in {"splice", "delayed", "pending", "prune", "wait", "poll", "test", "sleep",
                    "blocked"}
  OBVIOUS
<1>2. TypeOK'
  <2>1. woken' \in BOOLEAN
    <3>1. woken' = woken \/ woken' = FALSE
      OBVIOUS
    <3> QED BY <3>1 DEF EInv, TypeOK
  <2>2. pruneRequested' \in BOOLEAN
    <3>1. pruneRequested' = pruneRequested \/ pruneRequested' = FALSE
      OBVIOUS
    <3> QED BY <3>1 DEF EInv, TypeOK
  <2>3. cursor' \in Nat
    BY DEF EInv, TypeOK
  <2> QED BY <1>1, <2>1, <2>2, <2>3 DEF EInv, TypeOK, queues, stop, tokens, clock
<1>3. Parted' /\ Counted'
  BY <1>1, NoMove
<1>4. InHand'
  BY <1>1 DEF EInv, InHand, queues
<1>5. Lifetime'
  BY <1>1 DEF EInv, Lifetime, queues, stop
<1>6. Handshake'
  BY <1>1, WorkerFrame
<1>7. Cancelling'
  <2>1. CASE Prune
    BY <1>1, <2>1 DEF EInv, Cancelling, tokens, queues, TypeOK
  <2>2. CASE ~ Prune
    <3>1. UNCHANGED pruneRequested /\ Range(pending_)' = Range(pending_)
      BY <1>1, <2>2 DEF queues
    <3> QED BY <1>1, <3>1, WorkerFrame
  <2> QED BY <2>1, <2>2
<1> QED BY <1>2, <1>3, <1>4, <1>5, <1>6, <1>7 DEF EInv

(* prunePending().                                                          *)
LEMMA CompletePrunedStep == ASSUME EInv, CompletePruned PROVE EInv'
<1> USE DEF CompletePruned, Goto
<1>1. TypeOK'
  BY DEF EInv, TypeOK, queues, stop, tokens, clock
<1>2. Parted'
  BY DEF EInv, Parted, queues
<1>3. Counted' /\ InHand' /\ Lifetime'
  BY DEF EInv, Counted, InHand, Lifetime, queues, stop
<1>4. Handshake' /\ Cancelling'
  BY WorkerFrame DEF queues
<1> QED BY <1>1, <1>2, <1>3, <1>4 DEF EInv

LEMMA SpliceStep == ASSUME EInv, Splice PROVE EInv'
<1> DEFINE gone == Range(pending_) \cap (cancelled \cup expired)
           stay == {i \in DOMAIN pending_ : pending_[i] \notin gone}
<1>1. PICK from \in [1 .. Cardinality(stay) -> stay] :
        /\ \A i, j \in DOMAIN from : i < j => from[i] < from[j]
        /\ pending_' = [i \in DOMAIN from |-> pending_[from[i]]]
  BY DEF Splice
<1>2. /\ wpc = "splice" /\ wpc' = "complete" /\ local' = gone
      /\ pendingCount' = pendingCount - Cardinality(gone) /\ noted' = Range(pending_)'
      /\ UNCHANGED <<delayed_, active_, activeCount, attempts, pruneRequested, woken, stop,
                     cursor, spc, kpc, tokens, clock, done>>
  BY DEF Splice, Goto
<1>3. pending_ \in Seq(Transfers) /\ Once(pending_) /\ gone \in SUBSET Range(pending_)
  BY DEF EInv, TypeOK, Parted
<1>4. gone = Range(pending_) \cap (cancelled \cup expired)
      /\ stay = {i \in DOMAIN pending_ : pending_[i] \notin gone}
  OBVIOUS
<1> HIDE DEF gone, stay
<1>5. /\ pending_' \in Seq(Transfers) /\ Once(pending_')
      /\ Range(pending_') = Range(pending_) \ gone
      /\ Cardinality(gone) \in Nat /\ Len(pending_') = Len(pending_) - Cardinality(gone)
  <2>1. Spliced(pending_, gone, stay, from, pending_')
    BY <1>1, <1>3, <1>4 DEF Spliced
  <2> QED BY <2>1, SpliceOnce
<1>6. local = {} /\ Range(pending_) \subseteq Transfers
  BY <1>2, <1>3 DEF EInv, InHand, Range
<1>7. Counted'
  <2>1. Len(pending_) \in Nat /\ Len(delayed_) \in Nat /\ Len(pending_') \in Nat
    BY <1>3, <1>5 DEF EInv, TypeOK
  <2> QED BY <1>2, <1>5, <2>1 DEF EInv, Counted
<1>8. TypeOK'
  <2>1. pendingCount' \in Nat
    BY <1>2, <1>5, <1>7 DEF EInv, TypeOK, Counted
  <2>2. noted' \subseteq Transfers /\ local' \subseteq Transfers
    BY <1>2, <1>3, <1>5, <1>6
  <2> QED BY <1>2, <1>5, <2>1, <2>2 DEF EInv, TypeOK, stop, tokens, clock
<1>9. Parted'
  <2>1. gone \subseteq Range(pending_)
    BY <1>3
  <2> QED BY <1>2, <1>5, <1>6, <2>1 DEF EInv, Parted
<1>10. InHand' /\ Lifetime'
  BY <1>2 DEF EInv, InHand, Lifetime, stop
<1>11. Handshake'
  BY <1>2, WorkerFrame
<1>12. Cancelling'
  <2>1. Range(pending_') \cap cancelled = {}
    BY <1>5 DEF gone
  <2> QED BY <1>2, <2>1 DEF EInv, Cancelling, tokens
<1> QED BY <1>7, <1>8, <1>9, <1>10, <1>11, <1>12 DEF EInv

LEMMA ProcessDelayedStep == ASSUME EInv, ProcessDelayed PROVE EInv'
<1> DEFINE t    == delayed_[cursor]
           over == stopping_ \/ t \in cancelled \cup expired
<1>1. /\ wpc = "delayed" /\ cursor <= Len(delayed_)
      /\ UNCHANGED <<pending_, active_, activeCount, attempts, noted, pruneRequested, woken,
                     stop, spc, kpc, tokens, expired>>
  BY DEF ProcessDelayed
<1>2. CASE /\ cursor' = cursor + 1
           /\ UNCHANGED <<delayed_, pendingCount, done, local, due, wpc>>
  <2>1. TypeOK'
    BY <1>1, <1>2 DEF EInv, TypeOK, stop, tokens
  <2>2. Parted' /\ Counted'
    BY <1>1, <1>2, NoMove DEF queues
  <2>3. InHand' /\ Lifetime'
    BY <1>1, <1>2 DEF EInv, TypeOK, InHand, Lifetime, stop
  <2>4. Handshake' /\ Cancelling'
    BY <1>1, <1>2, WorkerFrame
  <2> QED BY <2>1, <2>2, <2>3, <2>4 DEF EInv
<1>3. CASE /\ over \/ HasRoom
           /\ delayed_' = RemoveAt(delayed_, cursor)
           /\ pendingCount' = pendingCount - 1
           /\ done' = IF over THEN done \cup {t} ELSE done
           /\ local' = IF over THEN {} ELSE {t}
           /\ due' = due \ {t}
           /\ wpc' = IF over THEN "delayed" ELSE "start"
           /\ UNCHANGED cursor
  <2>1. cursor \in 1 .. Len(delayed_)
    BY <1>1 DEF EInv, TypeOK, InHand
  <2>2. delayed_ \in Seq(Transfers) /\ Once(delayed_)
    BY DEF EInv, TypeOK, Parted
  <2>3. /\ delayed_' \in Seq(Transfers) /\ Once(delayed_') /\ t \in Range(delayed_)
        /\ Range(delayed_') = Range(delayed_) \ {t}
        /\ Len(delayed_') = Len(delayed_) - 1 /\ Len(delayed_) \in Nat \ {0}
    BY <1>3, <2>1, <2>2, RemoveOnce
  <2>4. t \in Transfers
    BY <2>1, <2>2
  <2>5. local = {}
    BY <1>1 DEF EInv, InHand
  <2> HIDE DEF t, over
  <2>6. Counted'
    <3>1. Len(pending_) \in Nat
      BY DEF EInv, TypeOK
    <3> QED BY <1>1, <1>3, <2>3, <3>1 DEF EInv, Counted
  <2>7. TypeOK'
    <3>1. pendingCount' \in Nat
      BY <1>1, <2>3, <2>6 DEF EInv, TypeOK, Counted
    <3>2. done' \subseteq Transfers /\ local' \subseteq Transfers /\ due' \subseteq Transfers
      BY <1>3, <2>4 DEF EInv, TypeOK
    <3>3. wpc' \in {"delayed", "start"} /\ cursor' \in Nat
      BY <1>3 DEF EInv, TypeOK
    <3> QED BY <1>1, <2>3, <3>1, <3>2, <3>3 DEF EInv, TypeOK, stop, tokens
  <2>8. Parted'
    BY <1>1, <1>3, <2>3, <2>5 DEF EInv, Parted
  <2>9. InHand' /\ Lifetime'
    BY <1>1, <1>3, <2>4 DEF EInv, InHand, Lifetime, stop, HasRoom
  <2>10. Handshake' /\ Cancelling'
    <3>1. wpc' # "none"
      BY <1>3
    <3> QED BY <1>1, <3>1, WorkerFrame
  <2> QED BY <2>6, <2>7, <2>8, <2>9, <2>10 DEF EInv
<1> QED BY <1>2, <1>3 DEF ProcessDelayed, Goto

LEMMA ProcessPendingStep == ASSUME EInv, ProcessPending PROVE EInv'
<1>1. /\ wpc = "pending"
      /\ UNCHANGED <<delayed_, active_, activeCount, attempts, noted, pruneRequested, woken,
                     stop, cursor, spc, kpc, tokens, clock, done>>
  BY DEF ProcessPending
<1>2. CASE wpc' = "drain" /\ UNCHANGED <<pending_, pendingCount, local>>
  <2>1. TypeOK'
    BY <1>1, <1>2 DEF EInv, TypeOK, stop, tokens, clock
  <2>2. Parted' /\ Counted'
    BY <1>1, <1>2, NoMove DEF queues
  <2>3. InHand' /\ Lifetime'
    BY <1>1, <1>2 DEF EInv, InHand, Lifetime, stop
  <2>4. Handshake' /\ Cancelling'
    BY <1>1, <1>2, WorkerFrame
  <2> QED BY <2>1, <2>2, <2>3, <2>4 DEF EInv
<1>3. CASE /\ pending_ # <<>> /\ HasRoom /\ pending_' = Tail(pending_)
           /\ pendingCount' = pendingCount - 1
           /\ local' = {Head(pending_)} /\ wpc' = "start"
  <2>1. pending_ \in Seq(Transfers) /\ Once(pending_) /\ Range(pending_) \subseteq Transfers
    BY DEF EInv, TypeOK, Parted, Range
  <2>2. /\ pending_' \in Seq(Transfers) /\ Once(pending_')
        /\ Head(pending_) \in Range(pending_)
        /\ Range(pending_') = Range(pending_) \ {Head(pending_)}
        /\ Len(pending_') = Len(pending_) - 1 /\ Len(pending_) \in Nat \ {0}
    BY <1>3, <2>1, TailOnce
  <2>3. local = {}
    BY <1>1 DEF EInv, InHand
  <2>4. Counted'
    <3>1. Len(delayed_) \in Nat
      BY DEF EInv, TypeOK
    <3> QED BY <1>1, <1>3, <2>2, <3>1 DEF EInv, Counted
  <2>5. TypeOK'
    <3>1. pendingCount' \in Nat
      BY <1>1, <2>2, <2>4 DEF EInv, TypeOK, Counted
    <3>2. local' \subseteq Transfers
      BY <1>3, <2>1, <2>2
    <3> QED BY <1>1, <1>3, <2>2, <3>1, <3>2 DEF EInv, TypeOK, stop, tokens, clock
  <2>6. Parted'
    BY <1>1, <1>3, <2>2, <2>3 DEF EInv, Parted
  <2>7. InHand' /\ Lifetime'
    <3>1. Head(pending_) \in Transfers
      BY <2>1, <2>2
    <3> QED BY <1>1, <1>3, <3>1 DEF EInv, InHand, Lifetime, stop, HasRoom
  <2>8. Handshake' /\ Cancelling'
    BY <1>1, <1>3, <2>2, WorkerFrame
  <2> QED BY <2>4, <2>5, <2>6, <2>7, <2>8 DEF EInv
<1> QED BY <1>2, <1>3 DEF ProcessPending, Goto

LEMMA StartTransferStep == ASSUME EInv, StartTransfer PROVE EInv'
<1>1. /\ wpc = "start" /\ local' = {} /\ wpc' = IF cursor = 0 THEN "pending" ELSE "delayed"
      /\ UNCHANGED <<pending_, delayed_, pendingCount, attempts, noted, pruneRequested, woken,
                     stop, cursor, spc, kpc, tokens, clock>>
  BY DEF StartTransfer, Goto
<1>2. PICK t \in Transfers : local = {t}
  BY <1>1 DEF EInv, InHand
<1>3. HasRoom
  BY <1>1 DEF EInv, InHand
<1>4. \/ done' = done \cup local /\ UNCHANGED <<active_, activeCount>>
      \/ /\ active_' = active_ \cup local /\ activeCount' = activeCount + 1
         /\ UNCHANGED done
  BY DEF StartTransfer
<1>5. Counted'
  <2>1. CASE UNCHANGED <<active_, activeCount>>
    BY <1>1, <2>1 DEF EInv, Counted
  <2>2. CASE active_' = active_ \cup {t} /\ activeCount' = activeCount + 1
    <3>1. t \notin active_ /\ active_ \in SUBSET Transfers
      BY <1>2 DEF EInv, Parted, TypeOK
    <3>2. IsFiniteSet(active_) /\ Cardinality(active_) \in Nat
      BY <3>1, FewTransfers
    <3>3. Cardinality(active_') = Cardinality(active_) + 1
      BY <2>2, <3>1, <3>2, FS_AddElement
    <3>4. Window \in Nat
      BY EngineAssumption
    <3> QED BY <1>1, <1>3, <2>2, <3>2, <3>3, <3>4 DEF EInv, Counted, HasRoom
  <2> QED BY <1>2, <1>4, <2>1, <2>2
<1>6. TypeOK'
  <2>1. active_' \subseteq Transfers /\ done' \subseteq Transfers /\ local' \subseteq Transfers
    BY <1>1, <1>4 DEF EInv, TypeOK
  <2>2. activeCount' \in Nat /\ wpc' \in {"pending", "delayed"}
    BY <1>1, <1>4 DEF EInv, TypeOK
  <2> QED BY <1>1, <2>1, <2>2 DEF EInv, TypeOK, stop, tokens, clock
<1>7. Parted'
  BY <1>1, <1>4 DEF EInv, Parted
<1>8. InHand' /\ Lifetime'
  BY <1>1 DEF EInv, InHand, Lifetime, stop
<1>9. Handshake' /\ Cancelling'
  BY <1>1, WorkerFrame
<1> QED BY <1>5, <1>6, <1>7, <1>8, <1>9 DEF EInv

(* An active transfer ends, or is put off.                                  *)
LEMMA FewerActive ==
  ASSUME EInv, NEW S \in SUBSET active_
  PROVE  /\ Cardinality(active_ \ S) = Cardinality(active_) - Cardinality(S)
         /\ Cardinality(active_ \ S) \in Nat /\ Cardinality(S) \in Nat
         /\ Cardinality(active_) \in Nat
<1>1. active_ \in SUBSET Transfers /\ S \in SUBSET Transfers
      /\ active_ \ S \in SUBSET Transfers /\ active_ \cap S = S
  BY DEF EInv, TypeOK
<1>2. IsFiniteSet(active_)
  BY <1>1, FewTransfers
<1>3. Cardinality(active_ \ S) = Cardinality(active_) - Cardinality(active_ \cap S)
  BY <1>2, FS_Difference
<1> QED BY <1>1, <1>3, FewTransfers

LEMMA OneFewerActive ==
  ASSUME EInv, NEW t \in active_
  PROVE  /\ Cardinality(active_ \ {t}) = Cardinality(active_) - 1
         /\ Cardinality(active_ \ {t}) \in Nat /\ Cardinality(active_) \in Nat
<1>1. {t} \in SUBSET active_
  OBVIOUS
<1>2. Cardinality({t}) = 1
  BY FS_Singleton
<1> QED BY <1>1, <1>2, FewerActive

LEMMA RetryStep == ASSUME EInv, NEW t \in Transfers, Retry(t) PROVE EInv'
<1> USE DEF Retry
<1>1. /\ delayed_ \in Seq(Transfers) /\ Once(delayed_) /\ t \notin Range(delayed_)
      /\ t \in active_
  BY DEF EInv, TypeOK, Parted
<1>2. /\ delayed_' \in Seq(Transfers) /\ Once(delayed_')
      /\ Range(delayed_') = Range(delayed_) \cup {t}
      /\ Len(delayed_') = Len(delayed_) + 1
  BY <1>1, AppendOnce
<1>3. Counted'
  <2>1. Len(pending_) \in Nat /\ Len(delayed_) \in Nat
    BY DEF EInv, TypeOK
  <2>2. pendingCount' = Len(pending_') + Len(delayed_')
    BY <1>2, <2>1 DEF EInv, Counted
  <2>3. Cardinality(active_') = Cardinality(active_) - 1 /\ Cardinality(active_) \in Nat
    BY <1>1, OneFewerActive
  <2>4. Window \in Nat
    BY EngineAssumption
  <2> QED BY <2>2, <2>3, <2>4 DEF EInv, Counted
<1>4. TypeOK'
  <2>1. activeCount' \in Nat
    BY <1>1, <1>3, OneFewerActive DEF Counted
  <2>2. attempts' \in [Transfers -> 0 .. RetryLimit]
    BY EngineAssumption DEF EInv, TypeOK, MayRetry
  <2>3. pendingCount' \in Nat /\ active_' \subseteq Transfers
    BY DEF EInv, TypeOK
  <2> QED BY <1>2, <2>1, <2>2, <2>3 DEF EInv, TypeOK, stop, tokens, clock
<1>5. Parted'
  BY <1>1, <1>2 DEF EInv, Parted
<1>6. InHand' /\ Lifetime'
  BY DEF EInv, InHand, Lifetime, stop
<1>7. Handshake' /\ Cancelling'
  BY WorkerFrame
<1> QED BY <1>3, <1>4, <1>5, <1>6, <1>7 DEF EInv

(* finish() and cancelExpired(): active transfers are completed.            *)
LEMMA EndActive ==
  ASSUME EInv, wpc = "drain", NEW S \in SUBSET active_, wpc' \in {"drain", "stop"},
         active_' = active_ \ S, activeCount' = activeCount - Cardinality(S),
         done' = done \cup S,
         UNCHANGED <<pending_, delayed_, pendingCount, attempts, noted, pruneRequested,
                     woken, stop, cursor, local, spc, kpc, tokens, clock>>
  PROVE  EInv'
<1>1. /\ Cardinality(active_') = Cardinality(active_) - Cardinality(S)
      /\ Cardinality(active_') \in Nat /\ Cardinality(S) \in Nat
      /\ Cardinality(active_) \in Nat
  BY FewerActive
<1>2. Counted'
  <2>1. Window \in Nat
    BY EngineAssumption
  <2> QED BY <1>1, <2>1 DEF EInv, Counted
<1>3. TypeOK'
  <2>1. activeCount' \in Nat
    BY <1>1, <1>2 DEF Counted
  <2> QED BY <2>1 DEF EInv, TypeOK, stop, tokens, clock
<1>4. Parted'
  BY DEF EInv, Parted
<1>5. InHand' /\ Lifetime'
  BY DEF EInv, InHand, Lifetime, stop
<1>6. Handshake' /\ Cancelling'
  BY WorkerFrame
<1> QED BY <1>2, <1>3, <1>4, <1>5, <1>6 DEF EInv

LEMMA EndedStep == ASSUME EInv, NEW t \in Transfers, Ended(t) PROVE EInv'
<1>1. Cardinality({t}) = 1 /\ {t} \in SUBSET active_
  BY FS_Singleton DEF Ended
<1> QED BY <1>1, EndActive DEF Ended

LEMMA CancelExpiredStep == ASSUME EInv, CancelExpired PROVE EInv'
<1>1. active_ \cap (cancelled \cup expired) \in SUBSET active_
  OBVIOUS
<1> QED BY <1>1, EndActive DEF CancelExpired, Goto

LEMMA StopTestStep == ASSUME EInv, StopTest PROVE EInv'
<1> USE DEF StopTest, Goto
<1>1. /\ wpc = "stop" /\ wpc' \in {"flush", "dispatch"} /\ local = {}
      /\ UNCHANGED <<delayed_, active_, activeCount, attempts, noted, pruneRequested, woken,
                     stop, cursor, spc, kpc, tokens, clock, done>>
  BY DEF EInv, InHand
<1>2. \/ /\ stopping_ /\ wpc' = "flush" /\ local' = Range(pending_) /\ pending_' = <<>>
         /\ pendingCount' = pendingCount - Len(pending_)
      \/ wpc' = "dispatch" /\ UNCHANGED <<local, pending_, pendingCount>>
  OBVIOUS
<1>3. Range(pending_') \subseteq Range(pending_) /\ Range(pending_) \subseteq Transfers
  BY <1>2 DEF EInv, TypeOK, Range
<1>4. Counted'
  <2>1. Len(pending_) \in Nat /\ Len(delayed_) \in Nat /\ Len(<<>>) = 0
    BY DEF EInv, TypeOK
  <2> QED BY <1>1, <1>2, <2>1 DEF EInv, Counted
<1>5. TypeOK'
  <2>1. pending_' \in Seq(Transfers) /\ local' \subseteq Transfers
    <3>1. <<>> \in Seq(Transfers) /\ pending_ \in Seq(Transfers)
      BY DEF EInv, TypeOK
    <3>2. pending_' \in {<<>>, pending_} /\ local' \in {local, Range(pending_)}
      BY <1>2
    <3> QED BY <1>1, <1>3, <3>1, <3>2
  <2>2. pendingCount' \in Nat
    BY <1>1, <1>4, <2>1 DEF EInv, TypeOK, Counted
  <2> QED BY <1>1, <2>1, <2>2 DEF EInv, TypeOK, stop, tokens, clock
<1>6. Parted'
  <2>1. Range(<<>>) = {} /\ Once(<<>>)
    BY DEF Range, Once
  <2> QED BY <1>1, <1>2, <2>1 DEF EInv, Parted
<1>7. InHand' /\ Lifetime'
  BY <1>1, <1>2 DEF EInv, InHand, Lifetime, stop
<1>8. Handshake' /\ Cancelling'
  BY <1>1, <1>3, WorkerFrame
<1> QED BY <1>4, <1>5, <1>6, <1>7, <1>8 DEF EInv

LEMMA FlushStep == ASSUME EInv, Flush PROVE EInv'
<1> USE DEF Flush, Goto
<1>1. Counted'
  <2>1. Len(pending_) \in Nat /\ Len(delayed_) \in Nat /\ Len(<<>>) = 0
    BY DEF EInv, TypeOK
  <2>2. Cardinality({}) = 0 /\ Cardinality(active_) \in Nat
    BY FS_EmptySet, FewTransfers DEF EInv, TypeOK
  <2>3. Window \in Nat
    BY EngineAssumption
  <2> QED BY <2>1, <2>2, <2>3 DEF EInv, Counted
<1>2. TypeOK'
  <2>1. Range(delayed_) \subseteq Transfers
    BY DEF EInv, TypeOK, Range
  <2>2. done' \subseteq Transfers /\ delayed_' \in Seq(Transfers)
    BY <2>1 DEF EInv, TypeOK
  <2>3. Cardinality({}) = 0 /\ Len(pending_) \in Nat /\ Len(<<>>) = 0
    BY FS_EmptySet DEF EInv, TypeOK
  <2>4. activeCount' \in Nat /\ pendingCount' \in Nat
    BY <1>1, <2>3 DEF Counted
  <2> QED BY <2>2, <2>4 DEF EInv, TypeOK, stop, tokens, clock
<1>3. Parted'
  <2>1. Range(<<>>) = {} /\ Once(<<>>)
    BY DEF Range, Once
  <2> QED BY <2>1 DEF EInv, Parted, Lifetime
<1>4. InHand' /\ Lifetime'
  BY DEF EInv, InHand, Lifetime, stop
<1>5. Handshake' /\ Cancelling'
  BY WorkerFrame
<1> QED BY <1>1, <1>2, <1>3, <1>4, <1>5 DEF EInv

-----------------------------------------------------------------------------
(* The threads around the worker.                                          *)

(* wakeWorker() moves a worker that sleeps, and nothing else.               *)
LEMMA WakeEffect ==
  ASSUME EInv, Wake
  PROVE  /\ woken' \in BOOLEAN
         /\ wpc' = wpc \/ (wpc = "blocked" /\ wpc' = "prune")
BY DEF EInv, TypeOK, Wake

LEMMA EnqueueStep == ASSUME EInv, NEW t \in Transfers, Enqueue(t) PROVE EInv'
<1> USE DEF Enqueue
<1>1. /\ spc[t] = "registered"
      /\ UNCHANGED <<delayed_, active_, activeCount, attempts, pruneRequested, woken, stop,
                     wpc, cursor, local, kpc, tokens, clock>>
  OBVIOUS
<1>2. t \notin Range(pending_) \cup Range(delayed_) \cup active_ \cup local \cup done
  BY <1>1 DEF EInv, Parted
<1>3. spc \in [Transfers -> {"new", "registered", "wake", "back"}]
  BY DEF EInv, TypeOK
<1>4. CASE /\ done' = done \cup {t} /\ spc' = [spc EXCEPT ![t] = "back"]
           /\ UNCHANGED <<pending_, pendingCount, noted>>
  <2>1. {u \in Transfers : spc'[u] \in {"wake", "back"}}
        = {u \in Transfers : spc[u] \in {"wake", "back"}} \cup {t}
    BY <1>3, <1>4
  <2>2. TypeOK'
    BY <1>1, <1>4 DEF EInv, TypeOK, stop, tokens, clock
  <2>3. Parted'
    BY <1>1, <1>2, <1>4, <2>1 DEF EInv, Parted
  <2>4. Counted' /\ InHand' /\ Lifetime' /\ Handshake'
    BY <1>1, <1>4 DEF EInv, Counted, InHand, HasRoom, Lifetime, Handshake, stop
  <2>5. Cancelling'
    BY <1>1, <1>3, <1>4 DEF EInv, Cancelling, tokens
  <2> QED BY <2>2, <2>3, <2>4, <2>5 DEF EInv
<1>5. CASE /\ ~ stopping_ /\ available_ /\ pending_' = Append(pending_, t)
           /\ pendingCount' = pendingCount + 1 /\ noted' = noted \cup {t}
           /\ spc' = [spc EXCEPT ![t] = "wake"] /\ UNCHANGED done
  <2>1. {u \in Transfers : spc'[u] \in {"wake", "back"}}
        = {u \in Transfers : spc[u] \in {"wake", "back"}} \cup {t}
    BY <1>3, <1>5
  <2>2. pending_ \in Seq(Transfers) /\ Once(pending_) /\ t \notin Range(pending_)
    BY <1>2 DEF EInv, TypeOK, Parted
  <2>3. /\ pending_' \in Seq(Transfers) /\ Once(pending_')
        /\ Range(pending_') = Range(pending_) \cup {t}
        /\ Len(pending_') = Len(pending_) + 1
    BY <1>5, <2>2, AppendOnce
  <2>4. TypeOK'
    <3>1. pendingCount' \in Nat /\ noted' \subseteq Transfers
      BY <1>5 DEF EInv, TypeOK
    <3>2. spc' \in [Transfers -> {"new", "registered", "wake", "back"}]
      BY <1>3, <1>5
    <3> QED BY <1>1, <1>5, <2>3, <3>1, <3>2 DEF EInv, TypeOK, stop, tokens, clock
  <2>5. Parted'
    BY <1>1, <1>2, <1>5, <2>1, <2>3 DEF EInv, Parted
  <2>6. Counted'
    <3>1. Len(pending_) \in Nat /\ Len(delayed_) \in Nat
      BY DEF EInv, TypeOK
    <3> QED BY <1>1, <1>5, <2>3, <3>1 DEF EInv, Counted
  <2>7. InHand' /\ Lifetime' /\ Handshake'
    BY <1>1, <1>5 DEF EInv, InHand, HasRoom, Lifetime, Handshake, stop
  <2>8. Cancelling'
    BY <1>1, <1>3, <1>5, <2>3 DEF EInv, Cancelling, tokens
  <2> QED BY <2>4, <2>5, <2>6, <2>7, <2>8 DEF EInv
<1> QED BY <1>4, <1>5

(* A step that moves no transfer and at most wakes the worker keeps all but *)
(* what is said of tokens and labels.                                       *)
LEMMA QuietFrame ==
  ASSUME EInv, UNCHANGED <<queues, stop, local, kpc, cursor, done>>,
         wpc' = wpc \/ (wpc = "blocked" /\ wpc' = "prune"),
         \A t \in Transfers :
            spc[t] \in {"wake", "back"} <=> spc'[t] \in {"wake", "back"}
  PROVE  Parted' /\ Counted' /\ InHand' /\ Lifetime' /\ Handshake'
<1>1. Parted' /\ Counted'
  BY NoMove
<1>2. InHand'
  BY DEF EInv, InHand, HasRoom, queues
<1>3. Lifetime'
  BY DEF EInv, Lifetime, queues, stop
<1>4. Handshake'
  BY DEF EInv, Handshake, stop
<1> QED BY <1>1, <1>2, <1>3, <1>4

LEMMA RegisterStep == ASSUME EInv, NEW t \in Transfers, Register(t) PROVE EInv'
<1> USE DEF Register
<1>1. /\ spc[t] = "new" /\ spc' = [spc EXCEPT ![t] = "registered"]
      /\ UNCHANGED <<queues, stop, cursor, local, kpc, cancelled, fire, clock, done>>
  OBVIOUS
<1>2. spc \in [Transfers -> {"new", "registered", "wake", "back"}]
  BY DEF EInv, TypeOK
<1>3. \/ /\ t \in cancelled /\ pruneRequested' = TRUE /\ woken' \in BOOLEAN
         /\ wpc' = wpc \/ (wpc = "blocked" /\ wpc' = "prune")
         /\ early' = early \cup {t}
      \/ t \notin cancelled /\ UNCHANGED <<pruneRequested, woken, wpc, early>>
  BY WakeEffect DEF Callback
<1>4. TypeOK'
  <2>1. /\ woken' \in BOOLEAN /\ pruneRequested' \in BOOLEAN
        /\ early' \subseteq cancelled
    BY <1>3 DEF EInv, TypeOK
  <2>2. wpc' = wpc \/ wpc' = "prune"
    BY <1>3
  <2>3. spc' \in [Transfers -> {"new", "registered", "wake", "back"}]
    BY <1>1, <1>2
  <2> QED BY <1>1, <2>1, <2>2, <2>3 DEF EInv, TypeOK, queues, stop, clock
<1>5. Parted' /\ Counted' /\ InHand' /\ Lifetime' /\ Handshake'
  BY <1>1, <1>2, <1>3, QuietFrame
<1>6. Cancelling'
  BY <1>1, <1>2, <1>3 DEF EInv, Cancelling, queues
<1> QED BY <1>4, <1>5, <1>6 DEF EInv

LEMMA WakeForSubmitStep == ASSUME EInv, NEW t \in Transfers, WakeForSubmit(t) PROVE EInv'
<1> USE DEF WakeForSubmit
<1>1. /\ spc[t] = "wake" /\ spc' = [spc EXCEPT ![t] = "back"]
      /\ UNCHANGED <<queues, pruneRequested, stop, cursor, local, kpc, tokens, clock, done>>
      /\ woken' \in BOOLEAN
      /\ wpc' = wpc \/ (wpc = "blocked" /\ wpc' = "prune")
  BY WakeEffect
<1>2. spc \in [Transfers -> {"new", "registered", "wake", "back"}]
  BY DEF EInv, TypeOK
<1>3. TypeOK'
  <2>1. spc' \in [Transfers -> {"new", "registered", "wake", "back"}]
    BY <1>1, <1>2
  <2>2. wpc' = wpc \/ wpc' = "prune"
    BY <1>1
  <2> QED BY <1>1, <2>1, <2>2 DEF EInv, TypeOK, queues, stop, tokens, clock
<1>4. Parted' /\ Counted' /\ InHand' /\ Lifetime' /\ Handshake'
  BY <1>1, <1>2, QuietFrame
<1>5. Cancelling'
  BY <1>1, <1>2 DEF EInv, Cancelling, queues, tokens
<1> QED BY <1>3, <1>4, <1>5 DEF EInv

(* The token is set while the transfer waits: its callback has still to run *)
(* unless the transfer was not submitted or is completed.                   *)
LEMMA CancelStep == ASSUME EInv, NEW t \in Transfers, Cancel(t) PROVE EInv'
<1> USE DEF Cancel
<1>1. TypeOK'
  BY DEF EInv, TypeOK, queues, stop, clock
<1>2. Parted' /\ Counted' /\ InHand' /\ Lifetime' /\ Handshake'
  BY QuietFrame
<1>3. t \in Range(pending_) => t \notin done /\ spc[t] \in {"wake", "back"}
  BY DEF EInv, Parted
<1>4. spc[t] = "registered" => t \notin done
  BY DEF EInv, Parted
<1>5. Cancelling'
  BY <1>3, <1>4 DEF EInv, Cancelling, queues
<1> QED BY <1>1, <1>2, <1>5 DEF EInv

LEMMA FireStep == ASSUME EInv, NEW t \in Transfers, Fire(t) PROVE EInv'
<1> USE DEF Fire
<1>1. /\ pruneRequested' = TRUE /\ woken' \in BOOLEAN
      /\ wpc' = wpc \/ (wpc = "blocked" /\ wpc' = "prune")
  BY WakeEffect DEF Callback
<1>2. TypeOK'
  <2>1. wpc' = wpc \/ wpc' = "prune"
    BY <1>1
  <2>2. fire' \subseteq cancelled /\ early' \subseteq cancelled
    BY DEF EInv, TypeOK
  <2> QED BY <1>1, <2>1, <2>2 DEF EInv, TypeOK, queues, stop, clock
<1>3. Parted' /\ Counted' /\ InHand' /\ Lifetime' /\ Handshake'
  BY <1>1, QuietFrame
<1>4. Cancelling'
  BY <1>1 DEF EInv, Cancelling, queues
<1> QED BY <1>2, <1>3, <1>4 DEF EInv

LEMMA ClockStep == ASSUME EInv, NEW t \in Transfers, Expire(t) \/ Due(t) PROVE EInv'
<1> USE DEF Expire, Due
<1>1. TypeOK'
  BY DEF EInv, TypeOK, queues, stop, tokens, clock
<1>2. Parted' /\ Counted' /\ InHand' /\ Lifetime' /\ Handshake'
  BY QuietFrame
<1>3. Cancelling'
  BY DEF EInv, Cancelling, queues, tokens
<1> QED BY <1>1, <1>2, <1>3 DEF EInv

(* The shutdown handshake.                                                  *)
LEMMA ShutdownFrame ==
  ASSUME EInv, UNCHANGED <<queues, local, spc, tokens, done, cursor, pruneRequested>>,
         wpc' = wpc \/ (wpc \in {"blocked", "none"} /\ wpc' = "prune")
  PROVE  Parted' /\ Counted' /\ InHand' /\ Cancelling'
<1>1. Parted' /\ Counted'
  BY NoMove
<1>2. InHand'
  BY DEF EInv, InHand, HasRoom, queues
<1>3. Cancelling'
  BY DEF EInv, Cancelling, queues, tokens
<1> QED BY <1>1, <1>2, <1>3

KPCs == {"idle", "publish", "check", "load", "enter", "wake", "join", "await", "back"}

LEMMA ShutdownTypes ==
  ASSUME TypeOK, UNCHANGED <<queues, local, spc, tokens, done, cursor, pruneRequested, clock>>,
         kpc' \in [Callers -> KPCs], woken' \in BOOLEAN, available_' \in BOOLEAN,
         instance' \in BOOLEAN, stopping_' \in BOOLEAN, joining_' \in BOOLEAN,
         joined_' \in BOOLEAN, shutdownRequested' \in BOOLEAN, wpc' = wpc \/ wpc' = "prune"
  PROVE  TypeOK'
BY DEF TypeOK, KPCs, queues, tokens, clock

LEMMA ConstructorStep ==
  ASSUME EInv, Construct \/ PublishInstance \/ CheckShutdown PROVE EInv'
<1> USE DEF Construct, PublishInstance, CheckShutdown
<1>1. /\ kpc \in [Callers -> KPCs] /\ Constructor \in Callers /\ Constructor \notin Requesters
      /\ Requesters \subseteq Callers
  BY EngineAssumption DEF EInv, TypeOK, Callers, KPCs
<1>2. PICK to \in {"publish", "check", "enter", "back"} :
        kpc' = [kpc EXCEPT ![Constructor] = to]
  OBVIOUS
<1>3. /\ UNCHANGED <<queues, local, spc, tokens, done, cursor, pruneRequested, woken, clock,
                     stopping_, joining_, joined_, shutdownRequested>>
      /\ wpc' = wpc \/ (wpc = "none" /\ wpc' = "prune")
  BY DEF EInv, Lifetime, stop
<1>4. kpc'[Constructor] = to /\ \A k \in Requesters : kpc'[k] = kpc[k]
  BY <1>1, <1>2
<1>5. TypeOK'
  <2>1. kpc' \in [Callers -> KPCs]
    BY <1>1, <1>2 DEF KPCs
  <2>2. available_' \in BOOLEAN /\ instance' \in BOOLEAN
    BY DEF EInv, TypeOK, stop
  <2>3. wpc' = wpc \/ wpc' = "prune"
    BY <1>3
  <2>4. /\ TypeOK /\ woken' \in BOOLEAN /\ stopping_' \in BOOLEAN /\ joining_' \in BOOLEAN
        /\ joined_' \in BOOLEAN /\ shutdownRequested' \in BOOLEAN
    BY <1>3 DEF EInv, TypeOK
  <2> QED BY <1>3, <2>1, <2>2, <2>3, <2>4, ShutdownTypes
<1>6. Parted' /\ Counted' /\ InHand' /\ Cancelling'
  BY <1>3, ShutdownFrame
<1>7. Lifetime'
  <2>1. CASE Construct
    <3>1. wpc' = "none" => kpc'[Constructor] = "back" /\ wpc = "none" /\ UNCHANGED available_
      BY <1>1, <2>1 DEF EInv, Lifetime
    <3>2. wpc' \notin {"flush", "exit"} /\ kpc'[Constructor] # "idle"
      BY <1>3, <1>4, <2>1 DEF EInv, Lifetime
    <3> QED BY <1>3, <3>1, <3>2 DEF EInv, Lifetime, queues
  <2>2. CASE PublishInstance \/ CheckShutdown
    <3>1. wpc # "none" /\ wpc' = wpc
      BY <2>2 DEF EInv, Lifetime
    <3> QED BY <1>3, <1>4, <3>1 DEF EInv, Lifetime, queues
  <2> QED BY <2>1, <2>2
<1>8. Handshake'
  BY <1>3, <1>4 DEF EInv, Handshake, Lifetime, TypeOK, stop
<1> QED BY <1>5, <1>6, <1>7, <1>8 DEF EInv

LEMMA CallerStep ==
  ASSUME EInv, NEW k \in Callers, Stopper(k) \/ (k \in Requesters /\ RequestShutdown(k))
  PROVE  EInv'
<1> USE DEF Stopper, LoadInstance, EnterShutdown, WakeForShutdown, Join, AwaitJoined,
      RequestShutdown, StepTo
<1>1. /\ kpc \in [Callers -> KPCs] /\ Constructor \in Callers /\ Constructor \notin Requesters
      /\ Requesters \subseteq Callers /\ Callers = Requesters \cup {Constructor}
  BY EngineAssumption DEF EInv, TypeOK, Callers, KPCs
<1>2. PICK to \in {"load", "enter", "wake", "join", "await", "back"} :
        kpc' = [kpc EXCEPT ![k] = to]
  OBVIOUS
<1>3. /\ UNCHANGED <<queues, local, spc, tokens, done, cursor, pruneRequested, clock,
                     instance>>
      /\ woken' \in BOOLEAN
      /\ wpc' = wpc \/ (wpc = "blocked" /\ wpc' = "prune")
  BY WakeEffect DEF stop, EInv, TypeOK
<1>4. kpc'[k] = to /\ \A j \in Callers \ {k} : kpc'[j] = kpc[j]
  BY <1>1, <1>2
<1>5. TypeOK'
  <2>1. kpc' \in [Callers -> KPCs]
    BY <1>1, <1>2 DEF KPCs
  <2>2. /\ available_' \in BOOLEAN /\ stopping_' \in BOOLEAN /\ joining_' \in BOOLEAN
        /\ joined_' \in BOOLEAN /\ shutdownRequested' \in BOOLEAN
    BY DEF EInv, TypeOK, stop
  <2>3. wpc' = wpc \/ wpc' = "prune"
    BY <1>3
  <2>4. TypeOK /\ instance' \in BOOLEAN /\ woken' \in BOOLEAN
    BY <1>3 DEF EInv, TypeOK
  <2> QED BY <1>3, <2>1, <2>2, <2>3, <2>4, ShutdownTypes
<1>6. Parted' /\ Counted' /\ InHand' /\ Cancelling'
  BY <1>3, ShutdownFrame
<1>7. Lifetime'
  <2>1. (stopping_ => stopping_') /\ (~ available_ => ~ available_')
    BY DEF stop
  <2>2. kpc[Constructor] \in {"idle", "back"} => kpc'[Constructor] = kpc[Constructor]
    BY <1>1, <1>4
  <2>3. kpc'[Constructor] # "idle" \/ kpc[Constructor] = "idle"
    BY <1>1, <1>4
  <2> QED BY <1>3, <2>1, <2>2, <2>3 DEF EInv, Lifetime, queues
<1>8. Handshake'
  <2>1. \A j \in Requesters : kpc'[j] # "idle" => shutdownRequested'
    BY <1>1, <1>4 DEF EInv, Handshake, stop
  <2>2. kpc'[Constructor] # "load"
    BY <1>1, <1>4 DEF EInv, Handshake
  <2>3. instance' \/ wpc' = "none" \/ kpc'[Constructor] = "publish"
    BY <1>1, <1>3, <1>4 DEF EInv, Handshake
  <2>4. joined_' => wpc' = "exit"
    BY <1>3 DEF EInv, Handshake, stop
  <2>5. ASSUME wpc' \notin {"none", "exit"}, kpc'[Constructor] = "back"
        PROVE  \A j \in Requesters : kpc'[j] # "back"
    <3>1. wpc \notin {"none", "exit"} /\ ~ joined_
      BY <1>3, <2>5 DEF EInv, Handshake
    <3>2. to = "back" => k \in Requesters /\ kpc[k] = "load" /\ ~ instance
      BY <1>1, <1>2, <1>4, <3>1 DEF EInv, Handshake
    <3> QED BY <1>1, <1>4, <2>5, <3>1, <3>2 DEF EInv, Handshake
  <2> QED BY <2>1, <2>2, <2>3, <2>4, <2>5 DEF Handshake
<1> QED BY <1>5, <1>6, <1>7, <1>8 DEF EInv

-----------------------------------------------------------------------------
(* The theorems.                                                           *)

LEMMA InitEInv == Init => EInv
<1> SUFFICES ASSUME Init PROVE EInv
  OBVIOUS
<1> USE DEF Init
<1>1. <<>> \in Seq(Transfers) /\ Len(<<>>) = 0 /\ Range(<<>>) = {} /\ Once(<<>>)
  BY DEF Range, Once
<1>2. /\ Constructor \in Callers /\ Requesters \subseteq Callers
      /\ RetryLimit \in Nat /\ Window \in Nat
  BY EngineAssumption DEF Callers
<1>3. TypeOK
  <2>1. attempts \in [Transfers -> 0 .. RetryLimit]
    BY <1>2
  <2>2. /\ spc \in [Transfers -> {"new", "registered", "wake", "back"}]
        /\ kpc \in [Callers -> KPCs]
    BY DEF KPCs
  <2> QED BY <1>1, <2>1, <2>2 DEF TypeOK, KPCs
<1>4. Parted
  BY <1>1 DEF Parted
<1>5. Cardinality({}) = 0
  BY FS_EmptySet
<1>6. Counted
  BY <1>1, <1>2, <1>5 DEF Counted
<1>7. InHand /\ Lifetime /\ Handshake /\ Cancelling
  BY <1>1, <1>2 DEF InHand, Lifetime, Handshake, Cancelling
<1> QED BY <1>3, <1>4, <1>6, <1>7 DEF EInv

LEMMA StepEInv == EInv /\ [Next]_vars => EInv'
<1> SUFFICES ASSUME EInv, [Next]_vars PROVE EInv'
  OBVIOUS
<1>1. CASE Construct \/ PublishInstance \/ CheckShutdown
  BY <1>1, ConstructorStep
<1>2. ASSUME NEW t \in Transfers,
             \/ Register(t) \/ Submitter(t) \/ Cancel(t) \/ Fire(t) \/ Expire(t) \/ Due(t)
             \/ Retry(t) \/ Ended(t)
      PROVE  EInv'
  BY <1>2, RegisterStep, EnqueueStep, WakeForSubmitStep, CancelStep, FireStep, ClockStep,
     RetryStep, EndedStep DEF Submitter
<1>3. CASE Worker
  BY <1>3, MoveOnStep, CompletePrunedStep, SpliceStep, ProcessDelayedStep,
     ProcessPendingStep, StartTransferStep, CancelExpiredStep, StopTestStep, FlushStep
     DEF Worker
<1>4. ASSUME NEW k \in Callers, Stopper(k) \/ (k \in Requesters /\ RequestShutdown(k))
      PROVE  EInv'
  BY <1>4, CallerStep
<1>5. CASE UNCHANGED vars
  BY <1>5 DEF vars, queues, stop, tokens, clock, EInv, TypeOK, Parted, Once, Counted, InHand,
     HasRoom, Lifetime, Handshake, Cancelling
<1>6. Requesters \subseteq Callers
  BY DEF Callers
<1> QED BY <1>1, <1>2, <1>3, <1>4, <1>5, <1>6 DEF Next, Network

(* The inductive invariant.                                                 *)
THEOREM EngineInvariant == Spec => []EInv
<1> QED BY InitEInv, StepEInv, PTL DEF Spec

(* For any transfers, window and retry limit, no transfer is lost or held   *)
(* twice by submit(), the queues, retries, pruning and the stop; the two    *)
(* counters are exact and the handle window is kept.                        *)
THEOREM TransfersStayAccounted == Spec => []TransfersAccounted
<1>1. EInv => TransfersAccounted
  <2> SUFFICES ASSUME EInv PROVE TransfersAccounted
    OBVIOUS
  <2>1. ASSUME NEW t \in Transfers, spc[t] \in {"new", "registered"}
        PROVE  Holders(t) = {}
    BY <2>1 DEF EInv, Parted, Range, Holders
  <2>2. ASSUME NEW t \in Transfers, spc[t] \notin {"new", "registered"}
        PROVE  \E h \in Holders(t) : Holders(t) = {h}
    <3>1. t \in Range(pending_) \cup Range(delayed_) \cup active_ \cup local \cup done
      BY <2>2 DEF EInv, Parted, TypeOK
    <3>2. CASE t \in Range(pending_)
      <4>1. PICK i \in DOMAIN pending_ : pending_[i] = t
        BY <3>2 DEF Range
      <4>2. {j \in DOMAIN pending_ : pending_[j] = t} = {i}
        BY <4>1 DEF EInv, Parted, Once
      <4>3. /\ {j \in DOMAIN delayed_ : delayed_[j] = t} = {}
            /\ t \notin active_ \cup local \cup done
        BY <3>2 DEF EInv, Parted, Range
      <4>4. Holders(t) = {<<"pending", i>>}
        BY <4>2, <4>3 DEF Holders
      <4> QED BY <4>4
    <3>3. CASE t \in Range(delayed_)
      <4>1. PICK i \in DOMAIN delayed_ : delayed_[i] = t
        BY <3>3 DEF Range
      <4>2. {j \in DOMAIN delayed_ : delayed_[j] = t} = {i}
        BY <4>1 DEF EInv, Parted, Once
      <4>3. /\ {j \in DOMAIN pending_ : pending_[j] = t} = {}
            /\ t \notin active_ \cup local \cup done
        BY <3>3 DEF EInv, Parted, Range
      <4>4. Holders(t) = {<<"delayed", i>>}
        BY <4>2, <4>3 DEF Holders
      <4> QED BY <4>4
    <3>4. CASE t \in active_ \cup local \cup done
      <4>1. /\ {j \in DOMAIN pending_ : pending_[j] = t} = {}
            /\ {j \in DOMAIN delayed_ : delayed_[j] = t} = {}
        BY <3>4 DEF EInv, Parted, Range
      <4>2. Holders(t) = {<<name, 0>> : name \in {n \in {"active", "local", "done"} :
                            t \in [active |-> active_, local |-> local, done |-> done][n]}}
        BY <4>1 DEF Holders
      <4>3. PICK name \in {"active", "local", "done"} :
               {n \in {"active", "local", "done"} :
                  t \in [active |-> active_, local |-> local, done |-> done][n]} = {name}
        BY <3>4 DEF EInv, Parted
      <4>4. Holders(t) = {<<name, 0>>}
        BY <4>2, <4>3
      <4> QED BY <4>4
    <3> QED BY <3>1, <3>2, <3>3, <3>4
  <2> QED BY <2>1, <2>2 DEF EInv, Counted, TransfersAccounted
<1> QED BY <1>1, EngineInvariant, PTL

(* However construction and the requests for shutdown interleave, once the  *)
(* constructor and one of them are back the worker is over, nothing that    *)
(* was accepted is open and nothing will be accepted.                       *)
THEOREM NothingOutlives == Spec => []NothingOutlivesShutdown
<1>1. EInv => NothingOutlivesShutdown
  <2> SUFFICES ASSUME EInv, kpc[Constructor] = "back", NEW k \in Requesters, kpc[k] = "back"
               PROVE  /\ wpc \in {"none", "exit"}
                      /\ \A t \in Transfers : spc[t] \in {"wake", "back"} => t \in done
                      /\ stopping_ \/ ~ available_
    BY DEF NothingOutlivesShutdown
  <2>1. wpc \in {"none", "exit"}
    BY DEF EInv, Handshake
  <2>2. pending_ = <<>> /\ delayed_ = <<>> /\ active_ = {} /\ local = {}
    BY <2>1 DEF EInv, Lifetime, InHand
  <2>3. Range(<<>>) = {}
    BY DEF Range
  <2>4. \A t \in Transfers : spc[t] \in {"wake", "back"} => t \in done
    BY <2>2, <2>3 DEF EInv, Parted
  <2> QED BY <2>1, <2>4 DEF EInv, Lifetime
<1> QED BY <1>1, EngineInvariant, PTL

(* The request to prune of a cancellation that found its transfer queued    *)
(* stands whenever the worker rests.                                        *)
THEOREM CancellationStands == Spec => []CancellationNoticed
<1>1. EInv => CancellationNoticed
  BY DEF EInv, Cancelling, CancellationNoticed
<1> QED BY <1>1, EngineInvariant, PTL

-----------------------------------------------------------------------------
(* The cache files.                                                        *)

(* The marker is durable while body and header may disagree, and an update  *)
(* that found no marker started from a pair that belongs together; so does  *)
(* one that is about to remove the marker.                                  *)
Guarded == pc \in {"body", "bodySync", "header", "headerSync"} => disk["marker"] = {1}

StartedSafe ==
  pc \in {"marker", "markerSync", "body", "undo"} /\ ~ wasPresent => PairSafe

UndoOnlyFresh == pc = "undo" => ~ wasPresent

(* The new body is durable once the headers are written, the new headers    *)
(* once the marker may go.                                                  *)
Written ==
  /\ pc \in {"header", "headerSync", "remove"} => disk["body"] = {version}
  /\ pc = "headerSync" => visible["header"] = version
  /\ pc = "bodySync" => visible["body"] = version
  /\ pc = "markerSync" => visible["marker"] = 1
  /\ pc = "remove" => disk["header"] = {version}

StorageInv ==
  /\ StorageTypeOK /\ CrashConsistent /\ Guarded /\ StartedSafe /\ UndoOnlyFresh
  /\ Written /\ CompleteIsDurable

-----------------------------------------------------------------------------
(* A synchronised directory keeps what the process sees.                    *)
LEMMA SyncEffect ==
  ASSUME StorageTypeOK, UNCHANGED visible,
         disk' = [f \in Files |-> {visible[f]}] \/ UNCHANGED disk
  PROVE  /\ disk' \in [Files -> SUBSET Values]
         /\ \A f \in Files : visible'[f] \in disk'[f] /\ disk'[f] \subseteq disk[f]
BY DEF StorageTypeOK

(* A smaller choice of directory entries keeps what held for all of them.   *)
LEMMA ShrinkKeeps ==
  ASSUME \A f \in Files : disk'[f] \subseteq disk[f]
  PROVE  /\ PairSafe => PairSafe'
         /\ CrashConsistent => CrashConsistent'
BY DEF PairSafe, CrashConsistent, Files

(* Without a durable marker a crash-consistent pair belongs together, and a *)
(* pair that belongs together is crash-consistent with any marker.          *)
LEMMA SafeAndConsistent ==
  /\ PairSafe => CrashConsistent
  /\ CrashConsistent /\ 0 \in disk["marker"] => PairSafe
BY DEF PairSafe, CrashConsistent

LEMMA InitStorageInv == ASSUME StorageInit PROVE StorageInv
<1> USE DEF StorageInit
<1>1. StorageTypeOK
  <2>1. 0 \in Values
    BY VersionAssumption DEF Values
  <2> QED BY <2>1 DEF StorageTypeOK, PCs, Results
<1>2. CrashConsistent
  BY DEF CrashConsistent, Files
<1>3. PairSafe
  BY DEF PairSafe, Files
<1> QED BY <1>1, <1>2, <1>3 DEF StorageInv, Guarded, StartedSafe, UndoOnlyFresh, Written,
      CompleteIsDurable

LEMMA BeginStep == ASSUME StorageInv, Begin PROVE StorageInv'
<1> USE DEF Begin, StorageInv
<1>1. StorageTypeOK'
  <2>1. version' \in Values
    BY VersionAssumption DEF StorageTypeOK, Values
  <2>2. wasPresent' \in BOOLEAN
    BY Zenon DEF InvalidationPresent
  <2> QED BY <2>1, <2>2 DEF StorageTypeOK, PCs, Results
<1>2. PairSafe' = PairSafe /\ CrashConsistent' = CrashConsistent
  BY DEF PairSafe, CrashConsistent
<1>3. StartedSafe'
  <2>1. ~ wasPresent' => 0 \in disk["marker"]
    BY DEF InvalidationPresent, StorageTypeOK, Files
  <2> QED BY <1>2, <2>1, SafeAndConsistent DEF StartedSafe
<1>4. Guarded' /\ UndoOnlyFresh' /\ Written' /\ CompleteIsDurable'
  BY DEF Guarded, UndoOnlyFresh, Written, CompleteIsDurable
<1> QED BY <1>1, <1>2, <1>3, <1>4

LEMMA StayStep ==
  ASSUME StorageInv, \/ MarkerFails \/ BodyFails \/ UndoFails
                     \/ HeaderFails \/ RemoveFails \/ Kill
  PROVE  StorageInv'
<1> USE DEF StorageInv, MarkerFails, BodyFails, UndoFails,
      HeaderFails, RemoveFails, Kill, Return,
      ReturnBlind, Step, Restart
<1>1. UNCHANGED <<visible, disk>>
  OBVIOUS
<1>2. StorageTypeOK'
  BY <1>1 DEF StorageTypeOK, PCs, Results
<1>3. PairSafe' = PairSafe /\ CrashConsistent' = CrashConsistent
  BY <1>1 DEF PairSafe, CrashConsistent
<1>4. StartedSafe' /\ UndoOnlyFresh'
  BY <1>3 DEF StartedSafe, UndoOnlyFresh
<1>5. Guarded' /\ Written' /\ CompleteIsDurable'
  BY <1>1 DEF Guarded, Written, CompleteIsDurable
<1> QED BY <1>2, <1>3, <1>4, <1>5

LEMMA WriteStep ==
  ASSUME StorageInv,
         \/ WriteMarker \/ WriteBody \/ WriteHeader
         \/ Undone \/ Removed
  PROVE  StorageInv'
<1> USE DEF StorageInv, WriteMarker, WriteBody, WriteHeader,
      Undone, Removed, SetEntry, Step, Return, ReturnBlind
<1>1. StorageTypeOK'
  <2>1. /\ visible' \in [Files -> Values] /\ disk' \in [Files -> SUBSET Values]
        /\ \A f \in Files : visible'[f] \in disk'[f]
    BY VersionAssumption DEF StorageTypeOK, Files, Values
  <2>2. /\ pc' \in PCs /\ result' \in Results /\ (pc' # "idle" => result' = "none")
        /\ UNCHANGED <<version, wasPresent, before>>
    BY DEF StorageTypeOK, PCs, Results
  <2>3. blind' \in BOOLEAN
    BY DEF StorageTypeOK
  <2> QED BY <2>1, <2>2, <2>3 DEF StorageTypeOK
<1>2. ASSUME WriteMarker PROVE CrashConsistent' /\ StartedSafe'
  <2>1. disk'["body"] = disk["body"] /\ disk'["header"] = disk["header"]
        /\ disk'["marker"] = disk["marker"] \cup {1}
    BY <1>2 DEF StorageTypeOK, Files
  <2> QED BY <1>2, <2>1 DEF CrashConsistent, PairSafe, StartedSafe
<1>3. ASSUME WriteBody \/ WriteHeader
      PROVE  CrashConsistent' /\ StartedSafe'
  <2>1. disk'["marker"] = {1}
    BY <1>3 DEF StorageTypeOK, Files, Guarded
  <2> QED BY <1>3, <2>1 DEF CrashConsistent, StartedSafe
<1>4. ASSUME Undone \/ Removed PROVE CrashConsistent' /\ StartedSafe'
  <2>1. disk'["body"] = disk["body"] /\ disk'["header"] = disk["header"]
    BY <1>4 DEF StorageTypeOK, Files
  <2>2. PairSafe
    BY <1>4 DEF StartedSafe, UndoOnlyFresh, Written, PairSafe
  <2> QED BY <1>4, <2>1, <2>2, SafeAndConsistent
      DEF CrashConsistent, PairSafe, StartedSafe
<1>5. Guarded' /\ UndoOnlyFresh' /\ Written' /\ CompleteIsDurable'
  BY DEF Guarded, UndoOnlyFresh, Written, CompleteIsDurable, StorageTypeOK, Files
<1> QED BY <1>1, <1>2, <1>3, <1>4, <1>5

LEMMA SyncStep ==
  ASSUME StorageInv,
         \/ MarkerSynced \/ MarkerUnsynced \/ BodySynced
         \/ BodyUnsynced \/ HeaderSynced \/ HeaderUnsynced
  PROVE  StorageInv'
<1> USE DEF StorageInv, MarkerSynced, MarkerUnsynced, BodySynced,
      BodyUnsynced, HeaderSynced, HeaderUnsynced,
      SyncDirectory, SyncFails, Step, Return, ReturnBlind
<1>1. /\ disk' \in [Files -> SUBSET Values] /\ UNCHANGED visible
      /\ \A f \in Files : visible'[f] \in disk'[f] /\ disk'[f] \subseteq disk[f]
  BY SyncEffect
<1>2. StorageTypeOK'
  BY <1>1 DEF StorageTypeOK, PCs, Results
<1>3. CrashConsistent' /\ (PairSafe => PairSafe')
  BY <1>1, ShrinkKeeps
<1>4. StartedSafe' /\ UndoOnlyFresh'
  BY <1>3 DEF StartedSafe, UndoOnlyFresh
<1>5. ASSUME MarkerSynced PROVE Guarded'
  <2>1. visible["marker"] = 1
    BY <1>5 DEF Written
  <2> QED BY <1>5, <2>1 DEF Guarded, Files
<1>6. Guarded' /\ Written' /\ CompleteIsDurable'
  BY <1>1, <1>5 DEF Guarded, Written, CompleteIsDurable, Files, StorageTypeOK
<1> QED BY <1>2, <1>3, <1>4, <1>6

LEMMA PowerStep == ASSUME StorageInv, PowerFailure PROVE StorageInv'
<1> USE DEF StorageInv, PowerFailure, Restart
<1>1. /\ visible' \in [Files -> Values]
      /\ disk' \in [Files -> SUBSET Values]
      /\ \A f \in Files : visible'[f] \in disk'[f] /\ disk'[f] \subseteq disk[f]
  BY DEF StorageTypeOK
<1>2. StorageTypeOK'
  BY <1>1 DEF StorageTypeOK, PCs, Results
<1>3. CrashConsistent'
  BY <1>1, ShrinkKeeps
<1>4. Guarded' /\ StartedSafe' /\ UndoOnlyFresh' /\ Written' /\ CompleteIsDurable'
  BY DEF Guarded, StartedSafe, UndoOnlyFresh, Written, CompleteIsDurable
<1> QED BY <1>2, <1>3, <1>4

(* The inductive invariant holds of every behaviour: each step of           *)
(* updateCacheFiles(), a kill and a power failure keep it.                  *)
THEOREM StorageInvHolds == StorageSpec => []StorageInv
<1>1. StorageInit => StorageInv
  BY InitStorageInv
<1>2. StorageInv /\ [StorageNext]_storage => StorageInv'
  <2> SUFFICES ASSUME StorageInv, [StorageNext]_storage PROVE StorageInv'
    OBVIOUS
  <2>1. CASE UNCHANGED storage
    BY <2>1 DEF storage, StorageInv, StorageTypeOK, CrashConsistent, Guarded,
       StartedSafe, UndoOnlyFresh, Written, CompleteIsDurable, PairSafe
  <2>2. CASE StorageNext
    BY <2>2, BeginStep, StayStep, WriteStep, SyncStep, PowerStep DEF StorageNext
  <2> QED BY <2>1, <2>2
<1> QED BY <1>1, <1>2, PTL DEF StorageSpec

(* Whatever updateCacheFiles() was doing when the machine stopped, cached   *)
(* headers that can be read afterwards belong to the cached body.           *)
THEOREM NeverPairsStaleHeaders == StorageSpec => []CrashConsistent
<1>1. StorageInv => CrashConsistent
  BY DEF StorageInv
<1> QED BY <1>1, StorageInvHolds, PTL

(* A Complete update survives every later power failure until the next      *)
(* update begins.                                                           *)
THEOREM CompleteSurvives == StorageSpec => []CompleteIsDurable
<1>1. StorageInv => CompleteIsDurable
  BY DEF StorageInv
<1> QED BY <1>1, StorageInvHolds, PTL

(* Every variable keeps its type, and an update with a result is over.      *)
THEOREM StorageTypes == StorageSpec => []StorageTypeOK
<1>1. StorageInv => StorageTypeOK
  BY DEF StorageInv
<1> QED BY <1>1, StorageInvHolds, PTL

-----------------------------------------------------------------------------
(* What the caller is told about the files.                                 *)

(* What each step of an update has left visible, compared with what was     *)
(* there when it began.                                                     *)
SameFiles == visible["body"] = before["body"] /\ visible["header"] = before["header"]

Progress ==
  /\ pc = "marker" => visible = before
  /\ pc \in {"markerSync", "body", "undo"} => SameFiles /\ visible["marker"] = 1
  /\ pc \in {"markerSync", "body", "undo"} /\ ~ wasPresent => before["marker"] = 0
  /\ pc = "marker" /\ ~ wasPresent => before["marker"] = 0
  /\ pc \in {"bodySync", "header", "headerSync", "remove"} =>
       visible["body"] = version /\ visible["marker"] = 1
  /\ pc = "remove" => visible["header"] = version

(* Beginning an update remembers what is visible and forgets the last       *)
(* result.                                                                  *)
LEMMA BeginHonest == ASSUME StorageInv, Begin PROVE Progress' /\ ResultHonest'
<1>1. Progress'
  <2>1. ~ wasPresent' => visible["marker"] = 0
    BY DEF Begin, InvalidationPresent
  <2> QED BY <2>1 DEF Begin, Progress, SameFiles
<1>2. ResultHonest'
  BY DEF Begin, ResultHonest
<1> QED BY <1>1, <1>2

(* A step that goes on has no result yet.                                   *)
LEMMA GoOnHonest ==
  ASSUME StorageInv, Progress,
         \/ WriteMarker \/ MarkerSynced \/ WriteBody \/ BodySynced
         \/ WriteHeader \/ HeaderSynced \/ (BodyFails /\ ~ wasPresent)
  PROVE  Progress' /\ ResultHonest'
<1> USE DEF WriteMarker, MarkerSynced, WriteBody, BodySynced,
      WriteHeader, HeaderSynced, BodyFails,
      SetEntry, SyncDirectory, Step
<1>1. Progress'
  BY DEF Progress, SameFiles, StorageInv, StorageTypeOK, Files, Written
<1>2. result' = "none"
  BY DEF StorageInv, StorageTypeOK
<1> QED BY <1>1, <1>2 DEF ResultHonest

(* A step that returns says what is visible.                                *)
LEMMA ReturnHonest ==
  ASSUME StorageInv, Progress,
         \/ MarkerFails \/ MarkerUnsynced \/ (BodyFails /\ wasPresent)
         \/ Undone \/ UndoFails \/ BodyUnsynced \/ HeaderFails
         \/ HeaderUnsynced \/ Removed \/ RemoveFails
  PROVE  Progress' /\ ResultHonest'
<1> USE DEF MarkerFails, MarkerUnsynced, BodyFails, Undone,
      UndoFails, BodyUnsynced, HeaderFails, HeaderUnsynced,
      Removed, RemoveFails, SetEntry, SyncFails, Return,
      ReturnBlind
<1>1. Progress'
  BY DEF Progress
<1>2. visible \in [Files -> Values] /\ before \in [Files -> Values]
  BY DEF StorageInv, StorageTypeOK
<1>3. CASE MarkerFails
  <2>1. result' \in {"Unchanged", "UnchangedHeadersInvalidated"} /\ visible' = before'
    BY <1>3 DEF Progress
  <2>2. result' = "UnchangedHeadersInvalidated" => blind' \/ visible'["marker"] # 0
    BY <1>3 DEF InvalidationPresent
  <2> QED BY <1>1, <2>1, <2>2 DEF ResultHonest, Readable
<1>4. CASE MarkerUnsynced \/ (BodyFails /\ wasPresent) \/ UndoFails
  <2>1. /\ result' = "UnchangedHeadersInvalidated" /\ ~ blind'
        /\ visible'["body"] = before'["body"] /\ visible'["marker"] = 1
    BY <1>4 DEF Progress, SameFiles
  <2> QED BY <1>1, <2>1 DEF ResultHonest, Readable
<1>5. CASE Undone
  <2>1. result' = "Unchanged" /\ before'["marker"] = 0
    BY <1>5 DEF Progress, StorageInv, UndoOnlyFresh
  <2>2. /\ visible'["marker"] = 0 /\ visible'["body"] = before'["body"]
        /\ visible'["header"] = before'["header"]
    BY <1>2, <1>5 DEF Progress, SameFiles, Files
  <2> QED BY <1>1, <2>1, <2>2 DEF ResultHonest, Readable
<1>6. CASE BodyUnsynced \/ HeaderFails \/ HeaderUnsynced
      \/ RemoveFails
  <2>1. result' \in {"HeadersInvalidated", "BodyCommittedUnsynced"}
        /\ visible'["body"] = version' /\ visible'["marker"] = 1
    BY <1>6 DEF Progress
  <2> QED BY <1>1, <2>1 DEF ResultHonest, Readable
<1>7. CASE Removed
  <2>1. result' = "Complete" /\ visible'["body"] = version'
        /\ visible'["header"] = version' /\ visible'["marker"] = 0
    BY <1>2, <1>7 DEF Progress, Files
  <2> QED BY <1>1, <2>1 DEF ResultHonest, Readable
<1> QED BY <1>3, <1>4, <1>5, <1>6, <1>7

(* A restart leaves no update to report on.                                 *)
LEMMA RestartHonest ==
  ASSUME Kill \/ PowerFailure PROVE Progress' /\ ResultHonest'
BY DEF Kill, PowerFailure, Restart, Progress, ResultHonest

(* The CacheUpdateResult that finalizeCached() logs is true of the files:   *)
(* "unchanged" can be read as before, a committed body is the new one, and  *)
(* headers called invalidated cannot be read, except after a marker that    *)
(* could be neither written nor inspected, when everything is as before.    *)
THEOREM ResultTrue == StorageSpec => []ResultHonest
<1>1. StorageInit => Progress /\ ResultHonest
  BY DEF StorageInit, Progress, ResultHonest
<1>2. StorageInv /\ Progress /\ ResultHonest /\ [StorageNext]_storage
      => Progress' /\ ResultHonest'
  <2> SUFFICES ASSUME StorageInv, Progress, ResultHonest, [StorageNext]_storage
               PROVE  Progress' /\ ResultHonest'
    OBVIOUS
  <2>1. CASE UNCHANGED storage
    BY <2>1 DEF storage, Progress, SameFiles, ResultHonest, Readable
  <2>2. CASE StorageNext
    BY <2>2, BeginHonest, GoOnHonest, ReturnHonest, RestartHonest DEF StorageNext
  <2> QED BY <2>1, <2>2
<1> QED BY <1>1, <1>2, StorageInvHolds, PTL DEF StorageSpec
=============================================================================
