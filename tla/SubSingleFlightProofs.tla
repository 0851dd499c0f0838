------------------------ MODULE SubSingleFlightProofs ------------------------
(***************************************************************************)
(* Proofs for SubSingleFlight: for any number of requests and keys, the    *)
(* bookkeeping of the shared calls is right, work goes on only while       *)
(* somebody wants it, and the protocol implements Coalescing.              *)
(***************************************************************************)
EXTENDS SubSingleFlight, FiniteSetTheorems, TLAPS

Cancelling == {"detach", "stop work", "retire", "call"}

(* Where a request's thread is decides what it knows about its call.        *)
Thread(r) ==
  /\ pc[r] \in {"new", "standalone"} => call[r] = NoCall /\ claim[r] = "free"
  /\ pc[r] \in {"new", "standalone", "peek", "register", "own"} => ~ registered[r]
  /\ pc[r] \in {"peek", "register", "own"} => claim[r] = "free"
  /\ pc[r] = "lookup" => claim[r] = "taken" \/ (claim[r] = "free" /\ ~ registered[r])
  /\ pc[r] \in {"own", "submit"} => call[r] = r
  /\ pc[r] \in {"peek", "register", "attach", "retry", "reclaim", "ready", "answer"}
       => call[r] # NoCall
  /\ call[r] = NoCall => claim[r] = "free" /\ ~ registered[r]
  /\ pc[r] \in {"retry", "ready"} => phase[call[r]] # "Accepting"
  /\ pc[r] \in {"ready", "answer"} => result[call[r]]
  /\ pc[r] = "answer" => claim[r] = "deliver"

(* Who has claimed a completion, and what for.                              *)
Claim(r) ==
  /\ claim[r] \in Cancelling =>
       /\ ended[r]
       /\ pc[r] \in {"attach", "retry", "reclaim", "ready", "submit", "returned"}
  /\ claim[r] \in {"stop work", "retire"} => phase[call[r]] = "Abandoned"
  /\ claim[r] = "deliver" => /\ phase[call[r]] \in {"Publishing", "Done"}
                             /\ pc[r] \in {"answer", "returned"}
                             /\ pc[r] = "returned" => phase[call[r]] = "Done"

(* A request is answered exactly when its completion is taken for good, or  *)
(* it never had a call.                                                     *)
Answered(r) ==
  /\ answered[r] = IF \/ claim[r] = "taken" /\ pc[r] # "lookup"
                      \/ call[r] = NoCall /\ pc[r] = "returned" THEN 1 ELSE 0
  /\ answered[r] = 0 => answer[r] = None

(* A request nobody has claimed waits with its call.                        *)
Held(r) ==
  /\ (pc[r] = "returned" /\ call[r] # NoCall /\ claim[r] = "free")
       => r \in consumers[call[r]] \cup todo[call[r]]
  /\ (pc[r] \in {"own", "submit"} /\ claim[r] = "free") => r \in consumers[r]
  /\ waiting[r] => /\ pc[r] = "returned" /\ call[r] # NoCall
                   /\ claim[r] \in {"free", "detach", "deliver"}

(* A call belongs to the request it is named after, and the step of its     *)
(* publisher decides how far it is.                                         *)
Stage(c) ==
  /\ (phase[c] # "unused") = (call[c] = c)
  /\ phase[c] # "unused" => /\ pc[c] \in {"own", "submit", "returned"}
                            /\ (pub[c] # None) = (pc[c] = "returned")
  /\ pub[c] # None => phase[c] # "unused"
  /\ pub[c] \in {None, "queued", "publish"} =>
       phase[c] \in {"unused", "Accepting", "Abandoned"}
  /\ pub[c] = "publish" => outcome[c] = "success"
  /\ pub[c] = "store" => phase[c] = "Publishing"
  /\ pub[c] = "swap" => phase[c] \in {"Accepting", "Publishing", "Abandoned"}
  /\ pub[c] \in {"erase", "deliver"} => phase[c] \in {"Done", "Abandoned"}
  /\ result[c] = (phase[c] = "Publishing" \/ (phase[c] = "Done" /\ outcome[c] = "success"))
  /\ pub[c] = "swap" /\ phase[c] = "Accepting" => outcome[c] = "failure"
  /\ phase[c] = "Publishing" => outcome[c] = "success"
  /\ phase[c] = "Done" => outcome[c] \in {"success", "failure"}
  /\ workEnded[c] => phase[c] = "Abandoned"
  /\ released[c] => phase[c] # "unused"
  /\ pub[c] = "deliver" => released[c]

(* Where the consumers of a call are.                                       *)
Members(c) ==
  /\ phase[c] = "Accepting" => inflight[Key[c]] = c /\ consumers[c] # {}
  /\ phase[c] \in {"unused", "Abandoned", "Done"} => consumers[c] = {}
  /\ phase[c] # "Done" => todo[c] = {}
  /\ \A r \in consumers[c] : /\ call[r] = c /\ claim[r] \in {"free", "detach"}
                             /\ pc[r] \in {"own", "submit", "returned"}
  /\ \A r \in todo[c] : /\ call[r] = c /\ pc[r] = "returned"
                        /\ claim[r] \in {"free", "detach", "call", "taken"}

(* The registry holds calls of its keys that have not been retired.         *)
Entry(k) ==
  inflight[k] # NoCall => /\ Key[inflight[k]] = k
                          /\ phase[inflight[k]] # "unused"
                          /\ pub[inflight[k]] # "deliver"

(* The call of a request exists.                                            *)
Exists(r) == call[r] # NoCall => phase[call[r]] # "unused"

Owners == {c \in Requests : phase[c] # "unused" /\ ~ released[c]}
Followers == {r \in Requests : waiting[r]}

Each ==
  /\ \A r \in Requests : Thread(r) /\ Claim(r) /\ Answered(r) /\ Held(r) /\ Exists(r)
  /\ \A c \in Requests : Stage(c) /\ Members(c)
  /\ \A k \in Keys : Entry(k)

IInv ==
  /\ TypeOK /\ Each
  /\ activeOwners = Cardinality(Owners) /\ waitingFollowers = Cardinality(Followers)

-----------------------------------------------------------------------------
(* Adding and removing one request changes a count of requests by one.      *)
LEMMA OneMore ==
  ASSUME NEW S \in SUBSET Requests, NEW r \in Requests, r \notin S
  PROVE  Cardinality(S \cup {r}) = Cardinality(S) + 1
BY RequestAssumption, FS_Subset, FS_AddElement

LEMMA OneLess ==
  ASSUME NEW S \in SUBSET Requests, NEW r \in S
  PROVE  /\ Cardinality(S \ {r}) = Cardinality(S) - 1
         /\ Cardinality(S) \in Nat \ {0}
<1>1. IsFiniteSet(S)
  BY RequestAssumption, FS_Subset
<1>2. Cardinality(S \ {r}) = Cardinality(S) - 1
  BY <1>1, FS_RemoveElement
<1>3. Cardinality(S) \in Nat /\ Cardinality(S) # 0
  BY <1>1, FS_CardinalityType, FS_EmptySet
<1> QED BY <1>2, <1>3

LEMMA InitIInv == Init => IInv
<1> SUFFICES ASSUME Init PROVE IInv
  OBVIOUS
<1>1. TypeOK
  BY DEF Init, TypeOK, Steps, Claims, Phases, Publishing, None
<1>2. Each
  BY RequestAssumption DEF Init, Each, Thread, Claim, Answered, Held, Exists, Stage,
     Members, Entry, None, Cancelling
<1>3. Owners = {} /\ Followers = {} /\ activeOwners = 0 /\ waitingFollowers = 0
  BY DEF Init, Owners, Followers
<1> QED BY <1>1, <1>2, <1>3, FS_EmptySet DEF IInv

-----------------------------------------------------------------------------
(* The thread of a request.                                                 *)

(* A request that has not got a call of its own nor waits with one is in no *)
(* list of consumers.                                                       *)
LEMMA Outside ==
  ASSUME IInv, NEW r \in Requests, pc[r] \notin {"own", "submit", "returned"}
  PROVE  /\ phase[r] = "unused" /\ pub[r] = None /\ call[r] # r /\ ~ waiting[r]
         /\ \A c \in Requests : r \notin consumers[c] /\ r \notin todo[c]
         /\ ~ released[r]
BY DEF IInv, TypeOK, Each, Stage, Members, Held

(* The gauges follow detachAsyncSubRequestConsumer() and                    *)
(* releaseAsyncInflightOwner(), and do not go below zero.                   *)
LEMMA FollowerLeaves ==
  ASSUME IInv, NEW r \in Requests, waiting' = [waiting EXCEPT ![r] = FALSE],
         waitingFollowers' = IF waiting[r] THEN waitingFollowers - 1 ELSE waitingFollowers
  PROVE  waitingFollowers' \in Nat /\ waitingFollowers' = Cardinality(Followers')
<1>1. CASE ~ waiting[r]
  <2>1. Followers' = Followers
    BY <1>1 DEF Followers, IInv, TypeOK
  <2> QED BY <1>1, <2>1 DEF IInv, TypeOK
<1>2. CASE waiting[r]
  <2>1. Followers' = Followers \ {r} /\ r \in Followers /\ Followers \in SUBSET Requests
    BY <1>2 DEF Followers, IInv, TypeOK
  <2>2. Cardinality(Followers \ {r}) = Cardinality(Followers) - 1 /\ Cardinality(Followers) \in Nat \ {0}
    BY <2>1, OneLess
  <2> QED BY <1>2, <2>1, <2>2 DEF IInv
<1> QED BY <1>1, <1>2

LEMMA OwnerLeaves ==
  ASSUME IInv, NEW c \in Requests, phase[c] # "unused", ReleaseOwner(c),
         UNCHANGED phase
  PROVE  activeOwners' \in Nat /\ activeOwners' = Cardinality(Owners')
<1> USE DEF ReleaseOwner
<1>1. CASE released[c]
  <2>1. Owners' = Owners
    BY <1>1 DEF Owners, IInv, TypeOK
  <2> QED BY <1>1, <2>1 DEF IInv, TypeOK
<1>2. CASE ~ released[c]
  <2>1. Owners' = Owners \ {c} /\ c \in Owners /\ Owners \in SUBSET Requests
    BY <1>2 DEF Owners, IInv, TypeOK
  <2>2. Cardinality(Owners \ {c}) = Cardinality(Owners) - 1 /\ Cardinality(Owners) \in Nat \ {0}
    BY <2>1, OneLess
  <2> QED BY <1>2, <2>1, <2>2 DEF IInv
<1> QED BY <1>1, <1>2


LEMMA AnswerEarlyStep ==
  ASSUME IInv, NEW r \in Requests, AnswerEarly(r)
  PROVE  IInv'
<1> USE RequestAssumption DEF IInv, AnswerEarly, Invoke, requestVars, callVars,
   sharedVars, None, Cancelling
<1>0. /\ phase[r] = "unused" /\ pub[r] = None /\ call[r] = NoCall /\ ~ waiting[r]
      /\ \A c \in Requests : r \notin consumers[c] /\ r \notin todo[c]
      /\ claim[r] = "free" /\ ~ registered[r] /\ answered[r] = 0
  BY Outside DEF Each, Thread, Answered, TypeOK
<1>1. TypeOK'
  <2>1. pc' \in [Requests -> Steps]
    BY DEF TypeOK, Steps
  <2>2. answer' \in [Requests -> Answers \cup {None}] /\ answered' \in [Requests -> Nat]
    BY DEF TypeOK, Answers
  <2> QED BY <2>1, <2>2 DEF TypeOK
<1>2. ASSUME NEW q \in Requests
      PROVE  (Thread(q) /\ Claim(q) /\ Answered(q) /\ Held(q) /\ Exists(q))'
  <2>0. Thread(q) /\ Claim(q) /\ Answered(q) /\ Held(q) /\ Exists(q)
    BY DEF Each
  <2>1. Thread(q)'
    BY <1>0, <2>0 DEF TypeOK, Thread, Exists
  <2>2. Claim(q)'
    BY <1>0, <2>0 DEF TypeOK, Thread, Claim
  <2>3. Answered(q)'
    <3>1. CASE q # r
      BY <2>0, <3>1 DEF TypeOK, Answered
    <3>2. CASE q = r
      BY <1>0, <2>0, <3>2 DEF TypeOK, Answered
    <3> QED BY <3>1, <3>2
  <2>4. Held(q)'
    BY <1>0, <2>0 DEF TypeOK, Thread, Claim, Held
  <2>5. Exists(q)'
    BY <1>0, <2>0 DEF TypeOK, Exists
  <2> QED BY <2>1, <2>2, <2>3, <2>4, <2>5
<1>3. ASSUME NEW d \in Requests PROVE (Stage(d) /\ Members(d))'
  <2>0. Stage(d) /\ Members(d)
    BY DEF Each
  <2>1. Stage(d)'
    BY <1>0, <2>0 DEF TypeOK, Stage
  <2>2. Members(d)'
    BY <1>0, <2>0 DEF TypeOK, Members
  <2> QED BY <2>1, <2>2
<1>4. ASSUME NEW k \in Keys PROVE Entry(k)'
  BY <1>0 DEF TypeOK, Each, Entry
<1>5. activeOwners' = Cardinality(Owners')
  BY <1>0 DEF Owners
<1>6. waitingFollowers' = Cardinality(Followers')
  BY <1>0 DEF Followers
<1> QED BY <1>1, <1>2, <1>3, <1>4, <1>5, <1>6 DEF IInv, Each

LEMMA SubmitStandaloneStep ==
  ASSUME IInv, NEW r \in Requests, SubmitStandalone(r)
  PROVE  IInv'
<1> USE RequestAssumption DEF IInv, SubmitStandalone, Invoke, requestVars, callVars,
   sharedVars, None, Cancelling
<1>0. /\ phase[r] = "unused" /\ pub[r] = None /\ call[r] = NoCall /\ ~ waiting[r]
      /\ \A c \in Requests : r \notin consumers[c] /\ r \notin todo[c]
      /\ claim[r] = "free" /\ ~ registered[r] /\ answered[r] = 0
  BY Outside DEF Each, Thread, Answered, TypeOK
<1>1. TypeOK'
  <2>1. pc' \in [Requests -> Steps]
    BY DEF TypeOK, Steps
  <2>2. answer' \in [Requests -> Answers \cup {None}] /\ answered' \in [Requests -> Nat]
    BY DEF TypeOK, Answers
  <2> QED BY <2>1, <2>2 DEF TypeOK
<1>2. ASSUME NEW q \in Requests
      PROVE  (Thread(q) /\ Claim(q) /\ Answered(q) /\ Held(q) /\ Exists(q))'
  <2>0. Thread(q) /\ Claim(q) /\ Answered(q) /\ Held(q) /\ Exists(q)
    BY DEF Each
  <2>1. Thread(q)'
    BY <1>0, <2>0 DEF TypeOK, Thread, Exists
  <2>2. Claim(q)'
    BY <1>0, <2>0 DEF TypeOK, Thread, Claim
  <2>3. Answered(q)'
    <3>1. CASE q # r
      BY <2>0, <3>1 DEF TypeOK, Answered
    <3>2. CASE q = r
      BY <1>0, <2>0, <3>2 DEF TypeOK, Answered
    <3> QED BY <3>1, <3>2
  <2>4. Held(q)'
    BY <1>0, <2>0, ZenonT(40) DEF TypeOK, Thread, Claim, Held
  <2>5. Exists(q)'
    BY <1>0, <2>0 DEF TypeOK, Exists
  <2> QED BY <2>1, <2>2, <2>3, <2>4, <2>5
<1>3. ASSUME NEW d \in Requests PROVE (Stage(d) /\ Members(d))'
  <2>0. Stage(d) /\ Members(d)
    BY DEF Each
  <2>1. Stage(d)'
    BY <1>0, <2>0 DEF TypeOK, Stage
  <2>2. Members(d)'
    BY <1>0, <2>0 DEF TypeOK, Members
  <2> QED BY <2>1, <2>2
<1>4. ASSUME NEW k \in Keys PROVE Entry(k)'
  BY <1>0 DEF TypeOK, Each, Entry
<1>5. activeOwners' = Cardinality(Owners')
  BY <1>0 DEF Owners
<1>6. waitingFollowers' = Cardinality(Followers')
  BY <1>0 DEF Followers
<1> QED BY <1>1, <1>2, <1>3, <1>4, <1>5, <1>6 DEF IInv, Each

LEMMA SettleStandaloneStep ==
  ASSUME IInv, NEW r \in Requests, SettleStandalone(r)
  PROVE  IInv'
<1> USE RequestAssumption DEF IInv, SettleStandalone, Invoke, requestVars, callVars,
   sharedVars, None, Cancelling
<1>0. /\ phase[r] = "unused" /\ pub[r] = None /\ call[r] = NoCall /\ ~ waiting[r]
      /\ \A c \in Requests : r \notin consumers[c] /\ r \notin todo[c]
      /\ claim[r] = "free" /\ ~ registered[r] /\ answered[r] = 0
  BY Outside DEF Each, Thread, Answered, TypeOK
<1>1. TypeOK'
  <2>1. pc' \in [Requests -> Steps]
    BY DEF TypeOK, Steps
  <2>2. answer' \in [Requests -> Answers \cup {None}] /\ answered' \in [Requests -> Nat]
    BY DEF TypeOK, Answers
  <2> QED BY <2>1, <2>2 DEF TypeOK
<1>2. ASSUME NEW q \in Requests
      PROVE  (Thread(q) /\ Claim(q) /\ Answered(q) /\ Held(q) /\ Exists(q))'
  <2>0. Thread(q) /\ Claim(q) /\ Answered(q) /\ Held(q) /\ Exists(q)
    BY DEF Each
  <2>1. Thread(q)'
    BY <1>0, <2>0 DEF TypeOK, Thread, Exists
  <2>2. Claim(q)'
    BY <1>0, <2>0 DEF TypeOK, Thread, Claim
  <2>3. Answered(q)'
    <3>1. CASE q # r
      BY <2>0, <3>1 DEF TypeOK, Answered
    <3>2. CASE q = r
      BY <1>0, <2>0, <3>2 DEF TypeOK, Answered
    <3> QED BY <3>1, <3>2
  <2>4. Held(q)'
    BY <1>0, <2>0 DEF TypeOK, Thread, Claim, Held
  <2>5. Exists(q)'
    BY <1>0, <2>0 DEF TypeOK, Exists
  <2> QED BY <2>1, <2>2, <2>3, <2>4, <2>5
<1>3. ASSUME NEW d \in Requests PROVE (Stage(d) /\ Members(d))'
  <2>0. Stage(d) /\ Members(d)
    BY DEF Each
  <2>1. Stage(d)'
    BY <1>0, <2>0 DEF TypeOK, Stage
  <2>2. Members(d)'
    BY <1>0, <2>0 DEF TypeOK, Members
  <2> QED BY <2>1, <2>2
<1>4. ASSUME NEW k \in Keys PROVE Entry(k)'
  BY <1>0 DEF TypeOK, Each, Entry
<1>5. activeOwners' = Cardinality(Owners')
  BY <1>0 DEF Owners
<1>6. waitingFollowers' = Cardinality(Followers')
  BY <1>0 DEF Followers
<1> QED BY <1>1, <1>2, <1>3, <1>4, <1>5, <1>6 DEF IInv, Each

LEMMA MissCacheStep ==
  ASSUME IInv, NEW r \in Requests, MissCache(r)
  PROVE  IInv'
<1> USE RequestAssumption DEF IInv, MissCache, Invoke, requestVars, callVars,
   sharedVars, None, Cancelling
<1>0. /\ phase[r] = "unused" /\ pub[r] = None /\ call[r] = NoCall /\ ~ waiting[r]
      /\ \A c \in Requests : r \notin consumers[c] /\ r \notin todo[c]
      /\ claim[r] = "free" /\ ~ registered[r] /\ answered[r] = 0
  BY Outside DEF Each, Thread, Answered, TypeOK
<1>1. TypeOK'
  <2>1. pc' \in [Requests -> Steps]
    BY DEF TypeOK, Steps
  <2>2. answer' \in [Requests -> Answers \cup {None}] /\ answered' \in [Requests -> Nat]
    BY DEF TypeOK, Answers
  <2> QED BY <2>1, <2>2 DEF TypeOK
<1>2. ASSUME NEW q \in Requests
      PROVE  (Thread(q) /\ Claim(q) /\ Answered(q) /\ Held(q) /\ Exists(q))'
  <2>0. Thread(q) /\ Claim(q) /\ Answered(q) /\ Held(q) /\ Exists(q)
    BY DEF Each
  <2>1. Thread(q)'
    BY <1>0, <2>0 DEF TypeOK, Thread, Exists
  <2>2. Claim(q)'
    BY <1>0, <2>0 DEF TypeOK, Thread, Claim
  <2>3. Answered(q)'
    <3>1. CASE q # r
      BY <2>0, <3>1 DEF TypeOK, Answered
    <3>2. CASE q = r
      BY <1>0, <2>0, <3>2 DEF TypeOK, Answered
    <3> QED BY <3>1, <3>2
  <2>4. Held(q)'
    BY <1>0, <2>0 DEF TypeOK, Thread, Claim, Held
  <2>5. Exists(q)'
    BY <1>0, <2>0 DEF TypeOK, Exists
  <2> QED BY <2>1, <2>2, <2>3, <2>4, <2>5
<1>3. ASSUME NEW d \in Requests PROVE (Stage(d) /\ Members(d))'
  <2>0. Stage(d) /\ Members(d)
    BY DEF Each
  <2>1. Stage(d)'
    BY <1>0, <2>0 DEF TypeOK, Stage
  <2>2. Members(d)'
    BY <1>0, <2>0 DEF TypeOK, Members
  <2> QED BY <2>1, <2>2
<1>4. ASSUME NEW k \in Keys PROVE Entry(k)'
  BY <1>0 DEF TypeOK, Each, Entry
<1>5. activeOwners' = Cardinality(Owners')
  BY <1>0 DEF Owners
<1>6. waitingFollowers' = Cardinality(Followers')
  BY <1>0 DEF Followers
<1> QED BY <1>1, <1>2, <1>3, <1>4, <1>5, <1>6 DEF IInv, Each

LEMMA JoinStep ==
  ASSUME IInv, NEW r \in Requests, Join(r)
  PROVE  IInv'
<1> USE RequestAssumption DEF IInv, Join, requestVars, callVars, sharedVars, None,
   Cancelling
<1>0. /\ inflight[Key[r]] \in Requests /\ phase[inflight[Key[r]]] # "unused"
      /\ phase[r] = "unused" /\ pub[r] = None /\ call[r] # r /\ ~ waiting[r]
      /\ \A c \in Requests : r \notin consumers[c] /\ r \notin todo[c]
      /\ answered[r] = 0 /\ inflight[Key[r]] # r
  <2>1. Thread(r) /\ Answered(r) /\ Key[r] \in Keys /\ Entry(Key[r])
    BY DEF Each
  <2> QED BY <2>1, Outside DEF Thread, Answered, Entry, TypeOK
<1>1. TypeOK'
  BY <1>0 DEF TypeOK, Steps, Claims, Phases, Publishing, Answers, Outcomes, None
<1>2. ASSUME NEW q \in Requests
      PROVE  (Thread(q) /\ Claim(q) /\ Answered(q) /\ Held(q) /\ Exists(q))'
  <2>0. Thread(q) /\ Claim(q) /\ Answered(q) /\ Held(q) /\ Exists(q)
    BY DEF Each
  <2>1. Thread(q)'
    BY <1>0, <2>0 DEF TypeOK, Thread, Exists
  <2>2. Claim(q)'
    BY <1>0, <2>0 DEF TypeOK, Thread, Claim
  <2>3. Answered(q)'
    BY <1>0, <2>0 DEF TypeOK, Thread, Claim, Answered
  <2>4. Held(q)'
    BY <1>0, <2>0 DEF TypeOK, Thread, Claim, Held
  <2>5. Exists(q)'
    BY <1>0, <2>0 DEF TypeOK, Exists
  <2> QED BY <2>1, <2>2, <2>3, <2>4, <2>5
<1>3. ASSUME NEW d \in Requests PROVE (Stage(d) /\ Members(d))'
  <2>0. Stage(d) /\ Members(d)
    BY DEF Each
  <2>1. Stage(d)'
    BY <1>0, <2>0 DEF TypeOK, Stage
  <2>2. Members(d)'
    BY <1>0, <2>0 DEF TypeOK, Members
  <2> QED BY <2>1, <2>2
<1>4. ASSUME NEW k \in Keys PROVE Entry(k)'
  BY <1>0 DEF TypeOK, Each, Entry
<1>5. activeOwners' = Cardinality(Owners')
  BY <1>0 DEF Owners
<1>6. waitingFollowers' = Cardinality(Followers')
  BY <1>0 DEF Followers
<1> QED BY <1>1, <1>2, <1>3, <1>4, <1>5, <1>6 DEF IInv, Each

LEMMA OwnStep ==
  ASSUME IInv, NEW r \in Requests, Own(r)
  PROVE  IInv'
<1> USE RequestAssumption DEF IInv, Own, requestVars, callVars, sharedVars, None,
   Cancelling
<1>0. phase[r] = "unused" /\ pub[r] = None /\ call[r] # r /\ ~ waiting[r]
      /\ \A c \in Requests : r \notin consumers[c] /\ r \notin todo[c]
      /\ answered[r] = 0 /\ ~ released[r] /\ Key[r] \in Keys /\ ~ result[r] /\ ~ workEnded[r]
  <2>1. Thread(r) /\ Answered(r) /\ Stage(r) /\ Key[r] \in Keys
    BY DEF Each
  <2> QED BY <2>1, Outside DEF Thread, Answered, Stage, TypeOK
<1>1. TypeOK'
  <2>1. pc' \in [Requests -> Steps] /\ claim' \in [Requests -> Claims]
    BY DEF TypeOK, Steps, Claims
  <2>2. phase' \in [Requests -> Phases] /\ consumers' \in [Requests -> SUBSET Requests]
    BY DEF TypeOK, Phases
  <2>3. call' \in [Requests -> Requests \cup {NoCall}] /\ registered' \in [Requests -> BOOLEAN]
    BY DEF TypeOK
  <2>4. inflight' \in [Keys -> Requests \cup {NoCall}]
    BY <1>0 DEF TypeOK
  <2>5. activeOwners' \in Nat
    BY DEF TypeOK
  <2> QED BY <2>1, <2>2, <2>3, <2>4, <2>5 DEF TypeOK
<1>2. ASSUME NEW q \in Requests
      PROVE  (Thread(q) /\ Claim(q) /\ Answered(q) /\ Held(q) /\ Exists(q))'
  <2>0. Thread(q) /\ Claim(q) /\ Answered(q) /\ Held(q) /\ Exists(q)
    BY DEF Each
  <2>1. Thread(q)'
    BY <1>0, <2>0 DEF TypeOK, Thread, Exists
  <2>2. Claim(q)'
    BY <1>0, <2>0 DEF TypeOK, Thread, Claim
  <2>3. Answered(q)'
    BY <1>0, <2>0 DEF TypeOK, Thread, Claim, Answered
  <2>4. Held(q)'
    BY <1>0, <2>0, ZenonT(40) DEF TypeOK, Thread, Claim, Held, Exists
  <2>5. Exists(q)'
    BY <1>0, <2>0 DEF TypeOK, Exists
  <2> QED BY <2>1, <2>2, <2>3, <2>4, <2>5
<1>3. ASSUME NEW d \in Requests PROVE (Stage(d) /\ Members(d))'
  <2>0. Stage(d) /\ Members(d)
    BY DEF Each
  <2>1. Stage(d)'
    BY <1>0, <2>0 DEF TypeOK, Stage
  <2>2. Members(d)'
    BY <1>0, <2>0 DEF TypeOK, Members
  <2> QED BY <2>1, <2>2
<1>4. ASSUME NEW k \in Keys PROVE Entry(k)'
  BY <1>0 DEF TypeOK, Each, Entry
<1>5. activeOwners' = Cardinality(Owners')
  <2>1. r \notin Owners /\ Owners \in SUBSET Requests
    BY <1>0 DEF Owners
  <2>2. Owners' = Owners \cup {r}
    BY <1>0 DEF Owners, TypeOK
  <2> QED BY <2>1, <2>2, OneMore
<1>6. waitingFollowers' = Cardinality(Followers')
  BY <1>0 DEF Followers
<1> QED BY <1>1, <1>2, <1>3, <1>4, <1>5, <1>6 DEF IInv, Each

LEMMA PeekStep ==
  ASSUME IInv, NEW r \in Requests, Peek(r)
  PROVE  IInv'
<1> USE RequestAssumption DEF IInv, Peek, requestVars, callVars, sharedVars, None,
   Cancelling
<1>0. phase[r] = "unused" /\ pub[r] = None /\ call[r] # r /\ ~ waiting[r]
      /\ \A c \in Requests : r \notin consumers[c] /\ r \notin todo[c]
      /\ call[r] \in Requests
  BY Outside DEF Each, Thread, TypeOK
<1>1. TypeOK'
  BY <1>0 DEF TypeOK, Steps, Claims, Phases, Publishing, Answers, Outcomes, None
<1>2. ASSUME NEW q \in Requests
      PROVE  (Thread(q) /\ Claim(q) /\ Answered(q) /\ Held(q) /\ Exists(q))'
  <2>0. Thread(q) /\ Claim(q) /\ Answered(q) /\ Held(q) /\ Exists(q)
    BY DEF Each
  <2>1. Thread(q)'
    BY <1>0, <2>0 DEF TypeOK, Thread, Exists
  <2>2. Claim(q)'
    BY <1>0, <2>0 DEF TypeOK, Thread, Claim
  <2>3. Answered(q)'
    BY <1>0, <2>0 DEF TypeOK, Thread, Claim, Answered
  <2>4. Held(q)'
    BY <1>0, <2>0 DEF TypeOK, Thread, Claim, Held
  <2>5. Exists(q)'
    BY <1>0, <2>0 DEF TypeOK, Exists
  <2> QED BY <2>1, <2>2, <2>3, <2>4, <2>5
<1>3. ASSUME NEW d \in Requests PROVE (Stage(d) /\ Members(d))'
  <2>0. Stage(d) /\ Members(d)
    BY DEF Each
  <2>1. Stage(d)'
    BY <1>0, <2>0 DEF TypeOK, Stage
  <2>2. Members(d)'
    BY <1>0, <2>0 DEF TypeOK, Members
  <2> QED BY <2>1, <2>2
<1>4. ASSUME NEW k \in Keys PROVE Entry(k)'
  BY <1>0 DEF TypeOK, Each, Entry
<1>5. activeOwners' = Cardinality(Owners')
  BY <1>0 DEF Owners
<1>6. waitingFollowers' = Cardinality(Followers')
  BY <1>0 DEF Followers
<1> QED BY <1>1, <1>2, <1>3, <1>4, <1>5, <1>6 DEF IInv, Each

LEMMA RegisterStep ==
  ASSUME IInv, NEW r \in Requests, Register(r)
  PROVE  IInv'
<1> USE RequestAssumption DEF IInv, Register, requestVars, callVars, sharedVars, None,
   Cancelling
<1>1. TypeOK'
  BY DEF TypeOK, Steps, Claims, Phases, Publishing, Answers, Outcomes, None
<1>2. ASSUME NEW q \in Requests
      PROVE  (Thread(q) /\ Claim(q) /\ Answered(q) /\ Held(q) /\ Exists(q))'
  <2>0. Thread(q) /\ Claim(q) /\ Answered(q) /\ Held(q) /\ Exists(q)
    BY DEF Each
  <2>1. Thread(q)'
    BY <2>0 DEF TypeOK, Thread, Exists
  <2>2. Claim(q)'
    BY <2>0 DEF TypeOK, Thread, Claim
  <2>3. Answered(q)'
    BY <2>0 DEF TypeOK, Thread, Claim, Answered
  <2>4. Held(q)'
    BY <2>0 DEF TypeOK, Thread, Claim, Held
  <2>5. Exists(q)'
    BY <2>0 DEF TypeOK, Exists
  <2> QED BY <2>1, <2>2, <2>3, <2>4, <2>5
<1>3. ASSUME NEW d \in Requests PROVE (Stage(d) /\ Members(d))'
  <2>0. Stage(d) /\ Members(d)
    BY DEF Each
  <2>1. Stage(d)'
    BY <2>0 DEF TypeOK, Stage
  <2>2. Members(d)'
    BY <2>0 DEF TypeOK, Members
  <2> QED BY <2>1, <2>2
<1>4. ASSUME NEW k \in Keys PROVE Entry(k)'
  BY DEF TypeOK, Each, Entry
<1>5. activeOwners' = Cardinality(Owners')
  BY DEF Owners
<1>6. waitingFollowers' = Cardinality(Followers')
  BY DEF Followers
<1> QED BY <1>1, <1>2, <1>3, <1>4, <1>5, <1>6 DEF IInv, Each

LEMMA SeeClaimedStep ==
  ASSUME IInv, NEW r \in Requests, SeeClaimed(r)
  PROVE  IInv'
<1> USE RequestAssumption DEF IInv, SeeClaimed, requestVars, callVars, sharedVars,
   None, Cancelling
<1>0. phase[r] = "unused" /\ pub[r] = None /\ call[r] # r /\ ~ waiting[r]
      /\ \A c \in Requests : r \notin consumers[c] /\ r \notin todo[c]
      /\ call[r] \in Requests
  BY Outside DEF Each, Thread, TypeOK
<1>1. TypeOK'
  BY <1>0 DEF TypeOK, Steps, Claims, Phases, Publishing, Answers, Outcomes, None
<1>2. ASSUME NEW q \in Requests
      PROVE  (Thread(q) /\ Claim(q) /\ Answered(q) /\ Held(q) /\ Exists(q))'
  <2>0. Thread(q) /\ Claim(q) /\ Answered(q) /\ Held(q) /\ Exists(q)
    BY DEF Each
  <2>1. Thread(q)'
    BY <1>0, <2>0 DEF TypeOK, Thread, Exists
  <2>2. Claim(q)'
    BY <1>0, <2>0 DEF TypeOK, Thread, Claim
  <2>3. Answered(q)'
    BY <1>0, <2>0 DEF TypeOK, Thread, Claim, Answered
  <2>4. Held(q)'
    BY <1>0, <2>0 DEF TypeOK, Thread, Claim, Held
  <2>5. Exists(q)'
    BY <1>0, <2>0 DEF TypeOK, Exists
  <2> QED BY <2>1, <2>2, <2>3, <2>4, <2>5
<1>3. ASSUME NEW d \in Requests PROVE (Stage(d) /\ Members(d))'
  <2>0. Stage(d) /\ Members(d)
    BY DEF Each
  <2>1. Stage(d)'
    BY <1>0, <2>0 DEF TypeOK, Stage
  <2>2. Members(d)'
    BY <1>0, <2>0 DEF TypeOK, Members
  <2> QED BY <2>1, <2>2
<1>4. ASSUME NEW k \in Keys PROVE Entry(k)'
  BY <1>0 DEF TypeOK, Each, Entry
<1>5. activeOwners' = Cardinality(Owners')
  BY <1>0 DEF Owners
<1>6. waitingFollowers' = Cardinality(Followers')
  BY <1>0 DEF Followers
<1> QED BY <1>1, <1>2, <1>3, <1>4, <1>5, <1>6 DEF IInv, Each

LEMMA AttachJoinsStep ==
  ASSUME IInv, NEW r \in Requests, Attach(r), phase[call[r]] = "Accepting", claim[r] = "free"
  PROVE  IInv'
<1> USE RequestAssumption DEF IInv, requestVars, callVars, sharedVars, None, Cancelling
<1>0. /\ pc' = [pc EXCEPT ![r] = "returned"] /\ waiting' = [waiting EXCEPT ![r] = TRUE]
      /\ consumers' = [consumers EXCEPT ![call[r]] = @ \cup {r}]
      /\ waitingFollowers' = waitingFollowers + 1
      /\ UNCHANGED <<ended, call, registered, claim, answer, answered, phase, result,
                     released, workEnded, outcome, pub, todo, inflight, cached,
                     activeOwners, stopping>>
      /\ phase[r] = "unused" /\ pub[r] = None /\ call[r] # r /\ ~ waiting[r]
      /\ \A c \in Requests : r \notin consumers[c] /\ r \notin todo[c]
      /\ call[r] \in Requests /\ Thread(r) /\ Claim(r) /\ Answered(r) /\ Held(r)
      /\ Stage(call[r]) /\ Members(call[r]) /\ phase[call[r]] # "unused"
  <2>1. Thread(r) /\ Claim(r) /\ Answered(r) /\ Held(r) /\ Exists(r)
    BY DEF Each
  <2>2. call[r] \in Requests
    BY <2>1 DEF Thread, TypeOK, Attach
  <2>3. Stage(call[r]) /\ Members(call[r])
    BY <2>2 DEF Each
  <2> QED BY <2>1, <2>2, <2>3, Outside DEF Exists, Attach
<1>1. TypeOK'
  <2>1. pc' \in [Requests -> Steps] /\ waiting' \in [Requests -> BOOLEAN]
    BY <1>0 DEF TypeOK, Steps
  <2>2. consumers' \in [Requests -> SUBSET Requests] /\ waitingFollowers' \in Nat
    BY <1>0 DEF TypeOK
  <2> QED BY <1>0, <2>1, <2>2 DEF TypeOK
<1>2. ASSUME NEW q \in Requests
      PROVE  (Thread(q) /\ Claim(q) /\ Answered(q) /\ Held(q) /\ Exists(q))'
  <2>0. Thread(q) /\ Claim(q) /\ Answered(q) /\ Held(q) /\ Exists(q)
    BY DEF Each
  <2>1. Thread(q)'
    BY <1>0, <2>0 DEF TypeOK, Thread, Exists
  <2>2. Claim(q)'
    <3>1. CASE q # r
      BY <1>0, <2>0, <3>1 DEF TypeOK, Thread, Claim
    <3>2. CASE q = r
      BY <1>0, <3>2 DEF TypeOK, Thread, Claim
    <3> QED BY <3>1, <3>2
  <2>3. Answered(q)'
    <3>1. CASE q # r
      BY <1>0, <2>0, <3>1 DEF TypeOK, Thread, Claim, Answered
    <3>2. CASE q = r
      BY <1>0, <3>2 DEF TypeOK, Thread, Claim, Answered
    <3> QED BY <3>1, <3>2
  <2>4. Held(q)'
    <3>1. CASE q # r
      BY <1>0, <2>0, <3>1, ZenonT(40) DEF TypeOK, Thread, Claim, Held
    <3>2. CASE q = r
      BY <1>0, <3>2 DEF TypeOK, Thread, Claim, Held
    <3> QED BY <3>1, <3>2
  <2>5. Exists(q)'
    BY <1>0, <2>0 DEF TypeOK, Exists
  <2> QED BY <2>1, <2>2, <2>3, <2>4, <2>5
<1>3. ASSUME NEW d \in Requests PROVE (Stage(d) /\ Members(d))'
  <2>0. Stage(d) /\ Members(d)
    BY DEF Each
  <2>1. Stage(d)'
    BY <1>0, <2>0 DEF TypeOK, Stage
  <2>2. Members(d)'
    BY <1>0, <2>0 DEF TypeOK, Members
  <2> QED BY <2>1, <2>2
<1>4. ASSUME NEW k \in Keys PROVE Entry(k)'
  BY <1>0 DEF TypeOK, Each, Entry
<1>5. activeOwners' = Cardinality(Owners')
  BY <1>0 DEF Owners
<1>6. waitingFollowers' = Cardinality(Followers')
  <2>1. r \notin Followers /\ Followers \in SUBSET Requests
    BY <1>0 DEF Followers
  <2>2. Followers' = Followers \cup {r}
    BY <1>0 DEF Followers, TypeOK
  <2> QED BY <1>0, <2>1, <2>2, OneMore
<1> QED BY <1>1, <1>2, <1>3, <1>4, <1>5, <1>6 DEF IInv, Each

LEMMA AttachTurnsBackStep ==
  ASSUME IInv, NEW r \in Requests, Attach(r), ~ (phase[call[r]] = "Accepting" /\ claim[r] = "free")
  PROVE  IInv'
<1> USE RequestAssumption DEF IInv, None, Cancelling, callVars, sharedVars
<1>0. PICK to \in {"returned", "ready", "retry"} :
      /\ pc' = [pc EXCEPT ![r] = to]
      /\ to = "returned" => claim[r] # "free"
      /\ to = "ready" => result[call[r]] /\ phase[call[r]] # "Accepting"
      /\ to = "retry" => phase[call[r]] # "Accepting"
      /\ pc[r] = "attach"
      /\ UNCHANGED <<ended, call, registered, claim, waiting, answer, answered, callVars, sharedVars>>
      /\ phase[r] = "unused" /\ pub[r] = None /\ call[r] # r /\ ~ waiting[r]
      /\ \A c \in Requests : r \notin consumers[c] /\ r \notin todo[c]
      /\ call[r] \in Requests /\ Thread(r) /\ Claim(r) /\ Answered(r) /\ Held(r)
      /\ Stage(call[r]) /\ Members(call[r]) /\ phase[call[r]] # "unused"
  <2>1. Thread(r) /\ Claim(r) /\ Answered(r) /\ Held(r) /\ Exists(r)
    BY DEF Each
  <2>2. call[r] \in Requests
    BY <2>1 DEF Thread, TypeOK, Attach
  <2>3. Stage(call[r]) /\ Members(call[r])
    BY <2>2 DEF Each
  <2>4. CASE phase[call[r]] = "Accepting"
    BY <2>1, <2>2, <2>3, <2>4, Outside DEF Exists, Attach, callVars, sharedVars
  <2>5. CASE phase[call[r]] \in {"Publishing", "Done"} /\ result[call[r]]
    BY <2>1, <2>2, <2>3, <2>5, Outside DEF Exists, Attach, callVars, sharedVars
  <2>6. CASE phase[call[r]] # "Accepting" /\ ~ (phase[call[r]] \in {"Publishing", "Done"} /\ result[call[r]])
    BY <2>1, <2>2, <2>3, <2>6, Outside DEF Exists, Attach, callVars, sharedVars
  <2> QED BY <2>4, <2>5, <2>6
<1>1. TypeOK'
  BY <1>0 DEF TypeOK, Steps, Claims, Phases, Publishing, Answers, Outcomes, None
<1>2. ASSUME NEW q \in Requests
      PROVE  (Thread(q) /\ Claim(q) /\ Answered(q) /\ Held(q) /\ Exists(q))'
  <2>0. Thread(q) /\ Claim(q) /\ Answered(q) /\ Held(q) /\ Exists(q)
    BY DEF Each
  <2>1. Thread(q)'
    BY <1>0, <2>0 DEF TypeOK, Thread, Exists
  <2>2. Claim(q)'
    <3>1. CASE q # r
      BY <1>0, <2>0, <3>1 DEF TypeOK, Thread, Claim
    <3>2. CASE q = r
      BY <1>0, <3>2 DEF TypeOK, Thread, Claim
    <3> QED BY <3>1, <3>2
  <2>3. Answered(q)'
    <3>1. CASE q # r
      BY <1>0, <2>0, <3>1 DEF TypeOK, Thread, Claim, Answered
    <3>2. CASE q = r
      BY <1>0, <3>2 DEF TypeOK, Thread, Claim, Answered
    <3> QED BY <3>1, <3>2
  <2>4. Held(q)'
    BY <1>0, <2>0 DEF TypeOK, Thread, Claim, Held
  <2>5. Exists(q)'
    BY <1>0, <2>0 DEF TypeOK, Exists
  <2> QED BY <2>1, <2>2, <2>3, <2>4, <2>5
<1>3. ASSUME NEW d \in Requests PROVE (Stage(d) /\ Members(d))'
  <2>0. Stage(d) /\ Members(d)
    BY DEF Each
  <2>1. Stage(d)'
    BY <1>0, <2>0 DEF TypeOK, Stage
  <2>2. Members(d)'
    BY <1>0, <2>0 DEF TypeOK, Members
  <2> QED BY <2>1, <2>2
<1>4. ASSUME NEW k \in Keys PROVE Entry(k)'
  BY <1>0 DEF TypeOK, Each, Entry
<1>5. activeOwners' = Cardinality(Owners')
  BY <1>0 DEF Owners
<1>6. waitingFollowers' = Cardinality(Followers')
  BY <1>0 DEF Followers
<1> QED BY <1>1, <1>2, <1>3, <1>4, <1>5, <1>6 DEF IInv, Each

LEMMA RetryEraseStep ==
  ASSUME IInv, NEW r \in Requests, RetryErase(r)
  PROVE  IInv'
<1> USE RequestAssumption DEF IInv, RetryErase, EraseInflight, requestVars, callVars,
   sharedVars, None, Cancelling
<1>0. phase[r] = "unused" /\ pub[r] = None /\ call[r] # r /\ ~ waiting[r]
      /\ \A c \in Requests : r \notin consumers[c] /\ r \notin todo[c]
      /\ call[r] \in Requests /\ Thread(r) /\ Claim(r) /\ Answered(r) /\ Held(r)
      /\ Stage(call[r]) /\ Members(call[r]) /\ phase[call[r]] # "unused"
  <2>1. Thread(r) /\ Claim(r) /\ Answered(r) /\ Held(r) /\ Exists(r)
    BY DEF Each
  <2>2. call[r] \in Requests
    BY <2>1 DEF Thread, TypeOK
  <2>3. Stage(call[r]) /\ Members(call[r])
    BY <2>2 DEF Each
  <2> QED BY <2>1, <2>2, <2>3, Outside DEF Exists
<1>1. TypeOK'
  BY <1>0 DEF TypeOK, Steps, Claims, Phases, Publishing, Answers, Outcomes, None
<1>2. ASSUME NEW q \in Requests
      PROVE  (Thread(q) /\ Claim(q) /\ Answered(q) /\ Held(q) /\ Exists(q))'
  <2>0. Thread(q) /\ Claim(q) /\ Answered(q) /\ Held(q) /\ Exists(q)
    BY DEF Each
  <2>1. Thread(q)'
    BY <1>0, <2>0 DEF TypeOK, Thread, Exists
  <2>2. Claim(q)'
    BY <1>0, <2>0 DEF TypeOK, Thread, Claim
  <2>3. Answered(q)'
    BY <1>0, <2>0 DEF TypeOK, Thread, Claim, Answered
  <2>4. Held(q)'
    BY <1>0, <2>0 DEF TypeOK, Thread, Claim, Held
  <2>5. Exists(q)'
    BY <1>0, <2>0 DEF TypeOK, Exists
  <2> QED BY <2>1, <2>2, <2>3, <2>4, <2>5
<1>3. ASSUME NEW d \in Requests PROVE (Stage(d) /\ Members(d))'
  <2>0. Stage(d) /\ Members(d)
    BY DEF Each
  <2>1. Stage(d)'
    BY <1>0, <2>0 DEF TypeOK, Stage
  <2>2. Members(d)'
    BY <1>0, <2>0 DEF TypeOK, Members, Thread
  <2> QED BY <2>1, <2>2
<1>4. ASSUME NEW k \in Keys PROVE Entry(k)'
  BY <1>0 DEF TypeOK, Each, Entry
<1>5. activeOwners' = Cardinality(Owners')
  BY <1>0 DEF Owners
<1>6. waitingFollowers' = Cardinality(Followers')
  BY <1>0 DEF Followers
<1> QED BY <1>1, <1>2, <1>3, <1>4, <1>5, <1>6 DEF IInv, Each

LEMMA RetryClaimStep ==
  ASSUME IInv, NEW r \in Requests, RetryClaim(r)
  PROVE  IInv'
<1> USE RequestAssumption DEF IInv, RetryClaim, requestVars, callVars, sharedVars,
   None, Cancelling
<1>0. phase[r] = "unused" /\ pub[r] = None /\ call[r] # r /\ ~ waiting[r]
      /\ \A c \in Requests : r \notin consumers[c] /\ r \notin todo[c]
      /\ call[r] \in Requests /\ Thread(r) /\ Claim(r) /\ Answered(r) /\ Held(r)
      /\ Stage(call[r]) /\ Members(call[r]) /\ phase[call[r]] # "unused"
  <2>1. Thread(r) /\ Claim(r) /\ Answered(r) /\ Held(r) /\ Exists(r)
    BY DEF Each
  <2>2. call[r] \in Requests
    BY <2>1 DEF Thread, TypeOK
  <2>3. Stage(call[r]) /\ Members(call[r])
    BY <2>2 DEF Each
  <2> QED BY <2>1, <2>2, <2>3, Outside DEF Exists
<1>1. TypeOK'
  BY <1>0, ZenonT(40) DEF TypeOK, Steps, Claims, Phases, Publishing, Answers, Outcomes, None
<1>2. ASSUME NEW q \in Requests
      PROVE  (Thread(q) /\ Claim(q) /\ Answered(q) /\ Held(q) /\ Exists(q))'
  <2>0. Thread(q) /\ Claim(q) /\ Answered(q) /\ Held(q) /\ Exists(q)
    BY DEF Each
  <2>1. Thread(q)'
    BY <1>0, <2>0 DEF TypeOK, Thread, Exists
  <2>2. Claim(q)'
    <3>1. CASE q # r
      BY <2>0, <3>1 DEF TypeOK, Claim
    <3>2. CASE q = r /\ claim[r] = "free"
      BY <1>0, <3>2 DEF TypeOK, Claim, Thread, Stage
    <3>3. CASE q = r /\ claim[r] # "free"
      BY <2>0, <3>3 DEF TypeOK, Claim
    <3> QED BY <3>1, <3>2, <3>3
  <2>3. Answered(q)'
    <3>1. CASE q # r
      <4>1. UNCHANGED <<claim[q], pc[q], call[q], answered[q], answer[q]>>
        BY <3>1 DEF TypeOK
      <4> QED BY <2>0, <4>1 DEF Answered
    <3>2. CASE q = r
      BY <1>0, <3>2 DEF TypeOK, Thread, Claim, Answered
    <3> QED BY <3>1, <3>2
  <2>4. Held(q)'
    <3>1. CASE q # r
      BY <2>0, <3>1, ZenonT(40) DEF TypeOK, Thread, Claim, Held
    <3>2. CASE q = r
      BY <1>0, <3>2 DEF TypeOK, Thread, Claim, Held
    <3> QED BY <3>1, <3>2
  <2>5. Exists(q)'
    BY <1>0, <2>0 DEF TypeOK, Exists
  <2> QED BY <2>1, <2>2, <2>3, <2>4, <2>5
<1>3. ASSUME NEW d \in Requests PROVE (Stage(d) /\ Members(d))'
  <2>0. Stage(d) /\ Members(d)
    BY DEF Each
  <2>1. Stage(d)'
    BY <1>0, <2>0 DEF TypeOK, Stage
  <2>2. Members(d)'
    BY <1>0, <2>0 DEF TypeOK, Members
  <2> QED BY <2>1, <2>2
<1>4. ASSUME NEW k \in Keys PROVE Entry(k)'
  BY <1>0 DEF TypeOK, Each, Entry
<1>5. activeOwners' = Cardinality(Owners')
  BY <1>0 DEF Owners
<1>6. waitingFollowers' = Cardinality(Followers')
  BY <1>0 DEF Followers
<1> QED BY <1>1, <1>2, <1>3, <1>4, <1>5, <1>6 DEF IInv, Each

LEMMA ClaimReadyStep ==
  ASSUME IInv, NEW r \in Requests, ClaimReady(r)
  PROVE  IInv'
<1> USE RequestAssumption DEF IInv, ClaimReady, requestVars, callVars, sharedVars,
   None, Cancelling
<1>0. phase[r] = "unused" /\ pub[r] = None /\ call[r] # r /\ ~ waiting[r]
      /\ \A c \in Requests : r \notin consumers[c] /\ r \notin todo[c]
      /\ call[r] \in Requests /\ Thread(r) /\ Claim(r) /\ Answered(r) /\ Held(r)
      /\ Stage(call[r]) /\ Members(call[r]) /\ phase[call[r]] # "unused"
  <2>1. Thread(r) /\ Claim(r) /\ Answered(r) /\ Held(r) /\ Exists(r)
    BY DEF Each
  <2>2. call[r] \in Requests
    BY <2>1 DEF Thread, TypeOK
  <2>3. Stage(call[r]) /\ Members(call[r])
    BY <2>2 DEF Each
  <2> QED BY <2>1, <2>2, <2>3, Outside DEF Exists
<1>1. TypeOK'
  BY <1>0, ZenonT(40) DEF TypeOK, Steps, Claims, Phases, Publishing, Answers, Outcomes, None
<1>2. ASSUME NEW q \in Requests
      PROVE  (Thread(q) /\ Claim(q) /\ Answered(q) /\ Held(q) /\ Exists(q))'
  <2>0. Thread(q) /\ Claim(q) /\ Answered(q) /\ Held(q) /\ Exists(q)
    BY DEF Each
  <2>1. Thread(q)'
    BY <1>0, <2>0 DEF TypeOK, Thread, Exists
  <2>2. Claim(q)'
    <3>1. CASE q # r
      BY <2>0, <3>1 DEF TypeOK, Claim
    <3>2. CASE q = r /\ claim[r] = "free"
      BY <1>0, <3>2 DEF TypeOK, Claim, Thread, Stage
    <3>3. CASE q = r /\ claim[r] # "free"
      BY <2>0, <3>3 DEF TypeOK, Claim
    <3> QED BY <3>1, <3>2, <3>3
  <2>3. Answered(q)'
    <3>1. CASE q # r
      <4>1. UNCHANGED <<claim[q], pc[q], call[q], answered[q], answer[q]>>
        BY <3>1 DEF TypeOK
      <4> QED BY <2>0, <4>1 DEF Answered
    <3>2. CASE q = r
      BY <1>0, <3>2 DEF TypeOK, Thread, Claim, Answered
    <3> QED BY <3>1, <3>2
  <2>4. Held(q)'
    <3>1. CASE q # r
      BY <2>0, <3>1 DEF TypeOK, Thread, Claim, Held
    <3>2. CASE q = r
      BY <1>0, <3>2 DEF TypeOK, Thread, Claim, Held
    <3> QED BY <3>1, <3>2
  <2>5. Exists(q)'
    BY <1>0, <2>0 DEF TypeOK, Exists
  <2> QED BY <2>1, <2>2, <2>3, <2>4, <2>5
<1>3. ASSUME NEW d \in Requests PROVE (Stage(d) /\ Members(d))'
  <2>0. Stage(d) /\ Members(d)
    BY DEF Each
  <2>1. Stage(d)'
    BY <1>0, <2>0 DEF TypeOK, Stage
  <2>2. Members(d)'
    BY <1>0, <2>0 DEF TypeOK, Members
  <2> QED BY <2>1, <2>2
<1>4. ASSUME NEW k \in Keys PROVE Entry(k)'
  BY <1>0 DEF TypeOK, Each, Entry
<1>5. activeOwners' = Cardinality(Owners')
  BY <1>0 DEF Owners
<1>6. waitingFollowers' = Cardinality(Followers')
  BY <1>0 DEF Followers
<1> QED BY <1>1, <1>2, <1>3, <1>4, <1>5, <1>6 DEF IInv, Each

LEMMA SubmitStep ==
  ASSUME IInv, NEW r \in Requests, Submit(r)
  PROVE  IInv'
<1> USE RequestAssumption DEF IInv, Submit, requestVars, callVars, sharedVars, None,
   Cancelling
<1>0. call[r] = r /\ Thread(r) /\ Claim(r) /\ Answered(r) /\ Held(r) /\ Stage(r) /\ Members(r)
      /\ phase[r] # "unused"
  BY DEF Each, Thread, Stage
<1>1. TypeOK'
  <2>1. pc' \in [Requests -> Steps]
    BY DEF TypeOK, Steps
  <2>2. pub' \in [Requests -> Publishing]
    BY DEF TypeOK, Publishing
  <2>3. outcome' \in [Requests -> Outcomes \cup {None}]
    BY DEF TypeOK, Outcomes
  <2> QED BY <2>1, <2>2, <2>3 DEF TypeOK
<1>2. ASSUME NEW q \in Requests
      PROVE  (Thread(q) /\ Claim(q) /\ Answered(q) /\ Held(q) /\ Exists(q))'
  <2>0. Thread(q) /\ Claim(q) /\ Answered(q) /\ Held(q) /\ Exists(q)
    BY DEF Each
  <2>1. Thread(q)'
    BY <1>0, <2>0 DEF TypeOK, Thread, Exists
  <2>2. Claim(q)'
    BY <1>0, <2>0 DEF TypeOK, Thread, Claim
  <2>3. Answered(q)'
    <3>1. CASE q # r
      BY <2>0, <3>1 DEF TypeOK, Answered
    <3>2. CASE q = r /\ claim[r] = "taken"
      BY <2>0, <1>0, <3>2 DEF TypeOK, Answered
    <3>3. CASE q = r /\ claim[r] # "taken"
      BY <2>0, <1>0, <3>3 DEF TypeOK, Answered
    <3> QED BY <3>1, <3>2, <3>3
  <2>4. Held(q)'
    BY <1>0, <2>0 DEF TypeOK, Thread, Claim, Held
  <2>5. Exists(q)'
    BY <1>0, <2>0 DEF TypeOK, Exists
  <2> QED BY <2>1, <2>2, <2>3, <2>4, <2>5
<1>3. ASSUME NEW d \in Requests PROVE (Stage(d) /\ Members(d))'
  <2>0. Stage(d) /\ Members(d)
    BY DEF Each
  <2>1. Stage(d)'
    BY <1>0, <2>0 DEF TypeOK, Stage
  <2>2. Members(d)'
    BY <1>0, <2>0 DEF TypeOK, Members
  <2> QED BY <2>1, <2>2
<1>4. ASSUME NEW k \in Keys PROVE Entry(k)'
  BY <1>0 DEF TypeOK, Each, Entry
<1>5. activeOwners' = Cardinality(Owners')
  BY <1>0 DEF Owners
<1>6. waitingFollowers' = Cardinality(Followers')
  BY <1>0 DEF Followers
<1> QED BY <1>1, <1>2, <1>3, <1>4, <1>5, <1>6 DEF IInv, Each

-----------------------------------------------------------------------------
(* The cancellation callback, and the end of a context.                     *)

LEMMA CancelClaimStep ==
  ASSUME IInv, NEW r \in Requests, CancelClaim(r)
  PROVE  IInv'
<1> USE RequestAssumption DEF IInv, CancelClaim, requestVars, callVars, sharedVars,
   None, Cancelling
<1>0. /\ call[r] \in Requests /\ Thread(r) /\ Claim(r) /\ Answered(r) /\ Held(r)
      /\ Stage(call[r]) /\ Members(call[r]) /\ phase[call[r]] # "unused"
  <2>1. Thread(r) /\ Claim(r) /\ Answered(r) /\ Held(r) /\ Exists(r)
    BY DEF Each
  <2>2. call[r] \in Requests
    BY <2>1 DEF Thread, TypeOK
  <2>3. Stage(call[r]) /\ Members(call[r])
    BY <2>2 DEF Each
  <2> QED BY <2>1, <2>2, <2>3 DEF Exists
<1>1. TypeOK'
  BY <1>0 DEF TypeOK, Steps, Claims, Phases, Publishing, Answers, Outcomes, None
<1>2. ASSUME NEW q \in Requests
      PROVE  (Thread(q) /\ Claim(q) /\ Answered(q) /\ Held(q) /\ Exists(q))'
  <2>0. Thread(q) /\ Claim(q) /\ Answered(q) /\ Held(q) /\ Exists(q)
    BY DEF Each
  <2>1. Thread(q)'
    BY <1>0, <2>0 DEF TypeOK, Thread, Exists
  <2>2. Claim(q)'
    <3>1. CASE q # r
      BY <2>0, <3>1 DEF TypeOK, Thread, Claim, Steps
    <3>2. CASE q = r
      BY <1>0, <3>2 DEF TypeOK, Thread, Claim, Steps
    <3> QED BY <3>1, <3>2
  <2>3. Answered(q)'
    BY <1>0, <2>0 DEF TypeOK, Thread, Claim, Answered
  <2>4. Held(q)'
    BY <1>0, <2>0 DEF TypeOK, Thread, Claim, Held
  <2>5. Exists(q)'
    BY <1>0, <2>0 DEF TypeOK, Exists
  <2> QED BY <2>1, <2>2, <2>3, <2>4, <2>5
<1>3. ASSUME NEW d \in Requests PROVE (Stage(d) /\ Members(d))'
  <2>0. Stage(d) /\ Members(d)
    BY DEF Each
  <2>1. Stage(d)'
    BY <1>0, <2>0 DEF TypeOK, Stage
  <2>2. Members(d)'
    BY <1>0, <2>0 DEF TypeOK, Members
  <2> QED BY <2>1, <2>2
<1>4. ASSUME NEW k \in Keys PROVE Entry(k)'
  BY <1>0 DEF TypeOK, Each, Entry
<1>5. activeOwners' = Cardinality(Owners')
  BY <1>0 DEF Owners
<1>6. waitingFollowers' = Cardinality(Followers')
  BY <1>0 DEF Followers
<1> QED BY <1>1, <1>2, <1>3, <1>4, <1>5, <1>6 DEF IInv, Each

LEMMA LastDetachesStep ==
  ASSUME IInv, NEW r \in Requests, CancelDetach(r), LastLeaves(r)
  PROVE  IInv'
<1> USE RequestAssumption DEF IInv, requestVars, callVars, sharedVars, None, Cancelling
<1>0. /\ claim[r] = "detach" /\ waiting' = [waiting EXCEPT ![r] = FALSE]
      /\ waitingFollowers' = IF waiting[r] THEN waitingFollowers - 1 ELSE waitingFollowers
      /\ UNCHANGED <<pc, ended, call, registered, answer, answered, result, released, workEnded,
                     outcome, pub, todo, inflight, cached, activeOwners, stopping>>
      /\ claim' = [claim EXCEPT ![r] = "stop work"]
      /\ phase[call[r]] = "Accepting" /\ phase' = [phase EXCEPT ![call[r]] = "Abandoned"]
      /\ consumers[call[r]] = {r} /\ consumers' = [consumers EXCEPT ![call[r]] = {}]
      /\ call[r] \in Requests /\ Thread(r) /\ Claim(r) /\ Answered(r) /\ Held(r)
      /\ Stage(call[r]) /\ Members(call[r]) /\ phase[call[r]] # "unused"
  <2>1. Thread(r) /\ Claim(r) /\ Answered(r) /\ Held(r) /\ Exists(r)
    BY DEF Each
  <2>2. call[r] \in Requests
    BY <2>1 DEF Thread, TypeOK, CancelDetach
  <2>3. Stage(call[r]) /\ Members(call[r])
    BY <2>2 DEF Each
  <2>4. phase[call[r]] = "Accepting" /\ consumers[call[r]] = {r}
    BY <2>2, <2>3 DEF Members, LastLeaves
  <2>5. consumers[call[r]] \ {r} = {}
    BY <2>4
  <2> QED BY <2>1, <2>2, <2>3, <2>4, <2>5 DEF Exists, CancelDetach, Detach
<1>1. TypeOK'
  <2>1. claim' \in [Requests -> Claims] /\ waiting' \in [Requests -> BOOLEAN]
    BY <1>0 DEF TypeOK, Claims
  <2>2. phase' \in [Requests -> Phases] /\ consumers' \in [Requests -> SUBSET Requests]
    BY <1>0 DEF TypeOK, Phases
  <2>3. waitingFollowers' \in Nat
    BY <1>0, FollowerLeaves
  <2> QED BY <1>0, <2>1, <2>2, <2>3 DEF TypeOK
<1>2. ASSUME NEW q \in Requests
      PROVE  (Thread(q) /\ Claim(q) /\ Answered(q) /\ Held(q) /\ Exists(q))'
  <2>0. Thread(q) /\ Claim(q) /\ Answered(q) /\ Held(q) /\ Exists(q)
    BY DEF Each
  <2>1. Thread(q)'
    <3>0. /\ phase' = [phase EXCEPT ![call[r]] = "Abandoned"] /\ call[r] \in Requests
          /\ consumers' = [consumers EXCEPT ![call[r]] = {}] /\ consumers[call[r]] = {r}
          /\ claim' = [claim EXCEPT ![r] = "stop work"] /\ waiting' = [waiting EXCEPT ![r] = FALSE]
          /\ UNCHANGED <<pc, call, registered, result, todo, inflight>>
      BY <1>0
    <3>1. CASE call[q] = call[r]
      BY <1>0, <2>0, <3>1 DEF TypeOK, Thread
    <3>2. CASE call[q] # call[r]
      BY <2>0, <3>0, <3>2 DEF TypeOK, Thread
    <3> QED BY <3>1, <3>2
  <2>2. Claim(q)'
    <3>1. CASE q # r
      <4>1. UNCHANGED <<claim[q], pc[q], call[q], ended[q]>>
        BY <1>0, <3>1 DEF TypeOK
      <4>2. CASE call[q] # call[r]
        <5>1. CASE call[q] = NoCall
          BY <2>0, <4>1, <5>1 DEF Thread, Claim
        <5>2. CASE call[q] # NoCall
          <6>1. phase'[call[q]] = phase[call[q]]
            BY <1>0, <4>2, <5>2 DEF TypeOK
          <6> QED BY <2>0, <4>1, <6>1 DEF Claim
        <5> QED BY <5>1, <5>2
      <4>3. CASE call[q] = call[r]
        <5>1. phase'[call[q]] = "Abandoned" /\ phase[call[q]] = "Accepting"
          BY <1>0, <4>3 DEF TypeOK
        <5> QED BY <2>0, <4>1, <5>1 DEF Claim
      <4> QED BY <4>2, <4>3
    <3>2. CASE q = r
      BY <1>0, <3>2 DEF TypeOK, Thread, Claim
    <3> QED BY <3>1, <3>2
  <2>3. Answered(q)'
    BY <1>0, <2>0 DEF TypeOK, Thread, Claim, Answered
  <2>4. Held(q)'
    <3>0. /\ phase' = [phase EXCEPT ![call[r]] = "Abandoned"] /\ call[r] \in Requests
          /\ consumers' = [consumers EXCEPT ![call[r]] = {}] /\ consumers[call[r]] = {r}
          /\ claim' = [claim EXCEPT ![r] = "stop work"] /\ waiting' = [waiting EXCEPT ![r] = FALSE]
          /\ UNCHANGED <<pc, call, registered, result, todo, inflight>>
      BY <1>0
    <3>1. CASE q = r
      BY <1>0, <3>1 DEF TypeOK, Held
    <3>2. CASE q # r /\ call[q] = call[r]
      BY <2>0, <3>0, <3>2 DEF TypeOK, Held, Thread
    <3>3. CASE q # r /\ call[q] # call[r]
      BY <2>0, <3>0, <3>3 DEF TypeOK, Held
    <3> QED BY <3>1, <3>2, <3>3
  <2>5. Exists(q)'
    BY <1>0, <2>0 DEF TypeOK, Exists
  <2> QED BY <2>1, <2>2, <2>3, <2>4, <2>5
<1>3. ASSUME NEW d \in Requests PROVE (Stage(d) /\ Members(d))'
  <2>0. Stage(d) /\ Members(d)
    BY DEF Each
  <2>1. Stage(d)'
    BY <1>0, <2>0 DEF TypeOK, Stage
  <2>2. Members(d)'
    <3>0. /\ phase' = [phase EXCEPT ![call[r]] = "Abandoned"] /\ call[r] \in Requests
          /\ consumers' = [consumers EXCEPT ![call[r]] = {}] /\ consumers[call[r]] = {r}
          /\ claim' = [claim EXCEPT ![r] = "stop work"] /\ waiting' = [waiting EXCEPT ![r] = FALSE]
          /\ UNCHANGED <<pc, call, registered, result, todo, inflight>>
      BY <1>0
    <3>1. CASE d = call[r]
      BY <1>0, <2>0, <3>1 DEF TypeOK, Members
    <3>2. CASE d # call[r]
      BY <2>0, <3>0, <3>2, ZenonT(40) DEF TypeOK, Members
    <3> QED BY <3>1, <3>2
  <2> QED BY <2>1, <2>2
<1>4. ASSUME NEW k \in Keys PROVE Entry(k)'
  BY <1>0 DEF TypeOK, Each, Entry
<1>5. activeOwners' = Cardinality(Owners')
  BY <1>0 DEF Owners, TypeOK
<1>6. waitingFollowers' = Cardinality(Followers')
  BY <1>0, FollowerLeaves
<1> QED BY <1>1, <1>2, <1>3, <1>4, <1>5, <1>6 DEF IInv, Each

LEMMA OtherDetachesStep ==
  ASSUME IInv, NEW r \in Requests, CancelDetach(r), ~ LastLeaves(r)
  PROVE  IInv'
<1> USE RequestAssumption DEF IInv, requestVars, callVars, sharedVars, None, Cancelling
<1>0. /\ claim[r] = "detach" /\ waiting' = [waiting EXCEPT ![r] = FALSE]
      /\ waitingFollowers' = IF waiting[r] THEN waitingFollowers - 1 ELSE waitingFollowers
      /\ UNCHANGED <<pc, ended, call, registered, answer, answered, result, released, workEnded,
                     outcome, pub, todo, inflight, cached, activeOwners, stopping>>
      /\ claim' = [claim EXCEPT ![r] = "call"] /\ phase' = phase
      /\ phase[call[r]] = "Accepting" => consumers[call[r]] \ {r} # {}
      /\ consumers' = [consumers EXCEPT ![call[r]] = @ \ {r}]
      /\ call[r] \in Requests /\ Thread(r) /\ Claim(r) /\ Answered(r) /\ Held(r)
      /\ Stage(call[r]) /\ Members(call[r]) /\ phase[call[r]] # "unused"
  <2>1. Thread(r) /\ Claim(r) /\ Answered(r) /\ Held(r) /\ Exists(r)
    BY DEF Each
  <2>2. call[r] \in Requests
    BY <2>1 DEF Thread, TypeOK, CancelDetach
  <2>3. Stage(call[r]) /\ Members(call[r])
    BY <2>2 DEF Each
  <2>4. phase[call[r]] = "Accepting" => consumers[call[r]] \ {r} # {}
    BY DEF LastLeaves
  <2>5. phase' = phase
    BY <2>2 DEF TypeOK, CancelDetach, Detach
  <2> QED BY <2>1, <2>2, <2>3, <2>4, <2>5 DEF Exists, CancelDetach, Detach
<1>1. TypeOK'
  <2>1. claim' \in [Requests -> Claims] /\ waiting' \in [Requests -> BOOLEAN]
    BY <1>0 DEF TypeOK, Claims
  <2>2. phase' \in [Requests -> Phases] /\ consumers' \in [Requests -> SUBSET Requests]
    BY <1>0 DEF TypeOK, Phases
  <2>3. waitingFollowers' \in Nat
    BY <1>0, FollowerLeaves
  <2> QED BY <1>0, <2>1, <2>2, <2>3 DEF TypeOK
<1>2. ASSUME NEW q \in Requests
      PROVE  (Thread(q) /\ Claim(q) /\ Answered(q) /\ Held(q) /\ Exists(q))'
  <2>0. Thread(q) /\ Claim(q) /\ Answered(q) /\ Held(q) /\ Exists(q)
    BY DEF Each
  <2>1. Thread(q)'
    BY <1>0, <2>0 DEF TypeOK, Thread, Exists
  <2>2. Claim(q)'
    <3>1. CASE q # r
      BY <1>0, <2>0, <3>1 DEF TypeOK, Thread, Claim
    <3>2. CASE q = r
      BY <1>0, <3>2 DEF TypeOK, Thread, Claim
    <3> QED BY <3>1, <3>2
  <2>3. Answered(q)'
    BY <1>0, <2>0 DEF TypeOK, Thread, Claim, Answered
  <2>4. Held(q)'
    <3>1. CASE q # r
      BY <1>0, <2>0, <3>1, ZenonT(40) DEF TypeOK, Thread, Claim, Held
    <3>2. CASE q = r
      BY <1>0, <3>2 DEF TypeOK, Thread, Claim, Held
    <3> QED BY <3>1, <3>2
  <2>5. Exists(q)'
    BY <1>0, <2>0 DEF TypeOK, Exists
  <2> QED BY <2>1, <2>2, <2>3, <2>4, <2>5
<1>3. ASSUME NEW d \in Requests PROVE (Stage(d) /\ Members(d))'
  <2>0. Stage(d) /\ Members(d)
    BY DEF Each
  <2>1. Stage(d)'
    BY <1>0, <2>0 DEF TypeOK, Stage
  <2>2. Members(d)'
    BY <1>0, <2>0 DEF TypeOK, Members
  <2> QED BY <2>1, <2>2
<1>4. ASSUME NEW k \in Keys PROVE Entry(k)'
  BY <1>0 DEF TypeOK, Each, Entry
<1>5. activeOwners' = Cardinality(Owners')
  BY <1>0 DEF Owners
<1>6. waitingFollowers' = Cardinality(Followers')
  BY <1>0, FollowerLeaves
<1> QED BY <1>1, <1>2, <1>3, <1>4, <1>5, <1>6 DEF IInv, Each

LEMMA CancelWorkStep ==
  ASSUME IInv, NEW r \in Requests, CancelWork(r)
  PROVE  IInv'
<1> USE RequestAssumption DEF IInv, CancelWork, requestVars, callVars, sharedVars,
   None, Cancelling
<1>0. /\ call[r] \in Requests /\ Thread(r) /\ Claim(r) /\ Answered(r) /\ Held(r)
      /\ Stage(call[r]) /\ Members(call[r]) /\ phase[call[r]] # "unused"
  <2>1. Thread(r) /\ Claim(r) /\ Answered(r) /\ Held(r) /\ Exists(r)
    BY DEF Each
  <2>2. call[r] \in Requests
    BY <2>1 DEF Thread, TypeOK
  <2>3. Stage(call[r]) /\ Members(call[r])
    BY <2>2 DEF Each
  <2> QED BY <2>1, <2>2, <2>3 DEF Exists
<1>1. TypeOK'
  BY <1>0 DEF TypeOK, Steps, Claims, Phases, Publishing, Answers, Outcomes, None
<1>2. ASSUME NEW q \in Requests
      PROVE  (Thread(q) /\ Claim(q) /\ Answered(q) /\ Held(q) /\ Exists(q))'
  <2>0. Thread(q) /\ Claim(q) /\ Answered(q) /\ Held(q) /\ Exists(q)
    BY DEF Each
  <2>1. Thread(q)'
    BY <1>0, <2>0 DEF TypeOK, Thread, Exists
  <2>2. Claim(q)'
    <3>1. CASE q # r
      BY <2>0, <3>1 DEF TypeOK, Thread, Claim
    <3>2. CASE q = r
      BY <1>0, <3>2 DEF TypeOK, Thread, Claim
    <3> QED BY <3>1, <3>2
  <2>3. Answered(q)'
    BY <1>0, <2>0 DEF TypeOK, Thread, Claim, Answered
  <2>4. Held(q)'
    BY <1>0, <2>0 DEF TypeOK, Thread, Claim, Held
  <2>5. Exists(q)'
    BY <1>0, <2>0 DEF TypeOK, Exists
  <2> QED BY <2>1, <2>2, <2>3, <2>4, <2>5
<1>3. ASSUME NEW d \in Requests PROVE (Stage(d) /\ Members(d))'
  <2>0. Stage(d) /\ Members(d)
    BY DEF Each
  <2>1. Stage(d)'
    BY <1>0, <2>0 DEF TypeOK, Stage, Claim
  <2>2. Members(d)'
    BY <1>0, <2>0 DEF TypeOK, Members
  <2> QED BY <2>1, <2>2
<1>4. ASSUME NEW k \in Keys PROVE Entry(k)'
  BY <1>0 DEF TypeOK, Each, Entry
<1>5. activeOwners' = Cardinality(Owners')
  BY <1>0 DEF Owners
<1>6. waitingFollowers' = Cardinality(Followers')
  BY <1>0 DEF Followers
<1> QED BY <1>1, <1>2, <1>3, <1>4, <1>5, <1>6 DEF IInv, Each

LEMMA CancelRetireStep ==
  ASSUME IInv, NEW r \in Requests, CancelRetire(r)
  PROVE  IInv'
<1> USE RequestAssumption DEF IInv, CancelRetire, EraseInflight, requestVars,
   callVars, sharedVars, None, Cancelling
<1>0. /\ call[r] \in Requests /\ Thread(r) /\ Claim(r) /\ Answered(r) /\ Held(r)
      /\ Stage(call[r]) /\ Members(call[r]) /\ phase[call[r]] # "unused"
  <2>1. Thread(r) /\ Claim(r) /\ Answered(r) /\ Held(r) /\ Exists(r)
    BY DEF Each
  <2>2. call[r] \in Requests
    BY <2>1 DEF Thread, TypeOK
  <2>3. Stage(call[r]) /\ Members(call[r])
    BY <2>2 DEF Each
  <2> QED BY <2>1, <2>2, <2>3 DEF Exists
<1>1. TypeOK'
  <2>1. claim' \in [Requests -> Claims] /\ released' \in [Requests -> BOOLEAN]
    BY DEF TypeOK, Claims, ReleaseOwner
  <2>2. inflight' \in [Keys -> Requests \cup {NoCall}]
    BY DEF TypeOK
  <2>3. activeOwners' \in Nat
    BY <1>0, OwnerLeaves
  <2> QED BY <2>1, <2>2, <2>3 DEF TypeOK
<1>2. ASSUME NEW q \in Requests
      PROVE  (Thread(q) /\ Claim(q) /\ Answered(q) /\ Held(q) /\ Exists(q))'
  <2>0. Thread(q) /\ Claim(q) /\ Answered(q) /\ Held(q) /\ Exists(q)
    BY DEF Each
  <2>1. Thread(q)'
    BY <1>0, <2>0 DEF TypeOK, Thread, Exists
  <2>2. Claim(q)'
    <3>1. CASE q # r
      BY <2>0, <3>1 DEF TypeOK, Thread, Claim
    <3>2. CASE q = r
      BY <1>0, <3>2 DEF TypeOK, Thread, Claim
    <3> QED BY <3>1, <3>2
  <2>3. Answered(q)'
    BY <1>0, <2>0 DEF TypeOK, Thread, Claim, Answered
  <2>4. Held(q)'
    BY <1>0, <2>0 DEF TypeOK, Thread, Claim, Held
  <2>5. Exists(q)'
    BY <1>0, <2>0 DEF TypeOK, Exists
  <2> QED BY <2>1, <2>2, <2>3, <2>4, <2>5
<1>3. ASSUME NEW d \in Requests PROVE (Stage(d) /\ Members(d))'
  <2>0. Stage(d) /\ Members(d)
    BY DEF Each
  <2>1. Stage(d)'
    BY <1>0, <2>0 DEF TypeOK, Stage, ReleaseOwner
  <2>2. Members(d)'
    BY <1>0, <2>0 DEF TypeOK, Members, Claim
  <2> QED BY <2>1, <2>2
<1>4. ASSUME NEW k \in Keys PROVE Entry(k)'
  BY <1>0 DEF TypeOK, Each, Entry
<1>5. activeOwners' = Cardinality(Owners')
  BY <1>0, OwnerLeaves
<1>6. waitingFollowers' = Cardinality(Followers')
  BY <1>0 DEF Followers
<1> QED BY <1>1, <1>2, <1>3, <1>4, <1>5, <1>6 DEF IInv, Each

LEMMA CancelAnswerStep ==
  ASSUME IInv, NEW r \in Requests, CancelAnswer(r)
  PROVE  IInv'
<1> USE RequestAssumption DEF IInv, CancelAnswer, Invoke, requestVars, callVars,
   sharedVars, None, Cancelling
<1>0. /\ call[r] \in Requests /\ Thread(r) /\ Claim(r) /\ Answered(r) /\ Held(r)
      /\ Stage(call[r]) /\ Members(call[r]) /\ phase[call[r]] # "unused"
  <2>1. Thread(r) /\ Claim(r) /\ Answered(r) /\ Held(r) /\ Exists(r)
    BY DEF Each
  <2>2. call[r] \in Requests
    BY <2>1 DEF Thread, TypeOK
  <2>3. Stage(call[r]) /\ Members(call[r])
    BY <2>2 DEF Each
  <2> QED BY <2>1, <2>2, <2>3 DEF Exists
<1>1. TypeOK'
  <2>1. claim' \in [Requests -> Claims]
    BY DEF TypeOK, Claims
  <2>2. answer' \in [Requests -> Answers \cup {None}] /\ answered' \in [Requests -> Nat]
    BY DEF TypeOK, Answers
  <2> QED BY <2>1, <2>2 DEF TypeOK
<1>2. ASSUME NEW q \in Requests
      PROVE  (Thread(q) /\ Claim(q) /\ Answered(q) /\ Held(q) /\ Exists(q))'
  <2>0. Thread(q) /\ Claim(q) /\ Answered(q) /\ Held(q) /\ Exists(q)
    BY DEF Each
  <2>1. Thread(q)'
    BY <1>0, <2>0 DEF TypeOK, Thread, Exists
  <2>2. Claim(q)'
    <3>1. CASE q # r
      BY <2>0, <3>1 DEF TypeOK, Thread, Claim
    <3>2. CASE q = r
      BY <1>0, <3>2 DEF TypeOK, Thread, Claim
    <3> QED BY <3>1, <3>2
  <2>3. Answered(q)'
    <3>1. CASE q # r
      <4>1. UNCHANGED <<claim[q], pc[q], call[q], answered[q], answer[q]>>
        BY <3>1 DEF TypeOK
      <4> QED BY <2>0, <4>1 DEF Answered
    <3>2. CASE q = r
      BY <1>0, <3>2 DEF TypeOK, Thread, Claim, Answered
    <3> QED BY <3>1, <3>2
  <2>4. Held(q)'
    BY <1>0, <2>0 DEF TypeOK, Thread, Claim, Held
  <2>5. Exists(q)'
    BY <1>0, <2>0 DEF TypeOK, Exists
  <2> QED BY <2>1, <2>2, <2>3, <2>4, <2>5
<1>3. ASSUME NEW d \in Requests PROVE (Stage(d) /\ Members(d))'
  <2>0. Stage(d) /\ Members(d)
    BY DEF Each
  <2>1. Stage(d)'
    BY <1>0, <2>0 DEF TypeOK, Stage
  <2>2. Members(d)'
    BY <1>0, <2>0 DEF TypeOK, Members
  <2> QED BY <2>1, <2>2
<1>4. ASSUME NEW k \in Keys PROVE Entry(k)'
  BY <1>0 DEF TypeOK, Each, Entry
<1>5. activeOwners' = Cardinality(Owners')
  BY <1>0 DEF Owners
<1>6. waitingFollowers' = Cardinality(Followers')
  BY <1>0 DEF Followers
<1> QED BY <1>1, <1>2, <1>3, <1>4, <1>5, <1>6 DEF IInv, Each

LEMMA EndStep ==
  ASSUME IInv, NEW r \in Requests, End(r)
  PROVE  IInv'
<1> USE RequestAssumption DEF IInv, End, requestVars, callVars, sharedVars, None,
   Cancelling
<1>1. TypeOK'
  BY DEF TypeOK, Steps, Claims, Phases, Publishing, Answers, Outcomes, None
<1>2. ASSUME NEW q \in Requests
      PROVE  (Thread(q) /\ Claim(q) /\ Answered(q) /\ Held(q) /\ Exists(q))'
  <2>0. Thread(q) /\ Claim(q) /\ Answered(q) /\ Held(q) /\ Exists(q)
    BY DEF Each
  <2>1. Thread(q)'
    BY <2>0 DEF TypeOK, Thread, Exists
  <2>2. Claim(q)'
    BY <2>0 DEF TypeOK, Thread, Claim
  <2>3. Answered(q)'
    BY <2>0 DEF TypeOK, Thread, Claim, Answered
  <2>4. Held(q)'
    BY <2>0 DEF TypeOK, Thread, Claim, Held
  <2>5. Exists(q)'
    BY <2>0 DEF TypeOK, Exists
  <2> QED BY <2>1, <2>2, <2>3, <2>4, <2>5
<1>3. ASSUME NEW d \in Requests PROVE (Stage(d) /\ Members(d))'
  <2>0. Stage(d) /\ Members(d)
    BY DEF Each
  <2>1. Stage(d)'
    BY <2>0 DEF TypeOK, Stage
  <2>2. Members(d)'
    BY <2>0 DEF TypeOK, Members
  <2> QED BY <2>1, <2>2
<1>4. ASSUME NEW k \in Keys PROVE Entry(k)'
  BY DEF TypeOK, Each, Entry
<1>5. activeOwners' = Cardinality(Owners')
  BY DEF Owners
<1>6. waitingFollowers' = Cardinality(Followers')
  BY DEF Followers
<1> QED BY <1>1, <1>2, <1>3, <1>4, <1>5, <1>6 DEF IInv, Each

-----------------------------------------------------------------------------
(* The publication of a call, and the delivery to its consumers.            *)

LEMMA SettleStep ==
  ASSUME IInv, NEW c \in Requests, Settle(c)
  PROVE  IInv'
<1> USE RequestAssumption DEF IInv, requestVars, callVars, sharedVars, None, Cancelling
<1>0. PICK o \in Outcomes :
      /\ o = "cancelled" => workEnded[c]
      /\ outcome' = [outcome EXCEPT ![c] = o]
      /\ pub[c] = "queued"
      /\ pub' = [pub EXCEPT ![c] = IF o = "success" THEN "publish" ELSE "swap"]
      /\ UNCHANGED <<requestVars, phase, consumers, result, released, workEnded, todo, sharedVars>>
      /\ Stage(c) /\ Members(c)
  BY DEF Each, Settle
<1>1. TypeOK'
  <2>1. pub' \in [Requests -> Publishing]
    BY <1>0 DEF TypeOK, Publishing
  <2>2. outcome' \in [Requests -> Outcomes \cup {None}]
    BY <1>0 DEF TypeOK
  <2> QED BY <1>0, <2>1, <2>2 DEF TypeOK
<1>2. ASSUME NEW q \in Requests
      PROVE  (Thread(q) /\ Claim(q) /\ Answered(q) /\ Held(q) /\ Exists(q))'
  <2>0. Thread(q) /\ Claim(q) /\ Answered(q) /\ Held(q) /\ Exists(q)
    BY DEF Each
  <2>1. Thread(q)'
    BY <1>0, <2>0 DEF TypeOK, Thread, Exists
  <2>2. Claim(q)'
    BY <1>0, <2>0 DEF TypeOK, Thread, Claim
  <2>3. Answered(q)'
    BY <1>0, <2>0 DEF TypeOK, Thread, Claim, Answered
  <2>4. Held(q)'
    BY <1>0, <2>0 DEF TypeOK, Thread, Claim, Held
  <2>5. Exists(q)'
    BY <1>0, <2>0 DEF TypeOK, Exists
  <2> QED BY <2>1, <2>2, <2>3, <2>4, <2>5
<1>3. ASSUME NEW d \in Requests PROVE (Stage(d) /\ Members(d))'
  <2>0. Stage(d) /\ Members(d)
    BY DEF Each
  <2>1. Stage(d)'
    <3>1. CASE d # c
      BY <1>0, <2>0, <3>1 DEF TypeOK, Stage
    <3>2. CASE d = c
      BY <1>0, <3>2 DEF TypeOK, Stage, Outcomes
    <3> QED BY <3>1, <3>2
  <2>2. Members(d)'
    BY <1>0, <2>0 DEF TypeOK, Members
  <2> QED BY <2>1, <2>2
<1>4. ASSUME NEW k \in Keys PROVE Entry(k)'
  BY <1>0 DEF TypeOK, Each, Entry
<1>5. activeOwners' = Cardinality(Owners')
  BY <1>0 DEF Owners
<1>6. waitingFollowers' = Cardinality(Followers')
  BY <1>0 DEF Followers
<1> QED BY <1>1, <1>2, <1>3, <1>4, <1>5, <1>6 DEF IInv, Each

LEMMA PublishGivenUpStep ==
  ASSUME IInv, NEW c \in Requests, Publish(c), phase[c] = "Abandoned" \/ consumers[c] = {}
  PROVE  IInv'
<1> USE RequestAssumption DEF IInv, requestVars, callVars, sharedVars, None, Cancelling
<1>0. /\ pub[c] = "publish" /\ pub' = [pub EXCEPT ![c] = "swap"]
      /\ phase[c] = "Abandoned" /\ Stage(c) /\ Members(c)
      /\ UNCHANGED <<requestVars, phase, consumers, result, released, workEnded, outcome,
                     todo, sharedVars>>
  <2>1. Stage(c) /\ Members(c) /\ pub[c] = "publish"
    BY DEF Each, Publish
  <2>2. phase[c] = "Abandoned"
    BY <2>1 DEF Stage, Members
  <2>3. phase' = [phase EXCEPT ![c] = "Abandoned"] /\ pub' = [pub EXCEPT ![c] = "swap"]
    BY <2>2 DEF Publish
  <2>4. phase' = phase
    BY <2>2, <2>3 DEF TypeOK
  <2> QED BY <2>1, <2>2, <2>3, <2>4 DEF Publish
<1>1. TypeOK'
  BY <1>0 DEF TypeOK, Steps, Claims, Phases, Publishing, Answers, Outcomes, None
<1>2. ASSUME NEW q \in Requests
      PROVE  (Thread(q) /\ Claim(q) /\ Answered(q) /\ Held(q) /\ Exists(q))'
  <2>0. Thread(q) /\ Claim(q) /\ Answered(q) /\ Held(q) /\ Exists(q)
    BY DEF Each
  <2>1. Thread(q)'
    BY <1>0, <2>0 DEF TypeOK, Thread, Exists
  <2>2. Claim(q)'
    BY <1>0, <2>0 DEF TypeOK, Thread, Claim
  <2>3. Answered(q)'
    BY <1>0, <2>0 DEF TypeOK, Thread, Claim, Answered
  <2>4. Held(q)'
    BY <1>0, <2>0 DEF TypeOK, Thread, Claim, Held
  <2>5. Exists(q)'
    BY <1>0, <2>0 DEF TypeOK, Exists
  <2> QED BY <2>1, <2>2, <2>3, <2>4, <2>5
<1>3. ASSUME NEW d \in Requests PROVE (Stage(d) /\ Members(d))'
  <2>0. Stage(d) /\ Members(d)
    BY DEF Each
  <2>1. Stage(d)'
    BY <1>0, <2>0 DEF TypeOK, Stage
  <2>2. Members(d)'
    BY <1>0, <2>0 DEF TypeOK, Members
  <2> QED BY <2>1, <2>2
<1>4. ASSUME NEW k \in Keys PROVE Entry(k)'
  BY <1>0 DEF TypeOK, Each, Entry
<1>5. activeOwners' = Cardinality(Owners')
  BY <1>0 DEF Owners
<1>6. waitingFollowers' = Cardinality(Followers')
  BY <1>0 DEF Followers
<1> QED BY <1>1, <1>2, <1>3, <1>4, <1>5, <1>6 DEF IInv, Each

LEMMA PublishResultStep ==
  ASSUME IInv, NEW c \in Requests, Publish(c), ~ (phase[c] = "Abandoned" \/ consumers[c] = {})
  PROVE  IInv'
<1> USE RequestAssumption DEF IInv, requestVars, callVars, sharedVars, None, Cancelling
<1>0. /\ pub[c] = "publish" /\ pub' = [pub EXCEPT ![c] = "store"]
      /\ phase[c] = "Accepting" /\ phase' = [phase EXCEPT ![c] = "Publishing"]
      /\ result' = [result EXCEPT ![c] = TRUE] /\ Stage(c) /\ Members(c)
      /\ UNCHANGED <<requestVars, consumers, released, workEnded, outcome, todo, sharedVars>>
  <2>1. Stage(c) /\ Members(c) /\ pub[c] = "publish"
    BY DEF Each, Publish
  <2>2. phase[c] = "Accepting"
    BY <2>1 DEF Stage, Members
  <2> QED BY <2>1, <2>2 DEF Publish
<1>1. TypeOK'
  BY <1>0 DEF TypeOK, Steps, Claims, Phases, Publishing, Answers, Outcomes, None
<1>2. ASSUME NEW q \in Requests
      PROVE  (Thread(q) /\ Claim(q) /\ Answered(q) /\ Held(q) /\ Exists(q))'
  <2>0. Thread(q) /\ Claim(q) /\ Answered(q) /\ Held(q) /\ Exists(q)
    BY DEF Each
  <2>1. Thread(q)'
    BY <1>0, <2>0 DEF TypeOK, Thread, Exists
  <2>2. Claim(q)'
    BY <1>0, <2>0 DEF TypeOK, Thread, Claim
  <2>3. Answered(q)'
    BY <1>0, <2>0 DEF TypeOK, Thread, Claim, Answered
  <2>4. Held(q)'
    BY <1>0, <2>0 DEF TypeOK, Thread, Claim, Held
  <2>5. Exists(q)'
    BY <1>0, <2>0 DEF TypeOK, Exists
  <2> QED BY <2>1, <2>2, <2>3, <2>4, <2>5
<1>3. ASSUME NEW d \in Requests PROVE (Stage(d) /\ Members(d))'
  <2>0. Stage(d) /\ Members(d)
    BY DEF Each
  <2>1. Stage(d)'
    BY <1>0, <2>0 DEF TypeOK, Stage
  <2>2. Members(d)'
    BY <1>0, <2>0 DEF TypeOK, Members
  <2> QED BY <2>1, <2>2
<1>4. ASSUME NEW k \in Keys PROVE Entry(k)'
  BY <1>0 DEF TypeOK, Each, Entry
<1>5. activeOwners' = Cardinality(Owners')
  BY <1>0 DEF Owners
<1>6. waitingFollowers' = Cardinality(Followers')
  BY <1>0 DEF Followers
<1> QED BY <1>1, <1>2, <1>3, <1>4, <1>5, <1>6 DEF IInv, Each

LEMMA StoreStep ==
  ASSUME IInv, NEW c \in Requests, Store(c)
  PROVE  IInv'
<1> USE RequestAssumption DEF IInv, Store, requestVars, callVars, sharedVars, None,
   Cancelling
<1>0. Stage(c) /\ Members(c)
  BY DEF Each
<1>1. TypeOK'
  BY <1>0 DEF TypeOK, Steps, Claims, Phases, Publishing, Answers, Outcomes, None
<1>2. ASSUME NEW q \in Requests
      PROVE  (Thread(q) /\ Claim(q) /\ Answered(q) /\ Held(q) /\ Exists(q))'
  <2>0. Thread(q) /\ Claim(q) /\ Answered(q) /\ Held(q) /\ Exists(q)
    BY DEF Each
  <2>1. Thread(q)'
    BY <1>0, <2>0 DEF TypeOK, Thread, Exists
  <2>2. Claim(q)'
    BY <1>0, <2>0 DEF TypeOK, Thread, Claim
  <2>3. Answered(q)'
    BY <1>0, <2>0 DEF TypeOK, Thread, Claim, Answered
  <2>4. Held(q)'
    BY <1>0, <2>0 DEF TypeOK, Thread, Claim, Held
  <2>5. Exists(q)'
    BY <1>0, <2>0 DEF TypeOK, Exists
  <2> QED BY <2>1, <2>2, <2>3, <2>4, <2>5
<1>3. ASSUME NEW d \in Requests PROVE (Stage(d) /\ Members(d))'
  <2>0. Stage(d) /\ Members(d)
    BY DEF Each
  <2>1. Stage(d)'
    BY <1>0, <2>0 DEF TypeOK, Stage
  <2>2. Members(d)'
    BY <1>0, <2>0 DEF TypeOK, Members
  <2> QED BY <2>1, <2>2
<1>4. ASSUME NEW k \in Keys PROVE Entry(k)'
  BY <1>0 DEF TypeOK, Each, Entry
<1>5. activeOwners' = Cardinality(Owners')
  BY <1>0 DEF Owners
<1>6. waitingFollowers' = Cardinality(Followers')
  BY <1>0 DEF Followers
<1> QED BY <1>1, <1>2, <1>3, <1>4, <1>5, <1>6 DEF IInv, Each

LEMMA SwapStep ==
  ASSUME IInv, NEW c \in Requests, Swap(c)
  PROVE  IInv'
<1> USE RequestAssumption DEF IInv, Swap, requestVars, callVars, sharedVars, None,
   Cancelling
<1>0. /\ Stage(c) /\ Members(c) /\ todo[c] = {} /\ pc[c] = "returned"
      /\ \A q \in consumers[c] : pc[q] = "returned"
  <2>1. Stage(c) /\ Members(c) /\ todo[c] = {} /\ pc[c] = "returned"
    BY DEF Each, Stage, Members
  <2>2. ASSUME NEW q \in consumers[c] PROVE pc[q] = "returned"
    <3>1. q \in Requests
      BY DEF TypeOK
    <3>2. Thread(q) /\ call[q] = c /\ pc[q] \in {"own", "submit", "returned"}
      BY <2>1, <3>1 DEF Each, Members
    <3> QED BY <2>1, <3>2 DEF Thread
  <2> QED BY <2>1, <2>2
<1>1. TypeOK'
  BY <1>0 DEF TypeOK, Steps, Claims, Phases, Publishing, Answers, Outcomes, None
<1>2. ASSUME NEW q \in Requests
      PROVE  (Thread(q) /\ Claim(q) /\ Answered(q) /\ Held(q) /\ Exists(q))'
  <2>0. Thread(q) /\ Claim(q) /\ Answered(q) /\ Held(q) /\ Exists(q)
    BY DEF Each
  <2>1. Thread(q)'
    BY <1>0, <2>0 DEF TypeOK, Thread, Exists
  <2>2. Claim(q)'
    BY <1>0, <2>0 DEF TypeOK, Thread, Claim
  <2>3. Answered(q)'
    BY <1>0, <2>0 DEF TypeOK, Thread, Claim, Answered
  <2>4. Held(q)'
    <3>1. CASE call[q] # c
      BY <1>0, <2>0, <3>1 DEF TypeOK, Held, Thread
    <3>2. CASE call[q] = c
      BY <1>0, <2>0, <3>2 DEF TypeOK, Held, Thread
    <3> QED BY <3>1, <3>2
  <2>5. Exists(q)'
    BY <1>0, <2>0 DEF TypeOK, Exists
  <2> QED BY <2>1, <2>2, <2>3, <2>4, <2>5
<1>3. ASSUME NEW d \in Requests PROVE (Stage(d) /\ Members(d))'
  <2>0. Stage(d) /\ Members(d)
    BY DEF Each
  <2>1. Stage(d)'
    BY <1>0, <2>0 DEF TypeOK, Stage
  <2>2. Members(d)'
    <3>1. CASE d # c
      BY <2>0, <3>1 DEF TypeOK, Members
    <3>2. CASE d = c
      BY <1>0, <3>2 DEF TypeOK, Members, Stage
    <3> QED BY <3>1, <3>2
  <2> QED BY <2>1, <2>2
<1>4. ASSUME NEW k \in Keys PROVE Entry(k)'
  BY <1>0 DEF TypeOK, Each, Entry
<1>5. activeOwners' = Cardinality(Owners')
  BY <1>0 DEF Owners, TypeOK, Stage
<1>6. waitingFollowers' = Cardinality(Followers')
  BY <1>0 DEF Followers
<1> QED BY <1>1, <1>2, <1>3, <1>4, <1>5, <1>6 DEF IInv, Each

LEMMA RetireStep ==
  ASSUME IInv, NEW c \in Requests, Retire(c)
  PROVE  IInv'
<1> USE RequestAssumption DEF IInv, Retire, EraseInflight, requestVars, callVars,
   sharedVars, None, Cancelling
<1>0. Stage(c) /\ Members(c)
  BY DEF Each
<1>1. TypeOK'
  <2>1. pub' \in [Requests -> Publishing] /\ released' \in [Requests -> BOOLEAN]
    BY DEF TypeOK, Publishing, ReleaseOwner
  <2>2. inflight' \in [Keys -> Requests \cup {NoCall}]
    BY DEF TypeOK
  <2>3. activeOwners' \in Nat
    BY <1>0, OwnerLeaves DEF Stage
  <2> QED BY <2>1, <2>2, <2>3 DEF TypeOK
<1>2. ASSUME NEW q \in Requests
      PROVE  (Thread(q) /\ Claim(q) /\ Answered(q) /\ Held(q) /\ Exists(q))'
  <2>0. Thread(q) /\ Claim(q) /\ Answered(q) /\ Held(q) /\ Exists(q)
    BY DEF Each
  <2>1. Thread(q)'
    BY <1>0, <2>0 DEF TypeOK, Thread, Exists
  <2>2. Claim(q)'
    BY <1>0, <2>0 DEF TypeOK, Thread, Claim
  <2>3. Answered(q)'
    BY <1>0, <2>0 DEF TypeOK, Thread, Claim, Answered
  <2>4. Held(q)'
    BY <1>0, <2>0 DEF TypeOK, Thread, Claim, Held
  <2>5. Exists(q)'
    BY <1>0, <2>0 DEF TypeOK, Exists
  <2> QED BY <2>1, <2>2, <2>3, <2>4, <2>5
<1>3. ASSUME NEW d \in Requests PROVE (Stage(d) /\ Members(d))'
  <2>0. Stage(d) /\ Members(d)
    BY DEF Each
  <2>1. Stage(d)'
    BY <1>0, <2>0 DEF TypeOK, Stage, ReleaseOwner
  <2>2. Members(d)'
    BY <1>0, <2>0 DEF TypeOK, Members, Stage
  <2> QED BY <2>1, <2>2
<1>4. ASSUME NEW k \in Keys PROVE Entry(k)'
  BY <1>0 DEF TypeOK, Each, Entry
<1>5. activeOwners' = Cardinality(Owners')
  BY <1>0, OwnerLeaves DEF Stage
<1>6. waitingFollowers' = Cardinality(Followers')
  BY <1>0 DEF Followers
<1> QED BY <1>1, <1>2, <1>3, <1>4, <1>5, <1>6 DEF IInv, Each

LEMMA DeliverStep ==
  ASSUME IInv, NEW c \in Requests, NEW r \in Requests, Deliver(c, r)
  PROVE  IInv'
<1> USE RequestAssumption DEF IInv, Deliver, requestVars, callVars, sharedVars, None,
   Cancelling
<1>0. /\ call[r] = c /\ phase[c] = "Done" /\ todo[c] # {}
      /\ Thread(r) /\ Claim(r) /\ Answered(r) /\ Held(r) /\ Stage(c) /\ Members(c)
      /\ pc[r] = "returned"
  BY DEF Each, Members
<1>1. TypeOK'
  BY <1>0 DEF TypeOK, Steps, Claims, Phases, Publishing, Answers, Outcomes, None
<1>2. ASSUME NEW q \in Requests
      PROVE  (Thread(q) /\ Claim(q) /\ Answered(q) /\ Held(q) /\ Exists(q))'
  <2>0. Thread(q) /\ Claim(q) /\ Answered(q) /\ Held(q) /\ Exists(q)
    BY DEF Each
  <2>1. Thread(q)'
    BY <1>0, <2>0 DEF TypeOK, Thread, Exists
  <2>2. Claim(q)'
    <3>1. CASE q # r
      BY <1>0, <2>0, <3>1 DEF TypeOK, Thread, Claim
    <3>2. CASE q = r
      BY <1>0, <3>2 DEF TypeOK, Thread, Claim
    <3> QED BY <3>1, <3>2
  <2>3. Answered(q)'
    BY <1>0, <2>0 DEF TypeOK, Thread, Claim, Answered
  <2>4. Held(q)'
    <3>1. CASE q # r
      BY <1>0, <2>0, <3>1, ZenonT(40) DEF TypeOK, Thread, Claim, Held
    <3>2. CASE q = r
      BY <1>0, <3>2 DEF TypeOK, Thread, Claim, Held
    <3> QED BY <3>1, <3>2
  <2>5. Exists(q)'
    BY <1>0, <2>0 DEF TypeOK, Exists
  <2> QED BY <2>1, <2>2, <2>3, <2>4, <2>5
<1>3. ASSUME NEW d \in Requests PROVE (Stage(d) /\ Members(d))'
  <2>0. Stage(d) /\ Members(d)
    BY DEF Each
  <2>1. Stage(d)'
    BY <1>0, <2>0 DEF TypeOK, Stage
  <2>2. Members(d)'
    BY <1>0, <2>0 DEF TypeOK, Members
  <2> QED BY <2>1, <2>2
<1>4. ASSUME NEW k \in Keys PROVE Entry(k)'
  BY <1>0 DEF TypeOK, Each, Entry
<1>5. activeOwners' = Cardinality(Owners')
  BY <1>0 DEF Owners
<1>6. waitingFollowers' = Cardinality(Followers')
  BY <1>0 DEF Followers
<1> QED BY <1>1, <1>2, <1>3, <1>4, <1>5, <1>6 DEF IInv, Each

LEMMA CompleteStep ==
  ASSUME IInv, NEW r \in Requests, Complete(r)
  PROVE  IInv'
<1> USE RequestAssumption DEF IInv, Complete, Invoke, requestVars, callVars,
   sharedVars, None, Cancelling
<1>0. /\ Thread(r) /\ Claim(r) /\ Answered(r) /\ Held(r) /\ call[r] \in Requests
      /\ phase[call[r]] \in {"Publishing", "Done"} /\ r \notin consumers[call[r]]
      /\ UNCHANGED <<phase, consumers>> /\ waiting' = [waiting EXCEPT ![r] = FALSE]
      /\ waitingFollowers' = IF waiting[r] THEN waitingFollowers - 1 ELSE waitingFollowers
  <2>1. Thread(r) /\ Claim(r) /\ Answered(r) /\ Held(r)
    BY DEF Each
  <2>2. call[r] \in Requests /\ phase[call[r]] \in {"Publishing", "Done"}
    BY <2>1 DEF Thread, Claim, TypeOK
  <2>3. r \notin consumers[call[r]]
    BY <2>2 DEF Each, Members
  <2> QED BY <2>1, <2>2, <2>3 DEF Detach, LastLeaves, TypeOK
<1>1. TypeOK'
  <2>1. claim' \in [Requests -> Claims] /\ pc' \in [Requests -> Steps]
    BY DEF TypeOK, Claims, Steps
  <2>2. answer' \in [Requests -> Answers \cup {None}] /\ answered' \in [Requests -> Nat]
    BY <1>0 DEF TypeOK, Answers, Outcomes
  <2>3. waitingFollowers' \in Nat /\ waiting' \in [Requests -> BOOLEAN]
    BY <1>0, FollowerLeaves DEF TypeOK
  <2> QED BY <1>0, <2>1, <2>2, <2>3 DEF TypeOK
<1>2. ASSUME NEW q \in Requests
      PROVE  (Thread(q) /\ Claim(q) /\ Answered(q) /\ Held(q) /\ Exists(q))'
  <2>0. Thread(q) /\ Claim(q) /\ Answered(q) /\ Held(q) /\ Exists(q)
    BY DEF Each
  <2>1. Thread(q)'
    BY <1>0, <2>0 DEF TypeOK, Thread, Exists
  <2>2. Claim(q)'
    <3>1. CASE q # r
      BY <1>0, <2>0, <3>1 DEF TypeOK, Thread, Claim
    <3>2. CASE q = r
      BY <1>0, <3>2 DEF TypeOK, Thread, Claim
    <3> QED BY <3>1, <3>2
  <2>3. Answered(q)'
    <3>1. CASE q # r
      BY <1>0, <2>0, <3>1 DEF TypeOK, Thread, Claim, Answered
    <3>2. CASE q = r
      BY <1>0, <3>2 DEF TypeOK, Thread, Claim, Answered
    <3> QED BY <3>1, <3>2
  <2>4. Held(q)'
    <3>1. CASE q # r
      BY <1>0, <2>0, <3>1 DEF TypeOK, Thread, Claim, Held
    <3>2. CASE q = r
      BY <1>0, <3>2 DEF TypeOK, Thread, Claim, Held
    <3> QED BY <3>1, <3>2
  <2>5. Exists(q)'
    BY <1>0, <2>0 DEF TypeOK, Exists
  <2> QED BY <2>1, <2>2, <2>3, <2>4, <2>5
<1>3. ASSUME NEW d \in Requests PROVE (Stage(d) /\ Members(d))'
  <2>0. Stage(d) /\ Members(d)
    BY DEF Each
  <2>1. Stage(d)'
    BY <1>0, <2>0 DEF TypeOK, Stage
  <2>2. Members(d)'
    BY <1>0, <2>0 DEF TypeOK, Members
  <2> QED BY <2>1, <2>2
<1>4. ASSUME NEW k \in Keys PROVE Entry(k)'
  BY <1>0 DEF TypeOK, Each, Entry
<1>5. activeOwners' = Cardinality(Owners')
  BY <1>0 DEF Owners
<1>6. waitingFollowers' = Cardinality(Followers')
  BY <1>0, FollowerLeaves
<1> QED BY <1>1, <1>2, <1>3, <1>4, <1>5, <1>6 DEF IInv, Each

-----------------------------------------------------------------------------
LEMMA AroundStep ==
  ASSUME IInv, RequestShutdown \/ (\E k \in Keys : Expire(k)) \/ UNCHANGED vars
  PROVE  IInv'
<1> USE DEF IInv, RequestShutdown, Expire, vars, requestVars, callVars, sharedVars
<1>1. TypeOK'
  BY DEF TypeOK
<1>0. UNCHANGED <<requestVars, callVars, inflight, activeOwners, waitingFollowers>>
  OBVIOUS
<1>2. ASSUME NEW q \in Requests
      PROVE  (Thread(q) /\ Claim(q) /\ Answered(q) /\ Held(q) /\ Exists(q))'
  <2>0. Thread(q) /\ Claim(q) /\ Answered(q) /\ Held(q) /\ Exists(q)
    BY DEF Each
  <2>1. Thread(q)' /\ Exists(q)'
    BY <1>0, <2>0 DEF Thread, Exists
  <2>2. Claim(q)'
    BY <1>0, <2>0 DEF Claim
  <2>3. Answered(q)'
    BY <1>0, <2>0 DEF Answered
  <2>4. Held(q)'
    BY <1>0, <2>0 DEF Held
  <2> QED BY <2>1, <2>2, <2>3, <2>4
<1>3. ASSUME NEW d \in Requests PROVE (Stage(d) /\ Members(d))'
  <2>0. Stage(d) /\ Members(d)
    BY DEF Each
  <2>1. Stage(d)'
    BY <1>0, <2>0 DEF Stage
  <2>2. Members(d)'
    BY <1>0, <2>0 DEF Members
  <2> QED BY <2>1, <2>2
<1>4. ASSUME NEW k \in Keys PROVE Entry(k)'
  BY <1>0 DEF Each, Entry
<1>5. Owners' = Owners /\ Followers' = Followers
  BY <1>0 DEF Owners, Followers
<1> QED BY <1>0, <1>1, <1>2, <1>3, <1>4, <1>5 DEF IInv, Each

LEMMA NextIInv == IInv /\ [Next]_vars => IInv'
<1> SUFFICES ASSUME IInv, [Next]_vars PROVE IInv'
  OBVIOUS
<1>1. ASSUME NEW r \in Requests, RequestStep(r) PROVE IInv'
  <2>1. CASE Attach(r)
    BY <2>1, AttachJoinsStep, AttachTurnsBackStep
  <2> QED BY <1>1, <2>1, AnswerEarlyStep, SubmitStandaloneStep, MissCacheStep, JoinStep,
             OwnStep, PeekStep, RegisterStep, SeeClaimedStep, RetryEraseStep,
             RetryClaimStep, ClaimReadyStep, SubmitStep DEF RequestStep
<1>2. ASSUME NEW r \in Requests, CallbackStep(r) PROVE IInv'
  BY <1>2, CancelClaimStep, LastDetachesStep, OtherDetachesStep, CancelWorkStep,
     CancelRetireStep, CancelAnswerStep DEF CallbackStep
<1>3. ASSUME NEW c \in Requests, PublisherStep(c) PROVE IInv'
  BY <1>3, PublishGivenUpStep, PublishResultStep, StoreStep, SwapStep, RetireStep,
     DeliverStep DEF PublisherStep
<1> QED BY <1>1, <1>2, <1>3, CompleteStep, SettleStandaloneStep, EndStep, SettleStep,
           AroundStep DEF Next, Rest

(* The inductive invariant of the flights, their waiters and their threads. *)
THEOREM IInvHolds == Spec => []IInv
BY InitIInv, NextIInv, PTL DEF Spec

(* Work is wanted, for any number of requests and keys: a call that accepts *)
(* requests is the one in the registry and has consumers, and once its work *)
(* context is cancelled nobody waits for it again, so that no late request  *)
(* is tied to work that was given up.                                       *)
THEOREM OnlyWantedWork == Spec => []WorkIsWanted
<1>1. IInv => WorkIsWanted
  BY DEF IInv, Each, Members, Stage, WorkIsWanted
<1> QED BY <1>1, IInvHolds, PTL

(* The bookkeeping of the shared calls is right for any number of requests  *)
(* and keys: nobody who returned unanswered is forgotten, the two gauges    *)
(* count exactly the calls and the followers there are, and both are zero   *)
(* and the registry is empty once everything is answered.                   *)
THEOREM BookkeepingHolds == Spec => []Consistent
<1>1. IInv => SomebodyAnswers
  <2> SUFFICES ASSUME IInv, NEW r \in Requests, pc[r] = "returned", answered[r] = 0,
                      claim[r] \in {"free", "taken"}
               PROVE  \E c \in Requests : r \in consumers[c] \cup todo[c]
    BY DEF SomebodyAnswers
  <2>1. Answered(r) /\ Held(r)
    BY DEF IInv, Each
  <2>2. call[r] # NoCall /\ claim[r] = "free"
    BY <2>1 DEF Answered
  <2>3. call[r] \in Requests
    BY <2>2 DEF IInv, TypeOK
  <2> QED BY <2>1, <2>2, <2>3 DEF Held
<1>2. IInv => GaugesMatch
  <2> SUFFICES ASSUME IInv, Quiet PROVE Owners = {} /\ Followers = {}
                                        /\ \A k \in Keys : inflight[k] = NoCall
    BY FS_EmptySet DEF IInv, GaugesMatch, Owners, Followers
  <2>1. ASSUME NEW c \in Requests, phase[c] # "unused" PROVE pub[c] = "deliver" /\ released[c]
    <3>1. Stage(c)
      BY DEF IInv, Each
    <3> QED BY <2>1, <3>1 DEF Quiet, Stage
  <2>2. Owners = {}
    BY <2>1 DEF Owners
  <2>3. ASSUME NEW r \in Requests PROVE ~ waiting[r]
    <3>1. Held(r) /\ Answered(r)
      BY DEF IInv, Each
    <3> QED BY <3>1 DEF Quiet, Held, Answered
  <2>4. Followers = {}
    BY <2>3 DEF Followers
  <2>5. ASSUME NEW k \in Keys PROVE inflight[k] = NoCall
    <3>1. Entry(k) /\ inflight[k] \in Requests \cup {NoCall}
      BY DEF IInv, Each, TypeOK
    <3> QED BY <2>1, <3>1 DEF Entry
  <2> QED BY <2>2, <2>4, <2>5
<1>3. IInv => Consistent
  BY <1>1, <1>2 DEF IInv, Consistent
<1> QED BY <1>3, IInvHolds, PTL

-----------------------------------------------------------------------------
(* The refinement.  The abstract state, value by value, and what a step has *)
(* to do to it to be one of the steps of Coalescing.                        *)

FlightOf(c) ==
  IF phase[c] = "unused" THEN "unused"
  ELSE IF phase[c] = "Accepting" THEN "open"
  ELSE IF phase[c] = "Abandoned" THEN "dropped"
  ELSE IF result[c] THEN "ok" ELSE "fail"

MemberOf(r) == IF Waits(r) THEN call[r] ELSE NoCall

KeepFlights(S) == \A c \in Requests \ S : FlightOf(c)' = FlightOf(c)
KeepMembers(S) == \A r \in Requests \ S : MemberOf(r)' = MemberOf(r)

LEMMA Stutters ==
  ASSUME KeepFlights({}), KeepMembers({}), UNCHANGED <<ended, answer, answered>>
  PROVE  UNCHANGED Abstract!vars
BY DEF Abstract!vars, KeepFlights, KeepMembers, FlightOf, MemberOf, ReplyOf

LEMMA Launches ==
  ASSUME NEW r \in Requests, FlightOf(r) = "unused", FlightOf(r)' = "open",
         \A d \in Requests : Key[d] = Key[r] => FlightOf(d) # "open",
         answered[r] = 0, MemberOf(r) = NoCall, MemberOf(r)' = r,
         KeepFlights({r}), KeepMembers({r}), UNCHANGED <<ended, answer, answered>>
  PROVE  Abstract!Next
<1>1. Abstract!Launch(r)
  BY DEF Abstract!Launch, KeepFlights, KeepMembers, FlightOf, MemberOf, ReplyOf
<1> QED BY <1>1 DEF Abstract!Next

LEMMA Lands ==
  ASSUME NEW c \in Requests, NEW v \in {"ok", "fail"}, FlightOf(c) \in {"open", "dropped"},
         FlightOf(c)' = v,
         KeepFlights({c}), KeepMembers({}), UNCHANGED <<ended, answer, answered>>
  PROVE  Abstract!Next
<1>1. Abstract!Land(c, v)
  BY DEF Abstract!Land, KeepFlights, KeepMembers, FlightOf, MemberOf, ReplyOf
<1> QED BY <1>1 DEF Abstract!Next

LEMMA Joins ==
  ASSUME NEW r \in Requests, NEW c \in Requests, FlightOf(c) \in {"open", "ok"},
         answered[r] = 0, MemberOf(r) = NoCall, MemberOf(r)' = c,
         KeepFlights({}), KeepMembers({r}), UNCHANGED <<ended, answer, answered>>
  PROVE  Abstract!Next
<1>1. Abstract!Join(r, c)
  BY DEF Abstract!Join, KeepFlights, KeepMembers, FlightOf, MemberOf, ReplyOf
<1> QED BY <1>1 DEF Abstract!Next

LEMMA Withdraws ==
  ASSUME NEW r \in Requests, NEW c \in Requests, ended[r], MemberOf(r) = c, MemberOf(r)' = NoCall,
         \/ KeepFlights({})
         \/ /\ FlightOf(c) = "open" /\ FlightOf(c)' = "dropped" /\ KeepFlights({c})
            /\ \A d \in Requests \ {r} : MemberOf(d) # c,
         KeepMembers({r}), UNCHANGED <<ended, answer, answered>>
  PROVE  Abstract!Next
<1>1. Abstract!Withdraw(r)
  BY RequestAssumption DEF Abstract!Withdraw, Abstract!UnwantedBut, KeepFlights,
     KeepMembers, FlightOf, MemberOf, ReplyOf
<1> QED BY <1>1 DEF Abstract!Next

LEMMA AnswersOnce ==
  ASSUME NEW r \in Requests, NEW a \in {"ok", "fail", "cancelled", "refused"},
         answered \in [Requests -> Nat],
         answered[r] = 0, answered' = [answered EXCEPT ![r] = 1], ReplyOf(r)' = a,
         \A q \in Requests \ {r} : answer'[q] = answer[q],
         \/ a = "cancelled" /\ ended[r]
         \/ a \in {"ok", "fail"} /\ (MemberOf(r) # NoCall => FlightOf(MemberOf(r)) = a)
         \/ a = "refused",
         MemberOf(r)' = NoCall, MemberOf(r) \in Requests \cup {NoCall},
         KeepFlights({}), KeepMembers({r}), UNCHANGED ended
  PROVE  Abstract!Next
<1>1. Abstract!Answer(r, a)
  BY RequestAssumption DEF Abstract!Answer, KeepFlights, KeepMembers, FlightOf,
     MemberOf, ReplyOf
<1> QED BY <1>1 DEF Abstract!Next

-----------------------------------------------------------------------------
(* Steps that Coalescing does not see.                                      *)

LEMMA QuietThreadMaps ==
  ASSUME IInv, NEW r \in Requests,
         \/ MissCache(r) \/ Join(r) \/ Register(r) \/ SeeClaimed(r) \/ RetryErase(r)
         \/ RetryClaim(r) \/ Submit(r) \/ (ClaimReady(r) /\ claim[r] = "free")
  PROVE  UNCHANGED Abstract!vars
<1> USE DEF IInv, requestVars, callVars, sharedVars
<1>1. UNCHANGED <<ended, answer, answered, phase, result, consumers, todo>>
  BY DEF MissCache, Join, Register, SeeClaimed, RetryErase, RetryClaim, Submit, ClaimReady
<1>2. \A q \in Requests \ {r} : call'[q] = call[q] /\ claim'[q] = claim[q] /\ pc'[q] = pc[q]
  BY DEF TypeOK, MissCache, Join, Register, SeeClaimed, RetryErase, RetryClaim, Submit,
     ClaimReady
<1>3. KeepMembers({r})
  BY <1>1, <1>2 DEF KeepMembers, MemberOf, Waits
<1>4. MemberOf(r)' = MemberOf(r)
  <2>0. Thread(r) /\ Claim(r)
    BY DEF Each
  <2>1. CASE \/ MissCache(r) \/ SeeClaimed(r) \/ RetryErase(r) \/ RetryClaim(r) \/ Submit(r)
             \/ Register(r)
    <3>1. call' = call /\ pc[r] # "ready" /\ pc'[r] # "ready"
      BY <2>1 DEF TypeOK, MissCache, Register, SeeClaimed, RetryErase, RetryClaim, Submit
    <3>2. (claim'[r] = "deliver") = (claim[r] = "deliver")
      BY <2>1 DEF TypeOK, MissCache, Register, SeeClaimed, RetryErase, RetryClaim, Submit
    <3> QED BY <1>1, <3>1, <3>2 DEF MemberOf, Waits
  <2>2. CASE Join(r)
    <3>1. pc[r] = "lookup" /\ pc'[r] = "peek" /\ claim[r] # "deliver" /\ claim'[r] = "free"
          /\ call'[r] \in Requests \cup {NoCall} /\ call[r] \in Requests \cup {NoCall}
      BY <2>0, <2>2, RequestAssumption DEF Join, TypeOK, Claim
    <3>2. \A c \in Requests : r \notin consumers[c] /\ r \notin todo[c]
      BY <3>1, Outside
    <3> QED BY <1>1, <3>1, <3>2 DEF MemberOf, Waits
  <2>3. CASE ClaimReady(r) /\ claim[r] = "free"
    <3>1. call' = call /\ pc[r] = "ready" /\ claim'[r] = "deliver"
      BY <2>3 DEF ClaimReady, TypeOK
    <3> QED BY <1>1, <3>1 DEF MemberOf, Waits
  <2> QED BY <2>1, <2>2, <2>3
<1>5. KeepFlights({})
  BY <1>1 DEF KeepFlights, FlightOf
<1> QED BY <1>1, <1>3, <1>4, <1>5, Stutters DEF KeepMembers

LEMMA QuietCallbackMaps ==
  ASSUME IInv, NEW r \in Requests, CancelClaim(r) \/ CancelWork(r) \/ CancelRetire(r)
  PROVE  UNCHANGED Abstract!vars
<1> USE DEF IInv, CancelClaim, CancelWork, CancelRetire, callVars, sharedVars
<1>1. UNCHANGED <<pc, ended, call, answer, answered, phase, result, consumers, todo>>
  OBVIOUS
<1>2. \A q \in Requests : (claim'[q] = "deliver") = (claim[q] = "deliver")
  BY DEF TypeOK
<1>3. KeepFlights({}) /\ KeepMembers({})
  BY <1>1, <1>2 DEF KeepFlights, KeepMembers, FlightOf, MemberOf, Waits
<1> QED BY <1>1, <1>3, Stutters

LEMMA QuietPublisherMaps ==
  ASSUME IInv, NEW c \in Requests,
         \/ Settle(c) \/ Store(c) \/ Retire(c)
         \/ Publish(c) /\ (phase[c] = "Abandoned" \/ consumers[c] = {})
  PROVE  UNCHANGED Abstract!vars
<1> USE DEF IInv, requestVars, sharedVars
<1>1. UNCHANGED <<requestVars, result, consumers, todo>>
  BY DEF Settle, Store, Retire, Publish
<1>2. phase' = phase
  <2>1. CASE Publish(c) /\ (phase[c] = "Abandoned" \/ consumers[c] = {})
    <3>0. Stage(c) /\ Members(c) /\ pub[c] = "publish"
      BY <2>1 DEF Publish, Each
    <3>1. phase[c] = "Abandoned"
      BY <2>1, <3>0 DEF Stage, Members, None
    <3>2. phase' = [phase EXCEPT ![c] = "Abandoned"]
      BY <2>1 DEF Publish
    <3> QED BY <3>1, <3>2 DEF TypeOK
  <2> QED BY <2>1 DEF Settle, Store, Retire
<1>3. KeepFlights({}) /\ KeepMembers({})
  BY <1>1, <1>2 DEF KeepFlights, KeepMembers, FlightOf, MemberOf, Waits
<1> QED BY <1>1, <1>3, Stutters

LEMMA AroundMaps ==
  ASSUME RequestShutdown \/ (\E k \in Keys : Expire(k)) \/ UNCHANGED vars
  PROVE  UNCHANGED Abstract!vars
<1>1. UNCHANGED <<requestVars, callVars>>
  BY DEF RequestShutdown, Expire, vars
<1>2. KeepFlights({}) /\ KeepMembers({})
  BY <1>1 DEF KeepFlights, KeepMembers, FlightOf, MemberOf, Waits, requestVars, callVars
<1> QED BY <1>1, <1>2, Stutters DEF requestVars

-----------------------------------------------------------------------------
(* The steps that Coalescing sees.                                          *)

(* A call is made for a key whose entry is empty, so none accepts there.    *)
LEMMA OwnMaps ==
  ASSUME IInv, NEW r \in Requests, Own(r) PROVE Abstract!Next
<1> USE DEF IInv, Own
<1>1. /\ phase[r] = "unused" /\ call[r] # r
      /\ \A c \in Requests : r \notin consumers[c] /\ r \notin todo[c]
  BY Outside
<1>2. claim[r] # "deliver" /\ answered[r] = 0
  BY DEF Each, Claim, Answered
<1>3. FlightOf(r) = "unused" /\ FlightOf(r)' = "open" /\ KeepFlights({r})
  BY <1>1 DEF FlightOf, KeepFlights, TypeOK
<1>4. \A d \in Requests : Key[d] = Key[r] => FlightOf(d) # "open"
  BY RequestAssumption DEF FlightOf, Each, Members
<1>5. MemberOf(r) = NoCall
  BY <1>1, <1>2 DEF MemberOf, Waits, TypeOK
<1>6. MemberOf(r)' = r
  <2>1. call'[r] = r /\ consumers'[r] = {r} /\ answered'[r] = 0
    BY <1>2 DEF TypeOK
  <2> QED BY <2>1, RequestAssumption DEF MemberOf, Waits
<1>7. KeepMembers({r})
  <2> SUFFICES ASSUME NEW q \in Requests \ {r} PROVE MemberOf(q)' = MemberOf(q)
    BY DEF KeepMembers
  <2>1. call'[q] = call[q] /\ claim'[q] = claim[q] /\ pc'[q] = pc[q]
    BY DEF TypeOK
  <2>2. call[q] # NoCall => call[q] \in Requests /\ call[q] # r
    BY <1>1 DEF TypeOK, Each, Exists
  <2>3. call[q] # NoCall => consumers'[call[q]] = consumers[call[q]]
    BY <2>2 DEF TypeOK
  <2> QED BY <2>1, <2>3 DEF MemberOf, Waits
<1> QED BY <1>2, <1>3, <1>4, <1>5, <1>6, <1>7, Launches

(* A follower joins while the call accepts, or finds the result there.      *)
LEMMA AttachJoinsMaps ==
  ASSUME IInv, NEW r \in Requests, Attach(r), phase[call[r]] = "Accepting", claim[r] = "free"
  PROVE  Abstract!Next
<1> USE DEF IInv
<1>1. /\ UNCHANGED <<ended, call, claim, answer, answered, phase, result, todo>>
      /\ pc[r] = "attach" /\ pc' = [pc EXCEPT ![r] = "returned"]
      /\ consumers' = [consumers EXCEPT ![call[r]] = @ \cup {r}]
  BY DEF Attach
<1>2. call[r] \in Requests /\ call[r] # NoCall /\ answered[r] = 0
  BY <1>1, RequestAssumption DEF TypeOK, Each, Thread, Answered
<1>3. \A c \in Requests : r \notin consumers[c] /\ r \notin todo[c]
  BY <1>1, Outside
<1>4. MemberOf(r) = NoCall
  BY <1>1, <1>2, <1>3 DEF MemberOf, Waits
<1>5. MemberOf(r)' = call[r]
  BY <1>1, <1>2 DEF MemberOf, Waits, TypeOK
<1>6. KeepMembers({r})
  <2> SUFFICES ASSUME NEW q \in Requests \ {r} PROVE MemberOf(q)' = MemberOf(q)
    BY DEF KeepMembers
  <2>1. pc'[q] = pc[q]
    BY <1>1 DEF TypeOK
  <2>2. call[q] # NoCall => (q \in consumers'[call[q]]) = (q \in consumers[call[q]])
    BY <1>1, <1>2 DEF TypeOK
  <2> QED BY <1>1, <2>1, <2>2 DEF MemberOf, Waits
<1>7. KeepFlights({}) /\ FlightOf(call[r]) = "open"
  BY <1>1 DEF KeepFlights, FlightOf
<1> QED BY <1>1, <1>2, <1>4, <1>5, <1>6, <1>7, Joins

LEMMA LooksMaps ==
  ASSUME IInv, NEW r \in Requests, pc[r] \in {"peek", "attach"},
         NEW to \in Steps, pc' = [pc EXCEPT ![r] = to],
         to = "ready" => result[call[r]] /\ phase[call[r]] \in {"Publishing", "Done"},
         UNCHANGED <<ended, call, claim, answer, answered, callVars>>
  PROVE  Abstract!Next \/ UNCHANGED Abstract!vars
<1> USE DEF IInv, callVars
<1>1. call[r] \in Requests /\ call[r] # NoCall /\ claim[r] # "deliver"
  BY RequestAssumption DEF TypeOK, Each, Thread, Claim
<1>2. \A c \in Requests : r \notin consumers[c] /\ r \notin todo[c]
  BY Outside
<1>3. MemberOf(r) = NoCall /\ KeepFlights({}) /\ KeepMembers({r})
  BY <1>1, <1>2 DEF MemberOf, Waits, KeepFlights, FlightOf, KeepMembers, TypeOK
<1>4. CASE to = "ready" /\ answered[r] = 0
  <2>1. MemberOf(r)' = call[r] /\ FlightOf(call[r]) = "ok"
    BY <1>1, <1>4 DEF MemberOf, Waits, FlightOf, TypeOK
  <2> QED BY <1>1, <1>3, <1>4, <2>1, Joins
<1>5. CASE to # "ready" \/ answered[r] # 0
  <2>1. MemberOf(r)' = NoCall
    BY <1>1, <1>2, <1>5 DEF MemberOf, Waits, TypeOK
  <2> QED BY <1>3, <2>1, Stutters DEF KeepMembers
<1> QED BY <1>4, <1>5

LEMMA PeekMaps ==
  ASSUME IInv, NEW r \in Requests,
         Peek(r) \/ (Attach(r) /\ ~ (phase[call[r]] = "Accepting" /\ claim[r] = "free"))
  PROVE  Abstract!Next \/ UNCHANGED Abstract!vars
<1>1. UNCHANGED <<ended, call, claim, answer, answered, callVars>> /\ pc[r] \in {"peek", "attach"}
  BY DEF Peek, Attach, callVars
<1>2. CASE phase[call[r]] = "Accepting"
  <2>1. PICK to \in {"register", "returned"} : pc' = [pc EXCEPT ![r] = to]
    BY <1>2 DEF Peek, Attach
  <2> QED BY <1>1, <2>1, LooksMaps DEF Steps
<1>3. CASE phase[call[r]] \in {"Publishing", "Done"} /\ result[call[r]]
  <2>1. pc' = [pc EXCEPT ![r] = "ready"]
    BY <1>3 DEF Peek, Attach
  <2> QED BY <1>1, <1>3, <2>1, LooksMaps DEF Steps
<1>4. CASE phase[call[r]] # "Accepting" /\ ~ (phase[call[r]] \in {"Publishing", "Done"} /\ result[call[r]])
  <2>1. pc' = [pc EXCEPT ![r] = "retry"]
    BY <1>4 DEF Peek, Attach
  <2> QED BY <1>1, <2>1, LooksMaps DEF Steps
<1> QED BY <1>2, <1>3, <1>4

(* A request whose completion its callback has claimed leaves the call: it  *)
(* is passed over, by its own thread or by the publisher, ...               *)
LEMMA PassedOverMaps ==
  ASSUME IInv, NEW r \in Requests, claim[r] # "free",
         ClaimReady(r) \/ \E c \in Requests : Deliver(c, r)
  PROVE  Abstract!Next \/ UNCHANGED Abstract!vars
<1> USE DEF IInv, callVars, sharedVars
<1>1. /\ UNCHANGED <<ended, call, answer, answered, phase, result, consumers>>
      /\ claim' = claim
  BY DEF ClaimReady, Deliver, TypeOK
<1>2. KeepFlights({})
  BY <1>1 DEF KeepFlights, FlightOf
<1>3. KeepMembers({r}) /\ call[r] \in Requests /\ call[r] # NoCall
      /\ MemberOf(r)' = NoCall /\ (answered[r] = 0 => ended[r] /\ MemberOf(r) = call[r])
  <2>0. Thread(r) /\ Claim(r) /\ Answered(r)
    BY DEF Each
  <2>1. CASE ClaimReady(r)
    <3>1. /\ pc[r] = "ready" /\ pc' = [pc EXCEPT ![r] = "returned"] /\ todo' = todo
          /\ \A c \in Requests : r \notin consumers[c] /\ r \notin todo[c]
      BY <2>1, Outside DEF ClaimReady
    <3>2. claim[r] # "deliver" /\ call[r] \in Requests /\ call[r] # NoCall
      BY <2>0, <3>1, RequestAssumption DEF Thread, Claim, TypeOK
    <3>3. answered[r] = 0 => ended[r]
      <4>1. answered[r] = 0 => claim[r] \in Cancelling
        <5>1. claim[r] = "taken" => answered[r] = 1
          BY <2>0, <3>1 DEF Answered, None
        <5>2. claim[r] # "taken" => claim[r] \in Cancelling
          BY <3>2 DEF TypeOK, Claims, Cancelling
        <5> QED BY <5>1, <5>2
      <4> QED BY <2>0, <4>1 DEF Claim
    <3>4. MemberOf(r)' = NoCall /\ (answered[r] = 0 => MemberOf(r) = call[r])
      BY <1>1, <3>1, <3>2 DEF MemberOf, Waits, TypeOK
    <3>5. KeepMembers({r})
      BY <1>1, <3>1 DEF KeepMembers, MemberOf, Waits, TypeOK
    <3> QED BY <3>2, <3>3, <3>4, <3>5
  <2>2. ASSUME NEW c \in Requests, Deliver(c, r)
        PROVE  /\ KeepMembers({r}) /\ call[r] \in Requests /\ call[r] # NoCall
               /\ MemberOf(r)' = NoCall /\ (answered[r] = 0 => ended[r] /\ MemberOf(r) = call[r])
    <3>1. r \in todo[c] /\ pc' = pc /\ todo' = [todo EXCEPT ![c] = @ \ {r}] /\ Members(c)
      BY <2>2 DEF Deliver, Each
    <3>2. /\ call[r] = c /\ pc[r] = "returned" /\ claim[r] \in {"detach", "call", "taken"}
          /\ consumers[c] = {} /\ c # NoCall
      BY <3>1, RequestAssumption DEF Members
    <3>3. answered[r] = 0 => ended[r]
      <4>1. answered[r] = 0 => claim[r] \in Cancelling
        <5>1. claim[r] = "taken" => answered[r] = 1
          BY <2>0, <3>2 DEF Answered, None
        <5>2. claim[r] # "taken" => claim[r] \in Cancelling
          BY <3>2 DEF Cancelling
        <5> QED BY <5>1, <5>2
      <4> QED BY <2>0, <4>1 DEF Claim
    <3>4. MemberOf(r)' = NoCall /\ (answered[r] = 0 => MemberOf(r) = call[r])
      BY <1>1, <3>1, <3>2 DEF MemberOf, Waits, TypeOK
    <3>5. \A q \in Requests \ {r} : \A d \in Requests : (q \in todo'[d]) = (q \in todo[d])
      BY <3>1 DEF TypeOK
    <3>6. KeepMembers({r})
      BY <1>1, <3>1, <3>5 DEF KeepMembers, MemberOf, Waits, TypeOK
    <3> QED BY <3>2, <3>3, <3>4, <3>6
  <2> QED BY <2>1, <2>2
<1>4. CASE answered[r] = 0
  BY <1>1, <1>2, <1>3, <1>4, Withdraws
<1>5. CASE answered[r] # 0
  <2>1. MemberOf(r) = NoCall
    BY <1>5 DEF MemberOf, Waits
  <2> QED BY <1>1, <1>2, <1>3, <2>1, Stutters DEF KeepMembers
<1> QED BY <1>4, <1>5

LEMMA DeliverMaps ==
  ASSUME IInv, NEW c \in Requests, NEW r \in Requests, Deliver(c, r)
  PROVE  Abstract!Next \/ UNCHANGED Abstract!vars
<1> USE DEF IInv, sharedVars
<1>1. CASE claim[r] # "free"
  BY <1>1, PassedOverMaps
<1>2. CASE claim[r] = "free"
  <2>1. /\ UNCHANGED <<pc, ended, call, answer, answered, phase, result, consumers>>
        /\ claim' = [claim EXCEPT ![r] = "deliver"] /\ todo' = [todo EXCEPT ![c] = @ \ {r}]
        /\ r \in todo[c] /\ call[r] = c
    BY <1>2 DEF Deliver, Each, Members
  <2>2. KeepFlights({})
    BY <2>1 DEF KeepFlights, FlightOf
  <2>3. ASSUME NEW q \in Requests PROVE MemberOf(q)' = MemberOf(q)
    <3>1. CASE q = r
      BY <2>1, <3>1 DEF MemberOf, Waits, TypeOK
    <3>2. CASE q # r
      <4>1. \A d \in Requests : (q \in todo'[d]) = (q \in todo[d])
        BY <2>1, <3>2 DEF TypeOK
      <4> QED BY <2>1, <3>2, <4>1 DEF MemberOf, Waits, TypeOK
    <3> QED BY <3>1, <3>2
  <2> QED BY <2>1, <2>2, <2>3, Stutters DEF KeepMembers
<1> QED BY <1>1, <1>2

(* ... or by the callback, which gives the call up if nobody else is left.  *)
LEMMA CancelDetachMaps ==
  ASSUME IInv, NEW r \in Requests, CancelDetach(r)
  PROVE  Abstract!Next \/ UNCHANGED Abstract!vars
<1> USE DEF IInv
<1>1. /\ UNCHANGED <<pc, ended, call, answer, answered, result, todo>>
      /\ claim[r] = "detach" /\ ended[r]
      /\ consumers' = [consumers EXCEPT ![call[r]] = @ \ {r}]
      /\ phase' = [phase EXCEPT ![call[r]] = IF LastLeaves(r) THEN "Abandoned" ELSE @]
      /\ \A q \in Requests : (claim'[q] = "deliver") = (claim[q] = "deliver")
  BY DEF CancelDetach, Detach, TypeOK, Each, Claim, Cancelling
<1>2. call[r] \in Requests /\ call[r] # NoCall /\ answered[r] = 0
  BY <1>1, RequestAssumption DEF TypeOK, Each, Thread, Answered
<1>3. Members(call[r]) /\ Stage(call[r])
  BY <1>2 DEF Each
<1>4. KeepMembers({r})
  <2> SUFFICES ASSUME NEW q \in Requests \ {r} PROVE MemberOf(q)' = MemberOf(q)
    BY DEF KeepMembers
  <2>1. \A d \in Requests : (q \in consumers'[d]) = (q \in consumers[d])
    BY <1>1, <1>2 DEF TypeOK
  <2> QED BY <1>1, <2>1 DEF MemberOf, Waits, TypeOK
<1>5. CASE LastLeaves(r)
  <2>1. phase[call[r]] = "Accepting" /\ consumers[call[r]] = {r} /\ todo[call[r]] = {}
    BY <1>3, <1>5 DEF LastLeaves, Members
  <2>2. pc[r] # "ready"
    BY <2>1 DEF Each, Thread
  <2>3. MemberOf(r) = call[r] /\ MemberOf(r)' = NoCall
    BY <1>1, <1>2, <2>1, <2>2 DEF MemberOf, Waits, TypeOK
  <2>4. PICK c \in Requests : c = call[r]
    BY <1>2
  <2>5. FlightOf(c) = "open" /\ FlightOf(c)' = "dropped" /\ KeepFlights({c})
    BY <1>1, <1>5, <2>1, <2>4 DEF FlightOf, KeepFlights, TypeOK
  <2>6. ASSUME NEW d \in Requests \ {r}, MemberOf(d) = c PROVE FALSE
    <3>1. Waits(d) /\ call[d] = c
      BY <2>6, RequestAssumption DEF MemberOf
    <3>2. claim[d] = "deliver" \/ pc[d] = "ready"
      BY <2>1, <2>4, <3>1 DEF Waits
    <3> QED BY <2>1, <2>4, <3>1, <3>2 DEF Each, Thread, Claim
  <2> QED BY <1>1, <1>4, <2>3, <2>4, <2>5, <2>6, Withdraws
<1>6. CASE ~ LastLeaves(r)
  <2>1. phase' = phase
    BY <1>1, <1>2, <1>6 DEF TypeOK
  <2>2. KeepFlights({})
    BY <1>1, <2>1 DEF KeepFlights, FlightOf
  <2>3. CASE MemberOf(r)' = MemberOf(r)
    BY <1>1, <1>4, <2>2, <2>3, Stutters DEF KeepMembers
  <2>4. CASE MemberOf(r)' # MemberOf(r)
    <3>1. MemberOf(r) = call[r] /\ MemberOf(r)' = NoCall
      BY <1>1, <1>2, <2>4 DEF MemberOf, Waits, TypeOK
    <3> QED BY <1>1, <1>2, <1>4, <2>2, <3>1, Withdraws
  <2> QED BY <2>3, <2>4
<1> QED BY <1>5, <1>6

(* The publisher sets the result, or ends a call that still accepts.        *)
LEMMA PublishMaps ==
  ASSUME IInv, NEW c \in Requests, Publish(c), ~ (phase[c] = "Abandoned" \/ consumers[c] = {})
  PROVE  Abstract!Next
<1> USE DEF IInv, requestVars, sharedVars
<1>1. /\ UNCHANGED <<requestVars, consumers, todo>> /\ pub[c] = "publish"
      /\ phase' = [phase EXCEPT ![c] = "Publishing"] /\ result' = [result EXCEPT ![c] = TRUE]
  BY DEF Publish
<1>2. phase[c] = "Accepting"
  <2>1. Stage(c) /\ Members(c)
    BY DEF Each
  <2> QED BY <1>1, <2>1 DEF Stage, Members
<1>3. FlightOf(c) = "open" /\ FlightOf(c)' = "ok" /\ KeepFlights({c})
  BY <1>1, <1>2 DEF FlightOf, KeepFlights, TypeOK
<1>4. KeepMembers({})
  BY <1>1 DEF KeepMembers, MemberOf, Waits
<1> QED BY <1>1, <1>3, <1>4, Lands

LEMMA SwapMaps ==
  ASSUME IInv, NEW c \in Requests, Swap(c) PROVE Abstract!Next \/ UNCHANGED Abstract!vars
<1> USE DEF IInv, requestVars, sharedVars
<1>1. /\ UNCHANGED <<requestVars, result>> /\ pub[c] = "swap"
      /\ phase' = [phase EXCEPT ![c] = IF @ = "Abandoned" THEN @ ELSE "Done"]
      /\ todo' = [todo EXCEPT ![c] = consumers[c]] /\ consumers' = [consumers EXCEPT ![c] = {}]
  BY DEF Swap
<1>2. Stage(c) /\ Members(c)
  BY DEF Each
<1>3. phase[c] \in {"Accepting", "Publishing", "Abandoned"} /\ todo[c] = {}
  BY <1>1, <1>2 DEF Stage, Members
<1>4. KeepMembers({})
  <2> SUFFICES ASSUME NEW q \in Requests PROVE MemberOf(q)' = MemberOf(q)
    BY DEF KeepMembers
  <2>1. \A d \in Requests : (q \in consumers'[d] \cup todo'[d]) = (q \in consumers[d] \cup todo[d])
    BY <1>1, <1>3 DEF TypeOK
  <2> QED BY <1>1, <2>1 DEF MemberOf, Waits, TypeOK
<1>5. KeepFlights({c})
  BY <1>1 DEF KeepFlights, FlightOf, TypeOK
<1>6. CASE phase[c] = "Accepting"
  <2>1. ~ result[c]
    BY <1>2, <1>6 DEF Stage
  <2>2. FlightOf(c) = "open" /\ FlightOf(c)' = "fail"
    BY <1>1, <1>6, <2>1 DEF FlightOf, TypeOK
  <2> QED BY <1>1, <1>4, <1>5, <2>2, Lands
<1>7. CASE phase[c] \in {"Publishing", "Abandoned"}
  <2>1. FlightOf(c)' = FlightOf(c)
    BY <1>1, <1>7 DEF FlightOf, TypeOK
  <2> QED BY <1>1, <1>4, <1>5, <2>1, Stutters DEF KeepFlights
<1> QED BY <1>3, <1>6, <1>7

(* A request is answered with a reply it may get.                           *)
LEMMA AnswerMaps ==
  ASSUME IInv, NEW r \in Requests, NEW a \in Answers, Invoke(r, a), answered[r] = 0,
         \/ a = "cancelled" /\ ended[r]
         \/ a = "stopping"
         \/ MemberOf(r) = NoCall /\ a \in {"success", "failure"}
         \/ /\ MemberOf(r) \in Requests /\ a \in {"success", "failure"}
            /\ FlightOf(MemberOf(r)) = IF a = "success" THEN "ok" ELSE "fail",
         KeepMembers({r}), KeepFlights({}), UNCHANGED ended
  PROVE  Abstract!Next
<1> USE DEF IInv, Invoke, Answers
<1>1. answered' = [answered EXCEPT ![r] = 1] /\ answered \in [Requests -> Nat]
      /\ \A q \in Requests \ {r} : answer'[q] = answer[q]
  BY DEF TypeOK
<1>2. MemberOf(r)' = NoCall /\ MemberOf(r) \in Requests \cup {NoCall}
  BY <1>1 DEF MemberOf, Waits, TypeOK
<1>3. answer'[r] = a
  BY DEF TypeOK
<1>4. CASE a = "success"
  BY <1>1, <1>2, <1>3, <1>4, AnswersOnce DEF ReplyOf
<1>5. CASE a = "failure"
  BY <1>1, <1>2, <1>3, <1>5, AnswersOnce DEF ReplyOf
<1>6. CASE a = "stopping"
  BY <1>1, <1>2, <1>3, <1>6, AnswersOnce DEF ReplyOf
<1>7. CASE a = "cancelled"
  BY <1>1, <1>2, <1>3, <1>7, AnswersOnce DEF ReplyOf
<1> QED BY <1>4, <1>5, <1>6, <1>7

LEMMA AloneMaps ==
  ASSUME IInv, NEW r \in Requests,
         AnswerEarly(r) \/ SubmitStandalone(r) \/ SettleStandalone(r)
  PROVE  Abstract!Next \/ UNCHANGED Abstract!vars
<1> USE DEF IInv, callVars, sharedVars
<1>1. /\ UNCHANGED <<ended, call, claim, callVars>> /\ pc[r] \in {"new", "standalone"}
      /\ \A q \in Requests \ {r} : pc'[q] = pc[q]
  BY DEF AnswerEarly, SubmitStandalone, SettleStandalone, TypeOK
<1>2. call[r] = NoCall /\ answered[r] = 0
  BY <1>1 DEF Each, Thread, Answered
<1>3. KeepFlights({}) /\ MemberOf(r) = NoCall /\ MemberOf(r)' = NoCall
  BY <1>1, <1>2 DEF KeepFlights, FlightOf, MemberOf, Waits
<1>4. CASE UNCHANGED <<answer, answered>>
  <2>1. KeepMembers({})
    BY <1>1, <1>3, <1>4 DEF KeepMembers, MemberOf, Waits
  <2> QED BY <1>1, <1>3, <1>4, <2>1, Stutters
<1>5. ASSUME NEW a \in Answers, Invoke(r, a), a = "cancelled" => ended[r] PROVE Abstract!Next
  <2>1. \A q \in Requests \ {r} : answered'[q] = answered[q]
    BY <1>5 DEF Invoke, TypeOK
  <2>2. KeepMembers({r})
    BY <1>1, <2>1 DEF KeepMembers, MemberOf, Waits
  <2> QED BY <1>1, <1>2, <1>3, <1>5, <2>2, AnswerMaps DEF Answers
<1>6. \/ UNCHANGED <<answer, answered>>
      \/ \E a \in Answers : Invoke(r, a) /\ (a = "cancelled" => ended[r])
  BY DEF AnswerEarly, SubmitStandalone, SettleStandalone, Answers
<1> QED BY <1>4, <1>5, <1>6

LEMMA CompleteMaps ==
  ASSUME IInv, NEW r \in Requests, Complete(r) PROVE Abstract!Next
<1> USE DEF IInv
<1>1. /\ claim[r] = "deliver" /\ Thread(r) /\ Claim(r) /\ Answered(r)
      /\ Invoke(r, IF ended[r] THEN "cancelled" ELSE outcome[call[r]])
      /\ UNCHANGED <<ended, call, result, todo>>
      /\ \A q \in Requests \ {r} : claim'[q] = claim[q] /\ pc'[q] = pc[q]
  BY DEF Complete, Each, TypeOK
<1>2. /\ call[r] \in Requests /\ call[r] # NoCall /\ answered[r] = 0
      /\ phase[call[r]] \in {"Publishing", "Done"}
  BY <1>1, RequestAssumption DEF Thread, Claim, Answered, TypeOK
<1>3. Stage(call[r]) /\ Members(call[r])
  BY <1>2 DEF Each
<1>4. r \notin consumers[call[r]] /\ ~ LastLeaves(r)
  BY <1>1, <1>2, <1>3 DEF Members, LastLeaves
<1>5. phase' = phase /\ consumers' = consumers
  <2>1. phase' = [phase EXCEPT ![call[r]] = @] /\ consumers' = [consumers EXCEPT ![call[r]] = @ \ {r}]
    BY <1>4 DEF Complete, Detach
  <2> QED BY <1>2, <1>4, <2>1 DEF TypeOK
<1>6. MemberOf(r) = call[r] /\ KeepFlights({})
  BY <1>1, <1>2, <1>5 DEF MemberOf, Waits, KeepFlights, FlightOf
<1>7. KeepMembers({r})
  <2>1. \A q \in Requests \ {r} : answered'[q] = answered[q]
    BY <1>1 DEF Invoke, TypeOK
  <2> QED BY <1>1, <1>5, <2>1 DEF KeepMembers, MemberOf, Waits
<1>8. CASE ended[r]
  BY <1>1, <1>2, <1>6, <1>7, <1>8, AnswerMaps DEF Answers
<1>9. CASE ~ ended[r]
  <2>1. outcome[call[r]] \in {"success", "failure"}
        /\ result[call[r]] = (outcome[call[r]] = "success")
    BY <1>2, <1>3 DEF Stage
  <2>2. FlightOf(call[r]) = IF outcome[call[r]] = "success" THEN "ok" ELSE "fail"
    BY <1>2, <2>1 DEF FlightOf
  <2> QED BY <1>1, <1>2, <1>6, <1>7, <1>9, <2>1, <2>2, AnswerMaps DEF Answers
<1> QED BY <1>8, <1>9

LEMMA CancelAnswerMaps ==
  ASSUME IInv, NEW r \in Requests, CancelAnswer(r) PROVE Abstract!Next
<1> USE DEF IInv, callVars, sharedVars
<1>1. /\ claim[r] = "call" /\ Thread(r) /\ Claim(r) /\ Answered(r) /\ Invoke(r, "cancelled")
      /\ UNCHANGED <<pc, ended, call, callVars>>
      /\ \A q \in Requests \ {r} : claim'[q] = claim[q]
  BY DEF CancelAnswer, Each, TypeOK
<1>2. answered[r] = 0 /\ ended[r]
  BY <1>1 DEF Thread, Claim, Answered, Cancelling
<1>3. KeepFlights({})
  BY <1>1 DEF KeepFlights, FlightOf
<1>4. KeepMembers({r})
  <2>1. \A q \in Requests \ {r} : answered'[q] = answered[q]
    BY <1>1 DEF Invoke, TypeOK
  <2> QED BY <1>1, <2>1 DEF KeepMembers, MemberOf, Waits
<1> QED BY <1>1, <1>2, <1>3, <1>4, AnswerMaps DEF Answers

LEMMA EndMaps ==
  ASSUME IInv, NEW r \in Requests, End(r) PROVE Abstract!Next
<1>1. {q \in Requests : ended'[q]} = {q \in Requests : ended[q]} \cup {r}
  BY DEF End, IInv, TypeOK
<1>2. Abstract!Leave(r)
  BY <1>1 DEF Abstract!Leave, End, Waits, ReplyOf, callVars
<1> QED BY <1>2 DEF Abstract!Next

(* The single flight of /sub implements Coalescing, for any number of       *)
(* requests and keys: of the calls for a key at most one accepts requests,  *)
(* a call is given up only when all its consumers have left, and whichever  *)
(* of the publisher, the callback and the request's own thread gets there   *)
(* first, a request is answered at most once, with the result of its call   *)
(* or as cancelled because its own context ended.                           *)
THEOREM Coalesces == Spec => ImplementsCoalescing
<1>1. Init => Abstract!Init
  BY DEF Init, Abstract!Init, Waits, ReplyOf, None
<1>2. IInv /\ [Next]_vars => [Abstract!Next]_Abstract!vars
  <2> SUFFICES ASSUME IInv, [Next]_vars PROVE Abstract!Next \/ UNCHANGED Abstract!vars
    OBVIOUS
  <2>1. ASSUME NEW r \in Requests, RequestStep(r)
        PROVE  Abstract!Next \/ UNCHANGED Abstract!vars
    <3>1. CASE Attach(r)
      BY <3>1, AttachJoinsMaps, PeekMaps
    <3>2. CASE ClaimReady(r)
      BY <3>2, PassedOverMaps, QuietThreadMaps
    <3> QED BY <2>1, <3>1, <3>2, AloneMaps, QuietThreadMaps, OwnMaps, PeekMaps DEF RequestStep
  <2>2. ASSUME NEW r \in Requests, CallbackStep(r)
        PROVE  Abstract!Next \/ UNCHANGED Abstract!vars
    BY <2>2, QuietCallbackMaps, CancelDetachMaps, CancelAnswerMaps DEF CallbackStep
  <2>3. ASSUME NEW c \in Requests, PublisherStep(c)
        PROVE  Abstract!Next \/ UNCHANGED Abstract!vars
    <3>1. CASE Publish(c)
      BY <3>1, PublishMaps, QuietPublisherMaps
    <3> QED BY <2>3, <3>1, QuietPublisherMaps, SwapMaps, DeliverMaps DEF PublisherStep
  <2> QED BY <2>1, <2>2, <2>3, CompleteMaps, AloneMaps, EndMaps, QuietPublisherMaps,
             AroundMaps DEF Next, Rest
<1> QED BY <1>1, <1>2, IInvHolds, PTL DEF Spec, ImplementsCoalescing, Abstract!Spec
=============================================================================
