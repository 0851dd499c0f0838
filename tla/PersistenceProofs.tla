------------------------- MODULE PersistenceProofs -------------------------
(***************************************************************************)
(* Proofs for what the program keeps in files.                             *)
(*                                                                         *)
(* StatisticsStore: for any ring and window, any number of conversions,    *)
(* failing operations, kills, power failures and restarts, and with the    *)
(* exceptions that NothingLost names, a start finds what was reported as   *)
(* written, what is not written is marked, the window is the sum of its    *)
(* buckets, and an orderly stop writes everything.                         *)
(*                                                                         *)
(* ShortLinks: for any codes, targets, times and limit the file backs what *)
(* the server answers with and what it has confirmed.                      *)
(***************************************************************************)
EXTENDS StatisticsStore, ShortLinks, FiniteSetTheorems, SequenceTheorems,
        WellFoundedInduction, TLAPS

-----------------------------------------------------------------------------
(* What the variables hold, and load().                                     *)

(* What the variables hold at time t: a bucket is in the slot of its        *)
(* minute, and no minute lies in the future.                                *)
Bucket(t)  == [stamp : 0 .. t, n : Nat]
Placed(f)  == \A i \in DOMAIN f : f[i] = NoBucket \/ (f[i].n # 0 /\ Slot(f[i].stamp) = i)
Rings(t)   == {m \in [Slots -> Bucket(t)] : Placed(m)}
Images(t)  == [lifetime : Nat, minutes : Rings(t)]
Patches(t) ==
  UNION {[lifetime : Nat, minutes : {f \in [D -> Bucket(t)] : Placed(f)}] : D \in SUBSET Slots}
Records(t) == [generation : Nat \ {0}, sequence : Nat, patch : Patches(t)]
Logs(t)    == [records : Seq(Records(t)), torn : BOOLEAN]
Checkpoints(t) ==
  {NoCheckpoint} \cup [generation : Nat \ {0}, sequence : Nat, image : Images(t)]

(* Every sealed bucket is older than the current one.                       *)
Past(c) == \A i \in Slots : c.minutes[i].n # 0 => c.minutes[i].stamp < c.current.stamp

Cores(t) ==
  {c \in [lifetime : Nat, minutes : Rings(t), current : Bucket(t), window : Nat,
          dirty : SUBSET Slots, runtime_dirty_ : BOOLEAN, dirty_version_ : Nat] : Past(c)}

Bests(t) == [generation : Nat, sequence : Nat, image : Images(t), kept : Nat,
             valid : BOOLEAN]

(* A set of naturals with 0 that is closed under successor up to n has all  *)
(* of 0 .. n.                                                               *)
LEMMA UpTo ==
  ASSUME NEW n \in Nat, NEW S, 0 \in S, \A k \in 0 .. n - 1 : k \in S => k + 1 \in S
  PROVE  0 .. n \subseteq S
<1> DEFINE T == {k \in 0 .. n : k \notin S}
<1> SUFFICES ASSUME T # {} PROVE FALSE
  OBVIOUS
<1>1. T \subseteq Nat
  OBVIOUS
<1>2. PICK k \in T : \A j \in T : ~ (<<j, k>> \in OpToRel(<, Nat))
  <2> HIDE DEF T
  <2> QED BY <1>1, WFMin, NatLessThanWellFounded
<1>3. k # 0 /\ k \in 0 .. n
  OBVIOUS
<1>4. k - 1 \in 0 .. n - 1 /\ k - 1 \in Nat /\ k \in Nat
  BY <1>3
<1>5. <<k - 1, k>> \in OpToRel(<, Nat)
  BY <1>4 DEF OpToRel
<1>6. k - 1 \notin T
  BY <1>2, <1>5
<1>7. k - 1 \in S
  BY <1>4, <1>6
<1> QED BY <1>3, <1>4, <1>7

Start(c) == [generation |-> c.generation, sequence |-> c.sequence,
             image |-> c.image, kept |-> 0, valid |-> TRUE]

(* The loop of load() defines what is known after each record.              *)
LEMMA ReplayedDef ==
  ASSUME NEW c, NEW S, NEW rs \in Seq(S)
  PROVE  /\ Replayed(c, rs)[0] = Start(c)
         /\ \A k \in 1 .. Len(rs) :
              Replayed(c, rs)[k] = ReplayOne(Replayed(c, rs)[k - 1], rs[k])
<1> DEFINE Run(n, g) == g = [k \in 0 .. n |-> IF k = 0 THEN Start(c)
                                              ELSE ReplayOne(g[k - 1], rs[k])]
           T == {n \in Nat : \E g : Run(n, g)}
<1>0. Len(rs) \in Nat
  OBVIOUS
<1>1. 0 \in T
  <2>1. Run(0, [k \in 0 .. 0 |-> Start(c)])
    OBVIOUS
  <2> QED BY <2>1
<1>2. ASSUME NEW n \in 0 .. Len(rs) - 1, n \in T PROVE n + 1 \in T
  <2>1. PICK g : Run(n, g)
    BY <1>2
  <2> DEFINE h == [k \in 0 .. n + 1 |-> IF k = n + 1 THEN ReplayOne(g[n], rs[n + 1]) ELSE g[k]]
  <2>2. ASSUME NEW k \in 0 .. n + 1
        PROVE  h[k] = IF k = 0 THEN Start(c) ELSE ReplayOne(h[k - 1], rs[k])
    <3>1. CASE k = n + 1
      <4>1. k # 0 /\ k - 1 = n /\ n \in 0 .. n + 1 /\ n # n + 1
        BY <3>1
      <4>2. h[k - 1] = g[n]
        BY <4>1
      <4> QED BY <3>1, <4>1, <4>2
    <3>2. CASE k # n + 1
      <4>1. k \in 0 .. n
        BY <3>2
      <4>2. CASE k = 0
        BY <2>1, <4>1, <4>2
      <4>3. CASE k # 0
        <5>1. k - 1 \in 0 .. n + 1 /\ k - 1 # n + 1
          BY <4>1, <4>3
        <5> QED BY <2>1, <4>1, <4>3, <5>1
      <4> QED BY <4>2, <4>3
    <3> QED BY <3>1, <3>2
  <2>3. Run(n + 1, h)
    <3> HIDE DEF h
    <3>1. h = [k \in 0 .. n + 1 |-> h[k]]
      BY DEF h
    <3> QED BY <2>2, <3>1
  <2>4. \E f : Run(n + 1, f)
    <3> HIDE DEF h, Run
    <3> QED BY <2>3
  <2>5. n + 1 \in Nat
    OBVIOUS
  <2> HIDE DEF Run
  <2> QED BY <2>4, <2>5
<1>3. Len(rs) \in T
  <2>1. \A n \in 0 .. Len(rs) - 1 : n \in T => n + 1 \in T
    BY <1>2
  <2> HIDE DEF T
  <2>2. 0 .. Len(rs) \subseteq T
    BY <1>0, <1>1, <2>1, UpTo
  <2> QED BY <1>0, <2>2
<1>4. Run(Len(rs), Replayed(c, rs))
  BY <1>3 DEF Replayed, Start
<1> QED BY <1>0, <1>4

(* A patch turns an image into an image.                                    *)
LEMMA PatchFits ==
  ASSUME NEW t \in Nat, NEW img \in Images(t), NEW p \in Patches(t)
  PROVE  applyPatch(img, p) \in Images(t)
<1>1. /\ p.lifetime \in Nat /\ DOMAIN p.minutes \subseteq Slots
      /\ \A i \in DOMAIN p.minutes : p.minutes[i] \in Bucket(t)
        /\ (p.minutes[i] = NoBucket \/ (p.minutes[i].n # 0 /\ Slot(p.minutes[i].stamp) = i))
  BY DEF Patches, Placed
<1>2. /\ \A i \in Slots : img.minutes[i] \in Bucket(t)
        /\ (img.minutes[i] = NoBucket \/ (img.minutes[i].n # 0 /\ Slot(img.minutes[i].stamp) = i))
  BY DEF Images, Rings, Placed
<1> DEFINE m == [i \in Slots |-> IF i \in DOMAIN p.minutes THEN p.minutes[i] ELSE img.minutes[i]]
<1>3. m \in Rings(t)
  BY <1>1, <1>2 DEF Rings, Placed
<1> HIDE DEF m
<1>4. applyPatch(img, p) = [lifetime |-> p.lifetime, minutes |-> m]
  BY DEF applyPatch, m
<1> QED BY <1>1, <1>3, <1>4 DEF Images

(* One record of the log: it is passed over, applied, or ends the replay.   *)
Stepped(t, b, r, d) ==
  /\ d \in Bests(t) /\ d.generation = b.generation
  /\ ~ d.valid => d = [b EXCEPT !.valid = FALSE]
  /\ d.valid => b.valid /\ d.kept = b.kept + 1
  /\ r.generation # b.generation => ~ d.valid
  /\ b.valid /\ r.generation = b.generation /\ r.sequence = b.sequence + 1
       => d.valid /\ d.sequence = b.sequence + 1 /\ d.image = applyPatch(b.image, r.patch)

(* ReplayOne() does one such step.                                          *)
LEMMA ReplayOneStep ==
  ASSUME NEW t \in Nat, NEW b \in Bests(t), NEW r \in Records(t)
  PROVE  Stepped(t, b, r, ReplayOne(b, r))
<1>1. r.patch \in Patches(t) /\ b.image \in Images(t) /\ r.sequence \in Nat
      /\ b.sequence \in Nat /\ b.kept \in Nat /\ b.kept + 1 \in Nat /\ b.generation \in Nat
      /\ b.valid \in BOOLEAN
  BY DEF Records, Bests
<1>2. applyPatch(b.image, r.patch) \in Images(t)
  BY <1>1, PatchFits
<1>3. b = [generation |-> b.generation, sequence |-> b.sequence, image |-> b.image,
           kept |-> b.kept, valid |-> b.valid]
  BY DEF Bests
<1>4. CASE ~ b.valid \/ r.generation # b.generation
  <2>1. ReplayOne(b, r) = [b EXCEPT !.valid = FALSE]
    BY <1>4 DEF ReplayOne
  <2> QED BY <1>1, <1>3, <1>4, <2>1 DEF Bests, Stepped
<1>5. CASE b.valid /\ r.generation = b.generation /\ r.sequence <= b.sequence
  <2>1. ReplayOne(b, r) = [b EXCEPT !.kept = @ + 1]
    BY <1>5 DEF ReplayOne
  <2> QED BY <1>1, <1>3, <1>5, <2>1 DEF Bests, Stepped
<1>6. CASE b.valid /\ r.generation = b.generation /\ r.sequence > b.sequence + 1
  <2>0. ~ (r.sequence <= b.sequence) /\ r.sequence # b.sequence + 1
    BY <1>1, <1>6
  <2>1. ReplayOne(b, r) = [b EXCEPT !.valid = FALSE]
    BY <1>6, <2>0 DEF ReplayOne
  <2> QED BY <1>1, <1>3, <1>6, <2>0, <2>1 DEF Bests, Stepped
<1>7. CASE b.valid /\ r.generation = b.generation /\ r.sequence = b.sequence + 1
  <2> DEFINE i == applyPatch(b.image, r.patch)
  <2>1. ReplayOne(b, r) = [b EXCEPT !.kept = @ + 1, !.sequence = r.sequence, !.image = i]
    BY <1>1, <1>7 DEF ReplayOne
  <2> HIDE DEF i
  <2>2. i \in Images(t)
    BY <1>2 DEF i
  <2>3. ReplayOne(b, r) = [generation |-> b.generation, sequence |-> r.sequence, image |-> i,
                           kept |-> b.kept + 1, valid |-> b.valid]
    BY <1>3, <2>1
  <2> QED BY <1>1, <1>7, <2>2, <2>3 DEF Bests, Stepped, i
<1> QED BY <1>1, <1>4, <1>5, <1>6, <1>7

(* After k records as many are kept as were valid, and the rest changes     *)
(* nothing.                                                                 *)
Walked(t, c, B, k) ==
  /\ B[k] \in Bests(t) /\ B[k].generation = c.generation
  /\ B[k].kept \in 0 .. k /\ (B[k].valid => B[k].kept = k)
  /\ ~ B[k].valid => B[k] = [B[B[k].kept] EXCEPT !.valid = FALSE]
  /\ B[B[k].kept].valid

(* The loop of load() keeps this from the first record to the last.         *)
LEMMA ReplayedFacts ==
  ASSUME NEW t \in Nat, NEW c, c.generation \in Nat, c.sequence \in Nat,
         c.image \in Images(t), NEW rs \in Seq(Records(t)), NEW k \in 0 .. Len(rs)
  PROVE  Walked(t, c, Replayed(c, rs), k)
<1> DEFINE B == Replayed(c, rs)
           T == {j \in 0 .. Len(rs) : Walked(t, c, B, j)}
<1>0. Len(rs) \in Nat /\ \A j \in 1 .. Len(rs) : rs[j] \in Records(t)
  OBVIOUS
<1>1. B[0] = Start(c) /\ \A j \in 1 .. Len(rs) : B[j] = ReplayOne(B[j - 1], rs[j])
  BY ReplayedDef
<1> HIDE DEF B
<1>2. 0 \in T
  <2>1. Walked(t, c, B, 0)
    BY <1>1 DEF Start, Bests, Walked
  <2> QED BY <1>0, <2>1
<1>3. ASSUME NEW j \in 0 .. Len(rs) - 1, j \in T PROVE j + 1 \in T
  <2>1. j + 1 \in 1 .. Len(rs) /\ j + 1 - 1 = j /\ Walked(t, c, B, j)
    BY <1>0, <1>3
  <2>2. B[j + 1] = ReplayOne(B[j], rs[j + 1]) /\ rs[j + 1] \in Records(t)
    BY <1>0, <1>1, <2>1
  <2>3. /\ B[j + 1] \in Bests(t) /\ B[j + 1].generation = B[j].generation
        /\ ~ B[j + 1].valid => B[j + 1] = [B[j] EXCEPT !.valid = FALSE]
        /\ B[j + 1].valid => B[j].valid /\ B[j + 1].kept = B[j].kept + 1
    <3>1. B[j] \in Bests(t)
      BY <2>1 DEF Walked
    <3>2. Stepped(t, B[j], rs[j + 1], B[j + 1])
      BY <2>2, <3>1, ReplayOneStep
    <3> QED BY <3>2 DEF Stepped
  <2>4. Walked(t, c, B, j + 1)
    <3>1. CASE B[j + 1].valid
      BY <2>1, <2>3, <3>1 DEF Walked
    <3>2. CASE ~ B[j + 1].valid
      <4>1. B[j + 1].kept = B[j].kept
        BY <2>1, <2>3, <3>2 DEF Bests, Walked
      <4>2. B[j + 1] = [B[B[j].kept] EXCEPT !.valid = FALSE]
        BY <2>1, <2>3, <3>2 DEF Bests, Walked
      <4> QED BY <2>1, <2>3, <3>2, <4>1, <4>2 DEF Walked
    <3> QED BY <3>1, <3>2
  <2> QED BY <2>1, <2>4
<1>4. k \in T
  <2>1. \A j \in 0 .. Len(rs) - 1 : j \in T => j + 1 \in T
    BY <1>3
  <2> HIDE DEF T
  <2>2. 0 .. Len(rs) \subseteq T
    BY <1>0, <1>2, <2>1, UpTo
  <2> QED BY <2>2
<1> QED BY <1>4 DEF B

(* The replay of a prefix is a prefix of the replay.                        *)
LEMMA ReplayedPrefix ==
  ASSUME NEW c, NEW S, NEW rs \in Seq(S), NEW qs \in Seq(S), NEW m \in Nat,
         m <= Len(rs), m <= Len(qs), \A k \in 1 .. m : rs[k] = qs[k]
  PROVE  Replayed(c, rs)[m] = Replayed(c, qs)[m]
<1> DEFINE A == Replayed(c, rs)
           B == Replayed(c, qs)
           T == {k \in 0 .. m : A[k] = B[k]}
<1>1. /\ A[0] = B[0]
      /\ \A k \in 1 .. Len(rs) : A[k] = ReplayOne(A[k - 1], rs[k])
      /\ \A k \in 1 .. Len(qs) : B[k] = ReplayOne(B[k - 1], qs[k])
  BY ReplayedDef
<1>2. Len(rs) \in Nat /\ Len(qs) \in Nat
  OBVIOUS
<1> HIDE DEF A, B
<1>3. 0 \in T
  BY <1>1
<1>4. ASSUME NEW k \in 0 .. m - 1, k \in T PROVE k + 1 \in T
  <2>1. k + 1 \in 1 .. m /\ k + 1 \in 1 .. Len(rs) /\ k + 1 \in 1 .. Len(qs) /\ k + 1 - 1 = k
    BY <1>2
  <2>2. A[k + 1] = ReplayOne(A[k], rs[k + 1]) /\ B[k + 1] = ReplayOne(B[k], qs[k + 1])
    BY <1>1, <2>1
  <2>3. A[k + 1] = B[k + 1]
    BY <1>4, <2>1, <2>2
  <2> QED BY <2>1, <2>3
<1>5. \A k \in 0 .. m - 1 : k \in T => k + 1 \in T
  BY <1>4
<1>6. m \in T
  <2> HIDE DEF T
  <2>1. 0 .. m \subseteq T
    BY <1>3, <1>5, UpTo
  <2> QED BY <2>1
<1> QED BY <1>6 DEF A, B

(* A log of other generations than the checkpoint's adds nothing to it.     *)
LEMMA ReplayedForeign ==
  ASSUME NEW t \in Nat, NEW c, c.generation \in Nat, c.sequence \in Nat,
         c.image \in Images(t), NEW rs \in Seq(Records(t)), NEW k \in 0 .. Len(rs),
         \A j \in 1 .. Len(rs) : rs[j].generation # c.generation
  PROVE  Replayed(c, rs)[k].image = c.image
<1> DEFINE B == Replayed(c, rs)
<1>0. Len(rs) \in Nat /\ \A j \in 1 .. Len(rs) : rs[j] \in Records(t)
  OBVIOUS
<1>1. B[0] = Start(c) /\ \A j \in 1 .. Len(rs) : B[j] = ReplayOne(B[j - 1], rs[j])
  BY ReplayedDef
<1>2. \A j \in 0 .. Len(rs) : Walked(t, c, B, j)
  BY ReplayedFacts
<1> HIDE DEF B
<1>3. \A j \in 1 .. Len(rs) : ~ B[j].valid
  <2> SUFFICES ASSUME NEW j \in 1 .. Len(rs) PROVE ~ B[j].valid
    OBVIOUS
  <2>1. j - 1 \in 0 .. Len(rs) /\ rs[j] \in Records(t) /\ rs[j].generation # c.generation
    BY <1>0
  <2>2. B[j - 1] \in Bests(t) /\ B[j - 1].generation = c.generation
    BY <1>2, <2>1 DEF Walked
  <2>3. Stepped(t, B[j - 1], rs[j], B[j])
    BY <1>1, <2>1, <2>2, ReplayOneStep
  <2> QED BY <2>1, <2>2, <2>3 DEF Stepped
<1>4. /\ B[k] \in Bests(t) /\ B[k].kept \in 0 .. k /\ B[B[k].kept].valid
      /\ B[k].valid => B[k].kept = k
      /\ ~ B[k].valid => B[k] = [B[B[k].kept] EXCEPT !.valid = FALSE]
  BY <1>2 DEF Walked
<1>5. B[k].kept = 0
  BY <1>0, <1>3, <1>4
<1>6. B[0].image = c.image /\ B[0] = [generation |-> c.generation, sequence |-> c.sequence,
                                     image |-> c.image, kept |-> 0, valid |-> TRUE]
  BY <1>1 DEF Start
<1>7. B[k].image = c.image
  <2>1. CASE B[k].valid
    BY <1>4, <1>5, <1>6, <2>1
  <2>2. CASE ~ B[k].valid
    <3>1. B[k] = [B[0] EXCEPT !.valid = FALSE]
      BY <1>4, <1>5, <2>2
    <3> QED BY <1>6, <3>1
  <2> QED BY <2>1, <2>2
<1> QED BY <1>7 DEF B

(* The checkpoints of a generation are all in the same file.                *)
Pairs(t) ==
  {s \in [Names -> Checkpoints(t)] :
     \A m \in Names : s[m].generation # 0 => NameOf(s[m].generation) = m}

(* Generation 0 stands for a file without a checkpoint.                     *)
LEMMA CheckpointFacts ==
  ASSUME NEW t \in Nat, NEW c \in Checkpoints(t)
  PROVE  /\ c.generation \in Nat /\ c.sequence \in Nat
         /\ c.generation = 0 <=> c = NoCheckpoint
         /\ c # NoCheckpoint => c.image \in Images(t)
  BY DEF Checkpoints, NoCheckpoint

(* The newest checkpoint is one of the two, and only one can be.            *)
LEMMA NewestFacts ==
  ASSUME NEW t \in Nat, NEW s \in Pairs(t)
  PROVE  /\ Newest(s) \in Checkpoints(t)
         /\ \A n \in Names : s[n].generation <= Newest(s).generation
         /\ \E n \in Names : Newest(s) = s[n]
<1> DEFINE S == {s[n] : n \in Names}
           Q(c) == \A n \in Names : s[n].generation <= c.generation
<1>1. /\ s["a"] \in Checkpoints(t) /\ s["b"] \in Checkpoints(t) /\ Names = {"a", "b"}
      /\ s["a"].generation \in Nat /\ s["b"].generation \in Nat
  BY CheckpointFacts DEF Pairs, Names
<1>2. \E c \in S : Q(c)
  <2>1. CASE s["a"].generation <= s["b"].generation
    <3>1. Q(s["b"]) /\ s["b"] \in S
      BY <1>1, <2>1
    <3> QED BY <3>1
  <2>2. CASE s["b"].generation <= s["a"].generation
    <3>1. Q(s["a"]) /\ s["a"] \in S
      BY <1>1, <2>2
    <3> QED BY <3>1
  <2> QED BY <1>1, <2>1, <2>2
<1>3. Newest(s) \in S /\ Q(Newest(s))
  BY <1>2 DEF Newest
<1>4. PICK n \in Names : Newest(s) = s[n]
  BY <1>3
<1>5. Newest(s) \in Checkpoints(t)
  BY <1>1, <1>4
<1> QED BY <1>3, <1>4, <1>5

(* A checkpoint that no other exceeds is the newest: two of one generation  *)
(* would be in the same file.                                               *)
LEMMA NewestIs ==
  ASSUME NEW t \in Nat, NEW s \in Pairs(t), NEW m \in Names,
         \A n \in Names : s[n].generation <= s[m].generation
  PROVE  Newest(s) = s[m]
<1>1. PICK n \in Names : Newest(s) = s[n]
  BY NewestFacts
<1>2. s[n].generation = s[m].generation
  <2>1. s[m].generation <= s[n].generation
    BY <1>1, NewestFacts
  <2>2. s[n].generation \in Nat /\ s[m].generation \in Nat
    BY CheckpointFacts DEF Pairs
  <2> QED BY <2>1, <2>2
<1>3. CASE s[m].generation = 0
  <2>1. s[m] = NoCheckpoint /\ s[n] = NoCheckpoint
    BY <1>2, <1>3, CheckpointFacts DEF Pairs
  <2> QED BY <1>1, <2>1
<1>4. CASE s[m].generation # 0
  <2>1. m = n
    BY <1>2, <1>4 DEF Pairs
  <2> QED BY <1>1, <2>1
<1> QED BY <1>3, <1>4

(* What load() finds: without a checkpoint nothing; otherwise the image of  *)
(* the checkpoint with the records that are kept.                           *)
Loads(t, c, log, d) ==
  /\ d.generation = c.generation /\ d.sequence \in Nat /\ d.kept \in Nat /\ d.valid \in BOOLEAN
  /\ c = NoCheckpoint => d = Start(c)
  /\ c # NoCheckpoint => /\ d \in Bests(t) /\ d.kept <= Len(log.records)
                         /\ d.valid => d.kept = Len(log.records)

(* load() finds this in any pair of files with any log.                     *)
LEMMA ReplayFacts ==
  ASSUME NEW t \in Nat, NEW s \in Pairs(t), NEW log \in Logs(t)
  PROVE  Loads(t, Newest(s), log, Replay(s, log))
<1> DEFINE c == Newest(s)
           rs == log.records
<1>1. c \in Checkpoints(t) /\ rs \in Seq(Records(t)) /\ Len(rs) \in Nat
  BY NewestFacts DEF Logs
<1>2. Replay(s, log) = Replayed(c, rs)[IF c = NoCheckpoint THEN 0 ELSE Len(rs)]
  BY DEF Replay
<1> HIDE DEF c, rs
<1>3. CASE c = NoCheckpoint
  <2>1. Replay(s, log) = Start(c)
    BY <1>1, <1>2, <1>3, ReplayedDef
  <2> QED BY <1>3, <2>1 DEF Loads, Start, NoCheckpoint, c
<1>4. CASE c # NoCheckpoint
  <2>1. Replay(s, log) = Replayed(c, rs)[Len(rs)]
    BY <1>2, <1>4
  <2>2. c.generation \in Nat /\ c.sequence \in Nat /\ c.image \in Images(t)
    BY <1>1, <1>4, CheckpointFacts
  <2>3. Len(rs) \in 0 .. Len(rs)
    BY <1>1
  <2> DEFINE d == Replayed(c, rs)[Len(rs)]
  <2>4. /\ d \in Bests(t) /\ d.generation = c.generation
        /\ d.kept \in 0 .. Len(rs) /\ (d.valid => d.kept = Len(rs))
    <3>1. Walked(t, c, Replayed(c, rs), Len(rs))
      BY <1>1, <2>2, <2>3, ReplayedFacts
    <3> QED BY <3>1 DEF Walked
  <2> HIDE DEF d
  <2>5. d.sequence \in Nat /\ d.kept \in Nat /\ d.valid \in BOOLEAN /\ d.kept <= Len(rs)
    BY <1>1, <2>4 DEF Bests
  <2> QED BY <1>4, <2>1, <2>4, <2>5 DEF Loads, c, d, rs
<1> QED BY <1>3, <1>4

(* Whether the log is torn does not matter for what is replayed.            *)
LEMMA ReplayRecords ==
  ASSUME NEW s, NEW k, NEW l, k.records = l.records
  PROVE  Replay(s, k) = Replay(s, l)
  BY DEF Replay

(* A record that continues a valid log is applied, and nothing else.        *)
LEMMA ReplayAppend ==
  ASSUME NEW t \in Nat, NEW s \in Pairs(t), NEW k \in Logs(t), NEW l \in Logs(t),
         NEW r \in Records(t), l.records = Append(k.records, r),
         Newest(s) # NoCheckpoint, Replay(s, k).valid,
         r.generation = Newest(s).generation, r.sequence = Replay(s, k).sequence + 1
  PROVE  /\ Replay(s, l).valid /\ Replay(s, l).sequence = Replay(s, k).sequence + 1
         /\ Replay(s, l).image = applyPatch(Replay(s, k).image, r.patch)
<1> DEFINE c == Newest(s)
           n == Len(k.records)
           A == Replayed(c, k.records)
           B == Replayed(c, l.records)
<1>1. /\ k.records \in Seq(Records(t)) /\ l.records \in Seq(Records(t))
      /\ n \in Nat /\ Len(l.records) = n + 1 /\ l.records[n + 1] = r
      /\ \A i \in 1 .. n : l.records[i] = k.records[i]
  BY DEF Logs
<1>2. Replay(s, k) = A[n] /\ Replay(s, l) = B[n + 1]
  BY <1>1 DEF Replay
<1>3. A[n] = B[n]
  <2>1. n <= Len(k.records) /\ n <= Len(l.records)
    BY <1>1
  <2> DEFINE ks == k.records
             ls == l.records
  <2>2. /\ ks \in Seq(Records(t)) /\ ls \in Seq(Records(t)) /\ n \in Nat
        /\ n <= Len(ks) /\ n <= Len(ls) /\ \A i \in 1 .. n : ks[i] = ls[i]
    BY <1>1, <2>1
  <2> HIDE DEF n, c, ks, ls
  <2>3. Replayed(c, ks)[n] = Replayed(c, ls)[n]
    BY <2>2, ReplayedPrefix
  <2> QED BY <2>3 DEF ks, ls
<1>4. B[n + 1] = ReplayOne(B[n], r)
  <2>1. n + 1 \in 1 .. Len(l.records) /\ n + 1 - 1 = n
    BY <1>1
  <2> HIDE DEF n, c
  <2>2. \A i \in 1 .. Len(l.records) : B[i] = ReplayOne(B[i - 1], l.records[i])
    <3>1. l.records \in Seq(Records(t))
      BY <1>1
    <3> DEFINE ls == l.records
    <3>2. ls \in Seq(Records(t))
      BY <3>1
    <3> HIDE DEF ls
    <3>3. \A i \in 1 .. Len(ls) : Replayed(c, ls)[i] = ReplayOne(Replayed(c, ls)[i - 1], ls[i])
      BY <3>2, ReplayedDef
    <3> QED BY <3>3 DEF ls
  <2> QED BY <1>1, <2>1, <2>2
<1>5. Loads(t, c, k, A[n])
  BY <1>2, ReplayFacts
<1> HIDE DEF n, c, A, B
<1>6. c # NoCheckpoint /\ r.generation = c.generation /\ A[n].valid /\ r.sequence = A[n].sequence + 1
  BY <1>2 DEF c
<1>7. B[n] \in Bests(t) /\ B[n].generation = c.generation
  BY <1>3, <1>5, <1>6 DEF Loads
<1>8. Stepped(t, B[n], r, B[n + 1])
  BY <1>4, <1>7, ReplayOneStep
<1> QED BY <1>2, <1>3, <1>6, <1>7, <1>8 DEF Stepped

(* A log that is cut after the records that are kept is valid and means the *)
(* same.                                                                    *)
LEMMA ReplayCut ==
  ASSUME NEW t \in Nat, NEW s \in Pairs(t), NEW k \in Logs(t), NEW l \in Logs(t),
         l.records = SubSeq(k.records, 1, Replay(s, k).kept), Newest(s) # NoCheckpoint
  PROVE  /\ Replay(s, l).valid /\ Replay(s, l).sequence = Replay(s, k).sequence
         /\ Replay(s, l).image = Replay(s, k).image
<1> DEFINE c == Newest(s)
           n == Len(k.records)
           A == Replayed(c, k.records)
           B == Replayed(c, l.records)
           m == A[n].kept
<1>0. k.records \in Seq(Records(t)) /\ l.records \in Seq(Records(t)) /\ n \in Nat /\ n \in 0 .. n
  <2>1. k.records \in Seq(Records(t)) /\ l.records \in Seq(Records(t))
    BY DEF Logs
  <2>2. Len(k.records) \in Nat
    BY <2>1
  <2> QED BY <2>1, <2>2
<1>1. Replay(s, k) = A[n] /\ Replay(s, l) = B[Len(l.records)]
  BY DEF Replay
<1>2. c \in Checkpoints(t) /\ c # NoCheckpoint
  BY NewestFacts
<1> HIDE DEF n, c
<1>3. c.generation \in Nat /\ c.sequence \in Nat /\ c.image \in Images(t)
  BY <1>2, CheckpointFacts
<1>4. Walked(t, c, A, n)
  BY <1>0, <1>3, ReplayedFacts DEF n
<1> HIDE DEF A, B
<1>5. m \in 0 .. n
  BY <1>4 DEF Walked
<1>6. l.records = SubSeq(k.records, 1, m)
  BY <1>1
<1> HIDE DEF m
<1>7. Len(l.records) = m /\ \A i \in 1 .. m : l.records[i] = k.records[i]
  BY <1>0, <1>5, <1>6 DEF n
<1>8. B[m] = A[m]
  <2>1. m \in Nat /\ m <= Len(k.records) /\ m <= Len(l.records)
    BY <1>0, <1>5, <1>7 DEF n
  <2> DEFINE ks == k.records
             ls == l.records
  <2>2. /\ ks \in Seq(Records(t)) /\ ls \in Seq(Records(t)) /\ m \in Nat
        /\ m <= Len(ks) /\ m <= Len(ls) /\ \A i \in 1 .. m : ks[i] = ls[i]
    BY <1>0, <1>7, <2>1
  <2> HIDE DEF ks, ls
  <2>3. Replayed(c, ks)[m] = Replayed(c, ls)[m]
    BY <2>2, ReplayedPrefix
  <2> QED BY <2>3 DEF ks, ls, A, B
<1>9. Replay(s, l) = A[m]
  BY <1>1, <1>7, <1>8
<1>10. A[m].valid /\ A[m].sequence = A[n].sequence /\ A[m].image = A[n].image
  <2>1. Walked(t, c, A, m)
    BY <1>0, <1>3, <1>5, ReplayedFacts DEF n, A
  <2>2. A[m] \in Bests(t) /\ A[m].valid
    BY <1>4, <2>1 DEF Walked, m
  <2>3. CASE A[n].valid
    <3>1. m = n
      BY <1>4, <2>3 DEF Walked, m
    <3> QED BY <2>2, <3>1
  <2>4. CASE ~ A[n].valid
    <3>1. A[n] = [A[m] EXCEPT !.valid = FALSE]
      BY <1>4, <2>4 DEF Walked, m
    <3> QED BY <2>2, <3>1 DEF Bests
  <2> QED BY <2>3, <2>4
<1> QED BY <1>1, <1>9, <1>10

(* An empty log leaves the checkpoint as it is.                             *)
LEMMA ReplayEmpty ==
  ASSUME NEW t \in Nat, NEW s \in Pairs(t), NEW l, l.records = <<>>
  PROVE  Replay(s, l) = Start(Newest(s))
<1>1. l.records \in Seq({}) /\ Len(l.records) = 0
  OBVIOUS
<1>2. Replay(s, l) = Replayed(Newest(s), l.records)[0]
  BY <1>1 DEF Replay
<1> QED BY <1>1, <1>2, ReplayedDef

(* A log of other generations adds nothing to the checkpoint.               *)
LEMMA ReplayForeign ==
  ASSUME NEW t \in Nat, NEW s \in Pairs(t), NEW l \in Logs(t),
         \A j \in 1 .. Len(l.records) : l.records[j].generation # Newest(s).generation
  PROVE  Replay(s, l).image = Newest(s).image
<1> DEFINE c == Newest(s)
           rs == l.records
<1>1. c \in Checkpoints(t) /\ rs \in Seq(Records(t)) /\ Len(rs) \in 0 .. Len(rs)
  BY NewestFacts DEF Logs
<1>2. Replay(s, l) = Replayed(c, rs)[IF c = NoCheckpoint THEN 0 ELSE Len(rs)]
  BY DEF Replay
<1>3. \A j \in 1 .. Len(rs) : rs[j].generation # c.generation
  OBVIOUS
<1>4. CASE c = NoCheckpoint
  <2>1. Replay(s, l) = Start(c)
    <3> HIDE DEF c, rs
    <3> QED BY <1>1, <1>2, <1>4, ReplayedDef
  <2> QED BY <2>1 DEF Start
<1>5. CASE c # NoCheckpoint
  <2> HIDE DEF c, rs
  <2>1. c.generation \in Nat /\ c.sequence \in Nat /\ c.image \in Images(t)
    BY <1>1, <1>5, CheckpointFacts
  <2>2. Replayed(c, rs)[Len(rs)].image = c.image
    BY <1>1, <1>3, <2>1, ReplayedForeign
  <2> QED BY <1>2, <1>5, <2>2 DEF c
<1> QED BY <1>4, <1>5

-----------------------------------------------------------------------------
(* The ring and its window.                                                 *)

(* A minute has a slot of the ring.                                         *)
LEMMA SlotRange ==
  ASSUME NEW s \in Int
  PROVE  Slot(s) \in Slots
  BY RingAssumption DEF Slot, Slots

(* Less than a whole ring apart, two minutes have different slots.          *)
LEMMA SlotsDiffer ==
  ASSUME NEW s \in Int, NEW u \in Int, s < u, u < s + kMinuteBucketCount
  PROVE  Slot(s) # Slot(u)
<1> DEFINE N == kMinuteBucketCount
           p == s \div N
           q == u \div N
<1>0. N \in Nat /\ N > 0
  BY RingAssumption
<1>1. s = N * p + (s % N) /\ u = N * q + (u % N) /\ p \in Int /\ q \in Int
  BY <1>0
<1>2. SUFFICES ASSUME s % N = u % N PROVE FALSE
  BY DEF Slot
<1> DEFINE r == s % N
<1>3. r \in Int /\ s = N * p + r /\ u = N * q + r
  BY <1>0, <1>1, <1>2
<1> HIDE DEF p, q, N, r
<1>4. u - s = N * (q - p)
  <2>1. N * (q - p) = N * q - N * p
    BY <1>0, <1>1
  <2>2. N * p \in Int /\ N * q \in Int
    BY <1>0, <1>1
  <2> QED BY <1>3, <2>1, <2>2
<1>5. 0 < N * (q - p) /\ N * (q - p) < N
  BY <1>4, <1>0 DEF N
<1>6. CASE q - p >= 1
  <2>1. N * (q - p) >= N
    BY <1>0, <1>1, <1>6
  <2> QED BY <1>0, <1>1, <1>5, <2>1
<1>7. CASE q - p <= 0
  <2>1. N * (q - p) <= 0
    BY <1>0, <1>1, <1>7
  <2> QED BY <1>0, <1>1, <1>5, <2>1
<1> QED BY <1>1, <1>6, <1>7

(* What goes on when time does: nothing is counted, and every bucket that   *)
(* changes is marked.                                                       *)
Ticks(c, d) ==
  /\ d.lifetime = c.lifetime /\ d.runtime_dirty_ = c.runtime_dirty_
  /\ d.dirty_version_ = c.dirty_version_ /\ c.dirty \subseteq d.dirty
  /\ \A i \in Slots \ d.dirty : minuteRecord(d, i) = minuteRecord(c, i)

Summed(c) == c.window = WindowSum(c, c.current.stamp)

(* A ring is a function whose buckets are in their slots.                   *)
LEMMA RingFacts ==
  /\ kMinuteBucketCount \in Nat /\ kMinuteBucketCount >= 2 /\ W \in Nat /\ W >= 2
  /\ W <= kMinuteBucketCount
  BY RingAssumption

(* The fields of a core, whatever its buckets are.                          *)
CoreRecords ==
  [lifetime : Nat, minutes : [Slots -> [stamp : Nat, n : Nat]],
   current : [stamp : Nat, n : Nat], window : Nat,
   dirty : SUBSET Slots, runtime_dirty_ : BOOLEAN, dirty_version_ : Nat]

(* The fields of a core.                                                    *)
LEMMA CoreFacts ==
  ASSUME NEW t \in Nat, NEW c \in Cores(t)
  PROVE  /\ c.lifetime \in Nat /\ c.window \in Nat /\ c.dirty_version_ \in Nat
         /\ c.runtime_dirty_ \in BOOLEAN /\ c.dirty \subseteq Slots
         /\ c.current \in Bucket(t) /\ c.current.stamp \in 0 .. t /\ c.current.n \in Nat
         /\ c.minutes \in Rings(t) /\ c.minutes \in [Slots -> Bucket(t)] /\ Past(c)
         /\ Placed(c.minutes) /\ c \in CoreRecords
  BY DEF Cores, Rings, Bucket, CoreRecords

(* What is stored of a bucket is a bucket, or none.                         *)
LEMMA StoredFacts ==
  ASSUME NEW t \in Nat, NEW b \in Bucket(t)
  PROVE  /\ Stored(b) \in Bucket(t) /\ Stored(b).n = b.n
         /\ Stored(b) = NoBucket \/ (Stored(b).n # 0 /\ Stored(b).stamp = b.stamp)
  BY DEF Stored, Bucket, NoBucket

NextRing(c) == [c.minutes EXCEPT ![Slot(c.current.stamp)] = Stored(c.current)]

(* The fields of a core after one minute.                                   *)
LEMMA NextMinuteIs ==
  ASSUME NEW c \in CoreRecords
  PROVE  /\ NextMinute(c) \in CoreRecords
         /\ NextMinute(c).lifetime = c.lifetime
         /\ NextMinute(c).minutes = NextRing(c)
         /\ NextMinute(c).current = [stamp |-> c.current.stamp + 1, n |-> 0]
         /\ NextMinute(c).window = subtract(c.window, Expired(c))
         /\ NextMinute(c).dirty
              = c.dirty \cup {Slot(c.current.stamp)} \cup {Slot(c.current.stamp + 1)}
         /\ NextMinute(c).runtime_dirty_ = c.runtime_dirty_
         /\ NextMinute(c).dirty_version_ = c.dirty_version_
<1> DEFINE s == c.current.stamp
           e == sealMinute(c)
           d == NextMinute(c)
<1>1. s \in Nat /\ s + 1 \in Nat /\ Slot(s) \in Slots /\ Slot(s + 1) \in Slots
      /\ c.window \in Nat /\ Slot(s + 1 - W) \in Slots
  BY SlotRange, RingFacts DEF CoreRecords
<1>2. Stored(c.current) \in [stamp : Nat, n : Nat]
  BY DEF Stored, NoBucket, CoreRecords
<1>3. /\ e.lifetime = c.lifetime /\ e.current = c.current /\ e.window = c.window
      /\ e.runtime_dirty_ = c.runtime_dirty_ /\ e.dirty_version_ = c.dirty_version_
  BY DEF sealMinute, CoreRecords
<1>4. e.dirty = c.dirty \cup {Slot(s)}
  BY DEF sealMinute, CoreRecords
<1>5. e.minutes = NextRing(c)
  BY <1>1 DEF sealMinute, CoreRecords, NextRing
<1>6. e \in CoreRecords
  BY <1>1, <1>2 DEF sealMinute, CoreRecords
<1>7. Expired(c) \in Nat
  BY <1>1 DEF Expired, CoreRecords
<1>8. subtract(c.window, Expired(c)) \in Nat
  BY <1>1, <1>7 DEF subtract
<1> HIDE DEF e
<1>9. /\ d.lifetime = c.lifetime /\ d.current = [stamp |-> s + 1, n |-> 0]
      /\ d.window = subtract(c.window, Expired(c)) /\ d.runtime_dirty_ = c.runtime_dirty_
      /\ d.dirty_version_ = c.dirty_version_ /\ d.minutes = e.minutes
  BY <1>3, <1>6 DEF NextMinute, CoreRecords, e
<1>10. d.dirty = c.dirty \cup {Slot(s)} \cup {Slot(s + 1)}
  BY <1>4, <1>6 DEF NextMinute, CoreRecords, e
<1>11. d \in CoreRecords
  <2>1. [stamp |-> s + 1, n |-> 0] \in [stamp : Nat, n : Nat]
    BY <1>1
  <2>2. e.dirty \cup {Slot(s + 1)} \in SUBSET Slots
    BY <1>1, <1>6 DEF CoreRecords
  <2>3. d = [e EXCEPT !.window = subtract(c.window, Expired(c)),
                      !.current = [stamp |-> s + 1, n |-> 0],
                      !.dirty = e.dirty \cup {Slot(s + 1)}]
    BY <1>3, <1>6 DEF NextMinute, CoreRecords, e
  <2> HIDE DEF d
  <2> QED BY <1>6, <1>8, <2>1, <2>2, <2>3 DEF CoreRecords
<1> QED BY <1>5, <1>9, <1>10, <1>11

(* One minute leads from core to core.                                      *)
LEMMA NextMinuteTypes ==
  ASSUME NEW t \in Nat, NEW c \in Cores(t), c.current.stamp < t
  PROVE  /\ NextMinute(c) \in Cores(t) /\ Ticks(c, NextMinute(c))
         /\ NextMinute(c).current.stamp = c.current.stamp + 1
<1> DEFINE s == c.current.stamp
           d == NextMinute(c)
           m == NextRing(c)
<1>1. /\ s \in 0 .. t /\ s \in Int /\ c.current.n \in Nat /\ c.current \in Bucket(t)
      /\ c.minutes \in [Slots -> Bucket(t)] /\ Placed(c.minutes) /\ Past(c)
      /\ c.dirty \subseteq Slots /\ c.window \in Nat
      /\ c.lifetime \in Nat /\ c.runtime_dirty_ \in BOOLEAN /\ c.dirty_version_ \in Nat
  BY CoreFacts DEF Rings
<1>2. Slot(s) \in Slots /\ Slot(s + 1) \in Slots
  BY <1>1, SlotRange
<1>3. /\ d \in CoreRecords /\ d.lifetime = c.lifetime /\ d.minutes = m
      /\ d.current = [stamp |-> s + 1, n |-> 0]
      /\ d.dirty = c.dirty \cup {Slot(s)} \cup {Slot(s + 1)}
      /\ d.runtime_dirty_ = c.runtime_dirty_ /\ d.dirty_version_ = c.dirty_version_
  BY CoreFacts, NextMinuteIs
<1>4. m = [i \in Slots |-> IF i = Slot(s) THEN Stored(c.current) ELSE c.minutes[i]]
  BY <1>1, <1>2 DEF NextRing
<1> HIDE DEF m
<1>5. m \in [Slots -> Bucket(t)] /\ Placed(m)
  <2>1. m \in [Slots -> Bucket(t)]
    BY <1>1, <1>4, StoredFacts
  <2>2. ASSUME NEW i \in Slots PROVE m[i] = NoBucket \/ (m[i].n # 0 /\ Slot(m[i].stamp) = i)
    BY <1>1, <1>4, StoredFacts DEF Placed
  <2> QED BY <2>1, <2>2 DEF Placed
<1>6. \A i \in Slots : m[i].n # 0 => m[i].stamp < s + 1
  <2> SUFFICES ASSUME NEW i \in Slots, m[i].n # 0 PROVE m[i].stamp < s + 1
    OBVIOUS
  <2>1. CASE i = Slot(s)
    <3>1. m[i] = Stored(c.current)
      BY <1>4, <2>1
    <3>2. m[i].stamp = s
      BY <1>1, <3>1, StoredFacts DEF NoBucket
    <3> QED BY <1>1, <3>2
  <2>2. CASE i # Slot(s)
    <3>1. m[i] = c.minutes[i] /\ c.minutes[i] \in Bucket(t)
      BY <1>1, <1>4, <2>2
    <3>2. m[i].stamp < s /\ m[i].stamp \in Int
      BY <1>1, <3>1 DEF Past, Bucket
    <3> QED BY <1>1, <3>2
  <2> QED BY <2>1, <2>2
<1>9. d \in Cores(t)
  <2>1. [stamp |-> s + 1, n |-> 0] \in Bucket(t)
    BY <1>1 DEF Bucket
  <2>2. Past(d)
    BY <1>3, <1>6 DEF Past
  <2>3. m \in Rings(t)
    BY <1>5 DEF Rings
  <2> HIDE DEF d
  <2> QED BY <1>3, <2>1, <2>2, <2>3 DEF Cores, CoreRecords
<1>10. Ticks(c, d)
  <2> HIDE DEF d
  <2>1. ASSUME NEW i \in Slots \ d.dirty PROVE minuteRecord(d, i) = minuteRecord(c, i)
    <3>1. i # Slot(s) /\ i # Slot(s + 1) /\ d.minutes = m /\ d.current.stamp = s + 1
      BY <1>3
    <3> QED BY <1>4, <3>1 DEF minuteRecord
  <2> QED BY <1>3, <2>1 DEF Ticks
<1> QED BY <1>3, <1>9, <1>10

(* The conversions of a bucket, one by one.                                 *)
Cells(i, n) == {i} \X (1 .. n)

(* The conversions of one bucket, counted.                                  *)
LEMMA CellsFacts ==
  ASSUME NEW i, NEW n \in Nat
  PROVE  IsFiniteSet(Cells(i, n)) /\ Cardinality(Cells(i, n)) = n
<1>1. IsFiniteSet(1 .. n) /\ Cardinality(1 .. n) = n
  BY FS_Interval
<1>2. IsFiniteSet({i}) /\ Cardinality({i}) = 1
  BY FS_Singleton
<1>3. IsFiniteSet(Cells(i, n)) /\ Cardinality(Cells(i, n)) = Cardinality({i}) * Cardinality(1 .. n)
  BY <1>1, <1>2, FS_Product DEF Cells
<1> QED BY <1>1, <1>2, <1>3

(* The conversions of the sealed buckets are finitely many.                 *)
LEMMA SealedFacts ==
  ASSUME NEW m \in [Slots -> [stamp : Nat, n : Nat]], NEW t
  PROVE  /\ IsFiniteSet(Sealed(m, t)) /\ Cardinality(Sealed(m, t)) \in Nat
         /\ \A p : p \in Sealed(m, t)
              <=> \E i \in Slots : Covers(t, m[i]) /\ p \in Cells(i, m[i].n)
<1> DEFINE I == {i \in Slots : Covers(t, m[i])}
           C == {Cells(i, m[i].n) : i \in I}
<1>1. Sealed(m, t) = UNION C
  BY DEF Sealed, Cells
<1>2. IsFiniteSet(I)
  <2>1. IsFiniteSet(Slots)
    BY RingFacts, FS_Interval DEF Slots
  <2> QED BY <2>1, FS_Subset
<1>3. IsFiniteSet(C)
  <2> DEFINE f == [i \in I |-> Cells(i, m[i].n)]
  <2>1. f \in Surjection(I, C)
    <3> HIDE DEF I
    <3> QED BY DEF Surjection
  <2> HIDE DEF I, C, f
  <2> QED BY <1>2, <2>1, FS_Surjection
<1>4. \A x \in C : IsFiniteSet(x)
  BY CellsFacts
<1>5. IsFiniteSet(Sealed(m, t))
  <2> HIDE DEF C
  <2> QED BY <1>1, <1>3, <1>4, FS_UNION
<1>6. Cardinality(Sealed(m, t)) \in Nat
  BY <1>5, FS_CardinalityType
<1> QED BY <1>1, <1>5, <1>6

(* Nothing is sealed in empty buckets.                                      *)
LEMMA SealedEmpty ==
  ASSUME NEW m \in [Slots -> [stamp : Nat, n : Nat]], NEW t, \A i \in Slots : m[i].n = 0
  PROVE  Cardinality(Sealed(m, t)) = 0
<1>1. \A i \in Slots : Cells(i, m[i].n) = {}
  BY DEF Cells
<1>2. Sealed(m, t) = {}
  BY <1>1, SealedFacts
<1> QED BY <1>2, FS_EmptySet

(* One part of a set goes, another comes: the count follows.                *)
LEMMA CardinalityExchange ==
  ASSUME NEW A, NEW X, NEW Y, IsFiniteSet(A), IsFiniteSet(X), IsFiniteSet(Y),
         X \subseteq A, A \cap Y = {}
  PROVE  /\ Cardinality((A \ X) \cup Y) = Cardinality(A) - Cardinality(X) + Cardinality(Y)
         /\ Cardinality(X) <= Cardinality(A)
<1>1. A \cap X = X /\ (A \ X) \cap Y = {}
  OBVIOUS
<1>2. IsFiniteSet(A \ X) /\ Cardinality(A \ X) = Cardinality(A) - Cardinality(A \cap X)
  BY FS_Difference
<1>3. Cardinality(X) <= Cardinality(A)
  BY FS_Subset
<1>4. Cardinality((A \ X) \cup Y)
       = Cardinality(A \ X) + Cardinality(Y) - Cardinality((A \ X) \cap Y)
  BY <1>2, FS_Union
<1>5. Cardinality((A \ X) \cap Y) = 0
  BY <1>1, FS_EmptySet
<1>6. Cardinality(A) \in Nat /\ Cardinality(X) \in Nat /\ Cardinality(Y) \in Nat
  BY FS_CardinalityType
<1> DEFINE a == Cardinality(A)
           x == Cardinality(X)
           y == Cardinality(Y)
           z == Cardinality((A \ X) \cup Y)
           w == Cardinality(A \ X)
<1>7. w = a - x
  BY <1>1, <1>2
<1>8. z = w + y - 0
  BY <1>4, <1>5
<1>9. a \in Nat /\ x \in Nat /\ y \in Nat
  BY <1>6
<1> HIDE DEF a, x, y, z, w
<1>10. z = a - x + y
  BY <1>7, <1>8, <1>9
<1> QED BY <1>3, <1>10 DEF a, x, y, z

(* When the minute after s begins, the window loses the bucket of s + 1 - W *)
(* and gains none: the sum of what it covers changes as it does.            *)
LEMMA NextMinuteWindow ==
  ASSUME NEW t \in Nat, NEW c \in Cores(t), c.current.stamp < t, Summed(c)
  PROVE  Summed(NextMinute(c))
<1> DEFINE s == c.current.stamp
           n == c.current.n
           m == c.minutes
           d == NextMinute(c)
           r == NextRing(c)
           e == Slot(s + 1 - W)
           A == Sealed(m, s)
           B == Sealed(r, s + 1)
           X == IF m[e].stamp = s + 1 - W THEN Cells(e, m[e].n) ELSE {}
           Y == Cells(Slot(s), n)
<1>1. /\ s \in Nat /\ n \in Nat /\ m \in [Slots -> [stamp : Nat, n : Nat]]
      /\ c.current \in [stamp : Nat, n : Nat] /\ c.window \in Nat
      /\ \A i \in Slots : m[i] = NoBucket \/ (m[i].n # 0 /\ Slot(m[i].stamp) = i)
      /\ \A i \in Slots : m[i].n # 0 => m[i].stamp < s
  BY CoreFacts DEF CoreRecords, Placed, Past
<1>2. /\ d.minutes = r /\ d.current = [stamp |-> s + 1, n |-> 0]
      /\ d.window = subtract(c.window, Expired(c)) /\ d \in CoreRecords
  BY CoreFacts, NextMinuteIs
<1>3. /\ Slot(s) \in Slots /\ e \in Slots /\ s + 1 - W \in Int /\ W \in Nat /\ W >= 2
      /\ W <= kMinuteBucketCount /\ kMinuteBucketCount \in Nat
  BY <1>1, SlotRange, RingFacts
<1>4. /\ r \in [Slots -> [stamp : Nat, n : Nat]] /\ r[Slot(s)] = Stored(c.current)
      /\ \A i \in Slots : i # Slot(s) => r[i] = m[i]
  BY <1>1, <1>2, <1>3 DEF CoreRecords, NextRing
<1>5. e # Slot(s)
  <2>1. s + 1 - W < s /\ s < s + 1 - W + kMinuteBucketCount /\ s \in Int
    BY <1>1, <1>3
  <2> QED BY <1>3, <2>1, SlotsDiffer
<1>6. ~ Covers(s, m[Slot(s)]) \/ m[Slot(s)].n = 0
  <2> SUFFICES ASSUME m[Slot(s)].n # 0 PROVE ~ Covers(s, m[Slot(s)])
    OBVIOUS
  <2> DEFINE u == m[Slot(s)].stamp
  <2>1. u \in Nat /\ u < s /\ Slot(u) = Slot(s)
    BY <1>1, <1>3 DEF NoBucket
  <2>2. ~ (s < u + kMinuteBucketCount)
    <3> HIDE DEF u, s
    <3> QED BY <1>1, <2>1, SlotsDiffer
  <2>3. ~ (u \in s - W + 1 .. s)
    BY <1>1, <1>3, <2>1, <2>2
  <2> QED BY <2>3 DEF Covers
<1> HIDE DEF r, d
<1>7. \A i : i # Slot(s) => Cells(i, m[i].n) \cap Y = {}
  BY DEF Cells
<1>8. ASSUME NEW p PROVE p \in B <=> p \in (A \ X) \cup Y
  <2>1. ASSUME NEW i \in Slots, p \in Cells(i, r[i].n), Covers(s + 1, r[i])
        PROVE  p \in (A \ X) \cup Y
    <3>1. CASE i = Slot(s)
      <4>1. r[i].n = n
        BY <1>1, <1>4, <3>1 DEF Stored, NoBucket
      <4> QED BY <2>1, <3>1, <4>1
    <3>2. CASE i # Slot(s)
      <4>1. r[i] = m[i] /\ m[i].n # 0 /\ m[i].n \in Nat /\ m[i].stamp \in Nat
        BY <1>1, <1>4, <2>1, <3>2 DEF Cells
      <4>2. m[i].stamp < s /\ Slot(m[i].stamp) = i
        BY <1>1, <4>1 DEF NoBucket
      <4>3. Covers(s, m[i]) /\ m[i].stamp # s + 1 - W
        BY <1>1, <1>3, <2>1, <4>1, <4>2 DEF Covers
      <4>4. p \in A
        BY <1>1, <2>1, <4>1, <4>3, SealedFacts
      <4>5. p \notin X
        <5> SUFFICES ASSUME p \in X PROVE FALSE
          OBVIOUS
        <5>1. m[e].stamp = s + 1 - W /\ p \in Cells(e, m[e].n)
          OBVIOUS
        <5>2. i = e
          BY <2>1, <5>1 DEF Cells
        <5> QED BY <4>3, <5>1, <5>2
      <4> QED BY <4>4, <4>5
    <3> QED BY <3>1, <3>2
  <2>2. ASSUME p \in Y PROVE p \in B
    <3>1. n # 0
      BY <1>1, <2>2 DEF Cells
    <3>2. r[Slot(s)] = c.current
      BY <1>4, <3>1 DEF Stored
    <3>3. Covers(s + 1, r[Slot(s)])
      BY <1>1, <1>3, <3>2 DEF Covers
    <3>4. p \in Cells(Slot(s), r[Slot(s)].n)
      BY <2>2, <3>2
    <3> HIDE DEF s, Y
    <3> QED BY <1>3, <1>4, <3>3, <3>4, SealedFacts
  <2>3. ASSUME p \in A, p \notin X PROVE p \in B
    <3>1. PICK i \in Slots : Covers(s, m[i]) /\ p \in Cells(i, m[i].n)
      BY <1>1, <2>3, SealedFacts
    <3>2. m[i].n # 0 /\ m[i].n \in Nat /\ m[i].stamp \in Nat
      BY <1>1, <3>1 DEF Cells
    <3>3. m[i].stamp < s /\ Slot(m[i].stamp) = i
      BY <1>1, <3>2 DEF NoBucket
    <3>4. i # Slot(s)
      BY <1>6, <3>1, <3>2
    <3>5. m[i].stamp # s + 1 - W
      <4> SUFFICES ASSUME m[i].stamp = s + 1 - W PROVE FALSE
        OBVIOUS
      <4>1. i = e
        BY <3>3
      <4> QED BY <2>3, <3>1, <4>1
    <3>6. Covers(s + 1, m[i])
      BY <1>1, <1>3, <3>1, <3>2, <3>5 DEF Covers
    <3>7. r[i] = m[i]
      BY <1>4, <3>4
    <3> QED BY <1>4, <3>1, <3>6, <3>7, SealedFacts
  <2>4. ASSUME p \in B PROVE p \in (A \ X) \cup Y
    <3>1. PICK i \in Slots : Covers(s + 1, r[i]) /\ p \in Cells(i, r[i].n)
      BY <1>4, <2>4, SealedFacts
    <3> QED BY <2>1, <3>1
  <2> QED BY <2>2, <2>3, <2>4
<1>9. B = (A \ X) \cup Y
  <2> HIDE DEF A, B, X, Y
  <2> QED BY <1>8
<1>10. X \subseteq A
  <2> SUFFICES ASSUME NEW p \in X PROVE p \in A
    OBVIOUS
  <2>1. m[e].stamp = s + 1 - W /\ p \in Cells(e, m[e].n)
    OBVIOUS
  <2>2. Covers(s, m[e])
    BY <1>1, <1>3, <2>1 DEF Covers
  <2> QED BY <1>1, <1>3, <2>1, <2>2, SealedFacts
<1>11. A \cap Y = {}
  <2> SUFFICES ASSUME NEW p \in A, p \in Y PROVE FALSE
    OBVIOUS
  <2>1. PICK i \in Slots : Covers(s, m[i]) /\ p \in Cells(i, m[i].n)
    BY <1>1, SealedFacts
  <2>2. i = Slot(s)
    BY <1>7, <2>1
  <2>3. m[i].n # 0
    BY <2>1 DEF Cells
  <2> QED BY <1>6, <2>1, <2>2, <2>3
<1>12. /\ IsFiniteSet(A) /\ Cardinality(A) \in Nat
       /\ IsFiniteSet(X) /\ Cardinality(X) = Expired(c) /\ Expired(c) \in Nat
       /\ IsFiniteSet(Y) /\ Cardinality(Y) = n
  <2>1. IsFiniteSet(A) /\ Cardinality(A) \in Nat
    BY <1>1, SealedFacts
  <2>2. IsFiniteSet(Y) /\ Cardinality(Y) = n
    BY <1>1, CellsFacts
  <2>3. m[e].n \in Nat
    BY <1>1, <1>3
  <2>4. IsFiniteSet(X) /\ Cardinality(X) = IF m[e].stamp = s + 1 - W THEN m[e].n ELSE 0
    BY <2>3, CellsFacts, FS_EmptySet
  <2>5. Expired(c) = IF m[e].stamp = s + 1 - W THEN m[e].n ELSE 0
    BY DEF Expired
  <2> QED BY <2>1, <2>2, <2>3, <2>4, <2>5
<1>13. Cardinality(B) = Cardinality(A) - Cardinality(X) + n /\ Cardinality(X) <= Cardinality(A)
  <2> HIDE DEF A, B, X, Y
  <2>1. IsFiniteSet(A) /\ IsFiniteSet(X) /\ IsFiniteSet(Y)
    BY <1>12
  <2>2. /\ Cardinality((A \ X) \cup Y) = Cardinality(A) - Cardinality(X) + Cardinality(Y)
        /\ Cardinality(X) <= Cardinality(A)
    BY <1>10, <1>11, <2>1, CardinalityExchange
  <2> HIDE DEF n
  <2>3. Cardinality(Y) = n
    BY <1>12
  <2> QED BY <1>9, <2>2, <2>3
<1>14. c.window = Cardinality(A) + n
  <2>1. Covers(s, c.current)
    BY <1>1, <1>3 DEF Covers
  <2> QED BY <2>1 DEF Summed, WindowSum
<1>15. d.window = Cardinality(B)
  BY <1>1, <1>2, <1>12, <1>13, <1>14 DEF subtract
<1>16. WindowSum(d, d.current.stamp) = Cardinality(B)
  <2>1. d.current.stamp = s + 1 /\ d.current.n = 0
    BY <1>2
  <2>2. Cardinality(B) \in Nat
    BY <1>1, <1>12, <1>13
  <2> QED BY <1>2, <2>1, <2>2 DEF WindowSum
<1> QED BY <1>15, <1>16 DEF Summed, d

(* The loop of advanceMinutes() defines the core after each minute.         *)
LEMMA MinutesDef ==
  ASSUME NEW c, NEW n \in Nat
  PROVE  /\ Minutes(c, n)[0] = c
         /\ \A k \in 1 .. n : Minutes(c, n)[k] = NextMinute(Minutes(c, n)[k - 1])
<1> DEFINE Run(j, g) == g = [k \in 0 .. j |-> IF k = 0 THEN c ELSE NextMinute(g[k - 1])]
           T == {j \in Nat : \E g : Run(j, g)}
<1>1. 0 \in T
  <2>1. Run(0, [k \in 0 .. 0 |-> c])
    OBVIOUS
  <2> QED BY <2>1
<1>2. ASSUME NEW j \in 0 .. n - 1, j \in T PROVE j + 1 \in T
  <2>1. PICK g : Run(j, g)
    BY <1>2
  <2> DEFINE h == [k \in 0 .. j + 1 |-> IF k = j + 1 THEN NextMinute(g[j]) ELSE g[k]]
  <2>2. ASSUME NEW k \in 0 .. j + 1
        PROVE  h[k] = IF k = 0 THEN c ELSE NextMinute(h[k - 1])
    <3>1. CASE k = j + 1
      <4>1. k # 0 /\ k - 1 = j /\ j \in 0 .. j + 1 /\ j # j + 1
        BY <3>1
      <4>2. h[k - 1] = g[j]
        BY <4>1
      <4> QED BY <3>1, <4>1, <4>2
    <3>2. CASE k # j + 1
      <4>1. k \in 0 .. j
        BY <3>2
      <4>2. CASE k = 0
        BY <2>1, <4>1, <4>2
      <4>3. CASE k # 0
        <5>1. k - 1 \in 0 .. j + 1 /\ k - 1 # j + 1
          BY <4>1, <4>3
        <5> QED BY <2>1, <4>1, <4>3, <5>1
      <4> QED BY <4>2, <4>3
    <3> QED BY <3>1, <3>2
  <2>3. Run(j + 1, h)
    <3> HIDE DEF h
    <3>1. h = [k \in 0 .. j + 1 |-> h[k]]
      BY DEF h
    <3> QED BY <2>2, <3>1
  <2>4. \E f : Run(j + 1, f)
    <3> HIDE DEF h, Run
    <3> QED BY <2>3
  <2>5. j + 1 \in Nat
    OBVIOUS
  <2> HIDE DEF Run
  <2> QED BY <2>4, <2>5
<1>3. n \in T
  <2>1. \A j \in 0 .. n - 1 : j \in T => j + 1 \in T
    BY <1>2
  <2> HIDE DEF T
  <2>2. 0 .. n \subseteq T
    BY <1>1, <2>1, UpTo
  <2> QED BY <2>2
<1>4. Run(n, Minutes(c, n))
  BY <1>3 DEF Minutes
<1> QED BY <1>4

(* What advancing leaves alone, and that it marks what it changes.          *)
Later(t, c, s, d) ==
  /\ d \in Cores(t) /\ d.current.stamp = s /\ Ticks(c, d) /\ (Summed(c) => Summed(d))

(* One more minute goes on as the minutes before it.                        *)
LEMMA LaterStep ==
  ASSUME NEW t \in Nat, NEW c \in Cores(t), NEW s \in Nat, s < t, NEW d, Later(t, c, s, d)
  PROVE  Later(t, c, s + 1, NextMinute(d))
<1>1. d \in Cores(t) /\ d.current.stamp = s /\ Ticks(c, d) /\ (Summed(c) => Summed(d))
  BY DEF Later
<1>2. NextMinute(d) \in Cores(t) /\ NextMinute(d).current.stamp = s + 1 /\ Ticks(d, NextMinute(d))
  BY <1>1, NextMinuteTypes
<1>3. Summed(c) => Summed(NextMinute(d))
  BY <1>1, NextMinuteWindow
<1>4. Ticks(c, NextMinute(d))
  BY <1>1, <1>2 DEF Ticks
<1> QED BY <1>2, <1>3, <1>4 DEF Later

(* So do all minutes of the loop of advanceMinutes().                       *)
LEMMA MinutesLater ==
  ASSUME NEW t \in Nat, NEW c \in Cores(t), NEW u \in Nat, u <= t, c.current.stamp < u
  PROVE  Later(t, c, u, advanceMinutes(c, u))
<1> DEFINE s == c.current.stamp
           n == u - s
           M == Minutes(c, n)
           T == {k \in 0 .. n : Later(t, c, s + k, M[k])}
<1>0. s \in Nat /\ n \in Nat /\ c \in CoreRecords /\ c.dirty \subseteq Slots
  BY CoreFacts
<1>1. CASE n >= kMinuteBucketCount
  <2> DEFINE d == SkipTo(c, u)
             m == [i \in Slots |-> NoBucket]
  <2>1. advanceMinutes(c, u) = d
    BY <1>1 DEF advanceMinutes
  <2>2. /\ d.lifetime = c.lifetime /\ d.minutes = m /\ d.window = 0
        /\ d.current = [stamp |-> u, n |-> 0] /\ d.dirty = Slots
        /\ d.runtime_dirty_ = c.runtime_dirty_ /\ d.dirty_version_ = c.dirty_version_
    BY <1>0 DEF SkipTo, CoreRecords
  <2>3. d \in CoreRecords
    BY <1>0 DEF SkipTo, CoreRecords, NoBucket
  <2>4. m \in Rings(t) /\ m \in [Slots -> [stamp : Nat, n : Nat]] /\ \A i \in Slots : m[i].n = 0
    BY DEF Rings, Placed, Bucket, NoBucket
  <2>5. d.current \in Bucket(t)
    BY <2>2 DEF Bucket
  <2> HIDE DEF d, m
  <2>6. d \in Cores(t)
    BY <2>2, <2>3, <2>4, <2>5 DEF Cores, CoreRecords, Past
  <2>7. Ticks(c, d)
    BY <1>0, <2>2 DEF Ticks
  <2>8. Summed(d)
    <3>1. Cardinality(Sealed(d.minutes, u)) = 0
      BY <2>2, <2>4, SealedEmpty
    <3> QED BY <2>2, <3>1 DEF Summed, WindowSum
  <2> QED BY <2>1, <2>2, <2>6, <2>7, <2>8 DEF Later
<1>2. CASE n < kMinuteBucketCount
  <2>1. advanceMinutes(c, u) = M[n]
    BY <1>0, <1>2, RingFacts DEF advanceMinutes
  <2>2. M[0] = c /\ \A k \in 1 .. n : M[k] = NextMinute(M[k - 1])
    BY <1>0, MinutesDef
  <2> HIDE DEF M
  <2>3. 0 \in T
    <3>1. Later(t, c, s + 0, M[0])
      BY <1>0, <2>2 DEF Later, Ticks
    <3> QED BY <1>0, <3>1
  <2>4. ASSUME NEW k \in 0 .. n - 1, k \in T PROVE k + 1 \in T
    <3>1. k + 1 \in 1 .. n /\ k + 1 - 1 = k /\ s + k \in Nat /\ s + k < t /\ s + (k + 1) = s + k + 1
      BY <1>0
    <3>2. Later(t, c, s + k, M[k]) /\ M[k + 1] = NextMinute(M[k])
      BY <2>2, <2>4, <3>1
    <3>3. Later(t, c, s + k + 1, NextMinute(M[k]))
      <4> HIDE DEF s
      <4> QED BY <3>1, <3>2, LaterStep
    <3> QED BY <1>0, <3>1, <3>2, <3>3
  <2>5. n \in T
    <3>1. \A k \in 0 .. n - 1 : k \in T => k + 1 \in T
      BY <2>4
    <3> HIDE DEF T, n
    <3>2. 0 .. n \subseteq T
      BY <1>0, <2>3, <3>1, UpTo
    <3> QED BY <1>0, <3>2
  <2>6. s + n = u
    BY <1>0
  <2> QED BY <2>1, <2>5, <2>6
<1> QED BY <1>0, <1>1, <1>2, RingFacts

-----------------------------------------------------------------------------
(* What requests and starts do to the counters.                             *)

(* Memory and an image differ only in what is marked.                       *)
Unmarked(img, c) ==
  /\ \A i \in Slots \ c.dirty : img.minutes[i] = minuteRecord(c, i)
  /\ ~ c.runtime_dirty_ => img.lifetime = c.lifetime

(* What requests do to the counters: every change is marked and counted in  *)
(* dirty_version_.                                                          *)
Grows(t, c, d) ==
  /\ d \in Cores(t) /\ d.lifetime >= c.lifetime
  /\ \A img : Unmarked(img, c) => Unmarked(img, d)
  /\ d.dirty_version_ >= c.dirty_version_ /\ (d.dirty_version_ = c.dirty_version_ => d = c)
  /\ Summed(c) => Summed(d)

(* advanceTo() marks what it changes and keeps the window exact.            *)
LEMMA AdvanceFacts ==
  ASSUME NEW t \in Nat, NEW c \in Cores(t), NEW u \in Nat, u <= t
  PROVE  /\ Grows(t, c, advanceTo(c, u))
         /\ advanceTo(c, u).current.stamp >= u
         /\ advanceTo(c, u).lifetime = c.lifetime
         /\ advanceTo(c, u).runtime_dirty_ = c.runtime_dirty_
<1> DEFINE s == c.current.stamp
           d == advanceTo(c, u)
<1>0. s \in Nat /\ c.lifetime \in Nat /\ c.dirty_version_ \in Nat
  BY CoreFacts
<1>1. CASE u <= s
  <2>1. d = c
    BY <1>1 DEF advanceTo
  <2> QED BY <1>0, <1>1, <2>1 DEF Grows
<1>2. CASE s < u
  <2> DEFINE e == advanceMinutes(c, u)
  <2>1. Later(t, c, u, e)
    BY <1>2, MinutesLater
  <2> HIDE DEF e
  <2>2. d = [e EXCEPT !.dirty_version_ = @ + 1]
    BY <1>0, <1>2 DEF advanceTo, e
  <2>3. e \in Cores(t) /\ e \in CoreRecords /\ Past(e) /\ e.minutes \in Rings(t)
        /\ e.current \in Bucket(t)
    BY <2>1, CoreFacts DEF Later
  <2>4. /\ d.lifetime = e.lifetime /\ d.minutes = e.minutes /\ d.current = e.current
        /\ d.window = e.window /\ d.dirty = e.dirty /\ d.runtime_dirty_ = e.runtime_dirty_
        /\ d.dirty_version_ = e.dirty_version_ + 1 /\ d \in CoreRecords
    <3> HIDE DEF d
    <3> QED BY <2>2, <2>3 DEF CoreRecords
  <2> HIDE DEF d
  <2>5. d \in Cores(t)
    BY <2>3, <2>4 DEF Cores, CoreRecords, Past
  <2>6. Ticks(c, e) /\ e.current.stamp = u /\ (Summed(c) => Summed(e))
    BY <2>1 DEF Later
  <2>7. d.dirty_version_ = c.dirty_version_ + 1 /\ d.lifetime = c.lifetime
        /\ d.runtime_dirty_ = c.runtime_dirty_
    BY <2>4, <2>6 DEF Ticks
  <2>8. \A i \in Slots : minuteRecord(d, i) = minuteRecord(e, i)
    BY <2>4 DEF minuteRecord
  <2>9. \A img : Unmarked(img, c) => Unmarked(img, d)
    BY <2>4, <2>6, <2>7, <2>8 DEF Unmarked, Ticks
  <2>10. Summed(c) => Summed(d)
    BY <2>4, <2>6 DEF Summed, WindowSum
  <2> QED BY <1>0, <2>4, <2>5, <2>6, <2>7, <2>9, <2>10 DEF Grows, d
<1> QED BY <1>0, <1>1, <1>2

(* record() does so too.                                                    *)
LEMMA RecordFacts ==
  ASSUME NEW t \in Nat, NEW c \in Cores(t)
  PROVE  Grows(t, c, record(c, t))
<1> DEFINE e == advanceTo(c, t)
           d == record(c, t)
           s == e.current.stamp
<1>1. Grows(t, c, e) /\ e.lifetime = c.lifetime /\ e.runtime_dirty_ = c.runtime_dirty_
  BY AdvanceFacts
<1>2. d = [e EXCEPT !.lifetime = @ + 1, !.current.n = @ + 1, !.window = @ + 1,
                    !.dirty = @ \cup {Slot(s)}, !.runtime_dirty_ = TRUE,
                    !.dirty_version_ = @ + 1]
  BY DEF record
<1>3. c.lifetime \in Nat /\ c.dirty_version_ \in Nat
  BY CoreFacts
<1> HIDE DEF e
<1>4. /\ e \in CoreRecords /\ Past(e) /\ e.minutes \in Rings(t) /\ e.minutes \in [Slots -> Bucket(t)]
      /\ e.current \in Bucket(t)
      /\ e.lifetime \in Nat /\ s \in Nat /\ e.window \in Nat /\ e.current.n \in Nat
      /\ e.dirty_version_ \in Nat
  BY <1>1, CoreFacts DEF Grows
<1>5. Slot(s) \in Slots
  BY <1>4, SlotRange
<1>6. /\ d.lifetime = e.lifetime + 1 /\ d.minutes = e.minutes
      /\ d.window = e.window + 1 /\ d.runtime_dirty_ = TRUE
      /\ d.dirty_version_ = e.dirty_version_ + 1
  <2> HIDE DEF d
  <2> QED BY <1>2, <1>4 DEF CoreRecords
<1>7. d.current = [stamp |-> s, n |-> e.current.n + 1]
  <2> HIDE DEF d
  <2> QED BY <1>2, <1>4 DEF CoreRecords
<1>8. d.dirty = e.dirty \cup {Slot(s)}
  <2> HIDE DEF d
  <2> QED BY <1>2, <1>4 DEF CoreRecords
<1>9. d \in CoreRecords
  <2> HIDE DEF d
  <2>1. [stamp |-> s, n |-> e.current.n + 1] \in [stamp : Nat, n : Nat]
    BY <1>4
  <2>2. e.dirty \cup {Slot(s)} \in SUBSET Slots
    BY <1>4, <1>5 DEF CoreRecords
  <2>3. d = [lifetime |-> d.lifetime, minutes |-> d.minutes, current |-> d.current,
             window |-> d.window, dirty |-> d.dirty, runtime_dirty_ |-> d.runtime_dirty_,
             dirty_version_ |-> d.dirty_version_]
    BY <1>2, <1>4 DEF CoreRecords
  <2>4. /\ d.lifetime \in Nat /\ d.minutes \in [Slots -> [stamp : Nat, n : Nat]]
        /\ d.current \in [stamp : Nat, n : Nat] /\ d.window \in Nat /\ d.dirty \in SUBSET Slots
        /\ d.runtime_dirty_ \in BOOLEAN /\ d.dirty_version_ \in Nat
    <3>0. d.runtime_dirty_ \in BOOLEAN
      BY <1>6, Zenon
    <3>1. d.lifetime \in Nat /\ d.window \in Nat /\ d.dirty_version_ \in Nat
      BY <1>4, <1>6
    <3>2. d.minutes \in [Slots -> [stamp : Nat, n : Nat]]
      BY <1>4, <1>6 DEF CoreRecords
    <3> QED BY <1>7, <1>8, <2>1, <2>2, <3>0, <3>1, <3>2
  <2> QED BY <2>3, <2>4 DEF CoreRecords
<1> HIDE DEF d
<1>10. d \in Cores(t)
  <2>1. d.current \in Bucket(t)
    BY <1>4, <1>7 DEF Bucket
  <2>2. Past(d)
    BY <1>4, <1>6, <1>7 DEF Past
  <2> QED BY <1>4, <1>6, <1>9, <2>1, <2>2 DEF Cores, CoreRecords
<1>11. ASSUME NEW img, Unmarked(img, c) PROVE Unmarked(img, d)
  <2>1. Unmarked(img, e)
    BY <1>1, <1>11 DEF Grows
  <2>2. ASSUME NEW i \in Slots \ d.dirty PROVE img.minutes[i] = minuteRecord(d, i)
    <3>1. i \in Slots \ e.dirty /\ i # Slot(s)
      BY <1>8
    <3>2. minuteRecord(d, i) = minuteRecord(e, i)
      BY <1>6, <1>7, <3>1 DEF minuteRecord
    <3> QED BY <2>1, <3>1, <3>2 DEF Unmarked
  <2> QED BY <1>6, <2>2 DEF Unmarked
<1>12. ASSUME Summed(c) PROVE Summed(d)
  <2>1. e.window = WindowSum(e, s)
    BY <1>1, <1>12 DEF Grows, Summed
  <2>2. Covers(s, e.current) /\ Covers(s, d.current)
    BY <1>4, <1>7, RingFacts DEF Covers
  <2>3. Cardinality(Sealed(e.minutes, s)) \in Nat
    BY <1>4, SealedFacts DEF CoreRecords
  <2>4. e.window = Cardinality(Sealed(e.minutes, s)) + e.current.n
    BY <2>1, <2>2 DEF WindowSum
  <2>5. WindowSum(d, s) = Cardinality(Sealed(e.minutes, s)) + (e.current.n + 1)
    BY <1>6, <1>7, <2>2 DEF WindowSum
  <2>6. d.current.stamp = s
    BY <1>7
  <2> QED BY <1>4, <1>6, <2>3, <2>4, <2>5, <2>6 DEF Summed
<1>13. d.lifetime >= c.lifetime /\ d.dirty_version_ > c.dirty_version_
  BY <1>1, <1>3, <1>4, <1>6 DEF Grows
<1> QED BY <1>3, <1>4, <1>6, <1>10, <1>11, <1>12, <1>13 DEF Grows, d

(* Empty counters.                                                          *)
LEMMA StartEmptyFacts ==
  ASSUME NEW t \in Nat, NEW u \in Nat, u <= t
  PROVE  startEmpty(u) \in Cores(t) /\ Summed(startEmpty(u)) /\ startEmpty(u).lifetime = 0
<1> DEFINE m == [i \in Slots |-> NoBucket]
           d == startEmpty(u)
<1>1. m \in Rings(t) /\ m \in [Slots -> [stamp : Nat, n : Nat]] /\ \A i \in Slots : m[i].n = 0
  BY DEF Rings, Placed, Bucket, NoBucket
<1> HIDE DEF m
<1>2. d = [lifetime |-> 0, minutes |-> m, current |-> [stamp |-> u, n |-> 0], window |-> 0,
           dirty |-> {}, runtime_dirty_ |-> TRUE, dirty_version_ |-> 1]
  BY DEF startEmpty, m
<1> HIDE DEF d
<1>3. [stamp |-> u, n |-> 0] \in Bucket(t)
  BY DEF Bucket
<1>4. d \in Cores(t)
  BY <1>1, <1>2, <1>3 DEF Cores, Past
<1>5. Cardinality(Sealed(m, u)) = 0
  BY <1>1, SealedEmpty
<1>6. Summed(d)
  BY <1>2, <1>5 DEF Summed, WindowSum
<1> QED BY <1>2, <1>4, <1>6 DEF d

(* There is a bucket with the latest stamp.                                 *)
LEMMA LatestExists ==
  ASSUME NEW t \in Nat, NEW m \in [Slots -> Bucket(t)], NEW U \in SUBSET Slots, U # {}
  PROVE  \E i \in U : \A j \in U : m[j].stamp <= m[i].stamp
<1> DEFINE A == {t - m[i].stamp : i \in U}
<1>1. \A i \in U : m[i].stamp \in 0 .. t
  BY DEF Bucket
<1>2. A \subseteq Nat /\ A # {}
  BY <1>1
<1>3. PICK a \in A : \A b \in A : ~ (<<b, a>> \in OpToRel(<, Nat))
  <2> HIDE DEF A
  <2> QED BY <1>2, WFMin, NatLessThanWellFounded
<1>4. PICK i \in U : a = t - m[i].stamp
  BY <1>3
<1>5. ASSUME NEW j \in U PROVE m[j].stamp <= m[i].stamp
  <2> DEFINE b == t - m[j].stamp
  <2>1. b \in A /\ b \in Nat /\ a \in Nat
    BY <1>2
  <2>2. ~ (b < a)
    <3> HIDE DEF A, b
    <3> QED BY <1>3, <2>1 DEF OpToRel
  <2> QED BY <1>1, <1>4, <2>1, <2>2
<1> QED BY <1>5

(* The fields of an image, which is never the missing one.                  *)
LEMMA ImageFacts ==
  ASSUME NEW t \in Nat, NEW img \in Images(t)
  PROVE  /\ img.lifetime \in Nat /\ img.minutes \in Rings(t) /\ img.minutes \in [Slots -> Bucket(t)]
         /\ Placed(img.minutes) /\ img # NoImage
  BY DEF Images, Rings, NoImage

(* Activating moves a bucket into the current one and loses nothing.        *)
LEMMA ActivateFacts ==
  ASSUME NEW t \in Nat, NEW img \in Images(t)
  PROVE  LET c == activateLatestBuckets(img, t) IN
         /\ c \in Cores(t) /\ c.runtime_dirty_ = TRUE
         /\ \A i \in Slots : minuteRecord(c, i) = img.minutes[i]
<1> DEFINE used == {i \in Slots : img.minutes[i].n # 0}
           c == activateLatestBuckets(img, t)
           e == startEmpty(t)
           m == img.minutes
<1>1. /\ m \in Rings(t) /\ m \in [Slots -> Bucket(t)]
      /\ \A i \in Slots : m[i] = NoBucket \/ (m[i].n # 0 /\ Slot(m[i].stamp) = i)
  BY ImageFacts DEF Placed
<1>2. CASE used = {}
  <2>1. c = e
    BY <1>2 DEF activateLatestBuckets
  <2>2. \A i \in Slots : m[i] = NoBucket
    BY <1>1, <1>2
  <2>3. e \in Cores(t)
    BY StartEmptyFacts
  <2>4. e.runtime_dirty_ = TRUE /\ e.current = [stamp |-> t, n |-> 0] 
        /\ e.minutes = [i \in Slots |-> NoBucket]
    BY DEF startEmpty
  <2>5. \A i \in Slots : minuteRecord(e, i) = NoBucket
    BY <2>4 DEF minuteRecord, Stored
  <2> QED BY <2>1, <2>2, <2>3, <2>4, <2>5
<1>3. CASE used # {}
  <2> DEFINE l == CHOOSE i \in used : \A j \in used : m[j].stamp <= m[i].stamp
  <2>1. l \in used /\ \A j \in used : m[j].stamp <= m[l].stamp
    <3>1. \E i \in used : \A j \in used : m[j].stamp <= m[i].stamp
      <4>1. used \in SUBSET Slots
        OBVIOUS
      <4> HIDE DEF used, m
      <4> QED BY <1>1, <1>3, <4>1, LatestExists
    <3> QED BY <3>1
  <2>2. c = [e EXCEPT !.minutes = [m EXCEPT ![l] = NoBucket], !.current = m[l]]
    BY <1>3 DEF activateLatestBuckets
  <2> HIDE DEF l
  <2>3. /\ l \in Slots /\ m[l].n # 0 /\ Slot(m[l].stamp) = l /\ m[l] \in Bucket(t)
        /\ m[l].stamp \in Nat /\ \A j \in Slots : m[j].n # 0 => m[j].stamp <= m[l].stamp
    BY <1>1, <2>1 DEF Bucket, NoBucket
  <2> DEFINE r == [m EXCEPT ![l] = NoBucket]
  <2>4. /\ r \in [Slots -> Bucket(t)] /\ r[l] = NoBucket
        /\ \A i \in Slots : i # l => r[i] = m[i]
    BY <1>1, <2>3 DEF NoBucket, Bucket
  <2> HIDE DEF r, m
  <2>5. r \in Rings(t)
    BY <1>1, <2>4 DEF Rings, Placed
  <2>6. ASSUME NEW i \in Slots, r[i].n # 0 PROVE r[i].stamp < m[l].stamp
    <3>1. i # l /\ r[i] = m[i] /\ m[i].n # 0
      BY <2>4, <2>6 DEF NoBucket
    <3>2. Slot(m[i].stamp) = i /\ m[i].stamp <= m[l].stamp /\ m[i].stamp \in Nat
      BY <1>1, <2>3, <3>1 DEF Bucket, NoBucket
    <3>3. m[i].stamp # m[l].stamp
      BY <2>3, <3>1, <3>2
    <3> QED BY <2>3, <3>1, <3>2, <3>3
  <2>7. e \in CoreRecords /\ e.runtime_dirty_ = TRUE
    BY StartEmptyFacts, CoreFacts DEF startEmpty
  <2>8. /\ c.minutes = r /\ c.current = m[l] /\ c.runtime_dirty_ = TRUE
        /\ c.lifetime = e.lifetime /\ c.window = e.window
    <3> HIDE DEF c, e
    <3> QED BY <2>2, <2>7 DEF CoreRecords, r
  <2>9. c \in Cores(t)
    <3>1. c = [e EXCEPT !.minutes = r, !.current = m[l]]
      BY <2>2 DEF r
    <3>2. Past(c)
      BY <2>6, <2>8 DEF Past
    <3> HIDE DEF c, e
    <3> QED BY <2>3, <2>5, <2>7, <3>1, <3>2 DEF CoreRecords, Cores
  <2>10. \A i \in Slots : minuteRecord(c, i) = m[i]
    <3> HIDE DEF c
    <3> QED BY <2>3, <2>4, <2>8 DEF minuteRecord, Stored
  <2> QED BY <2>8, <2>9, <2>10 DEF m
<1> QED BY <1>2, <1>3

(* A start keeps all that the image holds.                                  *)
LEMMA StartFromImageFacts ==
  ASSUME NEW t \in Nat, NEW img \in Images(t)
  PROVE  /\ startFromImage(img, t) \in Cores(t) /\ Summed(startFromImage(img, t))
         /\ Unmarked(img, startFromImage(img, t))
         /\ startFromImage(img, t).lifetime = img.lifetime
<1> DEFINE a == activateLatestBuckets(img, t)
           c == [a EXCEPT !.lifetime = img.lifetime, !.dirty_version_ = 0]
           e == advanceTo(c, t)
           w == WindowSum(e, t)
           f == [e EXCEPT !.window = w]
           d == [f EXCEPT !.dirty_version_ = IF @ < 1 THEN 1 ELSE @]
<1>0. startFromImage(img, t) = d
  BY DEF startFromImage, rebuildAggregates
<1>1. /\ a \in Cores(t) /\ a.runtime_dirty_ = TRUE
      /\ \A i \in Slots : minuteRecord(a, i) = img.minutes[i]
  BY ActivateFacts
<1>2. img.lifetime \in Nat
  BY ImageFacts
<1> HIDE DEF a
<1>3. /\ a \in CoreRecords /\ Past(a) /\ a.minutes \in Rings(t) /\ a.current \in Bucket(t)
  BY <1>1, CoreFacts
<1>4. /\ c \in CoreRecords /\ c.minutes = a.minutes /\ c.current = a.current
      /\ c.lifetime = img.lifetime /\ c.runtime_dirty_ = a.runtime_dirty_
  BY <1>2, <1>3 DEF CoreRecords
<1> HIDE DEF c
<1>5. c \in Cores(t)
  BY <1>3, <1>4 DEF Cores, CoreRecords, Past
<1>6. Unmarked(img, c)
  <2>1. \A i \in Slots : minuteRecord(c, i) = img.minutes[i]
    BY <1>1, <1>4 DEF minuteRecord
  <2> QED BY <1>1, <1>4, <2>1 DEF Unmarked
<1>7. /\ Grows(t, c, e) /\ e.current.stamp >= t /\ e.lifetime = img.lifetime
  BY <1>4, <1>5, AdvanceFacts
<1> HIDE DEF e
<1>8. e \in Cores(t) /\ Unmarked(img, e)
  BY <1>6, <1>7 DEF Grows
<1>9. /\ e \in CoreRecords /\ Past(e) /\ e.minutes \in Rings(t) /\ e.current \in Bucket(t)
      /\ e.current.stamp \in 0 .. t /\ e.current.n \in Nat
  BY <1>8, CoreFacts
<1>10. e.current.stamp = t
  BY <1>7, <1>9
<1>11. w \in Nat
  <2>1. Cardinality(Sealed(e.minutes, t)) \in Nat
    BY <1>9, SealedFacts DEF CoreRecords
  <2> QED BY <1>9, <2>1 DEF WindowSum
<1> HIDE DEF w
<1>12. /\ f \in CoreRecords /\ f.minutes = e.minutes /\ f.current = e.current /\ f.window = w
       /\ f.dirty = e.dirty /\ f.runtime_dirty_ = e.runtime_dirty_ /\ f.lifetime = e.lifetime
  BY <1>9, <1>11 DEF CoreRecords
<1> HIDE DEF f
<1>13. /\ d \in CoreRecords /\ d.minutes = f.minutes /\ d.current = f.current /\ d.window = f.window
       /\ d.dirty = f.dirty /\ d.runtime_dirty_ = f.runtime_dirty_ /\ d.lifetime = f.lifetime
  BY <1>12 DEF CoreRecords
<1> HIDE DEF d
<1>14. d \in Cores(t)
  BY <1>9, <1>12, <1>13 DEF Cores, CoreRecords, Past
<1>15. Summed(d)
  BY <1>10, <1>12, <1>13 DEF Summed, WindowSum, w
<1>16. Unmarked(img, d)
  <2>1. \A i \in Slots : minuteRecord(d, i) = minuteRecord(e, i)
    BY <1>12, <1>13 DEF minuteRecord
  <2> QED BY <1>8, <1>12, <1>13, <2>1 DEF Unmarked
<1> QED BY <1>0, <1>7, <1>12, <1>13, <1>14, <1>15, <1>16

-----------------------------------------------------------------------------
(* Images and patches.                                                      *)

(* What minuteRecord() returns for a slot belongs there.                    *)
LEMMA MinuteRecordFacts ==
  ASSUME NEW t \in Nat, NEW c \in Cores(t), NEW i \in Slots
  PROVE  /\ minuteRecord(c, i) \in Bucket(t)
         /\ minuteRecord(c, i) = NoBucket
              \/ (minuteRecord(c, i).n # 0 /\ Slot(minuteRecord(c, i).stamp) = i)
<1>1. /\ c.current \in Bucket(t) /\ c.minutes \in [Slots -> Bucket(t)] /\ Placed(c.minutes)
  BY CoreFacts
<1> QED BY <1>1, StoredFacts DEF minuteRecord, Placed

(* The image of a core agrees with the core in every slot.                  *)
LEMMA PersistentImageFacts ==
  ASSUME NEW t \in Nat, NEW c \in Cores(t)
  PROVE  /\ persistentImage(c) \in Images(t) /\ persistentImage(c).lifetime = c.lifetime
         /\ \A i \in Slots : persistentImage(c).minutes[i] = minuteRecord(c, i)
         /\ Unmarked(persistentImage(c), c)
<1> DEFINE m == [i \in Slots |-> minuteRecord(c, i)]
<1>1. m \in [Slots -> Bucket(t)] /\ Placed(m)
  BY MinuteRecordFacts DEF Placed
<1>2. c.lifetime \in Nat
  BY CoreFacts
<1>3. persistentImage(c) = [lifetime |-> c.lifetime, minutes |-> m]
  BY DEF persistentImage
<1> HIDE DEF m
<1>4. persistentImage(c) \in Images(t)
  BY <1>1, <1>2, <1>3 DEF Images, Rings
<1>5. \A i \in Slots : persistentImage(c).minutes[i] = minuteRecord(c, i)
  BY <1>3 DEF m
<1> QED BY <1>3, <1>4, <1>5 DEF Unmarked

(* The marked part, applied to an image that differs only in it, gives the  *)
(* whole.                                                                   *)
LEMMA DirtyPatchFacts ==
  ASSUME NEW t \in Nat, NEW c \in Cores(t)
  PROVE  /\ DirtyPatch(c) \in Patches(t)
         /\ \A img : Unmarked(img, c) => applyPatch(img, DirtyPatch(c)) = persistentImage(c)
<1> DEFINE f == [i \in c.dirty |-> minuteRecord(c, i)]
<1>0. c.dirty \in SUBSET Slots /\ c.lifetime \in Nat
  BY CoreFacts
<1>1. f \in [c.dirty -> Bucket(t)] /\ Placed(f) /\ DOMAIN f = c.dirty
  BY <1>0, MinuteRecordFacts DEF Placed
<1>2. DirtyPatch(c) = [lifetime |-> c.lifetime, minutes |-> f]
  BY DEF DirtyPatch
<1>3. \A i \in c.dirty : f[i] = minuteRecord(c, i)
  OBVIOUS
<1> HIDE DEF f
<1>4. DirtyPatch(c) \in Patches(t)
  BY <1>0, <1>1, <1>2 DEF Patches
<1>5. ASSUME NEW img, Unmarked(img, c) PROVE applyPatch(img, DirtyPatch(c)) = persistentImage(c)
  <2> DEFINE a == [i \in Slots |-> IF i \in DOMAIN f THEN f[i] ELSE img.minutes[i]]
             b == [i \in Slots |-> minuteRecord(c, i)]
  <2>1. applyPatch(img, DirtyPatch(c)) = [lifetime |-> c.lifetime, minutes |-> a]
    BY <1>2 DEF applyPatch
  <2>2. persistentImage(c) = [lifetime |-> c.lifetime, minutes |-> b]
    BY DEF persistentImage
  <2>3. a = b
    BY <1>1, <1>3, <1>5 DEF Unmarked
  <2> QED BY <2>1, <2>2, <2>3
<1> QED BY <1>4, <1>5

(* Without marks the heartbeat is enough.                                   *)
LEMMA RuntimePatchFacts ==
  ASSUME NEW t \in Nat, NEW c \in Cores(t), ~ hasDirty(c)
  PROVE  /\ runtimePatch(c) \in Patches(t)
         /\ \A img : Unmarked(img, c) => applyPatch(img, runtimePatch(c)) = persistentImage(c)
<1> DEFINE f == [i \in {} |-> NoBucket]
<1>0. c.dirty = {} /\ c.lifetime \in Nat
  BY CoreFacts DEF hasDirty
<1>1. f \in [{} -> Bucket(t)] /\ Placed(f) /\ DOMAIN f = {}
  BY DEF Placed
<1>2. runtimePatch(c) = [lifetime |-> c.lifetime, minutes |-> f]
  BY DEF runtimePatch, NoPatch
<1> HIDE DEF f
<1>4. runtimePatch(c) \in Patches(t)
  <2>1. f \in [c.dirty -> Bucket(t)] /\ c.dirty \in SUBSET Slots
    BY <1>0, <1>1
  <2> DEFINE D == c.dirty
  <2>2. runtimePatch(c) \in [lifetime : Nat, minutes : {g \in [D -> Bucket(t)] : Placed(g)}]
    <3>1. c.lifetime \in Nat
      BY <1>0
    <3> HIDE DEF D
    <3> QED BY <1>1, <1>2, <2>1, <3>1 DEF D
  <2> HIDE DEF D
  <2> QED BY <2>1, <2>2 DEF Patches, D
<1>5. ASSUME NEW img, Unmarked(img, c) PROVE applyPatch(img, runtimePatch(c)) = persistentImage(c)
  <2> DEFINE a == [i \in Slots |-> IF i \in DOMAIN f THEN f[i] ELSE img.minutes[i]]
             b == [i \in Slots |-> minuteRecord(c, i)]
  <2>1. applyPatch(img, runtimePatch(c)) = [lifetime |-> c.lifetime, minutes |-> a]
    BY <1>2 DEF applyPatch
  <2>2. persistentImage(c) = [lifetime |-> c.lifetime, minutes |-> b]
    BY DEF persistentImage
  <2>3. a = b
    BY <1>0, <1>1, <1>5 DEF Unmarked
  <2> QED BY <2>1, <2>2, <2>3
<1> QED BY <1>4, <1>5

(* A core whose marks are removed agrees with its own image only.           *)
LEMMA CleanFacts ==
  ASSUME NEW t \in Nat, NEW c \in Cores(t)
  PROVE  /\ Clean(c) \in Cores(t) /\ Clean(c).lifetime = c.lifetime
         /\ Clean(c).dirty_version_ = c.dirty_version_
         /\ Unmarked(persistentImage(c), Clean(c))
         /\ Summed(c) => Summed(Clean(c))
<1> DEFINE d == Clean(c)
<1>1. c \in CoreRecords /\ Past(c) /\ c.minutes \in Rings(t) /\ c.current \in Bucket(t)
  BY CoreFacts
<1>2. /\ d.lifetime = c.lifetime /\ d.minutes = c.minutes /\ d.current = c.current
      /\ d.window = c.window /\ d.dirty_version_ = c.dirty_version_ /\ d.dirty = {}
  BY <1>1 DEF Clean, CoreRecords
<1>3. d \in CoreRecords
  BY <1>1 DEF Clean, CoreRecords
<1> HIDE DEF d
<1>4. d \in Cores(t)
  BY <1>1, <1>2, <1>3 DEF Cores, CoreRecords, Past
<1>5. \A i \in Slots : persistentImage(c).minutes[i] = minuteRecord(d, i)
  BY <1>2, PersistentImageFacts DEF minuteRecord
<1>6. persistentImage(c).lifetime = d.lifetime
  BY <1>2, PersistentImageFacts
<1>7. Unmarked(persistentImage(c), d)
  BY <1>5, <1>6 DEF Unmarked
<1>8. Summed(c) => Summed(d)
  BY <1>2 DEF Summed, WindowSum
<1> QED BY <1>2, <1>4, <1>7, <1>8 DEF d

(* A patch is never the missing one.                                        *)
LEMMA Patched ==
  ASSUME NEW t \in Nat, NEW p \in Patches(t)
  PROVE  p # NoPatch /\ p.lifetime \in Nat
  BY DEF Patches, NoPatch

(* Time goes on: what was no later than t is no later than u.               *)
LEMMA LaterTypes ==
  ASSUME NEW t \in Nat, NEW u \in Nat, t <= u
  PROVE  /\ Cores(t) \subseteq Cores(u) /\ Images(t) \subseteq Images(u)
         /\ Patches(t) \subseteq Patches(u) /\ Logs(t) \subseteq Logs(u)
         /\ Checkpoints(t) \subseteq Checkpoints(u)
<1>1. Bucket(t) \subseteq Bucket(u)
  BY DEF Bucket
<1>2. Rings(t) \subseteq Rings(u)
  BY <1>1 DEF Rings
<1>3. Images(t) \subseteq Images(u)
  BY <1>2 DEF Images
<1>4. Patches(t) \subseteq Patches(u)
  <2> SUFFICES ASSUME NEW p \in Patches(t) PROVE p \in Patches(u)
    OBVIOUS
  <2>1. PICK D \in SUBSET Slots :
          p \in [lifetime : Nat, minutes : {f \in [D -> Bucket(t)] : Placed(f)}]
    BY DEF Patches
  <2>2. p \in [lifetime : Nat, minutes : {f \in [D -> Bucket(u)] : Placed(f)}]
    BY <1>1, <2>1
  <2> QED BY <2>2 DEF Patches
<1>5. Records(t) \subseteq Records(u)
  BY <1>4 DEF Records
<1>6. Logs(t) \subseteq Logs(u)
  <2>1. Seq(Records(t)) \subseteq Seq(Records(u))
    BY <1>5
  <2> QED BY <2>1 DEF Logs
<1>7. Checkpoints(t) \subseteq Checkpoints(u)
  BY <1>3 DEF Checkpoints
<1>8. Cores(t) \subseteq Cores(u)
  BY <1>1, <1>2 DEF Cores
<1> QED BY <1>3, <1>4, <1>6, <1>7, <1>8

-----------------------------------------------------------------------------
(* The inductive invariant of the persistence.                              *)

Labels == {"down", "open", "load", "wait", "end", "image", "replace", "dirsync", "inspect",
           "truncate", "logsync", "logdir", "ack", "flush", "append", "appendsync",
           "rollback"}

FileTypes ==
  /\ files \in [slot : Pairs(now), wal : Logs(now)]
  /\ disk \in [slot : [Names -> SUBSET Checkpoints(now)], wal : SUBSET Logs(now),
               late : SUBSET Names]
  /\ \A m \in Names : \A c \in disk.slot[m] : c.generation # 0 => NameOf(c.generation) = m

WellTyped ==
  /\ now \in Nat /\ now >= kMinuteBucketCount /\ core \in Cores(now) /\ FileTypes
  /\ ready \in BOOLEAN /\ stopping \in BOOLEAN /\ last \in BOOLEAN
  /\ generation_ \in Nat /\ sequence_ \in Nat /\ version \in Nat /\ cut \in Nat
  /\ acked \in Nat /\ image \in Images(now) \cup {NoImage}
  /\ pending \in Patches(now) \cup {NoPatch}
  /\ candidates \subseteq Images(now) \cup {NoImage}

(* Where the thread may be, and for what.                                   *)
Writing == {"recover", "initial", "compact"}

AtLabel ==
  /\ pc \in Labels
  /\ pc \in {"down", "open"} => ~ ready
  /\ pc \notin {"down", "open", "wait", "end"} => ready
  /\ pc = "down" => task = "start"
  /\ pc \in {"open", "load"} => task \in {"start", "recover"}
  /\ pc \in {"truncate", "logsync", "logdir"} => task \in {"start", "repair"} \cup Writing
  /\ pc = "end" => task \in {"repair"} \cup Writing
  /\ pc \notin {"down", "open", "load", "truncate", "logsync", "logdir", "end"} => task \in Writing
  /\ task = "start" => pending = NoPatch
  /\ last => stopping

Repairing == task \in {"start", "repair"}

Best  == Newest(files.slot)
Found == Replay(files.slot, files.wal)

(* The files are among what the disk may hold; the slots differ only while  *)
(* a checkpoint is being renamed, or late; no log is newer than the         *)
(* checkpoints.                                                             *)
NoNewer(g) ==
  \A log \in disk.wal : \A k \in 1 .. Len(log.records) : log.records[k].generation <= g

OnDisk ==
  /\ \A m \in Names : files.slot[m] \in disk.slot[m]
  /\ files.wal \in disk.wal
  /\ pc # "dirsync" /\ disk.late = {} => \A m \in Names : disk.slot[m] = {files.slot[m]}
  /\ NoNewer(Best.generation)
  /\ pc \in {"dirsync", "inspect"} => NoNewer(generation_)

(* Nothing but what is late is on its way to the directory.                 *)
Settled ==
  /\ \A m \in Names : files.slot[m] \in disk.slot[m]
  /\ disk.late = {} => \A m \in Names : disk.slot[m] = {files.slot[m]}
  /\ files.wal \in disk.wal /\ NoNewer(Best.generation)

Replacing ==
  pc \in {"dirsync", "inspect"} =>
    /\ files.slot[NameOf(generation_ + 1)] = NextCheckpoint
    /\ \A n \in Names \ {NameOf(generation_ + 1)} :
         /\ files.slot[n].generation = generation_
         /\ disk.late = {} => disk.slot[n] = {files.slot[n]}

Numbered ==
  ready /\ pc \notin {"load", "dirsync", "inspect"} => generation_ = Best.generation

(* The log continues the checkpoint to its end, and the Store knows it.     *)
Tidy ==
  ready /\ generation_ # 0
  /\ pc \in {"wait", "end", "logsync", "logdir", "ack", "flush", "append"}
  => Found.valid /\ ~ files.wal.torn /\ Found.sequence = sequence_

Repaired ==
  pc = "truncate" /\ Repairing =>
    /\ generation_ # 0 /\ cut = Found.kept
    /\ image = Found.image /\ sequence_ = Found.sequence

(* An image is on its way to the disk.                                      *)
Underway ==
  /\ image \in candidates /\ image # NoImage /\ Unmarked(image, core)
  /\ image.lifetime <= core.lifetime
  /\ last => image.lifetime = core.lifetime

Checkpointing ==
  ~ Repairing /\ pc \in {"replace", "dirsync", "inspect", "truncate", "logsync", "logdir", "ack"}
  => /\ Underway
     /\ version <= core.dirty_version_
     /\ version = core.dirty_version_ => image = persistentImage(core)
     /\ task # "recover" => pending = NoPatch
     /\ pc = "truncate" => cut = 0 /\ Best.image = image /\ Best.sequence = sequence_
     /\ pc \in {"truncate", "logsync", "logdir", "ack"} => generation_ # 0

Cut ==
  /\ pc \in {"logsync", "logdir"} => Found.image = image /\ generation_ # 0
  /\ pc = "logdir" => disk.wal = {files.wal}
  /\ pc = "ack" => Found.image = image /\ candidates = {image} /\ acked = image.lifetime

Resting ==
  /\ ready /\ pc \in {"wait", "end"} => pending = NoPatch
  /\ pc = "flush" => pending = NoPatch /\ generation_ # 0
  /\ pc = "image" /\ task # "recover" => pending = NoPatch
  /\ ready /\ generation_ # 0 /\ pc \in {"wait", "end", "flush"} => Unmarked(Found.image, core)

Shortened == [records |-> SubSeq(files.wal.records, 1, cut), torn |-> FALSE]

Appending ==
  /\ pc \in {"append", "appendsync"} => Underway /\ generation_ # 0 /\ pending # NoPatch
  /\ pc = "append" => image = applyPatch(Found.image, pending)
  /\ pc = "appendsync" =>
       Found.valid /\ ~ files.wal.torn /\ Found.sequence = sequence_ + 1 /\ Found.image = image
  /\ pc \in {"appendsync", "rollback"} =>
       cut <= Len(files.wal.records) /\ Replay(files.slot, Shortened).image \in candidates

Combined(a, b) == [n \in Names |-> IF n = "a" THEN a ELSE b]

Recoverable ==
  /\ \A log \in disk.wal : Replay(files.slot, log).image \in candidates
  /\ disk.late = {} =>
       \A a \in disk.slot["a"], b \in disk.slot["b"], log \in disk.wal :
         Replay(Combined(a, b), log).image \in candidates

Survives ==
  /\ Recoverable
  /\ \A c \in candidates : LifetimeOf(c) >= acked
  /\ Serving => core.lifetime >= acked

Kept ==
  /\ OnDisk /\ Replacing /\ Numbered /\ Tidy /\ Repaired /\ Checkpointing /\ Cut
  /\ Resting /\ Appending /\ Survives /\ ShutdownWrites

IInv == WellTyped /\ AtLabel /\ (excused = {} => Kept) /\ WindowIsSum

-----------------------------------------------------------------------------
(* The parts of the type invariant that the proofs use.                     *)
LEMMA Types ==
  ASSUME WellTyped
  PROVE  /\ now \in Nat /\ core \in Cores(now) /\ core.lifetime \in Nat
         /\ core.dirty_version_ \in Nat
         /\ files.slot \in Pairs(now) /\ files.wal \in Logs(now)
         /\ files.wal.records \in Seq(Records(now)) /\ Len(files.wal.records) \in Nat
         /\ files = [slot |-> files.slot, wal |-> files.wal]
         /\ disk = [slot |-> disk.slot, wal |-> disk.wal, late |-> disk.late]
         /\ DOMAIN disk.slot = Names
         /\ \A m \in Names : disk.slot[m] \subseteq Checkpoints(now)
         /\ disk.wal \subseteq Logs(now) /\ FileTypes
  BY CoreFacts DEF WellTyped, FileTypes, Logs

(* The two checkpoint files.                                                *)
LEMMA NamesFacts == Names = {"a", "b"} /\ "a" \in Names /\ "b" \in Names
  BY DEF Names

(* Successive generations go to different files.                            *)
LEMMA NameOfFacts ==
  ASSUME NEW g \in Nat
  PROVE  NameOf(g) \in Names /\ NameOf(g + 1) \in Names /\ NameOf(g) # NameOf(g + 1)
  BY DEF NameOf, Names

(* Any checkpoints of the two files go together.                            *)
LEMMA CombinedPairs ==
  ASSUME NEW t \in Nat, NEW a \in Checkpoints(t), NEW b \in Checkpoints(t),
         a.generation # 0 => NameOf(a.generation) = "a",
         b.generation # 0 => NameOf(b.generation) = "b"
  PROVE  Combined(a, b) \in Pairs(t) /\ Combined(a, b)["a"] = a /\ Combined(a, b)["b"] = b
<1>1. Combined(a, b)["a"] = a /\ Combined(a, b)["b"] = b
  BY DEF Combined, Names
<1>2. Combined(a, b) \in [Names -> Checkpoints(t)]
  BY DEF Combined
<1> QED BY <1>1, <1>2, NamesFacts DEF Pairs

(* What the disk may hold of the two files goes together.                   *)
LEMMA CombinedFacts ==
  ASSUME WellTyped, NEW a \in disk.slot["a"], NEW b \in disk.slot["b"]
  PROVE  Combined(a, b) \in Pairs(now) /\ Combined(a, b)["a"] = a /\ Combined(a, b)["b"] = b
<1>1. a \in Checkpoints(now) /\ b \in Checkpoints(now) /\ now \in Nat
  BY Types, NamesFacts
<1>2. /\ a.generation # 0 => NameOf(a.generation) = "a"
      /\ b.generation # 0 => NameOf(b.generation) = "b"
  BY NamesFacts DEF WellTyped, FileTypes
<1> QED BY <1>1, <1>2, CombinedPairs

(* The files themselves are such a pair.                                    *)
LEMMA FilesCombined ==
  ASSUME WellTyped
  PROVE  files.slot = Combined(files.slot["a"], files.slot["b"])
<1>1. files.slot \in [Names -> Checkpoints(now)]
  BY Types DEF Pairs
<1> QED BY <1>1 DEF Combined, Names

(* What load() would find now.                                              *)
LEMMA FoundFacts ==
  ASSUME WellTyped
  PROVE  /\ Best \in Checkpoints(now) /\ Loads(now, Best, files.wal, Found)
         /\ Found.image \in Images(now) \cup {NoImage}
         /\ Found.generation = Best.generation /\ Found.sequence \in Nat /\ Found.kept \in Nat
         /\ Best.generation \in Nat /\ Best.sequence \in Nat
         /\ Best.generation # 0 => Best # NoCheckpoint /\ Found.image \in Images(now)
         /\ Best.generation = 0 => Found.image = NoImage
<1>1. Best \in Checkpoints(now)
  BY Types, NewestFacts DEF Best
<1>2. Loads(now, Best, files.wal, Found)
  BY Types, ReplayFacts DEF Best, Found
<1>3. /\ Best.generation \in Nat /\ Best.sequence \in Nat
      /\ Best.generation = 0 <=> Best = NoCheckpoint
  BY <1>1, Types, CheckpointFacts
<1>4. Best # NoCheckpoint => Found.image \in Images(now)
  BY <1>2 DEF Loads, Bests
<1>5. Best = NoCheckpoint => Found.image = NoImage
  BY <1>2 DEF Loads, Start, NoCheckpoint
<1>6. Found.generation = Best.generation /\ Found.sequence \in Nat /\ Found.kept \in Nat
  BY <1>2 DEF Loads
<1> QED BY <1>1, <1>2, <1>3, <1>4, <1>5, <1>6

(* What the files hold now is among what may be found.                      *)
LEMMA FoundSurvives ==
  ASSUME WellTyped, OnDisk, Survives
  PROVE  Found.image \in candidates /\ LifetimeOf(Found.image) >= acked
<1>1. Found.image \in candidates
  BY DEF OnDisk, Survives, Recoverable, Found
<1> QED BY <1>1 DEF Survives

(* Where the directory is synchronised, only the log may vary.              *)
LEMMA OnlyTheLog ==
  ASSUME WellTyped, \A m \in Names : disk.slot[m] = {files.slot[m]},
         NEW a \in disk.slot["a"], NEW b \in disk.slot["b"]
  PROVE  Combined(a, b) = files.slot
<1>1. a = files.slot["a"] /\ b = files.slot["b"]
  BY NamesFacts
<1> QED BY <1>1, FilesCombined

-----------------------------------------------------------------------------
(* Closing the store, and requests.                                         *)

(* A start from an image, or from nothing.                                  *)
LEMMA Started ==
  ASSUME WellTyped, NEW best \in Images(now) \cup {NoImage}, StartFrom(best)
  PROVE  /\ core' \in Cores(now) /\ Summed(core') /\ core'.lifetime = LifetimeOf(best)
         /\ best # NoImage => Unmarked(best, core')
         /\ now' = now /\ pc' = "wait" /\ task' = "recover" /\ image' = NoImage
         /\ stopping' = stopping /\ pending' = pending /\ version' = version /\ last' = last
<1>1. /\ now' = now /\ pc' = "wait" /\ task' = "recover" /\ image' = NoImage
      /\ stopping' = stopping /\ pending' = pending /\ version' = version /\ last' = last
  BY DEF StartFrom
<1>2. CASE best = NoImage
  <2>1. core' = startEmpty(now)
    BY <1>2 DEF StartFrom
  <2> QED BY <1>1, <1>2, <2>1, Types, StartEmptyFacts DEF LifetimeOf
<1>3. CASE best # NoImage
  <2>1. core' = startFromImage(best, now) /\ best \in Images(now)
    BY <1>3 DEF StartFrom
  <2> QED BY <1>1, <1>3, <2>1, Types, StartFromImageFacts DEF LifetimeOf
<1> QED BY <1>2, <1>3

(* A failure closes the store: the cycle ends, or initialize() starts.      *)
LEMMA Failed ==
  ASSUME WellTyped, AtLabel, WindowIsSum, pc \notin {"down", "wait", "end"},
         NEW best \in Images(now) \cup {NoImage}, Fail(best)
  PROVE  /\ core' \in Cores(now) /\ now' = now /\ ready' = FALSE /\ stopping' = stopping
         /\ pending' = pending /\ version' = version /\ last' = last
         /\ image' \in Images(now) \cup {NoImage}
         /\ pc' \in {"wait", "end"} /\ AtLabel' /\ WindowIsSum'
         /\ core'.lifetime = (IF task = "start" THEN LifetimeOf(best) ELSE core.lifetime)
<1>1. ready' = FALSE /\ (last => stopping)
  BY DEF Fail, AtLabel
<1>2. CASE task = "start"
  <2>1. StartFrom(best)
    BY <1>2 DEF Fail
  <2>2. /\ core' \in Cores(now) /\ Summed(core') /\ core'.lifetime = LifetimeOf(best)
        /\ now' = now /\ pc' = "wait" /\ task' = "recover" /\ image' = NoImage
        /\ stopping' = stopping /\ pending' = pending /\ version' = version /\ last' = last
    BY <2>1, Started
  <2>3. AtLabel'
    BY <1>1, <2>2 DEF AtLabel, Writing, Labels
  <2> QED BY <1>1, <1>2, <2>2, <2>3 DEF WindowIsSum, Summed
<1>3. CASE task # "start"
  <2>1. pc' = "end" /\ UNCHANGED <<memory, pending, task, image, version, last>>
    BY <1>3 DEF Fail
  <2>2. core' = core /\ now' = now /\ stopping' = stopping
    BY <2>1 DEF memory
  <2>3. Serving /\ task \in {"repair"} \cup Writing
    BY <1>3 DEF Serving, Running, AtLabel, Labels, Writing
  <2>4. AtLabel'
    BY <1>1, <1>3, <2>1, <2>2, <2>3 DEF AtLabel, Writing, Labels
  <2> QED BY <1>1, <1>3, <2>1, <2>2, <2>3, <2>4, Types DEF WindowIsSum, WellTyped
<1> QED BY <1>2, <1>3

(* Outside of a rename the directory is settled.                            *)
LEMMA Quiet ==
  ASSUME OnDisk, pc # "dirsync"
  PROVE  Settled
  BY DEF OnDisk, Settled

(* A settled directory is all that matters outside of a rename.             *)
LEMMA QuietAfter ==
  ASSUME Settled', pc' \notin {"dirsync", "inspect"}
  PROVE  OnDisk' /\ Replacing'
  BY DEF OnDisk, Settled, Replacing

(* The lifetime of an image, or of none.                                    *)
LEMMA LifetimeFacts ==
  ASSUME NEW t \in Nat, NEW i \in Images(t) \cup {NoImage}
  PROVE  LifetimeOf(i) \in Nat /\ (i \in Images(t) => i # NoImage /\ LifetimeOf(i) = i.lifetime)
  BY ImageFacts DEF LifetimeOf

(* After a failure only the disk matters.                                   *)
LEMMA Closed ==
  ASSUME WellTyped, AtLabel, WindowIsSum, Survives, pc \notin {"down", "wait", "end"},
         NEW best \in Images(now) \cup {NoImage}, Fail(best),
         generation_' \in Nat, sequence_' \in Nat, cut' \in Nat,
         UNCHANGED <<candidates, acked>>, FileTypes',
         excused' = {} => Settled' /\ Recoverable' /\ (task = "start" => best \in candidates)
  PROVE  IInv'
<1>1. /\ core' \in Cores(now) /\ now' = now /\ ready' = FALSE /\ stopping' = stopping
      /\ pending' = pending /\ version' = version /\ last' = last
      /\ image' \in Images(now) \cup {NoImage}
      /\ pc' \in {"wait", "end"} /\ AtLabel' /\ WindowIsSum'
      /\ core'.lifetime = (IF task = "start" THEN LifetimeOf(best) ELSE core.lifetime)
  BY Failed
<1>2. WellTyped'
  BY <1>1 DEF WellTyped
<1>3. ASSUME excused' = {} PROVE Kept'
  <2>1. OnDisk' /\ Replacing'
    BY <1>1, <1>3, QuietAfter
  <2>2. Numbered' /\ Tidy' /\ Repaired' /\ Checkpointing' /\ Cut'
    BY <1>1 DEF Numbered, Tidy, Repaired, Checkpointing, Cut
  <2>3. Resting' /\ Appending' /\ ShutdownWrites'
    BY <1>1 DEF Resting, Appending, ShutdownWrites
  <2>4. core'.lifetime >= acked
    <3>1. CASE task = "start"
      BY <1>1, <1>3, <3>1 DEF Survives
    <3>2. CASE task # "start"
      <4>1. Serving
        BY <3>2 DEF Serving, Running
      <4> QED BY <1>1, <3>2, <4>1 DEF Survives
    <3> QED BY <3>1, <3>2
  <2>5. Survives'
    BY <1>3, <2>4 DEF Survives
  <2> QED BY <2>1, <2>2, <2>3, <2>5 DEF Kept
<1> QED BY <1>1, <1>2, <1>3 DEF IInv

(* The same when no file changed.                                           *)
LEMMA ClosedOnly ==
  ASSUME WellTyped, AtLabel, Kept, WindowIsSum, pc \notin {"down", "wait", "end", "dirsync"},
         NEW best \in Images(now) \cup {NoImage}, Fail(best),
         generation_' \in Nat, sequence_' \in Nat, cut' \in Nat,
         UNCHANGED <<candidates, acked, files, disk>>,
         excused' = {} => (task = "start" => best \in candidates)
  PROVE  IInv'
<1>1. Settled /\ Recoverable /\ Survives
  BY Quiet DEF Kept, Survives
<1>2. Settled' /\ Recoverable'
  BY <1>1 DEF Settled, Recoverable, NoNewer, Best
<1>3. now' = now
  BY Failed
<1>4. FileTypes'
  BY <1>3 DEF FileTypes, WellTyped
<1> QED BY <1>1, <1>2, <1>4, Closed

(* Time goes on and the files stay.                                         *)
LEMMA FileTypesLater ==
  ASSUME WellTyped, now' \in Nat, now <= now', UNCHANGED <<files, disk>>
  PROVE  /\ FileTypes' /\ Images(now) \subseteq Images(now') /\ Patches(now) \subseteq Patches(now')
         /\ Cores(now) \subseteq Cores(now')
<1>1. now \in Nat
  BY Types
<1>2. /\ Cores(now) \subseteq Cores(now') /\ Images(now) \subseteq Images(now')
      /\ Patches(now) \subseteq Patches(now') /\ Logs(now) \subseteq Logs(now')
      /\ Checkpoints(now) \subseteq Checkpoints(now')
  BY <1>1, LaterTypes
<1>3. Pairs(now) \subseteq Pairs(now')
  BY <1>2 DEF Pairs
<1>4. files \in [slot : Pairs(now'), wal : Logs(now')]
  BY <1>2, <1>3 DEF WellTyped, FileTypes
<1>5. disk \in [slot : [Names -> SUBSET Checkpoints(now')], wal : SUBSET Logs(now'),
                   late : SUBSET Names]
  BY <1>2 DEF WellTyped, FileTypes
<1> QED BY <1>2, <1>4, <1>5 DEF FileTypes, WellTyped

(* A request changes the counters, marks the change and nothing else.       *)
LEMMA Counted ==
  ASSUME WellTyped, AtLabel, Kept, WindowIsSum, AtCounters, ~ stopping, now' \in Nat, now <= now',
         Grows(now', core, core'),
         UNCHANGED <<stopping, files, disk, store, pending, pc, locals, history>>
  PROVE  IInv'
<1>0. /\ pc \in {"wait", "replace", "flush", "append"} /\ Serving /\ ~ last
      /\ now \in Nat /\ core.lifetime \in Nat /\ core.dirty_version_ \in Nat
  BY Types DEF AtCounters, AtLabel
<1>1. /\ files' = files /\ disk' = disk /\ ready' = ready /\ generation_' = generation_
      /\ sequence_' = sequence_ /\ pending' = pending /\ pc' = pc /\ task' = task
      /\ image' = image /\ version' = version /\ cut' = cut /\ last' = last
      /\ excused' = excused /\ candidates' = candidates /\ acked' = acked /\ stopping' = stopping
  BY DEF store, locals, history
<1>2. WellTyped'
  <2>1. FileTypes' /\ Images(now) \subseteq Images(now') /\ Patches(now) \subseteq Patches(now')
    BY FileTypesLater
  <2>2. core' \in Cores(now')
    BY DEF Grows
  <2>3. now' >= kMinuteBucketCount
    BY RingFacts DEF WellTyped
  <2> QED BY <1>1, <2>1, <2>2, <2>3 DEF WellTyped
<1>3. AtLabel'
  BY <1>1 DEF AtLabel
<1>4. WindowIsSum'
  <2>1. Summed(core)
    BY <1>0 DEF WindowIsSum, Summed
  <2> QED BY <2>1 DEF WindowIsSum, Grows, Summed
<1>5. /\ core'.lifetime \in Nat /\ core'.lifetime >= core.lifetime /\ core'.dirty_version_ \in Nat
      /\ core'.dirty_version_ >= core.dirty_version_
      /\ core'.dirty_version_ = core.dirty_version_ => core' = core
      /\ \A img : Unmarked(img, core) => Unmarked(img, core')
  <2>1. core' \in Cores(now')
    BY DEF Grows
  <2> QED BY <2>1, CoreFacts DEF Grows
<1>6. image.lifetime \in Int
  BY Types, ImageFacts DEF WellTyped, NoImage
<1>7. Best' = Best /\ Found' = Found
  BY <1>1 DEF Best, Found
<1>8. Kept'
  <2>1. OnDisk' /\ Replacing' /\ Numbered' /\ Tidy' /\ Repaired' /\ Cut'
    BY <1>0, <1>1, <1>7
       DEF Kept, OnDisk, NoNewer, Replacing, Numbered, Tidy, Repaired, Repairing, Cut
  <2>2. Underway => Underway'
    BY <1>0, <1>1, <1>5, <1>6 DEF Underway
  <2>3. Checkpointing'
    <3>1. CASE pc = "replace"
      <4>1. /\ Underway /\ version <= core.dirty_version_ /\ version \in Nat
            /\ version = core.dirty_version_ => image = persistentImage(core)
            /\ task # "recover" => pending = NoPatch
        BY <1>0, <3>1 DEF Kept, Checkpointing, Repairing, AtLabel, Writing, WellTyped
      <4>2. version <= core'.dirty_version_
        BY <1>0, <1>5, <4>1
      <4>3. version = core'.dirty_version_ => image = persistentImage(core')
        <5>1. version = core'.dirty_version_ => core' = core
          BY <1>0, <1>5, <4>1
        <5> QED BY <4>1, <5>1
      <4> QED BY <1>1, <2>2, <3>1, <4>1, <4>2, <4>3 DEF Checkpointing
    <3>2. CASE pc # "replace"
      BY <1>0, <1>1, <3>2 DEF Checkpointing
    <3> QED BY <3>1, <3>2
  <2>4. Resting'
    BY <1>1, <1>5, <1>7 DEF Kept, Resting
  <2>5. Appending'
    <3>1. pc # "appendsync" /\ pc # "rollback"
      BY <1>0
    <3> QED BY <1>1, <1>7, <2>2, <3>1 DEF Kept, Appending
  <2>6. Survives'
    <3>1. Recoverable' /\ \A c \in candidates : LifetimeOf(c) >= acked
      BY <1>1 DEF Kept, Survives, Recoverable
    <3>2. core'.lifetime >= acked
      <4>1. core.lifetime >= acked /\ acked \in Nat
        BY <1>0 DEF Kept, Survives, WellTyped
      <4> QED BY <1>0, <1>5, <4>1
    <3> QED BY <1>1, <3>1, <3>2 DEF Survives
  <2>7. ShutdownWrites'
    BY <1>0, <1>1 DEF ShutdownWrites
  <2> QED BY <2>1, <2>3, <2>4, <2>5, <2>6, <2>7 DEF Kept
<1> QED BY <1>2, <1>3, <1>4, <1>8 DEF IInv

(* recordSubscriptionConversion() keeps the invariant.                      *)
LEMMA RecordStep ==
  ASSUME WellTyped, AtLabel, Kept, WindowIsSum, recordSubscriptionConversion
  PROVE  IInv'
<1>0. now \in Nat /\ core \in Cores(now)
  BY Types
<1>1. now' \in Nat /\ now <= now'
  BY <1>0, StoreAssumption DEF recordSubscriptionConversion, Time
<1>2. core \in Cores(now')
  BY <1>0, <1>1, LaterTypes
<1>3. Grows(now', core, core')
  BY <1>1, <1>2, RecordFacts DEF recordSubscriptionConversion
<1> QED BY <1>1, <1>3, Counted DEF recordSubscriptionConversion

(* dashboardData() keeps the invariant.                                     *)
LEMMA DashboardStep ==
  ASSUME WellTyped, AtLabel, Kept, WindowIsSum, dashboardData
  PROVE  IInv'
<1>0. now \in Nat /\ core \in Cores(now)
  BY Types
<1>1. now' \in Nat /\ now <= now'
  BY <1>0, StoreAssumption DEF dashboardData, Time
<1>2. core \in Cores(now')
  BY <1>0, <1>1, LaterTypes
<1>3. Grows(now', core, core')
  BY <1>1, <1>2, AdvanceFacts DEF dashboardData
<1> QED BY <1>1, <1>3, Counted DEF dashboardData

-----------------------------------------------------------------------------
(* The environment and the cycle of the thread.                             *)

(* Setting the stop flag keeps the invariant.                               *)
LEMMA ShutdownStep ==
  ASSUME WellTyped, AtLabel, Kept, WindowIsSum, shutdown
  PROVE  IInv'
<1>1. /\ files' = files /\ disk' = disk /\ ready' = ready /\ generation_' = generation_
      /\ sequence_' = sequence_ /\ pending' = pending /\ pc' = pc /\ task' = task
      /\ image' = image /\ version' = version /\ cut' = cut /\ last' = last
      /\ excused' = excused /\ candidates' = candidates /\ acked' = acked /\ stopping' = TRUE
      /\ core' = core /\ now' = now /\ pc = "wait"
  BY DEF shutdown, store, locals, history
<1>2. WellTyped' /\ AtLabel' /\ WindowIsSum'
  BY <1>1 DEF WellTyped, FileTypes, AtLabel, WindowIsSum, Serving, Running
<1>3. OnDisk' /\ Replacing' /\ Numbered' /\ Tidy' /\ Repaired' /\ Cut'
  BY <1>1 DEF Kept, OnDisk, NoNewer, Replacing, Numbered, Tidy, Repaired, Cut, Best, Found
<1>4. Checkpointing' /\ Resting' /\ Appending' /\ ShutdownWrites'
  BY <1>1 DEF Kept, Checkpointing, Resting, Appending, ShutdownWrites, Found
<1>5. Survives'
  BY <1>1 DEF Kept, Survives, Recoverable, Serving, Running
<1> QED BY <1>2, <1>3, <1>4, <1>5 DEF IInv, Kept

(* A process that starts finds what the one before left.                    *)
LEMMA InitializeStep ==
  ASSUME WellTyped, AtLabel, Kept, WindowIsSum, initialize
  PROVE  IInv'
<1>1. /\ files' = files /\ disk' = disk /\ ready' = ready /\ generation_' = generation_
      /\ sequence_' = sequence_ /\ pending' = pending /\ task' = task
      /\ image' = image /\ version' = version /\ cut' = cut /\ last' = last
      /\ excused' = excused /\ candidates' = candidates /\ acked' = acked /\ stopping' = stopping
      /\ core' = core /\ pc = "down" /\ pc' = "open"
  BY DEF initialize, store, locals, Running
<1>2. now' \in Nat /\ now <= now' /\ now \in Nat
  BY Types, RingFacts DEF initialize, Outage
<1>3. WellTyped'
  <2>1. /\ FileTypes' /\ Images(now) \subseteq Images(now') /\ Patches(now) \subseteq Patches(now')
        /\ Cores(now) \subseteq Cores(now')
    BY <1>1, <1>2, FileTypesLater
  <2>2. now' >= kMinuteBucketCount
    BY <1>2, RingFacts DEF WellTyped
  <2> QED BY <1>1, <1>2, <2>1, <2>2 DEF WellTyped
<1>4. ~ ready /\ task = "start"
  BY <1>1 DEF AtLabel
<1>5. AtLabel' /\ WindowIsSum'
  BY <1>1, <1>4 DEF AtLabel, Labels, WindowIsSum, Serving
<1>6. OnDisk' /\ Replacing'
  <2>1. Settled
    BY <1>1, Quiet DEF Kept
  <2>2. Settled'
    BY <1>1, <2>1 DEF Settled, NoNewer, Best
  <2> QED BY <1>1, <2>2, QuietAfter
<1>7. Numbered' /\ Tidy' /\ Repaired' /\ Checkpointing' /\ Cut'
  BY <1>1, <1>4 DEF Numbered, Tidy, Repaired, Checkpointing, Cut
<1>8. Resting' /\ Appending' /\ ShutdownWrites'
  BY <1>1 DEF Resting, Appending, ShutdownWrites
<1>9. Survives'
  BY <1>1, <1>4 DEF Kept, Survives, Recoverable, Serving
<1> QED BY <1>3, <1>5, <1>6, <1>7, <1>8, <1>9 DEF IInv, Kept

(* The process ends; what is on the disk stays.                             *)
LEMMA Gone ==
  ASSUME WellTyped, Survives, Exit, now' = now, UNCHANGED <<candidates, acked>>, FileTypes',
         excused' = {} => Settled' /\ Recoverable'
  PROVE  IInv'
<1>1. /\ core' = startEmpty(kMinuteBucketCount) /\ stopping' = FALSE /\ ready' = FALSE
      /\ generation_' = 0 /\ sequence_' = 0 /\ pending' = NoPatch /\ pc' = "down"
      /\ task' = "start" /\ image' = NoImage /\ version' = 0 /\ cut' = 0 /\ last' = FALSE
  BY DEF Exit
<1>2. core' \in Cores(now)
  <2>1. kMinuteBucketCount \in Nat /\ kMinuteBucketCount <= now /\ now \in Nat
    BY RingFacts DEF WellTyped
  <2> QED BY <1>1, <2>1, StartEmptyFacts
<1>3. WellTyped'
  BY <1>1, <1>2 DEF WellTyped
<1>4. AtLabel' /\ WindowIsSum'
  BY <1>1 DEF AtLabel, Labels, WindowIsSum, Serving
<1>5. ASSUME excused' = {} PROVE Kept'
  <2>1. OnDisk' /\ Replacing'
    BY <1>1, <1>5, QuietAfter
  <2>2. Numbered' /\ Tidy' /\ Repaired' /\ Checkpointing' /\ Cut'
    BY <1>1 DEF Numbered, Tidy, Repaired, Checkpointing, Cut
  <2>3. Resting' /\ Appending' /\ ShutdownWrites'
    BY <1>1 DEF Resting, Appending, ShutdownWrites
  <2>4. Survives'
    BY <1>1, <1>5 DEF Survives, Serving
  <2> QED BY <2>1, <2>2, <2>3, <2>4 DEF Kept
<1> QED BY <1>3, <1>4, <1>5 DEF IInv

(* What is forgotten is late, and all that is not late is settled.          *)
LEMMA Forgotten ==
  ASSUME WellTyped, ForgetDirectory, \A m \in Names : files.slot[m] \in disk.slot[m],
         files.wal \in disk.wal, NoNewer(Best.generation), Recoverable,
         now' = now, candidates' = candidates
  PROVE  /\ files' = files /\ disk'.slot = disk.slot /\ disk'.wal = disk.wal
         /\ disk'.late = {} => \A m \in Names : disk'.slot[m] = {files'.slot[m]}
         /\ FileTypes' /\ Settled' /\ Recoverable'
<1>1. /\ files' = files /\ disk' = [disk EXCEPT !.late = Unsynced]
      /\ Unsynced \subseteq Names
  BY DEF ForgetDirectory, Unsynced
<1>2. disk'.slot = disk.slot /\ disk'.wal = disk.wal /\ disk'.late = Unsynced
  BY <1>1, Types
<1>3. FileTypes'
  <2>1. disk' \in [slot : [Names -> SUBSET Checkpoints(now)], wal : SUBSET Logs(now),
                   late : SUBSET Names]
    BY <1>1 DEF WellTyped, FileTypes
  <2> QED BY <1>1, <1>2, <2>1 DEF WellTyped, FileTypes
<1>4. ASSUME disk'.late = {} PROVE \A m \in Names : disk.slot[m] = {files.slot[m]}
  BY <1>2, <1>4 DEF Unsynced
<1>5. Settled'
  BY <1>1, <1>2, <1>4 DEF Settled, NoNewer, Best
<1>6. Recoverable'
  <2>1. ASSUME disk'.late = {}, NEW a \in disk.slot["a"], NEW b \in disk.slot["b"],
               NEW log \in disk.wal
        PROVE  Replay(Combined(a, b), log).image \in candidates
    <3>1. Combined(a, b) = files.slot
      BY <1>4, <2>1, OnlyTheLog
    <3> QED BY <3>1 DEF Recoverable
  <2> QED BY <1>1, <1>2, <2>1 DEF Recoverable
<1> QED BY <1>1, <1>2, <1>3, <1>4, <1>5, <1>6

(* A kill leaves the files as they are, and a rename that is not            *)
(* synchronised late.                                                       *)
LEMMA KillStep ==
  ASSUME WellTyped, AtLabel, Kept, WindowIsSum, Kill
  PROVE  IInv'
<1>1. Exit /\ ForgetDirectory /\ now' = now /\ UNCHANGED <<candidates, acked>>
  BY DEF Kill, history
<1>2. FileTypes' /\ Settled' /\ Recoverable'
  BY <1>1, Forgotten DEF Kept, Survives, OnDisk
<1> QED BY <1>1, <1>2, Gone DEF Kept

(* A power failure leaves one of the contents that the disk may hold; with  *)
(* a late rename the new checkpoint must be among them.                     *)
LEMMA PowerFailureStep ==
  ASSUME WellTyped, AtLabel, Kept, WindowIsSum, PowerFailure
  PROVE  IInv'
<1>1. /\ Exit /\ now' = now /\ UNCHANGED <<candidates, acked>>
      /\ excused' = {} => disk.late = {} \/ files'.slot = files.slot
  BY DEF PowerFailure
<1>2. PICK a \in disk.slot["a"], b \in disk.slot["b"], log \in disk.wal :
       /\ files' = [slot |-> Combined(a, b), wal |-> log]
       /\ disk' = [slot |-> [n \in Names |-> IF n = "a" THEN {a} ELSE {b}], wal |-> {log},
                   late |-> {}]
  BY DEF PowerFailure, Combined
<1>3. /\ files'.slot = Combined(a, b) /\ files'.wal = log /\ disk'.wal = {log}
      /\ disk'.slot["a"] = {a} /\ disk'.slot["b"] = {b}
      /\ DOMAIN disk'.slot = Names
  BY <1>2, NamesFacts
<1>4. Combined(a, b) \in Pairs(now) /\ Combined(a, b)["a"] = a /\ Combined(a, b)["b"] = b
  BY CombinedFacts
<1>5. log \in Logs(now) /\ a \in Checkpoints(now) /\ b \in Checkpoints(now) /\ now \in Nat
  BY Types, NamesFacts
<1>6. FileTypes'
  <2>1. files' \in [slot : Pairs(now'), wal : Logs(now')]
    BY <1>1, <1>2, <1>4, <1>5
  <2>2. disk' \in [slot : [Names -> SUBSET Checkpoints(now')], wal : SUBSET Logs(now'),
                   late : SUBSET Names]
    BY <1>1, <1>2, <1>5
  <2>3. \A m \in Names : \A c \in disk.slot[m] : c.generation # 0 => NameOf(c.generation) = m
    BY DEF WellTyped, FileTypes
  <2>4. \A m \in Names : \A c \in disk'.slot[m] : c.generation # 0 => NameOf(c.generation) = m
    BY <1>3, <2>3, NamesFacts
  <2> QED BY <2>1, <2>2, <2>4 DEF FileTypes
<1>7. ASSUME excused' = {}
      PROVE  \A k \in 1 .. Len(log.records) :
               log.records[k].generation <= Newest(Combined(a, b)).generation
  <2>1. CASE (pc # "dirsync" /\ disk.late = {}) \/ files'.slot = files.slot
    <3>1. Combined(a, b) = files.slot
      BY <1>3, <2>1, OnlyTheLog DEF Kept, OnDisk
    <3> QED BY <3>1 DEF Kept, OnDisk, NoNewer, Best
  <2>2. CASE pc = "dirsync" /\ disk.late = {}
    <3> DEFINE g == generation_
    <3>1. g \in Nat /\ NoNewer(g)
      BY <2>2 DEF Kept, OnDisk, WellTyped
    <3>2. PICK n \in Names : n # NameOf(g + 1)
      BY <3>1, NameOfFacts
    <3>3. disk.slot[n] = {files.slot[n]} /\ files.slot[n].generation = g
      BY <2>2, <3>2 DEF Kept, Replacing
    <3>4. Combined(a, b)[n].generation = g
      BY <1>4, <3>3, NamesFacts
    <3>5. g <= Newest(Combined(a, b)).generation
      BY <1>4, <1>5, <3>4, NewestFacts
    <3>6. Newest(Combined(a, b)).generation \in Nat
      BY <1>4, <1>5, NewestFacts, CheckpointFacts
    <3>7. \A k \in 1 .. Len(log.records) : log.records[k].generation <= g
      BY <3>1 DEF NoNewer
    <3>8. \A k \in 1 .. Len(log.records) : log.records[k].generation \in Nat
      <4>1. log.records \in Seq(Records(now))
        BY <1>5 DEF Logs
      <4>2. \A k \in 1 .. Len(log.records) : log.records[k] \in Records(now)
        BY <4>1
      <4> QED BY <4>2 DEF Records
    <3> QED BY <3>1, <3>5, <3>6, <3>7, <3>8
  <2> QED BY <1>1, <1>7, <2>1, <2>2
<1>8. ASSUME excused' = {} PROVE Settled'
  <2>1. \A m \in Names : disk'.slot[m] = {files'.slot[m]}
    BY <1>3, <1>4, NamesFacts
  <2> QED BY <1>3, <1>7, <1>8, <2>1 DEF Settled, NoNewer, Best
<1>9. ASSUME excused' = {} PROVE Recoverable'
  <2>1. Replay(Combined(a, b), log).image \in candidates
    BY <1>1, <1>3, <1>9 DEF Kept, Survives, Recoverable
  <2> QED BY <1>1, <1>3, <2>1 DEF Recoverable
<1> QED BY <1>1, <1>6, <1>8, <1>9, Gone DEF Kept

(* The end of a cycle keeps the invariant.                                  *)
LEMMA EndCycleStep ==
  ASSUME WellTyped, AtLabel, Kept, WindowIsSum, EndCycle
  PROVE  IInv'
<1>1. pc = "end" /\ now' = now /\ files' = files /\ disk' = disk
      /\ UNCHANGED <<candidates, acked>> /\ excused' = excused
  BY DEF EndCycle, history
<1>2. FileTypes'
  BY <1>1 DEF FileTypes, WellTyped
<1>3. Settled' /\ Recoverable'
  <2>1. Settled
    BY <1>1, Quiet DEF Kept
  <2> QED BY <1>1, <2>1 DEF Settled, NoNewer, Best, Recoverable, Kept, Survives
<1>4. CASE last
  <2>1. Exit
    BY <1>4 DEF EndCycle
  <2> QED BY <1>1, <1>2, <1>3, <2>1, Gone DEF Kept
<1>5. CASE ~ last
  <2>1. /\ pc' = "wait" /\ task' = "recover" /\ image' = NoImage /\ version' = 0 /\ cut' = 0
        /\ core' = core /\ stopping' = stopping /\ pending' = pending /\ last' = last
        /\ ready' = ready /\ generation_' = generation_ /\ sequence_' = sequence_
    BY <1>5 DEF EndCycle, store
  <2>2. WellTyped'
    BY <1>1, <1>2, <2>1 DEF WellTyped
  <2>3. Serving /\ Serving'
    BY <1>1, <2>1 DEF Serving, Running, AtLabel, Writing
  <2>4. AtLabel' /\ WindowIsSum'
    BY <1>1, <1>5, <2>1, <2>3 DEF AtLabel, Labels, Writing, WindowIsSum
  <2>5. OnDisk' /\ Replacing'
    BY <1>3, <2>1, QuietAfter
  <2>6. Numbered' /\ Tidy' /\ Repaired' /\ Checkpointing' /\ Cut'
    BY <1>1, <2>1 DEF Kept, Numbered, Tidy, Repaired, Checkpointing, Cut, Best, Found
  <2>7. Resting' /\ Appending' /\ ShutdownWrites'
    BY <1>1, <2>1 DEF Kept, Resting, Appending, ShutdownWrites, Found
  <2>8. Survives'
    BY <1>1, <1>3, <2>1, <2>3 DEF Kept, Survives
  <2> QED BY <2>2, <2>4, <2>5, <2>6, <2>7, <2>8 DEF IInv, Kept
<1> QED BY <1>4, <1>5

(* The begin of a cycle keeps the invariant.                                *)
LEMMA WakeStep ==
  ASSUME WellTyped, AtLabel, Kept, WindowIsSum, Wake
  PROVE  IInv'
<1>1. /\ pc = "wait" /\ last' = stopping /\ core' = core /\ now' = now /\ stopping' = stopping
      /\ files' = files /\ disk' = disk /\ ready' = ready /\ generation_' = generation_
      /\ sequence_' = sequence_ /\ pending' = pending /\ image' = image /\ version' = version
      /\ cut' = cut /\ excused' = excused /\ candidates' = candidates /\ acked' = acked
  BY DEF Wake, memory, store, history
<1>2. \/ ~ ready /\ pc' = "open" /\ task' = "recover"
      \/ ready /\ generation_ = 0 /\ pc' = "image" /\ task' = "initial"
      \/ ready /\ generation_ # 0 /\ pc' = "flush" /\ task' = task
  BY DEF Wake
<1>3. task \in Writing
  BY <1>1 DEF AtLabel
<1>4. WellTyped'
  BY <1>1 DEF WellTyped, FileTypes
<1>5. AtLabel'
  BY <1>1, <1>2, <1>3 DEF AtLabel, Labels, Writing
<1>6. Serving /\ Serving'
  BY <1>1, <1>2, <1>3 DEF Serving, Running, Writing
<1>7. WindowIsSum'
  BY <1>1, <1>6 DEF WindowIsSum
<1>8. OnDisk' /\ Replacing'
  <2>1. Settled
    BY <1>1, Quiet DEF Kept
  <2>2. Settled'
    BY <1>1, <2>1 DEF Settled, NoNewer, Best
  <2> QED BY <1>2, <2>2, QuietAfter
<1>9. Numbered' /\ Tidy' /\ Repaired' /\ Checkpointing' /\ Cut'
  BY <1>1, <1>2 DEF Kept, Numbered, Tidy, Repaired, Checkpointing, Cut, Best, Found
<1>10. Resting' /\ Appending' /\ ShutdownWrites'
  BY <1>1, <1>2 DEF Kept, Resting, Appending, ShutdownWrites, Found
<1>11. Survives'
  BY <1>1, <1>6 DEF Kept, Survives, Recoverable
<1> QED BY <1>4, <1>5, <1>7, <1>8, <1>9, <1>10, <1>11 DEF IInv, Kept

(* open() keeps the invariant, whether it succeeds or not.                  *)
LEMMA OpenStep ==
  ASSUME WellTyped, AtLabel, Kept, WindowIsSum, open
  PROVE  IInv'
<1>1. pc = "open" /\ files' = files /\ disk' = disk
  BY DEF open
<1>2. CASE /\ ready' = TRUE /\ pc' = "load" /\ UNCHANGED history
           /\ UNCHANGED <<memory, generation_, sequence_, pending, locals>>
  <2>1. /\ core' = core /\ now' = now /\ stopping' = stopping /\ generation_' = generation_
        /\ sequence_' = sequence_ /\ pending' = pending /\ task' = task /\ image' = image
        /\ version' = version /\ cut' = cut /\ last' = last /\ excused' = excused
        /\ candidates' = candidates /\ acked' = acked
    BY <1>2 DEF memory, locals, history
  <2>2. WellTyped'
    BY <1>1, <1>2, <2>1 DEF WellTyped, FileTypes
  <2>3. AtLabel'
    BY <1>1, <1>2, <2>1 DEF AtLabel, Labels
  <2>4. WindowIsSum'
    BY <1>1, <1>2, <2>1 DEF WindowIsSum, Serving, Running
  <2>5. OnDisk' /\ Replacing'
    <3>1. Settled
      BY <1>1, Quiet DEF Kept
    <3>2. Settled'
      BY <1>1, <3>1 DEF Settled, NoNewer, Best
    <3> QED BY <1>2, <3>2, QuietAfter
  <2>6. Numbered' /\ Tidy' /\ Repaired' /\ Checkpointing' /\ Cut'
    BY <1>2 DEF Numbered, Tidy, Repaired, Checkpointing, Cut
  <2>7. Resting' /\ Appending' /\ ShutdownWrites'
    BY <1>2 DEF Resting, Appending, ShutdownWrites
  <2>8. Survives'
    BY <1>1, <1>2, <2>1 DEF Kept, Survives, Recoverable, Serving, Running
  <2> QED BY <2>2, <2>3, <2>4, <2>5, <2>6, <2>7, <2>8 DEF IInv, Kept
<1>3. CASE Fault(IF task = "start" THEN {"read"} ELSE {}) /\ Close
  <2>1. /\ Fail(image) /\ generation_' = generation_ /\ sequence_' = sequence_ /\ cut' = cut
        /\ candidates' = candidates /\ acked' = acked
    BY <1>3 DEF Fault, Close
  <2>2. excused' = {} => task # "start"
    BY <1>3 DEF Fault
  <2>3. /\ image \in Images(now) \cup {NoImage} /\ generation_ \in Nat /\ sequence_ \in Nat
        /\ cut \in Nat
    BY DEF WellTyped
  <2> QED BY <1>1, <2>1, <2>2, <2>3, ClosedOnly
<1> QED BY <1>2, <1>3 DEF open

(* load() with whatever could be read: types only.                          *)
LEMMA LoadedTypes ==
  ASSUME WellTyped, AtLabel, WindowIsSum, pc = "load", UNCHANGED <<files, disk, candidates, acked>>,
         NEW s \in Pairs(now), NEW log \in Logs(now), Loaded(s, log)
  PROVE  WellTyped' /\ AtLabel' /\ WindowIsSum' /\ ready' = ready /\ now' = now
<1> DEFINE best == Replay(s, log)
<1>0. now \in Nat /\ task \in {"start", "recover"} /\ ready /\ (last => stopping)
      /\ (task = "start" => pending = NoPatch)
  BY Types DEF AtLabel
<1>1. Loads(now, Newest(s), log, best) /\ Newest(s) \in Checkpoints(now)
  BY <1>0, ReplayFacts, NewestFacts
<1>2. /\ best.generation \in Nat /\ best.sequence \in Nat /\ best.kept \in Nat
      /\ best.image \in Images(now) \cup {NoImage}
  <2>1. Newest(s).generation \in Nat
    BY <1>0, <1>1, CheckpointFacts
  <2> HIDE DEF best
  <2>2. best.generation \in Nat /\ best.sequence \in Nat /\ best.kept \in Nat
    BY <1>1, <2>1 DEF Loads
  <2>3. best.image \in Images(now) \cup {NoImage}
    BY <1>1 DEF Loads, Start, NoCheckpoint, Bests
  <2> QED BY <2>2, <2>3
<1>3. generation_' = best.generation /\ sequence_' = best.sequence /\ ready' = ready
  BY DEF Loaded
<1>4. CASE task = "start" /\ StartFrom(best.image) /\ UNCHANGED cut
  <2> HIDE DEF best
  <2>1. /\ core' \in Cores(now) /\ Summed(core')
        /\ now' = now /\ pc' = "wait" /\ task' = "recover" /\ image' = NoImage
        /\ stopping' = stopping /\ pending' = pending /\ version' = version /\ last' = last
    BY <1>2, <1>4, Started
  <2>2. WellTyped'
    BY <1>0, <1>2, <1>3, <1>4, <2>1 DEF WellTyped, FileTypes
  <2>3. AtLabel' /\ WindowIsSum'
    BY <1>0, <1>3, <2>1 DEF AtLabel, Labels, Writing, WindowIsSum, Summed
  <2> QED BY <1>3, <2>1, <2>2, <2>3
<1>5. CASE /\ task # "start" /\ UNCHANGED cut
           /\ pc' = "image" /\ UNCHANGED <<memory, pending, task, image, version, last>>
  <2> HIDE DEF best
  <2>1. core' = core /\ now' = now /\ stopping' = stopping
    BY <1>5 DEF memory
  <2>2. WellTyped'
    BY <1>0, <1>2, <1>3, <1>5, <2>1 DEF WellTyped, FileTypes
  <2>3. AtLabel' /\ WindowIsSum'
    BY <1>0, <1>3, <1>5, <2>1 DEF AtLabel, Labels, Writing, WindowIsSum, Serving, Running
  <2> QED BY <1>3, <2>1, <2>2, <2>3
<1>6. CASE /\ pc' = "truncate" /\ cut' = best.kept /\ image' = best.image
           /\ task' = IF task = "start" THEN task ELSE "repair"
           /\ UNCHANGED <<memory, pending, version, last>>
  <2> HIDE DEF best
  <2>1. core' = core /\ now' = now /\ stopping' = stopping
    BY <1>6 DEF memory
  <2>2. WellTyped'
    BY <1>0, <1>2, <1>3, <1>6, <2>1 DEF WellTyped, FileTypes
  <2>3. AtLabel' /\ WindowIsSum'
    BY <1>0, <1>3, <1>6, <2>1 DEF AtLabel, Labels, Writing, WindowIsSum, Serving, Running
  <2> QED BY <1>3, <2>1, <2>2, <2>3
<1> QED BY <1>4, <1>5, <1>6 DEF Loaded

(* load() with all that is there.                                           *)
LEMMA LoadedAll ==
  ASSUME WellTyped, AtLabel, Kept, WindowIsSum, pc = "load", Loaded(files.slot, files.wal),
         UNCHANGED <<files, disk, candidates, acked>>
  PROVE  IInv'
<1>0. /\ WellTyped' /\ AtLabel' /\ WindowIsSum' /\ ready' = ready /\ now' = now /\ ready
      /\ task \in {"start", "recover"} /\ (task = "start" => pending = NoPatch)
  BY LoadedTypes, Types DEF AtLabel
<1>1. Settled' /\ Recoverable'
  <2>1. Settled
    BY Quiet DEF Kept
  <2> QED BY <2>1 DEF Settled, NoNewer, Best, Recoverable, Kept, Survives
<1>2. Best' = Best /\ Found' = Found /\ files'.wal = files.wal
  BY DEF Best, Found
<1>3. /\ Found.generation = Best.generation /\ Best.generation \in Nat
      /\ Best.generation # 0 <=> Found.image # NoImage
      /\ Found.image \in Images(now) \cup {NoImage}
      /\ Best.generation = 0 => Found.image = NoImage
  BY Types, FoundFacts, ImageFacts
<1>4. generation_' = Best.generation /\ sequence_' = Found.sequence
  BY <1>3 DEF Loaded, Found
<1>5. Found.image \in candidates /\ LifetimeOf(Found.image) >= acked
  BY FoundSurvives DEF Kept
<1>6. CASE /\ Found.image = NoImage \/ (Found.valid /\ ~ files.wal.torn)
           /\ task = "start" /\ StartFrom(Found.image)
  <2>1. /\ core'.lifetime = LifetimeOf(Found.image)
        /\ Found.image # NoImage => Unmarked(Found.image, core')
        /\ pc' = "wait" /\ task' = "recover" /\ pending' = pending
    BY <1>3, <1>6, Started
  <2>2. OnDisk' /\ Replacing'
    BY <1>1, <2>1, QuietAfter
  <2>3. Numbered' /\ Tidy' /\ Repaired' /\ Checkpointing' /\ Cut'
    BY <1>2, <1>3, <1>4, <1>6, <2>1 DEF Numbered, Tidy, Repaired, Checkpointing, Cut
  <2>4. Resting' /\ Appending' /\ ShutdownWrites'
    BY <1>0, <1>2, <1>3, <1>4, <1>6, <2>1 DEF Resting, Appending, ShutdownWrites
  <2>5. Survives'
    BY <1>1, <1>5, <2>1 DEF Kept, Survives
  <2> QED BY <1>0, <2>2, <2>3, <2>4, <2>5 DEF IInv, Kept
<1>7. CASE /\ task # "start"
           /\ pc' = "image" /\ UNCHANGED <<memory, pending, task, image, version, last>>
  <2>1. core' = core /\ task = "recover" /\ task' = "recover" /\ Serving
    BY <1>0, <1>7 DEF memory, Serving, Running
  <2>2. OnDisk' /\ Replacing'
    BY <1>1, <1>7, QuietAfter
  <2>3. Numbered' /\ Tidy' /\ Repaired' /\ Checkpointing' /\ Cut'
    BY <1>2, <1>4, <1>7 DEF Numbered, Tidy, Repaired, Checkpointing, Cut
  <2>4. Resting' /\ Appending' /\ ShutdownWrites'
    BY <1>7, <2>1 DEF Resting, Appending, ShutdownWrites
  <2>5. Survives'
    BY <1>1, <2>1 DEF Kept, Survives
  <2> QED BY <1>0, <2>2, <2>3, <2>4, <2>5 DEF IInv, Kept
<1>8. CASE /\ Found.image # NoImage /\ (~ Found.valid \/ files.wal.torn)
           /\ pc' = "truncate" /\ cut' = Found.kept /\ image' = Found.image
           /\ task' = IF task = "start" THEN task ELSE "repair"
           /\ UNCHANGED <<memory, pending, version, last>>
  <2>1. core' = core /\ Repairing' /\ (Serving' => Serving)
    BY <1>0, <1>8 DEF memory, Serving, Running, Repairing
  <2>2. OnDisk' /\ Replacing'
    BY <1>1, <1>8, QuietAfter
  <2>3. Numbered' /\ Tidy' /\ Repaired' /\ Checkpointing' /\ Cut'
    BY <1>2, <1>3, <1>4, <1>8, <2>1 DEF Numbered, Tidy, Repaired, Checkpointing, Cut
  <2>4. Resting' /\ Appending' /\ ShutdownWrites'
    BY <1>8 DEF Resting, Appending, ShutdownWrites
  <2>5. Survives'
    BY <1>1, <2>1 DEF Kept, Survives
  <2> QED BY <1>0, <2>2, <2>3, <2>4, <2>5 DEF IInv, Kept
<1> QED BY <1>6, <1>7, <1>8 DEF Loaded, Found

(* load() keeps the invariant, whatever can be read.                        *)
LEMMA LoadStep ==
  ASSUME WellTyped, AtLabel, Kept, WindowIsSum, load
  PROVE  IInv'
<1>1. pc = "load" /\ UNCHANGED <<files, disk>>
  BY DEF load
<1>2. CASE Loaded(files.slot, files.wal) /\ UNCHANGED history
  BY <1>1, <1>2, LoadedAll DEF history
<1>3. CASE \E n \in Names : /\ files.slot[n] # NoCheckpoint
                         /\ Fault({"read"})
                         /\ Loaded([files.slot EXCEPT ![n] = NoCheckpoint], files.wal)
  <2>1. PICK n \in Names : Fault({"read"}) /\ Loaded([files.slot EXCEPT ![n] = NoCheckpoint], files.wal)
    BY <1>3
  <2>2. [files.slot EXCEPT ![n] = NoCheckpoint] \in Pairs(now)
    BY Types DEF Pairs, Checkpoints, NoCheckpoint
  <2>3. UNCHANGED <<candidates, acked>> /\ excused' # {}
    BY <2>1 DEF Fault
  <2>4. WellTyped' /\ AtLabel' /\ WindowIsSum'
    BY <1>1, <2>1, <2>2, <2>3, Types, LoadedTypes
  <2> QED BY <2>3, <2>4 DEF IInv
<1>4. CASE Fault({"read"}) /\ LogUnreadable
  <2> DEFINE best == Newest(files.slot)
  <2>1. best \in Checkpoints(now) /\ now \in Nat
    BY Types, NewestFacts
  <2>2. best.generation \in Nat /\ best.sequence \in Nat /\ best.image \in Images(now) \cup {NoImage}
    <3> HIDE DEF best
    <3> QED BY <2>1, CheckpointFacts DEF NoCheckpoint
  <2>3. Fail(best.image) /\ generation_' = best.generation /\ sequence_' = best.sequence /\ cut' = cut
    BY <1>4 DEF LogUnreadable
  <2>4. UNCHANGED <<candidates, acked>> /\ excused' # {} /\ cut \in Nat
    BY <1>4 DEF Fault, WellTyped
  <2> HIDE DEF best
  <2> QED BY <1>1, <2>2, <2>3, <2>4, ClosedOnly
<1>5. CASE Fault({"read"}) /\ Loaded(files.slot, EmptyLog)
  <2>1. EmptyLog \in Logs(now)
    BY DEF EmptyLog, Logs
  <2>2. UNCHANGED <<candidates, acked>> /\ excused' # {}
    BY <1>5 DEF Fault
  <2>3. WellTyped' /\ AtLabel' /\ WindowIsSum'
    BY <1>1, <1>5, <2>1, <2>2, Types, LoadedTypes
  <2> QED BY <2>2, <2>3 DEF IInv
<1> QED BY <1>2, <1>3, <1>4, <1>5 DEF load

-----------------------------------------------------------------------------
(* Checkpoints.                                                             *)

(* The image of a checkpoint agrees with what is counted.                   *)
LEMMA CheckpointImageStep ==
  ASSUME WellTyped, AtLabel, Kept, WindowIsSum, checkpointImage
  PROVE  IInv'
<1>1. /\ pc = "image" /\ pc' = "replace" /\ image' = persistentImage(core)
      /\ version' = core.dirty_version_ /\ candidates' = candidates \cup {image'}
      /\ core' = core /\ now' = now /\ stopping' = stopping /\ files' = files /\ disk' = disk
      /\ ready' = ready /\ generation_' = generation_ /\ sequence_' = sequence_
      /\ pending' = pending /\ task' = task /\ cut' = cut /\ last' = last /\ acked' = acked
  BY DEF checkpointImage, memory, store
<1>2. /\ now \in Nat /\ core \in Cores(now) /\ core.dirty_version_ \in Nat /\ core.lifetime \in Nat
  BY Types
<1>3. /\ image' \in Images(now) /\ image'.lifetime = core.lifetime /\ Unmarked(image', core)
      /\ image' # NoImage
  BY <1>1, <1>2, PersistentImageFacts, ImageFacts
<1>4. task \in Writing /\ Serving /\ Serving'
  BY <1>1 DEF AtLabel, Serving, Running, Writing
<1>5. WellTyped'
  BY <1>1, <1>2, <1>3 DEF WellTyped, FileTypes
<1>6. AtLabel' /\ WindowIsSum'
  BY <1>1, <1>4 DEF AtLabel, Labels, WindowIsSum
<1>7. OnDisk' /\ Replacing'
  <2>1. Settled
    BY <1>1, Quiet DEF Kept
  <2>2. Settled'
    BY <1>1, <2>1 DEF Settled, NoNewer, Best
  <2> QED BY <1>1, <2>2, QuietAfter
<1>8. Numbered' /\ Tidy' /\ Repaired' /\ Cut'
  BY <1>1 DEF Kept, Numbered, Tidy, Repaired, Cut, Best
<1>9. Checkpointing'
  <2>1. Underway'
    BY <1>1, <1>2, <1>3 DEF Underway
  <2> QED BY <1>1, <1>2, <2>1 DEF Kept, Checkpointing, Resting
<1>10. Resting' /\ Appending' /\ ShutdownWrites'
  BY <1>1 DEF Resting, Appending, ShutdownWrites
<1>11. Survives'
  <2>1. Recoverable'
    BY <1>1 DEF Kept, Survives, Recoverable
  <2>2. LifetimeOf(image') >= acked /\ core.lifetime >= acked
    BY <1>2, <1>3, <1>4, LifetimeFacts DEF Kept, Survives
  <2> QED BY <1>1, <2>1, <2>2 DEF Kept, Survives
<1> QED BY <1>5, <1>6, <1>7, <1>8, <1>9, <1>10, <1>11 DEF IInv, Kept

(* Closing the store for a failure that does not come from a start.         *)
LEMMA CloseStep ==
  ASSUME WellTyped, AtLabel, Kept, WindowIsSum, Close, UNCHANGED <<files, disk, candidates, acked>>,
         pc \notin {"down", "wait", "end", "dirsync"}, task = "start" => image \in candidates
  PROVE  IInv'
<1>1. Fail(image) /\ generation_' = generation_ /\ sequence_' = sequence_ /\ cut' = cut
  BY DEF Close
<1>2. /\ image \in Images(now) \cup {NoImage} /\ generation_ \in Nat /\ sequence_ \in Nat
      /\ cut \in Nat
  BY DEF WellTyped
<1> QED BY <1>1, <1>2, ClosedOnly

(* The next checkpoint goes over the older file.                            *)
LEMMA ReplaceStep ==
  ASSUME WellTyped, AtLabel, Kept, WindowIsSum, replaceFile
  PROVE  IInv'
<1>1. pc = "replace" /\ task \in Writing /\ ready /\ ~ Repairing /\ task # "start"
  BY DEF replaceFile, AtLabel, Repairing, Writing
<1>2. CASE generation_ = MaxGeneration /\ Close /\ UNCHANGED <<history, files, disk>>
  BY <1>1, <1>2, CloseStep DEF history
<1>3. CASE Fault({}) /\ Close /\ UNCHANGED <<files, disk>>
  BY <1>1, <1>3, CloseStep DEF Fault
<1>4. CASE /\ SetSlot(NameOf(generation_ + 1), NextCheckpoint)
           /\ Go("dirsync") /\ UNCHANGED history
  <2> DEFINE g == generation_
             m == NameOf(g + 1)
             N == NextCheckpoint
  <2>1. /\ pc' = "dirsync" /\ core' = core /\ now' = now /\ stopping' = stopping
        /\ ready' = ready /\ generation_' = generation_ /\ sequence_' = sequence_
        /\ pending' = pending /\ task' = task /\ image' = image /\ version' = version
        /\ cut' = cut /\ last' = last /\ excused' = excused /\ candidates' = candidates
        /\ acked' = acked
    BY <1>4 DEF Go, memory, store, locals, history
  <2>2. /\ now \in Nat /\ g \in Nat /\ sequence_ \in Nat /\ g = Best.generation
        /\ m \in Names /\ image \in Images(now) /\ image \in candidates
        /\ files.slot \in Pairs(now)
    <3>1. Underway
      BY <1>1 DEF Kept, Checkpointing
    <3>2. image \in Images(now)
      BY <3>1 DEF Underway, WellTyped
    <3>3. now \in Nat /\ g \in Nat /\ sequence_ \in Nat /\ files.slot \in Pairs(now)
      BY Types DEF WellTyped
    <3> QED BY <1>1, <3>1, <3>2, <3>3, NameOfFacts DEF Kept, Numbered, Underway
  <2>3. /\ N \in Checkpoints(now) /\ N.generation = g + 1 /\ N.sequence = sequence_
        /\ N.image = image /\ NameOf(N.generation) = m /\ N' = N
    BY <2>1, <2>2 DEF NextCheckpoint, Checkpoints
  <2> HIDE DEF N
  <2>4. /\ files' = [files EXCEPT !.slot[m] = N] /\ disk' = [disk EXCEPT !.slot[m] = @ \cup {N}]
    BY <1>4 DEF SetSlot, N
  <2>5. /\ files'.wal = files.wal /\ disk'.wal = disk.wal
        /\ files'.slot = [files.slot EXCEPT ![m] = N] /\ disk'.late = disk.late
        /\ disk'.slot = [disk.slot EXCEPT ![m] = @ \cup {N}]
    BY <2>4, Types
  <2> HIDE DEF m
  <2>6. /\ files'.slot[m] = N /\ \A n \in Names \ {m} : files'.slot[n] = files.slot[n]
        /\ disk'.slot[m] = disk.slot[m] \cup {N}
        /\ \A n \in Names \ {m} : disk'.slot[n] = disk.slot[n]
    <3>1. DOMAIN files.slot = Names /\ DOMAIN disk.slot = Names
      BY Types DEF Pairs
    <3> QED BY <2>2, <2>5, <3>1
  <2>7. files'.slot \in Pairs(now)
    BY <2>2, <2>3, <2>5, <2>6 DEF Pairs
  <2>8. FileTypes'
    <3>1. files' \in [slot : Pairs(now), wal : Logs(now)]
      BY <2>4, <2>5, <2>7, Types
    <3>2. disk' \in [slot : [Names -> SUBSET Checkpoints(now)], wal : SUBSET Logs(now),
                     late : SUBSET Names]
      <4>1. disk'.slot \in [Names -> SUBSET Checkpoints(now)]
        BY <2>2, <2>3, <2>5 DEF WellTyped, FileTypes
      <4> QED BY <2>4, <2>5, <4>1 DEF WellTyped, FileTypes
    <3>3. \A n \in Names : \A c \in disk'.slot[n] : c.generation # 0 => NameOf(c.generation) = n
      BY <2>3, <2>6 DEF WellTyped, FileTypes
    <3> QED BY <2>1, <3>1, <3>2, <3>3 DEF FileTypes
  <2>9. WellTyped'
    BY <2>1, <2>8 DEF WellTyped
  <2>10. AtLabel' /\ WindowIsSum'
    BY <1>1, <2>1 DEF AtLabel, Labels, WindowIsSum, Serving, Running
  <2>11. \A n \in Names : files.slot[n].generation \in Nat /\ files.slot[n].generation <= g
    BY <2>2, NewestFacts, CheckpointFacts DEF Best, Pairs
  <2>12. Newest(files'.slot) = N
    <3>1. \A n \in Names : files'.slot[n].generation <= files'.slot[m].generation
      BY <2>2, <2>3, <2>6, <2>11
    <3> QED BY <2>2, <2>6, <2>7, <3>1, NewestIs
  <2>13. /\ \A n \in Names : files.slot[n] \in disk.slot[n]
         /\ disk.late = {} => \A n \in Names : disk.slot[n] = {files.slot[n]}
         /\ files.wal \in disk.wal /\ NoNewer(g)
    BY <1>1, <2>2 DEF Kept, OnDisk
  <2>14. ASSUME NEW log \in disk.wal, NEW k \in 1 .. Len(log.records)
         PROVE  log.records[k].generation \in Nat /\ log.records[k].generation <= g
    <3>1. log \in Logs(now)
      BY Types
    <3>2. log.records \in Seq(Records(now))
      BY <3>1 DEF Logs
    <3>3. log.records[k] \in Records(now)
      BY <3>2
    <3> QED BY <2>13, <3>3 DEF NoNewer, Records
  <2>15. OnDisk'
    <3>1. \A log \in disk'.wal : \A k \in 1 .. Len(log.records) :
            log.records[k].generation <= g + 1 /\ log.records[k].generation <= g
      BY <2>2, <2>5, <2>14
    <3>2. \A n \in Names : files'.slot[n] \in disk'.slot[n]
      BY <2>6, <2>13
    <3> QED BY <2>1, <2>3, <2>5, <2>12, <2>13, <3>1, <3>2 DEF OnDisk, NoNewer, Best
  <2>16. Replacing'
    <3>1. ASSUME NEW n \in Names \ {m} PROVE files.slot[n].generation = g
      <4>1. PICK k \in Names : Best = files.slot[k]
        BY <2>2, NewestFacts DEF Best
      <4>2. CASE g = 0
        BY <2>11, <4>2
      <4>3. CASE g # 0
        <5>1. NameOf(g) = k
          BY <2>2, <4>1, <4>3 DEF Pairs
        <5>2. k # m
          BY <2>2, <5>1, NameOfFacts DEF m
        <5>3. k = n
          BY <2>2, <5>2, NamesFacts
        <5> QED BY <2>2, <4>1, <5>3
      <4> QED BY <4>2, <4>3
    <3>2. ASSUME NEW n \in Names \ {m}
          PROVE  /\ files'.slot[n].generation = g
                 /\ disk'.late = {} => disk'.slot[n] = {files'.slot[n]}
      BY <2>5, <2>6, <2>13, <3>1
    <3>3. files'.slot[m] = N'
      BY <2>3, <2>6
    <3> QED BY <2>1, <3>2, <3>3 DEF Replacing, m, N
  <2>17. Numbered' /\ Tidy' /\ Repaired' /\ Cut'
    BY <2>1 DEF Numbered, Tidy, Repaired, Cut
  <2>18. Checkpointing' /\ Resting' /\ Appending' /\ ShutdownWrites'
    BY <1>1, <2>1 DEF Kept, Checkpointing, Repairing, Underway, Resting, Appending, ShutdownWrites
  <2>19. Recoverable'
    <3>0. ASSUME NEW log \in disk'.wal PROVE Replay(files'.slot, log).image \in candidates
      <4>1. log \in disk.wal /\ log \in Logs(now)
        BY <2>5, Types
      <4>2. \A k \in 1 .. Len(log.records) : log.records[k].generation # Newest(files'.slot).generation
        BY <2>2, <2>3, <2>12, <2>14, <4>1
      <4>3. Replay(files'.slot, log).image = N.image
        <5> DEFINE s == files'.slot
        <5>1. s \in Pairs(now) /\ Newest(s) = N
              /\ \A k \in 1 .. Len(log.records) : log.records[k].generation # Newest(s).generation
          BY <2>7, <2>12, <4>2
        <5> HIDE DEF s
        <5>2. Replay(s, log).image = N.image
          BY <2>2, <4>1, <5>1, ReplayForeign
        <5> QED BY <5>2 DEF s
      <4> QED BY <2>2, <2>3, <4>3
    <3> SUFFICES ASSUME disk'.late = {}, NEW a \in disk'.slot["a"], NEW b \in disk'.slot["b"],
                        NEW log \in disk'.wal
                 PROVE  Replay(Combined(a, b), log).image \in candidates
      BY <2>1, <3>0 DEF Recoverable
    <3>1. log \in disk.wal /\ log \in Logs(now) /\ disk.late = {}
      BY <2>5, Types
    <3>2. CASE a \in disk.slot["a"] /\ b \in disk.slot["b"]
      BY <3>1, <3>2 DEF Kept, Survives, Recoverable
    <3>3. CASE ~ (a \in disk.slot["a"] /\ b \in disk.slot["b"])
      <4> DEFINE s == Combined(a, b)
      <4>1. s \in Pairs(now) /\ s["a"] = a /\ s["b"] = b
        <5>1. a \in Checkpoints(now) /\ b \in Checkpoints(now)
          BY <2>1, <2>8, NamesFacts DEF FileTypes
        <5>2. /\ a.generation # 0 => NameOf(a.generation) = "a"
              /\ b.generation # 0 => NameOf(b.generation) = "b"
          BY <2>8, NamesFacts DEF FileTypes
        <5> QED BY <2>2, <5>1, <5>2, CombinedPairs
      <4>2. s[m] = N /\ \A n \in Names \ {m} : s[n] = files.slot[n]
        BY <2>2, <2>6, <2>13, <3>1, <3>3, <4>1, NamesFacts
      <4> HIDE DEF s
      <4>3. \A n \in Names : s[n].generation <= s[m].generation
        BY <2>2, <2>3, <2>11, <4>2
      <4>4. Newest(s) = N
        BY <2>2, <4>1, <4>2, <4>3, NewestIs
      <4>5. \A k \in 1 .. Len(log.records) : log.records[k].generation # Newest(s).generation
        BY <2>2, <2>3, <2>14, <3>1, <4>4
      <4>6. Replay(s, log).image = N.image
        BY <2>2, <3>1, <4>1, <4>4, <4>5, ReplayForeign
      <4> QED BY <2>2, <2>3, <4>6 DEF s
    <3> QED BY <3>2, <3>3
  <2>20. Survives'
    BY <1>1, <2>1, <2>19 DEF Kept, Survives, Serving, Running
  <2> QED BY <2>9, <2>10, <2>15, <2>16, <2>17, <2>18, <2>20 DEF IInv, Kept
<1> QED BY <1>2, <1>3, <1>4 DEF replaceFile

(* Only the directory is written back.                                      *)
LEMMA DirectorySynced ==
  ASSUME WellTyped, SyncDirectory
  PROVE  /\ files' = files /\ disk'.wal = disk.wal
         /\ \A n \in Names : disk'.slot[n] = {files.slot[n]}
         /\ disk'.late = {} /\ (now' = now => FileTypes')
         /\ Recoverable /\ candidates' = candidates => Recoverable'
<1>1. /\ files' = files
      /\ disk' = [disk EXCEPT !.slot = [n \in Names |-> {files.slot[n]}], !.late = {}]
  BY DEF SyncDirectory
<1>2. disk'.wal = disk.wal /\ disk'.slot = [n \in Names |-> {files.slot[n]}] /\ disk'.late = {}
  BY <1>1, Types
<1>3. files.slot \in [Names -> Checkpoints(now)]
      /\ \A n \in Names : files.slot[n].generation # 0 => NameOf(files.slot[n].generation) = n
  BY Types DEF Pairs
<1>4. disk' \in [slot : [Names -> SUBSET Checkpoints(now)], wal : SUBSET Logs(now),
                 late : SUBSET Names]
  <2>1. [n \in Names |-> {files.slot[n]}] \in [Names -> SUBSET Checkpoints(now)]
    BY <1>3
  <2> QED BY <1>1, <2>1 DEF WellTyped, FileTypes
<1>5. ASSUME NEW a \in disk'.slot["a"], NEW b \in disk'.slot["b"]
      PROVE  Combined(a, b) = files.slot
  BY <1>2, FilesCombined, NamesFacts
<1>6. Recoverable /\ candidates' = candidates => Recoverable'
  BY <1>1, <1>2, <1>5 DEF Recoverable
<1> QED BY <1>1, <1>2, <1>3, <1>4, <1>6 DEF FileTypes, WellTyped

(* Once the directory is written back only the new checkpoint is left; if   *)
(* that fails it is late.                                                   *)
LEMMA SyncReplacedStep ==
  ASSUME WellTyped, AtLabel, Kept, WindowIsSum, syncReplaced
  PROVE  IInv'
<1>1. /\ pc = "dirsync" /\ pc' = "inspect" /\ core' = core /\ now' = now /\ stopping' = stopping
      /\ ready' = ready /\ generation_' = generation_ /\ sequence_' = sequence_
      /\ pending' = pending /\ task' = task /\ image' = image /\ version' = version
      /\ cut' = cut /\ last' = last /\ candidates' = candidates /\ acked' = acked
  BY DEF syncReplaced, Go, memory, store, locals, history, Fault
<1>2. AtLabel' /\ WindowIsSum'
  BY <1>1 DEF AtLabel, Labels, WindowIsSum, Serving, Running
<1>3. SyncDirectory \/ ForgetDirectory
  BY DEF syncReplaced
<1>4. /\ files' = files /\ disk'.wal = disk.wal
      /\ \A n \in Names : files.slot[n] \in disk'.slot[n]
      /\ disk'.late = {} => \A n \in Names : disk'.slot[n] = {files.slot[n]}
      /\ FileTypes' /\ Recoverable'
  <2>1. CASE SyncDirectory
    BY <1>1, <2>1, DirectorySynced DEF Kept, Survives
  <2>2. CASE ForgetDirectory
    BY <1>1, <2>2, Forgotten DEF Kept, Survives, OnDisk
  <2> QED BY <1>3, <2>1, <2>2
<1>5. Kept'
  <2>1. /\ files' = files /\ disk'.wal = disk.wal
        /\ \A n \in Names : files.slot[n] \in disk'.slot[n]
        /\ disk'.late = {} => \A n \in Names : disk'.slot[n] = {files.slot[n]}
    BY <1>4
  <2>3. OnDisk'
    BY <1>1, <2>1 DEF Kept, OnDisk, NoNewer, Best
  <2>4. Replacing'
    BY <1>1, <2>1 DEF Kept, Replacing, NextCheckpoint
  <2>5. Numbered' /\ Tidy' /\ Repaired' /\ Cut'
    BY <1>1 DEF Numbered, Tidy, Repaired, Cut
  <2>6. Checkpointing' /\ Resting' /\ Appending' /\ ShutdownWrites'
    BY <1>1 DEF Kept, Checkpointing, Repairing, Underway, Resting, Appending, ShutdownWrites
  <2>7. Survives'
    BY <1>1, <1>4 DEF Kept, Survives, Serving, Running
  <2> QED BY <2>3, <2>4, <2>5, <2>6, <2>7 DEF Kept
<1>6. WellTyped'
  BY <1>1, <1>4 DEF WellTyped
<1> QED BY <1>2, <1>5, <1>6 DEF IInv

(* The generation follows the checkpoint.                                   *)
LEMMA InspectStep ==
  ASSUME WellTyped, AtLabel, Kept, WindowIsSum, inspectCheckpoint
  PROVE  IInv'
<1>1. pc = "inspect" /\ files' = files /\ disk' = disk /\ task \in Writing /\ ~ Repairing
      /\ task # "start"
  BY DEF inspectCheckpoint, AtLabel, Repairing, Writing
<1>2. CASE Fault({}) /\ Close
  BY <1>1, <1>2, CloseStep DEF Fault
<1>3. CASE /\ generation_' = generation_ + 1 /\ cut' = 0 /\ pc' = "truncate"
           /\ UNCHANGED <<memory, ready, sequence_, pending, task, image, version, last, history>>
  <2>1. /\ core' = core /\ now' = now /\ stopping' = stopping /\ ready' = ready
        /\ sequence_' = sequence_ /\ pending' = pending /\ task' = task /\ image' = image
        /\ version' = version /\ last' = last /\ candidates' = candidates /\ acked' = acked
    BY <1>3 DEF memory, history
  <2> DEFINE g == generation_
             m == NameOf(g + 1)
  <2>2. g \in Nat /\ now \in Nat /\ m \in Names /\ files.slot \in Pairs(now)
    BY Types, NameOfFacts DEF WellTyped
  <2>3. WellTyped'
    BY <1>1, <1>3, <2>1, <2>2 DEF WellTyped, FileTypes
  <2>4. AtLabel' /\ WindowIsSum'
    BY <1>1, <1>3, <2>1 DEF AtLabel, Labels, WindowIsSum, Serving, Running
  <2>5. Settled'
    <3>1. Settled
      BY <1>1, Quiet DEF Kept
    <3> QED BY <1>1, <3>1 DEF Settled, NoNewer, Best
  <2>6. OnDisk' /\ Replacing'
    BY <1>3, <2>5, QuietAfter
  <2>7. Best = NextCheckpoint
    <3>1. files.slot[m] = NextCheckpoint /\ \A n \in Names \ {m} : files.slot[n].generation = g
      BY <1>1 DEF Kept, Replacing
    <3>2. NextCheckpoint.generation = g + 1
      BY DEF NextCheckpoint
    <3> HIDE DEF m
    <3>3. \A n \in Names : files.slot[n].generation <= files.slot[m].generation
      BY <2>2, <3>1, <3>2
    <3> QED BY <2>2, <3>1, <3>3, NewestIs DEF Best
  <2>8. /\ Best' = Best /\ Best.generation = g + 1 /\ Best.image = image /\ Best.sequence = sequence_
    BY <1>1, <2>7 DEF NextCheckpoint, Best
  <2>9. Numbered' /\ Tidy' /\ Repaired' /\ Cut'
    BY <1>1, <1>3, <2>1, <2>8 DEF Numbered, Tidy, Repaired, Repairing, Cut
  <2>10. Checkpointing'
    BY <1>1, <1>3, <2>1, <2>2, <2>8 DEF Kept, Checkpointing, Underway
  <2>11. Resting' /\ Appending' /\ ShutdownWrites'
    BY <1>3 DEF Resting, Appending, ShutdownWrites
  <2>12. Survives'
    BY <1>1, <1>3, <2>1 DEF Kept, Survives, Recoverable, Serving, Running
  <2> QED BY <2>3, <2>4, <2>6, <2>9, <2>10, <2>11, <2>12 DEF IInv, Kept
<1> QED BY <1>2, <1>3 DEF inspectCheckpoint

(* A log that is replaced by another leaves the slots alone.                *)
LEMMA LogSet ==
  ASSUME WellTyped, Settled, Recoverable, NEW log \in Logs(now), NEW others \in SUBSET Logs(now),
         SetLog(log, others), UNCHANGED candidates,
         \A l \in {log} \cup others : Replay(files.slot, l).image \in candidates,
         \A l \in {log} \cup others : \A k \in 1 .. Len(l.records) :
           l.records[k].generation <= Best.generation
  PROVE  /\ files'.slot = files.slot /\ files'.wal = log /\ Best' = Best
         /\ Found' = Replay(files.slot, log)
         /\ Settled' /\ Recoverable' /\ (now' = now => FileTypes')
<1>1. files' = [files EXCEPT !.wal = log] /\ disk' = [disk EXCEPT !.wal = @ \cup {log} \cup others]
  BY DEF SetLog
<1>2. /\ files'.slot = files.slot /\ files'.wal = log /\ disk'.slot = disk.slot
      /\ disk'.wal = disk.wal \cup {log} \cup others /\ disk'.late = disk.late
  BY <1>1, Types
<1>3. Best' = Best /\ Found' = Replay(files.slot, log)
  BY <1>2 DEF Best, Found
<1>4. Settled'
  BY <1>2, <1>3 DEF Settled, NoNewer
<1>5. Recoverable'
  <2>0. ASSUME NEW l \in disk'.wal PROVE Replay(files.slot, l).image \in candidates
    BY <1>2 DEF Recoverable
  <2> SUFFICES ASSUME disk.late = {}, NEW a \in disk.slot["a"], NEW b \in disk.slot["b"],
                      NEW l \in disk'.wal
               PROVE  Replay(Combined(a, b), l).image \in candidates
    BY <1>2, <2>0 DEF Recoverable
  <2>1. CASE l \in disk.wal
    BY <2>1 DEF Recoverable
  <2>2. CASE l \in {log} \cup others
    BY <2>2, OnlyTheLog DEF Settled
  <2> QED BY <1>2, <2>1, <2>2
<1>6. ASSUME now' = now PROVE FileTypes'
  <2>1. files' \in [slot : Pairs(now), wal : Logs(now)]
    BY <1>1 DEF WellTyped, FileTypes
  <2>2. disk' \in [slot : [Names -> SUBSET Checkpoints(now)], wal : SUBSET Logs(now),
                   late : SUBSET Names]
    BY <1>1 DEF WellTyped, FileTypes
  <2> QED BY <1>2, <1>6, <2>1, <2>2 DEF WellTyped, FileTypes
<1> QED BY <1>2, <1>3, <1>4, <1>5, <1>6

(* The records that are kept by a truncation are old ones.                  *)
LEMMA ShortenedFacts ==
  ASSUME WellTyped, Settled, cut <= Len(files.wal.records)
  PROVE  /\ Shortened \in Logs(now)
         /\ \A k \in 1 .. Len(Shortened.records) :
              Shortened.records[k].generation <= Best.generation
<1> DEFINE rs == files.wal.records
           qs == SubSeq(rs, 1, cut)
<1>1. rs \in Seq(Records(now)) /\ cut \in Nat /\ Len(rs) \in Nat /\ cut <= Len(rs)
  BY Types DEF WellTyped
<1>2. \A k \in 1 .. Len(rs) : rs[k].generation <= Best.generation
  BY DEF Settled, NoNewer
<1>3. Shortened.records = qs /\ Shortened.torn = FALSE
      /\ Shortened = [records |-> qs, torn |-> FALSE]
  BY DEF Shortened
<1> HIDE DEF rs
<1>4. qs \in Seq(Records(now)) /\ Len(qs) = cut /\ \A k \in 1 .. cut : qs[k] = rs[k]
  BY <1>1
<1>5. \A k \in 1 .. cut : k \in 1 .. Len(rs)
  BY <1>1
<1> HIDE DEF qs
<1> QED BY <1>2, <1>3, <1>4, <1>5 DEF Logs

(* A log that is cut means what the Store knows.                            *)
LEMMA CutFacts ==
  ASSUME WellTyped, AtLabel, Kept, pc = "truncate"
  PROVE  /\ cut <= Len(files.wal.records) /\ generation_ # 0 /\ generation_ = Best.generation
         /\ image \in candidates
         /\ Replay(files.slot, Shortened).valid
         /\ Replay(files.slot, Shortened).sequence = sequence_
         /\ Replay(files.slot, Shortened).image = image
<1>1. generation_ = Best.generation /\ ready
  BY DEF Kept, Numbered, AtLabel
<1>2. /\ Best \in Checkpoints(now) /\ Loads(now, Best, files.wal, Found)
      /\ Best.generation # 0 => Best # NoCheckpoint
      /\ now \in Nat /\ files.slot \in Pairs(now) /\ files.wal \in Logs(now)
      /\ files.wal.records \in Seq(Records(now)) /\ Len(files.wal.records) \in Nat
  BY FoundFacts, Types
<1>3. Found.image \in candidates
  BY FoundSurvives DEF Kept
<1>4. Settled
  BY Quiet DEF Kept
<1>5. CASE Repairing
  <2>1. /\ generation_ # 0 /\ cut = Found.kept /\ image = Found.image
        /\ sequence_ = Found.sequence
    BY <1>5 DEF Kept, Repaired
  <2>2. cut <= Len(files.wal.records)
    BY <1>1, <1>2, <2>1 DEF Loads
  <2>3. Shortened \in Logs(now)
    BY <1>4, <2>2, ShortenedFacts
  <2>4. Shortened.records = SubSeq(files.wal.records, 1, Replay(files.slot, files.wal).kept)
    BY <2>1 DEF Shortened, Found
  <2>5. Newest(files.slot) # NoCheckpoint
    BY <1>1, <1>2, <2>1 DEF Best
  <2>6. /\ Replay(files.slot, Shortened).valid
        /\ Replay(files.slot, Shortened).sequence = Replay(files.slot, files.wal).sequence
        /\ Replay(files.slot, Shortened).image = Replay(files.slot, files.wal).image
    BY <1>2, <2>3, <2>4, <2>5, ReplayCut
  <2> QED BY <1>1, <1>3, <2>1, <2>2, <2>6 DEF Found
<1>6. CASE ~ Repairing
  <2>1. /\ Underway /\ cut = 0 /\ Best.image = image /\ Best.sequence = sequence_
        /\ generation_ # 0
    BY <1>6 DEF Kept, Checkpointing
  <2>2. Shortened.records = << >>
    <3>1. Shortened.records = SubSeq(files.wal.records, 1, 0)
      BY <2>1 DEF Shortened
    <3> DEFINE rs == files.wal.records
    <3>2. rs \in Seq(Records(now))
      BY <1>2
    <3> HIDE DEF rs
    <3>3. SubSeq(rs, 1, 0) = << >>
      BY <3>2
    <3> QED BY <3>1, <3>3 DEF rs
  <2>3. Replay(files.slot, Shortened) = Start(Best)
    BY <1>2, <2>2, ReplayEmpty DEF Best
  <2> QED BY <1>1, <1>2, <2>1, <2>3 DEF Start, Underway
<1> QED BY <1>5, <1>6

(* truncateWalTo() changes nothing that load() would find.                  *)
LEMMA TruncateStep ==
  ASSUME WellTyped, AtLabel, Kept, WindowIsSum, truncateWalTo
  PROVE  IInv'
<1>1. /\ pc = "truncate" /\ ready /\ cut <= Len(files.wal.records) /\ generation_ # 0
      /\ generation_ = Best.generation /\ image \in candidates
      /\ Replay(files.slot, Shortened).valid
      /\ Replay(files.slot, Shortened).sequence = sequence_
      /\ Replay(files.slot, Shortened).image = image
  BY CutFacts DEF truncateWalTo, AtLabel
<1>2. CASE Fault({}) /\ Close /\ UNCHANGED <<files, disk>>
  BY <1>1, <1>2, CloseStep DEF Fault
<1>3. CASE SetLog(Shortened, {}) /\ Go("logsync") /\ UNCHANGED history
  <2>1. /\ pc' = "logsync" /\ core' = core /\ now' = now /\ stopping' = stopping
        /\ ready' = ready /\ generation_' = generation_ /\ sequence_' = sequence_
        /\ pending' = pending /\ task' = task /\ image' = image /\ version' = version
        /\ cut' = cut /\ last' = last /\ excused' = excused /\ candidates' = candidates
        /\ acked' = acked
    BY <1>3 DEF Go, memory, store, locals, history
  <2>2. Settled /\ Recoverable
    BY <1>1, Quiet DEF Kept, Survives
  <2>3. /\ Shortened \in Logs(now) /\ Shortened.torn = FALSE
        /\ \A k \in 1 .. Len(Shortened.records) :
             Shortened.records[k].generation <= Best.generation
    BY <1>1, <2>2, ShortenedFacts DEF Shortened
  <2>4. /\ files'.slot = files.slot /\ files'.wal = Shortened /\ Best' = Best
        /\ Found' = Replay(files.slot, Shortened)
        /\ Settled' /\ Recoverable' /\ FileTypes'
    <3> DEFINE log == Shortened
    <3>1. SetLog(log, {}) /\ {log} \cup {} = {log} /\ {} \in SUBSET Logs(now)
      BY <1>3
    <3>2. Replay(files.slot, log).image \in candidates
      BY <1>1
    <3>3. log \in Logs(now)
          /\ \A k \in 1 .. Len(log.records) : log.records[k].generation <= Best.generation
      BY <2>3
    <3> HIDE DEF log
    <3> QED BY <2>1, <2>2, <3>1, <3>2, <3>3, LogSet DEF log
  <2>5. WellTyped'
    BY <2>1, <2>4 DEF WellTyped
  <2>6. AtLabel' /\ WindowIsSum'
    BY <1>1, <2>1 DEF AtLabel, Labels, WindowIsSum, Serving, Running
  <2>7. OnDisk' /\ Replacing'
    BY <2>1, <2>4, QuietAfter
  <2>8. Numbered' /\ Tidy' /\ Repaired' /\ Cut'
    BY <1>1, <2>1, <2>3, <2>4 DEF Numbered, Tidy, Repaired, Cut
  <2>9. Checkpointing'
    BY <1>1, <2>1 DEF Kept, Checkpointing, Repairing, Underway
  <2>10. Resting' /\ Appending' /\ ShutdownWrites'
    BY <2>1 DEF Resting, Appending, ShutdownWrites
  <2>11. Survives'
    BY <1>1, <2>1, <2>4 DEF Kept, Survives, Serving, Running
  <2> QED BY <2>5, <2>6, <2>7, <2>8, <2>9, <2>10, <2>11 DEF IInv, Kept
<1> QED BY <1>2, <1>3 DEF truncateWalTo, Shortened

(* Only the log is written back.                                            *)
LEMMA LogSynced ==
  ASSUME WellTyped, Settled, SyncLog
  PROVE  /\ files' = files /\ disk'.slot = disk.slot /\ disk'.wal = {files.wal}
         /\ disk'.late = disk.late /\ Best' = Best /\ Found' = Found /\ Settled'
         /\ now' = now => FileTypes'
<1>1. files' = files /\ disk' = [disk EXCEPT !.wal = {files.wal}]
  BY DEF SyncLog
<1>2. disk'.slot = disk.slot /\ disk'.wal = {files.wal} /\ disk'.late = disk.late
  BY <1>1, Types
<1>3. Best' = Best /\ Found' = Found
  BY <1>1 DEF Best, Found
<1>4. Settled'
  BY <1>1, <1>2, <1>3 DEF Settled, NoNewer
<1>5. ASSUME now' = now PROVE FileTypes'
  <2>1. disk' \in [slot : [Names -> SUBSET Checkpoints(now)], wal : SUBSET Logs(now),
                   late : SUBSET Names]
    BY <1>1, Types DEF WellTyped, FileTypes
  <2> QED BY <1>1, <1>2, <1>5, <2>1 DEF WellTyped, FileTypes
<1> QED BY <1>1, <1>2, <1>3, <1>4, <1>5

(* The shortened log is written back.                                       *)
LEMMA SyncLogStep ==
  ASSUME WellTyped, AtLabel, Kept, WindowIsSum, syncLog
  PROVE  IInv'
<1>1. pc = "logsync" /\ Settled /\ Recoverable /\ ready /\ Found.image \in candidates
      /\ Found.image = image
  BY Quiet, FoundSurvives DEF syncLog, Kept, Survives, AtLabel, Cut
<1>2. CASE Fault({}) /\ Close /\ UNCHANGED <<files, disk>>
  BY <1>1, <1>2, CloseStep DEF Fault
<1>3. CASE SyncLog /\ Go("logdir") /\ UNCHANGED history
  <2>1. /\ pc' = "logdir" /\ core' = core /\ now' = now /\ stopping' = stopping
        /\ ready' = ready /\ generation_' = generation_ /\ sequence_' = sequence_
        /\ pending' = pending /\ task' = task /\ image' = image /\ version' = version
        /\ cut' = cut /\ last' = last /\ excused' = excused /\ candidates' = candidates
        /\ acked' = acked
    BY <1>3 DEF Go, memory, store, locals, history
  <2>2. /\ files' = files /\ disk'.slot = disk.slot /\ disk'.wal = {files.wal}
        /\ disk'.late = disk.late /\ Best' = Best /\ Found' = Found /\ Settled' /\ FileTypes'
    BY <1>1, <1>3, <2>1, LogSynced
  <2>3. WellTyped'
    BY <2>1, <2>2 DEF WellTyped
  <2>4. AtLabel' /\ WindowIsSum'
    BY <1>1, <2>1 DEF AtLabel, Labels, WindowIsSum, Serving, Running
  <2>5. OnDisk' /\ Replacing'
    BY <2>1, <2>2, QuietAfter
  <2>6. Numbered' /\ Tidy' /\ Repaired' /\ Cut'
    BY <1>1, <2>1, <2>2 DEF Kept, Numbered, Tidy, Repaired, Cut
  <2>7. Checkpointing'
    BY <1>1, <2>1 DEF Kept, Checkpointing, Repairing, Underway
  <2>8. Resting' /\ Appending' /\ ShutdownWrites'
    BY <2>1 DEF Resting, Appending, ShutdownWrites
  <2>9. Recoverable'
    BY <1>1, <2>1, <2>2 DEF Recoverable, Settled
  <2>10. Survives'
    BY <1>1, <2>1, <2>9 DEF Kept, Survives, Serving, Running
  <2> QED BY <2>3, <2>4, <2>5, <2>6, <2>7, <2>8, <2>10 DEF IInv, Kept
<1> QED BY <1>2, <1>3 DEF syncLog

(* The last fsync of a write leaves one content, which is reported.         *)
LEMMA SyncLogDirectoryStep ==
  ASSUME WellTyped, AtLabel, Kept, WindowIsSum, syncLogDirectory
  PROVE  IInv'
<1>1. /\ pc = "logdir" /\ Settled /\ ready /\ Found.image \in candidates /\ Found.image = image
      /\ generation_ # 0 /\ disk.wal = {files.wal} /\ generation_ = Best.generation
      /\ Found.valid /\ ~ files.wal.torn /\ Found.sequence = sequence_
      /\ LifetimeOf(image) >= acked /\ (task = "start" => pending = NoPatch)
      /\ (last => stopping) /\ task \in {"start", "repair"} \cup Writing
  BY Quiet, FoundSurvives DEF syncLogDirectory, Kept, AtLabel, Cut, Numbered, Tidy
<1>2. image \in Images(now) /\ image # NoImage /\ LifetimeOf(image) = image.lifetime
      /\ image.lifetime \in Nat /\ acked \in Nat /\ now \in Nat
  <2>1. image \in Images(now) /\ now \in Nat
    BY <1>1, FoundFacts, Types
  <2> QED BY <2>1, LifetimeFacts, ImageFacts DEF WellTyped
<1>3. CASE Fault({}) /\ Close /\ UNCHANGED <<files, disk>>
  BY <1>1, <1>3, CloseStep DEF Fault
<1>4. ASSUME SyncDirectory, now' = now
      PROVE  /\ files' = files /\ disk'.wal = disk.wal /\ Best' = Best /\ Found' = Found
             /\ Settled' /\ FileTypes' /\ (candidates' = candidates => Recoverable')
             /\ \A n \in Names : disk'.slot[n] = {files.slot[n]}
  <2>1. /\ files' = files /\ disk'.wal = disk.wal
        /\ \A n \in Names : disk'.slot[n] = {files.slot[n]}
        /\ FileTypes' /\ (candidates' = candidates => Recoverable')
    BY <1>4, DirectorySynced DEF Kept, Survives
  <2>2. Best' = Best /\ Found' = Found
    BY <2>1 DEF Best, Found
  <2> QED BY <1>1, <2>1, <2>2 DEF Settled, NoNewer
<1>5. CASE SyncDirectory /\ task = "start" /\ StartFrom(image) /\ UNCHANGED <<store, cut, history>>
  <2>1. /\ ready' = ready /\ generation_' = generation_ /\ sequence_' = sequence_ /\ cut' = cut
        /\ excused' = excused /\ candidates' = candidates /\ acked' = acked
    BY <1>5 DEF store, history
  <2>2. /\ core' \in Cores(now) /\ Summed(core') /\ core'.lifetime = LifetimeOf(image)
        /\ Unmarked(image, core')
        /\ now' = now /\ pc' = "wait" /\ task' = "recover" /\ image' = NoImage
        /\ stopping' = stopping /\ pending' = pending /\ version' = version /\ last' = last
    BY <1>2, <1>5, Started
  <2>3. /\ files' = files /\ disk'.wal = disk.wal /\ Best' = Best /\ Found' = Found
        /\ Settled' /\ FileTypes' /\ Recoverable'
    BY <1>4, <1>5, <2>1, <2>2
  <2>4. WellTyped'
    BY <2>1, <2>2, <2>3 DEF WellTyped
  <2>5. AtLabel'
    BY <1>1, <1>5, <2>1, <2>2 DEF AtLabel, Labels, Writing
  <2>6. WindowIsSum'
    BY <2>2 DEF WindowIsSum, Summed
  <2>7. OnDisk' /\ Replacing'
    BY <2>2, <2>3, QuietAfter
  <2>8. Numbered' /\ Tidy' /\ Repaired' /\ Cut' /\ Checkpointing'
    BY <1>1, <2>1, <2>2, <2>3 DEF Numbered, Tidy, Repaired, Cut, Checkpointing
  <2>9. Resting' /\ Appending' /\ ShutdownWrites'
    BY <1>1, <1>5, <2>1, <2>2, <2>3 DEF Resting, Appending, ShutdownWrites
  <2>10. Survives'
    BY <1>1, <2>1, <2>2, <2>3 DEF Kept, Survives
  <2> QED BY <2>4, <2>5, <2>6, <2>7, <2>8, <2>9, <2>10 DEF IInv, Kept
<1>6. CASE /\ SyncDirectory /\ task = "repair" /\ pc' = "image" /\ task' = "recover"
           /\ UNCHANGED <<memory, store, pending, image, version, cut, last, history>>
  <2>1. /\ ready' = ready /\ generation_' = generation_ /\ sequence_' = sequence_ /\ cut' = cut
        /\ excused' = excused /\ candidates' = candidates /\ acked' = acked /\ core' = core
        /\ now' = now /\ stopping' = stopping /\ pending' = pending /\ image' = image
        /\ version' = version /\ last' = last
    BY <1>6 DEF store, history, memory
  <2>2. /\ files' = files /\ disk'.wal = disk.wal /\ Best' = Best /\ Found' = Found
        /\ Settled' /\ FileTypes' /\ Recoverable'
    BY <1>4, <1>6, <2>1
  <2>3. WellTyped'
    BY <2>1, <2>2 DEF WellTyped
  <2>4. AtLabel' /\ WindowIsSum'
    BY <1>1, <1>6, <2>1 DEF AtLabel, Labels, Writing, WindowIsSum, Serving, Running
  <2>5. OnDisk' /\ Replacing'
    BY <1>6, <2>2, QuietAfter
  <2>6. Numbered' /\ Tidy' /\ Repaired' /\ Cut' /\ Checkpointing'
    BY <1>1, <1>6, <2>1, <2>2 DEF Numbered, Tidy, Repaired, Cut, Checkpointing
  <2>7. Resting' /\ Appending' /\ ShutdownWrites'
    BY <1>6 DEF Resting, Appending, ShutdownWrites
  <2>8. Survives'
    BY <1>1, <1>6, <2>1, <2>2 DEF Kept, Survives, Serving, Running
  <2> QED BY <2>3, <2>4, <2>5, <2>6, <2>7, <2>8 DEF IInv, Kept
<1>7. CASE SyncDirectory /\ task \notin {"start", "repair"} /\ Written /\ Go("ack")
  <2>1. /\ pc' = "ack" /\ core' = core /\ now' = now /\ stopping' = stopping
        /\ ready' = ready /\ generation_' = generation_ /\ sequence_' = sequence_
        /\ pending' = pending /\ task' = task /\ image' = image /\ version' = version
        /\ cut' = cut /\ last' = last /\ candidates' = {image} /\ ~ Repairing
    BY <1>7 DEF Go, memory, store, locals, Written, Repairing
  <2>2. acked' = image.lifetime
    BY <1>1, <1>2, <1>7 DEF Written
  <2>3. Underway /\ image.lifetime <= core.lifetime /\ core.lifetime \in Nat
    BY <1>1, <2>1, Types DEF Kept, Checkpointing, Underway
  <2>4. /\ files' = files /\ disk'.wal = disk.wal /\ Best' = Best /\ Found' = Found
        /\ Settled' /\ FileTypes' /\ \A n \in Names : disk'.slot[n] = {files.slot[n]}
    BY <1>4, <1>7, <2>1
  <2>5. WellTyped'
    BY <1>2, <2>1, <2>2, <2>4 DEF WellTyped
  <2>6. AtLabel' /\ WindowIsSum'
    BY <1>1, <1>7, <2>1 DEF AtLabel, Labels, Writing, WindowIsSum, Serving, Running
  <2>7. OnDisk' /\ Replacing'
    BY <2>1, <2>4, QuietAfter
  <2>8. Numbered' /\ Tidy' /\ Repaired' /\ Cut'
    BY <1>1, <2>1, <2>2, <2>4 DEF Numbered, Tidy, Repaired, Cut
  <2>9. Checkpointing'
    <3>1. Underway'
      BY <2>1, <2>3 DEF Underway
    <3> QED BY <1>1, <2>1, <3>1 DEF Kept, Checkpointing
  <2>10. Resting' /\ Appending' /\ ShutdownWrites'
    BY <2>1 DEF Resting, Appending, ShutdownWrites
  <2>11. Recoverable'
    <3>1. ASSUME NEW log \in disk'.wal PROVE Replay(files.slot, log).image = image
      BY <1>1, <2>4 DEF Found
    <3>2. ASSUME NEW a \in disk'.slot["a"], NEW b \in disk'.slot["b"]
          PROVE  Combined(a, b) = files.slot
      BY <2>4, FilesCombined, NamesFacts
    <3> QED BY <2>1, <2>4, <3>1, <3>2 DEF Recoverable
  <2>12. Survives'
    BY <1>2, <2>1, <2>2, <2>3, <2>11 DEF Survives
  <2> QED BY <2>5, <2>6, <2>7, <2>8, <2>9, <2>10, <2>12 DEF IInv, Kept
<1> QED BY <1>3, <1>5, <1>6, <1>7 DEF syncLogDirectory

(* The marks are removed when nothing was counted since the image.          *)
LEMMA AcknowledgeFacts ==
  ASSUME NEW t \in Nat, NEW c \in Cores(t), NEW v, NEW i, Unmarked(i, c),
         v = c.dirty_version_ => i = persistentImage(c)
  PROVE  LET d == acknowledgeCheckpoint(c, v) IN
         /\ d \in Cores(t) /\ d.lifetime = c.lifetime /\ Unmarked(i, d)
         /\ d.dirty_version_ = c.dirty_version_ /\ (Summed(c) => Summed(d))
<1>1. CASE v = c.dirty_version_
  <2>1. acknowledgeCheckpoint(c, v) = Clean(c)
    BY <1>1 DEF acknowledgeCheckpoint
  <2> QED BY <1>1, <2>1, CleanFacts
<1>2. CASE v # c.dirty_version_
  <2>1. acknowledgeCheckpoint(c, v) = c
    BY <1>2 DEF acknowledgeCheckpoint
  <2> QED BY <2>1
<1> QED BY <1>1, <1>2

(* acknowledgeCheckpoint() removes marks of what is written only.           *)
LEMMA AcknowledgeStep ==
  ASSUME WellTyped, AtLabel, Kept, WindowIsSum, acknowledge
  PROVE  IInv'
<1>1. /\ pc = "ack" /\ task \in Writing /\ ready /\ ~ Repairing /\ task # "start"
      /\ pc' \in {"flush", "end"} /\ now' = now /\ stopping' = stopping
      /\ files' = files /\ disk' = disk /\ ready' = ready /\ generation_' = generation_
      /\ sequence_' = sequence_ /\ task' = task /\ image' = image /\ version' = version
      /\ cut' = cut /\ last' = last /\ excused' = excused /\ candidates' = candidates
      /\ acked' = acked /\ (last => stopping)
  BY DEF acknowledge, AtLabel, Writing, Repairing, store, locals, history
<1>2. /\ Underway /\ (version = core.dirty_version_ => image = persistentImage(core))
      /\ (task # "recover" => pending = NoPatch) /\ generation_ # 0
      /\ Found.image = image /\ candidates = {image} /\ acked = image.lifetime
      /\ image.lifetime <= core.lifetime /\ Unmarked(image, core)
      /\ (last => image.lifetime = core.lifetime)
  BY <1>1 DEF Kept, Checkpointing, Cut, Underway
<1>3. pending' = NoPatch
  BY <1>2 DEF acknowledge
<1>4. now \in Nat /\ core \in Cores(now) /\ Serving /\ Summed(core)
  BY <1>1, Types DEF Serving, Running, WindowIsSum, Summed
<1>5. /\ core' \in Cores(now) /\ core'.lifetime = core.lifetime /\ Unmarked(image, core')
      /\ Summed(core')
  BY <1>2, <1>4, AcknowledgeFacts DEF acknowledge
<1>6. Best' = Best /\ Found' = Found
  BY <1>1 DEF Best, Found
<1>7. WellTyped'
  BY <1>1, <1>3, <1>5 DEF WellTyped, FileTypes
<1>8. AtLabel'
  BY <1>1 DEF AtLabel, Labels, Writing
<1>9. WindowIsSum'
  BY <1>5 DEF WindowIsSum, Summed
<1>10. OnDisk' /\ Replacing'
  <2>1. Settled
    BY <1>1, Quiet DEF Kept
  <2>2. Settled'
    BY <1>1, <2>1 DEF Settled, NoNewer, Best
  <2> QED BY <1>1, <2>2, QuietAfter
<1>11. Numbered' /\ Tidy' /\ Repaired' /\ Cut' /\ Checkpointing'
  BY <1>1, <1>6 DEF Kept, Numbered, Tidy, Repaired, Cut, Checkpointing
<1>12. Resting' /\ Appending'
  BY <1>1, <1>2, <1>3, <1>5, <1>6 DEF Resting, Appending
<1>13. ShutdownWrites'
  BY <1>1, <1>2, <1>5 DEF ShutdownWrites
<1>14. Survives'
  <2>1. Recoverable'
    BY <1>1 DEF Kept, Survives, Recoverable
  <2> QED BY <1>1, <1>2, <1>4, <1>5, <2>1 DEF Kept, Survives
<1> QED BY <1>7, <1>8, <1>9, <1>10, <1>11, <1>12, <1>13, <1>14 DEF IInv, Kept

-----------------------------------------------------------------------------
(* The flush.                                                               *)

(* A patch with the image that it makes of what is on the disk.             *)
LEMMA TakeFacts ==
  ASSUME WellTyped, AtLabel, Kept, WindowIsSum, pc = "flush", UNCHANGED <<files, disk>>,
         NEW patch \in Patches(now), NEW c \in Cores(now), Take(patch, c),
         c.lifetime = core.lifetime, Unmarked(persistentImage(core), c),
         Summed(core) => Summed(c),
         applyPatch(Found.image, patch) = persistentImage(core)
  PROVE  IInv'
<1>1. /\ pending' = patch /\ core' = c /\ pc' = "append" /\ image' = persistentImage(core)
      /\ candidates' = candidates \cup {image'} /\ now' = now /\ stopping' = stopping
      /\ ready' = ready /\ generation_' = generation_ /\ sequence_' = sequence_
      /\ task' = task /\ version' = version /\ cut' = cut /\ last' = last /\ acked' = acked
      /\ files' = files /\ disk' = disk
  BY DEF Take, store
<1>2. /\ now \in Nat /\ core \in Cores(now) /\ core.lifetime \in Nat /\ patch # NoPatch
      /\ acked \in Nat
  BY Types, Patched DEF WellTyped
<1>3. /\ image' \in Images(now) /\ image'.lifetime = core.lifetime /\ image' # NoImage
  BY <1>1, <1>2, PersistentImageFacts, ImageFacts
<1>4. task \in Writing /\ task # "start" /\ Serving /\ Serving' /\ ready /\ generation_ # 0
  BY <1>1 DEF AtLabel, Serving, Running, Writing, Kept, Resting
<1>5. Best' = Best /\ Found' = Found
  BY <1>1 DEF Best, Found
<1>6. WellTyped'
  BY <1>1, <1>3 DEF WellTyped, FileTypes
<1>7. AtLabel' /\ WindowIsSum'
  BY <1>1, <1>4 DEF AtLabel, Labels, WindowIsSum, Summed
<1>8. OnDisk' /\ Replacing'
  <2>1. Settled
    BY Quiet DEF Kept
  <2>2. Settled'
    BY <1>1, <2>1 DEF Settled, NoNewer, Best
  <2> QED BY <1>1, <2>2, QuietAfter
<1>9. Numbered' /\ Tidy' /\ Repaired' /\ Cut' /\ Checkpointing'
  BY <1>1, <1>5 DEF Kept, Numbered, Tidy, Repaired, Cut, Checkpointing
<1>10. Appending'
  <2>1. Underway'
    BY <1>1, <1>2, <1>3 DEF Underway
  <2> QED BY <1>1, <1>2, <1>4, <1>5, <2>1 DEF Appending
<1>11. Resting' /\ ShutdownWrites'
  BY <1>1 DEF Resting, ShutdownWrites
<1>12. Survives'
  <2>1. Recoverable'
    BY <1>1 DEF Kept, Survives, Recoverable
  <2>2. LifetimeOf(image') >= acked /\ core.lifetime >= acked
    BY <1>2, <1>3, <1>4, LifetimeFacts DEF Kept, Survives
  <2> QED BY <1>1, <2>1, <2>2 DEF Kept, Survives
<1> QED BY <1>6, <1>7, <1>8, <1>9, <1>10, <1>11, <1>12 DEF IInv, Kept

(* takeDirtyPatch() removes the marks of what the patch has.                *)
LEMMA TakeStep ==
  ASSUME WellTyped, AtLabel, Kept, WindowIsSum, takeDirtyPatch
  PROVE  IInv'
<1>1. /\ pc = "flush" /\ UNCHANGED <<files, disk>> /\ pending = NoPatch /\ generation_ # 0
      /\ Unmarked(Found.image, core) /\ now \in Nat /\ core \in Cores(now) /\ ready
  BY Types DEF takeDirtyPatch, Kept, Resting, AtLabel
<1>2. CASE Take(DirtyPatch(core), Clean(core))
  <2>1. /\ DirtyPatch(core) \in Patches(now)
        /\ applyPatch(Found.image, DirtyPatch(core)) = persistentImage(core)
    BY <1>1, DirtyPatchFacts
  <2>2. /\ Clean(core) \in Cores(now) /\ Clean(core).lifetime = core.lifetime
        /\ Unmarked(persistentImage(core), Clean(core)) /\ (Summed(core) => Summed(Clean(core)))
    BY <1>1, CleanFacts
  <2> QED BY <1>1, <1>2, <2>1, <2>2, TakeFacts
<1>3. CASE ~ hasDirty(core) /\ Take(runtimePatch(core), core)
  <2>1. /\ runtimePatch(core) \in Patches(now)
        /\ applyPatch(Found.image, runtimePatch(core)) = persistentImage(core)
    BY <1>1, <1>3, RuntimePatchFacts
  <2>2. Unmarked(persistentImage(core), core)
    BY <1>1, PersistentImageFacts
  <2> QED BY <1>1, <1>3, <2>1, <2>2, TakeFacts
<1>4. CASE ~ last /\ Go("end") /\ UNCHANGED history
  <2>1. /\ pc' = "end" /\ core' = core /\ now' = now /\ stopping' = stopping
        /\ ready' = ready /\ generation_' = generation_ /\ sequence_' = sequence_
        /\ pending' = pending /\ task' = task /\ image' = image /\ version' = version
        /\ cut' = cut /\ last' = last /\ excused' = excused /\ candidates' = candidates
        /\ acked' = acked
    BY <1>4 DEF Go, memory, store, locals, history
  <2>2. Best' = Best /\ Found' = Found
    BY <1>1 DEF Best, Found
  <2>3. WellTyped'
    BY <1>1, <2>1 DEF WellTyped, FileTypes
  <2>4. AtLabel' /\ WindowIsSum'
    BY <1>1, <2>1 DEF AtLabel, Labels, WindowIsSum, Serving, Running
  <2>5. OnDisk' /\ Replacing'
    <3>1. Settled
      BY <1>1, Quiet DEF Kept
    <3>2. Settled'
      BY <1>1, <3>1 DEF Settled, NoNewer, Best
    <3> QED BY <2>1, <3>2, QuietAfter
  <2>6. Numbered' /\ Tidy' /\ Repaired' /\ Cut' /\ Checkpointing'
    BY <1>1, <2>1, <2>2 DEF Kept, Numbered, Tidy, Repaired, Cut, Checkpointing
  <2>7. Resting' /\ Appending' /\ ShutdownWrites'
    BY <1>1, <1>4, <2>1, <2>2 DEF Resting, Appending, ShutdownWrites
  <2>8. Survives'
    BY <1>1, <2>1 DEF Kept, Survives, Recoverable, Serving, Running
  <2> QED BY <2>3, <2>4, <2>5, <2>6, <2>7, <2>8 DEF IInv, Kept
<1> QED BY <1>1, <1>2, <1>3, <1>4 DEF takeDirtyPatch

(* What the log looks like before an append.                                *)
LEMMA BeforeAppend ==
  ASSUME WellTyped, AtLabel, Kept, pc = "append"
  PROVE  /\ ready /\ task \in Writing /\ task # "start" /\ generation_ # 0
         /\ generation_ = Best.generation /\ Best # NoCheckpoint
         /\ Found.valid /\ files.wal.torn = FALSE /\ Found.sequence = sequence_
         /\ Underway /\ image = applyPatch(Found.image, pending)
         /\ LogRecord \in Records(now) /\ LogRecord.patch = pending
         /\ LogRecord.generation = Best.generation /\ LogRecord.sequence = sequence_ + 1
         /\ Settled /\ Recoverable /\ Found.image \in candidates
<1>1. /\ ready /\ task \in Writing /\ task # "start" /\ generation_ # 0
      /\ generation_ = Best.generation /\ Found.valid /\ ~ files.wal.torn
      /\ Found.sequence = sequence_ /\ Underway /\ image = applyPatch(Found.image, pending)
      /\ pending # NoPatch
  BY DEF AtLabel, Writing, Kept, Numbered, Tidy, Appending
<1>2. files.wal.torn = FALSE
  BY <1>1, Types DEF Logs
<1>3. Best # NoCheckpoint
  BY <1>1, FoundFacts
<1>4. pending \in Patches(now) /\ generation_ \in Nat \ {0} /\ sequence_ \in Nat
  BY <1>1 DEF WellTyped
<1>5. /\ LogRecord \in Records(now) /\ LogRecord.patch = pending
      /\ LogRecord.generation = Best.generation /\ LogRecord.sequence = sequence_ + 1
  BY <1>1, <1>4 DEF LogRecord, Records
<1>6. Settled /\ Recoverable /\ Found.image \in candidates
  BY Quiet, FoundSurvives DEF Kept, Survives
<1> QED BY <1>1, <1>2, <1>3, <1>5, <1>6

(* The rest of an append, once the log is what it is.                       *)
LEMMA Appended ==
  ASSUME WellTyped, AtLabel, Kept, WindowIsSum, pc = "append",
         cut' = Len(files.wal.records),
         UNCHANGED <<memory, store, pending, task, image, version, last>>,
         UNCHANGED <<candidates, acked>>,
         Settled', Recoverable', FileTypes', Best' = Best, files'.slot = files.slot,
         Len(files'.wal.records) >= cut',
         SubSeq(files'.wal.records, 1, cut') = files.wal.records,
         \/ /\ pc' = "appendsync" /\ Found'.valid /\ ~ files'.wal.torn
            /\ Found'.sequence = sequence_ + 1 /\ Found'.image = image
         \/ pc' = "rollback"
  PROVE  IInv'
<1>1. /\ ready /\ task \in Writing /\ task # "start" /\ generation_ # 0
      /\ generation_ = Best.generation /\ Underway /\ Found.image \in candidates
      /\ pending # NoPatch
  BY BeforeAppend DEF Kept, Appending
<1>2. /\ core' = core /\ now' = now /\ stopping' = stopping /\ ready' = ready
      /\ generation_' = generation_ /\ sequence_' = sequence_
  BY DEF memory, store
<1>3. WellTyped'
  BY <1>2, Types DEF WellTyped
<1>4. AtLabel' /\ WindowIsSum'
  BY <1>1, <1>2 DEF AtLabel, Labels, WindowIsSum, Serving, Running
<1>5. OnDisk' /\ Replacing'
  BY QuietAfter
<1>6. Numbered' /\ Tidy' /\ Repaired' /\ Cut' /\ Checkpointing'
  BY <1>1, <1>2 DEF Numbered, Tidy, Repaired, Cut, Checkpointing
<1>7. Appending'
  <2>1. Underway'
    BY <1>1, <1>2 DEF Underway
  <2>2. Shortened'.records = files.wal.records
    BY DEF Shortened
  <2>3. Replay(files'.slot, Shortened').image \in candidates'
    <3> DEFINE l == Shortened'
    <3> HIDE DEF l
    <3>1. Replay(files.slot, l) = Replay(files.slot, files.wal)
      BY <2>2, ReplayRecords DEF l
    <3> QED BY <1>1, <3>1 DEF Found, l
  <2>4. cut' <= Len(files'.wal.records)
    BY <1>3, Types
  <2> QED BY <1>1, <1>2, <2>1, <2>3, <2>4 DEF Appending
<1>8. Resting' /\ ShutdownWrites'
  BY DEF Resting, ShutdownWrites
<1>9. Survives'
  BY <1>1, <1>2 DEF Kept, Survives, Serving, Running
<1> QED BY <1>3, <1>4, <1>5, <1>6, <1>7, <1>8, <1>9 DEF IInv, Kept

(* A sequence, and one with an element more, cut to its length.             *)
LEMMA SubSeqFacts ==
  ASSUME NEW S, NEW rs \in Seq(S), NEW r \in S
  PROVE  /\ SubSeq(rs, 1, Len(rs)) = rs /\ SubSeq(Append(rs, r), 1, Len(rs)) = rs
         /\ Append(rs, r) \in Seq(S) /\ Len(Append(rs, r)) = Len(rs) + 1 /\ Len(rs) \in Nat
         /\ \A k \in 1 .. Len(rs) + 1 :
              Append(rs, r)[k] = IF k = Len(rs) + 1 THEN r ELSE rs[k]
<1>1. Len(rs) \in Nat /\ Append(rs, r) \in Seq(S) /\ Len(Append(rs, r)) = Len(rs) + 1
  OBVIOUS
<1>2. \A k \in 1 .. Len(rs) : Append(rs, r)[k] = rs[k]
  OBVIOUS
<1>3. Append(rs, r)[Len(rs) + 1] = r
  OBVIOUS
<1>4. SubSeq(rs, 1, Len(rs)) = rs
  <2> DEFINE q == SubSeq(rs, 1, Len(rs))
  <2>1. q \in Seq(S) /\ Len(q) = Len(rs) /\ \A k \in 1 .. Len(rs) : q[k] = rs[k]
    BY <1>1
  <2> HIDE DEF q
  <2>2. q = rs
    BY <2>1, SeqEqual
  <2> QED BY <2>2 DEF q
<1>5. SubSeq(Append(rs, r), 1, Len(rs)) = rs
  <2> DEFINE q == SubSeq(Append(rs, r), 1, Len(rs))
  <2>1. q \in Seq(S) /\ Len(q) = Len(rs) /\ \A k \in 1 .. Len(rs) : q[k] = rs[k]
    BY <1>1, <1>2
  <2> HIDE DEF q
  <2>2. q = rs
    BY <2>1, SeqEqual
  <2> QED BY <2>2 DEF q
<1> QED BY <1>1, <1>2, <1>3, <1>4, <1>5

(* The log with one more record, and with a piece of one.                   *)
LEMMA LogFacts ==
  ASSUME NEW t \in Nat, NEW log \in Logs(t), NEW r \in Records(t)
  PROVE  /\ [log EXCEPT !.torn = TRUE].records = log.records
         /\ [log EXCEPT !.torn = TRUE] \in Logs(t)
         /\ [log EXCEPT !.records = Append(@, r)].records = Append(log.records, r)
         /\ [log EXCEPT !.records = Append(@, r)].torn = log.torn
         /\ [log EXCEPT !.records = Append(@, r)] \in Logs(t)
<1>1. log.records \in Seq(Records(t))
  BY DEF Logs
<1>2. Append(log.records, r) \in Seq(Records(t))
  <2> DEFINE rs == log.records
  <2> HIDE DEF rs
  <2>1. rs \in Seq(Records(t))
    BY <1>1 DEF rs
  <2>2. Append(rs, r) \in Seq(Records(t))
    BY <2>1
  <2> QED BY <2>2 DEF rs
<1>3. TRUE \in BOOLEAN
  OBVIOUS
<1>4. [log EXCEPT !.torn = TRUE] \in Logs(t) /\ [log EXCEPT !.torn = TRUE].records = log.records
  BY <1>3 DEF Logs
<1> DEFINE q == Append(log.records, r)
<1> HIDE DEF q
<1>5. /\ [log EXCEPT !.records = q] \in Logs(t)
      /\ [log EXCEPT !.records = q].records = q /\ [log EXCEPT !.records = q].torn = log.torn
  BY <1>2 DEF Logs, q
<1> QED BY <1>4, <1>5 DEF q

(* The record that is appended leads to the image it was taken for.         *)
LEMMA AppendStep ==
  ASSUME WellTyped, AtLabel, Kept, WindowIsSum, appendFile
  PROVE  IInv'
<1>1. /\ pc = "append" /\ ready /\ task # "start" /\ Best # NoCheckpoint
      /\ Found.valid /\ files.wal.torn = FALSE /\ Found.sequence = sequence_
      /\ image \in candidates /\ image = applyPatch(Found.image, pending)
      /\ LogRecord \in Records(now) /\ LogRecord.patch = pending
      /\ LogRecord.generation = Best.generation /\ LogRecord.sequence = sequence_ + 1
      /\ Settled /\ Recoverable /\ Found.image \in candidates
  BY BeforeAppend DEF appendFile, Underway
<1> DEFINE rs   == files.wal.records
           r    == LogRecord
           torn == [files.wal EXCEPT !.torn = TRUE]
           new  == [files.wal EXCEPT !.records = Append(@, LogRecord)]
<1>2. /\ now \in Nat /\ files.slot \in Pairs(now) /\ files.wal \in Logs(now)
      /\ rs \in Seq(Records(now)) /\ r \in Records(now)
  BY <1>1, Types
<1>3. /\ torn.records = rs /\ torn \in Logs(now) /\ new.records = Append(rs, r)
      /\ new.torn = FALSE /\ new \in Logs(now)
  <2> DEFINE w == files.wal
  <2>1. w \in Logs(now) /\ r \in Records(now) /\ now \in Nat /\ w.torn = FALSE
    BY <1>1, <1>2
  <2> HIDE DEF w, r
  <2>2. /\ [w EXCEPT !.torn = TRUE].records = w.records
        /\ [w EXCEPT !.torn = TRUE] \in Logs(now)
        /\ [w EXCEPT !.records = Append(@, r)].records = Append(w.records, r)
        /\ [w EXCEPT !.records = Append(@, r)].torn = w.torn
        /\ [w EXCEPT !.records = Append(@, r)] \in Logs(now)
    BY <2>1, LogFacts
  <2> QED BY <2>1, <2>2 DEF w, r
<1> HIDE DEF r, torn, new
<1>4. /\ SubSeq(rs, 1, Len(rs)) = rs /\ SubSeq(Append(rs, r), 1, Len(rs)) = rs
      /\ Len(Append(rs, r)) = Len(rs) + 1 /\ Len(rs) \in Nat
      /\ \A k \in 1 .. Len(rs) + 1 : Append(rs, r)[k] = IF k = Len(rs) + 1 THEN r ELSE rs[k]
  <2> HIDE DEF rs
  <2> QED BY <1>2, SubSeqFacts
<1>5. \A k \in 1 .. Len(rs) : rs[k].generation <= Best.generation
  BY <1>1 DEF Settled, NoNewer
<1>6. Replay(files.slot, torn) = Found
  BY <1>3, ReplayRecords DEF Found
<1>7. /\ Replay(files.slot, new).valid /\ Replay(files.slot, new).sequence = sequence_ + 1
      /\ Replay(files.slot, new).image = image
  <2>1. Newest(files.slot) # NoCheckpoint /\ Replay(files.slot, files.wal).valid
        /\ r.generation = Newest(files.slot).generation
        /\ r.sequence = Replay(files.slot, files.wal).sequence + 1
        /\ new.records = Append(files.wal.records, r)
    BY <1>1, <1>3 DEF Best, Found, r
  <2>2. /\ Replay(files.slot, new).valid
        /\ Replay(files.slot, new).sequence = Replay(files.slot, files.wal).sequence + 1
        /\ Replay(files.slot, new).image = applyPatch(Replay(files.slot, files.wal).image, r.patch)
    <3> DEFINE w == files.wal
               p == files.slot
    <3>1. /\ now \in Nat /\ p \in Pairs(now) /\ w \in Logs(now) /\ new \in Logs(now)
          /\ r \in Records(now) /\ Newest(p) # NoCheckpoint /\ Replay(p, w).valid
          /\ r.generation = Newest(p).generation /\ r.sequence = Replay(p, w).sequence + 1
          /\ new.records = Append(w.records, r)
      BY <1>2, <1>3, <2>1
    <3> HIDE DEF w, p, rs
    <3>2. /\ Replay(p, new).valid /\ Replay(p, new).sequence = Replay(p, w).sequence + 1
          /\ Replay(p, new).image = applyPatch(Replay(p, w).image, r.patch)
      BY <3>1, ReplayAppend
    <3> QED BY <3>2 DEF w, p
  <2> QED BY <1>1, <2>2 DEF Found, r
<1>8. \A k \in 1 .. Len(torn.records) : torn.records[k].generation <= Best.generation
  BY <1>3, <1>5
<1>9. \A k \in 1 .. Len(new.records) : new.records[k].generation <= Best.generation
  <2>1. Best.generation \in Nat
    BY FoundFacts
  <2> QED BY <1>1, <1>3, <1>4, <1>5, <2>1 DEF r
<1>10. CASE Close /\ UNCHANGED <<files, disk, candidates, acked>>
  BY <1>1, <1>10, CloseStep
<1>11. CASE /\ cut' = Len(rs) /\ UNCHANGED <<memory, store, pending, task, image, version, last>>
            /\ SetLog(new, {torn}) /\ pc' = "appendsync" /\ UNCHANGED history
  <2>1. UNCHANGED <<candidates, acked>> /\ now' = now
    BY <1>11 DEF history, memory
  <2>2. \A l \in {new} \cup {torn} : Replay(files.slot, l).image \in candidates
    BY <1>1, <1>6, <1>7
  <2>3. \A l \in {new} \cup {torn} : \A k \in 1 .. Len(l.records) :
          l.records[k].generation <= Best.generation
    BY <1>8, <1>9
  <2>4. /\ files'.slot = files.slot /\ files'.wal = new /\ Best' = Best
        /\ Found' = Replay(files.slot, new) /\ Settled' /\ Recoverable' /\ FileTypes'
    <3>1. {torn} \in SUBSET Logs(now) /\ SetLog(new, {torn})
      BY <1>3, <1>11
    <3> QED BY <1>1, <1>3, <2>1, <2>2, <2>3, <3>1, LogSet
  <2>5. Len(files'.wal.records) >= cut' /\ SubSeq(files'.wal.records, 1, cut') = files.wal.records
    BY <1>3, <1>4, <1>11, <2>4
  <2>6. /\ Found'.valid /\ ~ files'.wal.torn /\ Found'.sequence = sequence_ + 1
        /\ Found'.image = image
    BY <1>3, <1>7, <2>4
  <2> QED BY <1>1, <1>11, <2>1, <2>4, <2>5, <2>6, Appended
<1>12. CASE /\ cut' = Len(rs) /\ UNCHANGED <<memory, store, pending, task, image, version, last>>
            /\ Fault({}) /\ SetLog(torn, {}) /\ pc' = "rollback"
  <2>1. UNCHANGED <<candidates, acked>> /\ now' = now
    BY <1>12 DEF Fault, memory
  <2>2. \A l \in {torn} \cup {} : Replay(files.slot, l).image \in candidates
    BY <1>1, <1>6
  <2>3. \A l \in {torn} \cup {} : \A k \in 1 .. Len(l.records) :
          l.records[k].generation <= Best.generation
    BY <1>8
  <2>4. /\ files'.slot = files.slot /\ files'.wal = torn /\ Best' = Best
        /\ Settled' /\ Recoverable' /\ FileTypes'
    <3>1. {} \in SUBSET Logs(now) /\ SetLog(torn, {})
      BY <1>12
    <3> QED BY <1>1, <1>3, <2>1, <2>2, <2>3, <3>1, LogSet
  <2>5. Len(files'.wal.records) >= cut' /\ SubSeq(files'.wal.records, 1, cut') = files.wal.records
    BY <1>3, <1>4, <1>12, <2>4
  <2> QED BY <1>1, <1>12, <2>1, <2>4, <2>5, Appended
<1>13. appendFile => \/ Close /\ UNCHANGED <<files, disk, candidates, acked>>
                     \/ /\ cut' = Len(rs)
                        /\ UNCHANGED <<memory, store, pending, task, image, version, last>>
                        /\ SetLog(new, {torn}) /\ pc' = "appendsync" /\ UNCHANGED history
                     \/ /\ cut' = Len(rs)
                        /\ UNCHANGED <<memory, store, pending, task, image, version, last>>
                        /\ Fault({}) /\ SetLog(torn, {}) /\ pc' = "rollback"
  BY DEF appendFile, new, torn, history, Fault
<1> QED BY <1>10, <1>11, <1>12, <1>13

(* An append that is written back is reported.                              *)
LEMMA SyncAppendedStep ==
  ASSUME WellTyped, AtLabel, Kept, WindowIsSum, syncAppended
  PROVE  IInv'
<1>1. /\ pc = "appendsync" /\ ready /\ task \in Writing /\ task # "start" /\ generation_ # 0
      /\ generation_ = Best.generation /\ Settled /\ Recoverable /\ Underway
      /\ Found.valid /\ ~ files.wal.torn /\ Found.sequence = sequence_ + 1 /\ Found.image = image
      /\ (last => stopping)
  BY Quiet DEF syncAppended, Kept, AtLabel, Appending, Numbered, Survives, Writing
<1>2. /\ image \in Images(now) /\ image # NoImage /\ LifetimeOf(image) = image.lifetime
      /\ image.lifetime \in Nat /\ acked \in Nat /\ now \in Nat /\ image \in candidates
      /\ LifetimeOf(image) >= acked
  <2>1. image \in Images(now) /\ now \in Nat /\ image \in candidates
    BY <1>1, Types DEF Underway, WellTyped
  <2> QED BY <2>1, LifetimeFacts, ImageFacts DEF WellTyped, Kept, Survives
<1>3. CASE Fault({}) /\ Go("rollback") /\ UNCHANGED <<files, disk>>
  <2>1. /\ pc' = "rollback" /\ core' = core /\ now' = now /\ stopping' = stopping
        /\ ready' = ready /\ generation_' = generation_ /\ sequence_' = sequence_
        /\ pending' = pending /\ task' = task /\ image' = image /\ version' = version
        /\ cut' = cut /\ last' = last /\ candidates' = candidates
        /\ acked' = acked /\ files' = files /\ disk' = disk
    BY <1>3 DEF Go, memory, store, locals, Fault
  <2>2. WellTyped'
    BY <2>1 DEF WellTyped, FileTypes
  <2>3. AtLabel' /\ WindowIsSum'
    BY <1>1, <2>1 DEF AtLabel, Labels, WindowIsSum, Serving, Running
  <2>4. OnDisk' /\ Replacing'
    <3>1. Settled'
      BY <1>1, <2>1 DEF Settled, NoNewer, Best
    <3> QED BY <2>1, <3>1, QuietAfter
  <2>5. Numbered' /\ Tidy' /\ Repaired' /\ Cut' /\ Checkpointing'
    BY <1>1, <2>1 DEF Numbered, Tidy, Repaired, Cut, Checkpointing, Best
  <2>6. Appending'
    BY <1>1, <2>1 DEF Kept, Appending, Shortened
  <2>7. Resting' /\ ShutdownWrites'
    BY <2>1 DEF Resting, ShutdownWrites
  <2>8. Survives'
    BY <1>1, <2>1 DEF Kept, Survives, Recoverable, Serving, Running
  <2> QED BY <2>2, <2>3, <2>4, <2>5, <2>6, <2>7, <2>8 DEF IInv, Kept
<1>4. CASE /\ SyncLog /\ Written
           /\ sequence_' = sequence_ + 1 /\ pending' = NoPatch
           /\ \/ pc' = "image" /\ task' = "compact"
              \/ pc' = "end" /\ UNCHANGED task
           /\ UNCHANGED <<memory, ready, generation_, image, version, cut, last>>
  <2>1. /\ core' = core /\ now' = now /\ stopping' = stopping /\ ready' = ready
        /\ generation_' = generation_ /\ image' = image /\ version' = version /\ cut' = cut
        /\ last' = last /\ candidates' = {image} /\ task' \in Writing /\ pc' \in {"image", "end"}
        /\ sequence_' = sequence_ + 1 /\ pending' = NoPatch
    BY <1>1, <1>4 DEF memory, Written, Writing
  <2>2. acked' = image.lifetime
    BY <1>2, <1>4 DEF Written
  <2>3. /\ files' = files /\ disk'.slot = disk.slot /\ disk'.wal = {files.wal}
        /\ disk'.late = disk.late /\ Best' = Best /\ Found' = Found /\ Settled' /\ FileTypes'
    BY <1>1, <1>4, <2>1, LogSynced
  <2>4. image.lifetime <= core.lifetime /\ core.lifetime \in Nat /\ Unmarked(image, core)
        /\ (last => image.lifetime = core.lifetime)
    BY <1>1, Types DEF Underway
  <2>5. WellTyped'
    BY <1>2, <2>1, <2>2, <2>3 DEF WellTyped
  <2>6. AtLabel' /\ WindowIsSum'
    BY <1>1, <2>1 DEF AtLabel, Labels, Writing, WindowIsSum, Serving, Running
  <2>7. OnDisk' /\ Replacing'
    BY <2>1, <2>3, QuietAfter
  <2>8. Numbered' /\ Tidy' /\ Repaired' /\ Cut' /\ Checkpointing'
    BY <1>1, <2>1, <2>3 DEF Numbered, Tidy, Repaired, Cut, Checkpointing
  <2>9. Resting' /\ Appending'
    BY <1>1, <2>1, <2>3, <2>4 DEF Resting, Appending
  <2>10. ShutdownWrites'
    BY <2>1, <2>2, <2>4 DEF ShutdownWrites
  <2>11. Recoverable'
    <3>1. ASSUME NEW log \in disk'.wal PROVE Replay(files.slot, log).image = image
      BY <1>1, <2>3 DEF Found
    <3>2. ASSUME disk'.late = {}, NEW a \in disk'.slot["a"], NEW b \in disk'.slot["b"]
          PROVE  Combined(a, b) = files.slot
      BY <1>1, <2>3, <3>2, OnlyTheLog DEF Settled
    <3> QED BY <2>1, <2>3, <3>1, <3>2 DEF Recoverable
  <2>12. Survives'
    BY <1>2, <2>1, <2>2, <2>4, <2>11 DEF Survives
  <2> QED BY <2>5, <2>6, <2>7, <2>8, <2>9, <2>10, <2>12 DEF IInv, Kept
<1> QED BY <1>3, <1>4 DEF syncAppended

(* A log that is set has its type.                                          *)
LEMMA LogTypes ==
  ASSUME WellTyped, NEW log \in Logs(now), SetLog(log, {}), now' = now
  PROVE  FileTypes'
<1>1. files' = [files EXCEPT !.wal = log] /\ disk' = [disk EXCEPT !.wal = @ \cup {log} \cup {}]
  BY DEF SetLog
<1>2. disk'.slot = disk.slot
  BY <1>1, Types
<1>3. files' \in [slot : Pairs(now), wal : Logs(now)]
  BY <1>1 DEF WellTyped, FileTypes
<1>4. disk' \in [slot : [Names -> SUBSET Checkpoints(now)], wal : SUBSET Logs(now),
                 late : SUBSET Names]
  BY <1>1 DEF WellTyped, FileTypes
<1> QED BY <1>2, <1>3, <1>4 DEF WellTyped, FileTypes

(* The roll-back of an append leaves the log of before, or a torn one.      *)
LEMMA RollbackStep ==
  ASSUME WellTyped, AtLabel, Kept, WindowIsSum, rollback
  PROVE  IInv'
<1>1. /\ pc = "rollback" /\ task # "start" /\ Settled /\ Recoverable /\ Survives
      /\ cut <= Len(files.wal.records) /\ Replay(files.slot, Shortened).image \in candidates
  BY Quiet DEF rollback, Kept, AtLabel, Appending, Survives, Writing
<1>2. /\ Fail(image) /\ generation_' = generation_ /\ sequence_' = sequence_ /\ cut' = cut
      /\ candidates' = candidates /\ acked' = acked
  BY DEF rollback, Close
<1>3. image \in Images(now) \cup {NoImage} /\ generation_ \in Nat /\ sequence_ \in Nat /\ cut \in Nat
  BY DEF WellTyped
<1>4. now' = now
  BY <1>1, <1>2, <1>3, Failed
<1>5. CASE SetLog(Shortened, {})
  <2> DEFINE log == Shortened
  <2>1. /\ log \in Logs(now) /\ Replay(files.slot, log).image \in candidates
        /\ \A k \in 1 .. Len(log.records) : log.records[k].generation <= Best.generation
    BY <1>1, ShortenedFacts
  <2>2. SetLog(log, {}) /\ {log} \cup {} = {log} /\ {} \in SUBSET Logs(now)
    BY <1>5
  <2> HIDE DEF log
  <2>3. Settled' /\ Recoverable' /\ FileTypes'
    BY <1>1, <1>2, <1>4, <2>1, <2>2, LogSet
  <2> QED BY <1>1, <1>2, <1>3, <2>3, Closed
<1>6. CASE SetLog(EmptyLog, {}) /\ excused' = excused \cup {"read"}
  <2>1. EmptyLog \in Logs(now)
    BY DEF EmptyLog, Logs
  <2>2. FileTypes'
    BY <1>4, <1>6, <2>1, LogTypes
  <2>3. excused' # {}
    BY <1>6
  <2> QED BY <1>1, <1>2, <1>3, <2>2, <2>3, Closed
<1>7. CASE UNCHANGED <<files, disk, excused>>
  BY <1>1, <1>2, <1>3, <1>7, ClosedOnly
<1> QED BY <1>5, <1>6, <1>7 DEF rollback, Shortened

-----------------------------------------------------------------------------
(* Before the first start there is nothing.                                 *)
LEMMA InitKept == Init => IInv
<1> SUFFICES ASSUME Init PROVE IInv
  OBVIOUS
<1>1. /\ core = startEmpty(kMinuteBucketCount) /\ now = kMinuteBucketCount
      /\ stopping = FALSE /\ ready = FALSE /\ generation_ = 0 /\ sequence_ = 0
      /\ pending = NoPatch /\ pc = "down" /\ task = "start" /\ image = NoImage
      /\ version = 0 /\ cut = 0 /\ last = FALSE /\ candidates = {NoImage} /\ acked = 0
      /\ files.slot = [n \in Names |-> NoCheckpoint] /\ files.wal = EmptyLog
      /\ disk.slot = [n \in Names |-> {NoCheckpoint}] /\ disk.wal = {EmptyLog}
      /\ files = [slot |-> [n \in Names |-> NoCheckpoint], wal |-> EmptyLog]
      /\ disk = [slot |-> [n \in Names |-> {NoCheckpoint}], wal |-> {EmptyLog}, late |-> {}]
  BY DEF Init
<1>2. now \in Nat
  BY <1>1, RingAssumption
<1>3. NoCheckpoint \in Checkpoints(now) /\ NoCheckpoint.generation = 0
      /\ EmptyLog \in Logs(now) /\ EmptyLog.records = << >>
  BY DEF Checkpoints, NoCheckpoint, Logs, EmptyLog
<1>4. FileTypes
  <2>1. files.slot \in Pairs(now)
    BY <1>1, <1>3 DEF Pairs
  <2>2. files \in [slot : Pairs(now), wal : Logs(now)]
    BY <1>1, <1>3, <2>1
  <2>3. disk \in [slot : [Names -> SUBSET Checkpoints(now)], wal : SUBSET Logs(now),
                  late : SUBSET Names]
    BY <1>1, <1>3
  <2>4. \A m \in Names : \A c \in disk.slot[m] : c.generation # 0 => NameOf(c.generation) = m
    BY <1>1, <1>3
  <2> QED BY <2>2, <2>3, <2>4 DEF FileTypes
<1>5. WellTyped
  <2>1. core \in Cores(now) /\ now >= kMinuteBucketCount
    BY <1>1, <1>2, StartEmptyFacts, RingAssumption
  <2>2. ready \in BOOLEAN /\ stopping \in BOOLEAN /\ last \in BOOLEAN
    BY <1>1, Zenon
  <2> QED BY <1>1, <1>2, <1>4, <2>1, <2>2 DEF WellTyped
<1>6. AtLabel /\ WindowIsSum
  BY <1>1 DEF AtLabel, Labels, WindowIsSum, Serving, Running
<1>7. \A m \in Names : disk.slot[m] = {files.slot[m]} /\ files.slot[m] = NoCheckpoint
  BY <1>1
<1>8. OnDisk /\ Replacing
  BY <1>1, <1>3, <1>7 DEF OnDisk, Replacing, NoNewer
<1>9. Numbered /\ Tidy /\ Repaired /\ Cut /\ Checkpointing
  BY <1>1 DEF Numbered, Tidy, Repaired, Cut, Checkpointing
<1>10. Resting /\ Appending /\ ShutdownWrites
  BY <1>1 DEF Resting, Appending, ShutdownWrites
<1>11. Survives
  <2>1. Best = NoCheckpoint
    <3>1. files.slot \in Pairs(now)
      BY <1>4 DEF FileTypes
    <3> QED BY <1>2, <1>7, <3>1, NewestFacts DEF Best
  <2>2. Found.image = NoImage
    BY <1>5, <1>3, <2>1, FoundFacts
  <2>3. Recoverable
    <3>1. ASSUME NEW log \in disk.wal PROVE Replay(files.slot, log).image \in candidates
      BY <1>1, <2>2 DEF Found
    <3>2. ASSUME NEW a \in disk.slot["a"], NEW b \in disk.slot["b"]
          PROVE  Combined(a, b) = files.slot
      BY <1>5, <1>7, OnlyTheLog
    <3> QED BY <3>1, <3>2 DEF Recoverable
  <2> QED BY <1>1, <2>3 DEF Survives, LifetimeOf, Serving, Running
<1> QED BY <1>5, <1>6, <1>8, <1>9, <1>10, <1>11 DEF IInv, Kept

(* Every step keeps the invariant, up to the first loss that the code does  *)
(* not prevent.                                                             *)
LEMMA StepKept == IInv /\ [Next]_vars => IInv'
<1> SUFFICES ASSUME IInv, [Next]_vars PROVE IInv'
  OBVIOUS
<1>1. WellTyped /\ AtLabel /\ WindowIsSum /\ (excused = {} => Kept)
  BY DEF IInv
<1>2. CASE Next
  <2>1. Kept
    BY <1>1, <1>2 DEF Next
  <2> USE <1>1, <2>1
  <2>2. CASE recordSubscriptionConversion \/ dashboardData \/ shutdown
    BY <2>2, RecordStep, DashboardStep, ShutdownStep
  <2>3. CASE initialize \/ Kill \/ PowerFailure
    BY <2>3, InitializeStep, KillStep, PowerFailureStep
  <2>4. CASE Thread
    <3>1. CASE Wake \/ EndCycle \/ open \/ load
      BY <3>1, WakeStep, EndCycleStep, OpenStep, LoadStep
    <3>2. CASE checkpointImage \/ replaceFile \/ syncReplaced \/ inspectCheckpoint
      BY <3>2, CheckpointImageStep, ReplaceStep, SyncReplacedStep, InspectStep
    <3>3. CASE truncateWalTo \/ syncLog \/ syncLogDirectory \/ acknowledge
      BY <3>3, TruncateStep, SyncLogStep, SyncLogDirectoryStep, AcknowledgeStep
    <3>4. CASE takeDirtyPatch \/ appendFile \/ syncAppended \/ rollback
      BY <3>4, TakeStep, AppendStep, SyncAppendedStep, RollbackStep
    <3> QED BY <2>4, <3>1, <3>2, <3>3, <3>4 DEF Thread
  <2> QED BY <1>2, <2>2, <2>3, <2>4 DEF Next
<1>3. CASE UNCHANGED vars
  <2>1. UNCHANGED <<core, now, stopping, files, disk, ready, generation_, sequence_, pending, pc,
                    task, image, version, cut, last, faults, starts, excused, candidates, acked>>
    BY <1>3 DEF vars, memory, store, locals, history
  <2>2. WellTyped' /\ AtLabel' /\ WindowIsSum'
    BY <1>1, <2>1 DEF WellTyped, FileTypes, AtLabel, WindowIsSum, Serving, Running
  <2>3. Kept => Kept'
    <3>1. Found' = Found /\ Best' = Best
      BY <2>1 DEF Found, Best
    <3>2. OnDisk /\ Replacing /\ Numbered /\ Tidy => (OnDisk /\ Replacing /\ Numbered /\ Tidy)'
      BY <2>1, <3>1 DEF OnDisk, NoNewer, Replacing, NextCheckpoint, Numbered, Tidy
    <3>3. Repaired /\ Checkpointing /\ Cut => (Repaired /\ Checkpointing /\ Cut)'
      BY <2>1, <3>1 DEF Repaired, Repairing, Checkpointing, Underway, Cut
    <3>4. Resting /\ Appending => (Resting /\ Appending)'
      BY <2>1, <3>1 DEF Resting, Appending, Underway, Shortened
    <3>5. Survives /\ ShutdownWrites => (Survives /\ ShutdownWrites)'
      BY <2>1 DEF Survives, Recoverable, Serving, Running, ShutdownWrites
    <3> QED BY <3>2, <3>3, <3>4, <3>5 DEF Kept
  <2> QED BY <1>1, <2>1, <2>2, <2>3 DEF IInv
<1> QED BY <1>2, <1>3

(* The invariant implies NothingLost ...                                    *)
LEMMA Nothing ==
  ASSUME IInv
  PROVE  NothingLost
<1> SUFFICES ASSUME excused = {}, NEW f \in Findable
             PROVE  /\ Replay(f.slot, f.wal).image \in candidates
                    /\ LifetimeOf(Replay(f.slot, f.wal).image) >= acked
  BY DEF NothingLost
<1>1. WellTyped /\ OnDisk /\ Survives
  BY DEF IInv, Kept
<1>2. CASE \E log \in disk.wal : f = [slot |-> files.slot, wal |-> log]
  <2>1. PICK log \in disk.wal : f = [slot |-> files.slot, wal |-> log]
    BY <1>2
  <2>2. Replay(f.slot, f.wal).image \in candidates
    BY <1>1, <2>1 DEF Survives, Recoverable
  <2> QED BY <1>1, <2>2 DEF Survives
<1>3. CASE disk.late = {} /\ \E a \in disk.slot["a"], b \in disk.slot["b"], log \in disk.wal :
             f = [slot |-> Combined(a, b), wal |-> log]
  <2>1. PICK a \in disk.slot["a"], b \in disk.slot["b"], log \in disk.wal :
             f = [slot |-> Combined(a, b), wal |-> log]
    BY <1>3
  <2>2. f.slot = Combined(a, b) /\ f.wal = log
    BY <2>1
  <2>3. Replay(Combined(a, b), log).image \in candidates
    BY <1>1, <1>3 DEF Survives, Recoverable
  <2> QED BY <1>1, <2>2, <2>3 DEF Survives
<1> QED BY <1>2, <1>3 DEF Findable, Combined

(* ... and UnmarkedIsWritten ...                                            *)
LEMMA UnmarkedWritten ==
  ASSUME IInv
  PROVE  UnmarkedIsWritten
<1> SUFFICES ASSUME pc = "wait", ready, generation_ # 0, excused = {}
             PROVE  /\ Found.valid /\ ~ files.wal.torn /\ pending = NoPatch
                    /\ Found.generation = generation_ /\ Found.sequence = sequence_
                    /\ \A i \in Slots \ core.dirty : Found.image.minutes[i] = minuteRecord(core, i)
                    /\ ~ core.runtime_dirty_ => Found.image.lifetime = core.lifetime
  BY DEF UnmarkedIsWritten, Found
<1>1. WellTyped /\ Kept
  BY DEF IInv
<1>2. Found.valid /\ ~ files.wal.torn /\ Found.sequence = sequence_ /\ generation_ = Best.generation
  BY <1>1 DEF Kept, Tidy, Numbered
<1>3. Unmarked(Found.image, core) /\ pending = NoPatch
  BY <1>1 DEF Kept, Resting
<1> QED BY <1>1, <1>2, <1>3, FoundFacts DEF Unmarked

(* ... and so all four properties.                                          *)
LEMMA Implied ==
  IInv => NothingLost /\ UnmarkedIsWritten /\ WindowIsSum /\ ShutdownWrites
  BY Nothing, UnmarkedWritten DEF IInv, Kept, ShutdownWrites

(* The files, the thread and the counters fit together in every state.      *)
THEOREM StoreInvHolds == Spec => []IInv
  BY InitKept, StepKept, PTL DEF Spec

(* The next start finds the counters of the last write that was reported as *)
(* done or of one that was under way, whichever operation was killed,       *)
(* failed or lost power, and also when the process was killed between the   *)
(* rename of a checkpoint and the fsync of its directory: the order of      *)
(* writeCheckpoint(), the generations and the sequence numbers of the log   *)
(* and the repair in load() are enough. The two exceptions of NothingLost   *)
(* remain: a power failure that undoes such a late rename, and a start that *)
(* could not read the files.                                                *)
THEOREM StorePersists == Spec => []NothingLost
  BY StoreInvHolds, Implied, PTL

(* Between two cycles the files agree with the Store, and with memory       *)
(* wherever nothing is marked: takeDirtyPatch() and acknowledgeCheckpoint() *)
(* never remove a mark too early.                                           *)
THEOREM UnmarkedStaysWritten == Spec => []UnmarkedIsWritten
  BY StoreInvHolds, Implied, PTL

(* advanceMinutes(), record() and rebuildAggregates() keep the window equal *)
(* to the sum of the buckets it covers, for every size of ring and window,  *)
(* while the clock goes forward, by any step, and across restarts.          *)
THEOREM WindowStaysExact == Spec => []WindowIsSum
  BY StoreInvHolds, Implied, PTL

(* The last cycle of persistenceWorker() with a working store has written   *)
(* all that was counted.                                                    *)
THEOREM OrderlyShutdownWrites == Spec => []ShutdownWrites
  BY StoreInvHolds, Implied, PTL

-----------------------------------------------------------------------------
(* The short links.                                                         *)

IsStore(s) == \A c \in DOMAIN s : s[c] \in Record

(* What was confirmed is also in memory, so that the next save keeps it.    *)
ConfirmedLoaded ==
  loaded /\ ~ misread =>
    \A c \in DOMAIN told : c \in DOMAIN records /\ records[c].url = told[c]

Wellformed ==
  /\ IsStore(records) /\ IsStore(file)
  /\ loaded \in BOOLEAN /\ misread \in BOOLEAN
  /\ ~ loaded => records = Empty

LinksInv ==
  /\ Wellformed /\ MemoryIsOnDisk /\ ConfirmedSurvives /\ ConfirmedLoaded
  /\ DeletedStaysDeleted

(* What a call finds in memory after loadLocked(): every link of it is in   *)
(* the file, and unless the file was misread every confirmed link is there. *)
Carried(mem) ==
  /\ IsStore(mem)
  /\ \A c \in DOMAIN mem : c \in DOMAIN file /\ file[c].url = mem[c].url
  /\ ~ misread' => \A c \in DOMAIN told : c \in DOMAIN mem /\ mem[c].url = told[c]
  /\ deleted \cap DOMAIN mem = {}
  /\ loaded' = TRUE /\ misread' \in BOOLEAN /\ (~ misread' => ~ misread)

(* loadLocked() finds this.                                                 *)
LEMMA LoadFinds == ASSUME LinksInv, NEW mem, Load(mem) PROVE Carried(mem)
<1> USE DEF LinksInv, Wellformed, Load, Carried, MemoryIsOnDisk, ConfirmedSurvives,
            ConfirmedLoaded, DeletedStaysDeleted
<1>1. CASE loaded /\ mem = records /\ UNCHANGED misread
  BY <1>1
<1>2. CASE ~ loaded /\ mem = file /\ UNCHANGED misread
  BY <1>2
<1>3. CASE ~ loaded /\ mem = Empty /\ file # Empty /\ misread' = TRUE
  BY <1>3 DEF Empty, IsStore
<1> QED BY <1>1, <1>2, <1>3

(* A call that ends with memory new, and with the file either written or as *)
(* it was, keeps the invariant when new has only what the file will have.   *)
LEMMA CallKeeps ==
  ASSUME LinksInv, NEW mem, Carried(mem), IsStore(records'), IsStore(file'),
         MemoryIsOnDisk', DeletedStaysDeleted',
         ~ misread' => \A c \in DOMAIN told' :
                         /\ c \in DOMAIN records' /\ records'[c].url = told'[c]
  PROVE  LinksInv'
BY DEF LinksInv, Wellformed, Carried, MemoryIsOnDisk, ConfirmedSurvives, ConfirmedLoaded

(* The file at the first start backs itself.                                *)
LEMMA LinksInitKept == LinksInit => LinksInv
<1> SUFFICES ASSUME LinksInit PROVE LinksInv
  OBVIOUS
<1>1. PICK S \in SUBSET Codes, u \in Urls, t \in Times :
        file = [c \in S |-> [url |-> u, retentionTime |-> t]]
  BY DEF LinksInit
<1>2. IsStore(file) /\ IsStore(records)
  BY <1>1 DEF LinksInit, IsStore, Record, Empty
<1>3. MemoryIsOnDisk /\ DeletedStaysDeleted
  BY DEF LinksInit, MemoryIsOnDisk, DeletedStaysDeleted, Empty
<1>4. ConfirmedSurvives /\ ConfirmedLoaded
  BY DEF LinksInit, ConfirmedSurvives, ConfirmedLoaded
<1> QED BY <1>2, <1>3, <1>4 DEF LinksInv, Wellformed, LinksInit

-----------------------------------------------------------------------------
(* Calls that leave the file alone or write all of memory.                 *)

(* Calls that change no link keep the invariant.                            *)
LEMMA LookupStep ==
  ASSUME LinksInv, \/ \E url \in Urls : CreateDuplicate(url) \/ CreateExhausted(url)
               \/ \E c \in Codes : NotFound(c)
  PROVE  LinksInv'
<1>1. PICK mem : /\ Load(mem) /\ records' = mem /\ UNCHANGED <<file, deleted>>
                 /\ \/ UNCHANGED told
                    \/ \E c \in DOMAIN mem : told' = Put(told, c, mem[c].url)
  BY DEF CreateDuplicate, CreateExhausted, NotFound, FindsUrl
<1>2. Carried(mem)
  BY <1>1, LoadFinds
<1>3. MemoryIsOnDisk' /\ DeletedStaysDeleted'
  BY <1>1, <1>2 DEF LinksInv, MemoryIsOnDisk, DeletedStaysDeleted, Carried
<1>4. ASSUME ~ misread', NEW c \in DOMAIN told'
      PROVE  c \in DOMAIN records' /\ records'[c].url = told'[c]
  BY <1>1, <1>2, <1>4 DEF Put, Carried
<1> QED BY <1>1, <1>2, <1>3, <1>4, CallKeeps DEF LinksInv, Wellformed, Carried

(* resolveShortLink() changes an access time only.                          *)
LEMMA ResolveStep ==
  ASSUME LinksInv, NEW c \in Codes, NEW t \in Times, Resolve(c, t) PROVE LinksInv'
<1>1. PICK mem : /\ Load(mem) /\ c \in DOMAIN mem
                 /\ records' = Put(mem, c, [mem[c] EXCEPT !.retentionTime = t])
                 /\ Saved(records') \/ SaveFailed
                 /\ UNCHANGED <<told, deleted>>
  BY DEF Resolve
<1>2. Carried(mem)
  BY <1>1, LoadFinds
<1>3. /\ DOMAIN records' = DOMAIN mem
      /\ \A d \in DOMAIN mem : records'[d] \in Record /\ records'[d].url = mem[d].url
  BY <1>1, <1>2 DEF Put, Carried, IsStore, Record
<1>4. IsStore(records') /\ IsStore(file')
  BY <1>1, <1>3 DEF IsStore, Saved, SaveFailed, LinksInv, Wellformed
<1>5. MemoryIsOnDisk' /\ DeletedStaysDeleted'
  BY <1>1, <1>2, <1>3 DEF LinksInv, MemoryIsOnDisk, DeletedStaysDeleted, Carried, Saved, SaveFailed
<1>6. ASSUME ~ misread', NEW d \in DOMAIN told'
      PROVE  d \in DOMAIN records' /\ records'[d].url = told'[d]
  BY <1>1, <1>2, <1>3, <1>6 DEF Carried
<1> QED BY <1>2, <1>4, <1>5, <1>6, CallKeeps

(* updateShortLink() changes file and memory, or neither.                   *)
LEMMA UpdateStep ==
  ASSUME LinksInv, NEW c \in Codes, NEW url \in Urls, Update(c, url) PROVE LinksInv'
<1>1. PICK mem :
        /\ Load(mem) /\ c \in DOMAIN mem /\ UNCHANGED deleted
        /\ \/ /\ records' = Put(mem, c, [mem[c] EXCEPT !.url = url]) /\ Saved(records')
              /\ told' = Put(told, c, url)
           \/ records' = mem /\ SaveFailed /\ UNCHANGED told
  BY DEF Update
<1>2. Carried(mem)
  BY <1>1, LoadFinds
<1>3. CASE records' = mem /\ SaveFailed /\ UNCHANGED told
  BY <1>1, <1>2, <1>3, CallKeeps
  DEF LinksInv, Wellformed, MemoryIsOnDisk, DeletedStaysDeleted, Carried, SaveFailed
<1>4. CASE /\ records' = Put(mem, c, [mem[c] EXCEPT !.url = url]) /\ Saved(records')
           /\ told' = Put(told, c, url)
  <2>1. /\ DOMAIN records' = DOMAIN mem /\ file' = records'
        /\ \A d \in DOMAIN mem :
             /\ records'[d] \in Record
             /\ records'[d].url = IF d = c THEN url ELSE mem[d].url
    BY <1>1, <1>2, <1>4 DEF Put, Carried, IsStore, Record, Saved
  <2>2. IsStore(records') /\ IsStore(file')
    BY <2>1 DEF IsStore
  <2>3. MemoryIsOnDisk' /\ DeletedStaysDeleted'
    BY <1>1, <1>2, <2>1 DEF MemoryIsOnDisk, DeletedStaysDeleted, Carried
  <2>4. ASSUME ~ misread', NEW d \in DOMAIN told'
        PROVE  d \in DOMAIN records' /\ records'[d].url = told'[d]
    BY <1>1, <1>2, <1>4, <2>1, <2>4 DEF Carried, Put
  <2> QED BY <1>2, <2>2, <2>3, <2>4, CallKeeps
<1> QED BY <1>1, <1>3, <1>4

-----------------------------------------------------------------------------
(* Calls that remove links.                                                *)

(* deleteShortLink() and pruneShortLinks() may leave more in the file than  *)
(* in memory, never less.                                                   *)
LEMMA RemoveStep ==
  ASSUME LinksInv, (\E c \in Codes : Delete(c)) \/ Prune PROVE LinksInv'
<1>1. PICK mem, S :
        /\ Load(mem) /\ records' = Without(mem, S) /\ told' = Without(told, S)
        /\ \/ Saved(records') /\ deleted' \subseteq deleted \cup S
           \/ SaveFailed /\ UNCHANGED deleted
  BY DEF Delete, Prune, Forget
<1>2. Carried(mem)
  BY <1>1, LoadFinds
<1>3. /\ DOMAIN records' = DOMAIN mem \ S
      /\ \A d \in DOMAIN mem \ S : records'[d] = mem[d]
  BY <1>1 DEF Without
<1>4. IsStore(records') /\ IsStore(file')
  BY <1>1, <1>2, <1>3 DEF IsStore, Saved, SaveFailed, LinksInv, Wellformed, Carried
<1>5. MemoryIsOnDisk' /\ DeletedStaysDeleted'
  BY <1>1, <1>2, <1>3 DEF LinksInv, MemoryIsOnDisk, DeletedStaysDeleted, Carried, Saved, SaveFailed
<1>6. ASSUME ~ misread', NEW d \in DOMAIN told'
      PROVE  d \in DOMAIN records' /\ records'[d].url = told'[d]
  BY <1>1, <1>2, <1>3, <1>6 DEF Carried, Without
<1> QED BY <1>2, <1>4, <1>5, <1>6, CallKeeps

(* createShortLink() puts a record into both, or into neither.              *)
LEMMA CreateStep ==
  ASSUME LinksInv, NEW url \in Urls, NEW t \in Times, CreateNew(url, t) PROVE LinksInv'
<1> DEFINE r == [url |-> url, retentionTime |-> t]
<1>0. PICK mem \in {records, file, Empty}, c \in Codes :
        LET gone == Pruned(Put(mem, c, r), max_entries)
            kept == Without(Put(mem, c, r), gone)
        IN /\ Load(mem) /\ c \notin DOMAIN mem
           /\ \/ /\ c \in gone /\ records' = kept
                 /\ UNCHANGED <<file, deleted>> /\ told' = Without(told, gone)
              \/ /\ c \notin gone /\ records' = kept /\ Saved(records')
                 /\ deleted' = deleted \ {c} /\ told' = Put(Without(told, gone), c, url)
              \/ /\ records' = Without(kept, {c}) /\ SaveFailed
                 /\ UNCHANGED deleted /\ told' = Without(told, gone)
  BY Zenon DEF CreateNew, Forget, Saved
<1> DEFINE gone == Pruned(Put(mem, c, r), max_entries)
<1>1. Load(mem) /\ c \notin DOMAIN mem
  BY <1>0
<1>2. Carried(mem)
  BY <1>1, LoadFinds
<1>3. CASE /\ c \notin gone /\ records' = Without(Put(mem, c, r), gone) /\ Saved(records')
           /\ deleted' = deleted \ {c} /\ told' = Put(Without(told, gone), c, url)
  <2>1. /\ DOMAIN records' = (DOMAIN mem \cup {c}) \ gone /\ file' = records'
        /\ \A d \in DOMAIN records' : records'[d] = IF d = c THEN r ELSE mem[d]
    BY <1>3 DEF Put, Without, Saved
  <2>2. IsStore(records') /\ IsStore(file')
    BY <1>1, <1>2, <2>1 DEF IsStore, Carried, Record
  <2>3. MemoryIsOnDisk' /\ DeletedStaysDeleted'
    BY <1>2, <1>3, <2>1 DEF MemoryIsOnDisk, DeletedStaysDeleted, Carried
  <2>4. ASSUME ~ misread', NEW d \in DOMAIN told'
        PROVE  d \in DOMAIN records' /\ records'[d].url = told'[d]
    BY <1>1, <1>2, <1>3, <2>1, <2>4 DEF Carried, Put, Without
  <2> QED BY <1>2, <2>2, <2>3, <2>4, CallKeeps
<1>4. CASE /\ DOMAIN records' = DOMAIN mem \ (gone \cup {c}) /\ UNCHANGED <<file, deleted>>
           /\ \A d \in DOMAIN records' : records'[d] = mem[d]
           /\ told' = Without(told, gone)
  <2>1. IsStore(records') /\ IsStore(file')
    BY <1>2, <1>4 DEF IsStore, Carried, LinksInv, Wellformed
  <2>2. MemoryIsOnDisk' /\ DeletedStaysDeleted'
    BY <1>2, <1>4 DEF LinksInv, MemoryIsOnDisk, DeletedStaysDeleted, Carried
  <2>3. ASSUME ~ misread', NEW d \in DOMAIN told'
        PROVE  d \in DOMAIN records' /\ records'[d].url = told'[d]
    BY <1>1, <1>2, <1>4, <2>3 DEF Carried, Without
  <2> QED BY <1>2, <2>1, <2>2, <2>3, CallKeeps
<1>5. CASE /\ c \in gone /\ records' = Without(Put(mem, c, r), gone)
           /\ UNCHANGED <<file, deleted>> /\ told' = Without(told, gone)
  BY <1>4, <1>5 DEF Put, Without
<1>6. CASE /\ records' = Without(Without(Put(mem, c, r), gone), {c}) /\ SaveFailed
           /\ UNCHANGED deleted /\ told' = Without(told, gone)
  BY <1>4, <1>6 DEF Put, Without, SaveFailed
<1> QED BY <1>0, <1>3, <1>5, <1>6

(* A restart forgets the memory only.                                       *)
LEMMA RestartStep == ASSUME LinksInv, Restart \/ UNCHANGED linksVars PROVE LinksInv'
<1>1. CASE Restart
  BY <1>1 DEF LinksInv, Wellformed, MemoryIsOnDisk, ConfirmedSurvives, ConfirmedLoaded,
     DeletedStaysDeleted, Restart, Empty, IsStore
<1>2. CASE UNCHANGED linksVars
  BY <1>2 DEF LinksInv, Wellformed, MemoryIsOnDisk, ConfirmedSurvives, ConfirmedLoaded,
     DeletedStaysDeleted, linksVars, IsStore
<1> QED BY <1>1, <1>2

(* The file backs the memory and the confirmations in every state.          *)
THEOREM LinksInvHolds == LinksSpec => []LinksInv
<1>1. LinksInv /\ [LinksNext]_linksVars => LinksInv'
  BY LookupStep, ResolveStep, UpdateStep, RemoveStep, CreateStep, RestartStep DEF LinksNext
<1> QED BY <1>1, LinksInitKept, PTL DEF LinksSpec

(* Nothing is answered from memory that a restart would not answer: the     *)
(* rollbacks of createShortLink() and updateShortLink() are enough.         *)
THEOREM MemoryBacked == LinksSpec => []MemoryIsOnDisk
<1>1. LinksInv => MemoryIsOnDisk
  BY DEF LinksInv
<1> QED BY <1>1, LinksInvHolds, PTL

(* A confirmed link that nobody removed is in the file with its target.     *)
THEOREM ConfirmedHolds == LinksSpec => []ConfirmedSurvives
<1>1. LinksInv => ConfirmedSurvives
  BY DEF LinksInv
<1> QED BY <1>1, LinksInvHolds, PTL

(* A deletion that deleteShortLink() reported never comes back.             *)
THEOREM DeletionFinal == LinksSpec => []DeletedStaysDeleted
<1>1. LinksInv => DeletedStaysDeleted
  BY DEF LinksInv
<1> QED BY <1>1, LinksInvHolds, PTL
=============================================================================
