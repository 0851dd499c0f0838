--------------------------- MODULE StatisticsCore ---------------------------
(***************************************************************************)
(* The counters of the usage statistics in memory                          *)
(* (src/src/handler/statistics_v2.cpp, class Core), as operators on a core *)
(* record.  One ring of kMinuteBucketCount buckets and one window over the *)
(* last W of them stand for the rings of minutes and days with their six   *)
(* windows, and one counter stands for the pairs of counters that are kept *)
(* per region.  Buckets are numbered by their stamp, the minute they count.*)
(***************************************************************************)
EXTENDS Integers, FiniteSets, Sequences

CONSTANTS
  kMinuteBucketCount,   \* number of buckets of the ring
  W                     \* a window of kMinuteWindowSizes

ASSUME RingAssumption ==
  /\ kMinuteBucketCount \in Nat /\ W \in 2 .. kMinuteBucketCount

Slots    == 0 .. kMinuteBucketCount - 1
Slot(t)  == t % kMinuteBucketCount
NoBucket == [stamp |-> 0, n |-> 0]
NoImage  == [lifetime |-> -1, minutes |-> [i \in Slots |-> NoBucket]]
NoPatch  == [lifetime |-> -1, minutes |-> [i \in {} |-> NoBucket]]

(* A bucket without counts is stored as no bucket.                          *)
Stored(b) == IF b.n = 0 THEN NoBucket ELSE b

minuteRecord(core, i) ==
  IF i = Slot(core.current.stamp) THEN Stored(core.current) ELSE core.minutes[i]

hasDirty(core) == core.runtime_dirty_ \/ core.dirty # {}

-----------------------------------------------------------------------------
(* Time.                                                                    *)

sealMinute(core) ==
  [core EXCEPT !.minutes[Slot(core.current.stamp)] = Stored(core.current),
               !.dirty = @ \cup {Slot(core.current.stamp)}]

(* The bucket that leaves the window when the next minute begins.           *)
Expired(core) ==
  LET old == core.minutes[Slot(core.current.stamp + 1 - W)] IN
  IF old.stamp = core.current.stamp + 1 - W THEN old.n ELSE 0

subtract(a, b) == IF b >= a THEN 0 ELSE a - b

(* Fault: the window keeps the minute that leaves it.                       *)
NextMinute_Kept(core) ==
  LET next == core.current.stamp + 1 IN
  [sealMinute(core) EXCEPT !.current = [stamp |-> next, n |-> 0],
                           !.dirty = @ \cup {Slot(next)}]

NextMinute(core) ==
  LET next == core.current.stamp + 1 IN
  [sealMinute(core) EXCEPT !.window = subtract(@, Expired(core)),
                           !.current = [stamp |-> next, n |-> 0],
                           !.dirty = @ \cup {Slot(next)}]

(* A jump of a whole ring or more forgets every bucket.                     *)
SkipTo(core, t) ==
  [core EXCEPT !.minutes = [i \in Slots |-> NoBucket], !.window = 0,
               !.current = [stamp |-> t, n |-> 0], !.dirty = Slots]

(* The core after each of the next n minutes.                               *)
Minutes(core, n) ==
  LET after[k \in 0 .. n] == IF k = 0 THEN core ELSE NextMinute(after[k - 1]) IN after

advanceMinutes(core, t) ==
  LET delta == t - core.current.stamp IN
  IF delta >= kMinuteBucketCount THEN SkipTo(core, t) ELSE Minutes(core, delta)[delta]

(* A clock that was set back does not move the buckets.                     *)
advanceTo(core, t) ==
  IF t <= core.current.stamp THEN core
  ELSE [advanceMinutes(core, t) EXCEPT !.dirty_version_ = @ + 1]

-----------------------------------------------------------------------------
(* Counting, and what goes to the disk.                                     *)

record(core, t) ==
  LET c == advanceTo(core, t) IN
  [c EXCEPT !.lifetime = @ + 1, !.current.n = @ + 1, !.window = @ + 1,
            !.dirty = @ \cup {Slot(c.current.stamp)}, !.runtime_dirty_ = TRUE,
            !.dirty_version_ = @ + 1]

persistentImage(core) ==
  [lifetime |-> core.lifetime, minutes |-> [i \in Slots |-> minuteRecord(core, i)]]

(* The part of the image that is marked; without marks, a heartbeat.        *)
runtimePatch(core) == [NoPatch EXCEPT !.lifetime = core.lifetime]

DirtyPatch(core) ==
  [lifetime |-> core.lifetime,
   minutes  |-> [i \in core.dirty |-> minuteRecord(core, i)]]

Clean(core) == [core EXCEPT !.dirty = {}, !.runtime_dirty_ = FALSE]

(* Marks that were set while a checkpoint was written stay.                 *)
acknowledgeCheckpoint(core, version) ==
  IF version # core.dirty_version_ THEN core ELSE Clean(core)

applyPatch(image, patch) ==
  [lifetime |-> patch.lifetime,
   minutes  |-> [i \in Slots |-> IF i \in DOMAIN patch.minutes
                                 THEN patch.minutes[i] ELSE image.minutes[i]]]

-----------------------------------------------------------------------------
(* Starting.                                                                *)

startEmpty(t) ==
  [lifetime |-> 0, minutes |-> [i \in Slots |-> NoBucket],
   current |-> [stamp |-> t, n |-> 0], window |-> 0,
   dirty |-> {}, runtime_dirty_ |-> TRUE, dirty_version_ |-> 1]

(* The bucket with the latest stamp becomes the current one.                *)
activateLatestBuckets(image, t) ==
  LET used == {i \in Slots : image.minutes[i].n # 0} IN
  IF used = {} THEN startEmpty(t)
  ELSE LET latest == CHOOSE i \in used :
                       \A j \in used : image.minutes[j].stamp <= image.minutes[i].stamp
       IN [startEmpty(t) EXCEPT !.minutes = [image.minutes EXCEPT ![latest] = NoBucket],
                                !.current = image.minutes[latest]]

(* What the window ending at t should hold: the conversions of the sealed   *)
(* buckets that lie in it, one by one, and those of the current one.        *)
Covers(t, b) == b.stamp \in (t - W + 1) .. t

Sealed(minutes, t) ==
  UNION {{i} \X (1 .. minutes[i].n) : i \in {i \in Slots : Covers(t, minutes[i])}}

WindowSum(core, t) ==
  Cardinality(Sealed(core.minutes, t))
  + (IF Covers(t, core.current) THEN core.current.n ELSE 0)

rebuildAggregates(core, t) == [core EXCEPT !.window = WindowSum(core, t)]

startFromImage(image, t) ==
  LET c == [activateLatestBuckets(image, t) EXCEPT !.lifetime = image.lifetime,
                                                   !.dirty_version_ = 0]
      d == rebuildAggregates(advanceTo(c, t), t)
  IN [d EXCEPT !.dirty_version_ = IF @ < 1 THEN 1 ELSE @]
=============================================================================
