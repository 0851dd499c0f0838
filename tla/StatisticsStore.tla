-------------------------- MODULE StatisticsStore --------------------------
(***************************************************************************)
(* Persistence of the usage statistics: class Store of                     *)
(* src/src/handler/statistics_v2.cpp, and persistenceWorker(),             *)
(* initialize() and shutdown() of src/src/handler/statistics.cpp.          *)
(*                                                                         *)
(* Two checkpoint files are written alternately, each by rename; a log     *)
(* (the WAL) holds the patches since the last checkpoint.  Checkpoints     *)
(* carry a generation and the sequence number of the last patch they       *)
(* contain, patches carry the generation they belong to.  One thread does  *)
(* all of it, first initialize(), then the worker loop, while requests     *)
(* record conversions.  File operations fail, the process is killed and    *)
(* the machine loses power between any two of them.                        *)
(*                                                                         *)
(* files is what the process sees; disk has for every file all contents it *)
(* may have after a power failure, and in late the checkpoint files whose  *)
(* rename may not have reached it and that nobody synchronises any more:   *)
(* the process was killed first, or did not look at the failed fsync.  A   *)
(* file is made of whole records, and torn says that the log ends in a     *)
(* piece of one (its checksum fails).                                      *)
(***************************************************************************)
EXTENDS StatisticsCore

CONSTANTS
  MaxGeneration, MaxSequence,  \* the largest numbers that the counters hold
  MaxRecords, MaxTime,         \* bounds on the conversions and on the clock
  MaxFaults, MaxStarts         \* bounds on failing operations and restarts

ASSUME StoreAssumption ==
  /\ MaxGeneration \in Nat /\ MaxSequence \in Nat /\ MaxRecords \in Nat
  /\ MaxTime \in Nat /\ MaxFaults \in Nat /\ MaxStarts \in Nat

VARIABLES
  core, now,         \* the counters in memory; the minute of the clock
  files, disk,
  ready, generation_, sequence_,  \* the Store
  pending,           \* the patch that was taken and not written yet
  pc, task,          \* where the thread is, and what it writes or loads for
  image, version,    \* the image it writes, with its dirty_version
  cut,               \* the number of log records that a truncation keeps
  last,              \* the thread has seen the stop flag
  stopping,          \* the stop flag
  faults, starts,    \* bounded history: failing operations, process starts
  excused,           \* history: losses that the code does not prevent
  candidates,        \* history: the images that may be found on the disk
  acked              \* history: the most conversions reported as written

store   == <<ready, generation_, sequence_>>
locals  == <<task, image, version, cut, last>>
history == <<faults, starts, excused, candidates, acked>>
memory  == <<core, now, stopping>>
vars == <<memory, files, disk, store, pending, pc, locals, history>>

NoCheckpoint == [generation |-> 0, sequence |-> 0, image |-> NoImage]
EmptyLog     == [records |-> <<>>, torn |-> FALSE]
Names        == {"a", "b"}
NameOf(g)    == IF g % 2 = 1 THEN "a" ELSE "b"

Init ==
  /\ core = startEmpty(kMinuteBucketCount) /\ now = kMinuteBucketCount
  /\ stopping = FALSE /\ ready = FALSE /\ generation_ = 0 /\ sequence_ = 0
  /\ pending = NoPatch /\ pc = "down" /\ task = "start" /\ image = NoImage
  /\ version = 0 /\ cut = 0 /\ last = FALSE
  /\ files = [slot |-> [n \in Names |-> NoCheckpoint], wal |-> EmptyLog]
  /\ disk = [slot |-> [n \in Names |-> {NoCheckpoint}], wal |-> {EmptyLog}, late |-> {}]
  /\ faults = 0 /\ starts = 0 /\ excused = {} /\ candidates = {NoImage}
  /\ acked = 0

-----------------------------------------------------------------------------
(* load(): the newer checkpoint, and the patches of its generation that     *)
(* continue it without a gap.                                               *)

Newest(slot) ==
  CHOOSE c \in {slot[n] : n \in Names} :
    \A n \in Names : slot[n].generation <= c.generation

(* Fault: the generation of a patch is not compared.                        *)
ReplayOne_AnyGeneration(best, r) ==
  IF ~ best.valid THEN best
  ELSE IF r.sequence <= best.sequence THEN [best EXCEPT !.kept = @ + 1]
  ELSE IF r.sequence # best.sequence + 1 THEN [best EXCEPT !.valid = FALSE]
  ELSE [best EXCEPT !.kept = @ + 1, !.sequence = r.sequence,
                    !.image = applyPatch(@, r.patch)]

ReplayOne(best, r) ==
  IF ~ best.valid \/ r.generation # best.generation THEN [best EXCEPT !.valid = FALSE]
  ELSE IF r.sequence <= best.sequence THEN [best EXCEPT !.kept = @ + 1]
  ELSE IF r.sequence # best.sequence + 1 THEN [best EXCEPT !.valid = FALSE]
  ELSE [best EXCEPT !.kept = @ + 1, !.sequence = r.sequence,
                    !.image = applyPatch(@, r.patch)]

(* What is known after each of the records that follow checkpoint c.        *)
Replayed(c, records) ==
  LET best[k \in 0 .. Len(records)] ==
        IF k = 0 THEN [generation |-> c.generation, sequence |-> c.sequence,
                       image |-> c.image, kept |-> 0, valid |-> TRUE]
        ELSE ReplayOne(best[k - 1], records[k])
  IN best

Replay(slot, wal) ==
  LET c == Newest(slot) IN
  Replayed(c, wal.records)[IF c = NoCheckpoint THEN 0 ELSE Len(wal.records)]

-----------------------------------------------------------------------------
(* The file system.                                                         *)

SetSlot(n, c) ==
  /\ files' = [files EXCEPT !.slot[n] = c]
  /\ disk' = [disk EXCEPT !.slot[n] = @ \cup {c}]

SetLog(log, others) ==
  /\ files' = [files EXCEPT !.wal = log]
  /\ disk' = [disk EXCEPT !.wal = @ \cup {log} \cup others]

SyncLog == disk' = [disk EXCEPT !.wal = {files.wal}] /\ UNCHANGED files

SyncDirectory ==
  /\ disk' = [disk EXCEPT !.slot = [n \in Names |-> {files.slot[n]}], !.late = {}]
  /\ UNCHANGED files

Unsynced == {n \in Names : disk.slot[n] # {files.slot[n]}}

ForgetDirectory == disk' = [disk EXCEPT !.late = Unsynced] /\ UNCHANGED files

(* An operation fails.  After some failures the counters start from less    *)
(* than what is in the files, and later go over it.                         *)
Fault(loses) ==
  /\ faults < MaxFaults /\ faults' = faults + 1
  /\ excused' = excused \cup loses
  /\ UNCHANGED <<starts, candidates, acked>>

-----------------------------------------------------------------------------
(* The environment: requests, shutdown() and crashes.  main() calls         *)
(* shutdown() after the server has answered its last request.               *)

Running == pc # "down"
Serving == Running /\ task # "start"

(* The thread reads or changes the counters at these labels only, so that a *)
(* request between two file operations is the same as one at the label      *)
(* before them; and it reads the stop flag only where it waits.             *)
AtCounters == Serving /\ pc \in {"wait", "replace", "flush", "append"}

(* The clock goes on between two requests, up to MaxTime, and while the     *)
(* process is down, perhaps by a whole ring.                                *)
Time   == {now} \cup now .. MaxTime
Outage == IF starts = 0 THEN {now} ELSE {now, now + kMinuteBucketCount}

recordSubscriptionConversion ==
  /\ AtCounters /\ ~ stopping /\ core.lifetime < MaxRecords
  /\ now' \in Time
  /\ core' = record(core, now')
  /\ UNCHANGED <<stopping, files, disk, store, pending, pc, locals, history>>

dashboardData ==
  /\ AtCounters /\ ~ stopping
  /\ now' \in Time /\ now' > core.current.stamp
  /\ core' = advanceTo(core, now')
  /\ UNCHANGED <<stopping, files, disk, store, pending, pc, locals, history>>

shutdown ==
  /\ pc = "wait" /\ ~ stopping
  /\ stopping' = TRUE
  /\ UNCHANGED <<core, now, files, disk, store, pending, pc, locals, history>>

initialize ==
  /\ ~ Running /\ starts < MaxStarts
  /\ starts' = starts + 1 /\ pc' = "open"
  /\ now' \in Outage
  /\ UNCHANGED <<core, stopping, files, disk, store, pending, locals, faults, excused,
                 candidates, acked>>

(* What the process had in memory is gone.                                  *)
Exit ==
  /\ core' = startEmpty(kMinuteBucketCount) /\ stopping' = FALSE
  /\ ready' = FALSE /\ generation_' = 0 /\ sequence_' = 0 /\ pending' = NoPatch
  /\ pc' = "down" /\ task' = "start" /\ image' = NoImage /\ version' = 0
  /\ cut' = 0 /\ last' = FALSE

(* After a kill between rename() and the fsync of the directory the next    *)
(* process goes by the new checkpoint: load() cuts the log off before it    *)
(* synchronises the directory, or the process appends and reports without   *)
(* synchronising it at all.                                                 *)
Kill ==
  /\ Running /\ starts < MaxStarts
  /\ Exit
  /\ ForgetDirectory
  /\ UNCHANGED <<now, history>>

(* If power fails then, the checkpoint before may come back without the log *)
(* that belongs to it.                                                      *)
PowerFailure ==
  /\ Running /\ starts < MaxStarts
  /\ Exit
  /\ \E a \in disk.slot["a"], b \in disk.slot["b"], log \in disk.wal :
       /\ files' = [slot |-> [n \in Names |-> IF n = "a" THEN a ELSE b], wal |-> log]
       /\ disk' = [slot |-> [n \in Names |-> IF n = "a" THEN {a} ELSE {b}],
                   wal |-> {log}, late |-> {}]
  /\ excused' = IF disk.late = {} \/ files'.slot = files.slot THEN excused
                ELSE excused \cup {"late"}
  /\ UNCHANGED <<now, faults, starts, candidates, acked>>

-----------------------------------------------------------------------------
(* The thread.  initialize() runs open() and load() and starts from what    *)
(* was loaded; after that a failure closes the store and ends the cycle.    *)

Go(label) == pc' = label /\ UNCHANGED <<memory, store, pending, locals>>

StartFrom(best) ==
  /\ core' = IF best = NoImage THEN startEmpty(now) ELSE startFromImage(best, now)
  /\ pc' = "wait" /\ task' = "recover" /\ image' = NoImage
  /\ UNCHANGED <<now, stopping, pending, version, last>>

Fail(best) ==
  /\ ready' = FALSE
  /\ IF task = "start" THEN StartFrom(best)
     ELSE pc' = "end" /\ UNCHANGED <<memory, pending, task, image, version, last>>

Close == Fail(image) /\ UNCHANGED <<generation_, sequence_, cut>>

Wake ==
  /\ pc = "wait"
  /\ last' = stopping
  /\ \/ ~ ready /\ pc' = "open" /\ task' = "recover"
     \/ ready /\ generation_ = 0 /\ pc' = "image" /\ task' = "initial"
     \/ ready /\ generation_ # 0 /\ pc' = "flush" /\ UNCHANGED task
  /\ UNCHANGED <<memory, files, disk, store, pending, image, version, cut, history>>

(* The worker that has seen the stop flag closes the store and ends.        *)
EndCycle ==
  /\ pc = "end"
  /\ IF last THEN Exit
     ELSE /\ pc' = "wait" /\ task' = "recover" /\ image' = NoImage
          /\ version' = 0 /\ cut' = 0
          /\ UNCHANGED <<core, stopping, store, pending, last>>
  /\ UNCHANGED <<now, files, disk, history>>

(* A start that cannot open the store, because another process still holds  *)
(* its lock, begins with empty counters; they are written over the files    *)
(* when a later open() succeeds.                                            *)
open ==
  /\ pc = "open"
  /\ \/ /\ ready' = TRUE /\ pc' = "load" /\ UNCHANGED history
        /\ UNCHANGED <<memory, generation_, sequence_, pending, locals>>
     \/ Fault(IF task = "start" THEN {"read"} ELSE {}) /\ Close
  /\ UNCHANGED <<files, disk>>

(* Fault: an invalid end of the log is passed over and left in the file.    *)
Loaded_NoRepair(slot, log) ==
  LET best == Replay(slot, log) IN
  /\ generation_' = best.generation /\ sequence_' = best.sequence
  /\ IF task = "start" THEN StartFrom(best.image)
     ELSE pc' = "image" /\ UNCHANGED <<memory, pending, task, image, version, last>>
  /\ UNCHANGED <<cut, ready>>

(* A log that does not continue the checkpoint is cut off where it stops    *)
(* being valid.                                                             *)
Loaded(slot, log) ==
  LET best == Replay(slot, log) IN
  /\ generation_' = best.generation /\ sequence_' = best.sequence
  /\ \/ /\ best.image = NoImage \/ (best.valid /\ ~ log.torn)
        /\ IF task = "start" THEN StartFrom(best.image)
           ELSE pc' = "image" /\ UNCHANGED <<memory, pending, task, image, version, last>>
        /\ UNCHANGED cut
     \/ /\ best.image # NoImage /\ (~ best.valid \/ log.torn)
        /\ pc' = "truncate" /\ cut' = best.kept /\ image' = best.image
        /\ task' = IF task = "start" THEN task ELSE "repair"
        /\ UNCHANGED <<memory, pending, version, last>>
  /\ UNCHANGED ready

(* A log that cannot be read closes the store, and initialize() starts from *)
(* the checkpoint alone.                                                    *)
LogUnreadable ==
  LET best == Newest(files.slot) IN
  /\ generation_' = best.generation /\ sequence_' = best.sequence
  /\ Fail(best.image) /\ UNCHANGED cut

load ==
  /\ pc = "load"
  /\ \/ Loaded(files.slot, files.wal) /\ UNCHANGED history
     \/ \E n \in Names : /\ files.slot[n] # NoCheckpoint
                         /\ Fault({"read"})
                         /\ Loaded([files.slot EXCEPT ![n] = NoCheckpoint], files.wal)
     \/ Fault({"read"}) /\ LogUnreadable
     \/ Fault({"read"}) /\ Loaded(files.slot, EmptyLog)
  /\ UNCHANGED <<files, disk>>

-----------------------------------------------------------------------------
(* writeCheckpoint(): the image, the other file by rename, the generation,  *)
(* and only then the log.                                                   *)

checkpointImage ==
  /\ pc = "image"
  /\ pc' = "replace"
  /\ image' = persistentImage(core) /\ version' = core.dirty_version_
  /\ candidates' = candidates \cup {image'}
  /\ UNCHANGED <<memory, files, disk, store, pending, task, cut, last, faults,
                 starts, excused, acked>>

NextCheckpoint ==
  [generation |-> generation_ + 1, sequence |-> sequence_, image |-> image]

replaceFile ==
  /\ pc = "replace"
  /\ \/ /\ generation_ < MaxGeneration
        /\ SetSlot(NameOf(generation_ + 1), NextCheckpoint)
        /\ Go("dirsync") /\ UNCHANGED history
     \/ generation_ = MaxGeneration /\ Close /\ UNCHANGED <<history, files, disk>>
     \/ Fault({}) /\ Close /\ UNCHANGED <<files, disk>>

(* The result of this fsync is not looked at.                               *)
syncReplaced ==
  /\ pc = "dirsync"
  /\ \/ SyncDirectory /\ UNCHANGED history
     \/ Fault({}) /\ ForgetDirectory
  /\ Go("inspect")

inspectCheckpoint ==
  /\ pc = "inspect"
  /\ \/ /\ generation_' = generation_ + 1 /\ cut' = 0 /\ pc' = "truncate"
        /\ UNCHANGED <<memory, ready, sequence_, pending, task, image, version, last,
                       history>>
     \/ Fault({}) /\ Close
  /\ UNCHANGED <<files, disk>>

truncateWalTo ==
  /\ pc = "truncate"
  /\ \/ /\ SetLog([records |-> SubSeq(files.wal.records, 1, cut), torn |-> FALSE], {})
        /\ Go("logsync") /\ UNCHANGED history
     \/ Fault({}) /\ Close /\ UNCHANGED <<files, disk>>

syncLog ==
  /\ pc = "logsync"
  /\ \/ SyncLog /\ Go("logdir") /\ UNCHANGED history
     \/ Fault({}) /\ Close /\ UNCHANGED <<files, disk>>

(* The last fsync of a write; its caller goes on.                           *)
Written ==
  /\ candidates' = {image}
  /\ acked' = IF acked < image.lifetime THEN image.lifetime ELSE acked
  /\ UNCHANGED <<faults, starts, excused>>

syncLogDirectory ==
  /\ pc = "logdir"
  /\ \/ /\ SyncDirectory
        /\ \/ /\ task = "start" /\ StartFrom(image) /\ UNCHANGED <<store, cut, history>>
           \/ /\ task = "repair" /\ pc' = "image" /\ task' = "recover"
              /\ UNCHANGED <<memory, store, pending, image, version, cut, last, history>>
           \/ /\ task \notin {"start", "repair"} /\ Written /\ Go("ack")
     \/ Fault({}) /\ Close /\ UNCHANGED <<files, disk>>

(* After a recovery the next flush may not be due yet.                      *)
acknowledge ==
  /\ pc = "ack"
  /\ core' = acknowledgeCheckpoint(core, version)
  /\ pending' = IF task = "recover" THEN NoPatch ELSE pending
  /\ \/ task # "compact" /\ pc' = "flush"
     \/ (task = "compact" \/ (task = "recover" /\ ~ last)) /\ pc' = "end"
  /\ UNCHANGED <<now, stopping, files, disk, store, locals, history>>

-----------------------------------------------------------------------------
(* The flush: take a patch and append it to the log.                        *)

Take(patch, c) ==
  /\ pending' = patch /\ core' = c /\ pc' = "append"
  /\ image' = persistentImage(core)
  /\ candidates' = candidates \cup {image'}
  /\ UNCHANGED <<now, stopping, store, task, version, cut, last, faults, starts,
                 excused, acked>>

(* Fault: the last cycle flushes only when a flush is due.                  *)
takeDirtyPatch_WhenDue ==
  /\ pc = "flush"
  /\ \/ pending = NoPatch /\ hasDirty(core) /\ Take(DirtyPatch(core), Clean(core))
     \/ pending = NoPatch /\ ~ hasDirty(core) /\ Take(runtimePatch(core), core)
     \/ (last \/ ~ hasDirty(core)) /\ Go("end") /\ UNCHANGED history
     \/ pending # NoPatch /\ Go("append") /\ UNCHANGED history
  /\ UNCHANGED <<files, disk>>

takeDirtyPatch ==
  /\ pc = "flush"
  /\ \/ pending = NoPatch /\ (last \/ hasDirty(core)) /\ Take(DirtyPatch(core), Clean(core))
     \/ /\ pending = NoPatch /\ ~ last /\ ~ hasDirty(core)
        /\ \/ Take(runtimePatch(core), core)
           \/ Go("end") /\ UNCHANGED history
     \/ pending # NoPatch /\ Go("append") /\ UNCHANGED history
  /\ UNCHANGED <<files, disk>>

LogRecord == [generation |-> generation_, sequence |-> sequence_ + 1, patch |-> pending]

appendFile ==
  /\ pc = "append"
  /\ \/ /\ generation_ # 0 /\ sequence_ < MaxSequence
        /\ cut' = Len(files.wal.records)
        /\ UNCHANGED <<memory, store, pending, task, image, version, last>>
        /\ \/ /\ SetLog([files.wal EXCEPT !.records = Append(@, LogRecord)],
                        {[files.wal EXCEPT !.torn = TRUE]})
              /\ pc' = "appendsync" /\ UNCHANGED history
           \/ Fault({}) /\ SetLog([files.wal EXCEPT !.torn = TRUE], {}) /\ pc' = "rollback"
     \/ /\ generation_ = 0 \/ sequence_ = MaxSequence
        /\ Close /\ UNCHANGED <<files, disk, history>>
     \/ Fault({}) /\ Close /\ UNCHANGED <<files, disk>>

syncAppended ==
  /\ pc = "appendsync"
  /\ \/ /\ SyncLog /\ Written
        /\ sequence_' = sequence_ + 1 /\ pending' = NoPatch
        /\ \/ pc' = "image" /\ task' = "compact"
           \/ pc' = "end" /\ UNCHANGED task
        /\ UNCHANGED <<memory, ready, generation_, image, version, cut, last>>
     \/ Fault({}) /\ Go("rollback") /\ UNCHANGED <<files, disk>>

(* resize_file() to the size before, which is taken to be 0 if it could not *)
(* be found out; the disk that failed may fail again.                       *)
rollback ==
  /\ pc = "rollback"
  /\ \/ /\ SetLog([records |-> SubSeq(files.wal.records, 1, cut), torn |-> FALSE], {})
        /\ UNCHANGED excused
     \/ SetLog(EmptyLog, {}) /\ excused' = excused \cup {"read"}
     \/ UNCHANGED <<files, disk, excused>>
  /\ UNCHANGED <<faults, starts, candidates, acked>>
  /\ Close

-----------------------------------------------------------------------------
Thread ==
  \/ Wake \/ EndCycle \/ open \/ load \/ checkpointImage \/ replaceFile
  \/ syncReplaced \/ inspectCheckpoint \/ truncateWalTo \/ syncLog
  \/ syncLogDirectory \/ acknowledge \/ takeDirtyPatch \/ appendFile
  \/ syncAppended \/ rollback

Next ==
  /\ excused = {}   \* what follows such a loss is not explored
  /\ \/ recordSubscriptionConversion \/ dashboardData \/ shutdown
     \/ initialize \/ Kill \/ PowerFailure \/ Thread

Spec == Init /\ [][Next]_vars

-----------------------------------------------------------------------------
(* Properties.                                                             *)

(* What a process that starts now, or after a power failure, may find.  The *)
(* checkpoints of before count only while no renamed entry is late.         *)
Findable ==
  {[slot |-> files.slot, wal |-> log] : log \in disk.wal}
  \cup {[slot |-> [n \in Names |-> IF n = "a" THEN a ELSE b], wal |-> log] :
          a \in IF disk.late = {} THEN disk.slot["a"] ELSE {},
          b \in disk.slot["b"], log \in disk.wal}

LifetimeOf(i) == IF i = NoImage THEN 0 ELSE i.lifetime

(* Whatever operation a kill or a power failure interrupts, the next start  *)
(* finds exactly the counters of the last write that was reported as done   *)
(* or of one that was under way, never a mixture and never fewer            *)
(* conversions than were once reported as written.  There are two           *)
(* exceptions.  A power failure that undoes the rename of a checkpoint      *)
(* whose directory entry is late: the code loses counts there.  And a       *)
(* process that started from less because it could not open or read the     *)
(* files, or that emptied the log because it could not find out its size.   *)
NothingLost ==
  excused = {} =>
    \A f \in Findable :
      LET found == Replay(f.slot, f.wal).image
      IN found \in candidates /\ LifetimeOf(found) >= acked

(* Between two cycles the files, replayed, agree with the Store's numbers,  *)
(* and they agree with memory in every bucket that is not marked: what was  *)
(* not written yet is marked, through every failure, recovery and restart.  *)
UnmarkedIsWritten ==
  pc = "wait" /\ ready /\ generation_ # 0 /\ excused = {} =>
    LET found == Replay(files.slot, files.wal) IN
    /\ found.valid /\ ~ files.wal.torn /\ pending = NoPatch
    /\ found.generation = generation_ /\ found.sequence = sequence_
    /\ \A i \in Slots \ core.dirty : found.image.minutes[i] = minuteRecord(core, i)
    /\ ~ core.runtime_dirty_ => found.image.lifetime = core.lifetime

(* The window that is kept by adding and subtracting is the sum of the      *)
(* buckets it covers, also after a restart and a gap.                       *)
WindowIsSum == Serving => core.window = WindowSum(core, core.current.stamp)

(* A process that is stopped in order leaves nothing unwritten: whatever    *)
(* failed before, the last cycle with a working store writes all that was   *)
(* counted until the stop flag was set, in memory or taken before.          *)
ShutdownWrites ==
  pc = "end" /\ last /\ ready /\ excused = {} => acked = core.lifetime
=============================================================================
