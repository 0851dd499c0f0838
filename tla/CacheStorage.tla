---------------------------- MODULE CacheStorage ----------------------------
(***************************************************************************)
(* updateCacheFiles() and readCachedResponseHeaders()                      *)
(* (src/src/handler/cache_storage.cpp) for one cache entry, on top of      *)
(* atomicWriteLocked() (src/src/utils/file.cpp).  An entry is a body, the  *)
(* response headers that came with it and an invalidation marker.  Updates *)
(* of an entry exclude each other (cache_rw_lock), but the process may be  *)
(* killed and the machine may lose power between any two system calls.     *)
(*                                                                         *)
(* A file is what its directory entry names: 0 is "no such file", and a    *)
(* body or header is known by the update that wrote it.  Every write       *)
(* synchronises the temporary file before it renames it, so a file is      *)
(* never torn; a directory entry is only durable after the directory was   *)
(* synchronised.  disk[f] is the set of all entries that f may have after  *)
(* a power failure.                                                        *)
(***************************************************************************)
EXTENDS Integers

CONSTANT MaxVersion   \* bound on the number of updates

ASSUME VersionAssumption == MaxVersion \in Nat \ {0}

Files  == {"body", "header", "marker"}
Values == 0 .. MaxVersion

VARIABLES
  visible,     \* the directory entries the process sees
  disk,        \* those that may be found after a power failure
  pc,          \* the step of updateCacheFiles(), or "idle"
  version,     \* the update in progress, or the last one
  wasPresent,  \* its invalidation_was_present
  result,      \* the CacheUpdateResult of the last update
  before,      \* history: what was visible when the update began
  blind        \* history: the result rests on an inspection that failed

storage == <<visible, disk, pc, version, wasPresent, result, before, blind>>

Results == {"none", "Complete", "Unchanged", "UnchangedHeadersInvalidated",
            "HeadersInvalidated", "BodyCommittedUnsynced"}
PCs == {"idle", "marker", "markerSync", "body", "bodySync", "undo",
        "header", "headerSync", "remove"}

StorageInit ==
  /\ visible = [f \in Files |-> 0] /\ disk = [f \in Files |-> {0}]
  /\ pc = "idle" /\ version = 0 /\ wasPresent = FALSE
  /\ result = "none" /\ before = [f \in Files |-> 0] /\ blind = FALSE

-----------------------------------------------------------------------------
(* The file system.                                                        *)

(* The entry of f becomes v and nothing makes that durable yet.             *)
SetEntry(f, v) ==
  /\ visible' = [visible EXCEPT ![f] = v]
  /\ disk' = [disk EXCEPT ![f] = @ \cup {v}]

(* All three files share a directory: its fsync makes every entry durable.  *)
SyncDirectory ==
  /\ disk' = [f \in Files |-> {visible[f]}]
  /\ UNCHANGED visible

(* The fsync or the close after it failed: nothing is known.                *)
SyncFails ==
  /\ \/ disk' = [f \in Files |-> {visible[f]}]
     \/ UNCHANGED disk
  /\ UNCHANGED visible

(* invalidationPresent(): a marker that cannot be inspected is present.     *)
InvalidationPresent(failed) == visible["marker"] # 0 \/ failed

-----------------------------------------------------------------------------
(* updateCacheFiles().                                                     *)

Step(label) == pc' = label /\ UNCHANGED <<version, wasPresent, result, before, blind>>

ReturnBlind(r, failed) ==
  /\ pc' = "idle" /\ result' = r /\ blind' = failed
  /\ UNCHANGED <<version, wasPresent, before>>

Return(r) == ReturnBlind(r, FALSE)

Begin ==
  /\ pc = "idle" /\ version < MaxVersion
  /\ pc' = "marker" /\ version' = version + 1
  /\ \E failed \in BOOLEAN : wasPresent' = InvalidationPresent(failed)
  /\ result' = "none" /\ before' = visible /\ blind' = FALSE
  /\ UNCHANGED <<visible, disk>>

(* Fault: the marker is not looked for after a write that failed.           *)
MarkerFails_NotLooked ==
  /\ pc = "marker" /\ Return("UnchangedHeadersInvalidated")
  /\ UNCHANGED <<visible, disk>>

(* fileWrite() failed before the rename: the target is as it was.           *)
MarkerFails ==
  /\ pc = "marker"
  /\ \E failed \in BOOLEAN :
       ReturnBlind(IF InvalidationPresent(failed) THEN "UnchangedHeadersInvalidated"
                                                  ELSE "Unchanged", failed)
  /\ UNCHANGED <<visible, disk>>

WriteMarker  == pc = "marker" /\ SetEntry("marker", 1) /\ Step("markerSync")
MarkerSynced == pc = "markerSync" /\ SyncDirectory /\ Step("body")

(* Fault: a marker that is not durable is good enough.                      *)
MarkerUnsynced_GoesOn == pc = "markerSync" /\ SyncFails /\ Step("body")

(* CommittedUnsynced is not Durable: the body is not touched.               *)
MarkerUnsynced ==
  /\ pc = "markerSync" /\ SyncFails
  /\ Return("UnchangedHeadersInvalidated")

BodyFails ==
  /\ pc = "body"
  /\ IF wasPresent THEN Return("UnchangedHeadersInvalidated") ELSE Step("undo")
  /\ UNCHANGED <<visible, disk>>

(* removeInvalidation() after a body that was not written, and at the end.  *)
Undone    == pc = "undo" /\ SetEntry("marker", 0) /\ Return("Unchanged")
UndoFails ==
  /\ pc = "undo" /\ Return("UnchangedHeadersInvalidated")
  /\ UNCHANGED <<visible, disk>>

WriteBody    == pc = "body" /\ SetEntry("body", version) /\ Step("bodySync")
BodySynced   == pc = "bodySync" /\ SyncDirectory /\ Step("header")
BodyUnsynced == pc = "bodySync" /\ SyncFails /\ Return("BodyCommittedUnsynced")

HeaderFails ==
  /\ pc = "header" /\ Return("HeadersInvalidated")
  /\ UNCHANGED <<visible, disk>>

(* Fault: headers that are not durable count as written.                    *)
HeaderUnsynced_GoesOn == pc = "headerSync" /\ SyncFails /\ Step("remove")

WriteHeader    == pc = "header" /\ SetEntry("header", version) /\ Step("headerSync")
HeaderSynced   == pc = "headerSync" /\ SyncDirectory /\ Step("remove")
HeaderUnsynced == pc = "headerSync" /\ SyncFails /\ Return("HeadersInvalidated")

Removed     == pc = "remove" /\ SetEntry("marker", 0) /\ Return("Complete")
RemoveFails ==
  /\ pc = "remove" /\ Return("HeadersInvalidated")
  /\ UNCHANGED <<visible, disk>>

-----------------------------------------------------------------------------
(* Crashes.                                                                *)

Restart ==
  /\ pc' = "idle" /\ result' = "none" /\ blind' = FALSE
  /\ UNCHANGED <<version, wasPresent, before>>

Kill == Restart /\ UNCHANGED <<visible, disk>>

PowerFailure ==
  /\ Restart
  /\ visible' \in [Files -> UNION {disk[f] : f \in Files}]
  /\ \A f \in Files : visible'[f] \in disk[f]
  /\ disk' = [f \in Files |-> {visible'[f]}]

StorageNext ==
  \/ Begin
  \/ MarkerFails \/ WriteMarker \/ MarkerSynced \/ MarkerUnsynced
  \/ BodyFails \/ WriteBody \/ BodySynced \/ BodyUnsynced \/ Undone \/ UndoFails
  \/ HeaderFails \/ WriteHeader \/ HeaderSynced \/ HeaderUnsynced
  \/ Removed \/ RemoveFails
  \/ Kill \/ PowerFailure

StorageSpec == StorageInit /\ [][StorageNext]_storage

-----------------------------------------------------------------------------
(* Properties.                                                             *)

(* Every variable has its type, what the process sees is a possible content *)
(* of the disk, and an update that has a result is over.                    *)
StorageTypeOK ==
  /\ visible \in [Files -> Values] /\ disk \in [Files -> SUBSET Values]
  /\ \A f \in Files : visible[f] \in disk[f]
  /\ pc \in PCs /\ version \in Values /\ wasPresent \in BOOLEAN
  /\ result \in Results /\ (pc # "idle" => result = "none")
  /\ before \in [Files -> Values] /\ blind \in BOOLEAN

(* Body and headers belong together whatever the disk keeps of them.        *)
PairSafe == \A b \in disk["body"], h \in disk["header"] : h # 0 => h = b

(* After a crash at any moment, readCachedResponseHeaders() never pairs a   *)
(* body with headers of another update: headers that can be read, because   *)
(* no marker hides them, came with the body.                                *)
CrashConsistent ==
  \A m \in disk["marker"], b \in disk["body"], h \in disk["header"] :
    m = 0 /\ h # 0 => h = b

(* Complete means that no power failure can take the new pair away again.   *)
CompleteIsDurable ==
  result = "Complete" =>
    disk["body"] = {version} /\ disk["header"] = {version}

Readable(v) == <<v["body"], IF v["marker"] = 0 THEN v["header"] ELSE 0>>

(* The caller logs its CacheUpdateResult as a statement about the files, as *)
(* a reader that can inspect the marker finds them: what it calls unchanged *)
(* reads as before, headers it calls invalidated cannot be read, and a      *)
(* committed body is the new one.  The one exception: when the marker can   *)
(* be neither written nor inspected, "invalidated" is only a guess, and the *)
(* old pair is still there as it was before.                                *)
ResultHonest ==
  /\ result = "Complete"  => Readable(visible) = <<version, version>>
  /\ result = "Unchanged" => Readable(visible) = Readable(before)
  /\ result = "UnchangedHeadersInvalidated" =>
       Readable(visible) = IF blind THEN Readable(before) ELSE <<before["body"], 0>>
  /\ result \in {"HeadersInvalidated", "BodyCommittedUnsynced"} =>
       Readable(visible) = <<version, 0>>
=============================================================================
