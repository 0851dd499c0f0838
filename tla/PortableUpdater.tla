-------------------------- MODULE PortableUpdater --------------------------
(***************************************************************************)
(* The updater of the portable packages (src/bridge/cmd/portable-updater): *)
(* apply(), rollback() and recover() move whole program directories and    *)
(* keep a journal, pending.json, while they do.  The exchange of two       *)
(* directories is one system call on Linux and three renames on Windows.   *)
(*                                                                         *)
(* A step is one system call that changes the directories or the journal,  *)
(* or one validation, which starts the program and may turn out either way.*)
(* Any of the calls may fail and the process may die between any two of    *)
(* them; the file system itself keeps what was done.  One updater runs at  *)
(* a time (withLock()).                                                    *)
(***************************************************************************)
EXTENDS Integers

CONSTANTS
  Revisions,   \* the releases; a larger one is newer
  Platforms,   \* "linux", "windows"
  First        \* the release that is installed at first

ASSUME UpdaterAssumption ==
  /\ Revisions \subseteq Nat /\ First \in Revisions
  /\ Platforms \subseteq {"linux", "windows"}

VARIABLES
  platform,
  place,      \* what every directory holds: a revision, None or Damaged
  pending,    \* pending.json
  pc, op, txn, sw, failed,  \* the running process and its locals
  validated,  \* history: the revisions that passed a validation
  dropped     \* history: the journal was removed after a failed exchange

locals == <<pc, op, txn, sw, failed>>
vars == <<platform, place, pending, locals, validated, dropped>>

None == 0 - 1
Damaged == 0 - 2     \* partly extracted or partly removed: no BUILD-INFO.json
Candidates == {"staging", "rollback"}
Places == Candidates \cup {"root", "staging.old", "rollback.old"}

(* Where the Windows exchange parks the root: "<candidate>.exchange-old".   *)
Aside(c) == IF c = "staging" THEN "staging.old" ELSE "rollback.old"

Phases == {"prepared", "exchanged"}
Transactions == [cand : Candidates, old : Revisions, new : Revisions, phase : Phases]
NoTxn == [cand |-> "none"]

Init ==
  /\ platform \in Platforms
  /\ place = [p \in Places |-> IF p = "root" THEN First ELSE None]
  /\ pending = NoTxn
  /\ pc = "idle" /\ op = "none" /\ txn = NoTxn /\ sw = "begin" /\ failed = FALSE
  /\ validated = {First} /\ dropped = FALSE

(* To a label; the process that returns forgets its locals.                 *)
Goto(label) ==
  /\ pc' = label
  /\ IF label = "idle" THEN op' = "none" /\ txn' = NoTxn ELSE UNCHANGED <<op, txn>>

(* A return; apply() runs its deferred function first.                      *)
Return == Goto(IF op = "apply" THEN "cleanup" ELSE "idle")

-----------------------------------------------------------------------------
(* The three commands.                                                     *)

(* Fault: apply() does not look for a pending transaction.                  *)
Extract_IgnoresPending(b) ==
  /\ pc = "idle" /\ place["root"] \in Revisions /\ b > place["root"]
  /\ place' = [place EXCEPT !["staging"] = b, !["staging.old"] = None]
  /\ pc' = "validate" /\ op' = "apply"
  /\ txn' = [cand |-> "staging", old |-> place["root"], new |-> b, phase |-> "prepared"]
  /\ UNCHANGED <<platform, pending, sw, failed, validated, dropped>>

(* apply() up to the candidate: a newer release is unpacked into staging,   *)
(* which is emptied first.                                                  *)
Extract(b) ==
  /\ pc = "idle" /\ pending = NoTxn
  /\ place["root"] \in Revisions /\ b > place["root"]
  /\ place' = [place EXCEPT !["staging"] = b, !["staging.old"] = None]
  /\ pc' = "validate" /\ op' = "apply"
  /\ txn' = [cand |-> "staging", old |-> place["root"], new |-> b, phase |-> "prepared"]
  /\ UNCHANGED <<platform, pending, sw, failed, validated, dropped>>

(* os.RemoveAll(staging), which may stop halfway.                           *)
EmptyStaging ==
  \E s \in {None, Damaged}, o \in {None, place["staging.old"]} :
    place' = [place EXCEPT !["staging"] = s, !["staging.old"] = o]

ExtractFails ==
  /\ pc = "idle" /\ pending = NoTxn /\ place["root"] \in Revisions
  /\ EmptyStaging
  /\ UNCHANGED <<platform, pending, locals, validated, dropped>>

BeginRollback ==
  /\ pc = "idle" /\ pending = NoTxn
  /\ place["root"] \in Revisions /\ place["rollback"] \in Revisions
  /\ pc' = "validate" /\ op' = "rollback"
  /\ txn' = [cand |-> "rollback", old |-> place["root"], new |-> place["rollback"],
             phase |-> "prepared"]
  /\ UNCHANGED <<platform, place, pending, sw, failed, validated, dropped>>

(* recover(), which apply() and rollback() become when there is a journal.  *)
BeginRecover ==
  /\ pc = "idle" /\ pending # NoTxn
  /\ pc' = "repair" /\ op' = "recover" /\ txn' = pending
  /\ UNCHANGED <<platform, place, pending, sw, failed, validated, dropped>>

-----------------------------------------------------------------------------
(* Journal and validation.                                                 *)

(* Fault: the candidate is installed whatever its validation says.          *)
Validate_Ignored ==
  /\ pc = "validate"
  /\ \E ok \in BOOLEAN :
       /\ validated' = IF ok THEN validated \cup {txn.new} ELSE validated
       /\ Goto(IF op = "recover" THEN "swap" ELSE "prepare")
  /\ UNCHANGED <<platform, place, pending, sw, failed, dropped>>

Validate ==
  /\ pc = "validate"
  /\ \/ /\ validated' = validated \cup {txn.new}
        /\ Goto(IF op = "recover" THEN "swap" ELSE "prepare")
     \/ Return /\ UNCHANGED validated
  /\ UNCHANGED <<platform, place, pending, sw, failed, dropped>>

(* writeJSONAtomic(): the journal is replaced, or it is not, or it is and   *)
(* the directory cannot be synchronised (not on Windows).                   *)
Written(t, ok) ==
  pending' \in IF ok THEN {t}
               ELSE IF platform = "linux" THEN {pending, t} ELSE {pending}

Prepare ==
  /\ pc = "prepare"
  /\ \/ Written(txn, TRUE) /\ Goto("swap")
     \/ Written(txn, FALSE) /\ Return
  /\ UNCHANGED <<platform, place, sw, failed, validated, dropped>>

(* The exchange is recorded; apply() undoes the exchange if it cannot be,   *)
(* rollback() does not mind.                                                *)
Mark ==
  /\ pc = "mark"
  /\ LET t == [txn EXCEPT !.phase = "exchanged"] IN
     \/ Written(t, TRUE) /\ Goto("check")
     \/ Written(t, FALSE) /\ Goto(IF op = "apply" THEN "unmark" ELSE "check")
  /\ UNCHANGED <<platform, place, sw, failed, validated, dropped>>

Check ==
  /\ pc = "check"
  /\ \/ Goto(IF txn.cand = "rollback" THEN "commit" ELSE "clear")
     \/ Goto("swapback")
  /\ UNCHANGED <<platform, place, pending, sw, failed, validated, dropped>>

(* os.Remove(pending), whose error is ignored.                              *)
RemovePending == pending' \in {pending, NoTxn}

Commit ==
  /\ pc = "commit"
  /\ RemovePending /\ Return
  /\ UNCHANGED <<platform, place, sw, failed, validated, dropped>>

(* The journal is removed after an exchange that was undone, or failed.     *)
Drop ==
  /\ pc = "drop"
  /\ RemovePending /\ Return
  /\ dropped' = (dropped \/ (failed /\ pending' = NoTxn))
  /\ UNCHANGED <<platform, place, sw, failed, validated>>

(* The deferred function of apply(): without a journal staging is removed.  *)
Cleanup ==
  /\ pc = "cleanup"
  /\ \/ pending # NoTxn /\ UNCHANGED place
     \/ pending = NoTxn /\ EmptyStaging
  /\ Goto("idle")
  /\ UNCHANGED <<platform, pending, sw, failed, validated, dropped>>

-----------------------------------------------------------------------------
(* atomicSwapDirectories(root, candidate).                                 *)

Swapping == pc \in {"swap", "unmark", "swapback"}

SwapReturns(ok) ==
  /\ failed' = ~ ok /\ sw' = "begin"
  /\ IF pc = "unmark" \/ (op = "recover" /\ ~ ok)
     THEN Return
     ELSE Goto(IF pc = "swapback" \/ ~ ok THEN "drop"
               ELSE IF op = "recover" THEN "check" ELSE "mark")
  /\ UNCHANGED <<platform, pending, validated, dropped>>

SwapStep(label) ==
  /\ sw' = label
  /\ UNCHANGED <<platform, pending, pc, op, txn, failed, validated, dropped>>

SwapRefused ==
  /\ Swapping /\ sw = "begin"
  /\ SwapReturns(FALSE) /\ UNCHANGED place

(* Linux: renameat2(RENAME_EXCHANGE), then the directories are synchronised.*)
Exchange ==
  /\ Swapping /\ sw = "begin" /\ platform = "linux"
  /\ place' = [place EXCEPT !["root"] = place[txn.cand], ![txn.cand] = place["root"]]
  /\ SwapStep("sync")

ExchangeSynced ==
  /\ Swapping /\ sw = "sync"
  /\ \E ok \in BOOLEAN : SwapReturns(ok)
  /\ UNCHANGED place

(* os.Rename(from, to), to a path that does not exist.                      *)
Rename(from, to) == place' = [place EXCEPT ![to] = place[from], ![from] = None]

(* Windows: the root is moved aside, the candidate becomes the root, and    *)
(* the old root takes the candidate's place.                                *)
MoveAside ==
  /\ Swapping /\ sw = "begin" /\ platform = "windows" /\ place[Aside(txn.cand)] = None
  /\ Rename("root", Aside(txn.cand))
  /\ SwapStep("activate")

Activate ==
  /\ Swapping /\ sw = "activate"
  /\ \/ Rename(txn.cand, "root") /\ SwapStep("keep")
     \/ UNCHANGED place /\ SwapStep("restore")

Restore ==
  /\ Swapping /\ sw = "restore"
  /\ Rename(Aside(txn.cand), "root") \/ UNCHANGED place
  /\ SwapReturns(FALSE)

KeepOld ==
  /\ Swapping /\ sw = "keep"
  /\ \/ Rename(Aside(txn.cand), txn.cand) /\ SwapReturns(TRUE)
     \/ UNCHANGED place /\ SwapReturns(FALSE)

-----------------------------------------------------------------------------
(* finalizeAppliedRoot(): the old root becomes the rollback root.          *)

Clear ==
  /\ pc = "clear"
  /\ \/ place' = [place EXCEPT !["rollback"] = None] /\ Goto("retain")
     \/ \E r \in {place["rollback"], Damaged} :
          place' = [place EXCEPT !["rollback"] = r] /\ Return
  /\ UNCHANGED <<platform, pending, sw, failed, validated, dropped>>

Retain ==
  /\ pc = "retain"
  /\ \/ Rename(txn.cand, "rollback") /\ Goto("retained")
     \/ UNCHANGED place /\ Return
  /\ UNCHANGED <<platform, pending, sw, failed, validated, dropped>>

Retained ==
  /\ pc = "retained"
  /\ \/ Goto("commit")
     \/ platform = "linux" /\ Return
  /\ UNCHANGED <<platform, place, pending, sw, failed, validated, dropped>>

-----------------------------------------------------------------------------
(* recover(): repairInterruptedSwap() and the comparison of revisions.     *)

(* Fault: an old root that was left aside stays there.                      *)
RepairStep_RootOnly(pl, c) ==
  IF pl[Aside(c)] # None /\ pl["root"] = None /\ pl[c] # None THEN {<<c, "root">>} ELSE {}

(* The rename that comes next in finishing an interrupted exchange, if any. *)
(* On Linux nothing is ever aside.                                          *)
RepairStep(pl, c) ==
  IF pl[Aside(c)] = None THEN {}
  ELSE IF pl["root"] = None /\ pl[c] # None THEN {<<c, "root">>}
  ELSE IF pl["root"] # None /\ pl[c] = None THEN {<<Aside(c), c>>}
  ELSE {}

Ambiguous(pl, c) == pl[Aside(c)] # None /\ (pl["root"] = None <=> pl[c] = None)

(* A rename that fails, or roots that are ambiguous, end the attempt.       *)
Repair ==
  /\ pc = "repair"
  /\ \/ \E r \in RepairStep(place, txn.cand) : Rename(r[1], r[2]) /\ Goto("repair")
     \/ /\ RepairStep(place, txn.cand) = {} /\ ~ Ambiguous(place, txn.cand)
        /\ Goto("classify") /\ UNCHANGED place
     \/ /\ RepairStep(place, txn.cand) # {} \/ Ambiguous(place, txn.cand)
        /\ Return /\ UNCHANGED place
  /\ UNCHANGED <<platform, pending, sw, failed, validated, dropped>>

NotExchanged(pl, t) == pl["root"] = t.old /\ pl[t.cand] = t.new
Exchanged(pl, t)    == pl["root"] = t.new /\ pl[t.cand] = t.old

Classify ==
  /\ pc = "classify"
  /\ \/ NotExchanged(place, txn) /\ Goto("validate")
     \/ ~ NotExchanged(place, txn) /\ Exchanged(place, txn) /\ Goto("check")
     \/ ~ NotExchanged(place, txn) /\ ~ Exchanged(place, txn) /\ Return
  /\ UNCHANGED <<platform, place, pending, sw, failed, validated, dropped>>

-----------------------------------------------------------------------------
(* The process dies.                                                       *)
Crash ==
  /\ pc # "idle"
  /\ Goto("idle") /\ sw' = "begin" /\ failed' = FALSE
  /\ UNCHANGED <<platform, place, pending, validated, dropped>>

Swap == \/ SwapRefused \/ Exchange \/ ExchangeSynced
        \/ MoveAside \/ Activate \/ Restore \/ KeepOld

Next ==
  \/ \E b \in Revisions : Extract(b)
  \/ ExtractFails \/ BeginRollback \/ BeginRecover
  \/ Validate \/ Prepare \/ Mark \/ Check \/ Commit \/ Drop \/ Cleanup
  \/ Swap \/ Clear \/ Retain \/ Retained \/ Repair \/ Classify \/ Crash

Spec == Init /\ [][Next]_vars

-----------------------------------------------------------------------------
(* Properties.                                                             *)

(* Every variable has its type.                                             *)
TypeOK ==
  /\ platform \in Platforms /\ place \in [Places -> Revisions \cup {None, Damaged}]
  /\ pending \in Transactions \cup {NoTxn} /\ txn \in Transactions \cup {NoTxn}
  /\ pc \in {"idle", "validate", "prepare", "swap", "mark", "unmark", "check", "swapback",
             "clear", "retain", "retained", "commit", "drop", "cleanup", "repair", "classify"}
  /\ op \in {"none", "apply", "rollback", "recover"}
  /\ sw \in {"begin", "sync", "activate", "restore", "keep"}
  /\ failed \in BOOLEAN /\ validated \subseteq Revisions /\ dropped \in BOOLEAN

(* The installation can always be started: the root holds a whole release   *)
(* that has passed its validation.  Only on Windows may it be missing for a *)
(* while, with a journal from which start-up recovers, unless an exchange   *)
(* failed halfway and apply() or rollback() removed the journal all the     *)
(* same.                                                                    *)
RootIsSound ==
  \/ place["root"] \in validated
  \/ platform = "windows" /\ place["root"] = None /\ (pending # NoTxn \/ dropped)

(* While there is a journal neither of the two releases it names is lost,   *)
(* whatever is interrupted or fails: extraction empties staging,            *)
(* finalizeAppliedRoot() the rollback root, and the deferred function       *)
(* staging again.                                                           *)
Journalled ==
  TypeOK /\ (pending # NoTxn =>
               \A r \in {pending.old, pending.new} : \E p \in Places : place[p] = r)

(* What recover() would find after repairInterruptedSwap().                 *)
Renamed(pl, c) ==
  IF RepairStep(pl, c) = {} THEN pl
  ELSE LET r == CHOOSE r \in RepairStep(pl, c) : TRUE
       IN  [pl EXCEPT ![r[2]] = pl[r[1]], ![r[1]] = None]

Accepted(t) ==
  LET repaired == Renamed(Renamed(place, t.cand), t.cand)
  IN  ~ Ambiguous(place, t.cand) /\ (NotExchanged(repaired, t) \/ Exchanged(repaired, t))

(* The old root has become the rollback root, but the journal is there.     *)
AlreadyRetained(t) ==
  t.cand = "staging" /\ place["root"] = t.new /\ place["rollback"] = t.old

(* An exchange that was interrupted anywhere, also one that was undoing     *)
(* another, can be reconciled by recover().                                 *)
InterruptedExchangeRecovers ==
  pc = "idle" /\ pending # NoTxn /\ ~ dropped /\ ~ AlreadyRetained(pending)
    => Accepted(pending)

(* A journal that is left behind can always be reconciled by recover(),     *)
(* which the launcher runs before it starts the program.  The code breaks   *)
(* it between the last rename of finalizeAppliedRoot() and the removal of   *)
(* the journal.                                                             *)
Reconcilable == pc = "idle" /\ pending # NoTxn => Accepted(pending)
=============================================================================
