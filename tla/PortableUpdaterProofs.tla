----------------------- MODULE PortableUpdaterProofs -----------------------
(***************************************************************************)
(* Proofs for PortableUpdater: for any releases and on both platforms, the *)
(* root can be started or recovered, neither release of a journal is lost, *)
(* and an interrupted exchange can be reconciled.                          *)
(***************************************************************************)
EXTENDS PortableUpdater, TLAPS

(* The layouts that a transaction goes through: before and after the        *)
(* exchange, and the two states in between, with one release aside.  What a *)
(* dropped journal has left aside stays there until the next update of      *)
(* staging.                                                                 *)
AsideFree(t) == place[Aside(t.cand)] = None \/ (dropped /\ t.cand = "rollback")

Before(t) == NotExchanged(place, t) /\ AsideFree(t)
After(t)  == Exchanged(place, t) /\ AsideFree(t)

RootAside(t, in, out) ==
  /\ platform = "windows" /\ place["root"] = None
  /\ place[t.cand] = in /\ place[Aside(t.cand)] = out

Activated(t, in, out) ==
  /\ platform = "windows" /\ place["root"] = in
  /\ place[t.cand] = None /\ place[Aside(t.cand)] = out

Between(t) ==
  \/ RootAside(t, t.new, t.old) \/ RootAside(t, t.old, t.new)
  \/ Activated(t, t.new, t.old) \/ Activated(t, t.old, t.new)

Retained_(t) ==
  AlreadyRetained(t) /\ place["staging"] = None /\ place["staging.old"] = None

Vetted(t) == t.old \in validated /\ t.new \in validated
Same(s, t) == s.cand = t.cand /\ s.old = t.old /\ s.new = t.new

(* A journal names two releases that were validated, and describes one of   *)
(* these layouts.                                                           *)
Journal ==
  pending # NoTxn =>
    Vetted(pending) /\ (Before(pending) \/ After(pending) \/ Between(pending) \/ Retained_(pending))

(* Only an exchange, or one that failed and was dropped, leaves a root      *)
(* aside, and only on Windows.                                              *)
NothingAside ==
  /\ platform = "linux" => place["staging.old"] = None /\ place["rollback.old"] = None
  /\ place["rollback.old"] # None =>
       dropped \/ (pending # NoTxn /\ pending.cand = "rollback" /\ Between(pending))

(* What the running process knows at each of its steps.                     *)
Running ==
  /\ sw # "begin" => Swapping
  /\ pc # "idle" => txn \in Transactions /\ (pending # NoTxn => Same(pending, txn))
  /\ pc \notin {"idle", "validate", "prepare", "cleanup"} => pending # NoTxn
  /\ pc = "prepare" => pending = NoTxn /\ Vetted(txn)
  /\ pc \in {"repair", "classify"} => op = "recover"
  /\ pc = "validate" => txn.old \in validated /\ (op = "recover") = (pending # NoTxn)

AtLabel ==
  /\ pc \in {"validate", "prepare"} => Before(txn)
  /\ pc \in {"mark", "check", "clear", "retain"} => After(txn)
  /\ pc \in {"clear", "retain"} => txn.cand = "staging"
  /\ pc = "retain" => place["rollback"] = None
  /\ pc = "retained" => Retained_(txn)
  /\ pc = "commit" => After(txn) \/ Retained_(txn)
  /\ pc = "drop" => failed \/ Before(txn)
  /\ pc = "classify" => place[Aside(txn.cand)] = None

(* Where the exchange is; unmark and swapback undo it.                      *)
Exchanging(from, to, in, out) ==
  /\ sw = "begin" => from
  /\ sw = "sync"  => to
  /\ sw \in {"activate", "restore"} => RootAside(txn, in, out)
  /\ sw = "keep" => Activated(txn, in, out)

InSwap ==
  /\ pc = "swap" => Exchanging(Before(txn), After(txn), txn.new, txn.old)
  /\ pc \in {"unmark", "swapback"} => Exchanging(After(txn), Before(txn), txn.old, txn.new)

IInv ==
  TypeOK /\ RootIsSound /\ Journal /\ NothingAside /\ Running /\ AtLabel /\ InSwap

-----------------------------------------------------------------------------
(* Extraction starts only without a journal, so emptying staging costs      *)
(* nothing that a journal names.                                            *)
LEMMA ExtractKeeps ==
  ASSUME IInv, NEW b \in Revisions, Extract(b) PROVE IInv'
<1> USE UpdaterAssumption DEF IInv, Places, Candidates, None, Damaged, NoTxn, Transactions,
   Phases, locals, Extract
<1>1. TypeOK'
  BY DEF TypeOK
<1>2. RootIsSound'
  BY DEF RootIsSound, TypeOK
<1>3. Journal'
  BY DEF Journal
<1>4. NothingAside'
  BY DEF NothingAside, TypeOK
<1>5. Running'
  BY DEF Running, Swapping, RootIsSound
<1>6. AtLabel'
  BY DEF AtLabel, TypeOK, Before, AsideFree, NotExchanged, Aside
<1>7. InSwap'
  BY DEF InSwap
<1> QED BY <1>1, <1>2, <1>3, <1>4, <1>5, <1>6, <1>7 DEF IInv

(* A failed extraction touches staging only, and there is no journal.       *)
LEMMA ExtractFailsKeeps ==
  ASSUME IInv, ExtractFails PROVE IInv'
<1> USE UpdaterAssumption DEF IInv, Places, Candidates, None, Damaged, NoTxn, Transactions,
   Phases, locals, ExtractFails, EmptyStaging
<1>1. TypeOK'
  BY DEF TypeOK
<1>2. RootIsSound'
  BY DEF RootIsSound, TypeOK
<1>3. Journal'
  BY DEF Journal
<1>4. NothingAside'
  BY DEF NothingAside, TypeOK
<1>5. Running'
  BY DEF Running, Swapping
<1>6. AtLabel'
  BY DEF AtLabel
<1>7. InSwap'
  BY DEF InSwap
<1> QED BY <1>1, <1>2, <1>3, <1>4, <1>5, <1>6, <1>7 DEF IInv

(* The rollback root is the candidate; the root has been validated before.  *)
LEMMA BeginRollbackKeeps ==
  ASSUME IInv, BeginRollback PROVE IInv'
<1> USE UpdaterAssumption DEF IInv, Places, Candidates, None, Damaged, NoTxn, Transactions,
   Phases, locals, BeginRollback
<1>1. TypeOK'
  BY DEF TypeOK
<1>2. RootIsSound'
  BY DEF RootIsSound
<1>3. Journal'
  BY DEF Journal
<1>4. NothingAside'
  BY DEF NothingAside
<1>5. Running'
  BY DEF Running, Swapping, RootIsSound
<1>6. AtLabel'
  BY DEF AtLabel, NothingAside, Before, AsideFree, NotExchanged, Aside
<1>7. InSwap'
  BY DEF InSwap
<1> QED BY <1>1, <1>2, <1>3, <1>4, <1>5, <1>6, <1>7 DEF IInv

(* The process takes its transaction from the journal.                      *)
LEMMA BeginRecoverKeeps ==
  ASSUME IInv, BeginRecover PROVE IInv'
<1> USE UpdaterAssumption DEF IInv, Places, Candidates, None, Damaged, NoTxn, Transactions,
   Phases, locals, BeginRecover
<1>1. TypeOK'
  BY DEF TypeOK
<1>2. RootIsSound'
  BY DEF RootIsSound
<1>3. Journal'
  BY DEF Journal, Vetted, Before, After, Between, Retained_, AsideFree, RootAside,
     Activated, AlreadyRetained
<1>4. NothingAside'
  BY DEF NothingAside, Between, RootAside, Activated
<1>5. Running'
  BY DEF Running, Same, Swapping, TypeOK
<1>6. AtLabel'
  BY DEF AtLabel
<1>7. InSwap'
  BY DEF InSwap
<1> QED BY <1>1, <1>2, <1>3, <1>4, <1>5, <1>6, <1>7 DEF IInv

(* Only a candidate that passed goes on; in recover() the journal is there  *)
(* already.                                                                 *)
LEMMA ValidateKeeps ==
  ASSUME IInv, Validate PROVE IInv'
<1> USE UpdaterAssumption DEF IInv, Places, Candidates, None, Damaged, NoTxn, Transactions,
   Phases, locals, Validate, Goto, Return
<1>1. TypeOK'
  BY DEF TypeOK, Running, Swapping, Aside
<1>2. RootIsSound'
  BY DEF RootIsSound
<1>3. Journal'
  BY DEF Journal, Vetted, Same, Running, AtLabel, Before, AsideFree, NotExchanged
<1>4. NothingAside'
  BY DEF NothingAside, Same, Running, AtLabel, Before, AsideFree, Aside
<1>5. Running'
  BY DEF Running, Vetted, Swapping
<1>6. AtLabel'
  BY DEF AtLabel, Before, AsideFree
<1>7. InSwap'
  BY DEF InSwap, Exchanging, AtLabel, Running, Swapping, Before, AsideFree
<1> QED BY <1>1, <1>2, <1>3, <1>4, <1>5, <1>6, <1>7 DEF IInv

(* The journal is written, or perhaps written, while the directories are    *)
(* still in the layout before the exchange.                                 *)
LEMMA PrepareKeeps ==
  ASSUME IInv, Prepare PROVE IInv'
<1> USE UpdaterAssumption DEF IInv, Places, Candidates, None, Damaged, NoTxn, Transactions,
   Phases, locals, Prepare, Written, Goto, Return
<1>1. TypeOK'
  BY DEF TypeOK
<1>2. RootIsSound'
  BY DEF RootIsSound, Running
<1>3. Journal'
  BY DEF Journal, Vetted, Running, AtLabel, Before, AsideFree
<1>4. NothingAside'
  BY DEF NothingAside, Running
<1>5. Running'
  BY DEF Running, Same, Swapping
<1>6. AtLabel'
  BY DEF AtLabel
<1>7. InSwap'
  BY DEF InSwap, Exchanging, AtLabel, Running, Swapping, Before, AsideFree
<1> QED BY <1>1, <1>2, <1>3, <1>4, <1>5, <1>6, <1>7 DEF IInv

(* The phase changes, the releases that the journal names do not.           *)
LEMMA MarkKeeps ==
  ASSUME IInv, Mark PROVE IInv'
<1> USE UpdaterAssumption DEF IInv, Places, Candidates, None, Damaged, NoTxn, Transactions,
   Phases, locals, Mark, Written, Goto, Return
<1>1. TypeOK'
  BY DEF TypeOK
<1>2. RootIsSound'
  BY DEF RootIsSound, Running
<1>3. Journal'
  BY DEF Journal, Vetted, Same, Running, AtLabel, After, AsideFree, Exchanged
<1>4. NothingAside'
  BY DEF NothingAside, Same, Running, AtLabel, After, AsideFree, Aside
<1>5. Running'
  BY DEF Running, Same, Swapping
<1>6. AtLabel'
  BY DEF AtLabel, After, AsideFree
<1>7. InSwap'
  BY DEF InSwap, Exchanging, AtLabel, Running, Swapping, After, AsideFree
<1> QED BY <1>1, <1>2, <1>3, <1>4, <1>5, <1>6, <1>7 DEF IInv

(* The exchange is done, and is either kept or undone.                      *)
LEMMA CheckKeeps ==
  ASSUME IInv, Check PROVE IInv'
<1> USE UpdaterAssumption DEF IInv, Places, Candidates, None, Damaged, NoTxn, Transactions,
   Phases, locals, Check, Goto
<1>1. TypeOK'
  BY DEF TypeOK
<1>2. RootIsSound'
  BY DEF RootIsSound
<1>3. Journal'
  BY DEF Journal, Vetted, Same, Running, AtLabel, After, AsideFree, Exchanged
<1>4. NothingAside'
  BY DEF NothingAside, Same, Running, AtLabel, After, AsideFree, Aside
<1>5. Running'
  BY DEF Running, Swapping
<1>6. AtLabel'
  BY DEF AtLabel, Running, After, AsideFree
<1>7. InSwap'
  BY DEF InSwap, Exchanging, AtLabel, Running, Swapping, After, AsideFree
<1> QED BY <1>1, <1>2, <1>3, <1>4, <1>5, <1>6, <1>7 DEF IInv

(* The journal may go: the root holds a validated release.                  *)
LEMMA CommitKeeps ==
  ASSUME IInv, Commit PROVE IInv'
<1> USE UpdaterAssumption DEF IInv, Places, Candidates, None, Damaged, NoTxn, Transactions,
   Phases, locals, Commit, RemovePending, Goto, Return
<1>1. TypeOK'
  BY DEF TypeOK
<1>2. RootIsSound'
  BY DEF RootIsSound, Running, AtLabel, After, Retained_, Exchanged, AlreadyRetained
<1>3. Journal'
  BY DEF Journal, Vetted, Same, Running, AtLabel, After, Retained_, AsideFree, Exchanged,
     AlreadyRetained
<1>4. NothingAside'
  BY DEF NothingAside, Same, Running, AtLabel, After, Retained_, AsideFree,
     AlreadyRetained, Aside
<1>5. Running'
  BY DEF Running, Swapping
<1>6. AtLabel'
  BY DEF AtLabel
<1>7. InSwap'
  BY DEF InSwap
<1> QED BY <1>1, <1>2, <1>3, <1>4, <1>5, <1>6, <1>7 DEF IInv

(* The journal goes after an exchange that was undone; one that failed is   *)
(* remembered in dropped.                                                   *)
LEMMA DropKeeps ==
  ASSUME IInv, Drop PROVE IInv'
<1> USE UpdaterAssumption DEF IInv, Places, Candidates, None, Damaged, NoTxn, Transactions,
   Phases, locals, Drop, RemovePending, Goto, Return
<1>1. TypeOK'
  BY DEF TypeOK
<1>2. RootIsSound'
  BY DEF RootIsSound, Running, AtLabel, TypeOK, Before, NotExchanged
<1>3. Journal'
  BY DEF Journal, Vetted, TypeOK, Before, After, Between, Retained_, AsideFree, RootAside,
     Activated, AlreadyRetained
<1>4. NothingAside'
  BY DEF NothingAside, Same, Running, AtLabel, TypeOK, Before, Between, NotExchanged,
     RootAside, Activated
<1>5. Running'
  BY DEF Running, Swapping
<1>6. AtLabel'
  BY DEF AtLabel
<1>7. InSwap'
  BY DEF InSwap
<1> QED BY <1>1, <1>2, <1>3, <1>4, <1>5, <1>6, <1>7 DEF IInv

(* The deferred function empties staging only without a journal.            *)
LEMMA CleanupKeeps ==
  ASSUME IInv, Cleanup PROVE IInv'
<1> USE UpdaterAssumption DEF IInv, Places, Candidates, None, Damaged, NoTxn, Transactions,
   Phases, locals, Cleanup, EmptyStaging, Goto
<1>1. TypeOK'
  BY DEF TypeOK
<1>2. RootIsSound'
  BY DEF RootIsSound, TypeOK
<1>3. Journal'
  BY DEF Journal, Vetted, Before, After, Between, Retained_, AsideFree, RootAside,
     Activated, AlreadyRetained
<1>4. NothingAside'
  BY DEF NothingAside, TypeOK, Between, RootAside, Activated
<1>5. Running'
  BY DEF Running, Swapping
<1>6. AtLabel'
  BY DEF AtLabel
<1>7. InSwap'
  BY DEF InSwap
<1> QED BY <1>1, <1>2, <1>3, <1>4, <1>5, <1>6, <1>7 DEF IInv

(* An exchange that does not begin leaves the layout as it was.             *)
LEMMA SwapRefusedKeeps ==
  ASSUME IInv, SwapRefused PROVE IInv'
<1> USE UpdaterAssumption DEF IInv, Places, Candidates, None, Damaged, NoTxn, Transactions,
   Phases, locals, SwapRefused, SwapReturns, Swapping, Goto, Return
<1>1. TypeOK'
  BY DEF TypeOK
<1>2. RootIsSound'
  BY DEF RootIsSound
<1>3. Journal'
  BY DEF Journal, Vetted, Before, After, Between, Retained_, AsideFree, RootAside,
     Activated, AlreadyRetained
<1>4. NothingAside'
  BY DEF NothingAside, Between, RootAside, Activated
<1>5. Running'
  BY DEF Running
<1>6. AtLabel'
  BY DEF AtLabel, Running, Same, Journal, InSwap, Exchanging, TypeOK, NothingAside,
     Swapping, Before, After, Between, Retained_, AsideFree, NotExchanged, Exchanged,
     RootAside, Activated, AlreadyRetained, Aside
<1>7. InSwap'
  BY DEF InSwap
<1> QED BY <1>1, <1>2, <1>3, <1>4, <1>5, <1>6, <1>7 DEF IInv

(* Linux: one call leads from the layout before to the one after.           *)
LEMMA ExchangeKeeps ==
  ASSUME IInv, Exchange PROVE IInv'
<1> USE UpdaterAssumption DEF IInv, Places, Candidates, None, Damaged, NoTxn, Transactions,
   Phases, locals, Exchange, SwapStep, Swapping
<1>1. TypeOK'
  BY DEF TypeOK, Running
<1>2. RootIsSound'
  BY DEF RootIsSound, Journal, Running, InSwap, Exchanging, TypeOK, Vetted, Same, Before,
     After, NotExchanged, Exchanged
<1>3. Journal'
  BY DEF Journal, Vetted, Same, Running, InSwap, Exchanging, TypeOK, Before, After,
     AsideFree, NotExchanged, Exchanged, Aside
<1>4. NothingAside'
  BY DEF NothingAside, TypeOK
<1>5. Running'
  BY DEF Running
<1>6. AtLabel'
  BY DEF AtLabel
<1>7. InSwap'
  BY DEF InSwap, Exchanging, Running, TypeOK, Before, After, AsideFree, NotExchanged,
     Exchanged, Aside
<1> QED BY <1>1, <1>2, <1>3, <1>4, <1>5, <1>6, <1>7 DEF IInv

(* A failed synchronisation does not undo the exchange.                     *)
LEMMA ExchangeSyncedKeeps ==
  ASSUME IInv, ExchangeSynced PROVE IInv'
<1> USE UpdaterAssumption DEF IInv, Places, Candidates, None, Damaged, NoTxn, Transactions,
   Phases, locals, ExchangeSynced, SwapReturns, Swapping, Goto, Return
<1>1. TypeOK'
  BY DEF TypeOK
<1>2. RootIsSound'
  BY DEF RootIsSound
<1>3. Journal'
  BY DEF Journal, Vetted, Before, After, Between, Retained_, AsideFree, RootAside,
     Activated, AlreadyRetained
<1>4. NothingAside'
  BY DEF NothingAside, Between, RootAside, Activated
<1>5. Running'
  BY DEF Running
<1>6. AtLabel'
  <2>1. /\ pc' \in {"idle", "cleanup", "drop", "mark", "check"}
        /\ pc' = "drop" => failed' \/ pc = "swapback"
        /\ pc' \in {"mark", "check"} => pc = "swap"
        /\ pc' \in {"drop", "mark", "check"} => txn' = txn
    OBVIOUS
  <2>2. (pc = "swap" => After(txn)) /\ (pc = "swapback" => Before(txn))
    BY DEF InSwap, Exchanging
  <2>3. UNCHANGED <<place, dropped>>
    OBVIOUS
  <2> QED BY <2>1, <2>2, <2>3 DEF AtLabel, Before, After, AsideFree, NotExchanged, Exchanged
<1>7. InSwap'
  BY DEF InSwap
<1> QED BY <1>1, <1>2, <1>3, <1>4, <1>5, <1>6, <1>7 DEF IInv

(* Windows: the root is aside and the candidate still in its place.         *)
LEMMA MoveAsideKeeps ==
  ASSUME IInv, MoveAside PROVE IInv'
<1> USE UpdaterAssumption DEF IInv, Places, Candidates, None, Damaged, NoTxn, Transactions,
   Phases, locals, MoveAside, Rename, SwapStep, Swapping
<1>1. TypeOK'
  BY DEF TypeOK
<1>2. RootIsSound'
  BY DEF RootIsSound, Running, TypeOK
<1>3. Journal'
  BY DEF Journal, Vetted, Same, Running, InSwap, Exchanging, TypeOK, Before, After,
     Between, NotExchanged, Exchanged, RootAside, Aside
<1>4. NothingAside'
  BY DEF NothingAside, Journal, Same, Running, TypeOK, Before, After, Between, Retained_,
     NotExchanged, Exchanged, RootAside, Activated, AlreadyRetained, Aside
<1>5. Running'
  BY DEF Running
<1>6. AtLabel'
  BY DEF AtLabel
<1>7. InSwap'
  BY DEF InSwap, Exchanging, Running, TypeOK, Before, After, NotExchanged, Exchanged,
     RootAside, Aside
<1> QED BY <1>1, <1>2, <1>3, <1>4, <1>5, <1>6, <1>7 DEF IInv

(* Windows: the candidate has become the root, or will not.                 *)
LEMMA ActivateKeeps ==
  ASSUME IInv, Activate PROVE IInv'
<1> USE UpdaterAssumption DEF IInv, Places, Candidates, None, Damaged, NoTxn, Transactions,
   Phases, locals, Activate, Rename, SwapStep, Swapping
<1>1. TypeOK'
  <2>1. place' \in [Places -> Revisions \cup {None, Damaged}]
    BY DEF TypeOK, Running, Swapping
  <2> QED BY <2>1 DEF TypeOK
<1>2. RootIsSound'
  BY DEF RootIsSound, Journal, Running, InSwap, Exchanging, TypeOK, Vetted, Same, RootAside
<1>3. Journal'
  BY DEF Journal, Vetted, Same, Running, InSwap, Exchanging, TypeOK, Between, RootAside,
     Activated, Aside
<1>4. NothingAside'
  BY DEF NothingAside, Same, Running, InSwap, Exchanging, TypeOK, Between, RootAside,
     Activated, Aside
<1>5. Running'
  BY DEF Running
<1>6. AtLabel'
  BY DEF AtLabel
<1>7. InSwap'
  BY DEF InSwap, Exchanging, Running, TypeOK, RootAside, Activated, Aside
<1> QED BY <1>1, <1>2, <1>3, <1>4, <1>5, <1>6, <1>7 DEF IInv

(* Windows: the root is put back, or is missing with its journal.           *)
LEMMA RestoreKeeps ==
  ASSUME IInv, Restore PROVE IInv'
<1> USE UpdaterAssumption DEF IInv, Places, Candidates, None, Damaged, NoTxn, Transactions,
   Phases, locals, Restore, Rename, SwapReturns, Swapping, Goto, Return
<1>1. TypeOK'
  BY DEF TypeOK, Aside
<1>2. RootIsSound'
  BY DEF RootIsSound, Journal, Running, InSwap, Exchanging, TypeOK, Vetted, Same, RootAside
<1>3. Journal'
  BY DEF Journal, Vetted, Same, Running, InSwap, Exchanging, TypeOK, Before, After,
     Between, AsideFree, NotExchanged, Exchanged, RootAside, Aside
<1>4. NothingAside'
  BY DEF NothingAside, Same, Running, TypeOK, Between, RootAside, Activated, Aside
<1>5. Running'
  BY DEF Running
<1>6. AtLabel'
  BY DEF AtLabel, Running, Same, Journal, InSwap, Exchanging, TypeOK, NothingAside,
     Swapping, Before, After, Between, Retained_, AsideFree, NotExchanged, Exchanged,
     RootAside, Activated, AlreadyRetained, Aside
<1>7. InSwap'
  BY DEF InSwap
<1> QED BY <1>1, <1>2, <1>3, <1>4, <1>5, <1>6, <1>7 DEF IInv

(* Windows: the old root takes the candidate's place, or stays aside.       *)
LEMMA KeepOldKeeps ==
  ASSUME IInv, KeepOld PROVE IInv'
<1> USE UpdaterAssumption DEF IInv, Places, Candidates, None, Damaged, NoTxn, Transactions,
   Phases, locals, KeepOld, Rename, SwapReturns, Swapping, Goto, Return
<1>1. TypeOK'
  <2>1. place' \in [Places -> Revisions \cup {None, Damaged}]
    BY DEF TypeOK, Running, Swapping, Aside
  <2>2. pc' \in {"idle", "cleanup", "drop", "check", "mark"}
    OBVIOUS
  <2>3. op' \in {op, "none"} /\ txn' \in {txn, NoTxn} /\ sw' = "begin" /\ failed' \in BOOLEAN
    OBVIOUS
  <2> QED BY <2>1, <2>2, <2>3 DEF TypeOK
<1>2. RootIsSound'
  BY DEF RootIsSound, TypeOK, Aside
<1>3. Journal'
  BY DEF Journal, Vetted, Same, Running, InSwap, Exchanging, TypeOK, Before, After,
     Between, AsideFree, NotExchanged, Exchanged, Activated, Aside
<1>4. NothingAside'
  BY DEF NothingAside, TypeOK, Between, RootAside, Activated, Aside
<1>5. Running'
  BY DEF Running
<1>6. AtLabel'
  <2>1. /\ pc' \in {"idle", "cleanup", "drop", "mark", "check"}
        /\ pc' = "drop" /\ ~ failed' => pc = "swapback" /\ Rename(Aside(txn.cand), txn.cand)
        /\ pc' \in {"mark", "check"} => pc = "swap" /\ Rename(Aside(txn.cand), txn.cand)
        /\ pc' \in {"drop", "mark", "check"} => txn' = txn
    OBVIOUS
  <2>2. /\ pc = "swap" => Activated(txn, txn.new, txn.old)
        /\ pc = "swapback" => Activated(txn, txn.old, txn.new)
    BY DEF InSwap, Exchanging
  <2>3. ASSUME Rename(Aside(txn.cand), txn.cand), txn' = txn
        PROVE  (pc = "swap" => After(txn)') /\ (pc = "swapback" => Before(txn)')
    BY <2>2, <2>3 DEF Before, After, AsideFree, NotExchanged, Exchanged, Activated, Aside,
       TypeOK, Running
  <2> QED BY <2>1, <2>3 DEF AtLabel
<1>7. InSwap'
  BY DEF InSwap
<1> QED BY <1>1, <1>2, <1>3, <1>4, <1>5, <1>6, <1>7 DEF IInv

(* The rollback root is emptied while the old root is in staging.           *)
LEMMA ClearKeeps ==
  ASSUME IInv, Clear PROVE IInv'
<1> USE UpdaterAssumption DEF IInv, Places, Candidates, None, Damaged, NoTxn, Transactions,
   Phases, locals, Clear, Goto, Return
<1>1. TypeOK'
  BY DEF TypeOK
<1>2. RootIsSound'
  BY DEF RootIsSound, TypeOK
<1>3. Journal'
  BY DEF Journal, Vetted, Same, Running, AtLabel, TypeOK, After, AsideFree, Exchanged,
     Aside
<1>4. NothingAside'
  BY DEF NothingAside, Same, Running, AtLabel, TypeOK
<1>5. Running'
  BY DEF Running, Swapping
<1>6. AtLabel'
  BY DEF AtLabel, TypeOK, After, AsideFree, Exchanged, Aside
<1>7. InSwap'
  BY DEF InSwap
<1> QED BY <1>1, <1>2, <1>3, <1>4, <1>5, <1>6, <1>7 DEF IInv

(* The old root becomes the rollback root.                                  *)
LEMMA RetainKeeps ==
  ASSUME IInv, Retain PROVE IInv'
<1> USE UpdaterAssumption DEF IInv, Places, Candidates, None, Damaged, NoTxn, Transactions,
   Phases, locals, Retain, Rename, Goto, Return
<1>1. TypeOK'
  BY DEF TypeOK, Running
<1>2. RootIsSound'
  BY DEF RootIsSound, TypeOK
<1>3. Journal'
  BY DEF Journal, Vetted, Same, Running, AtLabel, TypeOK, After, Retained_, AsideFree,
     Exchanged, AlreadyRetained, Aside
<1>4. NothingAside'
  BY DEF NothingAside, Same, Running, AtLabel, TypeOK
<1>5. Running'
  BY DEF Running, Swapping
<1>6. AtLabel'
  BY DEF AtLabel, TypeOK, After, Retained_, AsideFree, Exchanged, AlreadyRetained, Aside
<1>7. InSwap'
  BY DEF InSwap
<1> QED BY <1>1, <1>2, <1>3, <1>4, <1>5, <1>6, <1>7 DEF IInv

(* Nothing moves; the journal still names both releases.                    *)
LEMMA RetainedKeeps ==
  ASSUME IInv, Retained PROVE IInv'
<1> USE UpdaterAssumption DEF IInv, Places, Candidates, None, Damaged, NoTxn, Transactions,
   Phases, locals, Retained, Goto, Return
<1>1. TypeOK'
  BY DEF TypeOK
<1>2. RootIsSound'
  BY DEF RootIsSound
<1>3. Journal'
  BY DEF Journal, Vetted, Same, Running, AtLabel, Retained_, AlreadyRetained
<1>4. NothingAside'
  BY DEF NothingAside, Same, Running, AtLabel, Retained_, AlreadyRetained
<1>5. Running'
  BY DEF Running, Swapping
<1>6. AtLabel'
  BY DEF AtLabel, Retained_, AlreadyRetained
<1>7. InSwap'
  BY DEF InSwap
<1> QED BY <1>1, <1>2, <1>3, <1>4, <1>5, <1>6, <1>7 DEF IInv

(* Each rename leads from one layout in between to the next, and the last   *)
(* one to a complete layout.                                                *)
LEMMA RepairKeeps ==
  ASSUME IInv, Repair PROVE IInv'
<1> USE UpdaterAssumption DEF IInv, Places, Candidates, None, Damaged, NoTxn, Transactions,
   Phases, locals, Repair, RepairStep, Ambiguous, Rename, Goto, Return
<1>1. TypeOK'
  BY DEF TypeOK, Running, Aside
<1>2. RootIsSound'
  BY DEF RootIsSound, Journal, Running, TypeOK, Vetted, Same, Before, After, Between,
     Retained_, NotExchanged, Exchanged, RootAside, Activated, AlreadyRetained, Aside
<1>3. Journal'
  BY DEF Journal, Vetted, Same, Running, TypeOK, Before, After, Between, Retained_,
     AsideFree, NotExchanged, Exchanged, RootAside, Activated, AlreadyRetained, Aside
<1>4. NothingAside'
  BY DEF NothingAside, Same, Running, TypeOK, Between, RootAside, Activated, Aside
<1>5. Running'
  BY DEF Running, Swapping
<1>6. AtLabel'
  BY DEF AtLabel, Running, Same, Journal, InSwap, Exchanging, TypeOK, NothingAside,
     Swapping, Before, After, Between, Retained_, AsideFree, NotExchanged, Exchanged,
     RootAside, Activated, AlreadyRetained, Aside
<1>7. InSwap'
  BY DEF InSwap
<1> QED BY <1>1, <1>2, <1>3, <1>4, <1>5, <1>6, <1>7 DEF IInv

(* recover() goes on from the layout that it finds.                         *)
LEMMA ClassifyKeeps ==
  ASSUME IInv, Classify PROVE IInv'
<1> USE UpdaterAssumption DEF IInv, Places, Candidates, None, Damaged, NoTxn, Transactions,
   Phases, locals, Classify, Goto, Return
<1>1. TypeOK'
  BY DEF TypeOK
<1>2. RootIsSound'
  BY DEF RootIsSound
<1>3. Journal'
  BY DEF Journal, Vetted, Before, After, Between, Retained_, AsideFree, RootAside,
     Activated, AlreadyRetained
<1>4. NothingAside'
  BY DEF NothingAside, Same, Running, AtLabel, Aside
<1>5. Running'
  BY DEF Running, Same, Vetted, Swapping, Journal
<1>6. AtLabel'
  BY DEF AtLabel, Before, After, AsideFree
<1>7. InSwap'
  BY DEF InSwap
<1> QED BY <1>1, <1>2, <1>3, <1>4, <1>5, <1>6, <1>7 DEF IInv

(* The locals are lost; journal and directories describe each other.        *)
LEMMA CrashKeeps ==
  ASSUME IInv, Crash PROVE IInv'
<1> USE UpdaterAssumption DEF IInv, Places, Candidates, None, Damaged, NoTxn, Transactions,
   Phases, locals, Crash, Goto
<1>1. TypeOK'
  BY DEF TypeOK, Running, Swapping, Aside
<1>2. RootIsSound'
  BY DEF RootIsSound
<1>3. Journal'
  BY DEF Journal, Vetted, Before, After, Between, Retained_, AsideFree, RootAside,
     Activated, AlreadyRetained
<1>4. NothingAside'
  BY DEF NothingAside, Between, RootAside, Activated
<1>5. Running'
  BY DEF Running
<1>6. AtLabel'
  BY DEF AtLabel
<1>7. InSwap'
  BY DEF InSwap
<1> QED BY <1>1, <1>2, <1>3, <1>4, <1>5, <1>6, <1>7 DEF IInv

(* A step that changes nothing.                                             *)
LEMMA IdleKeeps ==
  ASSUME IInv, UNCHANGED vars PROVE IInv'
<1> USE UpdaterAssumption DEF IInv, Places, Candidates, None, Damaged, NoTxn, Transactions,
   Phases, locals, vars
<1>1. TypeOK'
  BY DEF TypeOK
<1>2. RootIsSound'
  BY DEF RootIsSound
<1>3. Journal'
  BY DEF Journal, Vetted, Before, After, Between, Retained_, AsideFree, RootAside,
     Activated, AlreadyRetained
<1>4. NothingAside'
  BY DEF NothingAside, Between, RootAside, Activated
<1>5. Running'
  BY DEF Running, Vetted, Swapping
<1>6. AtLabel'
  BY DEF AtLabel, Before, After, Retained_, AsideFree, AlreadyRetained
<1>7. InSwap'
  BY DEF InSwap, Exchanging, Before, After, AsideFree, RootAside, Activated
<1> QED BY <1>1, <1>2, <1>3, <1>4, <1>5, <1>6, <1>7 DEF IInv

-----------------------------------------------------------------------------
(* A first installation: one validated release, nothing else.               *)
LEMMA InitIInv == Init => IInv
<1> SUFFICES ASSUME Init PROVE IInv
  OBVIOUS
<1> USE UpdaterAssumption DEF Init, Places, Candidates, None, Damaged, NoTxn
<1>1. TypeOK
  BY DEF TypeOK
<1>2. RootIsSound /\ Journal /\ NothingAside
  BY DEF RootIsSound, Journal, NothingAside
<1>3. Running /\ AtLabel /\ InSwap
  BY DEF Running, AtLabel, InSwap
<1> QED BY <1>1, <1>2, <1>3 DEF IInv

(* The inductive invariant: whatever is interrupted, a journal describes    *)
(* one of the known layouts, and the process is where its label says.       *)
THEOREM IInvHolds == Spec => []IInv
<1>1. IInv /\ [Next]_vars => IInv'
  BY ExtractKeeps, ExtractFailsKeeps, BeginRollbackKeeps, BeginRecoverKeeps, ValidateKeeps,
     PrepareKeeps, MarkKeeps, CheckKeeps, CommitKeeps, DropKeeps, CleanupKeeps,
     SwapRefusedKeeps, ExchangeKeeps, ExchangeSyncedKeeps, MoveAsideKeeps, ActivateKeeps,
     RestoreKeeps, KeepOldKeeps, ClearKeeps, RetainKeeps, RetainedKeeps, RepairKeeps,
     ClassifyKeeps, CrashKeeps, IdleKeeps DEF Next, Swap
<1> QED BY <1>1, InitIInv, PTL DEF Spec

(* The installation can be started after any sequence of updates, rollbacks *)
(* and recoveries with failing calls and deaths of the process: the root    *)
(* holds a validated release, or, on Windows, is missing with a journal,    *)
(* unless the journal was removed after an exchange that failed halfway.    *)
THEOREM RootStaysSound == Spec => []RootIsSound
BY IInvHolds, PTL DEF IInv

(* While there is a journal both releases it names are in one of the        *)
(* directories: extraction, finalizeAppliedRoot() and the deferred removal  *)
(* of staging never touch what recover() still needs.                       *)
THEOREM NothingIsLost == Spec => []Journalled
<1>1. IInv => Journalled
  BY DEF IInv, Journalled, Journal, Before, After, Between, Retained_, NotExchanged,
     Exchanged, RootAside, Activated, AlreadyRetained, TypeOK, Transactions, Places,
     Candidates, Aside
<1> QED BY <1>1, IInvHolds, PTL

(* What the two renames of repairInterruptedSwap() do.                       *)
LEMMA RootRenamed ==
  ASSUME NEW pl, NEW c, RepairStep(pl, c) = {<<c, "root">>}
  PROVE  Renamed(pl, c) = [pl EXCEPT !["root"] = pl[c], ![c] = None]
<1> DEFINE r == CHOOSE r \in RepairStep(pl, c) : TRUE
<1>1. r = <<c, "root">>
  OBVIOUS
<1>2. r[1] = c /\ r[2] = "root"
  BY <1>1
<1>3. Renamed(pl, c) = [pl EXCEPT ![r[2]] = pl[r[1]], ![r[1]] = None]
  BY DEF Renamed
<1> HIDE DEF r
<1> QED BY <1>2, <1>3

(* The second rename: the old root takes the candidate's place.             *)
LEMMA AsideRenamed ==
  ASSUME NEW pl, NEW c, RepairStep(pl, c) = {<<Aside(c), c>>}
  PROVE  Renamed(pl, c) = [pl EXCEPT ![c] = pl[Aside(c)], ![Aside(c)] = None]
<1> DEFINE r == CHOOSE r \in RepairStep(pl, c) : TRUE
<1>1. r = <<Aside(c), c>>
  OBVIOUS
<1>2. r[1] = Aside(c) /\ r[2] = c
  BY <1>1
<1>3. Renamed(pl, c) = [pl EXCEPT ![r[2]] = pl[r[1]], ![r[1]] = None]
  BY DEF Renamed
<1> HIDE DEF r
<1> QED BY <1>2, <1>3

(* repairInterruptedSwap() finishes an exchange that has begun and leaves   *)
(* the others alone.                                                        *)
LEMMA Repairs ==
  ASSUME TypeOK, NEW t \in Transactions,
         \/ Between(t)
         \/ place[Aside(t.cand)] = None /\ (NotExchanged(place, t) \/ Exchanged(place, t))
  PROVE  Accepted(t)
<1> DEFINE c == t.cand
           once == Renamed(place, c)
           twice == Renamed(once, c)
<1> USE UpdaterAssumption DEF TypeOK, Transactions, Candidates, Places, None, Damaged
<1>0. /\ c \in Candidates /\ Aside(c) \in Places /\ Aside(c) # c /\ Aside(c) # "root"
      /\ c # "root" /\ c \in Places /\ t.old \in Revisions /\ t.new \in Revisions
  BY DEF Aside
<1>1. CASE place[Aside(c)] = None /\ (NotExchanged(place, t) \/ Exchanged(place, t))
  <2>1. once = place
    BY <1>1 DEF RepairStep, Renamed
  <2>2. twice = place
    BY <1>1, <2>1 DEF RepairStep, Renamed
  <2> QED BY <1>1, <2>2 DEF Accepted, Ambiguous
<1>2. ASSUME NEW in \in {t.old, t.new}, NEW out \in {t.old, t.new}, {in, out} = {t.old, t.new},
             NEW pl \in [Places -> Revisions \cup {None, Damaged}],
             pl["root"] = in, pl[c] = None, pl[Aside(c)] = out
      PROVE  NotExchanged(Renamed(pl, c), t) \/ Exchanged(Renamed(pl, c), t)
  <2>1. RepairStep(pl, c) = {<<Aside(c), c>>}
    BY <1>0, <1>2 DEF RepairStep
  <2>2. Renamed(pl, c) = [pl EXCEPT ![c] = pl[Aside(c)], ![Aside(c)] = None]
    BY <2>1, AsideRenamed
  <2>3. Renamed(pl, c)["root"] = in /\ Renamed(pl, c)[c] = out
    BY <1>0, <1>2, <2>2
  <2> QED BY <1>2, <2>3 DEF NotExchanged, Exchanged
<1>3. ASSUME NEW in \in {t.old, t.new}, NEW out \in {t.old, t.new}, {in, out} = {t.old, t.new},
             RootAside(t, in, out)
      PROVE  Accepted(t)
  <2>1. RepairStep(place, c) = {<<c, "root">>} /\ ~ Ambiguous(place, c)
    BY <1>0, <1>3 DEF RepairStep, RootAside, Ambiguous
  <2>2. once = [place EXCEPT !["root"] = place[c], ![c] = None]
    BY <2>1, RootRenamed
  <2>3. /\ once \in [Places -> Revisions \cup {None, Damaged}]
        /\ once["root"] = in /\ once[c] = None /\ once[Aside(c)] = out
    BY <1>0, <1>3, <2>2 DEF RootAside
  <2>4. NotExchanged(twice, t) \/ Exchanged(twice, t)
    BY <1>2, <1>3, <2>3
  <2> QED BY <2>1, <2>4 DEF Accepted
<1>4. ASSUME NEW in \in {t.old, t.new}, NEW out \in {t.old, t.new}, {in, out} = {t.old, t.new},
             Activated(t, in, out)
      PROVE  Accepted(t)
  <2>1. ~ Ambiguous(place, c) /\ place["root"] = in /\ place[c] = None /\ place[Aside(c)] = out
    BY <1>0, <1>4 DEF Activated, Ambiguous
  <2>2. NotExchanged(once, t) \/ Exchanged(once, t)
    BY <1>2, <1>4, <2>1
  <2>3. RepairStep(place, c) = {<<Aside(c), c>>}
    BY <1>0, <2>1 DEF RepairStep
  <2>4. once = [place EXCEPT ![c] = place[Aside(c)], ![Aside(c)] = None]
    BY <2>3, AsideRenamed
  <2>5. twice = once
    BY <1>0, <2>4 DEF RepairStep, Renamed
  <2> QED BY <2>1, <2>2, <2>5 DEF Accepted
<1> QED BY <1>0, <1>1, <1>3, <1>4 DEF Between

(* An exchange that was interrupted anywhere, also one that was undoing     *)
(* another, is brought to one of the two layouts that recover() accepts, as *)
(* long as no journal was removed after a failed exchange and the old root  *)
(* is not the rollback root already.                                        *)
THEOREM Recovers == Spec => []InterruptedExchangeRecovers
<1>1. IInv => InterruptedExchangeRecovers
  <2> SUFFICES ASSUME IInv, pending # NoTxn, ~ dropped, ~ AlreadyRetained(pending)
               PROVE  Accepted(pending)
    BY DEF InterruptedExchangeRecovers
  <2>1. TypeOK /\ pending \in Transactions
    BY DEF IInv, TypeOK
  <2>2. \/ Between(pending)
        \/ /\ place[Aside(pending.cand)] = None
           /\ NotExchanged(place, pending) \/ Exchanged(place, pending)
    BY DEF IInv, Journal, Before, After, AsideFree, Retained_
  <2> QED BY <2>1, <2>2, Repairs
<1> QED BY <1>1, IInvHolds, PTL
=============================================================================
