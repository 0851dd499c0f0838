----------------------------- MODULE ShortLinks -----------------------------
(***************************************************************************)
(* The short links of src/src/handler/short_link_storage.cpp: a map from   *)
(* codes to target URLs that is kept in memory, written to one file after  *)
(* every change and loaded on first use.  storage_mutex makes each call    *)
(* one step; what can go wrong are the file system calls inside it and a   *)
(* restart of the process between two calls.                               *)
(*                                                                         *)
(* now_ms is read before the lock and from the system clock, so a call may *)
(* come with any time.  Only well-formed codes and URLs get past the first *)
(* lines of the calls.  Of the times of a record the storage only uses     *)
(* retentionTime(), the last access or else the creation; names and the    *)
(* time of the last update are passed through and left out.                *)
(***************************************************************************)
EXTENDS Naturals, FiniteSets

CONSTANTS
  Codes, Urls,
  Times,          \* the values of now_ms
  CodeOrder,      \* the order of codes as strings
  max_entries     \* configuredMaxEntries()

ASSUME ShortLinkAssumption ==
  /\ IsFiniteSet(Codes) /\ Times \subseteq Nat /\ max_entries \in Nat \ {0}
  /\ CodeOrder \in [Codes -> Nat]
  /\ \A c, d \in Codes : CodeOrder[c] = CodeOrder[d] => c = d

Record == [url : Urls, retentionTime : Times]
Store == UNION {[S -> Record] : S \in SUBSET Codes}

VARIABLES
  records, loaded,   \* the map in memory
  file,              \* the map in the file
  answer,            \* the last call, its code and what it returned
  told,              \* history: per code the URL its client was told of
  deleted,           \* history: the codes whose deletion was confirmed
  misread            \* history: the file could not be read once

linksVars == <<records, loaded, file, answer, told, deleted, misread>>

NoCode == "-"
Empty == [c \in {} |-> 0]

Put(store, c, r) == [d \in DOMAIN store \cup {c} |-> IF d = c THEN r ELSE store[d]]
Without(store, S) == [d \in DOMAIN store \ S |-> store[d]]

(* The file may hold more than max_entries links, written under an older    *)
(* limit; all of them were confirmed to somebody.                           *)
LinksInit ==
  /\ records = Empty /\ loaded = FALSE
  /\ file \in {[c \in S |-> [url |-> u, retentionTime |-> t]] :
                 S \in SUBSET Codes, u \in Urls, t \in Times}
  /\ answer = <<"start", NoCode, "ok">>
  /\ told = [c \in DOMAIN file |-> file[c].url]
  /\ deleted = {} /\ misread = FALSE

-----------------------------------------------------------------------------
(* loadLocked(): a file that cannot be read or parsed counts as empty.      *)
Load(mem) ==
  /\ loaded' = TRUE
  /\ \/ loaded /\ mem = records /\ UNCHANGED misread
     \/ ~ loaded /\ mem = file /\ UNCHANGED misread
     \/ ~ loaded /\ mem = Empty /\ file # Empty /\ misread' = TRUE

(* saveLocked(): the file is replaced as a whole or not at all.             *)
Saved(mem)  == file' = mem
SaveFailed == UNCHANGED file

Older(store, c, d) ==
  \/ store[c].retentionTime < store[d].retentionTime
  \/ store[c].retentionTime = store[d].retentionTime /\ CodeOrder[c] < CodeOrder[d]

(* pruneLocked(): the records that go are the oldest beyond the limit.      *)
Pruned(store, n) ==
  {c \in DOMAIN store :
     n # 0 /\ Cardinality({d \in DOMAIN store : Older(store, c, d)}) >= n}

(* Clients lose what is pruned or deleted.                                  *)
Forget(S) == told' = Without(told, S)

-----------------------------------------------------------------------------
(* createShortLink()                                                       *)

FindsUrl(mem, url, c) == c \in DOMAIN mem /\ mem[c].url = url

(* Any of the codes of a URL, in the order of the hash map.                 *)
CreateDuplicate(url) ==
  \E mem \in {records, file, Empty} : \E c \in DOMAIN mem :
    /\ Load(mem) /\ FindsUrl(mem, url, c)
    /\ records' = mem /\ answer' = <<"create", c, "ok">>
    /\ told' = Put(told, c, url)
    /\ UNCHANGED <<file, deleted>>

(* makeCodeLocked() gives up after 128 draws.                               *)
CreateExhausted(url) ==
  \E mem \in {records, file, Empty} :
    /\ Load(mem) /\ \A c \in DOMAIN mem : mem[c].url # url
    /\ records' = mem /\ answer' = <<"create", NoCode, "code-exhausted">>
    /\ UNCHANGED <<file, told, deleted>>

(* The new record and the pruning that follows it; what is pruned stays     *)
(* pruned in memory even when the new record does not make it to the file.  *)
CreateNew(url, now) ==
  \E mem \in {records, file, Empty} : \E c \in Codes :
    LET r    == [url |-> url, retentionTime |-> now]
        gone == Pruned(Put(mem, c, r), max_entries)
        kept == Without(Put(mem, c, r), gone)
    IN /\ Load(mem) /\ c \notin DOMAIN mem /\ \A d \in DOMAIN mem : mem[d].url # url
       /\ \/ /\ c \in gone /\ records' = kept /\ UNCHANGED <<file, deleted>>
             /\ answer' = <<"create", NoCode, "code-exhausted">> /\ Forget(gone)
          \/ /\ c \notin gone /\ records' = kept /\ Saved(kept)
             /\ answer' = <<"create", c, "ok">> /\ deleted' = deleted \ {c}
             /\ told' = Put(Without(told, gone), c, url)
          \/ /\ c \notin gone /\ records' = Without(kept, {c}) /\ SaveFailed
             /\ answer' = <<"create", c, "storage-unavailable">> /\ UNCHANGED deleted
             /\ Forget(gone)

-----------------------------------------------------------------------------
(* updateShortLink()                                                       *)

(* Fault: a record that could not be written keeps its new target.          *)
Update_NoRollback(c, url) ==
  \E mem \in {records, file, Empty} :
    /\ Load(mem) /\ c \in DOMAIN mem
    /\ LET new == Put(mem, c, [mem[c] EXCEPT !.url = url]) IN
       \/ /\ records' = new /\ Saved(new)
          /\ answer' = <<"update", c, "ok">> /\ told' = Put(told, c, url)
       \/ /\ records' = new /\ SaveFailed
          /\ answer' = <<"update", c, "storage-unavailable">> /\ UNCHANGED told
    /\ UNCHANGED deleted

(* Fault: an update that could not be written is confirmed.                 *)
Update_Confirms(c, url) ==
  \E mem \in {records, file, Empty} :
    /\ Load(mem) /\ c \in DOMAIN mem
    /\ LET new == Put(mem, c, [mem[c] EXCEPT !.url = url]) IN
       \/ records' = new /\ Saved(new)
       \/ records' = mem /\ SaveFailed
    /\ answer' = <<"update", c, "ok">> /\ told' = Put(told, c, url)
    /\ UNCHANGED deleted

Update(c, url) ==
  \E mem \in {records, file, Empty} :
    /\ Load(mem) /\ c \in DOMAIN mem
    /\ LET new == Put(mem, c, [mem[c] EXCEPT !.url = url]) IN
       \/ /\ records' = new /\ Saved(new)
          /\ answer' = <<"update", c, "ok">> /\ told' = Put(told, c, url)
       \/ /\ records' = mem /\ SaveFailed
          /\ answer' = <<"update", c, "storage-unavailable">> /\ UNCHANGED told
    /\ UNCHANGED deleted

(* Every call for a code that is not in memory.                             *)
NotFound(c) ==
  \E mem \in {records, file, Empty} :
    /\ Load(mem) /\ c \notin DOMAIN mem
    /\ records' = mem /\ answer' = <<"lookup", c, "not-found">>
    /\ UNCHANGED <<file, told, deleted>>

(* Fault: a deletion that was not written is confirmed.                     *)
Delete_Confirms(c) ==
  \E mem \in {records, file, Empty} :
    /\ Load(mem) /\ c \in DOMAIN mem
    /\ records' = Without(mem, {c}) /\ Forget({c})
    /\ Saved(records') \/ SaveFailed
    /\ answer' = <<"delete", c, "ok">> /\ deleted' = deleted \cup {c}

(* deleteShortLink(): memory is not restored when the file is not written.  *)
Delete(c) ==
  \E mem \in {records, file, Empty} :
    /\ Load(mem) /\ c \in DOMAIN mem
    /\ records' = Without(mem, {c}) /\ Forget({c})
    /\ \/ /\ Saved(records') /\ answer' = <<"delete", c, "ok">>
          /\ deleted' = deleted \cup {c}
       \/ SaveFailed /\ answer' = <<"delete", c, "failed">> /\ UNCHANGED deleted

(* pruneShortLinks()                                                        *)
Prune ==
  \E mem \in {records, file, Empty} :
    /\ Load(mem)
    /\ records' = Without(mem, Pruned(mem, max_entries))
    /\ Forget(Pruned(mem, max_entries))
    /\ Saved(records') \/ SaveFailed
    /\ answer' = <<"prune", NoCode, "ok">> /\ UNCHANGED deleted

(* resolveShortLink(): the access time is written if possible.              *)
Resolve(c, now) ==
  \E mem \in {records, file, Empty} :
    /\ Load(mem) /\ c \in DOMAIN mem
    /\ records' = Put(mem, c, [mem[c] EXCEPT !.retentionTime = now])
    /\ Saved(records') \/ SaveFailed
    /\ answer' = <<"resolve", c, "ok">> /\ UNCHANGED <<told, deleted>>

(* The process stops between two calls and starts again.                    *)
Restart ==
  /\ loaded' = FALSE /\ records' = Empty
  /\ answer' = <<"start", NoCode, "ok">>
  /\ UNCHANGED <<file, told, deleted, misread>>

LinksNext ==
  \/ Prune \/ Restart
  \/ \E url \in Urls : CreateDuplicate(url) \/ CreateExhausted(url)
  \/ \E url \in Urls, now \in Times : CreateNew(url, now)
  \/ \E c \in Codes : NotFound(c) \/ Delete(c)
  \/ \E c \in Codes, now \in Times : Resolve(c, now)
  \/ \E c \in Codes, url \in Urls : Update(c, url)

LinksSpec == LinksInit /\ [][LinksNext]_linksVars

-----------------------------------------------------------------------------
(* Properties.                                                             *)

(* Every variable has its type.                                             *)
TypeOK ==
  /\ records \in Store /\ file \in Store /\ loaded \in BOOLEAN
  /\ told \in UNION {[S -> Urls] : S \in SUBSET Codes}
  /\ deleted \subseteq Codes /\ misread \in BOOLEAN

(* Whatever the server answers with from memory it would answer with after  *)
(* a restart too: no failed write leaves a record or a target in memory     *)
(* that is not in the file.                                                 *)
MemoryIsOnDisk ==
  \A c \in DOMAIN records : c \in DOMAIN file /\ file[c].url = records[c].url

(* A link that a client was told of, and that nobody has deleted, pruned or *)
(* retargeted since, is in the file with that target, across failed writes  *)
(* and restarts, unless the file could not be read at some start.           *)
ConfirmedSurvives ==
  ~ misread =>
    \A c \in DOMAIN told : c \in DOMAIN file /\ file[c].url = told[c]

(* A confirmed deletion is final: no restart brings the link back.          *)
DeletedStaysDeleted == deleted \cap (DOMAIN file \cup DOMAIN records) = {}

=============================================================================
