----------------------------- MODULE Durability -----------------------------
(***************************************************************************)
(* HNSWIndex::compact, save and load with the WAL: what survives a crash.  *)
(*                                                                         *)
(* The application logs an operation, applies it to the index and only     *)
(* then reports it done; after a crash it loads the index file and replays *)
(* the log (tests/test_hnsw.cpp, "WAL recovery test").  No caller under    *)
(* src/ combines the two, so this order is the application's.  The log is  *)
(* the list of records that replay hands back (module Wal), the index file *)
(* that of module IndexFile; the graph is rebuilt by every insert.         *)
(***************************************************************************)
EXTENDS IndexFile, SequencesExt

CONSTANTS
    Ids,             \* external ids, each inserted at most once
    OldIds,          \* the ids in the version 1 index file found at the start
    Concurrent,      \* may operations run while compact or save does?
    CrashPoints      \* where compact or save may be when the process dies

ASSUME CrashAssumption ==
    /\ OldIds \subseteq Ids
    /\ IsFiniteSet(OldIds)
    /\ Concurrent \in BOOLEAN
    /\ "idle" \in CrashPoints
    /\ CrashPoints \subseteq {"idle", "copied", "saving", "saved"}

VARIABLES
    index,    \* the slots of the index in memory
    up,       \* is the process running?
    file,     \* the index file, Torn while save writes it
    log,      \* the records in the WAL
    pending,  \* the operation that is logged and not yet applied, or None
    cpc,      \* where compact is, or a save by the application
    whole,    \* is the live index being saved, and not compact's fresh one?
    fresh,    \* the slots of compact's fresh index
    nv,       \* the vector count save read before it took the lock
    used,     \* history: the ids ever inserted
    live      \* history: the ids reported inserted and not reported deleted

app     == <<index, pending, used, live>>
disk    == <<file, log>>
compact == <<cpc, whole, fresh, nv>>
vars    == <<app, disk, compact, up>>

None == [op |-> "none", id |-> 0]
-----------------------------------------------------------------------------
\* insert: one more slot.
Inserted(slots, id) == Append(slots, [id |-> id, dead |-> FALSE])

\* delete_vector: tombstone the first slot that has the id.
Deleted(slots, id) ==
    [i \in DOMAIN slots |->
        IF slots[i].id = id /\ \A j \in 1 .. i - 1 : slots[j].id # id
        THEN [slots[i] EXCEPT !.dead = TRUE] ELSE slots[i]]

Applied(slots, r) == IF r.op = "insert" THEN Inserted(slots, r.id) ELSE Deleted(slots, r.id)

\* The slots compact copies into its fresh index.
LiveSlots(slots) ==
    LET copied[n \in 0 .. Len(slots)] ==
            IF n = 0 THEN << >>
            ELSE IF slots[n].dead THEN copied[n - 1] ELSE Inserted(copied[n - 1], slots[n].id)
    IN  copied[Len(slots)]

LiveIds(slots) == {slots[i].id : i \in {j \in DOMAIN slots : ~slots[j].dead}}

\* replay: the records recs applied to the slots in their order.
Replayed(slots, recs) ==
    LET after[n \in 0 .. Len(recs)] ==
            IF n = 0 THEN slots ELSE Applied(after[n - 1], recs[n])
    IN  after[Len(recs)]

\* load into an index with the slots old, and replay.  A file that save had not
\* finished holds nothing usable.
Recovered(old) == Replayed(Loaded(file, old), log)

Init ==
    /\ file = [ver |-> 1, nv |-> Len(SetToSeq(OldIds)), rows |-> SetToSeq(OldIds), tomb |-> << >>]
    /\ index = Loaded(file, << >>)
    /\ up = TRUE
    /\ log = << >>
    /\ pending = None
    /\ cpc = "idle"
    /\ whole = FALSE
    /\ fresh = << >>
    /\ nv = 0
    /\ used = OldIds
    /\ live = OldIds

\* The application may start an operation.
Ready == up /\ pending = None /\ (cpc = "idle" \/ Concurrent)

(* The application logs an insert (append_insert) ... *)
LogInsert(id) ==
    /\ Ready
    /\ id \notin used
    /\ used' = used \cup {id}
    /\ pending' = [op |-> "insert", id |-> id]
    /\ log' = Append(log, pending')
    /\ UNCHANGED <<index, live, file, compact, up>>

(* ... or a delete (append_delete) ... *)
LogDelete(id) ==
    /\ Ready
    /\ id \in live
    /\ pending' = [op |-> "delete", id |-> id]
    /\ log' = Append(log, pending')
    /\ UNCHANGED <<index, used, live, file, compact, up>>

(* ... applies it to the index and reports it done. *)
Apply ==
    /\ up
    /\ pending # None
    /\ index' = Applied(index, pending)
    /\ live' = IF pending.op = "insert" THEN live \cup {pending.id} ELSE live \ {pending.id}
    /\ pending' = None
    /\ UNCHANGED <<used, disk, compact, up>>

(* compact: copy the live slots into a fresh index, under the shared lock. *)
CompactCopy ==
    /\ up
    /\ cpc = "idle"
    /\ pending = None \/ Concurrent
    /\ fresh' = LiveSlots(index)
    /\ whole' = FALSE
    /\ cpc' = "copied"
    /\ UNCHANGED <<app, disk, nv, up>>

(* The application saves the live index, to truncate the log afterwards
   (include/wal.hpp:36). *)
AppSave ==
    /\ up
    /\ cpc = "idle"
    /\ pending = None \/ Concurrent
    /\ whole' = TRUE
    /\ cpc' = "copied"
    /\ UNCHANGED <<app, disk, fresh, nv, up>>

\* Mutant: compact saves the live index and not its fresh one.
SavingLive == index
\* The slots of the index being saved.
Saving == IF whole THEN index ELSE fresh

(* save: fopen(path, "wb") empties the index file; the count is read. *)
SaveOpen ==
    /\ up
    /\ cpc = "copied"
    /\ file' = Torn
    /\ nv' = Len(Saving)
    /\ cpc' = "saving"
    /\ UNCHANGED <<app, log, whole, fresh, up>>

(* save: under the lock the file is written; then it is closed. *)
SaveDone ==
    /\ up
    /\ cpc = "saving"
    /\ file' = Saved(nv, Saving)
    /\ cpc' = "saved"
    /\ UNCHANGED <<app, log, whole, fresh, nv, up>>

(* compact, or the application: truncate the WAL; the index in memory is as
   before. *)
Checkpoint ==
    /\ up
    /\ cpc = "saved"
    /\ log' = << >>
    /\ cpc' = "idle"
    /\ fresh' = << >>
    /\ nv' = 0
    /\ UNCHANGED <<app, file, whole, up>>

(* The process dies. *)
Crash ==
    /\ up
    /\ cpc \in CrashPoints
    /\ up' = FALSE
    /\ cpc' = "idle"
    /\ fresh' = << >>
    /\ nv' = 0
    /\ UNCHANGED <<app, disk, whole>>

(* It starts again: load, then replay.  An operation that was logged and not
   reported done takes effect now. *)
Recover ==
    /\ ~up
    /\ up' = TRUE
    /\ index' = Recovered(<< >>)
    /\ live' = IF pending.op = "insert" THEN live \cup {pending.id}
               ELSE IF pending.op = "delete" THEN live \ {pending.id} ELSE live
    /\ pending' = None
    /\ UNCHANGED <<used, disk, compact>>

(* The running application loads the file into the index it has, and replays. *)
Reload ==
    /\ up
    /\ cpc = "idle"
    /\ pending = None
    /\ index' = Recovered(index)
    /\ UNCHANGED <<pending, used, live, disk, compact, up>>

Next ==
    \/ \E id \in Ids : LogInsert(id) \/ LogDelete(id)
    \/ Apply
    \/ CompactCopy \/ AppSave \/ SaveOpen \/ SaveDone \/ Checkpoint
    \/ Crash \/ Recover \/ Reload

Spec == Init /\ [][Next]_vars
-----------------------------------------------------------------------------
\* The ids that must be live once the pending operation has taken effect.
Promised ==
    IF pending.op = "insert" THEN live \cup {pending.id}
    ELSE IF pending.op = "delete" THEN live \ {pending.id}
    ELSE live

\* Whenever the process dies, loading the index file and replaying the log
\* brings back exactly what was reported done and the operation in flight: no
\* insert is lost and no deleted vector returns, over any number of compacts,
\* saves, crashes and recoveries and for every number of tombstones in a word.
Recoverable == cpc \in CrashPoints => LiveIds(Recovered(<< >>)) = Promised

\* The ids the log holds an insert of.
LoggedInserts == {log[n].id : n \in {m \in DOMAIN log : log[m].op = "insert"}}

\* Between the end of save and the truncation of the log the records are in the
\* file and in the log too.  Whoever recovers from that state loses nothing that
\* was reported done.  After compact nothing else comes back, because its file
\* holds no tombstones that the replay of a delete could stop at; after a save of
\* the live index exactly the vectors come back that were inserted since the last
\* truncation, the deleted ones among them.  A vector comes back in two slots
\* only if the log still holds its insert.
WindowRecovery ==
    LET slots == Recovered(<< >>)
    IN  cpc = "saved" =>
        /\ LiveIds(slots) = IF whole THEN live \cup LoggedInserts ELSE live
        /\ \A i, j \in DOMAIN slots :
              (~slots[i].dead /\ ~slots[j].dead /\ slots[i].id = slots[j].id /\ i # j)
                => slots[i].id \in LoggedInserts

\* The index in memory answers for what was reported done, after a recovery
\* and after the file was loaded over it, as well as before.
MemoryAgrees == up => LiveIds(index) = live

\* The header of a finished index file counts the rows that follow it.
SavedAligned == file.nv = Len(file.rows)
=============================================================================
