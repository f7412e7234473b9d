----------------------------- MODULE PagedIndex -----------------------------
(***************************************************************************)
(* PagedIndex (src/paged_index.cpp): a PagedVectorStore and an HNSWIndex   *)
(* that reads its vectors through it.                                      *)
(*                                                                         *)
(* insert pushes a vector and then inserts it into the index, which gives  *)
(* it the next internal id.  The accessor uses that id as the slot of the  *)
(* store; nothing passes the slot that push returned on.  Of the index     *)
(* this module keeps raw_vectors_; the walks are the gets of PagedStore.   *)
(***************************************************************************)
EXTENDS PagedStore

ASSUME ZeroAssumption == Zero \notin Vecs

VARIABLES
    raw,     \* raw_vectors_ of hnsw_: raw[q + 1] is internal id q
    pushed,  \* the vector each thread has pushed and not yet given to hnsw_
    base     \* history: n_vectors_ when the index was opened

index     == <<raw, pushed, base>>
indexVars == <<vars, index>>

Calm == \A t \in Threads : pc[t] = "idle" /\ pushed[t] = Zero
-----------------------------------------------------------------------------
IndexInit ==
    /\ Init
    /\ raw = << >>
    /\ pushed = [t \in Threads |-> Zero]
    /\ base = 0

(* insert: store_.push up to its last critical section. *)
Push(t) ==
    /\ pushed[t] = Zero
    /\ (\E v \in Vecs : PushRead(t, v)) \/ PushCount(t) \/ PushWrite(t)
    /\ UNCHANGED index

(* insert: store_.push returns. *)
PushReturns(t) ==
    /\ PushInvalidate(t)
    /\ pushed' = [pushed EXCEPT ![t] = vec[t]]
    /\ UNCHANGED <<raw, base>>

(* insert: hnsw_.insert takes the next internal id and keeps the vector. *)
Allocate(t) ==
    /\ pushed[t] # Zero
    /\ raw' = Append(raw, pushed[t])
    /\ pushed' = [pushed EXCEPT ![t] = Zero]
    /\ UNCHANGED <<vars, base>>

\* The accessor is called with internal ids, by threads that are not in push.
Asks(t, q) == pushed[t] = Zero /\ q < Len(raw)

(* The accessor: store_.get, or the end of its use by a walk. *)
Access(t, q) ==
    /\ Asks(t, q)
    /\ \E keep \in BOOLEAN : GetHit(t, q, keep) \/ GetMiss(t, q, keep)
    /\ UNCHANGED index

Release(t) == Done(t) /\ UNCHANGED index

(* The index is destroyed and opened again on the same file: hnsw_ is empty. *)
IndexReopen ==
    /\ Calm
    /\ Reopen
    /\ raw' = << >>
    /\ base' = n_vectors'
    /\ UNCHANGED pushed

(* mmap fails and get throws out of get_vec_, which is noexcept: the process
   ends, and a new one opens the file. *)
Terminate(t, q) ==
    LET n == (size \div PageSize) * VectorsPerPage
    IN  /\ Asks(t, q)
        /\ CanGet(t, q, FALSE)
        /\ page_cache[PageOf(q)] = NoPage
        /\ Loaded(PageOf(q)) = "map"
        /\ reopens < MaxReopens
        /\ n_vectors' = n
        /\ page_cache' = [p \in Pages |-> NoPage]
        /\ lru_order' = << >>
        /\ leaked' = 0
        /\ behind' = {}
        /\ pc' = [u \in Threads |-> "idle"]
        /\ slot' = [u \in Threads |-> Free]
        /\ vec' = [u \in Threads |-> Zero]
        /\ nb_vec' = [u \in Threads |-> Null]
        /\ cur' = [u \in Threads |-> Null]
        /\ stored' = [s \in Slots |-> IF s < n THEN stored[s] ELSE Free]
        /\ reopens' = reopens + 1
        /\ raw' = << >>
        /\ pushed' = [u \in Threads |-> Zero]
        /\ base' = n
        /\ UNCHANGED <<file, size>>

IndexNext ==
    \/ \E t \in Pushers : Push(t) \/ PushReturns(t) \/ Allocate(t)
    \/ \E t \in Threads, q \in Slots : Access(t, q) \/ Terminate(t, q)
    \/ \E t \in Threads : Release(t)
    \/ IndexReopen

IndexSpec == IndexInit /\ [][IndexNext]_indexVars
-----------------------------------------------------------------------------
\* The two numberings stay apart by what they were when the index was opened:
\* internal id q of the index is slot base + q of the store, where the file holds
\* the vector the index was given, and between inserts neither component is
\* ahead, although the numbers are handed out by two increments in two
\* components, and a termination may come between them.
SlotsAgree ==
    /\ \A q \in 1 .. Len(raw) : file[base + q - 1] = raw[q]
    /\ Calm => n_vectors = base + Len(raw)
=============================================================================
