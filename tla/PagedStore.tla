----------------------------- MODULE PagedStore -----------------------------
(***************************************************************************)
(* PagedVectorStore (include/paged_index.hpp, src/paged_index.cpp): the    *)
(* page file, the LRU page cache and the pointers get hands out.           *)
(*                                                                         *)
(* The file is measured in units: the header and each vector of a page     *)
(* take one, and Slack units at the end of a page hold nothing (on disk,   *)
(* what is left of the 4096 bytes).  A thread keeps the pointers it got    *)
(* while it computes with them, outside the cache lock: the one for the    *)
(* vector at hand, and in HNSWIndex::insert nb_vec too, which is kept      *)
(* while every other vector of the list is read (src/hnsw.cpp:89-91).      *)
(* The POSIX build is modelled.  A mapped page shows the file as it is     *)
(* (Linux shows later writes through an unmodified private mapping).       *)
(***************************************************************************)
EXTENDS Integers, Sequences, FiniteSets

CONSTANTS
    Threads,         \* callers
    Pushers,         \* the ones that insert: they push, and prune link lists
    Vecs,            \* vectors
    VectorsPerPage,  \* vectors_per_page_
    Slack,           \* unused units at the end of a page
    MaxCachedPages,  \* max_cached_pages_
    MaxVectors,      \* bound: slots of the file
    MaxReopens       \* bound: times the store is closed and opened again

ASSUME ThreadsAssumption == Pushers \subseteq Threads
ASSUME PageAssumption == VectorsPerPage \in Nat \ {0} /\ Slack \in Nat
ASSUME CacheAssumption == MaxCachedPages \in Nat \ {0}
ASSUME BoundAssumption == MaxVectors \in Nat /\ MaxReopens \in Nat

Slots      == 0 .. MaxVectors - 1
PageOf(s)  == s \div VectorsPerPage
Pages      == {PageOf(s) : s \in Slots}
PageSize   == 1 + VectorsPerPage + Slack

Zero    == "zeros"
Free    == -1
NoPage  == "none"
Kinds   == {"map", "heap"}   \* mmap of the file, or a calloc'd page of zeros
Null    == [slot |-> Free, kind |-> NoPage, valid |-> TRUE]
Pointer == [slot : Slots, kind : Kinds, valid : BOOLEAN] \cup {Null}

VARIABLES
    n_vectors,   \* n_vectors_
    file,        \* the vector in each slot of the file
    size,        \* the size of the file
    page_cache,  \* what each page is cached as, NoPage if it is not
    lru_order,   \* cached pages, the most recently used first
    pc,          \* where each thread is in push
    slot,        \* push: the slot taken
    vec,         \* push: the vector
    nb_vec,      \* the pointer a pruning insert keeps
    cur,         \* the pointer each thread got last
    stored,      \* history: the vector that push reported stored in a slot
    leaked,      \* history: heap pages that are neither cached nor freed
    behind,      \* history: the cached pages written to since they were cached
    reopens      \* history: how often the store was opened again

data     == <<n_vectors, file, size>>
cache    == <<page_cache, lru_order, leaked, behind>>
push     == <<pc, slot, vec>>
pointers == <<nb_vec, cur>>
vars     == <<data, cache, push, pointers, stored, reopens>>
-----------------------------------------------------------------------------
\* The end of page p, and of the vector in slot s, in the file.
PageEnd(p) == (p + 1) * PageSize
SlotEnd(s) == PageOf(s) * PageSize + 2 + (s % VectorsPerPage)

Cached   == {p \in Pages : page_cache[p] # NoPage}
Settled  == {s \in Slots : stored[s] # Free}

Elems(s) == {s[i] : i \in 1 .. Len(s)}
Once(s)  == \A i, j \in 1 .. Len(s) : s[i] = s[j] => i = j

\* lru_order_.erase: s without its first element equal to p.
Erased(s, p) ==
    LET at == CHOOSE i \in 1 .. Len(s) : s[i] = p /\ \A j \in 1 .. i - 1 : s[j] # p
    IN  [i \in 1 .. Len(s) - 1 |-> IF i < at THEN s[i] ELSE s[i + 1]]

PushFront(s, p) == [i \in 1 .. Len(s) + 1 |-> IF i = 1 THEN p ELSE s[i - 1]]
PopBack(s)      == [i \in 1 .. Len(s) - 1 |-> s[i]]

\* Mutant: a page past the end of the file gets no memory.
LoadedNull(p) == IF PageEnd(p) > size THEN NoPage ELSE "map"
\* What load_page_ makes of page p: a page that reaches past the end of the
\* file is a zeroed heap page.
Loaded(p) == IF PageEnd(p) > size THEN "heap" ELSE "map"

\* Mutant: the cache overflows by one page.
FullLate  == Cardinality(Cached) > MaxCachedPages
\* load_page_: a page must be evicted first.
Full == Cardinality(Cached) >= MaxCachedPages

\* Pointer p once the pages in gone are unmapped, or freed.
Unmapped(p, gone) ==
    IF p # Null /\ PageOf(p.slot) \in gone THEN [p EXCEPT !.valid = FALSE] ELSE p

\* What a thread that reads through pointer p sees.
Seen(p) == IF p.kind = "map" THEN file[p.slot] ELSE Zero

TypeOK ==
    /\ n_vectors \in Nat
    /\ file \in [Slots -> Vecs \cup {Zero}]
    /\ size \in Nat
    /\ page_cache \in [Pages -> Kinds \cup {NoPage}]
    /\ lru_order \in Seq(Pages)
    /\ pc \in [Threads -> {"idle", "counted", "write", "written"}]
    /\ slot \in [Threads -> Slots \cup {Free}]
    /\ vec \in [Threads -> Vecs \cup {Zero}]
    /\ \A t \in Threads : pc[t] # "idle" => slot[t] \in Slots /\ vec[t] \in Vecs
    /\ nb_vec \in [Threads -> Pointer]
    /\ cur \in [Threads -> Pointer]
    /\ stored \in [Slots -> Vecs \cup {Free}]
    /\ leaked \in Nat
    /\ behind \subseteq Pages
    /\ reopens \in Nat

Init ==
    /\ n_vectors = 0
    /\ file = [s \in Slots |-> Zero]
    /\ size = 0
    /\ page_cache = [p \in Pages |-> NoPage]
    /\ lru_order = << >>
    /\ pc = [t \in Threads |-> "idle"]
    /\ slot = [t \in Threads |-> Free]
    /\ vec = [t \in Threads |-> Zero]
    /\ nb_vec = [t \in Threads |-> Null]
    /\ cur = [t \in Threads |-> Null]
    /\ stored = [s \in Slots |-> Free]
    /\ leaked = 0
    /\ behind = {}
    /\ reopens = 0
-----------------------------------------------------------------------------
HoldsNothing(t) == nb_vec[t] = Null /\ cur[t] = Null

\* Mutant: the slot is taken after the increment.
SlotAfter == n_vectors + 1
\* The slot that n_vectors_++ gives.
NextSlot == n_vectors

(* push: n_vectors_++ is a plain read ... *)
PushRead(t, v) ==
    /\ pc[t] = "idle"
    /\ HoldsNothing(t)
    /\ n_vectors < MaxVectors
    /\ pc' = [pc EXCEPT ![t] = "counted"]
    /\ slot' = [slot EXCEPT ![t] = NextSlot]
    /\ vec' = [vec EXCEPT ![t] = v]
    /\ UNCHANGED <<data, cache, pointers, stored, reopens>>

(* ... and a plain write of n_vectors_. *)
PushCount(t) ==
    /\ pc[t] = "counted"
    /\ n_vectors' = slot[t] + 1
    /\ pc' = [pc EXCEPT ![t] = "write"]
    /\ UNCHANGED <<file, size, cache, slot, vec, pointers, stored, reopens>>

\* Mutant: the vector lands one slot further.
WriteSkewed(f, s, v) == [f EXCEPT ![IF s + 1 \in Slots THEN s + 1 ELSE s] = v]
\* The file once v is written at slot s.
Write(f, s, v) == [f EXCEPT ![s] = v]

(* push: the vector, and the header of a new page, go to the file. *)
PushWrite(t) ==
    /\ pc[t] = "write"
    /\ file' = Write(file, slot[t], vec[t])
    /\ size' = IF SlotEnd(slot[t]) > size THEN SlotEnd(slot[t]) ELSE size
    /\ pc' = [pc EXCEPT ![t] = "written"]
    /\ behind' = behind \cup (Cached \cap {PageOf(slot[t])})
    /\ UNCHANGED <<n_vectors, page_cache, lru_order, leaked, slot, vec, pointers, stored, reopens>>

\* Mutants: the page is left in the cache, or only its list entry is.
KeepPage(c, p)  == c
KeepOrder(s, p) == s
\* The cache and the recency list without page p.
DropPage(c, p)  == [c EXCEPT ![p] = NoPage]
DropOrder(s, p) == Erased(s, p)

\* The pages in behind that are cached still.
StillBehind == {p \in behind : page_cache'[p] # NoPage}

(* push: under the lock, the cached page is dropped.  A mapped page is
   unmapped; munmap(mapping, 0) leaves a heap page allocated. *)
PushInvalidate(t) ==
    LET p == PageOf(slot[t])
        gone == IF page_cache[p] = "map" THEN {p} ELSE {}
    IN  /\ pc[t] = "written"
        /\ IF page_cache[p] = NoPage
           THEN UNCHANGED <<page_cache, lru_order>>
           ELSE /\ lru_order' = DropOrder(lru_order, p)
                /\ page_cache' = DropPage(page_cache, p)
        /\ leaked' = IF page_cache[p] = "heap" THEN leaked + 1 ELSE leaked
        /\ behind' = StillBehind
        /\ nb_vec' = [u \in Threads |-> Unmapped(nb_vec[u], gone)]
        /\ cur' = [u \in Threads |-> Unmapped(cur[u], gone)]
        /\ stored' = [stored EXCEPT ![slot[t]] = vec[t]]
        /\ pc' = [pc EXCEPT ![t] = "idle"]
        /\ slot' = [slot EXCEPT ![t] = Free]
        /\ vec' = [vec EXCEPT ![t] = Zero]
        /\ UNCHANGED <<data, reopens>>

\* The pointer of thread t becomes p, as nb_vec or as the vector at hand;
\* the pages in gone are no longer mapped.
Take(t, keep, p, gone) ==
    /\ nb_vec' = [u \in Threads |->
          IF u = t /\ keep THEN p ELSE Unmapped(nb_vec[u], gone)]
    /\ cur' = [u \in Threads |->
          IF u = t THEN IF keep THEN Null ELSE p ELSE Unmapped(cur[u], gone)]

\* Thread t calls get for slot s, to keep the pointer as nb_vec or not.  Only
\* slots whose push returned are asked for.
CanGet(t, s, keep) ==
    /\ pc[t] = "idle"
    /\ s \in Settled
    /\ keep => t \in Pushers /\ HoldsNothing(t)

(* get: the page is cached. *)
GetHit(t, s, keep) ==
    LET p == PageOf(s)
    IN  /\ CanGet(t, s, keep)
        /\ page_cache[p] # NoPage
        /\ lru_order' = PushFront(Erased(lru_order, p), p)
        /\ Take(t, keep, [slot |-> s, kind |-> page_cache[p], valid |-> TRUE], {})
        /\ UNCHANGED <<data, page_cache, leaked, behind, push, stored, reopens>>

\* The page evict_lru_ drops, if any.
Victim == IF Full /\ lru_order # << >> THEN {lru_order[Len(lru_order)]} ELSE {}

(* get: the page is loaded, after an eviction if the cache is full. *)
GetMiss(t, s, keep) ==
    LET p == PageOf(s)
        order == IF Victim = {} THEN lru_order ELSE PopBack(lru_order)
    IN  /\ CanGet(t, s, keep)
        /\ page_cache[p] = NoPage
        /\ lru_order' = PushFront(order, p)
        /\ page_cache' = [q \in Pages |->
              IF q = p THEN Loaded(p) ELSE IF q \in Victim THEN NoPage ELSE page_cache[q]]
        /\ behind' = StillBehind
        /\ Take(t, keep, [slot |-> s, kind |-> Loaded(p), valid |-> TRUE], Victim)
        /\ UNCHANGED <<data, leaked, push, stored, reopens>>

(* get: mmap fails and get throws; the eviction has happened. *)
GetThrows(t, s) ==
    /\ CanGet(t, s, FALSE)
    /\ HoldsNothing(t)
    /\ page_cache[PageOf(s)] = NoPage
    /\ Loaded(PageOf(s)) = "map"
    /\ lru_order' = IF Victim = {} THEN lru_order ELSE PopBack(lru_order)
    /\ page_cache' = [q \in Pages |-> IF q \in Victim THEN NoPage ELSE page_cache[q]]
    /\ behind' = StillBehind
    /\ nb_vec' = [u \in Threads |-> Unmapped(nb_vec[u], Victim)]
    /\ cur' = [u \in Threads |-> Unmapped(cur[u], Victim)]
    /\ UNCHANGED <<data, leaked, push, stored, reopens>>

(* The caller is done with its pointers. *)
Done(t) ==
    /\ ~HoldsNothing(t)
    /\ nb_vec' = [nb_vec EXCEPT ![t] = Null]
    /\ cur' = [cur EXCEPT ![t] = Null]
    /\ UNCHANGED <<data, cache, push, stored, reopens>>

(* The destructor, then the constructor: vectors are counted in whole pages,
   and munmap(mapping, 0) leaves the heap pages allocated. *)
Reopen ==
    LET n == (size \div PageSize) * VectorsPerPage
    IN  /\ reopens < MaxReopens
        /\ \A t \in Threads : pc[t] = "idle" /\ HoldsNothing(t)
        /\ n_vectors' = n
        /\ page_cache' = [p \in Pages |-> NoPage]
        /\ lru_order' = << >>
        /\ leaked' = leaked + Cardinality({p \in Pages : page_cache[p] = "heap"})
        /\ behind' = {}
        /\ stored' = [s \in Slots |-> IF s < n THEN stored[s] ELSE Free]
        /\ reopens' = reopens + 1
        /\ UNCHANGED <<file, size, push, pointers>>

Next ==
    \/ \E t \in Pushers :
          \/ \E v \in Vecs : PushRead(t, v)
          \/ PushCount(t) \/ PushWrite(t) \/ PushInvalidate(t)
    \/ \E t \in Threads, s \in Slots :
          \/ \E keep \in BOOLEAN : GetHit(t, s, keep) \/ GetMiss(t, s, keep)
          \/ GetThrows(t, s)
    \/ \E t \in Threads : Done(t)
    \/ Reopen

Spec == Init /\ [][Next]_vars
-----------------------------------------------------------------------------
Held(t) == {p \in {nb_vec[t], cur[t]} : p # Null}

\* lru_order_ lists exactly the pages in page_cache_, each once, so that every
\* iterator kept in a CachedPage is good and every cached page can be evicted:
\* get, load_page_, evict_lru_ and the invalidation in push keep the two in
\* step, also when mmap fails after the eviction.
LruAgrees == Once(lru_order) /\ Cached = Elems(lru_order)

\* The cache never holds more than max_cached_pages_ pages, whichever threads
\* load pages between the size test and the insertion.
CacheBounded == Cardinality(Cached) <= MaxCachedPages

\* A page that was cached before a push wrote to it leaves the cache before that
\* push returns, whichever threads hit, load and evict pages between the write,
\* which takes no lock, and the invalidation.
WrittenPagesDropped ==
    \A p \in behind : \E t \in Threads : pc[t] = "written" /\ PageOf(slot[t]) = p

\* A vector read through a pointer into a mapped page is the one push stored,
\* for as long as the pointer is held and whatever is pushed meanwhile.
MappedSeesStored ==
    \A t \in Threads : \A p \in Held(t) :
        p.valid /\ p.kind = "map" => Seen(p) = stored[p.slot]

\* The pointer get returned can be read until the caller is done with it: no
\* eviction and no invalidation unmaps or frees the page under it.
PointersValid == \A t \in Threads : \A p \in Held(t) : p.valid

\* get returns a pointer to the vector that push stored.
GetSeesStored ==
    \A t \in Threads : \A p \in Held(t) : p.valid => Seen(p) = stored[p.slot]

\* Once a push has returned, no page that lies wholly in the file is cached as
\* a page of zeros.
FreshPages ==
    (\A t \in Threads : pc[t] # "written")
        => \A p \in Cached : PageEnd(p) <= size => page_cache[p] = "map"

\* Opening the store again finds the vectors it had.
ReopenKeepsCount == [][reopens' # reopens => n_vectors' = n_vectors]_vars

\* Every heap page is freed when it leaves the cache.
NothingLeaked == leaked = 0
=============================================================================
