-------------------------- MODULE PagedIndexProofs --------------------------
(***************************************************************************)
(* Proofs about PagedStore and PagedIndex, for any number of threads,      *)
(* vectors and pages.  The store: the types, the agreement of page_cache_  *)
(* and lru_order_, the bound on the cache, with one pushing thread what a  *)
(* page in memory shows, and when pointers stay good.  The index: all but  *)
(* the last holds in the composition, and the two numberings agree.        *)
(***************************************************************************)
EXTENDS PagedIndex, FiniteSetTheorems, TLAPS

-----------------------------------------------------------------------------
(* The recency list: what erase, push_front and pop_back keep. *)

\* push_front adds p to the elements; it stays a list without repetition if p
\* was not in it.
LEMMA PushFrontLemma ==
    ASSUME NEW S, NEW s \in Seq(S), NEW p \in S
    PROVE  /\ PushFront(s, p) \in Seq(S)
           /\ Elems(PushFront(s, p)) = Elems(s) \cup {p}
           /\ Once(s) /\ p \notin Elems(s) => Once(PushFront(s, p))
<1> DEFINE r == PushFront(s, p)
<1>1. r \in Seq(S) /\ Len(r) = Len(s) + 1
  BY DEF PushFront
<1>2. \A i \in 1 .. Len(r) : r[i] = IF i = 1 THEN p ELSE s[i - 1]
  BY <1>1 DEF PushFront
<1> HIDE DEF r
<1>3. Elems(r) = Elems(s) \cup {p}
  <2>1. \A x \in Elems(r) : x \in Elems(s) \cup {p}
    <3> SUFFICES ASSUME NEW i \in 1 .. Len(r) PROVE r[i] \in Elems(s) \cup {p}
      BY DEF Elems
    <3>1. i = 1 \/ i - 1 \in 1 .. Len(s)
      BY <1>1
    <3> QED
      BY <1>2, <3>1 DEF Elems
  <2>2. p \in Elems(r)
    <3>1. 1 \in 1 .. Len(r)
      BY <1>1
    <3> QED
      BY <1>2, <3>1 DEF Elems
  <2>3. \A x \in Elems(s) : x \in Elems(r)
    <3> SUFFICES ASSUME NEW i \in 1 .. Len(s) PROVE s[i] \in Elems(r)
      BY DEF Elems
    <3>1. i + 1 \in 1 .. Len(r) /\ i + 1 # 1 /\ (i + 1) - 1 = i
      BY <1>1
    <3>2. r[i + 1] = s[i]
      BY <1>2, <3>1
    <3> QED
      BY <3>1, <3>2 DEF Elems
  <2> QED
    BY <2>1, <2>2, <2>3
<1>4. ASSUME Once(s), p \notin Elems(s) PROVE Once(r)
  <2> SUFFICES ASSUME NEW i \in 1 .. Len(r), NEW j \in 1 .. Len(r), r[i] = r[j], i # j
               PROVE  FALSE
    BY DEF Once
  <2>1. i = 1 \/ i - 1 \in 1 .. Len(s)
    BY <1>1
  <2>2. j = 1 \/ j - 1 \in 1 .. Len(s)
    BY <1>1
  <2>3. \A m \in 1 .. Len(s) : s[m] # p
    BY <1>4 DEF Elems
  <2>4. \A k, m \in 1 .. Len(s) : s[k] = s[m] => k = m
    BY <1>4 DEF Once
  <2>5. r[1] = p /\ (i # 1 => r[i] = s[i - 1]) /\ (j # 1 => r[j] = s[j - 1])
    BY <1>1, <1>2
  <2>6. CASE i = 1 \/ j = 1
    BY <2>1, <2>2, <2>3, <2>5, <2>6
  <2>7. CASE i # 1 /\ j # 1
    <3>1. i - 1 = j - 1
      BY <2>1, <2>2, <2>4, <2>5, <2>7
    <3> QED
      BY <3>1
  <2> QED
    BY <2>6, <2>7
<1> QED
  BY <1>1, <1>3, <1>4 DEF r

\* pop_back removes the last element of a list without repetition.
LEMMA PopBackLemma ==
    ASSUME NEW S, NEW s \in Seq(S), Once(s), s # << >>
    PROVE  /\ PopBack(s) \in Seq(S)
           /\ Once(PopBack(s))
           /\ s[Len(s)] \in S
           /\ Elems(PopBack(s)) = Elems(s) \ {s[Len(s)]}
<1> DEFINE r == PopBack(s)
<1>0. Len(s) \in Nat \ {0}
  OBVIOUS
<1>1. r \in Seq(S) /\ Len(r) = Len(s) - 1
  BY <1>0 DEF PopBack
<1>2. \A i \in 1 .. Len(r) : r[i] = s[i]
  BY <1>1 DEF PopBack
<1> HIDE DEF r
<1>3. \A k, m \in 1 .. Len(s) : s[k] = s[m] => k = m
  BY DEF Once
<1>4. \A i \in 1 .. Len(r) : i \in 1 .. Len(s) /\ i # Len(s)
  BY <1>0, <1>1
<1>5. \A i \in 1 .. Len(s) : i # Len(s) => i \in 1 .. Len(r)
  BY <1>0, <1>1
<1>6. Len(s) \in 1 .. Len(s)
  BY <1>0
<1>7. Once(r)
  BY <1>2, <1>3, <1>4 DEF Once
<1>8. Elems(r) = Elems(s) \ {s[Len(s)]}
  <2>1. \A i \in 1 .. Len(r) : r[i] \in Elems(s) /\ r[i] # s[Len(s)]
    BY <1>2, <1>3, <1>4, <1>6 DEF Elems
  <2>2. \A i \in 1 .. Len(s) : s[i] # s[Len(s)] => s[i] \in Elems(r)
    <3> SUFFICES ASSUME NEW i \in 1 .. Len(s), s[i] # s[Len(s)] PROVE s[i] \in Elems(r)
      OBVIOUS
    <3>1. i \in 1 .. Len(r) /\ r[i] = s[i]
      BY <1>2, <1>5
    <3> QED
      BY <3>1 DEF Elems
  <2> QED
    BY <2>1, <2>2 DEF Elems
<1>9. s[Len(s)] \in S
  BY <1>6
<1> QED
  BY <1>1, <1>7, <1>8, <1>9 DEF r

\* erase removes p from a list without repetition.
LEMMA ErasedLemma ==
    ASSUME NEW S, NEW s \in Seq(S), Once(s), NEW p \in Elems(s)
    PROVE  /\ Erased(s, p) \in Seq(S)
           /\ Once(Erased(s, p))
           /\ Elems(Erased(s, p)) = Elems(s) \ {p}
<1>1. PICK a \in 1 .. Len(s) : s[a] = p
  BY DEF Elems
<1>2. \A k, m \in 1 .. Len(s) : s[k] = s[m] => k = m
  BY DEF Once
<1>3. \A j \in 1 .. a - 1 : s[j] # p
  BY <1>1, <1>2
<1> DEFINE First(i) == s[i] = p /\ \A j \in 1 .. i - 1 : s[j] # p
           at == CHOOSE i \in 1 .. Len(s) : First(i)
<1>4. at \in 1 .. Len(s) /\ First(at)
  BY <1>1, <1>3
<1>5. s[at] = p
  BY <1>4
<1> DEFINE r == Erased(s, p)
<1>6. r = [i \in 1 .. Len(s) - 1 |-> IF i < at THEN s[i] ELSE s[i + 1]]
  BY DEF Erased
<1> HIDE DEF at, r
<1>7. r \in Seq(S) /\ Len(r) = Len(s) - 1
  BY <1>4, <1>6
<1> DEFINE from(i) == IF i < at THEN i ELSE i + 1
<1>8. \A i \in 1 .. Len(r) : r[i] = s[from(i)] /\ from(i) \in 1 .. Len(s) /\ from(i) # at
  BY <1>4, <1>6, <1>7
<1>9. \A i, j \in 1 .. Len(r) : from(i) = from(j) => i = j
  BY <1>4, <1>7
<1>10. \A m \in 1 .. Len(s) : m # at => \E i \in 1 .. Len(r) : from(i) = m
  <2> SUFFICES ASSUME NEW m \in 1 .. Len(s), m # at
               PROVE  \E i \in 1 .. Len(r) : from(i) = m
    OBVIOUS
  <2>1. CASE m < at
    BY <1>4, <1>7, <2>1
  <2>2. CASE m > at
    <3>1. m - 1 \in 1 .. Len(r) /\ from(m - 1) = m
      BY <1>4, <1>7, <2>2
    <3> QED
      BY <3>1
  <2> QED
    BY <1>4, <2>1, <2>2
<1> HIDE DEF from
<1>11. Once(r)
  BY <1>2, <1>8, <1>9 DEF Once
<1>12. Elems(r) = Elems(s) \ {p}
  <2>1. \A i \in 1 .. Len(r) : r[i] \in Elems(s) /\ r[i] # p
    <3> SUFFICES ASSUME NEW i \in 1 .. Len(r) PROVE r[i] \in Elems(s) /\ r[i] # p
      OBVIOUS
    <3>1. r[i] = s[from(i)] /\ from(i) \in 1 .. Len(s) /\ from(i) # at
      BY <1>8
    <3>2. s[from(i)] # s[at]
      BY <1>2, <1>4, <3>1
    <3> QED
      BY <1>5, <3>1, <3>2 DEF Elems
  <2>2. \A m \in 1 .. Len(s) : s[m] # p => s[m] \in Elems(r)
    <3> SUFFICES ASSUME NEW m \in 1 .. Len(s), s[m] # p PROVE s[m] \in Elems(r)
      OBVIOUS
    <3>1. PICK i \in 1 .. Len(r) : from(i) = m
      BY <1>5, <1>10
    <3>2. r[i] = s[m]
      BY <1>8, <3>1
    <3> QED
      BY <3>2 DEF Elems
  <2> QED
    BY <2>1, <2>2 DEF Elems
<1> QED
  BY <1>7, <1>11, <1>12 DEF r
-----------------------------------------------------------------------------
(* The types. *)

USE DEF HoldsNothing, Held, DropPage, DropOrder, Kinds, NoPage, Free, Zero

\* The page of a slot is a page.
LEMMA PageType == \A s \in Slots : PageOf(s) \in Pages
BY DEF Pages

LEMMA PagesFinite == IsFiniteSet(Pages)
<1> DEFINE f == [s \in Slots |-> PageOf(s)]
<1>1. IsFiniteSet(Slots)
  BY FS_Interval, BoundAssumption DEF Slots
<1>2. f \in Surjection(Slots, Pages)
  BY DEF Pages, Surjection
<1> QED
  BY <1>1, <1>2, FS_Surjection

\* Offsets in the file are naturals.
LEMMA OffsetTypes ==
    /\ PageSize \in Nat \ {0}
    /\ \A s \in Slots : SlotEnd(s) \in Nat
    /\ \A z \in Nat : (z \div PageSize) * VectorsPerPage \in Nat
<1>1. PageSize \in Nat \ {0}
  BY PageAssumption DEF PageSize
<1>2. \A a \in Nat, b \in Nat \ {0} : a \div b \in Nat /\ a % b \in Nat
  OBVIOUS
<1>3. \A a, b \in Nat : a * b \in Nat
  OBVIOUS
<1>4. ASSUME NEW s \in Slots PROVE SlotEnd(s) \in Nat
  <2>1. s \in Nat
    BY BoundAssumption DEF Slots
  <2>2. PageOf(s) \in Nat /\ s % VectorsPerPage \in Nat
    BY <1>2, <2>1, PageAssumption DEF PageOf
  <2>3. PageOf(s) * PageSize \in Nat
    BY <1>1, <1>3, <2>2
  <2> QED
    BY <2>2, <2>3 DEF SlotEnd
<1>5. ASSUME NEW z \in Nat PROVE (z \div PageSize) * VectorsPerPage \in Nat
  <2>1. z \div PageSize \in Nat
    BY <1>1, <1>2
  <2> QED
    BY <1>3, <2>1, PageAssumption
<1> QED
  BY <1>1, <1>4, <1>5

\* Unmapping changes only whether a pointer can be read.
LEMMA UnmappedType == \A p \in Pointer : \A gone : Unmapped(p, gone) \in Pointer
BY DEF Unmapped, Pointer, Null

LEMMA InitType == Init => TypeOK
BY DEF Init, TypeOK, Pointer, Null

\* A step of push keeps the types.
LEMMA PushType ==
    ASSUME TypeOK, NEW t \in Threads, NEW v \in Vecs,
           \/ PushRead(t, v) \/ PushCount(t) \/ PushWrite(t)
    PROVE  TypeOK'
<1>1. CASE PushRead(t, v)
  <2>1. n_vectors \in Slots
    BY <1>1, BoundAssumption DEF PushRead, TypeOK, Slots
  <2> QED
    BY <1>1, <2>1 DEF PushRead, NextSlot, TypeOK, data, cache, pointers
<1>2. CASE PushCount(t)
  <2>1. slot[t] + 1 \in Nat
    BY <1>2, BoundAssumption DEF PushCount, TypeOK, Slots
  <2> QED
    BY <1>2, <2>1 DEF PushCount, TypeOK, cache, pointers
<1>3. CASE PushWrite(t)
  <2>1. slot[t] \in Slots /\ vec[t] \in Vecs
    BY <1>3 DEF PushWrite, TypeOK
  <2>2. size' \in Nat
    BY <1>3, <2>1, OffsetTypes DEF PushWrite, TypeOK
  <2>3. file' \in [Slots -> Vecs \cup {Zero}]
    BY <1>3, <2>1 DEF PushWrite, TypeOK, Write
  <2>4. behind' \subseteq Pages
    BY <1>3 DEF PushWrite, TypeOK, Cached
  <2> QED
    BY <1>3, <2>2, <2>3, <2>4 DEF PushWrite, TypeOK, pointers
<1> QED
  BY <1>1, <1>2, <1>3
-----------------------------------------------------------------------------
(* The cache. *)

\* The cache and its recency list, together with the types, are inductive.
CacheInv == TypeOK /\ LruAgrees /\ CacheBounded

LEMMA CachedFinite == IsFiniteSet(Cached) /\ Cardinality(Cached) \in Nat
<1>1. Cached \in SUBSET Pages
  BY DEF Cached
<1>2. IsFiniteSet(Cached)
  BY <1>1, PagesFinite, FS_Subset
<1> QED
  BY <1>2, FS_CardinalityType

\* evict_lru_ takes the page at the back, and leaves room for one more.
LEMMA EvictLemma ==
    ASSUME CacheInv
    PROVE  LET order == IF Victim = {} THEN lru_order ELSE PopBack(lru_order)
           IN  /\ order \in Seq(Pages)
               /\ Once(order)
               /\ Elems(order) = Cached \ Victim
               /\ Cardinality(Cached \ Victim) + 1 <= MaxCachedPages
<1>1. lru_order \in Seq(Pages) /\ Once(lru_order) /\ Cached = Elems(lru_order)
  BY DEF CacheInv, TypeOK, LruAgrees
<1>2. CASE Full
  <2>1. Cached # {}
    BY <1>2, CachedFinite, FS_EmptySet, CacheAssumption DEF Full
  <2>2. lru_order # << >>
    BY <1>1, <2>1 DEF Elems
  <2>3. Victim = {lru_order[Len(lru_order)]}
    BY <1>2, <2>2 DEF Victim
  <2>4. lru_order[Len(lru_order)] \in Cached
    <3>1. Len(lru_order) \in 1 .. Len(lru_order)
      BY <1>1, <2>2
    <3> QED
      BY <1>1, <3>1 DEF Elems
  <2>5. Cardinality(Cached \ Victim) = Cardinality(Cached) - 1
    BY <2>3, <2>4, CachedFinite, FS_RemoveElement
  <2>6. Cardinality(Cached \ Victim) + 1 <= MaxCachedPages
    BY <2>5, CachedFinite, CacheAssumption DEF CacheInv, CacheBounded
  <2>7. /\ PopBack(lru_order) \in Seq(Pages)
        /\ Once(PopBack(lru_order))
        /\ Elems(PopBack(lru_order)) = Elems(lru_order) \ {lru_order[Len(lru_order)]}
    BY <1>1, <2>2, PopBackLemma
  <2> QED
    BY <1>1, <2>3, <2>6, <2>7
<1>3. CASE ~Full
  <2>1. Victim = {}
    BY <1>3 DEF Victim
  <2>2. Cardinality(Cached) + 1 <= MaxCachedPages
    BY <1>3, CachedFinite, CacheAssumption DEF Full
  <2>3. Cached \ Victim = Cached
    BY <2>1
  <2> QED
    BY <1>1, <2>1, <2>2, <2>3
<1> QED
  BY <1>2, <1>3

\* push drops its page from both structures.
LEMMA InvalidateStep ==
    ASSUME CacheInv, NEW t \in Threads, PushInvalidate(t)
    PROVE  CacheInv'
<1> DEFINE p == PageOf(slot[t])
<1>1. slot[t] \in Slots /\ vec[t] \in Vecs
  BY DEF CacheInv, TypeOK, PushInvalidate
<1>2. p \in Pages
  BY <1>1, PageType
<1>3. /\ n_vectors' \in Nat
      /\ file' \in [Slots -> Vecs \cup {Zero}]
      /\ size' \in Nat
      /\ leaked' \in Nat
      /\ behind' \subseteq Pages
      /\ reopens' \in Nat
  BY DEF CacheInv, TypeOK, PushInvalidate, StillBehind, data
<1>4. /\ pc' \in [Threads -> {"idle", "counted", "write", "written"}]
      /\ slot' \in [Threads -> Slots \cup {Free}]
      /\ vec' \in [Threads -> Vecs \cup {Zero}]
      /\ \A u \in Threads : pc'[u] # "idle" => slot'[u] \in Slots /\ vec'[u] \in Vecs
  BY DEF CacheInv, TypeOK, PushInvalidate
<1>5. nb_vec' \in [Threads -> Pointer] /\ cur' \in [Threads -> Pointer]
  BY UnmappedType DEF CacheInv, TypeOK, PushInvalidate
<1>6. stored' \in [Slots -> Vecs \cup {Free}]
  BY <1>1 DEF CacheInv, TypeOK, PushInvalidate
<1>7. /\ page_cache' \in [Pages -> Kinds \cup {NoPage}]
      /\ lru_order' \in Seq(Pages)
      /\ LruAgrees'
      /\ CacheBounded'
  <2>1. CASE page_cache[p] = NoPage
    BY <2>1 DEF CacheInv, TypeOK, PushInvalidate, LruAgrees, CacheBounded, Cached
  <2>2. CASE page_cache[p] # NoPage
    <3>1. lru_order' = Erased(lru_order, p) /\ page_cache' = [page_cache EXCEPT ![p] = NoPage]
      BY <2>2 DEF PushInvalidate
    <3>2. p \in Elems(lru_order) /\ Once(lru_order) /\ lru_order \in Seq(Pages)
      BY <1>2, <2>2 DEF CacheInv, TypeOK, LruAgrees, Cached
    <3>3. /\ lru_order' \in Seq(Pages)
          /\ Once(lru_order')
          /\ Elems(lru_order') = Elems(lru_order) \ {p}
      BY <3>1, <3>2, ErasedLemma
    <3>4. Cached' = Cached \ {p}
      BY <1>2, <3>1 DEF Cached, CacheInv, TypeOK
    <3>5. page_cache' \in [Pages -> Kinds \cup {NoPage}]
      BY <3>1 DEF CacheInv, TypeOK
    <3>6. Cardinality(Cached \ {p}) <= Cardinality(Cached)
      <4>1. Cached \ {p} \in SUBSET Cached
        OBVIOUS
      <4> QED
        BY <4>1, CachedFinite, FS_Subset
    <3>7. CacheBounded'
      <4>1. IsFiniteSet(Cached \ {p}) /\ Cardinality(Cached \ {p}) \in Nat
        BY CachedFinite, FS_RemoveElement, FS_CardinalityType
      <4> QED
        BY <3>4, <3>6, <4>1, CachedFinite, CacheAssumption DEF CacheInv, CacheBounded
    <3> QED
      BY <3>3, <3>4, <3>5, <3>7 DEF LruAgrees, CacheInv
  <2> QED
    BY <2>1, <2>2
<1> QED
  BY <1>3, <1>4, <1>5, <1>6, <1>7 DEF CacheInv, TypeOK

\* The pointers get hands out have their type.
LEMMA TakeType ==
    ASSUME TypeOK, NEW t \in Threads, NEW keep \in BOOLEAN, NEW p \in Pointer, NEW gone,
           Take(t, keep, p, gone)
    PROVE  nb_vec' \in [Threads -> Pointer] /\ cur' \in [Threads -> Pointer]
<1>1. Null \in Pointer
  BY DEF Pointer
<1>2. \A u \in Threads : nb_vec[u] \in Pointer /\ cur[u] \in Pointer
  BY DEF TypeOK
<1> QED
  BY <1>1, <1>2, UnmappedType DEF Take

\* A hit moves its page to the front.
LEMMA HitStep ==
    ASSUME CacheInv, NEW t \in Threads, NEW s \in Slots, NEW keep \in BOOLEAN,
           GetHit(t, s, keep)
    PROVE  CacheInv'
<1> DEFINE p == PageOf(s)
           ptr == [slot |-> s, kind |-> page_cache[p], valid |-> TRUE]
<1>1. p \in Pages /\ p \in Cached
  BY PageType DEF GetHit, Cached
<1>2. ptr \in Pointer
  BY <1>1 DEF Cached, CacheInv, TypeOK, Pointer
<1>3. nb_vec' \in [Threads -> Pointer] /\ cur' \in [Threads -> Pointer]
  BY <1>2, TakeType DEF GetHit, CacheInv
<1>4. p \in Elems(lru_order) /\ Once(lru_order) /\ lru_order \in Seq(Pages)
  BY <1>1 DEF CacheInv, TypeOK, LruAgrees
<1>5. /\ Erased(lru_order, p) \in Seq(Pages)
      /\ Once(Erased(lru_order, p))
      /\ Elems(Erased(lru_order, p)) = Elems(lru_order) \ {p}
  BY <1>4, ErasedLemma
<1>6. lru_order' = PushFront(Erased(lru_order, p), p)
  BY DEF GetHit
<1>7. /\ lru_order' \in Seq(Pages)
      /\ Once(lru_order')
      /\ Elems(lru_order') = (Elems(lru_order) \ {p}) \cup {p}
  BY <1>1, <1>5, <1>6, PushFrontLemma
<1>8. Cached' = Cached
  BY DEF GetHit, Cached
<1>9. LruAgrees' /\ CacheBounded'
  BY <1>4, <1>7, <1>8 DEF LruAgrees, CacheBounded, CacheInv
<1>10. TypeOK'
  BY <1>3, <1>7 DEF CacheInv, TypeOK, GetHit, data, push
<1> QED
  BY <1>9, <1>10 DEF CacheInv

\* A miss loads its page after making room.
LEMMA MissStep ==
    ASSUME CacheInv, NEW t \in Threads, NEW s \in Slots, NEW keep \in BOOLEAN,
           GetMiss(t, s, keep)
    PROVE  CacheInv'
<1> DEFINE p == PageOf(s)
           order == IF Victim = {} THEN lru_order ELSE PopBack(lru_order)
           ptr == [slot |-> s, kind |-> Loaded(p), valid |-> TRUE]
<1>1. p \in Pages /\ page_cache[p] = NoPage
  BY PageType DEF GetMiss
<1>2. Loaded(p) \in Kinds
  BY DEF Loaded
<1>3. ptr \in Pointer
  BY <1>2 DEF Pointer
<1>4. nb_vec' \in [Threads -> Pointer] /\ cur' \in [Threads -> Pointer]
  BY <1>3, TakeType DEF GetMiss, CacheInv
<1>5. /\ order \in Seq(Pages)
      /\ Once(order)
      /\ Elems(order) = Cached \ Victim
      /\ Cardinality(Cached \ Victim) + 1 <= MaxCachedPages
  BY EvictLemma
<1>6. lru_order' = PushFront(order, p)
  BY DEF GetMiss
<1>7. p \notin Cached
  BY <1>1 DEF Cached
<1> HIDE DEF order
<1>8. /\ lru_order' \in Seq(Pages)
      /\ Once(lru_order')
      /\ Elems(lru_order') = (Cached \ Victim) \cup {p}
  BY <1>1, <1>5, <1>6, <1>7, PushFrontLemma
<1>9. page_cache' = [q \in Pages |->
          IF q = p THEN Loaded(p) ELSE IF q \in Victim THEN NoPage ELSE page_cache[q]]
  BY DEF GetMiss
<1>10. page_cache' \in [Pages -> Kinds \cup {NoPage}]
  BY <1>2, <1>9 DEF CacheInv, TypeOK
<1>11. Cached' = (Cached \ Victim) \cup {p}
  BY <1>1, <1>2, <1>9 DEF Cached
<1>12. CacheBounded'
  <2>1. IsFiniteSet(Cached \ Victim)
    BY CachedFinite, FS_Subset
  <2>2. Cardinality((Cached \ Victim) \cup {p}) = Cardinality(Cached \ Victim) + 1
    BY <1>7, <2>1, FS_AddElement
  <2> QED
    BY <1>5, <1>11, <2>2 DEF CacheBounded
<1>13. TypeOK'
  BY <1>4, <1>8, <1>10 DEF CacheInv, TypeOK, GetMiss, StillBehind, data, push
<1> QED
  BY <1>8, <1>11, <1>12, <1>13 DEF CacheInv, LruAgrees

\* A miss that fails after the eviction has only evicted.
LEMMA ThrowStep ==
    ASSUME CacheInv, NEW t \in Threads, NEW s \in Slots, GetThrows(t, s)
    PROVE  CacheInv'
<1> DEFINE order == IF Victim = {} THEN lru_order ELSE PopBack(lru_order)
<1>1. /\ order \in Seq(Pages)
      /\ Once(order)
      /\ Elems(order) = Cached \ Victim
      /\ Cardinality(Cached \ Victim) + 1 <= MaxCachedPages
  BY EvictLemma
<1>2. lru_order' = order
  BY DEF GetThrows
<1> HIDE DEF order
<1>3. page_cache' = [q \in Pages |-> IF q \in Victim THEN NoPage ELSE page_cache[q]]
  BY DEF GetThrows
<1>4. Cached' = Cached \ Victim
  BY <1>3 DEF Cached
<1>5. CacheBounded'
  <2>1. IsFiniteSet(Cached \ Victim) /\ Cardinality(Cached \ Victim) \in Nat
    BY CachedFinite, FS_Subset, FS_CardinalityType
  <2> QED
    BY <1>1, <1>4, <2>1, CacheAssumption DEF CacheBounded
<1>6. nb_vec' \in [Threads -> Pointer] /\ cur' \in [Threads -> Pointer]
  BY UnmappedType DEF CacheInv, TypeOK, GetThrows
<1>7. page_cache' \in [Pages -> Kinds \cup {NoPage}]
  BY <1>3 DEF CacheInv, TypeOK
<1>8. TypeOK'
  BY <1>1, <1>2, <1>6, <1>7 DEF CacheInv, TypeOK, GetThrows, StillBehind, data, push
<1> QED
  BY <1>1, <1>2, <1>4, <1>5, <1>8 DEF CacheInv, LruAgrees

\* Opening the store again starts with an empty cache.
LEMMA ReopenStep ==
    ASSUME CacheInv, Reopen
    PROVE  CacheInv'
<1>1. n_vectors' \in Nat
  BY OffsetTypes DEF CacheInv, TypeOK, Reopen
<1>2. leaked' \in Nat
  <2>1. {p \in Pages : page_cache[p] = "heap"} \in SUBSET Pages
    OBVIOUS
  <2>2. Cardinality({p \in Pages : page_cache[p] = "heap"}) \in Nat
    BY <2>1, PagesFinite, FS_Subset, FS_CardinalityType
  <2> QED
    BY <2>2 DEF CacheInv, TypeOK, Reopen
<1>3. page_cache' = [p \in Pages |-> NoPage] /\ lru_order' = << >>
  BY DEF Reopen
<1>4. Cached' = {} /\ Elems(lru_order') = {} /\ Once(lru_order')
  BY <1>3 DEF Cached, Elems, Once
<1>5. LruAgrees' /\ CacheBounded'
  BY <1>4, FS_EmptySet, CacheAssumption DEF LruAgrees, CacheBounded
<1>6. stored' \in [Slots -> Vecs \cup {Free}]
  BY DEF CacheInv, TypeOK, Reopen
<1>7. TypeOK'
  BY <1>1, <1>2, <1>3, <1>6 DEF CacheInv, TypeOK, Reopen, push, pointers
<1> QED
  BY <1>5, <1>7 DEF CacheInv
LEMMA CacheInvInit == Init => CacheInv
<1> SUFFICES ASSUME Init PROVE CacheInv
  OBVIOUS
<1>1. Cached = {} /\ Elems(lru_order) = {} /\ Once(lru_order)
  BY DEF Init, Cached, Elems, Once
<1>2. LruAgrees /\ CacheBounded
  BY <1>1, FS_EmptySet, CacheAssumption DEF LruAgrees, CacheBounded
<1> QED
  BY <1>2, InitType DEF CacheInv

LEMMA CacheInvNext == CacheInv /\ [Next]_vars => CacheInv'
<1> SUFFICES ASSUME CacheInv, [Next]_vars PROVE CacheInv'
  OBVIOUS
<1>1. ASSUME NEW t \in Pushers, NEW v \in Vecs, PushRead(t, v) PROVE CacheInv'
  <2>1. TypeOK'
    BY <1>1, PushType, ThreadsAssumption DEF CacheInv
  <2>2. UNCHANGED <<page_cache, lru_order>>
    BY <1>1 DEF PushRead, cache
  <2> QED
    BY <2>1, <2>2 DEF CacheInv, LruAgrees, CacheBounded, Cached
<1>2. ASSUME NEW t \in Pushers, PushCount(t) \/ PushWrite(t) PROVE CacheInv'
  <2>1. t \in Threads /\ vec[t] \in Vecs
    BY <1>2, ThreadsAssumption DEF CacheInv, TypeOK, PushCount, PushWrite
  <2>2. TypeOK'
    BY <1>2, <2>1, PushType DEF CacheInv
  <2>3. UNCHANGED <<page_cache, lru_order>>
    BY <1>2 DEF PushCount, PushWrite, cache
  <2> QED
    BY <2>2, <2>3 DEF CacheInv, LruAgrees, CacheBounded, Cached
<1>3. ASSUME NEW t \in Pushers, PushInvalidate(t) PROVE CacheInv'
  BY <1>3, InvalidateStep, ThreadsAssumption
<1>4. ASSUME NEW t \in Threads, NEW s \in Slots, NEW keep \in BOOLEAN,
             GetHit(t, s, keep) \/ GetMiss(t, s, keep)
      PROVE  CacheInv'
  BY <1>4, HitStep, MissStep
<1>5. ASSUME NEW t \in Threads, NEW s \in Slots, GetThrows(t, s) PROVE CacheInv'
  BY <1>5, ThrowStep
<1>6. ASSUME NEW t \in Threads, Done(t) PROVE CacheInv'
  <2>1. TypeOK'
    BY <1>6 DEF CacheInv, TypeOK, Done, data, cache, push, Pointer
  <2>2. UNCHANGED <<page_cache, lru_order>>
    BY <1>6 DEF Done, cache
  <2> QED
    BY <2>1, <2>2 DEF CacheInv, LruAgrees, CacheBounded, Cached
<1>7. CASE Reopen
  BY <1>7, ReopenStep
<1>8. CASE UNCHANGED vars
  BY <1>8 DEF CacheInv, TypeOK, LruAgrees, CacheBounded, Cached,
              vars, data, cache, push, pointers
<1> QED
  BY <1>1, <1>2, <1>3, <1>4, <1>5, <1>6, <1>7, <1>8 DEF Next

\* The cache keeps its inductive invariant.
LEMMA CacheInvAlways == Spec => []CacheInv
BY CacheInvInit, CacheInvNext, PTL DEF Spec

\* Every variable of the store keeps its type: in particular a push under way
\* always has a slot inside the file, however its count races with others.
THEOREM TypeCorrect == Spec => []TypeOK
<1>1. CacheInv => TypeOK
  BY DEF CacheInv
<1> QED
  BY <1>1, CacheInvAlways, PTL

\* lru_order_ and page_cache_ always hold the same pages, each once, however
\* many threads get and push, whatever is evicted, and also when mmap fails.
THEOREM LruAlwaysAgrees == Spec => []LruAgrees
<1>1. CacheInv => LruAgrees
  BY DEF CacheInv
<1> QED
  BY <1>1, CacheInvAlways, PTL

\* The cache stays within max_cached_pages_.
THEOREM CacheAlwaysBounded == Spec => []CacheBounded
<1>1. CacheInv => CacheBounded
  BY DEF CacheInv
<1> QED
  BY <1>1, CacheInvAlways, PTL
-----------------------------------------------------------------------------
(* What a mapped page shows, with one inserting thread. *)

\* How far the inserting thread t is in its push.
Counted(t) ==
    /\ pc[t] = "counted" => slot[t] = n_vectors
    /\ pc[t] \in {"write", "written"} => n_vectors = slot[t] + 1
    /\ pc[t] = "written" => file[slot[t]] = vec[t]

\* A stored vector is in the file, below the counter and below the slot that
\* is being written.
StoredBelow ==
    \A s \in Settled :
        /\ file[s] = stored[s]
        /\ s < n_vectors
        /\ \A t \in Pushers : pc[t] # "idle" => s < slot[t]

\* Every pointer leads to a stored vector.
PointersSettled == \A t \in Threads : \A p \in Held(t) : p.slot \in Settled

StoredInv ==
    /\ CacheInv
    /\ \A t \in Threads \ Pushers : pc[t] = "idle"
    /\ \A t \in Pushers : Counted(t)
    /\ StoredBelow
    /\ PointersSettled

LEMMA StoredInvInit == Init => StoredInv
BY CacheInvInit, ThreadsAssumption DEF Init, StoredInv, Counted, StoredBelow, PointersSettled, Settled

\* The inserting thread counts, and writes a slot that nobody has stored in.
LEMMA PushStored ==
    ASSUME \A t, u \in Pushers : t = u, StoredInv, NEW t \in Pushers, NEW v \in Vecs,
           PushRead(t, v) \/ PushCount(t) \/ PushWrite(t)
    PROVE  StoredInv'
<1>0. t \in Threads /\ Pushers = {t} /\ TypeOK
  BY ThreadsAssumption DEF StoredInv, CacheInv
<1>1. CacheInv'
  <2>1. [Next]_vars
    <3>1. (\E w \in Vecs : PushRead(t, w)) \/ PushCount(t) \/ PushWrite(t)
      OBVIOUS
    <3> QED
      BY <3>1 DEF Next
  <2> QED
    BY <2>1, CacheInvNext DEF StoredInv
<1>2. UNCHANGED <<stored, nb_vec, cur>>
  BY DEF PushRead, PushCount, PushWrite, pointers
<1>3. \A u \in Threads \ Pushers : pc'[u] = "idle"
  BY <1>0 DEF StoredInv, PushRead, PushCount, PushWrite, TypeOK
<1>4. PointersSettled'
  BY <1>2 DEF StoredInv, PointersSettled, Settled
<1>5. Counted(t)
  BY DEF StoredInv
<1>6. \A s \in Settled : s \in Nat /\ s \in Slots /\ file[s] = stored[s] /\ s < n_vectors
  BY BoundAssumption DEF StoredInv, StoredBelow, Settled, Slots
<1>7. CASE PushRead(t, v)
  <2>1. pc'[t] = "counted" /\ slot'[t] = n_vectors /\ UNCHANGED <<n_vectors, file>>
    BY <1>0, <1>7 DEF PushRead, NextSlot, TypeOK, data
  <2>2. Counted(t)'
    BY <2>1 DEF Counted
  <2>3. StoredBelow'
    BY <1>0, <1>2, <1>6, <2>1 DEF StoredBelow, Settled
  <2> QED
    BY <1>0, <1>1, <1>3, <1>4, <2>2, <2>3 DEF StoredInv
<1>8. CASE PushCount(t)
  <2>1. /\ pc[t] = "counted" /\ pc'[t] = "write" /\ n_vectors' = slot[t] + 1
        /\ UNCHANGED <<slot, file>> /\ slot[t] = n_vectors /\ n_vectors \in Nat
    BY <1>0, <1>5, <1>8 DEF PushCount, TypeOK, Counted
  <2>2. Counted(t)'
    BY <2>1 DEF Counted
  <2>3. Settled' = Settled
    BY <1>2 DEF Settled
  <2>4. \A s \in Settled : s < slot[t] /\ s < slot[t] + 1
    BY <1>6, <2>1
  <2>5. StoredBelow'
    BY <1>0, <1>2, <1>6, <2>1, <2>3, <2>4 DEF StoredBelow
  <2> QED
    BY <1>0, <1>1, <1>3, <1>4, <2>2, <2>5 DEF StoredInv
<1>9. CASE PushWrite(t)
  <2>1. /\ pc[t] = "write" /\ pc'[t] = "written" /\ n_vectors = slot[t] + 1
        /\ UNCHANGED <<slot, vec, n_vectors>> /\ slot[t] \in Slots
        /\ file' = [file EXCEPT ![slot[t]] = vec[t]]
    BY <1>0, <1>5, <1>9 DEF PushWrite, TypeOK, Counted, Write
  <2>2. Counted(t)'
    BY <1>0, <2>1 DEF Counted, TypeOK
  <2>3. \A s \in Settled : s < slot[t]
    BY <2>1 DEF StoredInv, StoredBelow
  <2>4. \A s \in Settled : file'[s] = file[s]
    BY <1>0, <1>6, <2>1, <2>3 DEF TypeOK
  <2>5. StoredBelow'
    BY <1>0, <1>2, <1>6, <2>1, <2>3, <2>4 DEF StoredBelow, Settled
  <2> QED
    BY <1>0, <1>1, <1>3, <1>4, <2>2, <2>5 DEF StoredInv
<1> QED
  BY <1>7, <1>8, <1>9

\* The pointers after pages are gone lead where they led.
LEMMA UnmappedSlot ==
    \A p \in Pointer : \A gone :
        Unmapped(p, gone).slot = p.slot /\ (p = Null => Unmapped(p, gone) = Null)
BY DEF Unmapped, Pointer, Null

\* push returns: from now on its slot is one that can be asked for.
LEMMA InvalidateStored ==
    ASSUME \A t, u \in Pushers : t = u, StoredInv, NEW t \in Pushers, PushInvalidate(t)
    PROVE  StoredInv'
<1>0. t \in Threads /\ Pushers = {t} /\ TypeOK
  BY ThreadsAssumption DEF StoredInv, CacheInv
<1>1. CacheInv'
  BY <1>0, InvalidateStep DEF StoredInv
<1>2. /\ pc[t] = "written" /\ slot[t] \in Slots /\ vec[t] \in Vecs
      /\ n_vectors = slot[t] + 1 /\ file[slot[t]] = vec[t]
      /\ UNCHANGED <<n_vectors, file>>
      /\ pc' = [pc EXCEPT ![t] = "idle"]
      /\ stored' = [stored EXCEPT ![slot[t]] = vec[t]]
  BY <1>0 DEF PushInvalidate, TypeOK, StoredInv, Counted, data
<1>3. Counted(t)' /\ \A u \in Threads \ Pushers : pc'[u] = "idle"
  BY <1>0, <1>2 DEF Counted, StoredInv, TypeOK
<1>4. slot[t] \in Nat /\ stored \in [Slots -> Vecs \cup {Free}]
  BY <1>0, <1>2, BoundAssumption DEF Slots, TypeOK
<1>5. Settled \subseteq Settled' /\ \A s \in Settled' : s = slot[t] \/ s \in Settled
  <2>1. ASSUME NEW s \in Settled, s # slot[t] PROVE s \in Settled'
    BY <1>2, <1>4, <2>1 DEF Settled
  <2>2. slot[t] \notin Settled
    BY <1>2, <1>4 DEF StoredInv, StoredBelow
  <2>3. ASSUME NEW s \in Settled', s # slot[t] PROVE s \in Settled
    BY <1>2, <1>4, <2>3 DEF Settled
  <2> QED
    BY <2>1, <2>2, <2>3
<1>6. StoredBelow'
  <2> SUFFICES ASSUME NEW s \in Settled'
               PROVE  file[s] = stored'[s] /\ s < n_vectors
    BY <1>0, <1>2 DEF StoredBelow, TypeOK
  <2>1. CASE s = slot[t]
    <3>1. stored'[slot[t]] = vec[t] /\ slot[t] < slot[t] + 1
      BY <1>2, <1>4
    <3> QED
      BY <1>2, <2>1, <3>1
  <2>2. CASE s # slot[t]
    BY <1>2, <1>4, <1>5, <2>2 DEF StoredInv, StoredBelow, Settled
  <2> QED
    BY <2>1, <2>2
<1>7. PointersSettled'
  <2>1. PICK gone : /\ nb_vec' = [u \in Threads |-> Unmapped(nb_vec[u], gone)]
                    /\ cur' = [u \in Threads |-> Unmapped(cur[u], gone)]
    BY DEF PushInvalidate
  <2>2. \A u \in Threads : nb_vec[u] \in Pointer /\ cur[u] \in Pointer
    BY <1>0 DEF TypeOK
  <2> SUFFICES ASSUME NEW u \in Threads, NEW p \in Held(u)' PROVE p.slot \in Settled'
    BY DEF PointersSettled
  <2>3. PICK o \in Held(u) : p.slot = o.slot
    BY <2>1, <2>2, UnmappedSlot DEF Held
  <2> QED
    BY <1>5, <2>3 DEF StoredInv, PointersSettled
<1> QED
  BY <1>0, <1>1, <1>3, <1>6, <1>7 DEF StoredInv

\* get hands out a pointer to a stored vector.
LEMMA GetStored ==
    ASSUME StoredInv, NEW t \in Threads, NEW s \in Slots, NEW keep \in BOOLEAN,
           GetHit(t, s, keep) \/ GetMiss(t, s, keep)
    PROVE  StoredInv'
<1>0. TypeOK /\ s \in Settled
  BY DEF StoredInv, CacheInv, GetHit, GetMiss, CanGet
<1>1. CacheInv'
  BY HitStep, MissStep DEF StoredInv
<1>2. UNCHANGED <<n_vectors, file, pc, slot, vec, stored>>
  BY DEF GetHit, GetMiss, data, push
<1>3. PICK new, gone : new.slot = s /\ Take(t, keep, new, gone)
  BY DEF GetHit, GetMiss
<1>4. \A u \in Threads : nb_vec[u] \in Pointer /\ cur[u] \in Pointer
  BY <1>0 DEF TypeOK
<1>5. \A u \in Threads : /\ nb_vec'[u] \in {new, Unmapped(nb_vec[u], gone)}
                         /\ cur'[u] \in {new, Null, Unmapped(cur[u], gone)}
  BY <1>3 DEF Take
<1>6. PointersSettled'
  <2> SUFFICES ASSUME NEW u \in Threads, NEW p \in Held(u)' PROVE p.slot \in Settled
    BY <1>2 DEF PointersSettled, Settled
  <2>1. p = new \/ \E o \in Held(u) : p.slot = o.slot
    BY <1>4, <1>5, UnmappedSlot DEF Held
  <2> QED
    BY <1>0, <1>3, <2>1 DEF StoredInv, PointersSettled
<1> QED
  BY <1>1, <1>2, <1>6 DEF StoredInv, Counted, StoredBelow, Settled

LEMMA ThrowStored ==
    ASSUME StoredInv, NEW t \in Threads, NEW s \in Slots, GetThrows(t, s)
    PROVE  StoredInv'
<1>0. TypeOK
  BY DEF StoredInv, CacheInv
<1>1. CacheInv'
  BY ThrowStep DEF StoredInv
<1>2. UNCHANGED <<n_vectors, file, pc, slot, vec, stored>>
  BY DEF GetThrows, data, push
<1>3. PointersSettled'
  <2>1. \A u \in Threads : nb_vec[u] \in Pointer /\ cur[u] \in Pointer
    BY <1>0 DEF TypeOK
  <2> SUFFICES ASSUME NEW u \in Threads, NEW p \in Held(u)' PROVE p.slot \in Settled
    BY <1>2 DEF PointersSettled, Settled
  <2>2. PICK o \in Held(u) : p.slot = o.slot
    BY <2>1, UnmappedSlot DEF Held, GetThrows
  <2> QED
    BY <2>2 DEF StoredInv, PointersSettled
<1> QED
  BY <1>1, <1>2, <1>3 DEF StoredInv, Counted, StoredBelow, Settled

\* Closing and opening keeps the vectors below the new counter, in any state of
\* the threads: the destructor runs, or the process ends.
LEMMA FreshStart ==
    ASSUME StoredInv, CacheInv',
           n_vectors' = (size \div PageSize) * VectorsPerPage,
           stored' = [s \in Slots |-> IF s < n_vectors' THEN stored[s] ELSE Free],
           \A t \in Threads : pc'[t] = "idle" /\ nb_vec'[t] = Null /\ cur'[t] = Null,
           UNCHANGED file
    PROVE  StoredInv'
<1>1. \A t \in Pushers : Counted(t)' /\ pc'[t] = "idle"
  BY ThreadsAssumption DEF Counted
<1>2. StoredBelow'
  BY <1>1 DEF StoredInv, StoredBelow, Settled
<1>3. PointersSettled'
  BY DEF PointersSettled
<1> QED
  BY <1>1, <1>2, <1>3 DEF StoredInv

LEMMA StoredInvNext ==
    ASSUME \A t, u \in Pushers : t = u, StoredInv, [Next]_vars
    PROVE  StoredInv'
<1>0. CacheInv' /\ TypeOK
  BY CacheInvNext DEF StoredInv, CacheInv
<1>1. ASSUME NEW t \in Pushers, NEW v \in Vecs, PushRead(t, v) PROVE StoredInv'
  BY <1>1, PushStored
<1>2. ASSUME NEW t \in Pushers, PushCount(t) \/ PushWrite(t) PROVE StoredInv'
  <2>1. vec[t] \in Vecs
    BY <1>0, <1>2, ThreadsAssumption DEF TypeOK, PushCount, PushWrite
  <2> QED
    BY <1>2, <2>1, PushStored
<1>3. ASSUME NEW t \in Threads, Done(t) PROVE StoredInv'
  <2>1. UNCHANGED <<n_vectors, file, pc, slot, vec, stored>>
    BY <1>3 DEF Done, data, push
  <2>2. \A u \in Threads : nb_vec'[u] \in {Null, nb_vec[u]} /\ cur'[u] \in {Null, cur[u]}
    BY <1>0, <1>3 DEF Done, TypeOK
  <2>3. PointersSettled'
    BY <2>1, <2>2 DEF StoredInv, PointersSettled, Settled, Held
  <2> QED
    BY <1>0, <2>1, <2>3 DEF StoredInv, Counted, StoredBelow, Settled
<1>4. CASE Reopen
  <2>1. /\ n_vectors' = (size \div PageSize) * VectorsPerPage
        /\ stored' = [s \in Slots |-> IF s < n_vectors' THEN stored[s] ELSE Free]
        /\ \A t \in Threads : pc'[t] = "idle" /\ nb_vec'[t] = Null /\ cur'[t] = Null
        /\ UNCHANGED file
    BY <1>4 DEF Reopen, push, pointers
  <2> QED
    BY <1>0, <2>1, FreshStart
<1>5. CASE UNCHANGED vars
  BY <1>0, <1>5 DEF StoredInv, Counted, StoredBelow, PointersSettled, Settled, vars, data, push, pointers
<1> QED
  BY <1>1, <1>2, <1>3, <1>4, <1>5, InvalidateStored, GetStored, ThrowStored DEF Next

LEMMA StoredInvImplies == StoredInv => MappedSeesStored
BY DEF StoredInv, StoredBelow, PointersSettled, MappedSeesStored, Seen

\* With one inserting thread and any number of searching ones, a pointer into a
\* mapped page shows the vector that push stored there, for every page size and
\* cache size, whatever is pushed, evicted and reopened while it is held.
THEOREM MappedAlwaysSeesStored ==
    ASSUME \A t, u \in Pushers : t = u
    PROVE  Spec => []MappedSeesStored
<1>1. StoredInv /\ [Next]_vars => StoredInv'
  BY StoredInvNext
<1> QED
  BY <1>1, StoredInvInit, StoredInvImplies, PTL DEF Spec
-----------------------------------------------------------------------------
(* Pages that were written to while they were cached. *)

LEMMA DroppedNext ==
    ASSUME TypeOK, WrittenPagesDropped, [Next]_vars
    PROVE  WrittenPagesDropped'
<1>1. ASSUME NEW t \in Pushers, NEW v \in Vecs, PushRead(t, v) PROVE WrittenPagesDropped'
  <2>1. /\ behind' = behind /\ pc[t] = "idle"
        /\ \A u \in Threads : u # t => pc'[u] = pc[u] /\ slot'[u] = slot[u]
    BY <1>1 DEF PushRead, cache, TypeOK
  <2> QED
    BY <2>1 DEF WrittenPagesDropped
<1>2. ASSUME NEW t \in Pushers, PushCount(t) PROVE WrittenPagesDropped'
  <2>1. /\ behind' = behind /\ pc[t] = "counted" /\ slot' = slot
        /\ \A u \in Threads : u # t => pc'[u] = pc[u]
    BY <1>2 DEF PushCount, cache, TypeOK
  <2> QED
    BY <2>1 DEF WrittenPagesDropped
<1>3. ASSUME NEW t \in Pushers, PushWrite(t) PROVE WrittenPagesDropped'
  <2>1. /\ behind' \subseteq behind \cup {PageOf(slot[t])} /\ slot' = slot
        /\ t \in Threads /\ pc'[t] = "written" /\ pc[t] = "write"
        /\ \A u \in Threads : u # t => pc'[u] = pc[u]
    BY <1>3, ThreadsAssumption DEF PushWrite, TypeOK
  <2> QED
    BY <2>1 DEF WrittenPagesDropped
<1>4. ASSUME NEW t \in Pushers, PushInvalidate(t) PROVE WrittenPagesDropped'
  <2> DEFINE p == PageOf(slot[t])
  <2>1. /\ t \in Threads /\ p \in Pages
        /\ \A u \in Threads : u # t => pc'[u] = pc[u] /\ slot'[u] = slot[u]
    BY <1>4, ThreadsAssumption, PageType DEF PushInvalidate, TypeOK
  <2>2. page_cache'[p] = NoPage
    BY <1>4, <2>1 DEF PushInvalidate, TypeOK
  <2>3. \A q \in behind' : q \in behind /\ page_cache'[q] # NoPage
    BY <1>4 DEF PushInvalidate, StillBehind
  <2> HIDE DEF p
  <2>4. ASSUME NEW q \in behind' PROVE \E u \in Threads : pc'[u] = "written" /\ PageOf(slot'[u]) = q
    <3>1. PICK u \in Threads : pc[u] = "written" /\ PageOf(slot[u]) = q
      BY <2>3, <2>4 DEF WrittenPagesDropped
    <3>2. u # t
      BY <2>2, <2>3, <2>4, <3>1 DEF p
    <3> QED
      BY <2>1, <3>1, <3>2
  <2> QED
    BY <2>4 DEF WrittenPagesDropped
<1>5. ASSUME behind' \subseteq behind, pc' = pc, slot' = slot PROVE WrittenPagesDropped'
  BY <1>5 DEF WrittenPagesDropped
<1>6. ASSUME NEW t \in Threads, NEW s \in Slots, NEW keep \in BOOLEAN,
             GetHit(t, s, keep) \/ GetMiss(t, s, keep) \/ GetThrows(t, s)
      PROVE  WrittenPagesDropped'
  BY <1>5, <1>6 DEF GetHit, GetMiss, GetThrows, StillBehind, push
<1>7. ASSUME NEW t \in Threads, Done(t) PROVE WrittenPagesDropped'
  BY <1>5, <1>7 DEF Done, cache, push
<1>8. CASE Reopen
  BY <1>5, <1>8 DEF Reopen, push
<1>9. CASE UNCHANGED vars
  BY <1>5, <1>9 DEF vars, cache, push
<1> QED
  BY <1>1, <1>2, <1>3, <1>4, <1>6, <1>7, <1>8, <1>9 DEF Next

LEMMA DroppedInit == Init => WrittenPagesDropped
BY DEF Init, WrittenPagesDropped

\* For any number of threads that push and get, every page size with or without
\* unused bytes at its end, and every cache size: a page that was cached before a
\* push wrote to it is out of the cache when that push returns.
THEOREM WrittenPagesAlwaysDropped == Spec => []WrittenPagesDropped
<1>1. TypeOK /\ WrittenPagesDropped /\ [Next]_vars => WrittenPagesDropped'
  BY DroppedNext
<1> QED
  BY <1>1, DroppedInit, TypeCorrect, PTL DEF Spec
-----------------------------------------------------------------------------
(* Pointers.  They stay good when no eviction is ever needed and nobody pushes
   beside the caller that holds them. *)

\* Nobody holds a pointer while its thread is inside a push.
PushesHoldNothing == \A t \in Threads : pc[t] # "idle" => HoldsNothing(t)

PointerInv ==
    /\ \A t \in Threads : nb_vec[t].valid = TRUE /\ cur[t].valid = TRUE
    /\ PushesHoldNothing

LEMMA NullValid == Null.valid = TRUE
BY DEF Null

\* A cache with room for every page evicts none to load one that is missing.
LEMMA NoEviction ==
    ASSUME CacheInv, MaxCachedPages >= Cardinality(Pages),
           NEW p \in Pages, page_cache[p] = NoPage
    PROVE  Victim = {}
<1>1. Cached \subseteq Pages \ {p}
  BY DEF Cached
<1>2. IsFiniteSet(Pages \ {p}) /\ Cardinality(Pages \ {p}) = Cardinality(Pages) - 1
  BY PagesFinite, FS_RemoveElement
<1>3. Cardinality(Cached) <= Cardinality(Pages) - 1
  BY <1>1, <1>2, FS_Subset
<1>4. ~Full
  BY <1>3, CachedFinite, PagesFinite, FS_CardinalityType, CacheAssumption DEF Full
<1> QED
  BY <1>4 DEF Victim

\* A pointer to a page that stays is left alone.
LEMMA UnmappedNothing ==
    ASSUME NEW p
    PROVE  Unmapped(p, {}) = p
<1>1. PageOf(p.slot) \notin {}
  OBVIOUS
<1> QED
  BY <1>1, Zenon DEF Unmapped

LEMMA PointerInvNext ==
    ASSUME \A t, u \in Threads : t = u, MaxCachedPages >= Cardinality(Pages),
           CacheInv, PointerInv, [Next]_vars
    PROVE  PointerInv'
<1> USE DEF PointerInv, PushesHoldNothing
<1>0. TypeOK
  BY DEF CacheInv
<1>1. ASSUME NEW t \in Pushers, NEW v \in Vecs, PushRead(t, v) PROVE PointerInv'
  BY <1>0, <1>1, ThreadsAssumption DEF PushRead, pointers, TypeOK
<1>2. ASSUME NEW t \in Pushers, PushCount(t) \/ PushWrite(t) PROVE PointerInv'
  BY <1>0, <1>2, ThreadsAssumption DEF PushCount, PushWrite, pointers, TypeOK
<1>3. ASSUME NEW t \in Pushers, PushInvalidate(t) PROVE PointerInv'
  <2>1. \A u \in Threads : u = t /\ nb_vec[u] = Null /\ cur[u] = Null
    BY <1>3, ThreadsAssumption DEF PushInvalidate
  <2>2. \A gone : Unmapped(Null, gone) = Null
    BY DEF Unmapped
  <2>3. \A u \in Threads : nb_vec'[u] = Null /\ cur'[u] = Null
    BY <1>3, <2>1, <2>2 DEF PushInvalidate
  <2> QED
    BY <2>3, NullValid
<1>4. ASSUME NEW t \in Threads, NEW p, p.valid = TRUE, NEW keep \in BOOLEAN, Take(t, keep, p, {}),
             pc' = pc, pc[t] = "idle"
      PROVE  PointerInv'
  <2>1. \A u \in Threads : /\ nb_vec'[u] \in {p, nb_vec[u]} /\ cur'[u] \in {p, Null, cur[u]}
                           /\ u # t => nb_vec'[u] = nb_vec[u] /\ cur'[u] = cur[u]
    BY <1>4, UnmappedNothing DEF Take
  <2> QED
    BY <1>4, <2>1, NullValid
<1>5. ASSUME NEW t \in Threads, NEW s \in Slots, NEW keep \in BOOLEAN, GetHit(t, s, keep)
      PROVE  PointerInv'
  BY <1>4, <1>5 DEF GetHit, CanGet, push
<1>6. ASSUME NEW t \in Threads, NEW s \in Slots, NEW keep \in BOOLEAN, GetMiss(t, s, keep)
      PROVE  PointerInv'
  <2>1. Victim = {}
    BY <1>6, NoEviction, PageType DEF GetMiss
  <2> QED
    BY <1>4, <1>6, <2>1 DEF GetMiss, CanGet, push
<1>7. ASSUME NEW t \in Threads, NEW s \in Slots, GetThrows(t, s) PROVE PointerInv'
  <2>1. Victim = {}
    BY <1>7, NoEviction, PageType DEF GetThrows
  <2>2. \A u \in Threads : nb_vec'[u] = nb_vec[u] /\ cur'[u] = cur[u]
    BY <1>7, <2>1, UnmappedNothing DEF GetThrows
  <2> QED
    BY <1>7, <2>2 DEF GetThrows, push
<1>8. ASSUME NEW t \in Threads, Done(t) PROVE PointerInv'
  BY <1>0, <1>8, NullValid DEF Done, TypeOK, push
<1>9. CASE Reopen \/ UNCHANGED vars
  BY <1>9 DEF Reopen, vars, push, pointers
<1> QED
  BY <1>1, <1>2, <1>3, <1>5, <1>6, <1>7, <1>8, <1>9 DEF Next

\* For one caller, and a cache with room for every page of the file, a pointer
\* that get returned can be read until the caller is done with it, through
\* pushes, pages that cannot be mapped and reopenings.  With a smaller cache an
\* insert that prunes evicts the page it holds a pointer into
\* (PagedPrune.cfg); with a second caller the invalidation in push unmaps a
\* page that was loaded after the last vector of it was written.
THEOREM PointersStayValid ==
    ASSUME \A t, u \in Threads : t = u, MaxCachedPages >= Cardinality(Pages)
    PROVE  Spec => []PointersValid
<1>1. CacheInv /\ PointerInv /\ [Next]_vars => PointerInv'
  BY PointerInvNext
<1>2. Init => PointerInv
  BY NullValid DEF Init, PointerInv, PushesHoldNothing
<1>3. PointerInv => PointersValid
  BY DEF PointerInv, PointersValid
<1> QED
  BY <1>1, <1>2, <1>3, CacheInvAlways, PTL DEF Spec
-----------------------------------------------------------------------------
(* The index on top of the store. *)

IndexType ==
    /\ raw \in Seq(Vecs)
    /\ pushed \in [Threads -> Vecs \cup {Zero}]
    /\ base \in Nat

\* Only inserters push, and each hands its vector over before the next push.
Handing ==
    /\ \A t \in Threads \ Pushers : pc[t] = "idle" /\ pushed[t] = Zero
    /\ \A t \in Pushers : pc[t] # "idle" => pushed[t] = Zero

\* How far the store is ahead of the index while thread t inserts.
Ahead(t) ==
    /\ pc[t] = "idle" /\ pushed[t] = Zero => n_vectors = base + Len(raw)
    /\ pc[t] = "idle" /\ pushed[t] # Zero =>
          /\ n_vectors = base + Len(raw) + 1
          /\ base + Len(raw) \in Slots /\ file[base + Len(raw)] = pushed[t]
    /\ pc[t] = "counted" =>
          n_vectors = base + Len(raw) /\ slot[t] = base + Len(raw)
    /\ pc[t] \in {"write", "written"} =>
          n_vectors = base + Len(raw) + 1 /\ slot[t] = base + Len(raw)
    /\ pc[t] = "written" => file[slot[t]] = vec[t]

\* The numbers of the index and of the store.
Numbers ==
    /\ \A q \in 1 .. Len(raw) : base + q - 1 \in Slots /\ file[base + q - 1] = raw[q]
    /\ \A t \in Pushers : Ahead(t)
    /\ Pushers = {} => n_vectors = base + Len(raw)

SlotInv ==
    /\ CacheInv
    /\ IndexType
    /\ Handing
    /\ Numbers

-----------------------------------------------------------------------------
LEMMA SlotInvInit == IndexInit => SlotInv
<1>. SUFFICES ASSUME IndexInit PROVE SlotInv
  OBVIOUS
<1>1. CacheInv
  BY CacheInvInit DEF IndexInit
<1>2. IndexType /\ Handing
  BY ThreadsAssumption DEF IndexInit, Init, IndexType, Handing
<1>3. Numbers
  BY BoundAssumption, ThreadsAssumption DEF IndexInit, Init, Numbers, Ahead
<1>. QED
  BY <1>1, <1>2, <1>3 DEF SlotInv

\* A terminated process leaves an empty cache behind.
LEMMA TerminateStep ==
    ASSUME CacheInv, NEW t \in Threads, NEW q \in Slots, Terminate(t, q)
    PROVE  CacheInv'
<1>1. n_vectors' \in Nat
  BY OffsetTypes DEF CacheInv, TypeOK, Terminate
<1>2. page_cache' = [p \in Pages |-> NoPage] /\ lru_order' = << >>
  BY DEF Terminate
<1>3. Cached' = {} /\ Elems(lru_order') = {} /\ Once(lru_order')
  BY <1>2 DEF Cached, Elems, Once
<1>4. LruAgrees' /\ CacheBounded'
  BY <1>3, FS_EmptySet, CacheAssumption DEF LruAgrees, CacheBounded
<1>5. stored' \in [Slots -> Vecs \cup {Free}] /\ leaked' \in Nat /\ behind' = {} /\ reopens' \in Nat
  BY DEF CacheInv, TypeOK, Terminate
<1>6. /\ pc' = [u \in Threads |-> "idle"] /\ slot' = [u \in Threads |-> Free]
      /\ vec' = [u \in Threads |-> Zero]
      /\ nb_vec' = [u \in Threads |-> Null] /\ cur' = [u \in Threads |-> Null]
      /\ UNCHANGED <<file, size>>
  BY DEF Terminate
<1>7. TypeOK'
  BY <1>1, <1>2, <1>5, <1>6 DEF CacheInv, TypeOK, Pointer
<1>. QED
  BY <1>4, <1>7 DEF CacheInv

\* Every other step of the index is a step of the store, or leaves it alone.
LEMMA StoreStep ==
    ASSUME CacheInv, [IndexNext]_indexVars
    PROVE  CacheInv'
<1>1. ASSUME NEW t \in Pushers, Push(t) PROVE CacheInv'
  <2>1. Next
    BY <1>1 DEF Push, Next
  <2>. QED
    BY <2>1, CacheInvNext
<1>2. ASSUME NEW t \in Pushers, PushReturns(t) PROVE CacheInv'
  BY <1>2, InvalidateStep, ThreadsAssumption DEF PushReturns
<1>3. ASSUME NEW t \in Pushers, Allocate(t) PROVE CacheInv'
  BY <1>3, CacheInvNext DEF Allocate
<1>4. ASSUME NEW t \in Threads, NEW q \in Slots, Access(t, q) PROVE CacheInv'
  BY <1>4, HitStep, MissStep DEF Access
<1>5. ASSUME NEW t \in Threads, Release(t) PROVE CacheInv'
  <2>1. Next
    BY <1>5 DEF Release, Next
  <2>. QED
    BY <2>1, CacheInvNext
<1>6. CASE IndexReopen
  BY <1>6, ReopenStep DEF IndexReopen
<1>7. CASE UNCHANGED indexVars
  BY <1>7, CacheInvNext DEF indexVars
<1>. QED
  BY <1>1, <1>2, <1>3, <1>4, <1>5, <1>6, <1>7, TerminateStep DEF IndexNext

\* Thread t, the only inserter, takes a step of push.
LEMMA PushSlot ==
    ASSUME \A t, u \in Pushers : t = u,
           SlotInv, NEW t \in Pushers, Push(t)
    PROVE  IndexType' /\ Handing' /\ Numbers'
<1>. USE BoundAssumption
<1>0. t \in Threads /\ Pushers = {t} /\ TypeOK /\ UNCHANGED <<raw, pushed, base>> /\ pushed[t] = Zero
  BY ThreadsAssumption DEF SlotInv, CacheInv, Push, index
<1>1. IndexType'
  BY <1>0 DEF SlotInv, IndexType
<1>3. \A u \in Threads : u # t => pc'[u] = pc[u]
  BY <1>0 DEF TypeOK, Push, PushRead, PushCount, PushWrite
<1>4. Handing'
  BY <1>0, <1>3 DEF SlotInv, Handing
<1>5. Numbers'
  <2>0. Numbers /\ Ahead(t)
    BY <1>0 DEF SlotInv, Numbers
  <2>1. Len(raw) \in Nat /\ base \in Nat /\ n_vectors \in Nat
    BY <1>0 DEF SlotInv, IndexType, TypeOK
  <2>2. CASE \E v \in Vecs : PushRead(t, v)
    <3>1. pc[t] = "idle" /\ pc'[t] = "counted" /\ slot'[t] = n_vectors /\ UNCHANGED <<n_vectors, file>>
      BY <2>2, <1>0 DEF TypeOK, PushRead, NextSlot, data
    <3>2. Ahead(t)'
      BY <3>1, <2>0, <2>1, <1>0 DEF Ahead
    <3>. QED
      BY <3>1, <3>2, <2>0, <1>0 DEF Numbers
  <2>3. CASE PushCount(t)
    <3>1. pc[t] = "counted" /\ pc'[t] = "write" /\ n_vectors' = slot[t] + 1 /\ UNCHANGED <<slot, file>>
      BY <2>3, <1>0 DEF TypeOK, PushCount
    <3>2. Ahead(t)'
      BY <3>1, <2>0, <2>1, <1>0 DEF Ahead
    <3>. QED
      BY <3>1, <3>2, <2>0, <1>0 DEF Numbers
  <2>4. CASE PushWrite(t)
    <3>1. /\ pc[t] = "write" /\ pc'[t] = "written" /\ UNCHANGED <<n_vectors, slot, vec>>
          /\ file' = [file EXCEPT ![slot[t]] = vec[t]] /\ slot[t] \in Slots
      BY <2>4, <1>0 DEF TypeOK, PushWrite, Write
    <3>2. slot[t] = base + Len(raw) /\ n_vectors = base + Len(raw) + 1
      BY <3>1, <2>0 DEF Ahead
    <3>3. file'[slot[t]] = vec[t]
      BY <3>1, <1>0 DEF TypeOK
    <3>4. Ahead(t)'
      BY <3>1, <3>2, <3>3, <1>0 DEF Ahead
    <3>5. \A q \in 1 .. Len(raw) : file'[base + q - 1] = raw[q]
      <4>. SUFFICES ASSUME NEW q \in 1 .. Len(raw) PROVE file'[base + q - 1] = raw[q]
        OBVIOUS
      <4>1. base + q - 1 \in Slots /\ base + q - 1 # slot[t] /\ file[base + q - 1] = raw[q]
        BY <2>0, <2>1, <3>2 DEF Numbers
      <4>. QED
        BY <4>1, <3>1, <1>0 DEF TypeOK
    <3>. QED
      BY <3>4, <3>5, <2>0, <1>0 DEF Numbers
  <2>. QED
    BY <2>2, <2>3, <2>4 DEF Push
<1>. QED
  BY <1>1, <1>4, <1>5

LEMMA ReturnSlot ==
    ASSUME \A t, u \in Pushers : t = u,
           SlotInv, NEW t \in Pushers, PushReturns(t)
    PROVE  IndexType' /\ Handing' /\ Numbers'
<1>. USE BoundAssumption, ZeroAssumption
<1>0. /\ t \in Threads /\ Pushers = {t} /\ TypeOK /\ UNCHANGED <<raw, base, n_vectors, file>>
      /\ pc[t] = "written" /\ vec[t] \in Vecs /\ slot[t] \in Slots
      /\ pushed' = [pushed EXCEPT ![t] = vec[t]]
      /\ pc' = [pc EXCEPT ![t] = "idle"]
  BY ThreadsAssumption DEF SlotInv, CacheInv, TypeOK, PushReturns, PushInvalidate, data
<1>1. IndexType'
  BY <1>0 DEF SlotInv, IndexType
<1>3. Handing'
  BY <1>0 DEF SlotInv, Handing, IndexType, TypeOK
<1>4. Numbers'
  <2>1. Numbers /\ Ahead(t) /\ Len(raw) \in Nat
    BY <1>0 DEF SlotInv, Numbers, IndexType
  <2>2. /\ slot[t] = base + Len(raw) /\ n_vectors = base + Len(raw) + 1
        /\ file[base + Len(raw)] = vec[t] /\ base + Len(raw) \in Slots
    BY <1>0, <2>1 DEF Ahead
  <2>3. pushed'[t] = vec[t] /\ pc'[t] = "idle" /\ pushed'[t] # Zero
    BY <1>0 DEF SlotInv, IndexType, TypeOK
  <2>4. Ahead(t)'
    BY <1>0, <2>2, <2>3 DEF Ahead
  <2>. QED
    BY <1>0, <2>1, <2>4 DEF Numbers
<1>. QED
  BY <1>1, <1>3, <1>4

LEMMA AllocateSlot ==
    ASSUME \A t, u \in Pushers : t = u,
           SlotInv, NEW t \in Pushers, Allocate(t)
    PROVE  IndexType' /\ Handing' /\ Numbers'
<1>. USE BoundAssumption
<1>0. /\ t \in Threads /\ Pushers = {t} /\ TypeOK
      /\ UNCHANGED <<base, n_vectors, file, pc, slot, vec, nb_vec, cur>>
      /\ pushed[t] \in Vecs /\ pushed[t] # Zero
      /\ raw' = Append(raw, pushed[t])
      /\ pushed' = [pushed EXCEPT ![t] = Zero]
  BY ThreadsAssumption DEF SlotInv, CacheInv, IndexType, Allocate, vars, data, push, pointers
<1>1. /\ raw' \in Seq(Vecs) /\ Len(raw') = Len(raw) + 1 /\ Len(raw) \in Nat
      /\ \A q \in 1 .. Len(raw) : raw'[q] = raw[q]
      /\ raw'[Len(raw) + 1] = pushed[t]
  BY <1>0 DEF SlotInv, IndexType
<1>2. IndexType'
  BY <1>0, <1>1 DEF SlotInv, IndexType
<1>4. pc[t] = "idle" /\ pc'[t] = "idle" /\ pushed'[t] = Zero
  BY <1>0 DEF SlotInv, Handing, IndexType
<1>5. Handing'
  BY <1>0, <1>4 DEF SlotInv, Handing, IndexType
<1>6. Numbers'
  <2>0. base \in Nat
    BY DEF SlotInv, IndexType
  <2>1. Numbers /\ Ahead(t)
    BY <1>0 DEF SlotInv, Numbers
  <2>2. /\ n_vectors = base + Len(raw) + 1 /\ base + Len(raw) \in Slots
        /\ file[base + Len(raw)] = pushed[t]
    BY <1>0, <1>4, <2>1 DEF Ahead
  <2>3. Ahead(t)'
    BY <1>0, <1>1, <1>4, <2>0, <2>2 DEF Ahead
  <2>4. \A q \in 1 .. Len(raw) + 1 :
           base + q - 1 \in Slots /\ file[base + q - 1] = raw'[q]
    <3> SUFFICES ASSUME NEW q \in 1 .. Len(raw) + 1
                 PROVE  base + q - 1 \in Slots /\ file[base + q - 1] = raw'[q]
      OBVIOUS
    <3>1. CASE q \in 1 .. Len(raw)
      BY <1>1, <2>1, <3>1 DEF Numbers
    <3>2. CASE q = Len(raw) + 1
      <4>1. base + q - 1 = base + Len(raw)
        BY <1>1, <2>0, <3>2
      <4> QED
        BY <1>1, <2>2, <3>2, <4>1
    <3> QED
      BY <1>1, <3>1, <3>2
  <2>. QED
    BY <1>0, <1>1, <2>2, <2>3, <2>4 DEF Numbers
<1>. QED
  BY <1>2, <1>5, <1>6

\* The accessor and the end of a walk touch neither numbering.
LEMMA AccessSlot ==
    ASSUME SlotInv, UNCHANGED <<raw, pushed, base, n_vectors, file, pc, slot, vec>>
    PROVE  IndexType' /\ Handing' /\ Numbers'
BY DEF SlotInv, IndexType, Handing, Numbers, Ahead

\* An index that is opened is empty, and has no insert under way.
LEMMA OpenedSlot ==
    ASSUME CacheInv', raw' = << >>, base' = n_vectors',
           \A t \in Threads : pc'[t] = "idle" /\ pushed'[t] = Zero,
           pushed' \in [Threads -> Vecs \cup {Zero}]
    PROVE  SlotInv'
<1>1. n_vectors' \in Nat
  BY DEF CacheInv, TypeOK
<1>2. IndexType' /\ Handing'
  BY <1>1, ThreadsAssumption DEF IndexType, Handing
<1>3. Len(raw') = 0 /\ base' + Len(raw') = n_vectors' /\ 1 .. Len(raw') = {}
  <2>1. Len(raw') = 0
    OBVIOUS
  <2>2. 1 .. 0 = {}
    OBVIOUS
  <2>3. \A n \in Nat : n + 0 = n
    OBVIOUS
  <2>4. base' + 0 = n_vectors'
    BY <1>1, <2>3
  <2>. QED
    BY <2>1, <2>2, <2>4
<1>4. Numbers'
  BY <1>3, ThreadsAssumption DEF Numbers, Ahead
<1>. QED
  BY <1>2, <1>4 DEF SlotInv

LEMMA SlotInvNext ==
    ASSUME \A t, u \in Pushers : t = u, SlotInv, [IndexNext]_indexVars
    PROVE  SlotInv'
<1>0. CacheInv'
  BY StoreStep DEF SlotInv
<1>1. ASSUME NEW t \in Threads, Release(t) PROVE SlotInv'
  BY <1>0, <1>1, AccessSlot DEF SlotInv, Release, Done, index, data, push
<1>2. CASE IndexReopen
  <2>1. /\ raw' = << >> /\ base' = n_vectors' /\ UNCHANGED <<pushed, pc>>
        /\ \A t \in Threads : pc[t] = "idle" /\ pushed[t] = Zero
    BY <1>2 DEF IndexReopen, Calm, Reopen, push
  <2>. QED
    BY <1>0, <2>1, OpenedSlot DEF SlotInv, IndexType
<1>3. ASSUME NEW t \in Threads, NEW q \in Slots, Terminate(t, q) PROVE SlotInv'
  <2>1. /\ raw' = << >> /\ base' = n_vectors' /\ pushed' = [u \in Threads |-> Zero]
        /\ pc' = [u \in Threads |-> "idle"]
    BY <1>3 DEF Terminate
  <2>. QED
    BY <1>0, <2>1, OpenedSlot
<1>4. CASE UNCHANGED indexVars
  BY <1>0, <1>4, AccessSlot DEF SlotInv, indexVars, index, vars, data, push
<1>5. ASSUME NEW t \in Pushers, Push(t) \/ PushReturns(t) \/ Allocate(t) PROVE SlotInv'
  BY <1>0, <1>5, PushSlot, ReturnSlot, AllocateSlot DEF SlotInv
<1>6. ASSUME NEW t \in Threads, NEW q \in Slots, Access(t, q) PROVE SlotInv'
  BY <1>0, <1>6, AccessSlot DEF SlotInv, Access, GetHit, GetMiss, index, data, push
<1>. QED
  BY <1>1, <1>2, <1>3, <1>4, <1>5, <1>6 DEF IndexNext

LEMMA SlotInvImplies == SlotInv => SlotsAgree
<1>. SUFFICES ASSUME SlotInv PROVE SlotsAgree
  OBVIOUS
<1>1. Numbers
  BY DEF SlotInv
<1>2. Calm => n_vectors = base + Len(raw)
  <2>1. CASE Pushers = {}
    BY <1>1, <2>1 DEF Numbers
  <2>2. CASE Pushers # {}
    BY <1>1, <2>2, ThreadsAssumption DEF Numbers, Ahead, Calm
  <2>. QED
    BY <2>1, <2>2
<1>. QED
  BY <1>1, <1>2 DEF SlotsAgree, Numbers

\* With one inserting thread, and any number that search, internal id q of an
\* index is slot base + q of the store, base being the vectors the store counted
\* when the index was opened: for every page size and cache size, through
\* reopenings, and processes that end between the push and the insert.
THEOREM NumberingsAgree ==
    ASSUME \A t, u \in Pushers : t = u
    PROVE  IndexSpec => []SlotsAgree
<1>1. SlotInv /\ [IndexNext]_indexVars => SlotInv'
  BY SlotInvNext
<1>. QED
  BY <1>1, SlotInvInit, SlotInvImplies, PTL DEF IndexSpec

\* In the composed index too, with any number of inserting threads, the cache
\* and its recency list agree and stay within the limit.
THEOREM IndexCacheInv == IndexSpec => [](TypeOK /\ LruAgrees /\ CacheBounded)
<1>1. IndexInit => CacheInv
  BY CacheInvInit DEF IndexInit
<1>2. CacheInv /\ [IndexNext]_indexVars => CacheInv'
  BY StoreStep
<1>3. CacheInv => TypeOK /\ LruAgrees /\ CacheBounded
  BY DEF CacheInv
<1>. QED
  BY <1>1, <1>2, <1>3, PTL DEF IndexSpec
-----------------------------------------------------------------------------
(* What the pages show in the composition. *)

\* A step of the index is a step of the store, leaves it alone, or ends the
\* process.
LEMMA IndexStep ==
    ASSUME [IndexNext]_indexVars
    PROVE  [Next]_vars \/ \E t \in Threads, q \in Slots : Terminate(t, q)
<1>1. ASSUME NEW t \in Pushers, Push(t) PROVE Next
  BY <1>1 DEF Push, Next
<1>2. ASSUME NEW t \in Pushers, PushReturns(t) PROVE Next
  BY <1>2 DEF PushReturns, Next
<1>3. ASSUME NEW t \in Threads, NEW q \in Slots, Access(t, q) PROVE Next
  BY <1>3 DEF Access, Next
<1>4. ASSUME NEW t \in Threads, Release(t) PROVE Next
  BY <1>4 DEF Release, Next
<1>5. CASE IndexReopen
  BY <1>5 DEF IndexReopen, Next
<1>6. ASSUME NEW t \in Pushers, Allocate(t) PROVE UNCHANGED vars
  BY <1>6 DEF Allocate
<1>7. CASE UNCHANGED indexVars
  BY <1>7 DEF indexVars
<1>. QED
  BY <1>1, <1>2, <1>3, <1>4, <1>5, <1>6, <1>7 DEF IndexNext

\* A process that starts after another one ended finds the store as one that
\* was closed and opened.
LEMMA TerminateOpens ==
    ASSUME CacheInv, NEW t \in Threads, NEW q \in Slots, Terminate(t, q)
    PROVE  /\ CacheInv'
           /\ n_vectors' = (size \div PageSize) * VectorsPerPage
           /\ stored' = [s \in Slots |-> IF s < n_vectors' THEN stored[s] ELSE Free]
           /\ \A u \in Threads : pc'[u] = "idle" /\ nb_vec'[u] = Null /\ cur'[u] = Null
           /\ page_cache' = [p \in Pages |-> NoPage]
           /\ UNCHANGED <<file, size>>
<1>1. CacheInv'
  BY TerminateStep
<1>. QED
  BY <1>1 DEF Terminate

LEMMA IndexStoredNext ==
    ASSUME \A t, u \in Pushers : t = u, StoredInv, [IndexNext]_indexVars
    PROVE  StoredInv'
<1>1. ASSUME NEW t \in Threads, NEW q \in Slots, Terminate(t, q) PROVE StoredInv'
  BY <1>1, TerminateOpens, FreshStart DEF StoredInv
<1>. QED
  BY <1>1, IndexStep, StoredInvNext

\* In the composed index, with one inserting thread and any number of searching
\* ones, a pointer into a mapped page shows the vector that push stored there.
THEOREM IndexSeesStored ==
    ASSUME \A t, u \in Pushers : t = u
    PROVE  IndexSpec => []MappedSeesStored
<1>1. StoredInv /\ [IndexNext]_indexVars => StoredInv'
  BY IndexStoredNext
<1>2. IndexInit => StoredInv
  BY StoredInvInit DEF IndexInit
<1>. QED
  BY <1>1, <1>2, StoredInvImplies, PTL DEF IndexSpec

\* In the composed index, for any number of inserting and searching threads, a
\* page that was cached before a push wrote to it is out of the cache when that
\* push returns.
THEOREM IndexPagesDropped == IndexSpec => []WrittenPagesDropped
<1>1. ASSUME CacheInv, WrittenPagesDropped, [IndexNext]_indexVars PROVE WrittenPagesDropped'
  <2>1. ASSUME NEW t \in Threads, NEW q \in Slots, Terminate(t, q) PROVE WrittenPagesDropped'
    BY <2>1 DEF Terminate, WrittenPagesDropped
  <2>2. TypeOK
    BY <1>1 DEF CacheInv
  <2>. QED
    BY <1>1, <2>1, <2>2, IndexStep, DroppedNext
<1>2. CacheInv /\ [IndexNext]_indexVars => CacheInv'
  BY StoreStep
<1>3. IndexInit => CacheInv /\ WrittenPagesDropped
  BY CacheInvInit, DroppedInit DEF IndexInit
<1>. QED
  BY <1>1, <1>2, <1>3, PTL DEF IndexSpec
=============================================================================
