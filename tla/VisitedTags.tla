---------------------------- MODULE VisitedTags ----------------------------
(***************************************************************************)
(* visited_buf and visit_tag of HNSWIndex::search_layer_ (src/hnsw.cpp).   *)
(*                                                                         *)
(* Both are thread_local statics: a thread uses one buffer for every       *)
(* traversal it makes, of every index in the process, the fresh index of   *)
(* compact included.  Nothing is cleared between traversals; a slot counts *)
(* as visited when its entry equals the tag of the traversal, and the tag  *)
(* has a limited width.  Module Hnsw has a set in the place of this        *)
(* machinery.                                                              *)
(***************************************************************************)
EXTENDS Integers, FiniteSets

CONSTANTS
    Threads,     \* callers
    Indexes,     \* the indexes of the process
    Wrap,        \* the values of uint16_t visit_tag: 65536
    Margin,      \* what resize adds to the vector count: 10000
    MaxVectors   \* bound: the slots of an index

ASSUME TagAssumption == Wrap \in Nat /\ Wrap >= 2
ASSUME SizeAssumption == Margin \in Nat /\ MaxVectors \in Nat

VARIABLES
    num_vectors,  \* num_vectors_ of each index
    visited_buf,  \* the buffer of each thread, a function on 0 .. size() - 1
    visit_tag,    \* the tag of each thread
    walk,         \* the index each thread traverses, None if it does not
    seen,         \* history: the slots of that index the traversal has marked
    start,        \* history: the slots that index had when the traversal began
    resized       \* history: was the buffer resized for the traversal?

vars == <<num_vectors, visited_buf, visit_tag, walk, seen, start, resized>>

None == "none"
ASSUME NoneAssumption == None \notin Indexes

\* The slots of index x, and the number of entries of buffer b.
Slots(x) == 0 .. num_vectors[x] - 1
Size(b) == Cardinality(DOMAIN b)
-----------------------------------------------------------------------------
\* Mutant: the buffer may be one entry short.
TooShortLate(b, nv) == Size(b) < nv - 1
\* visited_buf.size() < nv
TooShort(b, nv) == Size(b) < nv

\* visited_buf.resize(nv + Margin, 0) when it is too short for nv slots.
Grown(b, nv) ==
    IF TooShort(b, nv)
    THEN [i \in 0 .. nv + Margin - 1 |-> IF i \in DOMAIN b THEN b[i] ELSE 0]
    ELSE b

\* Mutant: the old tags stay in the buffer when the tag starts over.
NotCleared(b, tag) == b
\* The buffer for a traversal whose incremented tag is tag: std::fill when the
\* tag has wrapped around.
Cleared(b, tag) == IF tag = 0 THEN [i \in DOMAIN b |-> 0] ELSE b

Init ==
    /\ num_vectors = [x \in Indexes |-> 0]
    /\ visited_buf = [t \in Threads |-> [i \in {} |-> 0]]
    /\ visit_tag = [t \in Threads |-> 0]
    /\ walk = [t \in Threads |-> None]
    /\ seen = [t \in Threads |-> {}]
    /\ start = [t \in Threads |-> 0]
    /\ resized = [t \in Threads |-> FALSE]

(* insert takes a slot of index x, which other threads may be walking. *)
Allocate(t, x) ==
    /\ walk[t] = None
    /\ num_vectors[x] < MaxVectors
    /\ num_vectors' = [num_vectors EXCEPT ![x] = @ + 1]
    /\ UNCHANGED <<visited_buf, visit_tag, walk, seen, start, resized>>

(* search_layer_: load num_vectors_, size the buffer, take the next tag and
   mark the entry point e. *)
StartWalk(t, x, e) ==
    LET tag == (visit_tag[t] + 1) % Wrap
    IN  /\ walk[t] = None
        /\ walk' = [walk EXCEPT ![t] = x]
        /\ visit_tag' = [visit_tag EXCEPT ![t] = IF tag = 0 THEN 1 ELSE tag]
        /\ visited_buf' = [visited_buf EXCEPT ![t] =
              [Cleared(Grown(@, num_vectors[x]), tag) EXCEPT ![e] = visit_tag'[t]]]
        /\ seen' = [seen EXCEPT ![t] = {e}]
        /\ start' = [start EXCEPT ![t] = num_vectors[x]]
        /\ resized' = [resized EXCEPT ![t] = Size(visited_buf'[t]) # Size(visited_buf[t])]
        /\ UNCHANGED num_vectors

(* search_layer_: a link leads to slot n, which is marked unless it was.  Past
   the end of the buffer the test reads and the mark overwrites foreign memory,
   so that the test may come out either way and nothing is remembered. *)
Visit(t, n) ==
    /\ walk[t] # None
    /\ n \in DOMAIN visited_buf[t] => visited_buf[t][n] # visit_tag[t]
    /\ visited_buf' = [visited_buf EXCEPT ![t] =
          IF n \in DOMAIN @ THEN [@ EXCEPT ![n] = visit_tag[t]] ELSE @]
    /\ seen' = [seen EXCEPT ![t] = @ \cup {n}]
    /\ UNCHANGED <<num_vectors, visit_tag, walk, start, resized>>

(* search_layer_ returns. *)
EndWalk(t) ==
    /\ walk[t] # None
    /\ walk' = [walk EXCEPT ![t] = None]
    /\ seen' = [seen EXCEPT ![t] = {}]
    /\ start' = [start EXCEPT ![t] = 0]
    /\ resized' = [resized EXCEPT ![t] = FALSE]
    /\ UNCHANGED <<num_vectors, visited_buf, visit_tag>>

Next ==
    \E t \in Threads :
        \/ \E x \in Indexes : Allocate(t, x) \/ \E e \in Slots(x) : StartWalk(t, x, e)
        \/ walk[t] # None /\ \E n \in Slots(walk[t]) : Visit(t, n)
        \/ EndWalk(t)

Spec == Init /\ [][Next]_vars
-----------------------------------------------------------------------------
TypeOK ==
    /\ num_vectors \in [Indexes -> 0 .. MaxVectors]
    /\ DOMAIN visited_buf = Threads
    /\ \A t \in Threads : \E n \in Nat : visited_buf[t] \in [0 .. n - 1 -> 0 .. Wrap - 1]
    /\ visit_tag \in [Threads -> 0 .. Wrap - 1]
    /\ walk \in [Threads -> Indexes \cup {None}]
    /\ seen \in [Threads -> SUBSET Nat]
    /\ start \in [Threads -> 0 .. MaxVectors]
    /\ resized \in [Threads -> BOOLEAN]

\* The buffer is the set it stands for: during a traversal the entries that
\* carry its tag are exactly the slots this traversal has marked, whatever
\* earlier traversals of this or another index left behind, across resizes and
\* after the tag has wrapped around.
VisitedExact ==
    \A t \in Threads : walk[t] # None =>
        {i \in DOMAIN visited_buf[t] : visited_buf[t][i] = visit_tag[t]}
            = seen[t] \cap DOMAIN visited_buf[t]

\* Every slot a link of the walked index can lead to has an entry.
AllInBounds == \A t \in Threads : walk[t] # None => Slots(walk[t]) \subseteq DOMAIN visited_buf[t]

\* Slots that inserts have taken of the index thread t walks since it began.
Growth(t) == num_vectors[walk[t]] - start[t]

\* search_layer_ indexes visited_buf past its end only for slots that were taken
\* while it ran, and only after more than Margin of them if the buffer was
\* resized for this traversal: whichever indexes the thread walked before, and
\* whoever inserts meanwhile, the buffer covers the slots of its first load of
\* num_vectors_ and, after a resize, the next Margin ones.
InBounds ==
    \A t \in Threads :
        walk[t] # None /\ Growth(t) <= (IF resized[t] THEN Margin ELSE 0) =>
            Slots(walk[t]) \subseteq DOMAIN visited_buf[t]
=============================================================================
