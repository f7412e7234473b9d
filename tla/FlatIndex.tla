----------------------------- MODULE FlatIndex -----------------------------
(***************************************************************************)
(* FlatIndex (src/vector_store.cpp), the brute-force index, searched with  *)
(* a where clause as tests/test_filter.cpp does.  The scores computed by   *)
(* the OpenMP loop are independent of each other, so a search is one       *)
(* action.  A vector is a member of Vecs and Sim any integer similarity.   *)
(***************************************************************************)
EXTENDS Filter, FiniteSets

CONSTANTS
    Ids, Vecs, Metas, Queries, Ks, Wheres,
    Sim(_, _),
    MinusInfinity,  \* the score of an entry that is left out
    MaxVectors,     \* bound: entries of vectors_
    ReuseIds        \* may an id be inserted while a deleted entry still has it?

ASSUME FlatAssumption == Ks \subseteq Nat /\ MaxVectors \in Nat /\ ReuseIds \in BOOLEAN
ASSUME ScoreAssumption ==
    /\ MinusInfinity \in Int
    /\ \A v \in Vecs, q \in Queries : Sim(v, q) \in Int /\ Sim(v, q) > MinusInfinity

VARIABLES
    vectors,   \* vectors_: records of id, vec, meta and deleted
    answer     \* what the call that returns reports, or NoAnswer

vars == <<vectors, answer>>

NoAnswer    == [rows |-> << >>]
Deleted(id) == [rows |-> << >>, deleted |-> id]
-----------------------------------------------------------------------------
Init == vectors = << >> /\ answer = NoAnswer

insert(id, v, m) ==
    /\ answer = NoAnswer
    /\ Len(vectors) < MaxVectors
    /\ \A i \in DOMAIN vectors : vectors[i].id = id => ReuseIds /\ vectors[i].deleted
    /\ vectors' = Append(vectors, [id |-> id, vec |-> v, meta |-> m, deleted |-> FALSE])
    /\ UNCHANGED answer

\* delete_vector stops at entry i: the first that has the id, deleted or not.
IsFirst(i, id) == vectors[i].id = id /\ \A j \in 1 .. i - 1 : vectors[j].id # id

delete_vector(id) ==
    /\ answer = NoAnswer
    /\ vectors' = [i \in DOMAIN vectors |->
          IF IsFirst(i, id) THEN [vectors[i] EXCEPT !.deleted = TRUE] ELSE vectors[i]]
    /\ answer' = Deleted(id)

Live == {i \in DOMAIN vectors : ~vectors[i].deleted}

compact ==
    /\ answer = NoAnswer
    /\ vectors' = Picked(vectors, {vectors[i] : i \in Live})
    /\ UNCHANGED answer

\* The scores of all entries; deleted ones, and ones the clause keeps out, get
\* minus infinity.
Scores(q, w) ==
    [i \in DOMAIN vectors |->
        IF ~vectors[i].deleted /\ evaluate_filter(vectors[i].meta, parse_where(w))
        THEN Sim(vectors[i].vec, q) ELSE MinusInfinity]

\* std::partial_sort: the ways to put n of the best entries first.
PartialSorts(s, n) ==
    {p \in [1 .. n -> DOMAIN s] :
        /\ \A i, j \in 1 .. n : i < j => p[i] # p[j] /\ s[p[i]] >= s[p[j]]
        /\ \A x \in DOMAIN s : (\A i \in 1 .. n : p[i] # x) => \A i \in 1 .. n : s[p[i]] >= s[x]}

\* The rows taken from p before the loop meets minus infinity and breaks.
Stop(s, p) ==
    CHOOSE m \in 0 .. Len(p) : /\ \A i \in 1 .. m : s[p[i]] # MinusInfinity
                               /\ m < Len(p) => s[p[m + 1]] = MinusInfinity

(* search (for w = Null) and search_filtered. *)
search(q, k, w) ==
    LET s == Scores(q, w)
        n == Len(vectors)
    IN  /\ answer = NoAnswer
        /\ ~Rejected(w)
        /\ \E p \in PartialSorts(s, IF k < n THEN k ELSE n) :
              LET hits == SubSeq(p, 1, Stop(s, p))
              IN  answer' = [q |-> q, k |-> k, where |-> w, rows |->
                    [i \in DOMAIN hits |->
                        [id |-> vectors[hits[i]].id, score |-> s[hits[i]], meta |-> vectors[hits[i]].meta]]]
        /\ UNCHANGED vectors

(* A delete or a search returns to its caller. *)
return == answer # NoAnswer /\ answer' = NoAnswer /\ UNCHANGED vectors

Next ==
    \/ \E id \in Ids : delete_vector(id) \/ \E v \in Vecs, m \in Metas : insert(id, v, m)
    \/ compact \/ return
    \/ \E q \in Queries, k \in Ks, w \in Wheres : search(q, k, w)

Spec == Init /\ [][Next]_vars
-----------------------------------------------------------------------------
AsStored(m) == m
Entry(i) == [id |-> vectors[i].id, vec |-> vectors[i].vec, meta |-> vectors[i].meta]
Entries  == {Entry(i) : i \in Live}

Store ==
    INSTANCE VectorStore WITH
        live <- Entries,
        Matches <- Meaning, Show <- AsStored

\* FlatIndex is the store it promises to be: once delete_vector has returned the
\* id is gone, and whatever was inserted, deleted and compacted before, a search
\* returns exactly the k best live entries that the clause is documented to admit,
\* among metadata of mixed types, with fewer than k left and with k = 0 too.
ImplementsStore == Store!Spec
=============================================================================
