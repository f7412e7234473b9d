---------------------------- MODULE VectorStore ----------------------------
(***************************************************************************)
(* What FlatIndex and the Python Index promise: a set of vectors, and a    *)
(* search that returns the k most similar ones whose metadata satisfies    *)
(* the where clause, best first.                                           *)
(***************************************************************************)
EXTENDS Integers, Sequences, FiniteSets

CONSTANTS
    Ids, Vecs, Metas, Queries, Ks, Wheres,
    Sim(_, _),      \* similarity of a vector and a query
    Matches(_, _),  \* does this metadata satisfy this clause?
    Show(_)         \* metadata as it is shown in an answer

VARIABLES
    live,    \* the vectors in the store, as records of id, vec and meta
    answer   \* what the call that returns reports, or NoAnswer

NoAnswer    == [rows |-> << >>]
Deleted(id) == [rows |-> << >>, deleted |-> id]
-----------------------------------------------------------------------------
Row(e, q) == [id |-> e.id, score |-> Sim(e.vec, q), meta |-> Show(e.meta)]

\* rows answers a search for q among the entries S.
IsTopK(rows, S, q, k) ==
    /\ Len(rows) = IF k < Cardinality(S) THEN k ELSE Cardinality(S)
    /\ \A i \in DOMAIN rows : \E e \in S : rows[i] = Row(e, q)
    /\ \A i, j \in DOMAIN rows : i < j => rows[i].id # rows[j].id /\ rows[i].score >= rows[j].score
    /\ \A e \in S : \/ \E i \in DOMAIN rows : rows[i].id = e.id
                    \/ \A i \in DOMAIN rows : rows[i].score >= Sim(e.vec, q)

Init == live = {} /\ answer = NoAnswer

Insert(id, v, m) ==
    /\ answer = NoAnswer
    /\ \A e \in live : e.id # id
    /\ live' = live \cup {[id |-> id, vec |-> v, meta |-> m]}
    /\ UNCHANGED answer

Delete(id) ==
    /\ answer = NoAnswer
    /\ live' = {e \in live : e.id # id}
    /\ answer' = Deleted(id)

Search(q, k, w) ==
    /\ answer = NoAnswer
    /\ answer' = [q |-> q, k |-> k, where |-> w, rows |-> answer'.rows]
    /\ IsTopK(answer'.rows, {e \in live : Matches(e.meta, w)}, q, k)
    /\ UNCHANGED live

(* A delete or a search returns to its caller. *)
Return == answer # NoAnswer /\ answer' = NoAnswer /\ UNCHANGED live

Next ==
    \/ \E id \in Ids : Delete(id) \/ \E v \in Vecs, m \in Metas : Insert(id, v, m)
    \/ \E q \in Queries, k \in Ks, w \in Wheres : Search(q, k, w)
    \/ Return

Spec == Init /\ [][Next]_<<live, answer>>
=============================================================================
