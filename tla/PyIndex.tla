------------------------------ MODULE PyIndex ------------------------------
(***************************************************************************)
(* The Index class of python/bindings.cpp: an HNSWIndex with metadata and  *)
(* a filtered search on top of it.  The interpreter lock serialises calls. *)
(* The traversal itself is module Hnsw's; here its layer-0 beam is any     *)
(* ef_search slots or fewer, best first, and all slots only where Hnsw     *)
(* shows that the walk reaches them all (Hnsw!SearchExact).                *)
(***************************************************************************)
EXTENDS Filter, FiniteSets

CONSTANTS
    Ids, Vecs, Metas, Queries, Ks, Wheres,
    Sim(_, _),
    Efs,          \* the values ef_search may take
    M,            \* links per node and layer, 2M on layer 0
    MaxVectors,   \* bound: slots of the index
    ReuseIds      \* may a deleted id be inserted again?

ASSUME PyAssumption ==
    Efs \subseteq Nat \ {0} /\ Efs # {} /\ M \in Nat /\ M >= 2 /\ MaxVectors \in Nat /\ ReuseIds \in BOOLEAN

VARIABLES
    slots,      \* id_map_, raw_vectors_, metadata_ and tombstone_
    ef_search,  \* cfg_.ef_search
    answer      \* the answer of the search that returns, or NoAnswer

vars == <<slots, ef_search, answer>>

NoAnswer == [rows |-> << >>]
-----------------------------------------------------------------------------
\* dict_to_json followed by json::parse: a field that holds NaN comes back null,
\* and no metadata at all is the empty object.
Stored(m) ==
    IF m = Null THEN Obj(<< >>) ELSE Obj([f \in DOMAIN m[2] |-> Dump(m[2][f])])

\* json_meta_to_dict: strings, numbers and Booleans as they are, all else as
\* the text of its JSON.
json_meta_to_dict(m) ==
    [f \in DOMAIN m[2] |->
        IF Type(m[2][f]) \in {"num", "str"} \/ m[2][f] \in {Bool("true"), Bool("false")}
        THEN m[2][f] ELSE <<"text", m[2][f]>>]

Init ==
    /\ slots = << >>
    /\ ef_search \in Efs
    /\ answer = NoAnswer

insert(id, v, m) ==
    /\ answer = NoAnswer
    /\ Len(slots) < MaxVectors
    /\ \A i \in DOMAIN slots : slots[i].id = id => ReuseIds /\ slots[i].dead
    /\ slots' = Append(slots, [id |-> id, vec |-> v, meta |-> Stored(m), dead |-> FALSE])
    /\ UNCHANGED <<ef_search, answer>>

\* The first slot that has the id, 1 if there is none.
SlotOf(id) ==
    IF \E i \in DOMAIN slots : slots[i].id = id
    THEN CHOOSE i \in DOMAIN slots : slots[i].id = id /\ \A j \in 1 .. i - 1 : slots[j].id # id
    ELSE 1

delete(id) ==
    /\ answer = NoAnswer
    /\ slots' = [i \in DOMAIN slots |->
          IF i = SlotOf(id) /\ slots[i].id = id THEN [slots[i] EXCEPT !.dead = TRUE] ELSE slots[i]]
    /\ UNCHANGED <<ef_search, answer>>

set_ef_search(ef) ==
    /\ answer = NoAnswer
    /\ ef_search' = ef
    /\ UNCHANGED <<slots, answer>>

\* The walk of search_layer_ on layer 0 reaches every slot: no list was ever
\* pruned and the beam has room for all.
ReachesAll == Len(slots) <= 2 * M + 1 /\ ef_search >= Len(slots)

\* How many slots the walk may return: at least the one it enters at.
BeamLengths ==
    IF ReachesAll THEN {Len(slots)}
    ELSE 1 .. (IF ef_search < Len(slots) THEN ef_search ELSE Len(slots))

\* What search_layer_ may return for the query q: slots without repetition, the
\* most similar first, but nearer ones may be missing.
Beams(q) ==
    {b \in UNION {[1 .. n -> DOMAIN slots] : n \in BeamLengths} :
        \A i, j \in DOMAIN b :
            i < j => b[i] # b[j] /\ Sim(slots[b[i]].vec, q) >= Sim(slots[b[j]].vec, q)}

Prefix(s, n) == SubSeq(s, 1, IF n < Len(s) THEN n ELSE Len(s))

\* Mutant: no slack for the results that the clause will drop.
WidthTight(k, w) == k
\* How many live results the binding asks the index for.
Width(k, w) == IF w = Null THEN k ELSE k * 4

Alive == {i \in DOMAIN slots : ~slots[i].dead}

\* Mutant: tombstoned slots of the beam are returned.
CollectedAll(beam, width) == IF width = 0 THEN beam ELSE Prefix(beam, width)
\* HNSWIndex::search: drop the tombstoned slots of the beam, stop at width
\* results.  The test for the width comes after a result was taken, so a width
\* of 0 never stops it.
Collected(beam, width) ==
    LET alive == Picked(beam, Alive)
    IN  IF width = 0 THEN alive ELSE Prefix(alive, width)

\* The slots whose id leads to metadata that the clause lets through.
Admitted(w) ==
    {i \in DOMAIN slots :
        w # Null => evaluate_filter(slots[SlotOf(slots[i].id)].meta, parse_where(w))}

(* search: look each result up by its id, filter by the metadata found, stop at
   k rows. *)
search(q, k, w) ==
    /\ answer = NoAnswer
    /\ ~Rejected(w)
    /\ \E beam \in Beams(q) :
          LET found == Collected(beam, Width(k, w))
              kept == Prefix(Picked(found, Admitted(w)), k)
          IN  answer' = [q |-> q, k |-> k, where |-> w, rows |->
                [r \in DOMAIN kept |->
                    [id |-> slots[kept[r]].id, score |-> Sim(slots[kept[r]].vec, q),
                     meta |-> json_meta_to_dict(slots[SlotOf(slots[kept[r]].id)].meta)]]]
    /\ UNCHANGED <<slots, ef_search>>

(* The search returns to its caller. *)
return == answer # NoAnswer /\ answer' = NoAnswer /\ UNCHANGED <<slots, ef_search>>

Next ==
    \/ \E id \in Ids : delete(id) \/ \E v \in Vecs, m \in Metas : insert(id, v, m)
    \/ \E ef \in Efs : set_ef_search(ef)
    \/ return
    \/ \E q \in Queries, k \in Ks, w \in Wheres : search(q, k, w)

Spec == Init /\ [][Next]_vars
-----------------------------------------------------------------------------
Entry(i) == [id |-> slots[i].id, vec |-> slots[i].vec, meta |-> slots[i].meta]

Store ==
    INSTANCE VectorStore WITH
        live <- {Entry(i) : i \in Alive},
        Metas <- {Stored(m) : m \in Metas},
        Matches <- Meaning, Show <- json_meta_to_dict

\* Whatever the walk finds or misses, every row is a live vector that the clause admits, with
\* its own score and metadata, no row twice, best first, at most k rows.
RowsSound ==
    answer = NoAnswer \/
        /\ Len(answer.rows) <= answer.k
        /\ \A r \in DOMAIN answer.rows :
              /\ \E i \in Alive : /\ answer.rows[r] = Store!Row(Entry(i), answer.q)
                                  /\ Meaning(slots[i].meta, answer.where)
              /\ \A n \in 1 .. r - 1 : /\ answer.rows[n].id # answer.rows[r].id
                                       /\ answer.rows[n].score >= answer.rows[r].score

\* A filtered search returns k rows as long as k live vectors satisfy the clause.
FilterKeepsK ==
    answer = NoAnswer \/
        Len(answer.rows) >= answer.k \/
        Len(answer.rows) = Cardinality({i \in Alive : Meaning(slots[i].meta, answer.where)})

\* While the walk reaches every slot (at most 2M + 1 of them, and a beam as wide)
\* and a filtered search for k leaves at most 4k vectors to choose from, the
\* answer is the exact one of the store: tombstones, the detour over external
\* ids and the conversions to and from JSON change nothing.
AnswerExact ==
    answer # NoAnswer /\ ReachesAll
            /\ (answer.where # Null => Cardinality(Alive) <= 4 * answer.k) =>
        Store!IsTopK(answer.rows,
            {Entry(i) : i \in {j \in Alive : Meaning(slots[j].meta, answer.where)}}, answer.q, answer.k)
=============================================================================
