-------------------------------- MODULE Hnsw --------------------------------
(***************************************************************************)
(* HNSWIndex (include/hnsw.hpp, src/hnsw.cpp): the in-memory graph index,  *)
(* used by several threads at once.                                        *)
(*                                                                         *)
(* index_mutex_ is taken and released many times inside one insert or one  *)
(* search.  Every critical section is one action; what a thread does       *)
(* between two of them touches only its own locals and is folded into the  *)
(* neighbouring action.  Internal ids (slots) count from 0 as in the code. *)
(* A vector is a member of Vec and Sim(a, b) stands for                    *)
(* cosine_similarity_avx2; ties are allowed, and the order std::sort       *)
(* leaves them in is a nondeterministic choice.                            *)
(***************************************************************************)
EXTENDS Integers, Sequences, FiniteSets, Functions

CONSTANTS
    Threads,         \* callers of the index
    Writers,         \* bound: the callers that insert
    Ids,             \* external ids
    Deletable,       \* bound: the ids callers delete
    Vec,             \* vectors and queries
    Sim(_, _),       \* similarity of two vectors
    M,               \* cfg_.M
    EfConstruction,  \* cfg_.ef_construction
    EfSearch,        \* cfg_.ef_search
    Ks,              \* values of k passed to search
    MaxLevel,        \* bound: largest layer random_layer returns
    MaxVectors,      \* bound: inserts in a behaviour
    ReuseIds         \* may a caller insert an id that the index already holds?

\* mL_ = 1 / ln(M) is a usable multiplier only from M = 2 on.
ASSUME MAssumption == M \in Nat /\ M >= 2
ASSUME EfAssumption == EfConstruction \in Nat /\ EfSearch \in Nat \ {0}
ASSUME BoundAssumption == MaxLevel \in Nat /\ MaxVectors \in Nat
ASSUME IdsAssumption == Deletable \subseteq Ids
ASSUME WritersAssumption == Writers \subseteq Threads
ASSUME VecAssumption == Vec # {}
ASSUME KsAssumption == Ks \subseteq Int
ASSUME SimAssumption == \A a, b \in Vec : Sim(a, b) \in Int

VARIABLES
    \* shared, guarded by index_mutex_
    num_vectors, max_layer, entry_point, graph, raw_vectors, id_map, tombstone,
    \* the call each thread is in
    pc, op, query, slot, level, nv, k, todo, ret,
    \* the locals of search_layer_
    ep, lc, cands, results, visited, nbs,
    \* history: the ids whose last operation is delete_vector; for each search,
    \* the slots whose insert had returned when it was called
    deleted_ids, settled

index == <<num_vectors, max_layer, entry_point, graph, raw_vectors, id_map, tombstone>>
args  == <<op, query, slot, level, nv, k>>
beam  == <<ep, lc, cands, results, visited, nbs>>
history == <<deleted_ids, settled>>
vars  == <<index, pc, args, todo, ret, beam, history>>

Nodes == 0 .. num_vectors - 1
NoVec == CHOOSE v \in Vec : TRUE
-----------------------------------------------------------------------------
\* A layer of a node exists iff layer < graph_[n].size().
Layers(n) == DOMAIN graph[n]

\* std::vector::push_back on the arrays indexed by internal id.
PushBack(f, x) == [i \in 0 .. num_vectors |-> IF i = num_vectors THEN x ELSE f[i]]

\* graph_[nb].resize(lc + 1), which leaves a longer list alone.
Resized(g, l) == [i \in DOMAIN g \cup 0 .. l |-> IF i \in DOMAIN g THEN g[i] ELSE << >>]

\* The orders in which std::sort by descending similarity may leave the
\* members of D.
Ranked(D, sim) ==
    {p \in Bijection(1 .. Cardinality(D), D) :
        \A i, j \in 1 .. Cardinality(D) : i < j => sim[p[i]] >= sim[p[j]]}

MinOf(a, b) == IF a <= b THEN a ELSE b

\* select_neighbours_: the m entries of the list s most similar to v.
SelectNeighbours(v, s, m) ==
    {[i \in 1 .. MinOf(m, Len(s)) |-> s[p[i]]] :
        p \in Ranked(DOMAIN s, [i \in DOMAIN s |-> Sim(v, raw_vectors[s[i]])])}

Mmax(l) == IF l = 0 THEN M * 2 ELSE M

\* The beam width of the search_layer_ call thread t is in: 1 while it
\* descends to its level (search descends to 0), the full width from there on.
Ef(t) ==
    IF lc[t] > level[t] THEN 1
    ELSE IF op[t] = "insert" THEN (IF EfConstruction >= M THEN EfConstruction ELSE M)
    ELSE EfSearch

SimTo(t, n) == Sim(query[t], raw_vectors[n])

\* cands.top(): the greatest similarity, the smallest id among equals.
IsNearest(t, c) ==
    \A n \in cands[t] : SimTo(t, n) < SimTo(t, c) \/ (SimTo(t, n) = SimTo(t, c) /\ c <= n)

\* results.top(): the least similarity, the greatest id among equals.
Worst(t, R) ==
    CHOOSE w \in R : \A n \in R :
        SimTo(t, w) < SimTo(t, n) \/ (SimTo(t, w) = SimTo(t, n) /\ n <= w)

\* Mutant: the beam counts as full with its first result.
FullAtOnce(t) == Cardinality(results[t]) >= 1
Full(t) == Cardinality(results[t]) >= Ef(t)

\* The break of the traversal: the best candidate is worse than the worst result.
Hopeless(t, c) ==
    /\ Full(t)
    /\ results[t] # {}
    /\ SimTo(t, c) < SimTo(t, Worst(t, results[t]))

\* search_layer_ is between two iterations of its while loop ...
Looping(t) == pc[t] = "search" /\ nbs[t] = << >>
\* ... and leaves it.
LayerDone(t) ==
    /\ Looping(t)
    /\ \A c \in cands[t] : IsNearest(t, c) => Hopeless(t, c)

\* The nodes R as search_layer_ returns them, best first.
Ranking(t, R) == Ranked(R, [n \in R |-> SimTo(t, n)])
Found(t) == Ranking(t, results[t])

\* if (!candidates.empty()) ep = candidates.front().second
Front(t, found) == IF results[t] = {} THEN ep[t] ELSE found[1]

\* Mutant: the links of layer 0 are copied on every layer.
LinksOnBottom(n, l) == graph[n][0]
\* The links of node n on layer l; none if n does not reach that high.
LinksOf(n, l) == IF l \in Layers(n) THEN graph[n][l] ELSE << >>

\* Mutant: the visited check is missing.
FreshAlways(t, n) == TRUE
\* visited_buf[n] != visit_tag
Fresh(t, n) == n \notin visited[t]

\* Mutant: a back-link replaces the list it should extend.
BackLinkOnly(links, q) == <<q>>
\* nb_links.push_back(q)
WithBackLink(links, q) == Append(links, q)

\* Mutant: a list may be one over Mmax.
TooLongLate(links, l) == Len(links) > Mmax(l) + 1
\* A list that has to be pruned.
TooLong(links, l) == Len(links) > Mmax(l)

\* Mutant: the linking loop runs once more, on layer -1.
LayersBelowOff(t) == lc[t] >= 0
\* The linking loop goes on below the current layer.
LayersBelow(t) == lc[t] > 0

\* Mutant: the new node becomes the entry point whatever its level.
TallestAlways(t) == TRUE
\* level > max_layer_, with max_layer_ read again at the end of the insert.
Tallest(t) == level[t] > max_layer

\* Mutant: linking starts at level, not at min(level, cur_max_layer).
TopLayerOwn(t) == level[t]
\* cur_max_layer, where an insert starts.
TopLayer(t) == max_layer

\* Mutant: tombstones are not skipped.
AllFound(t) == results[t]
\* The candidates of thread t that are not tombstoned now.
Alive(t) == {n \in results[t] : ~tombstone[n]}

\* Enter search_layer_ on layer l from entry point e.
StartLayer(t, e, l) ==
    /\ ep' = [ep EXCEPT ![t] = e]
    /\ lc' = [lc EXCEPT ![t] = l]
    /\ cands' = [cands EXCEPT ![t] = {e}]
    /\ results' = [results EXCEPT ![t] = {e}]
    /\ visited' = [visited EXCEPT ![t] = {e}]
    /\ nbs' = [nbs EXCEPT ![t] = << >>]

\* A thread outside any call; its locals are dead.
Idle(t) == pc[t] = "idle"
Inserting(t) == pc[t] # "idle" /\ op[t] = "insert"
InFlight == {slot[t] : t \in {u \in Threads : Inserting(u)}}

Finish(t) ==
    /\ pc' = [pc EXCEPT ![t] = "idle"]
    /\ op' = [op EXCEPT ![t] = "insert"]
    /\ query' = [query EXCEPT ![t] = NoVec]
    /\ slot' = [slot EXCEPT ![t] = 0]
    /\ level' = [level EXCEPT ![t] = 0]
    /\ nv' = [nv EXCEPT ![t] = 0]
    /\ k' = [k EXCEPT ![t] = 0]
    /\ todo' = [todo EXCEPT ![t] = << >>]
    /\ ep' = [ep EXCEPT ![t] = 0]
    /\ lc' = [lc EXCEPT ![t] = 0]
    /\ cands' = [cands EXCEPT ![t] = {}]
    /\ results' = [results EXCEPT ![t] = {}]
    /\ visited' = [visited EXCEPT ![t] = {}]
    /\ nbs' = [nbs EXCEPT ![t] = << >>]
-----------------------------------------------------------------------------
Init ==
    /\ num_vectors = 0
    /\ max_layer = 0
    /\ entry_point = 0
    /\ graph = [i \in Nodes |-> << >>]
    /\ raw_vectors = [i \in Nodes |-> << >>]
    /\ id_map = [i \in Nodes |-> << >>]
    /\ tombstone = [i \in Nodes |-> << >>]
    /\ pc = [t \in Threads |-> "idle"]
    /\ op = [t \in Threads |-> "insert"]
    /\ query = [t \in Threads |-> NoVec]
    /\ slot = [t \in Threads |-> 0]
    /\ level = [t \in Threads |-> 0]
    /\ nv = [t \in Threads |-> 0]
    /\ k = [t \in Threads |-> 0]
    /\ todo = [t \in Threads |-> << >>]
    /\ ret = [t \in Threads |-> << >>]
    /\ ep = [t \in Threads |-> 0]
    /\ lc = [t \in Threads |-> 0]
    /\ cands = [t \in Threads |-> {}]
    /\ results = [t \in Threads |-> {}]
    /\ visited = [t \in Threads |-> {}]
    /\ nbs = [t \in Threads |-> << >>]
    /\ deleted_ids = {}
    /\ settled = [t \in Threads |-> {}]

(* insert, first critical section: take a slot of lv + 1 empty layers.  The
   first vector becomes the entry point and the call returns. *)
InsertAllocate(t, id, v, lv) ==
    /\ Idle(t)
    /\ t \in Writers
    /\ num_vectors < MaxVectors
    /\ ReuseIds \/ \A i \in Nodes : id_map[i] # id
    /\ num_vectors' = num_vectors + 1
    /\ raw_vectors' = PushBack(raw_vectors, v)
    /\ id_map' = PushBack(id_map, id)
    /\ tombstone' = PushBack(tombstone, FALSE)
    /\ graph' = PushBack(graph, [l \in 0 .. lv |-> << >>])
    /\ deleted_ids' = deleted_ids \ {id}
    /\ \/ /\ num_vectors = 0
          /\ max_layer' = lv
          /\ entry_point' = 0
          /\ UNCHANGED <<pc, args>>
       \/ /\ num_vectors > 0
          /\ pc' = [pc EXCEPT ![t] = "entry"]
          /\ op' = [op EXCEPT ![t] = "insert"]
          /\ query' = [query EXCEPT ![t] = v]
          /\ slot' = [slot EXCEPT ![t] = num_vectors]
          /\ level' = [level EXCEPT ![t] = lv]
          /\ UNCHANGED <<max_layer, entry_point, nv, k>>
    /\ UNCHANGED <<todo, ret, beam, settled>>

(* insert, second critical section: read where to start. *)
InsertReadEntry(t) ==
    /\ pc[t] = "entry"
    /\ op[t] = "insert"
    /\ pc' = [pc EXCEPT ![t] = "search"]
    /\ StartLayer(t, entry_point, TopLayer(t))
    /\ UNCHANGED <<index, args, todo, ret, history>>

(* search_layer_: pop the best candidate and copy its links on this layer. *)
ExpandCandidate(t) ==
    /\ Looping(t)
    /\ \E c \in cands[t] :
        /\ IsNearest(t, c)
        /\ ~Hopeless(t, c)
        /\ cands' = [cands EXCEPT ![t] = @ \ {c}]
        /\ nbs' = [nbs EXCEPT ![t] = LinksOf(c, lc[t])]
    /\ UNCHANGED <<index, pc, args, todo, ret, ep, lc, results, visited, history>>

(* search_layer_: score one copied link. *)
EvalNeighbour(t) ==
    /\ pc[t] = "search"
    /\ nbs[t] # << >>
    /\ LET nb == Head(nbs[t])
           keep == \/ results[t] = {}
                   \/ SimTo(t, nb) > SimTo(t, Worst(t, results[t]))
                   \/ ~Full(t)
           grown == results[t] \cup {nb}
       IN  /\ nbs' = [nbs EXCEPT ![t] = Tail(@)]
           /\ visited' = [visited EXCEPT ![t] = @ \cup {nb}]
           /\ IF Fresh(t, nb) /\ keep
              THEN /\ cands' = [cands EXCEPT ![t] = @ \cup {nb}]
                   /\ results' = [results EXCEPT ![t] =
                         IF Cardinality(grown) > Ef(t) THEN grown \ {Worst(t, grown)} ELSE grown]
              ELSE UNCHANGED <<cands, results>>
    /\ UNCHANGED <<index, pc, args, todo, ret, ep, lc, history>>

(* insert and search: the greedy descent through the layers above level. *)
Descend(t) ==
    /\ LayerDone(t)
    /\ lc[t] > level[t]
    /\ \E found \in Found(t) : StartLayer(t, Front(t, found), lc[t] - 1)
    /\ UNCHANGED <<index, pc, args, todo, ret, history>>

(* insert: choose the M best of the layer and overwrite the new node's own
   list with them. *)
LinkOwn(t) ==
    /\ LayerDone(t)
    /\ op[t] = "insert"
    /\ lc[t] <= level[t]
    /\ \E found \in Found(t) : \E chosen \in SelectNeighbours(query[t], found, M) :
        /\ graph' = [graph EXCEPT ![slot[t]][lc[t]] = chosen]
        /\ todo' = [todo EXCEPT ![t] = chosen]
        /\ ep' = [ep EXCEPT ![t] = Front(t, found)]
    /\ pc' = [pc EXCEPT ![t] = "link"]
    /\ cands' = [cands EXCEPT ![t] = {}]
    /\ results' = [results EXCEPT ![t] = {}]
    /\ visited' = [visited EXCEPT ![t] = {}]
    /\ UNCHANGED <<num_vectors, max_layer, entry_point, raw_vectors, id_map, tombstone,
                   args, ret, lc, nbs, history>>

(* insert: add the new node to one neighbour's list, and prune that list. *)
LinkBack(t) ==
    /\ pc[t] = "link"
    /\ todo[t] # << >>
    /\ LET nb == Head(todo[t])
           g == Resized(graph[nb], lc[t])
           links == WithBackLink(g[lc[t]], slot[t])
       IN  \E kept \in IF TooLong(links, lc[t])
                       THEN SelectNeighbours(raw_vectors[nb], links, Mmax(lc[t]))
                       ELSE {links} :
              graph' = [graph EXCEPT ![nb] = [g EXCEPT ![lc[t]] = kept]]
    /\ todo' = [todo EXCEPT ![t] = Tail(@)]
    /\ UNCHANGED <<num_vectors, max_layer, entry_point, raw_vectors, id_map, tombstone,
                   pc, args, ret, beam, history>>

(* insert: --lc of the linking loop. *)
NextLayer(t) ==
    /\ pc[t] = "link"
    /\ todo[t] = << >>
    /\ \/ /\ LayersBelow(t)
          /\ StartLayer(t, ep[t], lc[t] - 1)
          /\ pc' = [pc EXCEPT ![t] = "search"]
       \/ /\ ~LayersBelow(t)
          /\ pc' = [pc EXCEPT ![t] = "publish"]
          /\ UNCHANGED beam
    /\ UNCHANGED <<index, args, todo, ret, history>>

(* insert, last critical section: a node above all others is the new entry. *)
InsertPublish(t) ==
    /\ pc[t] = "publish"
    /\ IF Tallest(t)
       THEN max_layer' = level[t] /\ entry_point' = slot[t]
       ELSE UNCHANGED <<max_layer, entry_point>>
    /\ Finish(t)
    /\ UNCHANGED <<num_vectors, graph, raw_vectors, id_map, tombstone, ret, history>>

(* delete_vector: tombstone the first slot of the id, whatever its state. *)
DeleteVector(t, id) ==
    LET hits == {i \in Nodes : id_map[i] = id}
    IN  /\ Idle(t)
        /\ \/ /\ hits = {}
              /\ UNCHANGED <<tombstone, deleted_ids>>
           \/ \E i \in hits :
                /\ \A j \in hits : i <= j
                /\ tombstone' = [tombstone EXCEPT ![i] = TRUE]
                /\ deleted_ids' = deleted_ids \cup {id}
        /\ UNCHANGED <<num_vectors, max_layer, entry_point, graph, raw_vectors, id_map,
                       pc, args, todo, ret, beam, settled>>

(* search: load num_vectors_ before any lock is taken. *)
SearchLoad(t, v, kk) ==
    /\ Idle(t)
    /\ op' = [op EXCEPT ![t] = "search"]
    /\ query' = [query EXCEPT ![t] = v]
    /\ nv' = [nv EXCEPT ![t] = num_vectors]
    /\ k' = [k EXCEPT ![t] = kk]
    /\ pc' = [pc EXCEPT ![t] = IF num_vectors = 0 THEN "return" ELSE "entry"]
    /\ settled' = [settled EXCEPT ![t] = Nodes \ InFlight]
    /\ UNCHANGED <<index, slot, level, todo, ret, beam, deleted_ids>>

(* search, first critical section: start at the entry point or, when that is
   deleted, at the first live one of the nv slots. *)
SearchEntry(t) ==
    LET live == {i \in 0 .. nv[t] - 1 : ~tombstone[i]}
    IN  /\ pc[t] = "entry"
        /\ op[t] = "search"
        /\ \/ /\ ~tombstone[entry_point]
              /\ StartLayer(t, entry_point, max_layer)
              /\ pc' = [pc EXCEPT ![t] = "search"]
           \/ /\ tombstone[entry_point]
              /\ \E i \in live :
                    /\ \A j \in live : i <= j
                    /\ StartLayer(t, i, max_layer)
              /\ pc' = [pc EXCEPT ![t] = "search"]
           \/ /\ tombstone[entry_point]
              /\ live = {}
              /\ pc' = [pc EXCEPT ![t] = "return"]
              /\ UNCHANGED beam
        /\ UNCHANGED <<index, args, todo, ret, history>>

\* Mutant: the loop breaks one result late.
CutLate(best, kk) ==
    IF kk >= 1 THEN [i \in 1 .. MinOf(kk + 1, Len(best)) |-> best[i]] ELSE best
\* What the caller gets of the live candidates, best first: the loop breaks
\* when the size of its output equals kk, so never for kk < 1.
Cut(best, kk) ==
    IF kk >= 1 THEN [i \in 1 .. MinOf(kk, Len(best)) |-> best[i]] ELSE best

(* search, last critical section: keep the candidates that are live now. *)
SearchCollect(t) ==
    /\ LayerDone(t)
    /\ op[t] = "search"
    /\ lc[t] = 0
    /\ \E best \in Ranking(t, Alive(t)) :
            ret' = [ret EXCEPT ![t] = Cut(best, k[t])]
    /\ pc' = [pc EXCEPT ![t] = "return"]
    /\ UNCHANGED <<index, args, todo, beam, history>>

(* search: the caller takes the answer. *)
SearchReturn(t) ==
    /\ pc[t] = "return"
    /\ Finish(t)
    /\ ret' = [ret EXCEPT ![t] = << >>]
    /\ settled' = [settled EXCEPT ![t] = {}]
    /\ UNCHANGED <<index, deleted_ids>>

InsertStep(t) ==
    \/ InsertReadEntry(t)
    \/ LinkOwn(t)
    \/ LinkBack(t)
    \/ NextLayer(t)
    \/ InsertPublish(t)
LayerStep(t) == ExpandCandidate(t) \/ EvalNeighbour(t) \/ Descend(t)
SearchStep(t) == SearchEntry(t) \/ SearchCollect(t) \/ SearchReturn(t)
Step(t) == InsertStep(t) \/ LayerStep(t) \/ SearchStep(t)

Next ==
    \E t \in Threads :
        \/ \E id \in Ids, v \in Vec, lv \in 0 .. MaxLevel : InsertAllocate(t, id, v, lv)
        \/ \E id \in Deletable : DeleteVector(t, id)
        \/ \E v \in Vec, kk \in Ks : SearchLoad(t, v, kk)
        \/ Step(t)

Spec == Init /\ [][Next]_vars

\* A thread inside a call keeps running it.
FairSpec == Spec /\ \A t \in Threads : WF_vars(Step(t))
-----------------------------------------------------------------------------
NodeLinks(n, l) == {graph[n][l][i] : i \in DOMAIN graph[n][l]}

IndexTypeOK ==
    /\ num_vectors \in 0 .. MaxVectors
    /\ max_layer \in 0 .. MaxLevel
    /\ entry_point \in Nat
    /\ raw_vectors \in [Nodes -> Vec]
    /\ id_map \in [Nodes -> Ids]
    /\ tombstone \in [Nodes -> BOOLEAN]
    /\ DOMAIN graph = Nodes
    /\ \A n \in Nodes : \E lv \in 0 .. MaxLevel : graph[n] \in [0 .. lv -> Seq(Nodes)]
    /\ deleted_ids \subseteq Ids

CallTypeOK ==
    /\ pc \in [Threads -> {"idle", "entry", "search", "link", "publish", "return"}]
    /\ op \in [Threads -> {"insert", "search"}]
    /\ query \in [Threads -> Vec]
    /\ slot \in [Threads -> Nat]
    /\ level \in [Threads -> 0 .. MaxLevel]
    /\ nv \in [Threads -> 0 .. num_vectors]
    /\ k \in [Threads -> Ks \cup {0}]
    /\ todo \in [Threads -> Seq(Nodes)]
    /\ ret \in [Threads -> Seq(Nodes)]
    /\ settled \in [Threads -> SUBSET Nodes]

BeamTypeOK ==
    /\ ep \in [Threads -> Nat]
    /\ lc \in [Threads -> 0 .. MaxLevel]
    /\ cands \in [Threads -> SUBSET Nodes]
    /\ results \in [Threads -> SUBSET Nodes]
    /\ visited \in [Threads -> SUBSET Nodes]
    /\ nbs \in [Threads -> Seq(Nodes)]

\* Every variable has the shape its C++ counterpart has, and every internal id
\* that is stored in a list, a queue or an answer is below num_vectors_.
TypeOK == IndexTypeOK /\ CallTypeOK /\ BeamTypeOK

\* A link on layer l leads to a node that has a layer l, whatever the
\* interleaving: insert's graph_[nb].resize(lc + 1) never has anything to do,
\* and no walk ever leaves the layer it is on.
LinksStayOnLayer ==
    \A n \in Nodes : \A l \in Layers(n) : \A m \in NodeLinks(n, l) : l \in Layers(m)

\* Everything thread t holds on to between two critical sections.
Held(t) ==
    {ep[t]} \cup cands[t] \cup results[t]
        \cup {nbs[t][i] : i \in DOMAIN nbs[t]} \cup {todo[t][i] : i \in DOMAIN todo[t]}

\* The state of a call between two critical sections.
WalkOK(t) ==
    /\ pc[t] # "link" => todo[t] = << >>
    /\ pc[t] \in {"search", "link"} => Held(t) \subseteq Nodes
    /\ pc[t] \in {"entry", "search", "link", "publish"} => num_vectors > 0
    /\ pc[t] \in {"link", "publish"} => op[t] = "insert"
    /\ Inserting(t) =>
          /\ pc[t] # "return"
          /\ slot[t] \in Nodes
          /\ Layers(slot[t]) = 0 .. level[t]
          /\ pc[t] \in {"search", "link"} => \A n \in Held(t) : lc[t] \in Layers(n)
          /\ pc[t] = "link" => lc[t] <= level[t]

\* What a caller remembers while index_mutex_ is free stays usable: the slots
\* exist, and for an insert, which writes to what it holds, they all have the
\* layer it is working on, even when the entry point or the lists it copied
\* have been replaced since.
WalksStayOnLayer == \A t \in Threads : WalkOK(t)

\* No list exceeds its Mmax once the critical section that extended it ends,
\* though several inserts push into and prune the same list.
DegreeBound == \A n \in Nodes : \A l \in Layers(n) : Len(graph[n][l]) <= Mmax(l)

\* The entry point has exactly the layers 0 .. max_layer_, and only a node
\* whose insert has not published it can be taller.
EntryPointOnTop ==
    num_vectors > 0 =>
        /\ entry_point \in Nodes
        /\ Layers(entry_point) = 0 .. max_layer
        /\ \A n \in Nodes \ InFlight : Layers(n) \subseteq 0 .. max_layer

\* What search hands back: distinct slots, best first, and no more than the
\* beam holds.  For k >= 1 they are at most k.  For k < 1 they are not: the
\* loop tests the size of its output only after it has added a slot, so a
\* caller who asks for nothing is given every live slot of the beam.
AnswerWellFormed ==
    \A t \in Threads : pc[t] = "return" =>
        /\ Len(ret[t]) <= EfSearch
        /\ k[t] >= 1 => Len(ret[t]) <= k[t]
        /\ \A i, j \in DOMAIN ret[t] : i < j =>
              /\ ret[t][i] # ret[t][j]
              /\ SimTo(t, ret[t][i]) >= SimTo(t, ret[t][j])

\* search never hands back an id whose last operation, when it collects its
\* answer, is a delete_vector, although the traversal walked through
\* tombstoned nodes for several critical sections.
DeletedNeverReturned ==
    [][\A t \in Threads : ret'[t] # ret[t] =>
            \A i \in DOMAIN ret'[t] : id_map[ret'[t][i]] \notin deleted_ids]_vars

\* The slots search should answer from: its caller saw their inserts return
\* before it searched, and they are live when it collects.
Expected(t) == {n \in settled[t] : ~tombstone[n]}

\* A search wide enough to hold the whole index (ef_search and k not below its
\* size) hands back every live slot whose insert had returned before it began,
\* whatever insert is running beside it, and hence the exact nearest ones.
SettledIsFound ==
    \A t \in Threads :
        (pc[t] = "return" /\ EfSearch >= MaxVectors /\ k[t] >= MaxVectors)
            => Expected(t) \subseteq {ret[t][i] : i \in DOMAIN ret[t]}

\* A search for at least one result finds one while a live slot exists.
LiveAnswered ==
    \A t \in Threads : (pc[t] = "return" /\ k[t] >= 1 /\ Expected(t) # {}) => ret[t] # << >>

\* With one caller and a wide beam search is exact: k live slots, or all of
\* them, and none left out is nearer to the query.
SearchExact ==
    \A t \in Threads : pc[t] = "return" =>
        LET answer == {ret[t][i] : i \in DOMAIN ret[t]}
        IN  /\ Len(ret[t]) = MinOf(k[t], Cardinality(Expected(t)))
            /\ \A n \in Expected(t) \ answer : \A m \in answer : SimTo(t, m) >= SimTo(t, n)

\* Whenever no call is running every slot is reachable on layer 0 from the
\* entry point (as long as no layer-0 list was pruned): no proper part of the
\* graph that holds the entry point is closed under its links.
Connected ==
    (\A t \in Threads : Idle(t)) =>
        \A S \in SUBSET Nodes :
            (entry_point \in S /\ \A n \in S : NodeLinks(n, 0) \subseteq S) => S = Nodes

\* Every insert and every search returns, however many links other threads
\* add to the layers it is walking.
CallsReturn == \A t \in Threads : pc[t] # "idle" ~> pc[t] = "idle"
=============================================================================
