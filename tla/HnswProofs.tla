----------------------------- MODULE HnswProofs -----------------------------
(***************************************************************************)
(* Theorems about Hnsw, for every number of threads, vectors and layers.   *)
(***************************************************************************)
EXTENDS Hnsw, FiniteSetTheorems, TLAPS

\* Operators that only name a subexpression of an action.
USE DEF LinksOf, Fresh, WithBackLink, TooLong, LayersBelow, Tallest, TopLayer, Alive

-----------------------------------------------------------------------------
(* What the operators return. *)

\* A sequence over a set is one over every larger set: arrays only grow.
LEMMA SeqMonotone ==
    ASSUME NEW S, NEW T, S \subseteq T, NEW s \in Seq(S)
    PROVE  s \in Seq(T)
  OBVIOUS

\* std::sort returns its input in some order.
LEMMA RankedType ==
    ASSUME NEW D, IsFiniteSet(D), NEW sim, NEW p \in Ranked(D, sim)
    PROVE  /\ Cardinality(D) \in Nat
           /\ p \in [1 .. Cardinality(D) -> D]
           /\ p \in Seq(D)
           /\ Len(p) = Cardinality(D)
  <1>1. Cardinality(D) \in Nat
    BY FS_CardinalityType
  <1>2. p \in [1 .. Cardinality(D) -> D]
    BY DEF Ranked, Bijection, Injection
  <1> QED
    BY <1>1, <1>2

\* select_neighbours_ returns at most m members of the list it is given.
LEMMA SelectNeighboursType ==
    ASSUME NEW S, NEW v, NEW s \in Seq(S), NEW m \in Nat,
           NEW r \in SelectNeighbours(v, s, m)
    PROVE  r \in Seq(S) /\ Len(r) <= m
  <1>1. DOMAIN s = 1 .. Len(s) /\ Len(s) \in Nat
    OBVIOUS
  <1>2. IsFiniteSet(DOMAIN s) /\ Cardinality(DOMAIN s) = Len(s)
    <2>1. /\ IsFiniteSet(1 .. Len(s))
          /\ Cardinality(1 .. Len(s)) = IF 1 > Len(s) THEN 0 ELSE Len(s) - 1 + 1
      <3>1. 1 \in Int /\ Len(s) \in Int
        BY <1>1
      <3> QED
        BY <3>1, FS_Interval, Zenon
    <2> QED
      BY <1>1, <2>1
  <1>3. PICK p \in Ranked(DOMAIN s, [i \in DOMAIN s |-> Sim(v, raw_vectors[s[i]])]) :
            r = [i \in 1 .. MinOf(m, Len(s)) |-> s[p[i]]]
    BY DEF SelectNeighbours
  <1>4. p \in [1 .. Len(s) -> 1 .. Len(s)]
    BY <1>1, <1>2, <1>3, RankedType
  <1>5. MinOf(m, Len(s)) \in Nat /\ MinOf(m, Len(s)) <= m /\ MinOf(m, Len(s)) <= Len(s)
    BY <1>1 DEF MinOf
  <1>6. \A i \in 1 .. MinOf(m, Len(s)) : s[p[i]] \in S
    BY <1>1, <1>4, <1>5
  <1> QED
    BY <1>3, <1>5, <1>6, SMTT(30)
-----------------------------------------------------------------------------
(* The inductive invariant: LinksStayOnLayer alone is not inductive, because
   an insert writes lists computed several critical sections earlier. *)
IndInv == TypeOK /\ LinksStayOnLayer /\ WalksStayOnLayer /\ EntryPointOnTop

LEMMA InitInd == Init => IndInv
  <1> SUFFICES ASSUME Init PROVE IndInv
    OBVIOUS
  <1> USE DEF Init
  <1>1. Nodes = {}
    BY DEF Nodes
  <1>2. NoVec \in Vec
    BY VecAssumption DEF NoVec
  <1>3. TypeOK
    BY <1>1, <1>2, BoundAssumption DEF TypeOK, IndexTypeOK, CallTypeOK, BeamTypeOK
  <1> QED
    BY <1>1, <1>3 DEF IndInv, LinksStayOnLayer, WalksStayOnLayer, WalkOK, EntryPointOnTop, Inserting

\* Steps that leave the shared index alone keep what is said of it.
LEMMA IndexUnchanged ==
    ASSUME IndInv, UNCHANGED <<index, deleted_ids>>
    PROVE  /\ Nodes' = Nodes
           /\ IndexTypeOK'
           /\ LinksStayOnLayer'
           /\ \A n \in Nodes : DOMAIN graph'[n] = DOMAIN graph[n]
  <1>1. Nodes' = Nodes
    BY DEF Nodes, index
  <1>2. graph' = graph
    BY DEF index
  <1>3. \A n : DOMAIN graph'[n] = DOMAIN graph[n]
    BY <1>2
  <1>4. IndexTypeOK'
    BY <1>1 DEF IndInv, TypeOK, IndexTypeOK, index
  <1>5. \A n, l : NodeLinks(n, l)' = NodeLinks(n, l)
    BY <1>2 DEF NodeLinks
  <1>6. LinksStayOnLayer'
    BY <1>1, <1>3, <1>5 DEF IndInv, LinksStayOnLayer, Layers
  <1> QED
    BY <1>1, <1>3, <1>4, <1>6

\* A call that is not disturbed keeps what it relies on while the index grows.
LEMMA WalkKept ==
    ASSUME IndInv, NEW u \in Threads,
           num_vectors > 0 => num_vectors' > 0, Nodes \subseteq Nodes',
           \A n \in Nodes : DOMAIN graph'[n] = DOMAIN graph[n],
           pc'[u] = pc[u], op'[u] = op[u], slot'[u] = slot[u], level'[u] = level[u],
           lc'[u] = lc[u], todo'[u] = todo[u], Held(u)' \subseteq Held(u)
    PROVE  WalkOK(u)'
  <1>1. WalkOK(u)
    BY DEF IndInv, WalksStayOnLayer
  <1>2. Inserting(u)' = Inserting(u)
    BY DEF Inserting
  <1>3. Inserting(u) => Layers(slot[u])' = Layers(slot[u])
    BY <1>1 DEF WalkOK, Layers
  <1>4. \A n \in Nodes : lc[u] \in Layers(n) => (lc[u] \in Layers(n))'
    BY DEF Layers
  <1> QED
    BY <1>1, <1>2, <1>3, <1>4 DEF WalkOK

\* Entering search_layer_ forgets everything but the entry point.
LEMMA StartLayerBeam ==
    ASSUME IndInv, NEW t \in Threads, NEW e \in Nodes, NEW l \in 0 .. MaxLevel,
           StartLayer(t, e, l), Nodes' = Nodes
    PROVE  /\ BeamTypeOK'
           /\ lc'[t] = l
           /\ todo'[t] = << >> => Held(t)' = {e}
           /\ \A u \in Threads \ {t} :
                 lc'[u] = lc[u] /\ (todo'[u] = todo[u] => Held(u)' = Held(u))
  <1> USE DEF StartLayer, IndInv, TypeOK, BeamTypeOK
  <1>1. e \in Nat
    BY DEF Nodes
  <1>2. BeamTypeOK'
    BY <1>1
  <1>3. todo'[t] = << >> => Held(t)' = {e}
    <2>1. nbs'[t] = << >>
      OBVIOUS
    <2> QED
      BY <2>1 DEF Held
  <1>4. \A u \in Threads \ {t} : todo'[u] = todo[u] => Held(u)' = Held(u)
    BY DEF Held
  <1> QED
    BY <1>2, <1>3, <1>4

LEMMA InsertReadEntryInd ==
    ASSUME IndInv, NEW t \in Threads, InsertReadEntry(t)
    PROVE  IndInv'
  <1> USE DEF InsertReadEntry, args, history
  <1>1. /\ Nodes' = Nodes
        /\ IndexTypeOK'
        /\ LinksStayOnLayer'
        /\ \A n \in Nodes : DOMAIN graph'[n] = DOMAIN graph[n]
    BY IndexUnchanged
  <1>2. entry_point \in Nodes /\ max_layer \in Layers(entry_point) /\ max_layer \in 0 .. MaxLevel
    BY DEF IndInv, TypeOK, IndexTypeOK, WalksStayOnLayer, WalkOK, EntryPointOnTop
  <1>3. /\ BeamTypeOK'
        /\ lc'[t] = max_layer
        /\ todo'[t] = << >> => Held(t)' = {entry_point}
        /\ \A u \in Threads \ {t} :
              lc'[u] = lc[u] /\ (todo'[u] = todo[u] => Held(u)' = Held(u))
    BY <1>1, <1>2, StartLayerBeam
  <1>4. CallTypeOK'
    BY <1>1 DEF IndInv, TypeOK, CallTypeOK, index
  <1>5. InFlight' = InFlight
    BY DEF InFlight, Inserting, IndInv, TypeOK, CallTypeOK
  <1>6. EntryPointOnTop'
    BY <1>1, <1>5 DEF IndInv, EntryPointOnTop, index, Layers
  <1>7. WalksStayOnLayer'
    <2>1. ASSUME NEW u \in Threads, u # t PROVE WalkOK(u)'
      BY <1>1, <1>3, <2>1, WalkKept DEF IndInv, TypeOK, CallTypeOK, index
    <2>2. WalkOK(t)'
      BY <1>1, <1>2, <1>3
      DEF IndInv, TypeOK, CallTypeOK, WalksStayOnLayer, WalkOK, index, Inserting, Layers
    <2> QED
      BY <2>1, <2>2 DEF WalksStayOnLayer
  <1> QED
    BY <1>1, <1>3, <1>4, <1>6, <1>7 DEF IndInv, TypeOK

LEMMA ExpandCandidateInd ==
    ASSUME IndInv, NEW t \in Threads, ExpandCandidate(t)
    PROVE  IndInv'
  <1> USE DEF args, history
  <1>1. /\ Nodes' = Nodes
        /\ IndexTypeOK'
        /\ LinksStayOnLayer'
        /\ \A n \in Nodes : DOMAIN graph'[n] = DOMAIN graph[n]
    BY IndexUnchanged DEF ExpandCandidate
  <1>2. PICK c \in cands[t] :
            /\ cands' = [cands EXCEPT ![t] = @ \ {c}]
            /\ nbs' = [nbs EXCEPT ![t] = IF lc[t] \in Layers(c) THEN graph[c][lc[t]] ELSE << >>]
    BY DEF ExpandCandidate
  <1> DEFINE copied == IF lc[t] \in Layers(c) THEN graph[c][lc[t]] ELSE << >>
  <1>3. c \in Nodes
    BY DEF IndInv, TypeOK, BeamTypeOK
  <1>4. copied \in Seq(Nodes)
    BY <1>3 DEF IndInv, TypeOK, IndexTypeOK, Layers
  <1>5. \A i \in DOMAIN copied : lc[t] \in Layers(copied[i])
    BY <1>3 DEF IndInv, LinksStayOnLayer, NodeLinks
  <1>6. \A i \in DOMAIN copied : copied[i] \in Nodes
    BY <1>4
  <1> HIDE DEF copied
  <1>7. nbs' = [nbs EXCEPT ![t] = copied]
    BY <1>2 DEF copied
  <1>8. CallTypeOK' /\ BeamTypeOK'
    BY <1>1, <1>2, <1>4, <1>7, SMTT(30) DEF ExpandCandidate, IndInv, TypeOK, CallTypeOK, BeamTypeOK, index
  <1>9. InFlight' = InFlight
    BY DEF ExpandCandidate, InFlight, Inserting, IndInv, TypeOK, CallTypeOK
  <1>10. EntryPointOnTop'
    BY <1>1, <1>9 DEF ExpandCandidate, IndInv, EntryPointOnTop, index, Layers
  <1>11. \A u \in Threads : Held(u)' \subseteq Held(u)
                                \cup (IF u = t THEN {copied[i] : i \in DOMAIN copied} ELSE {})
    BY <1>2, <1>7 DEF ExpandCandidate, IndInv, TypeOK, BeamTypeOK, Held
  <1>12. pc[t] = "search"
    BY DEF ExpandCandidate, Looping
  <1>13. WalksStayOnLayer'
    <2>1. ASSUME NEW u \in Threads, u # t PROVE WalkOK(u)'
      <3>1. Held(u)' \subseteq Held(u)
        BY <1>11, <2>1
      <3> QED
        BY <1>1, <2>1, <3>1, WalkKept DEF ExpandCandidate, IndInv, TypeOK, IndexTypeOK, index
    <2>2. WalkOK(t)'
      <3>1. \A n \in Held(t)' : n \in Held(t) \/ (n \in Nodes /\ lc[t] \in Layers(n))
        BY <1>5, <1>6, <1>11
      <3> QED
        BY <1>1, <1>12, <3>1
        DEF ExpandCandidate, IndInv, TypeOK, IndexTypeOK, WalksStayOnLayer, WalkOK, index, Inserting, Layers
    <2> QED
      BY <2>1, <2>2 DEF WalksStayOnLayer
  <1> QED
    BY <1>1, <1>8, <1>10, <1>13 DEF IndInv, TypeOK

LEMMA EvalNeighbourInd ==
    ASSUME IndInv, NEW t \in Threads, EvalNeighbour(t)
    PROVE  IndInv'
  <1> USE DEF args, history
  <1>1. /\ Nodes' = Nodes
        /\ IndexTypeOK'
        /\ LinksStayOnLayer'
        /\ \A n \in Nodes : DOMAIN graph'[n] = DOMAIN graph[n]
    BY IndexUnchanged DEF EvalNeighbour
  <1> DEFINE nb == Head(nbs[t])
  <1>2. nbs[t] \in Seq(Nodes) /\ nbs[t] # << >>
    BY DEF EvalNeighbour, IndInv, TypeOK, BeamTypeOK
  <1>3. /\ nb \in Nodes
        /\ nb \in {nbs[t][i] : i \in DOMAIN nbs[t]}
        /\ Tail(nbs[t]) \in Seq(Nodes)
        /\ {Tail(nbs[t])[i] : i \in DOMAIN Tail(nbs[t])} \subseteq {nbs[t][i] : i \in DOMAIN nbs[t]}
    BY <1>2
  <1>4. /\ nbs' = [nbs EXCEPT ![t] = Tail(@)]
        /\ visited' = [visited EXCEPT ![t] = @ \cup {nb}]
        /\ \/ UNCHANGED <<cands, results>>
           \/ /\ cands' = [cands EXCEPT ![t] = @ \cup {nb}]
              /\ \E w : results' = [results EXCEPT ![t] = (@ \cup {nb}) \ w]
    <2>1. \A S, w : S \cup {nb} = (S \cup {nb}) \ {} /\ S \cup {nb} = (S \cup {nb})
      OBVIOUS
    <2> QED
      BY <2>1 DEF EvalNeighbour
  <1> HIDE DEF nb
  <1>5. /\ cands' \in [Threads -> SUBSET Nodes]
        /\ results' \in [Threads -> SUBSET Nodes]
        /\ \A u \in Threads : /\ cands'[u] \subseteq cands[u] \cup (IF u = t THEN {nb} ELSE {})
                              /\ results'[u] \subseteq results[u] \cup (IF u = t THEN {nb} ELSE {})
    <2>1. cands \in [Threads -> SUBSET Nodes] /\ results \in [Threads -> SUBSET Nodes]
      BY DEF IndInv, TypeOK, BeamTypeOK
    <2>2. CASE UNCHANGED <<cands, results>>
      BY <2>1, <2>2
    <2>3. CASE /\ cands' = [cands EXCEPT ![t] = @ \cup {nb}]
               /\ \E w : results' = [results EXCEPT ![t] = (@ \cup {nb}) \ w]
      <3>1. PICK w : results' = [results EXCEPT ![t] = (@ \cup {nb}) \ w]
        BY <2>3
      <3> QED
        BY <1>3, <2>1, <2>3, <3>1
    <2> QED
      BY <1>4, <2>2, <2>3
  <1>6. CallTypeOK' /\ BeamTypeOK'
    <2>1. CallTypeOK'
      BY <1>1 DEF EvalNeighbour, IndInv, TypeOK, CallTypeOK, index
    <2>2. visited' \in [Threads -> SUBSET Nodes] /\ nbs' \in [Threads -> Seq(Nodes)]
      BY <1>3, <1>4 DEF IndInv, TypeOK, BeamTypeOK
    <2>3. BeamTypeOK'
      BY <1>1, <1>5, <2>2 DEF EvalNeighbour, IndInv, TypeOK, BeamTypeOK
    <2> QED
      BY <2>1, <2>3
  <1>7. InFlight' = InFlight
    BY DEF EvalNeighbour, InFlight, Inserting, IndInv, TypeOK, CallTypeOK
  <1>8. EntryPointOnTop'
    BY <1>1, <1>7 DEF EvalNeighbour, IndInv, EntryPointOnTop, index, Layers
  <1>9. \A u \in Threads : Held(u)' \subseteq Held(u)
    BY <1>3, <1>4, <1>5 DEF EvalNeighbour, IndInv, TypeOK, BeamTypeOK, Held
  <1>10. WalksStayOnLayer'
    BY <1>1, <1>9, WalkKept DEF EvalNeighbour, IndInv, TypeOK, IndexTypeOK, index, WalksStayOnLayer
  <1> QED
    BY <1>1, <1>6, <1>8, <1>10 DEF IndInv, TypeOK
\* search_layer_ returns the slots it kept, and its front is one of them.
LEMMA FrontHeld ==
    ASSUME IndInv, NEW t \in Threads, pc[t] = "search", NEW found \in Found(t)
    PROVE  /\ found \in Seq(results[t])
           /\ Front(t, found) \in Held(t)
           /\ Front(t, found) \in Nodes
  <1>1. results[t] \subseteq Nodes /\ Held(t) \subseteq Nodes
    BY DEF IndInv, TypeOK, BeamTypeOK, WalksStayOnLayer, WalkOK
  <1>2. IsFiniteSet(Nodes)
    <2>1. 0 \in Int /\ num_vectors - 1 \in Int
      BY DEF IndInv, TypeOK, IndexTypeOK
    <2> QED
      BY <2>1, FS_Interval, Zenon DEF Nodes
  <1>3. IsFiniteSet(results[t])
    BY <1>1, <1>2, FS_Subset
  <1>4. /\ found \in Seq(results[t])
        /\ Len(found) = Cardinality(results[t])
        /\ found \in [1 .. Cardinality(results[t]) -> results[t]]
        /\ Cardinality(results[t]) \in Nat
    BY <1>3, RankedType DEF Found, Ranking
  <1>5. results[t] # {} => found[1] \in results[t]
    BY <1>3, <1>4, FS_EmptySet
  <1>6. Front(t, found) \in Held(t)
    BY <1>5 DEF Front, Held
  <1> QED
    BY <1>1, <1>4, <1>6

LEMMA DescendInd ==
    ASSUME IndInv, NEW t \in Threads, Descend(t)
    PROVE  IndInv'
  <1> USE DEF args, history
  <1>1. /\ Nodes' = Nodes
        /\ IndexTypeOK'
        /\ LinksStayOnLayer'
        /\ \A n \in Nodes : DOMAIN graph'[n] = DOMAIN graph[n]
    BY IndexUnchanged DEF Descend
  <1>2. pc[t] = "search"
    BY DEF Descend, LayerDone, Looping
  <1>3. PICK found \in Found(t) : StartLayer(t, Front(t, found), lc[t] - 1)
    BY DEF Descend
  <1> DEFINE e == Front(t, found)
  <1>4. e \in Nodes /\ e \in Held(t)
    BY <1>2, FrontHeld
  <1>5. lc[t] - 1 \in 0 .. MaxLevel
    BY BoundAssumption DEF Descend, IndInv, TypeOK, CallTypeOK, BeamTypeOK
  <1>6. lc[t] \in Layers(e) => lc[t] - 1 \in Layers(e)
    BY <1>4, <1>5 DEF IndInv, TypeOK, IndexTypeOK, Layers
  <1> HIDE DEF e
  <1>7. /\ BeamTypeOK'
        /\ lc'[t] = lc[t] - 1
        /\ todo'[t] = << >> => Held(t)' = {e}
        /\ \A u \in Threads \ {t} :
              lc'[u] = lc[u] /\ (todo'[u] = todo[u] => Held(u)' = Held(u))
    BY <1>1, <1>3, <1>4, <1>5, StartLayerBeam DEF e
  <1>8. CallTypeOK'
    BY <1>1 DEF Descend, IndInv, TypeOK, CallTypeOK, index
  <1>9. InFlight' = InFlight
    BY DEF Descend, InFlight, Inserting
  <1>10. EntryPointOnTop'
    BY <1>1, <1>9 DEF Descend, IndInv, EntryPointOnTop, index, Layers
  <1>11. WalksStayOnLayer'
    <2>1. ASSUME NEW u \in Threads, u # t PROVE WalkOK(u)'
      BY <1>1, <1>7, <2>1, WalkKept DEF Descend, index
    <2>2. WalkOK(t)'
      BY <1>1, <1>2, <1>4, <1>6, <1>7
      DEF Descend, IndInv, WalksStayOnLayer, WalkOK, index, Inserting, Layers
    <2> QED
      BY <2>1, <2>2 DEF WalksStayOnLayer
  <1> QED
    BY <1>1, <1>7, <1>8, <1>10, <1>11 DEF IndInv, TypeOK

LEMMA NextLayerInd ==
    ASSUME IndInv, NEW t \in Threads, NextLayer(t)
    PROVE  IndInv'
  <1> USE DEF args, history
  <1>1. /\ Nodes' = Nodes
        /\ IndexTypeOK'
        /\ LinksStayOnLayer'
        /\ \A n \in Nodes : DOMAIN graph'[n] = DOMAIN graph[n]
    BY IndexUnchanged DEF NextLayer
  <1>2. /\ pc[t] = "link" /\ Inserting(t)
        /\ ep[t] \in Nodes /\ lc[t] \in Layers(ep[t]) /\ lc[t] \in 0 .. MaxLevel
    BY DEF NextLayer, IndInv, WalksStayOnLayer, WalkOK, Inserting, Held, TypeOK, BeamTypeOK
  <1>3. CallTypeOK'
    BY <1>1 DEF NextLayer, IndInv, TypeOK, CallTypeOK, index
  <1>4. InFlight' = InFlight
    BY DEF NextLayer, InFlight, Inserting, IndInv, TypeOK, CallTypeOK
  <1>5. EntryPointOnTop'
    BY <1>1, <1>4 DEF NextLayer, IndInv, EntryPointOnTop, index, Layers
  <1>6. CASE lc[t] > 0
    <2>1. StartLayer(t, ep[t], lc[t] - 1) /\ pc' = [pc EXCEPT ![t] = "search"]
      BY <1>6 DEF NextLayer
    <2>2. lc[t] - 1 \in 0 .. MaxLevel /\ lc[t] - 1 \in Layers(ep[t])
      BY <1>2, <1>6, BoundAssumption, SMTT(30) DEF IndInv, TypeOK, IndexTypeOK, Layers
    <2>3. /\ BeamTypeOK'
          /\ lc'[t] = lc[t] - 1
          /\ todo'[t] = << >> => Held(t)' = {ep[t]}
          /\ \A u \in Threads \ {t} :
                lc'[u] = lc[u] /\ (todo'[u] = todo[u] => Held(u)' = Held(u))
      BY <1>1, <1>2, <2>1, <2>2, StartLayerBeam
    <2>4. ASSUME NEW u \in Threads, u # t PROVE WalkOK(u)'
      BY <1>1, <2>1, <2>3, <2>4, WalkKept DEF NextLayer, index, IndInv, TypeOK, CallTypeOK
    <2>5. WalkOK(t)'
      BY <1>1, <1>2, <2>1, <2>2, <2>3
      DEF NextLayer, IndInv, TypeOK, CallTypeOK, WalksStayOnLayer, WalkOK, index, Inserting, Layers
    <2> QED
      BY <1>1, <1>3, <1>5, <2>3, <2>4, <2>5 DEF IndInv, TypeOK, WalksStayOnLayer
  <1>7. CASE ~(lc[t] > 0)
    <2>1. UNCHANGED beam /\ pc' = [pc EXCEPT ![t] = "publish"]
      BY <1>7 DEF NextLayer
    <2>2. BeamTypeOK'
      BY <1>1, <2>1 DEF IndInv, TypeOK, BeamTypeOK, beam
    <2>3. ASSUME NEW u \in Threads, u # t PROVE WalkOK(u)'
      <3>1. Held(u)' = Held(u) /\ lc'[u] = lc[u]
        BY <2>1 DEF NextLayer, beam, Held
      <3> QED
        BY <1>1, <2>1, <2>3, <3>1, WalkKept DEF NextLayer, index, IndInv, TypeOK, CallTypeOK
    <2>4. WalkOK(t)'
      BY <1>1, <1>2, <2>1
      DEF NextLayer, IndInv, TypeOK, CallTypeOK, WalksStayOnLayer, WalkOK, index, Inserting, Layers
    <2> QED
      BY <1>1, <1>3, <1>5, <2>2, <2>3, <2>4 DEF IndInv, TypeOK, WalksStayOnLayer
  <1> QED
    BY <1>6, <1>7
\* A step that writes one existing list, with members that have that layer,
\* keeps the layers of every node and the shape of the graph.
LEMMA ListWritten ==
    ASSUME IndInv, NEW n \in Nodes, NEW l \in Layers(n), NEW s \in Seq(Nodes),
           \A i \in DOMAIN s : l \in Layers(s[i]),
           graph' = [graph EXCEPT ![n] = [graph[n] EXCEPT ![l] = s]],
           UNCHANGED <<num_vectors, max_layer, entry_point, raw_vectors, id_map, tombstone, deleted_ids>>
    PROVE  /\ Nodes' = Nodes
           /\ IndexTypeOK'
           /\ LinksStayOnLayer'
           /\ \A m \in Nodes : DOMAIN graph'[m] = DOMAIN graph[m]
  <1>1. Nodes' = Nodes
    BY DEF Nodes
  <1>2. DOMAIN graph = Nodes
    BY DEF IndInv, TypeOK, IndexTypeOK
  <1>3. /\ graph'[n] = [graph[n] EXCEPT ![l] = s]
        /\ \A m \in Nodes \ {n} : graph'[m] = graph[m]
        /\ DOMAIN graph' = Nodes
    BY <1>2
  <1>4. \A m \in Nodes : DOMAIN graph'[m] = DOMAIN graph[m]
    BY <1>3
  <1>5. IndexTypeOK'
    <2>1. ASSUME NEW m \in Nodes
          PROVE  \E lv \in 0 .. MaxLevel : graph'[m] \in [0 .. lv -> Seq(Nodes)]
      <3>1. PICK lv \in 0 .. MaxLevel : graph[m] \in [0 .. lv -> Seq(Nodes)]
        BY DEF IndInv, TypeOK, IndexTypeOK
      <3>2. graph'[m] \in [0 .. lv -> Seq(Nodes)]
        BY <1>3, <3>1
      <3> QED
        BY <3>2
    <2> QED
      BY <1>1, <1>3, <2>1 DEF IndInv, TypeOK, IndexTypeOK
  <1>6. LinksStayOnLayer'
    <2> SUFFICES ASSUME NEW m \in Nodes, NEW j \in DOMAIN graph'[m], NEW i \in DOMAIN graph'[m][j]
                 PROVE  j \in DOMAIN graph'[graph'[m][j][i]]
      BY <1>1 DEF LinksStayOnLayer, NodeLinks, Layers
    <2>1. CASE m = n /\ j = l
      <3>1. graph'[m][j] = s
        BY <1>3, <2>1 DEF Layers
      <3>2. s[i] \in Nodes /\ l \in DOMAIN graph[s[i]]
        BY <3>1 DEF Layers
      <3> QED
        BY <1>4, <2>1, <3>1, <3>2
    <2>2. CASE ~(m = n /\ j = l)
      <3>1. j \in DOMAIN graph[m] /\ graph'[m][j] = graph[m][j]
        BY <1>3, <1>4, <2>2
      <3>2. graph[m][j] \in Seq(Nodes)
        BY <3>1 DEF IndInv, TypeOK, IndexTypeOK
      <3>3. graph[m][j][i] \in Nodes
        BY <3>1, <3>2
      <3>4. j \in DOMAIN graph[graph[m][j][i]]
        BY <3>1 DEF IndInv, LinksStayOnLayer, NodeLinks, Layers
      <3> QED
        BY <1>4, <3>1, <3>3, <3>4
    <2> QED
      BY <2>1, <2>2
  <1> QED
    BY <1>1, <1>4, <1>5, <1>6

LEMMA LinkOwnInd ==
    ASSUME IndInv, NEW t \in Threads, LinkOwn(t)
    PROVE  IndInv'
  <1> USE DEF args, history
  <1>1. pc[t] = "search" /\ nbs[t] = << >> /\ Inserting(t) /\ lc[t] <= level[t]
    BY DEF LinkOwn, LayerDone, Looping, Inserting
  <1>a. PICK found \in Found(t) : \E chosen \in SelectNeighbours(query[t], found, M) :
            /\ graph' = [graph EXCEPT ![slot[t]][lc[t]] = chosen]
            /\ todo' = [todo EXCEPT ![t] = chosen]
            /\ ep' = [ep EXCEPT ![t] = Front(t, found)]
    BY DEF LinkOwn
  <1>2. PICK chosen \in SelectNeighbours(query[t], found, M) :
            /\ graph' = [graph EXCEPT ![slot[t]][lc[t]] = chosen]
            /\ todo' = [todo EXCEPT ![t] = chosen]
            /\ ep' = [ep EXCEPT ![t] = Front(t, found)]
    BY <1>a
  <1>3. chosen \in Seq(results[t]) /\ Front(t, found) \in Held(t) /\ Front(t, found) \in Nodes
    BY <1>1, FrontHeld, SelectNeighboursType, MAssumption
  <1>4. /\ slot[t] \in Nodes /\ lc[t] \in Layers(slot[t])
        /\ results[t] \subseteq Nodes /\ results[t] \subseteq Held(t)
        /\ \A n \in Held(t) : lc[t] \in Layers(n)
    BY <1>1, BoundAssumption
    DEF IndInv, TypeOK, CallTypeOK, BeamTypeOK, WalksStayOnLayer, WalkOK, Held
  <1>5. chosen \in Seq(Nodes) /\ \A i \in DOMAIN chosen : chosen[i] \in Held(t)
    BY <1>3, <1>4
  <1>6. graph' = [graph EXCEPT ![slot[t]] = [graph[slot[t]] EXCEPT ![lc[t]] = chosen]]
    BY <1>2
  <1>7. /\ Nodes' = Nodes
        /\ IndexTypeOK'
        /\ LinksStayOnLayer'
        /\ \A n \in Nodes : DOMAIN graph'[n] = DOMAIN graph[n]
    BY <1>4, <1>5, <1>6, ListWritten DEF LinkOwn
  <1>8. CallTypeOK'
    BY <1>2, <1>5, <1>7 DEF LinkOwn, IndInv, TypeOK, CallTypeOK
  <1>9. BeamTypeOK'
    BY <1>2, <1>3, <1>7 DEF LinkOwn, IndInv, TypeOK, BeamTypeOK, Nodes
  <1>10. InFlight' = InFlight
    BY <1>1 DEF LinkOwn, InFlight, Inserting, IndInv, TypeOK, CallTypeOK
  <1>11. EntryPointOnTop'
    BY <1>7, <1>10 DEF LinkOwn, IndInv, EntryPointOnTop, Layers
  <1>12. ASSUME NEW u \in Threads, u # t PROVE WalkOK(u)'
    <2>1. Held(u)' = Held(u)
      BY <1>2, <1>12 DEF LinkOwn, IndInv, TypeOK, CallTypeOK, BeamTypeOK, Held
    <2> QED
      BY <1>2, <1>7, <1>12, <2>1, WalkKept, SMTT(30) DEF LinkOwn, IndInv, TypeOK, CallTypeOK
  <1>13. WalkOK(t)'
    <2>1. Held(t)' \subseteq Held(t)
      <3>1. ep'[t] \in Held(t) /\ cands'[t] = {} /\ results'[t] = {} /\ nbs'[t] = << >>
        BY <1>1, <1>2, <1>3 DEF LinkOwn, IndInv, TypeOK, BeamTypeOK
      <3>2. todo'[t] = chosen
        BY <1>2 DEF IndInv, TypeOK, CallTypeOK
      <3> QED
        BY <1>5, <3>1, <3>2 DEF Held
    <2> QED
      BY <1>1, <1>7, <2>1
      DEF LinkOwn, IndInv, TypeOK, CallTypeOK, WalksStayOnLayer, WalkOK, Inserting, Layers
  <1> QED
    BY <1>7, <1>8, <1>9, <1>11, <1>12, <1>13 DEF IndInv, TypeOK, WalksStayOnLayer

LEMMA LinkBackInd ==
    ASSUME IndInv, NEW t \in Threads, LinkBack(t)
    PROVE  IndInv'
  <1> USE DEF args, history, beam
  <1> DEFINE nb == Head(todo[t])
  <1>1. pc[t] = "link" /\ Inserting(t) /\ todo[t] \in Seq(Nodes) /\ todo[t] # << >>
    BY DEF LinkBack, IndInv, TypeOK, CallTypeOK, WalksStayOnLayer, WalkOK, Inserting
  <1>2. /\ nb \in Nodes /\ nb \in {todo[t][i] : i \in DOMAIN todo[t]}
        /\ Tail(todo[t]) \in Seq(Nodes)
        /\ {Tail(todo[t])[i] : i \in DOMAIN Tail(todo[t])} \subseteq {todo[t][i] : i \in DOMAIN todo[t]}
    BY <1>1
  <1>3. /\ slot[t] \in Nodes /\ lc[t] \in Layers(slot[t])
        /\ lc[t] \in Layers(nb)
    <2>1. nb \in Held(t)
      BY <1>2 DEF Held
    <2>2. lc[t] \in 0 .. level[t]
      BY <1>1, BoundAssumption DEF IndInv, TypeOK, CallTypeOK, BeamTypeOK, WalksStayOnLayer, WalkOK
    <2> HIDE DEF nb
    <2> QED
      BY <1>1, <2>1, <2>2 DEF IndInv, WalksStayOnLayer, WalkOK
  <1>4. Resized(graph[nb], lc[t]) = graph[nb]
    <2> HIDE DEF nb
    <2>1. PICK lv \in 0 .. MaxLevel : graph[nb] \in [0 .. lv -> Seq(Nodes)]
      BY <1>2 DEF IndInv, TypeOK, IndexTypeOK
    <2>2. 0 .. lc[t] \subseteq DOMAIN graph[nb]
      BY <1>3, <2>1, BoundAssumption DEF Layers
    <2>3. DOMAIN graph[nb] \cup 0 .. lc[t] = DOMAIN graph[nb]
      BY <2>2
    <2>4. Resized(graph[nb], lc[t]) = [i \in DOMAIN graph[nb] |-> graph[nb][i]]
      BY <2>3 DEF Resized
    <2> QED
      BY <2>1, <2>4
  <1> DEFINE links == Append(graph[nb][lc[t]], slot[t])
  <1>5. PICK kept \in IF Len(links) > Mmax(lc[t])
                      THEN SelectNeighbours(raw_vectors[nb], links, Mmax(lc[t]))
                      ELSE {links} :
            graph' = [graph EXCEPT ![nb] = [graph[nb] EXCEPT ![lc[t]] = kept]]
    BY <1>4 DEF LinkBack
  <1> DEFINE OnLayer == {n \in Nodes : lc[t] \in Layers(n)}
  <1>6. graph[nb][lc[t]] \in Seq(OnLayer)
    <2>1. graph[nb][lc[t]] \in Seq(Nodes)
      BY <1>2, <1>3 DEF IndInv, TypeOK, IndexTypeOK, Layers
    <2>2. \A i \in DOMAIN graph[nb][lc[t]] : graph[nb][lc[t]][i] \in OnLayer
      BY <1>2, <1>3, <2>1 DEF IndInv, LinksStayOnLayer, NodeLinks
    <2> QED
      BY <2>1, <2>2
  <1>7. links \in Seq(OnLayer)
    BY <1>3, <1>6
  <1>8. Mmax(lc[t]) \in Nat
    BY MAssumption DEF Mmax
  <1>9. kept \in Seq(OnLayer)
    BY <1>5, <1>7, <1>8, SelectNeighboursType
  <1>10. kept \in Seq(Nodes) /\ \A i \in DOMAIN kept : lc[t] \in Layers(kept[i])
    BY <1>9
  <1> HIDE DEF nb, links, OnLayer
  <1>11. /\ Nodes' = Nodes
         /\ IndexTypeOK'
         /\ LinksStayOnLayer'
         /\ \A n \in Nodes : DOMAIN graph'[n] = DOMAIN graph[n]
    BY <1>2, <1>3, <1>5, <1>10, ListWritten DEF LinkBack
  <1>12. CallTypeOK' /\ BeamTypeOK'
    <2>1. CallTypeOK'
      BY <1>2, <1>11 DEF LinkBack, IndInv, TypeOK, CallTypeOK
    <2>2. BeamTypeOK'
      BY <1>11 DEF LinkBack, IndInv, TypeOK, BeamTypeOK
    <2> QED
      BY <2>1, <2>2
  <1>13. InFlight' = InFlight
    BY DEF LinkBack, InFlight, Inserting
  <1>14. EntryPointOnTop'
    BY <1>11, <1>13 DEF LinkBack, IndInv, EntryPointOnTop, Layers
  <1>15. todo'[t] = Tail(todo[t]) /\ \A u \in Threads \ {t} : todo'[u] = todo[u]
    BY DEF LinkBack, IndInv, TypeOK, CallTypeOK
  <1>16. ASSUME NEW u \in Threads, u # t PROVE WalkOK(u)'
    <2>1. Held(u)' = Held(u)
      BY <1>15, <1>16 DEF LinkBack, Held
    <2> QED
      BY <1>11, <1>15, <1>16, <2>1, WalkKept DEF LinkBack
  <1>17. WalkOK(t)'
    <2>1. Held(t)' \subseteq Held(t)
      BY <1>2, <1>15 DEF LinkBack, Held
    <2> QED
      BY <1>1, <1>11, <2>1
      DEF LinkBack, IndInv, WalksStayOnLayer, WalkOK, Inserting, Layers
  <1> QED
    BY <1>11, <1>12, <1>14, <1>16, <1>17 DEF IndInv, TypeOK, WalksStayOnLayer
LEMMA InsertPublishInd ==
    ASSUME IndInv, NEW t \in Threads, InsertPublish(t)
    PROVE  IndInv'
  <1> USE DEF history
  <1>1. Nodes' = Nodes /\ UNCHANGED <<num_vectors, graph, raw_vectors, id_map, tombstone>>
    BY DEF InsertPublish, Nodes
  <1>2. /\ Inserting(t) /\ slot[t] \in Nodes /\ Layers(slot[t]) = 0 .. level[t]
        /\ level[t] \in 0 .. MaxLevel
    BY DEF InsertPublish, IndInv, TypeOK, CallTypeOK, WalksStayOnLayer, WalkOK, Inserting
  <1>3. IndexTypeOK'
    <2>1. max_layer' \in 0 .. MaxLevel /\ entry_point' \in Nat /\ deleted_ids' = deleted_ids
      BY <1>2, SMTT(30) DEF InsertPublish, IndInv, TypeOK, IndexTypeOK, Nodes
    <2> QED
      BY <1>1, <2>1 DEF IndInv, TypeOK, IndexTypeOK
  <1>4. LinksStayOnLayer'
    BY <1>1 DEF IndInv, LinksStayOnLayer, Layers, NodeLinks
  <1>5. NoVec \in Vec
    BY VecAssumption DEF NoVec
  <1>6. 0 \in 0 .. MaxLevel /\ 0 \in 0 .. num_vectors
    BY BoundAssumption DEF IndInv, TypeOK, IndexTypeOK
  <1>7. CallTypeOK'
    BY <1>1, <1>5, <1>6 DEF InsertPublish, Finish, IndInv, TypeOK, CallTypeOK
  <1>8. BeamTypeOK'
    BY <1>1, <1>6 DEF InsertPublish, Finish, IndInv, TypeOK, BeamTypeOK
  <1>9. InFlight \subseteq InFlight' \cup {slot[t]}
    BY DEF InsertPublish, Finish, InFlight, Inserting, IndInv, TypeOK, CallTypeOK
  <1>10. EntryPointOnTop'
    <2>1. num_vectors > 0 /\ EntryPointOnTop
      BY DEF InsertPublish, IndInv, WalksStayOnLayer, WalkOK
    <2>2. max_layer \in Nat /\ level[t] \in Nat /\ max_layer' \in Nat
          /\ max_layer' >= max_layer /\ max_layer' >= level[t]
      BY <1>2, BoundAssumption DEF InsertPublish, IndInv, TypeOK, IndexTypeOK
    <2>3. \A n : Layers(n)' = Layers(n)
      BY <1>1 DEF Layers
    <2>4. entry_point' \in Nodes /\ DOMAIN graph[entry_point'] = 0 .. max_layer'
      BY <1>2, <2>1 DEF InsertPublish, EntryPointOnTop, Layers
    <2>5. \A n \in Nodes \ InFlight' : DOMAIN graph[n] \subseteq 0 .. max_layer'
      BY <1>2, <1>9, <2>1, <2>2 DEF EntryPointOnTop, Layers
    <2> QED
      BY <1>1, <2>4, <2>5 DEF EntryPointOnTop, Layers
  <1>11. ASSUME NEW u \in Threads, u # t PROVE WalkOK(u)'
    <2>1. /\ pc'[u] = pc[u] /\ op'[u] = op[u] /\ slot'[u] = slot[u] /\ level'[u] = level[u]
          /\ lc'[u] = lc[u] /\ todo'[u] = todo[u]
      BY <1>11 DEF InsertPublish, Finish, IndInv, TypeOK, CallTypeOK, BeamTypeOK
    <2>2. Held(u)' = Held(u)
      BY <1>11, <2>1 DEF InsertPublish, Finish, IndInv, TypeOK, BeamTypeOK, Held
    <2> QED
      BY <1>1, <1>11, <2>1, <2>2, WalkKept
  <1>12. WalkOK(t)'
    BY DEF InsertPublish, Finish, IndInv, TypeOK, CallTypeOK, WalkOK, Inserting
  <1> QED
    BY <1>3, <1>4, <1>7, <1>8, <1>10, <1>11, <1>12 DEF IndInv, TypeOK, WalksStayOnLayer

LEMMA DeleteVectorInd ==
    ASSUME IndInv, NEW t \in Threads, NEW id \in Ids, DeleteVector(t, id)
    PROVE  IndInv'
  <1> USE DEF args, beam
  <1>1. Nodes' = Nodes /\ UNCHANGED <<num_vectors, max_layer, entry_point, graph, raw_vectors, id_map>>
    BY DEF DeleteVector, Nodes
  <1>2. tombstone' \in [Nodes -> BOOLEAN] /\ deleted_ids' \subseteq Ids
    BY DEF DeleteVector, IndInv, TypeOK, IndexTypeOK
  <1>3. IndexTypeOK'
    BY <1>1, <1>2 DEF IndInv, TypeOK, IndexTypeOK
  <1>4. LinksStayOnLayer'
    BY <1>1 DEF IndInv, LinksStayOnLayer, Layers, NodeLinks
  <1>5. CallTypeOK'
    BY <1>1 DEF DeleteVector, IndInv, TypeOK, CallTypeOK
  <1>6. BeamTypeOK'
    BY <1>1 DEF DeleteVector, IndInv, TypeOK, BeamTypeOK
  <1>7. InFlight' = InFlight
    BY DEF DeleteVector, InFlight, Inserting
  <1>8. EntryPointOnTop'
    BY <1>1, <1>7 DEF IndInv, EntryPointOnTop, Layers
  <1>9. ASSUME NEW u \in Threads PROVE WalkOK(u)'
    <2>1. Held(u)' = Held(u)
      BY DEF DeleteVector, Held
    <2> QED
      BY <1>1, <2>1, WalkKept DEF DeleteVector
  <1> QED
    BY <1>3, <1>4, <1>5, <1>6, <1>8, <1>9 DEF IndInv, TypeOK, WalksStayOnLayer

LEMMA InsertAllocateInd ==
    ASSUME IndInv, NEW t \in Threads, NEW id \in Ids, NEW v \in Vec, NEW lv \in 0 .. MaxLevel,
           InsertAllocate(t, id, v, lv)
    PROVE  IndInv'
  <1> USE DEF args, beam
  <1>1. /\ num_vectors \in Nat /\ num_vectors' = num_vectors + 1 /\ num_vectors' \in 0 .. MaxVectors
        /\ Nodes' = 0 .. num_vectors
        /\ Nodes \subseteq Nodes' /\ Nodes' = Nodes \cup {num_vectors} /\ num_vectors \notin Nodes
    BY BoundAssumption DEF InsertAllocate, IndInv, TypeOK, IndexTypeOK, Nodes
  <1>2. /\ graph' = [i \in Nodes' |-> IF i = num_vectors THEN [l \in 0 .. lv |-> << >>] ELSE graph[i]]
        /\ \A n \in Nodes : graph'[n] = graph[n]
        /\ graph'[num_vectors] = [l \in 0 .. lv |-> << >>]
    BY <1>1 DEF InsertAllocate, PushBack
  <1>3. /\ raw_vectors' \in [Nodes' -> Vec]
        /\ id_map' \in [Nodes' -> Ids]
        /\ tombstone' \in [Nodes' -> BOOLEAN]
    BY <1>1 DEF InsertAllocate, PushBack, IndInv, TypeOK, IndexTypeOK
  <1>4. \A n \in Nodes' : \E j \in 0 .. MaxLevel : graph'[n] \in [0 .. j -> Seq(Nodes')]
    <2>1. graph'[num_vectors] \in [0 .. lv -> Seq(Nodes')]
      <3>1. << >> \in Seq(Nodes')
        OBVIOUS
      <3> QED
        BY <1>2, <3>1
    <2>2. ASSUME NEW n \in Nodes PROVE \E j \in 0 .. MaxLevel : graph'[n] \in [0 .. j -> Seq(Nodes')]
      <3>1. PICK j \in 0 .. MaxLevel : graph[n] \in [0 .. j -> Seq(Nodes)]
        BY DEF IndInv, TypeOK, IndexTypeOK
      <3>2. \A i \in 0 .. j : graph[n][i] \in Seq(Nodes')
        BY <1>1, <3>1, SeqMonotone
      <3> QED
        BY <1>2, <3>1, <3>2
    <2> QED
      BY <1>1, <2>1, <2>2
  <1>5. IndexTypeOK'
    <2>1. max_layer' \in 0 .. MaxLevel /\ entry_point' \in Nat /\ deleted_ids' \subseteq Ids
      BY DEF InsertAllocate, IndInv, TypeOK, IndexTypeOK
    <2>2. DOMAIN graph' = Nodes'
      BY <1>2
    <2> QED
      BY <1>1, <1>3, <1>4, <2>1, <2>2 DEF IndexTypeOK
  <1>6. LinksStayOnLayer'
    <2> SUFFICES ASSUME NEW n \in Nodes', NEW l \in DOMAIN graph'[n], NEW i \in DOMAIN graph'[n][l]
                 PROVE  l \in DOMAIN graph'[graph'[n][l][i]]
      BY DEF LinksStayOnLayer, NodeLinks, Layers
    <2>1. n \in Nodes
      <3>1. graph'[num_vectors][l] = << >> \/ l \notin DOMAIN graph'[num_vectors]
        BY <1>2
      <3>2. n # num_vectors
        BY <3>1
      <3> QED
        BY <1>1, <3>2
    <2>2. graph[n][l] \in Seq(Nodes) /\ l \in DOMAIN graph[n]
      BY <1>2, <2>1 DEF IndInv, TypeOK, IndexTypeOK
    <2>3. graph[n][l][i] \in Nodes
      BY <1>2, <2>1, <2>2
    <2>4. l \in DOMAIN graph[graph[n][l][i]]
      BY <1>2, <2>1, <2>2 DEF IndInv, LinksStayOnLayer, NodeLinks, Layers
    <2> QED
      BY <1>2, <2>1, <2>3, <2>4
  <1>7. CallTypeOK'
    <2>1. /\ pc' \in [Threads -> {"idle", "entry", "search", "link", "publish", "return"}]
          /\ op' \in [Threads -> {"insert", "search"}]
          /\ query' \in [Threads -> Vec]
          /\ slot' \in [Threads -> Nat]
          /\ level' \in [Threads -> 0 .. MaxLevel]
      <3>1. CASE UNCHANGED <<pc, args>>
        BY <3>1 DEF IndInv, TypeOK, CallTypeOK
      <3>2. CASE /\ pc' = [pc EXCEPT ![t] = "entry"]
                 /\ op' = [op EXCEPT ![t] = "insert"]
                 /\ query' = [query EXCEPT ![t] = v]
                 /\ slot' = [slot EXCEPT ![t] = num_vectors]
                 /\ level' = [level EXCEPT ![t] = lv]
        BY <1>1, <3>2 DEF IndInv, TypeOK, CallTypeOK
      <3> QED
        BY <3>1, <3>2 DEF InsertAllocate
    <2>2. nv' \in [Threads -> 0 .. num_vectors'] /\ k' \in [Threads -> Ks \cup {0}]
      BY <1>1 DEF InsertAllocate, IndInv, TypeOK, CallTypeOK
    <2>3. todo' \in [Threads -> Seq(Nodes')] /\ ret' \in [Threads -> Seq(Nodes')]
      BY <1>1, SeqMonotone DEF InsertAllocate, IndInv, TypeOK, CallTypeOK
    <2>4. settled' \in [Threads -> SUBSET Nodes']
      BY <1>1 DEF InsertAllocate, IndInv, TypeOK, CallTypeOK
    <2> QED
      BY <2>1, <2>2, <2>3, <2>4 DEF CallTypeOK
  <1>8. BeamTypeOK'
    <2>1. nbs' \in [Threads -> Seq(Nodes')]
      BY <1>1, SeqMonotone DEF InsertAllocate, IndInv, TypeOK, BeamTypeOK
    <2> QED
      BY <1>1, <2>1 DEF InsertAllocate, IndInv, TypeOK, BeamTypeOK
  <1>9. ASSUME NEW u \in Threads, u # t PROVE WalkOK(u)'
    <2>1. Held(u)' = Held(u) /\ todo'[u] = todo[u] /\ lc'[u] = lc[u]
      BY DEF InsertAllocate, Held
    <2>2. pc'[u] = pc[u] /\ op'[u] = op[u] /\ slot'[u] = slot[u] /\ level'[u] = level[u]
      BY <1>9 DEF InsertAllocate, IndInv, TypeOK, CallTypeOK
    <2> QED
      BY <1>1, <1>2, <2>1, <2>2, WalkKept
  <1>10. todo'[t] = << >>
    BY DEF InsertAllocate, Idle, IndInv, WalksStayOnLayer, WalkOK
  <1>11. CASE num_vectors = 0
    <2>1. max_layer' = lv /\ entry_point' = 0 /\ UNCHANGED <<pc, op, slot>>
      BY <1>1, <1>11 DEF InsertAllocate
    <2>2. Nodes' = {0} /\ entry_point' \in Nodes' /\ DOMAIN graph'[0] = 0 .. max_layer'
      BY <1>1, <1>2, <1>11, <2>1
    <2>3. EntryPointOnTop'
      BY <2>1, <2>2 DEF EntryPointOnTop, Layers
    <2>4. WalkOK(t)'
      BY <1>10, <2>1 DEF InsertAllocate, Idle, WalkOK, Inserting
    <2> QED
      BY <1>5, <1>6, <1>7, <1>8, <1>9, <2>3, <2>4 DEF IndInv, TypeOK, WalksStayOnLayer
  <1>12. CASE num_vectors > 0
    <2>1. /\ pc'[t] = "entry" /\ op'[t] = "insert" /\ slot'[t] = num_vectors /\ level'[t] = lv
          /\ UNCHANGED <<max_layer, entry_point>>
      BY <1>12 DEF InsertAllocate, IndInv, TypeOK, CallTypeOK
    <2>2. InFlight \cup {num_vectors} \subseteq InFlight'
      <3>1. num_vectors \in InFlight'
        BY <2>1 DEF InFlight, Inserting
      <3>2. ASSUME NEW u \in Threads, Inserting(u) PROVE slot[u] \in InFlight'
        <4>1. u # t
          BY <3>2 DEF InsertAllocate, Idle, Inserting
        <4>2. pc'[u] = pc[u] /\ op'[u] = op[u] /\ slot'[u] = slot[u]
          BY <4>1 DEF InsertAllocate, IndInv, TypeOK, CallTypeOK
        <4> QED
          BY <3>2, <4>2 DEF InFlight, Inserting
      <3> QED
        BY <3>1, <3>2 DEF InFlight
    <2>3. EntryPointOnTop'
      <3>1. /\ entry_point \in Nodes /\ DOMAIN graph[entry_point] = 0 .. max_layer
            /\ \A n \in Nodes \ InFlight : DOMAIN graph[n] \subseteq 0 .. max_layer
        BY <1>12 DEF IndInv, EntryPointOnTop, Layers
      <3> QED
        BY <1>1, <1>2, <2>1, <2>2, <3>1 DEF EntryPointOnTop, Layers
    <2>4. WalkOK(t)'
      BY <1>1, <1>2, <1>10, <1>12, <2>1 DEF WalkOK, Inserting, Layers
    <2> QED
      BY <1>5, <1>6, <1>7, <1>8, <1>9, <2>3, <2>4 DEF IndInv, TypeOK, WalksStayOnLayer
  <1> QED
    BY <1>1, <1>11, <1>12
LEMMA SearchLoadInd ==
    ASSUME IndInv, NEW t \in Threads, NEW v \in Vec, NEW kk \in Ks, SearchLoad(t, v, kk)
    PROVE  IndInv'
  <1> USE DEF beam
  <1>1. /\ Nodes' = Nodes
        /\ IndexTypeOK'
        /\ LinksStayOnLayer'
        /\ \A n \in Nodes : DOMAIN graph'[n] = DOMAIN graph[n]
    BY IndexUnchanged DEF SearchLoad
  <1>2. num_vectors' = num_vectors /\ num_vectors \in Nat
    BY BoundAssumption DEF SearchLoad, index, IndInv, TypeOK, IndexTypeOK
  <1>3. CallTypeOK'
    BY <1>1, <1>2 DEF SearchLoad, IndInv, TypeOK, CallTypeOK
  <1>4. BeamTypeOK'
    BY <1>1 DEF SearchLoad, IndInv, TypeOK, BeamTypeOK
  <1>5. InFlight' = InFlight
    BY DEF SearchLoad, Idle, InFlight, Inserting, IndInv, TypeOK, CallTypeOK
  <1>6. EntryPointOnTop'
    BY <1>1, <1>5 DEF SearchLoad, IndInv, EntryPointOnTop, index, Layers
  <1>7. ASSUME NEW u \in Threads, u # t PROVE WalkOK(u)'
    <2>1. Held(u)' = Held(u)
      BY DEF SearchLoad, Held
    <2> QED
      BY <1>1, <1>2, <1>7, <2>1, WalkKept DEF SearchLoad, IndInv, TypeOK, CallTypeOK
  <1>8. WalkOK(t)'
    BY <1>2 DEF SearchLoad, Idle, IndInv, TypeOK, CallTypeOK, WalksStayOnLayer, WalkOK, Inserting
  <1> QED
    BY <1>1, <1>3, <1>4, <1>6, <1>7, <1>8 DEF IndInv, TypeOK, WalksStayOnLayer

LEMMA SearchEntryInd ==
    ASSUME IndInv, NEW t \in Threads, SearchEntry(t)
    PROVE  IndInv'
  <1> USE DEF args, history
  <1>1. /\ Nodes' = Nodes
        /\ IndexTypeOK'
        /\ LinksStayOnLayer'
        /\ \A n \in Nodes : DOMAIN graph'[n] = DOMAIN graph[n]
    BY IndexUnchanged DEF SearchEntry
  <1>2. pc[t] = "entry" /\ op[t] = "search" /\ todo[t] = << >> /\ num_vectors > 0
    BY DEF SearchEntry, IndInv, WalksStayOnLayer, WalkOK
  <1>3. entry_point \in Nodes /\ max_layer \in 0 .. MaxLevel /\ 0 .. nv[t] - 1 \subseteq Nodes
    BY <1>2 DEF IndInv, TypeOK, IndexTypeOK, CallTypeOK, EntryPointOnTop, Nodes
  <1>4. CallTypeOK'
    BY <1>1 DEF SearchEntry, IndInv, TypeOK, CallTypeOK, index
  <1>5. InFlight' = InFlight
    BY SMTT(30) DEF SearchEntry, InFlight, Inserting, IndInv, TypeOK, CallTypeOK
  <1>6. EntryPointOnTop'
    BY <1>1, <1>5 DEF SearchEntry, IndInv, EntryPointOnTop, index, Layers
  <1>7. ASSUME NEW e \in Nodes, StartLayer(t, e, max_layer), pc' = [pc EXCEPT ![t] = "search"]
        PROVE  BeamTypeOK' /\ WalksStayOnLayer'
    <2>1. /\ BeamTypeOK'
          /\ todo'[t] = << >> => Held(t)' = {e}
          /\ \A u \in Threads \ {t} :
                lc'[u] = lc[u] /\ (todo'[u] = todo[u] => Held(u)' = Held(u))
      BY <1>1, <1>3, <1>7, StartLayerBeam
    <2>2. ASSUME NEW u \in Threads, u # t PROVE WalkOK(u)'
      BY <1>1, <1>7, <2>1, <2>2, WalkKept DEF SearchEntry, index, IndInv, TypeOK, CallTypeOK
    <2>3. WalkOK(t)'
      BY <1>1, <1>2, <1>7, <2>1
      DEF SearchEntry, IndInv, TypeOK, CallTypeOK, WalkOK, index, Inserting
    <2> QED
      BY <2>1, <2>2, <2>3 DEF WalksStayOnLayer
  <1>8. ASSUME UNCHANGED beam, pc' = [pc EXCEPT ![t] = "return"]
        PROVE  BeamTypeOK' /\ WalksStayOnLayer'
    <2>1. BeamTypeOK'
      BY <1>1, <1>8 DEF IndInv, TypeOK, BeamTypeOK, beam
    <2>2. ASSUME NEW u \in Threads, u # t PROVE WalkOK(u)'
      <3>1. Held(u)' = Held(u) /\ lc'[u] = lc[u]
        BY <1>8 DEF SearchEntry, beam, Held
      <3> QED
        BY <1>1, <1>8, <2>2, <3>1, WalkKept DEF SearchEntry, index, IndInv, TypeOK, CallTypeOK
    <2>3. WalkOK(t)'
      BY <1>2, <1>8 DEF SearchEntry, IndInv, TypeOK, CallTypeOK, WalkOK, Inserting
    <2> QED
      BY <2>1, <2>2, <2>3 DEF WalksStayOnLayer
  <1>9. \/ \E e \in Nodes : StartLayer(t, e, max_layer) /\ pc' = [pc EXCEPT ![t] = "search"]
        \/ UNCHANGED beam /\ pc' = [pc EXCEPT ![t] = "return"]
    BY <1>3 DEF SearchEntry
  <1>10. BeamTypeOK' /\ WalksStayOnLayer'
    BY <1>7, <1>8, <1>9
  <1> QED
    BY <1>1, <1>4, <1>6, <1>10 DEF IndInv, TypeOK

\* What search hands to its caller is a list of slots, at most k for k >= 1.
LEMMA CutType ==
    ASSUME NEW S, NEW best \in Seq(S), NEW kk \in Int
    PROVE  /\ Cut(best, kk) \in Seq(S)
           /\ kk >= 1 => Len(Cut(best, kk)) <= kk
           /\ Len(Cut(best, kk)) <= Len(best)
           /\ \A i \in DOMAIN Cut(best, kk) : i \in DOMAIN best /\ Cut(best, kk)[i] = best[i]
  <1>1. CASE kk >= 1
    <2>1. /\ MinOf(kk, Len(best)) \in Nat
          /\ MinOf(kk, Len(best)) <= kk /\ MinOf(kk, Len(best)) <= Len(best)
      BY <1>1 DEF MinOf
    <2>2. Cut(best, kk) = [i \in 1 .. MinOf(kk, Len(best)) |-> best[i]]
      BY <1>1 DEF Cut
    <2>3. \A i \in 1 .. MinOf(kk, Len(best)) : i \in 1 .. Len(best) /\ best[i] \in S
      BY <2>1
    <2> QED
      BY <2>1, <2>2, <2>3
  <1>2. CASE ~(kk >= 1)
    BY <1>2 DEF Cut
  <1> QED
    BY <1>1, <1>2

LEMMA SearchCollectInd ==
    ASSUME IndInv, NEW t \in Threads, SearchCollect(t)
    PROVE  IndInv'
  <1> USE DEF args, beam, history
  <1>1. /\ Nodes' = Nodes
        /\ IndexTypeOK'
        /\ LinksStayOnLayer'
        /\ \A n \in Nodes : DOMAIN graph'[n] = DOMAIN graph[n]
    BY IndexUnchanged DEF SearchCollect
  <1> DEFINE alive == {n \in results[t] : ~tombstone[n]}
  <1>2. PICK best \in Ranking(t, alive) : ret' = [ret EXCEPT ![t] = Cut(best, k[t])]
    BY DEF SearchCollect
  <1>3. alive \subseteq Nodes /\ IsFiniteSet(alive)
    <2>1. alive \subseteq Nodes
      BY DEF IndInv, TypeOK, BeamTypeOK
    <2>2. 0 \in Int /\ num_vectors - 1 \in Int
      BY DEF IndInv, TypeOK, IndexTypeOK
    <2>3. IsFiniteSet(Nodes)
      BY <2>2, FS_Interval, Zenon DEF Nodes
    <2> QED
      BY <2>1, <2>3, FS_Subset
  <1> HIDE DEF alive
  <1>4. best \in Seq(Nodes)
    BY <1>3, RankedType DEF Ranking
  <1>5. Cut(best, k[t]) \in Seq(Nodes)
    <2>1. k[t] \in Ks \cup {0}
      BY DEF IndInv, TypeOK, CallTypeOK
    <2>2. k[t] \in Int
      <3>1. 0 \in Int
        OBVIOUS
      <3> QED
        BY <2>1, <3>1, KsAssumption, Zenon
    <2> QED
      BY <1>4, <2>2, CutType
  <1>6. CallTypeOK'
    BY <1>1, <1>2, <1>5 DEF SearchCollect, IndInv, TypeOK, CallTypeOK, index
  <1>7. BeamTypeOK'
    BY <1>1 DEF SearchCollect, IndInv, TypeOK, BeamTypeOK
  <1>8. InFlight' = InFlight
    BY DEF SearchCollect, InFlight, Inserting, IndInv, TypeOK, CallTypeOK
  <1>9. EntryPointOnTop'
    BY <1>1, <1>8 DEF SearchCollect, IndInv, EntryPointOnTop, index, Layers
  <1>10. ASSUME NEW u \in Threads, u # t PROVE WalkOK(u)'
    <2>1. Held(u)' = Held(u)
      BY DEF SearchCollect, Held
    <2> QED
      BY <1>1, <1>10, <2>1, WalkKept DEF SearchCollect, index, IndInv, TypeOK, CallTypeOK
  <1>11. WalkOK(t)'
    BY DEF SearchCollect, LayerDone, Looping, IndInv, TypeOK, CallTypeOK, WalksStayOnLayer, WalkOK, Inserting
  <1> QED
    BY <1>1, <1>6, <1>7, <1>9, <1>10, <1>11 DEF IndInv, TypeOK, WalksStayOnLayer

LEMMA SearchReturnInd ==
    ASSUME IndInv, NEW t \in Threads, SearchReturn(t)
    PROVE  IndInv'
  <1>1. /\ Nodes' = Nodes
        /\ IndexTypeOK'
        /\ LinksStayOnLayer'
        /\ \A n \in Nodes : DOMAIN graph'[n] = DOMAIN graph[n]
    BY IndexUnchanged DEF SearchReturn
  <1>2. NoVec \in Vec
    BY VecAssumption DEF NoVec
  <1>3. 0 \in 0 .. MaxLevel /\ 0 \in 0 .. num_vectors /\ num_vectors' = num_vectors
    BY BoundAssumption DEF SearchReturn, index, IndInv, TypeOK, IndexTypeOK
  <1>4. CallTypeOK'
    BY <1>1, <1>2, <1>3 DEF SearchReturn, Finish, IndInv, TypeOK, CallTypeOK
  <1>5. BeamTypeOK'
    BY <1>1, <1>3 DEF SearchReturn, Finish, IndInv, TypeOK, BeamTypeOK
  <1>6. ~Inserting(t) /\ ~Inserting(t)'
    BY DEF SearchReturn, Finish, Inserting, IndInv, TypeOK, CallTypeOK, WalksStayOnLayer, WalkOK
  <1>7. InFlight' = InFlight
    BY <1>6 DEF SearchReturn, Finish, InFlight, Inserting, IndInv, TypeOK, CallTypeOK
  <1>8. EntryPointOnTop'
    BY <1>1, <1>7 DEF SearchReturn, IndInv, EntryPointOnTop, index, Layers
  <1>9. ASSUME NEW u \in Threads, u # t PROVE WalkOK(u)'
    <2>1. /\ pc'[u] = pc[u] /\ op'[u] = op[u] /\ slot'[u] = slot[u] /\ level'[u] = level[u]
          /\ lc'[u] = lc[u] /\ todo'[u] = todo[u]
      BY <1>9 DEF SearchReturn, Finish, IndInv, TypeOK, CallTypeOK, BeamTypeOK
    <2>2. Held(u)' = Held(u)
      BY <1>9, <2>1 DEF SearchReturn, Finish, IndInv, TypeOK, BeamTypeOK, Held
    <2> QED
      BY <1>1, <1>3, <1>9, <2>1, <2>2, WalkKept
  <1>10. WalkOK(t)'
    BY DEF SearchReturn, Finish, IndInv, TypeOK, CallTypeOK, WalkOK, Inserting
  <1> QED
    BY <1>1, <1>4, <1>5, <1>8, <1>9, <1>10 DEF IndInv, TypeOK, WalksStayOnLayer

LEMMA StutterInd ==
    ASSUME IndInv, UNCHANGED vars
    PROVE  IndInv'
  <1> USE DEF vars, args, beam, history
  <1>1. /\ Nodes' = Nodes
        /\ IndexTypeOK'
        /\ LinksStayOnLayer'
        /\ \A n \in Nodes : DOMAIN graph'[n] = DOMAIN graph[n]
    BY IndexUnchanged
  <1>2. CallTypeOK' /\ BeamTypeOK'
    BY <1>1 DEF IndInv, TypeOK, CallTypeOK, BeamTypeOK, index
  <1>3. InFlight' = InFlight
    BY DEF InFlight, Inserting
  <1>4. EntryPointOnTop'
    BY <1>1, <1>3 DEF IndInv, EntryPointOnTop, index, Layers
  <1>5. ASSUME NEW u \in Threads PROVE WalkOK(u)'
    <2>1. Held(u)' = Held(u)
      BY DEF Held
    <2> QED
      BY <1>1, <2>1, WalkKept DEF index
  <1> QED
    BY <1>1, <1>2, <1>4, <1>5 DEF IndInv, TypeOK, WalksStayOnLayer

LEMMA NextInd == IndInv /\ [Next]_vars => IndInv'
  <1> SUFFICES ASSUME IndInv, [Next]_vars PROVE IndInv'
    OBVIOUS
  <1>1. ASSUME NEW t \in Threads, NEW id \in Ids, NEW v \in Vec, NEW lv \in 0 .. MaxLevel,
               InsertAllocate(t, id, v, lv)
        PROVE  IndInv'
    BY <1>1, InsertAllocateInd
  <1>2. ASSUME NEW t \in Threads, NEW id \in Deletable, DeleteVector(t, id)
        PROVE  IndInv'
    BY <1>2, DeleteVectorInd, IdsAssumption
  <1>3. ASSUME NEW t \in Threads, NEW v \in Vec, NEW kk \in Ks, SearchLoad(t, v, kk)
        PROVE  IndInv'
    BY <1>3, SearchLoadInd
  <1>4. ASSUME NEW t \in Threads, InsertStep(t) PROVE IndInv'
    BY <1>4, InsertReadEntryInd, LinkOwnInd, LinkBackInd, NextLayerInd, InsertPublishInd
    DEF InsertStep
  <1>5. ASSUME NEW t \in Threads, LayerStep(t) PROVE IndInv'
    BY <1>5, ExpandCandidateInd, EvalNeighbourInd, DescendInd DEF LayerStep
  <1>6. ASSUME NEW t \in Threads, SearchStep(t) PROVE IndInv'
    BY <1>6, SearchEntryInd, SearchCollectInd, SearchReturnInd DEF SearchStep
  <1>7. CASE UNCHANGED vars
    BY <1>7, StutterInd
  <1> QED
    BY <1>1, <1>2, <1>3, <1>4, <1>5, <1>6, <1>7 DEF Next, Step

LEMMA Inductive == Spec => []IndInv
  BY InitInd, NextInd, PTL DEF Spec
-----------------------------------------------------------------------------
\* Every list, queue and answer holds existing slots, with any number of
\* threads inside insert, search and delete_vector.
THEOREM TypeCorrect == Spec => []TypeOK
  <1>1. IndInv => TypeOK
    BY DEF IndInv
  <1> QED
    BY <1>1, Inductive, PTL

\* insert never links a node on a layer the other end does not have, so its
\* resize of a neighbour's layers is dead code.
THEOREM LinksOnLayer == Spec => []LinksStayOnLayer
  <1>1. IndInv => LinksStayOnLayer
    BY DEF IndInv
  <1> QED
    BY <1>1, Inductive, PTL

\* What insert and search hold between two critical sections stays usable.
THEOREM WalksOnLayer == Spec => []WalksStayOnLayer
  <1>1. IndInv => WalksStayOnLayer
    BY DEF IndInv
  <1> QED
    BY <1>1, Inductive, PTL

\* entry_point_ and max_layer_ always describe the same, tallest published node.
THEOREM EntryOnTop == Spec => []EntryPointOnTop
  <1>1. IndInv => EntryPointOnTop
    BY DEF IndInv
  <1> QED
    BY <1>1, Inductive, PTL
-----------------------------------------------------------------------------
(* DegreeBound *)

LEMMA DegreeStep ==
    ASSUME IndInv, DegreeBound, Next
    PROVE  DegreeBound'
  <1>1. ASSUME UNCHANGED <<num_vectors, graph>> PROVE DegreeBound'
    BY <1>1 DEF DegreeBound, Nodes, Layers
  <1>2. ASSUME NEW n \in Nodes, NEW l \in DOMAIN graph[n], NEW s, Len(s) <= Mmax(l),
               graph' = [graph EXCEPT ![n] = [graph[n] EXCEPT ![l] = s]], num_vectors' = num_vectors
        PROVE  DegreeBound'
    <2>1. DOMAIN graph = Nodes /\ Nodes' = Nodes
      BY <1>2 DEF IndInv, TypeOK, IndexTypeOK, Nodes
    <2>2. \A m \in Nodes : DOMAIN graph'[m] = DOMAIN graph[m]
      BY <1>2, <2>1
    <2>3. \A m \in Nodes : \A j \in DOMAIN graph[m] :
              graph'[m][j] = IF m = n /\ j = l THEN s ELSE graph[m][j]
      BY <1>2, <2>1
    <2> QED
      BY <1>2, <2>1, <2>2, <2>3 DEF DegreeBound, Layers, Mmax
  <1>3. ASSUME NEW t \in Threads, NEW id \in Ids, NEW v \in Vec, NEW lv \in 0 .. MaxLevel,
               InsertAllocate(t, id, v, lv)
        PROVE  DegreeBound'
    <2>1. num_vectors \in Nat /\ Nodes' = Nodes \cup {num_vectors} /\ num_vectors \notin Nodes
      BY <1>3, BoundAssumption DEF InsertAllocate, IndInv, TypeOK, IndexTypeOK, Nodes
    <2>2. /\ \A n \in Nodes : graph'[n] = graph[n]
          /\ graph'[num_vectors] = [l \in 0 .. lv |-> << >>]
      BY <1>3, <2>1 DEF InsertAllocate, PushBack, Nodes
    <2>3. \A l : Mmax(l) \in Nat
      BY MAssumption DEF Mmax
    <2>4. \A l \in DOMAIN graph'[num_vectors] : Len(graph'[num_vectors][l]) = 0
      BY <2>2
    <2>5. \A n \in Nodes' : \A l \in DOMAIN graph'[n] : Len(graph'[n][l]) <= Mmax(l)
      BY <2>1, <2>2, <2>3, <2>4 DEF DegreeBound, Layers
    <2> QED
      BY <2>5 DEF DegreeBound, Layers, Mmax
  <1>4. ASSUME NEW t \in Threads, LinkOwn(t) PROVE DegreeBound'
    <2>1. pc[t] = "search" /\ Inserting(t) /\ lc[t] <= level[t]
      BY <1>4 DEF LinkOwn, LayerDone, Looping, Inserting
    <2>2. PICK found \in Found(t) : \E chosen \in SelectNeighbours(query[t], found, M) :
              graph' = [graph EXCEPT ![slot[t]][lc[t]] = chosen]
      BY <1>4 DEF LinkOwn
    <2>3. PICK chosen \in SelectNeighbours(query[t], found, M) :
              graph' = [graph EXCEPT ![slot[t]][lc[t]] = chosen]
      BY <2>2
    <2>4. chosen \in Seq(results[t]) /\ Len(chosen) <= M
      BY <2>1, FrontHeld, SelectNeighboursType, MAssumption
    <2>5. Len(chosen) \in Nat /\ Len(chosen) <= Mmax(lc[t])
      BY <2>4, MAssumption DEF Mmax
    <2>6. slot[t] \in Nodes /\ lc[t] \in DOMAIN graph[slot[t]]
      BY <2>1, BoundAssumption
      DEF IndInv, TypeOK, CallTypeOK, BeamTypeOK, WalksStayOnLayer, WalkOK, Layers
    <2>7. graph' = [graph EXCEPT ![slot[t]] = [graph[slot[t]] EXCEPT ![lc[t]] = chosen]]
      BY <2>3
    <2> QED
      BY <1>2, <1>4, <2>5, <2>6, <2>7 DEF LinkOwn
  <1>5. ASSUME NEW t \in Threads, LinkBack(t) PROVE DegreeBound'
    <2> DEFINE nb == Head(todo[t])
    <2>1. pc[t] = "link" /\ Inserting(t) /\ todo[t] \in Seq(Nodes) /\ todo[t] # << >>
      BY <1>5 DEF LinkBack, IndInv, TypeOK, CallTypeOK, WalksStayOnLayer, WalkOK, Inserting
    <2>2. nb \in Nodes /\ nb \in Held(t)
      BY <2>1 DEF Held
    <2> DEFINE g == Resized(graph[nb], lc[t])
               links == Append(g[lc[t]], slot[t])
    <2>3. PICK kept \in IF Len(links) > Mmax(lc[t])
                        THEN SelectNeighbours(raw_vectors[nb], links, Mmax(lc[t]))
                        ELSE {links} :
              graph' = [graph EXCEPT ![nb] = [g EXCEPT ![lc[t]] = kept]]
      BY <1>5 DEF LinkBack
    <2> HIDE DEF nb
    <2>4. lc[t] \in DOMAIN graph[nb] /\ lc[t] \in Nat /\ slot[t] \in Nodes
      BY <2>1, <2>2, BoundAssumption DEF IndInv, TypeOK, BeamTypeOK, WalksStayOnLayer, WalkOK, Layers
    <2>5. PICK lv \in 0 .. MaxLevel : graph[nb] \in [0 .. lv -> Seq(Nodes)]
      BY <2>2 DEF IndInv, TypeOK, IndexTypeOK
    <2>6. g = graph[nb]
      <3>1. DOMAIN graph[nb] \cup 0 .. lc[t] = DOMAIN graph[nb]
        BY <2>4, <2>5, BoundAssumption
      <3>2. g = [i \in DOMAIN graph[nb] |-> graph[nb][i]]
        BY <3>1 DEF Resized
      <3> QED
        BY <2>5, <3>2
    <2>7. Mmax(lc[t]) \in Nat
      BY MAssumption DEF Mmax
    <2>8. links \in Seq(Nodes)
      BY <2>4, <2>5, <2>6
    <2> HIDE DEF links, g
    <2>9. Len(kept) <= Mmax(lc[t])
      <3>1. CASE Len(links) > Mmax(lc[t])
        BY <2>3, <2>7, <2>8, <3>1, SelectNeighboursType
      <3>2. CASE ~(Len(links) > Mmax(lc[t]))
        BY <2>3, <2>7, <2>8, <3>2
      <3> QED
        BY <3>1, <3>2
    <2> QED
      BY <1>2, <1>5, <2>2, <2>3, <2>4, <2>6, <2>9 DEF LinkBack
  <1>6. ASSUME NEW t \in Threads, NEW id \in Deletable, DeleteVector(t, id) PROVE DegreeBound'
    BY <1>1, <1>6 DEF DeleteVector
  <1>7. ASSUME NEW t \in Threads, NEW v \in Vec, NEW kk \in Ks, SearchLoad(t, v, kk)
        PROVE  DegreeBound'
    BY <1>1, <1>7 DEF SearchLoad, index
  <1>8. ASSUME NEW t \in Threads, LayerStep(t) PROVE DegreeBound'
    BY <1>1, <1>8 DEF LayerStep, ExpandCandidate, EvalNeighbour, Descend, index
  <1>9. ASSUME NEW t \in Threads, SearchStep(t) PROVE DegreeBound'
    BY <1>1, <1>9 DEF SearchStep, SearchEntry, SearchCollect, SearchReturn, index
  <1>10. ASSUME NEW t \in Threads, InsertReadEntry(t) \/ NextLayer(t) \/ InsertPublish(t)
         PROVE  DegreeBound'
    BY <1>1, <1>10 DEF InsertReadEntry, NextLayer, InsertPublish, index
  <1> QED
    BY <1>3, <1>4, <1>5, <1>6, <1>7, <1>8, <1>9, <1>10 DEF Next, Step, InsertStep

\* insert keeps every neighbour list within Mmax, whoever else appends to it.
THEOREM DegreesBounded == Spec => []DegreeBound
  <1>1. Init => DegreeBound
    BY DEF Init, DegreeBound, Nodes
  <1>2. DegreeBound /\ UNCHANGED vars => DegreeBound'
    BY DEF DegreeBound, vars, index, Nodes, Layers
  <1>3. IndInv /\ DegreeBound /\ [Next]_vars => DegreeBound'
    BY <1>2, DegreeStep
  <1> QED
    BY <1>1, <1>3, Inductive, PTL DEF Spec
-----------------------------------------------------------------------------
(* DeletedNeverReturned.  The history variable deleted_ids and the tombstones
   agree only while no id is inserted twice. *)
DeletedTombstoned ==
    /\ \A m, n \in Nodes : id_map[m] = id_map[n] => m = n
    /\ \A n \in Nodes : id_map[n] \in deleted_ids => tombstone[n]

LEMMA TombstoneStep ==
    ASSUME ~ReuseIds, IndInv, DeletedTombstoned, Next
    PROVE  DeletedTombstoned'
  <1>1. ASSUME UNCHANGED <<num_vectors, id_map, tombstone, deleted_ids>> PROVE DeletedTombstoned'
    BY <1>1 DEF DeletedTombstoned, Nodes
  <1>2. ASSUME NEW t \in Threads, NEW id \in Ids, NEW v \in Vec, NEW lv \in 0 .. MaxLevel,
               InsertAllocate(t, id, v, lv)
        PROVE  DeletedTombstoned'
    <2>1. num_vectors \in Nat /\ Nodes' = Nodes \cup {num_vectors} /\ num_vectors \notin Nodes
      BY <1>2, BoundAssumption DEF InsertAllocate, IndInv, TypeOK, IndexTypeOK, Nodes
    <2>2. /\ \A n \in Nodes : id_map'[n] = id_map[n] /\ tombstone'[n] = tombstone[n]
          /\ id_map'[num_vectors] = id
      <3>1. Nodes' = 0 .. num_vectors
        BY <1>2, <2>1 DEF InsertAllocate, Nodes
      <3>2. /\ id_map' = [i \in Nodes' |-> IF i = num_vectors THEN id ELSE id_map[i]]
            /\ tombstone' = [i \in Nodes' |-> IF i = num_vectors THEN FALSE ELSE tombstone[i]]
        BY <1>2, <3>1 DEF InsertAllocate, PushBack
      <3>3. ASSUME NEW n \in Nodes PROVE id_map'[n] = id_map[n] /\ tombstone'[n] = tombstone[n]
        BY <2>1, <3>2
      <3> QED
        BY <2>1, <3>2, <3>3
    <2>3. \A n \in Nodes : id_map[n] # id
      BY <1>2 DEF InsertAllocate
    <2>4. deleted_ids' = deleted_ids \ {id}
      BY <1>2 DEF InsertAllocate
    <2> QED
      BY <2>1, <2>2, <2>3, <2>4 DEF DeletedTombstoned
  <1>3. ASSUME NEW t \in Threads, NEW id \in Deletable, DeleteVector(t, id)
        PROVE  DeletedTombstoned'
    <2>1. UNCHANGED <<num_vectors, id_map>> /\ Nodes' = Nodes
      BY <1>3 DEF DeleteVector, Nodes
    <2>2. CASE UNCHANGED <<tombstone, deleted_ids>>
      BY <1>1, <2>1, <2>2
    <2>3. CASE ~UNCHANGED <<tombstone, deleted_ids>>
      <3>1. PICK i \in Nodes : /\ id_map[i] = id
                               /\ tombstone' = [tombstone EXCEPT ![i] = TRUE]
                               /\ deleted_ids' = deleted_ids \cup {id}
        BY <1>3, <2>3 DEF DeleteVector
      <3>2. \A n \in Nodes : tombstone'[n] = IF n = i THEN TRUE ELSE tombstone[n]
        BY <3>1 DEF IndInv, TypeOK, IndexTypeOK
      <3>3. ASSUME NEW n \in Nodes, id_map[n] \in deleted_ids' PROVE tombstone'[n]
        <4>1. CASE id_map[n] = id
          BY <3>1, <3>2, <4>1 DEF DeletedTombstoned
        <4>2. CASE id_map[n] # id
          BY <3>1, <3>2, <3>3, <4>2 DEF DeletedTombstoned
        <4> QED
          BY <4>1, <4>2
      <3> QED
        BY <2>1, <3>3 DEF DeletedTombstoned
    <2> QED
      BY <2>2, <2>3
  <1>4. ASSUME NEW t \in Threads, NEW v \in Vec, NEW kk \in Ks, SearchLoad(t, v, kk)
        PROVE  DeletedTombstoned'
    BY <1>1, <1>4 DEF SearchLoad, index
  <1>5. ASSUME NEW t \in Threads, LayerStep(t) PROVE DeletedTombstoned'
    BY <1>1, <1>5 DEF LayerStep, ExpandCandidate, EvalNeighbour, Descend, index, history
  <1>6. ASSUME NEW t \in Threads, SearchStep(t) PROVE DeletedTombstoned'
    BY <1>1, <1>6 DEF SearchStep, SearchEntry, SearchCollect, SearchReturn, index, history
  <1>7. ASSUME NEW t \in Threads, InsertStep(t) PROVE DeletedTombstoned'
    BY <1>1, <1>7
    DEF InsertStep, InsertReadEntry, LinkOwn, LinkBack, NextLayer, InsertPublish, index, history
  <1> QED
    BY <1>2, <1>3, <1>4, <1>5, <1>6, <1>7 DEF Next, Step

\* Only the last critical section of search changes an answer to a non-empty
\* one, and it puts live slots into it.
LEMMA AnswersAreLive ==
    ASSUME IndInv, Next, NEW t \in Threads, ret'[t] # ret[t], NEW i \in DOMAIN ret'[t]
    PROVE  ret'[t][i] \in Nodes /\ ~tombstone[ret'[t][i]]
  <1>1. ASSUME NEW u \in Threads, SearchCollect(u) PROVE ret'[t][i] \in Nodes /\ ~tombstone[ret'[t][i]]
    <2> DEFINE alive == {n \in results[u] : ~tombstone[n]}
    <2>1. PICK best \in Ranking(u, alive) : ret' = [ret EXCEPT ![u] = Cut(best, k[u])]
      BY <1>1 DEF SearchCollect
    <2>2. alive \subseteq Nodes /\ IsFiniteSet(alive)
      <3>1. alive \subseteq Nodes
        BY DEF IndInv, TypeOK, BeamTypeOK
      <3>2. 0 \in Int /\ num_vectors - 1 \in Int
        BY DEF IndInv, TypeOK, IndexTypeOK
      <3>3. IsFiniteSet(Nodes)
        BY <3>2, FS_Interval, Zenon DEF Nodes
      <3> QED
        BY <3>1, <3>3, FS_Subset
    <2>3. \A n \in alive : ~tombstone[n]
      OBVIOUS
    <2> HIDE DEF alive
    <2>4. best \in Seq(alive)
      BY <2>2, RankedType DEF Ranking
    <2>5. k[u] \in Int
      <3>1. k[u] \in Ks \cup {0} /\ 0 \in Int
        BY DEF IndInv, TypeOK, CallTypeOK
      <3> QED
        BY <3>1, KsAssumption, Zenon
    <2>6. Cut(best, k[u]) \in Seq(alive)
      BY <2>4, <2>5, CutType
    <2>7. t = u /\ ret'[t] = Cut(best, k[u])
      BY <2>1 DEF IndInv, TypeOK, CallTypeOK
    <2>8. ret'[t][i] \in alive
      BY <2>6, <2>7
    <2> QED
      BY <2>2, <2>3, <2>8
  <1>2. ASSUME NEW u \in Threads, SearchReturn(u) PROVE FALSE
    <2>1. t = u /\ ret'[t] = << >>
      BY <1>2 DEF SearchReturn, IndInv, TypeOK, CallTypeOK
    <2> QED
      BY <2>1
  <1>3. ASSUME NEW u \in Threads, NEW id \in Ids, NEW v \in Vec, NEW lv \in 0 .. MaxLevel,
               InsertAllocate(u, id, v, lv)
        PROVE  FALSE
    BY <1>3 DEF InsertAllocate
  <1>4. ASSUME NEW u \in Threads, NEW id \in Deletable, DeleteVector(u, id) PROVE FALSE
    BY <1>4 DEF DeleteVector
  <1>5. ASSUME NEW u \in Threads, NEW v \in Vec, NEW kk \in Ks, SearchLoad(u, v, kk) PROVE FALSE
    BY <1>5 DEF SearchLoad
  <1>6. ASSUME NEW u \in Threads, LayerStep(u) \/ InsertStep(u) \/ SearchEntry(u) PROVE FALSE
    BY <1>6
    DEF LayerStep, ExpandCandidate, EvalNeighbour, Descend, InsertStep, InsertReadEntry,
        LinkOwn, LinkBack, NextLayer, InsertPublish, SearchEntry
  <1> QED
    BY <1>1, <1>2, <1>3, <1>4, <1>5, <1>6 DEF Next, Step, SearchStep

\* As long as no id is inserted twice, search never hands back an id whose
\* last operation is delete_vector, however the calls interleave.
THEOREM DeletedStaysHidden ==
    ASSUME ~ReuseIds
    PROVE  Spec => DeletedNeverReturned
  <1>1. Init => DeletedTombstoned
    BY DEF Init, DeletedTombstoned, Nodes
  <1>2. DeletedTombstoned /\ UNCHANGED vars => DeletedTombstoned'
    BY DEF DeletedTombstoned, vars, index, history, Nodes
  <1>3. IndInv /\ DeletedTombstoned /\ [Next]_vars => DeletedTombstoned'
    BY <1>2, TombstoneStep
  <1>4. IndInv /\ DeletedTombstoned /\ [Next]_vars =>
            [\A t \in Threads : ret'[t] # ret[t] =>
                \A i \in DOMAIN ret'[t] : id_map[ret'[t][i]] \notin deleted_ids]_vars
    BY AnswersAreLive DEF DeletedTombstoned
  <1> QED
    BY <1>1, <1>3, <1>4, Inductive, PTL DEF Spec, DeletedNeverReturned
-----------------------------------------------------------------------------
(* Connected.  The argument is about layer 0, on the slots that have joined
   it, and holds for one inserting caller beside any number of searching ones,
   or for any number while every node has layer 0 only.  With two layers and
   two inserting callers it fails (HnswLostLink.cfg). *)

\* The instances the theorems below are about: every insert draws level 0; one
\* thread inserts; there is one thread.
OneLayer == MaxLevel = 0
OneWriter == \A t, u \in Writers : t = u
OneCaller == \A t, u \in Threads : t = u

\* A layer-0 list has room for every other slot, so that none is pruned there.
Roomy == MaxVectors <= 2 * M + 1

\* The layer-0 links of slot n.
Bottom(n) == NodeLinks(n, 0)

\* S is closed under the layer-0 links of its members outside D.
Closed(S, D) == \A n \in S \ D : Bottom(n) \subseteq S

\* The slots whose insert has returned, or that somebody links to already.
Joined == {n \in Nodes : n \notin InFlight \/ \E m \in Nodes : n \in Bottom(m)}

\* From every slot that has joined, all of them can be reached.
StronglyLinked ==
    \A S \in SUBSET Nodes : (Closed(S, {}) /\ S \cap Joined # {}) => Joined \subseteq S

\* A layer-0 list holds no slot twice, and not its owner.
NoRepeats ==
    \A n \in Nodes :
        /\ n \notin Bottom(n)
        /\ \A i, j \in DOMAIN graph[n][0] : graph[n][0][i] = graph[n][0][j] => i = j

\* The entry point has been published; no two inserts have the same slot.
SlotsApart ==
    /\ num_vectors > 0 => entry_point \notin InFlight
    /\ \A t, u \in Threads : (Inserting(t) /\ Inserting(u) /\ slot[t] = slot[u]) => t = u

\* Insert t has layer l still before it.
Ahead(t, l) ==
    \/ pc[t] = "entry"
    \/ pc[t] = "search" /\ l <= lc[t]
    \/ pc[t] = "link" /\ l < lc[t]

\* How far insert t is: nobody links to its slot on a layer that is still
\* before it; what it holds has joined; once it has chosen its layer-0 links,
\* it has joined or is about to, through the first of them.
InsertOK(t) ==
    /\ \A n \in Nodes : \A l \in Layers(n) : Ahead(t, l) => slot[t] \notin NodeLinks(n, l)
    /\ Ahead(t, 0) => Bottom(slot[t]) = {}
    /\ pc[t] = "search" => results[t] # {}
    /\ pc[t] \in {"search", "link"} => Held(t) \subseteq Joined
    /\ pc[t] = "link" /\ lc[t] = 0 =>
          /\ \A i, j \in DOMAIN todo[t] : todo[t][i] = todo[t][j] => i = j
          /\ \A i \in DOMAIN todo[t] : slot[t] \notin Bottom(todo[t][i]) /\ slot[t] # todo[t][i]
          /\ \/ slot[t] \in Joined
             \/ todo[t] # << >> /\ \A i \in DOMAIN todo[t] : todo[t][i] \in Bottom(slot[t])
    /\ pc[t] = "publish" => slot[t] \in Joined

\* The inductive invariant behind Connected.
GraphInv ==
    /\ StronglyLinked
    /\ NoRepeats
    /\ SlotsApart
    /\ \A t \in Threads : Inserting(t) => InsertOK(t)

\* Layer 0 exists, and its links lead to slots.
LEMMA BottomType ==
    ASSUME IndInv, NEW n \in Nodes
    PROVE  /\ 0 \in Layers(n) /\ graph[n][0] \in Seq(Nodes) /\ Bottom(n) \subseteq Nodes
           /\ num_vectors \in Nat
  <1>1. PICK lv \in 0 .. MaxLevel : graph[n] \in [0 .. lv -> Seq(Nodes)]
    BY DEF IndInv, TypeOK, IndexTypeOK
  <1>2. 0 \in 0 .. lv
    BY BoundAssumption
  <1>3. graph[n][0] \in Seq(Nodes)
    BY <1>1, <1>2
  <1>4. Bottom(n) \subseteq Nodes
    BY <1>3 DEF Bottom, NodeLinks
  <1> QED
    BY <1>1, <1>2, <1>3, <1>4 DEF Layers, IndInv, TypeOK, IndexTypeOK

\* An insert with layer 0 still before it has not joined.
LEMMA AheadNotJoined ==
    ASSUME IndInv, NEW t \in Threads, Inserting(t), InsertOK(t), Ahead(t, 0)
    PROVE  slot[t] \notin Joined
  <1>1. slot[t] \in InFlight
    BY DEF InFlight
  <1>2. \A n \in Nodes : slot[t] \notin Bottom(n)
    BY BottomType DEF InsertOK, Bottom
  <1> QED
    BY <1>1, <1>2 DEF Joined

\* What a step does to layer 0: it grows.
Grows ==
    /\ Nodes \subseteq Nodes'
    /\ \A n \in Nodes : Bottom(n) \subseteq Bottom(n)'

\* While layer 0 grows, nothing that has joined leaves.
LEMMA JoinedGrows ==
    ASSUME Grows, Nodes \cap InFlight' \subseteq InFlight
    PROVE  Joined \subseteq Joined'
  BY DEF Grows, Joined

\* It stays strongly linked when each slot that joins links to, and is linked
\* from, one that had joined before.
LEMMA StronglyLinkedKept ==
    ASSUME IndInv, StronglyLinked, Grows,
           \A n \in Joined' \ Joined :
               (\E m \in Joined : m \in Bottom(n)') /\ \E m \in Joined : n \in Bottom(m)'
    PROVE  StronglyLinked'
  <1> SUFFICES ASSUME NEW S \in SUBSET Nodes', Closed(S, {})', S \cap Joined' # {}
               PROVE  Joined' \subseteq S
    BY DEF StronglyLinked
  <1> DEFINE R == S \cap Nodes
  <1>1. \A n \in S : Bottom(n)' \subseteq S
    BY DEF Closed
  <1>2. Closed(R, {})
    BY <1>1, BottomType DEF Closed, Grows
  <1>3. Joined \subseteq Nodes
    BY DEF Joined
  <1>4. R \cap Joined # {}
    <2>1. PICK x \in S : x \in Joined'
      OBVIOUS
    <2>2. CASE x \in Joined
      BY <1>3, <2>2
    <2>3. CASE x \notin Joined
      <3>1. PICK m \in Joined : m \in Bottom(x)'
        BY <2>1, <2>3
      <3> QED
        BY <1>1, <1>3, <3>1
    <2> QED
      BY <2>2, <2>3
  <1>5. Joined \subseteq S
    BY <1>2, <1>4 DEF StronglyLinked
  <1>6. \A n \in Joined' \ Joined : n \in S
    <2> SUFFICES ASSUME NEW n \in Joined' \ Joined PROVE n \in S
      OBVIOUS
    <2>1. PICK m \in Joined : n \in Bottom(m)'
      OBVIOUS
    <2> QED
      BY <1>1, <1>5, <2>1
  <1> QED
    BY <1>5, <1>6

\* What a step by another thread must leave alone for insert u.
LEMMA InsertKept ==
    ASSUME IndInv, IndInv', NEW u \in Threads, Inserting(u), InsertOK(u), Grows, Joined \subseteq Joined',
           pc'[u] = pc[u], slot'[u] = slot[u], lc'[u] = lc[u], todo'[u] = todo[u],
           results'[u] = results[u], Held(u)' \subseteq Held(u),
           slot[u] \notin Joined =>
               /\ Bottom(slot[u])' = Bottom(slot[u])
               /\ \A n \in Nodes' : \A l \in Layers(n)' : slot[u] \in NodeLinks(n, l)' =>
                      n \in Nodes /\ l \in Layers(n) /\ slot[u] \in NodeLinks(n, l),
           \A n \in Joined : slot[u] \in Bottom(n)' => slot[u] \in Bottom(n)
    PROVE  InsertOK(u)'
  <1>1. \A l : Ahead(u, l)' = Ahead(u, l)
    BY DEF Ahead
  <1>2. slot[u] \in Nodes /\ Bottom(slot[u]) \subseteq Bottom(slot[u])'
    BY DEF Grows, IndInv, WalksStayOnLayer, WalkOK
  <1>3. ASSUME NEW n \in Nodes', NEW l \in Layers(n)', Ahead(u, l), slot[u] \in NodeLinks(n, l)'
        PROVE  FALSE
    <2>1. Ahead(u, 0)
      <3>1. l \in Nat
        BY DEF IndInv, TypeOK, IndexTypeOK, Layers
      <3> QED
        BY <1>3, <3>1 DEF Ahead, IndInv, TypeOK, BeamTypeOK
    <2>2. slot[u] \notin Joined
      BY <2>1, AheadNotJoined
    <2> QED
      BY <1>3, <2>2 DEF InsertOK
  <1>4. Ahead(u, 0) => Bottom(slot[u])' = {}
    BY AheadNotJoined DEF InsertOK
  <1>5. ASSUME pc[u] = "link", lc[u] = 0, NEW i \in DOMAIN todo[u]
        PROVE  slot[u] \notin Bottom(todo[u][i])'
    <2>1. todo[u][i] \in Joined
      BY <1>5 DEF InsertOK, Held
    <2> QED
      BY <1>5, <2>1 DEF InsertOK
  <1> QED
    BY <1>1, <1>2, <1>3, <1>4, <1>5 DEF InsertOK

\* A step of thread t that leaves the graph and the other calls alone.
Quiet(t) ==
    /\ UNCHANGED <<num_vectors, graph, entry_point>>
    /\ Inserting(t)' = Inserting(t)
    /\ Inserting(t) => slot'[t] = slot[t]
    /\ \A u \in Threads \ {t} :
          /\ pc'[u] = pc[u] /\ op'[u] = op[u] /\ slot'[u] = slot[u] /\ lc'[u] = lc[u]
          /\ todo'[u] = todo[u] /\ results'[u] = results[u] /\ Held(u)' \subseteq Held(u)

\* Nothing that is said of the graph alone changes while the graph and the set
\* of slots in flight stay.
LEMMA GraphUntouched ==
    ASSUME UNCHANGED <<num_vectors, graph>>
    PROVE  /\ Nodes' = Nodes
           /\ \A n : Layers(n)' = Layers(n) /\ Bottom(n)' = Bottom(n)
           /\ \A n, l : NodeLinks(n, l)' = NodeLinks(n, l)
           /\ NoRepeats => NoRepeats'
           /\ Grows
           /\ InFlight' = InFlight => Joined' = Joined
  <1>1. Nodes' = Nodes
    BY DEF Nodes
  <1>2. \A n, l : NodeLinks(n, l)' = NodeLinks(n, l)
    BY DEF NodeLinks
  <1>3. \A n : Layers(n)' = Layers(n) /\ Bottom(n)' = Bottom(n)
    BY <1>2 DEF Layers, Bottom
  <1>4. NoRepeats => NoRepeats'
    BY <1>1, <1>3 DEF NoRepeats
  <1>5. InFlight' = InFlight => Joined' = Joined
    BY <1>1, <1>3 DEF Joined
  <1> QED
    BY <1>1, <1>2, <1>3, <1>4, <1>5 DEF Grows

\* What such a step leaves as it was.
LEMMA QuietFacts ==
    ASSUME NEW t \in Threads, Quiet(t)
    PROVE  InFlight' = InFlight /\ Joined' = Joined /\ Nodes' = Nodes
  <1>1. \A u \in Threads : Inserting(u)' = Inserting(u) /\ (Inserting(u) => slot'[u] = slot[u])
    BY DEF Quiet, Inserting
  <1>2. InFlight' = InFlight
    BY <1>1 DEF InFlight
  <1> QED
    BY <1>2, GraphUntouched DEF Quiet

\* It keeps the invariant when it keeps what t itself holds sound.
LEMMA QuietStep ==
    ASSUME IndInv, IndInv', GraphInv, NEW t \in Threads, Quiet(t), Inserting(t) => InsertOK(t)'
    PROVE  GraphInv'
  <1>1. /\ Nodes' = Nodes /\ InFlight' = InFlight /\ Joined' = Joined /\ Grows /\ NoRepeats'
        /\ \A n : Layers(n)' = Layers(n) /\ Bottom(n)' = Bottom(n)
        /\ \A n, l : NodeLinks(n, l)' = NodeLinks(n, l)
    BY QuietFacts, GraphUntouched DEF Quiet, GraphInv
  <1>2. StronglyLinked'
    BY <1>1, StronglyLinkedKept DEF GraphInv
  <1>3. \A u \in Threads : Inserting(u)' = Inserting(u) /\ (Inserting(u) => slot'[u] = slot[u])
    BY DEF Quiet, Inserting
  <1>4. SlotsApart'
    BY <1>1, <1>3 DEF Quiet, GraphInv, SlotsApart
  <1>5. ASSUME NEW u \in Threads, u # t, Inserting(u) PROVE InsertOK(u)'
    <2>1. InsertOK(u)
      BY <1>5 DEF GraphInv
    <2> QED
      BY <1>1, <1>5, <2>1, InsertKept DEF Quiet
  <1> QED
    BY <1>1, <1>2, <1>3, <1>4, <1>5 DEF GraphInv

\* A step by which insert t moves on without writing a list.
LEMMA OwnQuietStep ==
    ASSUME IndInv, IndInv', GraphInv, NEW t \in Threads, Quiet(t),
           Inserting(t) =>
               /\ \A l : Ahead(t, l)' => Ahead(t, l)
               /\ pc'[t] = "search" => results'[t] # {} /\ Held(t)' \subseteq Joined
               /\ pc'[t] # "link"
               /\ pc'[t] = "publish" => slot[t] \in Joined
    PROVE  GraphInv'
  <1>1. ASSUME Inserting(t) PROVE InsertOK(t)'
    <2>1. InsertOK(t) /\ slot'[t] = slot[t]
      BY <1>1 DEF GraphInv, Quiet
    <2>2. /\ Nodes' = Nodes /\ Joined' = Joined
          /\ \A n : Layers(n)' = Layers(n) /\ Bottom(n)' = Bottom(n)
          /\ \A n, l : NodeLinks(n, l)' = NodeLinks(n, l)
      BY QuietFacts, GraphUntouched DEF Quiet
    <2>3. \A n \in Nodes' : \A l \in Layers(n)' : Ahead(t, l)' => slot'[t] \notin NodeLinks(n, l)'
      BY <1>1, <2>1, <2>2 DEF InsertOK
    <2>4. Ahead(t, 0)' => Bottom(slot[t])' = {}
      BY <1>1, <2>1, <2>2 DEF InsertOK
    <2> QED
      BY <1>1, <2>1, <2>2, <2>3, <2>4 DEF InsertOK
  <1> QED
    BY <1>1, QuietStep

\* Who inserts is a writer.
OnlyWriters == \A t \in Threads : Inserting(t) => t \in Writers

\* The walk of an insert only meets slots that have joined, and so does that
\* of a search on layer 0 or with no insert beside it.
LEMMA LinksJoined ==
    ASSUME NEW t \in Threads, OneLayer \/ OneCaller \/ (OneWriter /\ OnlyWriters /\ Inserting(t)),
           IndInv, GraphInv, pc[t] = "search",
           NEW c \in Nodes, lc[t] \in Layers(c)
    PROVE  NodeLinks(c, lc[t]) \subseteq Joined
  <1>1. lc[t] \in 0 .. MaxLevel
    BY DEF IndInv, TypeOK, BeamTypeOK
  <1>2. NodeLinks(c, lc[t]) \subseteq Nodes
    BY DEF IndInv, TypeOK, IndexTypeOK, Layers, NodeLinks
  <1>3. CASE lc[t] = 0
    BY <1>2, <1>3 DEF Joined, Bottom
  <1>4. CASE (OneCaller \/ (OneWriter /\ OnlyWriters)) /\ Inserting(t)
    <2>1. InFlight \subseteq {slot[t]}
      BY <1>4 DEF OneCaller, OneWriter, OnlyWriters, InFlight
    <2>2. Ahead(t, lc[t])
      BY <1>1 DEF Ahead
    <2>3. slot[t] \notin NodeLinks(c, lc[t])
      BY <1>4, <2>2 DEF GraphInv, InsertOK
    <2> QED
      BY <1>2, <2>1, <2>3 DEF Joined
  <1>5. CASE OneCaller /\ ~Inserting(t)
    BY <1>2, <1>5 DEF OneCaller, InFlight, Joined
  <1>6. OneLayer => lc[t] = 0
    BY <1>1 DEF OneLayer
  <1> QED
    BY <1>3, <1>4, <1>5, <1>6

\* An insert starts from a slot that has joined.
LEMMA InsertReadEntryGraph ==
    ASSUME IndInv, IndInv', GraphInv, NEW t \in Threads, InsertReadEntry(t)
    PROVE  GraphInv'
  <1>1. /\ pc[t] = "entry" /\ Inserting(t) /\ Inserting(t)'
        /\ pc'[t] = "search" /\ lc'[t] = max_layer /\ results'[t] = {entry_point}
        /\ slot'[t] = slot[t] /\ num_vectors > 0 /\ todo'[t] = << >>
        /\ Held(t)' = {entry_point}
    <2>1. /\ pc[t] = "entry" /\ Inserting(t) /\ Inserting(t)'
          /\ pc'[t] = "search" /\ lc'[t] = max_layer /\ results'[t] = {entry_point}
          /\ slot'[t] = slot[t] /\ todo'[t] = todo[t]
          /\ ep'[t] = entry_point /\ cands'[t] = {entry_point} /\ nbs'[t] = << >>
      BY DEF InsertReadEntry, StartLayer, Inserting, IndInv, TypeOK, CallTypeOK, BeamTypeOK, args
    <2>2. num_vectors > 0 /\ todo[t] = << >>
      BY <2>1 DEF IndInv, WalksStayOnLayer, WalkOK
    <2> QED
      BY <2>1, <2>2 DEF Held
  <1>2. Quiet(t)
    BY <1>1 DEF Quiet, InsertReadEntry, StartLayer, args, index, IndInv, TypeOK, CallTypeOK, BeamTypeOK, Held
  <1>3. entry_point \in Joined
    BY <1>1 DEF GraphInv, SlotsApart, Joined, IndInv, EntryPointOnTop
  <1> QED
    BY <1>1, <1>2, <1>3, OwnQuietStep DEF Ahead

\* An expansion copies links to slots that have joined.
LEMMA ExpandCandidateGraph ==
    ASSUME OneLayer \/ OneWriter, OnlyWriters, IndInv, IndInv', GraphInv, NEW t \in Threads,
           ExpandCandidate(t)
    PROVE  GraphInv'
  <1>1. PICK c \in cands[t] :
            /\ cands' = [cands EXCEPT ![t] = @ \ {c}]
            /\ nbs' = [nbs EXCEPT ![t] = IF lc[t] \in Layers(c) THEN graph[c][lc[t]] ELSE << >>]
    BY DEF ExpandCandidate
  <1>2. pc[t] = "search" /\ Inserting(t)' = Inserting(t)
    BY DEF ExpandCandidate, Looping, Inserting, args
  <1>3. Quiet(t)
    BY <1>1, <1>2 DEF Quiet, ExpandCandidate, args, index, IndInv, TypeOK, CallTypeOK, BeamTypeOK, Held
  <1>4. ASSUME Inserting(t) PROVE Held(t)' \subseteq Joined /\ results'[t] # {}
    <2>1. InsertOK(t)
      BY <1>4 DEF GraphInv
    <2>2. c \in Nodes /\ lc[t] \in Layers(c) => NodeLinks(c, lc[t]) \subseteq Joined
      BY <1>2, <1>4, LinksJoined DEF IndInv, TypeOK, BeamTypeOK
    <2>3. Held(t)' \subseteq Held(t) \cup (IF lc[t] \in Layers(c) THEN NodeLinks(c, lc[t]) ELSE {})
      BY <1>1 DEF ExpandCandidate, IndInv, TypeOK, BeamTypeOK, Held, NodeLinks
    <2> QED
      BY <1>2, <2>1, <2>2, <2>3 DEF ExpandCandidate, InsertOK, IndInv, TypeOK, BeamTypeOK
  <1>5. pc'[t] = "search" /\ \A l : Ahead(t, l)' => Ahead(t, l)
    BY <1>2 DEF ExpandCandidate, Ahead
  <1> QED
    BY <1>3, <1>4, <1>5, OwnQuietStep

\* Cardinalities of sets of slots.
LEMMA NodesFinite ==
    ASSUME IndInv
    PROVE  /\ IsFiniteSet(Nodes) /\ Cardinality(Nodes) = num_vectors /\ num_vectors \in Nat
           /\ \A S \in SUBSET Nodes : /\ IsFiniteSet(S) /\ Cardinality(S) \in Nat
                                      /\ Cardinality(S) <= num_vectors
  <1>1. num_vectors \in Nat /\ 0 \in Int /\ num_vectors - 1 \in Int
    BY DEF IndInv, TypeOK, IndexTypeOK
  <1>2. /\ IsFiniteSet(0 .. num_vectors - 1)
        /\ Cardinality(0 .. num_vectors - 1) =
              IF 0 > num_vectors - 1 THEN 0 ELSE (num_vectors - 1) - 0 + 1
    BY <1>1, FS_Interval, Zenon
  <1>3. IsFiniteSet(Nodes) /\ Cardinality(Nodes) = num_vectors
    BY <1>1, <1>2 DEF Nodes
  <1> QED
    BY <1>1, <1>3, FS_Subset, FS_CardinalityType

\* The beam is at least one wide.
LEMMA EfPositive ==
    ASSUME NEW t
    PROVE  Ef(t) \in Nat /\ Ef(t) >= 1
  BY EfAssumption, MAssumption DEF Ef

\* A scored link, if kept, was held before.
LEMMA EvalNeighbourGraph ==
    ASSUME IndInv, IndInv', GraphInv, NEW t \in Threads, EvalNeighbour(t)
    PROVE  GraphInv'
  <1> DEFINE nb == Head(nbs[t])
             grown == results[t] \cup {nb}
  <1>1. /\ pc[t] = "search" /\ nbs[t] \in Seq(Nodes) /\ nbs[t] # << >>
        /\ Inserting(t)' = Inserting(t)
    BY DEF EvalNeighbour, IndInv, TypeOK, BeamTypeOK, Inserting, args
  <1>2. /\ nb \in Nodes /\ nb \in {nbs[t][i] : i \in DOMAIN nbs[t]}
        /\ {Tail(nbs[t])[i] : i \in DOMAIN Tail(nbs[t])} \subseteq {nbs[t][i] : i \in DOMAIN nbs[t]}
    BY <1>1
  <1>3. /\ nbs' = [nbs EXCEPT ![t] = Tail(@)]
        /\ \/ UNCHANGED <<cands, results>>
           \/ /\ cands' = [cands EXCEPT ![t] = @ \cup {nb}]
              /\ results' = [results EXCEPT ![t] =
                    IF Cardinality(grown) > Ef(t) THEN grown \ {Worst(t, grown)} ELSE grown]
    BY DEF EvalNeighbour
  <1> HIDE DEF nb
  <1>4. results[t] \subseteq Nodes /\ results \in [Threads -> SUBSET Nodes] /\ cands \in [Threads -> SUBSET Nodes]
    BY DEF IndInv, TypeOK, BeamTypeOK
  <1>5. results'[t] \subseteq grown /\ (results[t] # {} => results'[t] # {})
    <2>1. CASE UNCHANGED <<cands, results>>
      BY <2>1
    <2>2. CASE results'[t] = grown
      BY <2>2
    <2>3. CASE Cardinality(grown) > Ef(t) /\ results'[t] = grown \ {Worst(t, grown)}
      <3>1. Cardinality({nb}) = 1 /\ IsFiniteSet({nb})
        BY FS_Singleton
      <3>2. grown # {nb}
        <4> HIDE DEF grown
        <4>1. Cardinality(grown) # 1
          <5> SUFFICES ASSUME Cardinality(grown) = 1 PROVE FALSE
            OBVIOUS
          <5> QED
            BY <2>3, EfPositive
        <4> QED
          BY <3>1, <4>1
      <3>3. PICK x \in grown : x # nb
        BY <3>2
      <3>4. results'[t] # {}
        BY <2>3, <3>3
      <3> QED
        BY <2>3, <3>4
    <2> QED
      BY <1>3, <1>4, <2>1, <2>2, <2>3
  <1>6. /\ \A u \in Threads \ {t} : results'[u] = results[u] /\ cands'[u] = cands[u] /\ nbs'[u] = nbs[u]
        /\ cands'[t] \subseteq cands[t] \cup {nb}
        /\ nbs'[t] = Tail(nbs[t])
    <2>1. nbs \in [Threads -> Seq(Nodes)]
      BY DEF IndInv, TypeOK, BeamTypeOK
    <2> QED
      BY <1>3, <1>4, <2>1
  <1> HIDE DEF grown
  <1>7. Quiet(t)
    BY <1>1, <1>6 DEF Quiet, EvalNeighbour, args, index, Held
  <1>8. ASSUME Inserting(t) PROVE Held(t)' \subseteq Joined /\ results'[t] # {}
    <2>1. Held(t)' \subseteq Held(t)
      BY <1>2, <1>5, <1>6 DEF EvalNeighbour, Held, grown
    <2> QED
      BY <1>1, <1>5, <1>8, <2>1 DEF GraphInv, InsertOK
  <1>9. pc'[t] = "search" /\ \A l : Ahead(t, l)' => Ahead(t, l)
    BY <1>1 DEF EvalNeighbour, Ahead
  <1> QED
    BY <1>7, <1>8, <1>9, OwnQuietStep

\* select_neighbours_ and std::sort keep what is in a list, without repeating it.
LEMMA RankedInjective ==
    ASSUME NEW D, IsFiniteSet(D), NEW sim, NEW p \in Ranked(D, sim)
    PROVE  /\ \A i, j \in DOMAIN p : p[i] = p[j] => i = j
           /\ \A x \in D : \E i \in DOMAIN p : p[i] = x
           /\ D # {} => p # << >> /\ p[1] \in D
  <1>1. p \in Seq(D) /\ Len(p) = Cardinality(D) /\ DOMAIN p = 1 .. Cardinality(D)
    BY RankedType
  <1>2. \A i, j \in DOMAIN p : p[i] = p[j] => i = j
    BY <1>1 DEF Ranked, Bijection, Injection, IsInjective
  <1>3. \A x \in D : \E i \in DOMAIN p : p[i] = x
    BY <1>1 DEF Ranked, Bijection, Surjection
  <1>4. D # {} => p # << >> /\ p[1] \in D
    BY <1>1, <1>3
  <1> QED
    BY <1>2, <1>3, <1>4

\* select_neighbours_ repeats no slot, and takes one if there is one.
LEMMA SelectedApart ==
    ASSUME NEW S, NEW v, NEW s \in Seq(S), NEW m \in Nat, NEW r \in SelectNeighbours(v, s, m),
           \A i, j \in DOMAIN s : s[i] = s[j] => i = j
    PROVE  /\ \A i, j \in DOMAIN r : r[i] = r[j] => i = j
           /\ s # << >> /\ m >= 1 => r # << >>
  <1>1. DOMAIN s = 1 .. Len(s) /\ Len(s) \in Nat
    OBVIOUS
  <1>2. IsFiniteSet(DOMAIN s) /\ Cardinality(DOMAIN s) = Len(s)
    <2>1. /\ IsFiniteSet(1 .. Len(s))
          /\ Cardinality(1 .. Len(s)) = IF 1 > Len(s) THEN 0 ELSE Len(s) - 1 + 1
      <3>1. 1 \in Int /\ Len(s) \in Int
        BY <1>1
      <3> QED
        BY <3>1, FS_Interval, Zenon
    <2> QED
      BY <1>1, <2>1
  <1>3. PICK p \in Ranked(DOMAIN s, [i \in DOMAIN s |-> Sim(v, raw_vectors[s[i]])]) :
            r = [i \in 1 .. MinOf(m, Len(s)) |-> s[p[i]]]
    BY DEF SelectNeighbours
  <1>4. p \in [1 .. Len(s) -> 1 .. Len(s)]
    BY <1>1, <1>2, <1>3, RankedType
  <1>5. \A i, j \in 1 .. Len(s) : p[i] = p[j] => i = j
    BY <1>2, <1>3, <1>4, RankedInjective
  <1>6. /\ MinOf(m, Len(s)) \in Nat /\ MinOf(m, Len(s)) <= Len(s)
        /\ s # << >> /\ m >= 1 => MinOf(m, Len(s)) >= 1
    BY <1>1 DEF MinOf
  <1>7. \A i, j \in 1 .. MinOf(m, Len(s)) : s[p[i]] = s[p[j]] => i = j
    BY <1>1, <1>4, <1>5, <1>6
  <1>8. MinOf(m, Len(s)) >= 1 => 1 \in DOMAIN r
    BY <1>3, <1>6
  <1> QED
    BY <1>3, <1>6, <1>7, <1>8

\* Going down keeps one of the results.
LEMMA DescendGraph ==
    ASSUME IndInv, IndInv', GraphInv, NEW t \in Threads, Descend(t)
    PROVE  GraphInv'
  <1>1. pc[t] = "search"
    BY DEF Descend, LayerDone, Looping
  <1>2. PICK found \in Found(t) : StartLayer(t, Front(t, found), lc[t] - 1)
    BY DEF Descend
  <1>3. Front(t, found) \in Held(t)
    BY <1>1, FrontHeld
  <1>4. todo[t] = << >> /\ lc[t] \in Int
    BY <1>1 DEF IndInv, WalksStayOnLayer, WalkOK, TypeOK, BeamTypeOK
  <1> DEFINE e == Front(t, found)
  <1> HIDE DEF e
  <1>5. StartLayer(t, e, lc[t] - 1) /\ e \in Held(t)
    BY <1>2, <1>3 DEF e
  <1>6. /\ Inserting(t)' = Inserting(t) /\ pc'[t] = "search" /\ lc'[t] = lc[t] - 1
        /\ results'[t] = {e} /\ Held(t)' = {e}
    <2>1. /\ pc' = pc /\ op' = op /\ todo' = todo /\ lc'[t] = lc[t] - 1
          /\ results'[t] = {e} /\ ep'[t] = e /\ cands'[t] = {e} /\ nbs'[t] = << >>
      BY <1>5 DEF Descend, StartLayer, IndInv, TypeOK, BeamTypeOK, args
    <2> QED
      BY <1>1, <1>4, <2>1 DEF Inserting, Held
  <1>7. Quiet(t)
    BY <1>5, <1>6 DEF Quiet, Descend, StartLayer, args, index, IndInv, TypeOK, BeamTypeOK, Held
  <1>8. Inserting(t) => Held(t) \subseteq Joined
    BY <1>1 DEF GraphInv, InsertOK
  <1>9. \A l \in Int : l <= lc[t] - 1 => l <= lc[t]
    BY <1>4
  <1>10. Inserting(t) => InsertOK(t)'
    <2> SUFFICES ASSUME Inserting(t) PROVE InsertOK(t)'
      OBVIOUS
    <2>1. InsertOK(t) /\ slot'[t] = slot[t]
      BY <1>7 DEF GraphInv, Quiet
    <2>2. /\ Nodes' = Nodes /\ Joined' = Joined
          /\ \A n : Layers(n)' = Layers(n) /\ Bottom(n)' = Bottom(n)
          /\ \A n, l : NodeLinks(n, l)' = NodeLinks(n, l)
      BY <1>7, QuietFacts, GraphUntouched DEF Quiet
    <2>3. \A n \in Nodes : \A l \in Layers(n) : l \in Int
      BY DEF IndInv, TypeOK, IndexTypeOK, Layers
    <2>4. \A l \in Int : Ahead(t, l)' => Ahead(t, l)
      BY <1>1, <1>6, <1>9 DEF Ahead
    <2>5. \A n \in Nodes' : \A l \in Layers(n)' : Ahead(t, l)' => slot'[t] \notin NodeLinks(n, l)'
      BY <2>1, <2>2, <2>3, <2>4 DEF InsertOK
    <2>6. Ahead(t, 0)' => Bottom(slot[t])' = {}
      BY <2>1, <2>2, <2>4 DEF InsertOK
    <2> QED
      BY <1>5, <1>6, <1>8, <2>1, <2>2, <2>5, <2>6 DEF InsertOK
  <1> QED
    BY <1>7, <1>10, QuietStep

\* The layer below has not been touched by this insert.
LEMMA NextLayerGraph ==
    ASSUME IndInv, IndInv', GraphInv, NEW t \in Threads, NextLayer(t)
    PROVE  GraphInv'
  <1>1. /\ pc[t] = "link" /\ todo[t] = << >> /\ Inserting(t) /\ InsertOK(t)
        /\ lc[t] \in Int /\ lc[t] >= 0
    BY DEF NextLayer, IndInv, WalksStayOnLayer, WalkOK, Inserting, GraphInv, TypeOK, BeamTypeOK
  <1>2. Inserting(t)' = Inserting(t) /\ slot'[t] = slot[t]
    BY <1>1 DEF NextLayer, Inserting, args, IndInv, TypeOK, CallTypeOK
  <1>3. CASE lc[t] > 0
    <2>1. StartLayer(t, ep[t], lc[t] - 1) /\ pc' = [pc EXCEPT ![t] = "search"]
      BY <1>3 DEF NextLayer
    <2>2. /\ pc'[t] = "search" /\ lc'[t] = lc[t] - 1 /\ results'[t] = {ep[t]}
          /\ Held(t)' = {ep[t]}
      <3>1. /\ pc'[t] = "search" /\ todo' = todo /\ lc'[t] = lc[t] - 1
            /\ results'[t] = {ep[t]} /\ ep'[t] = ep[t] /\ cands'[t] = {ep[t]} /\ nbs'[t] = << >>
        BY <2>1 DEF NextLayer, StartLayer, IndInv, TypeOK, CallTypeOK, BeamTypeOK
      <3> QED
        BY <1>1, <3>1 DEF Held
    <2>3. Quiet(t)
      BY <1>2, <2>1 DEF Quiet, NextLayer, StartLayer, args, index, IndInv, TypeOK, CallTypeOK, BeamTypeOK, Held
    <2>4. ep[t] \in Joined
      BY <1>1 DEF InsertOK, Held
    <2>5. /\ Nodes' = Nodes /\ Joined' = Joined
          /\ \A n : Layers(n)' = Layers(n) /\ Bottom(n)' = Bottom(n)
          /\ \A n, l : NodeLinks(n, l)' = NodeLinks(n, l)
      BY <2>3, QuietFacts, GraphUntouched DEF Quiet
    <2>6. \A n \in Nodes : \A l \in Layers(n) : l \in Int
      BY DEF IndInv, TypeOK, IndexTypeOK, Layers
    <2>7. \A l \in Int : Ahead(t, l)' => Ahead(t, l)
      BY <1>1, <2>2 DEF Ahead
    <2>8. \A n \in Nodes' : \A l \in Layers(n)' : Ahead(t, l)' => slot'[t] \notin NodeLinks(n, l)'
      BY <1>1, <1>2, <2>5, <2>6, <2>7 DEF InsertOK
    <2>9. Ahead(t, 0)' => Bottom(slot[t])' = {}
      BY <1>1, <1>2, <2>5, <2>7 DEF InsertOK
    <2>10. InsertOK(t)'
      BY <1>2, <2>2, <2>4, <2>5, <2>8, <2>9 DEF InsertOK
    <2> QED
      BY <2>3, <2>10, QuietStep
  <1>4. CASE ~(lc[t] > 0)
    <2>1. UNCHANGED beam /\ pc' = [pc EXCEPT ![t] = "publish"]
      BY <1>4 DEF NextLayer
    <2>2. Quiet(t)
      BY <1>2, <2>1 DEF Quiet, NextLayer, args, index, beam, IndInv, TypeOK, CallTypeOK, BeamTypeOK, Held
    <2>3. pc'[t] = "publish"
      BY <2>1 DEF IndInv, TypeOK, CallTypeOK
    <2>4. slot[t] \in Joined
      BY <1>1, <1>4 DEF InsertOK
    <2> QED
      BY <2>2, <2>3, <2>4, OwnQuietStep DEF Ahead
  <1> QED
    BY <1>3, <1>4

\* The new entry point has joined, and its insert is over.
LEMMA InsertPublishGraph ==
    ASSUME IndInv, IndInv', GraphInv, NEW t \in Threads, InsertPublish(t)
    PROVE  GraphInv'
  <1>1. pc[t] = "publish" /\ Inserting(t) /\ InsertOK(t) /\ ~Inserting(t)'
    BY DEF InsertPublish, Finish, IndInv, TypeOK, CallTypeOK, WalksStayOnLayer, WalkOK,
           Inserting, GraphInv
  <1>2. \A u \in Threads \ {t} :
           /\ pc'[u] = pc[u] /\ op'[u] = op[u] /\ slot'[u] = slot[u] /\ lc'[u] = lc[u]
           /\ todo'[u] = todo[u] /\ results'[u] = results[u] /\ Held(u)' = Held(u)
           /\ Inserting(u)' = Inserting(u)
    BY DEF InsertPublish, Finish, IndInv, TypeOK, CallTypeOK, BeamTypeOK, Held, Inserting
  <1>3. UNCHANGED <<num_vectors, graph>>
    BY DEF InsertPublish
  <1>4. /\ Nodes' = Nodes /\ Grows /\ NoRepeats'
        /\ \A n : Layers(n)' = Layers(n) /\ Bottom(n)' = Bottom(n)
        /\ \A n, l : NodeLinks(n, l)' = NodeLinks(n, l)
    BY <1>3, GraphUntouched DEF GraphInv
  <1>5. InFlight' \subseteq InFlight /\ InFlight \subseteq InFlight' \cup {slot[t]} /\ slot[t] \notin InFlight'
    <2>1. \A u \in Threads : Inserting(u)' => u # t /\ Inserting(u) /\ slot'[u] = slot[u]
      BY <1>1, <1>2
    <2>2. \A u \in Threads : Inserting(u) => u = t \/ (Inserting(u)' /\ slot'[u] = slot[u])
      BY <1>2
    <2>3. \A u \in Threads : Inserting(u)' => slot'[u] # slot[t]
      BY <1>1, <2>1 DEF GraphInv, SlotsApart
    <2> QED
      BY <2>1, <2>2, <2>3 DEF InFlight
  <1>6. Joined' = Joined
    <2>1. Joined \subseteq Joined'
      BY <1>4, <1>5 DEF Joined
    <2>2. slot[t] \in Joined
      BY <1>1 DEF InsertOK
    <2>3. ASSUME NEW n \in Joined', n # slot[t] PROVE n \in Joined
      BY <1>4, <1>5, <2>3 DEF Joined
    <2> QED
      BY <2>1, <2>2, <2>3
  <1>7. StronglyLinked'
    BY <1>4, <1>6, StronglyLinkedKept DEF GraphInv
  <1>8. SlotsApart'
    <2>1. num_vectors' > 0 => entry_point' \notin InFlight'
      BY <1>3, <1>5 DEF InsertPublish, GraphInv, SlotsApart
    <2>2. ASSUME NEW u \in Threads, NEW w \in Threads, Inserting(u)', Inserting(w)', slot'[u] = slot'[w]
          PROVE  u = w
      BY <1>1, <1>2, <2>2 DEF GraphInv, SlotsApart
    <2> QED
      BY <2>1, <2>2 DEF SlotsApart
  <1>9. ASSUME NEW u \in Threads, Inserting(u)' PROVE InsertOK(u)'
    <2>1. u # t /\ Inserting(u) /\ InsertOK(u)
      BY <1>1, <1>2, <1>9 DEF GraphInv
    <2> QED
      BY <1>2, <1>4, <1>6, <2>1, InsertKept
  <1> QED
    BY <1>4, <1>7, <1>8, <1>9 DEF GraphInv

\* delete_vector and the critical sections of search write no list.
LEMMA OtherStepsGraph ==
    ASSUME IndInv, IndInv', GraphInv, NEW t \in Threads,
           \/ \E id \in Ids : DeleteVector(t, id)
           \/ \E v \in Vec, kk \in Ks : SearchLoad(t, v, kk)
           \/ SearchStep(t)
    PROVE  GraphInv'
  <1>1. ~Inserting(t) /\ ~Inserting(t)'
    BY DEF DeleteVector, SearchLoad, SearchStep, SearchEntry, SearchCollect, SearchReturn, Finish,
           Inserting, Idle, IndInv, TypeOK, CallTypeOK, args, WalksStayOnLayer, WalkOK
  <1>2. UNCHANGED <<num_vectors, graph, entry_point>>
    BY DEF DeleteVector, SearchLoad, SearchStep, SearchEntry, SearchCollect, SearchReturn, index
  <1>3. ASSUME NEW u \in Threads, u # t
        PROVE  /\ pc'[u] = pc[u] /\ op'[u] = op[u] /\ slot'[u] = slot[u] /\ lc'[u] = lc[u]
               /\ todo'[u] = todo[u] /\ results'[u] = results[u] /\ Held(u)' = Held(u)
    <2>1. /\ pc'[u] = pc[u] /\ op'[u] = op[u] /\ slot'[u] = slot[u] /\ lc'[u] = lc[u]
          /\ todo'[u] = todo[u] /\ results'[u] = results[u]
          /\ ep'[u] = ep[u] /\ cands'[u] = cands[u] /\ nbs'[u] = nbs[u]
      <3>1. CASE \E id \in Ids : DeleteVector(t, id)
        BY <3>1 DEF DeleteVector, args, beam
      <3>5. CASE SearchCollect(t)
        <4>1. pc' = [pc EXCEPT ![t] = "return"] /\ UNCHANGED <<args, todo, beam>>
          BY <3>5 DEF SearchCollect
        <4> QED
          BY <1>3, <4>1 DEF args, beam, IndInv, TypeOK, CallTypeOK
      <3>2. CASE \E v \in Vec, kk \in Ks : SearchLoad(t, v, kk)
        BY <1>3, <3>2 DEF SearchLoad, beam, IndInv, TypeOK, CallTypeOK
      <3>3. CASE SearchReturn(t)
        BY <1>3, <3>3 DEF SearchReturn, Finish, IndInv, TypeOK, CallTypeOK, BeamTypeOK
      <3>4. CASE SearchEntry(t)
        <4>4. pc'[u] = pc[u] /\ UNCHANGED <<args, todo>>
          BY <1>3, <3>4 DEF SearchEntry, IndInv, TypeOK, CallTypeOK
        <4>1. CASE \E e \in Int : StartLayer(t, e, max_layer)
          BY <1>3, <4>1, <4>4 DEF StartLayer, args, IndInv, TypeOK, BeamTypeOK
        <4>2. CASE UNCHANGED beam
          BY <4>2, <4>4 DEF args, beam
        <4>3. entry_point \in Int
          BY DEF IndInv, TypeOK, IndexTypeOK
        <4> QED
          BY <3>4, <4>1, <4>2, <4>3 DEF SearchEntry
      <3> QED
        BY <3>1, <3>2, <3>3, <3>4, <3>5 DEF SearchStep
    <2> QED
      BY <2>1 DEF Held
  <1>4. Quiet(t)
    BY <1>1, <1>2, <1>3 DEF Quiet, Inserting
  <1> QED
    BY <1>1, <1>4, OwnQuietStep

\* Nothing changes.
LEMMA StutterGraph ==
    ASSUME GraphInv, UNCHANGED vars
    PROVE  GraphInv'
  <1> USE DEF vars, index, args, beam
  <1>1. /\ Nodes' = Nodes /\ NoRepeats'
        /\ \A n : Layers(n)' = Layers(n) /\ Bottom(n)' = Bottom(n)
        /\ \A n, l : NodeLinks(n, l)' = NodeLinks(n, l)
    BY GraphUntouched DEF GraphInv
  <1>2. /\ \A u : Inserting(u)' = Inserting(u) /\ Held(u)' = Held(u)
        /\ \A u, l : Ahead(u, l)' = Ahead(u, l)
    BY DEF Inserting, Held, Ahead
  <1>3. InFlight' = InFlight
    BY <1>2 DEF InFlight
  <1>4. Joined' = Joined
    BY <1>1, <1>3 DEF Joined
  <1>5. \A u \in Threads : Inserting(u) => InsertOK(u)'
    BY <1>1, <1>2, <1>4 DEF InsertOK, GraphInv
  <1>6. StronglyLinked'
    BY <1>1, <1>4 DEF GraphInv, StronglyLinked, Closed
  <1>7. SlotsApart'
    BY <1>2, <1>3 DEF GraphInv, SlotsApart
  <1> QED
    BY <1>1, <1>2, <1>5, <1>6, <1>7 DEF GraphInv

\* A new slot has no links, and nobody links to it.
LEMMA AllocateLinks ==
    ASSUME IndInv, NEW t \in Threads, NEW id \in Ids, NEW v \in Vec, NEW lv \in 0 .. MaxLevel,
           InsertAllocate(t, id, v, lv), NEW new, new = num_vectors
    PROVE  /\ num_vectors \in Nat /\ Nodes' = Nodes \cup {num_vectors} /\ num_vectors \notin Nodes
           /\ Grows
           /\ \A n \in Nodes : graph'[n] = graph[n] /\ Layers(n)' = Layers(n) /\ Bottom(n)' = Bottom(n)
           /\ \A n \in Nodes : \A l : NodeLinks(n, l)' = NodeLinks(n, l)
           /\ \A n \in Nodes : \A l \in Layers(n) : num_vectors \notin NodeLinks(n, l)
           /\ \A l \in Layers(new)' : graph'[new][l] = << >> /\ NodeLinks(new, l)' = {}
           /\ graph'[new][0] = << >> /\ Bottom(new)' = {}
  <1>1. /\ num_vectors \in Nat /\ num_vectors' = num_vectors + 1
        /\ Nodes' = Nodes \cup {num_vectors} /\ num_vectors \notin Nodes /\ Nodes' = 0 .. num_vectors
    BY DEF InsertAllocate, IndInv, TypeOK, IndexTypeOK, Nodes
  <1>2. /\ \A n \in Nodes : graph'[n] = graph[n]
        /\ graph'[new] = [l \in 0 .. lv |-> << >>]
    BY <1>1 DEF InsertAllocate, PushBack
  <1>3. \A n \in Nodes : \A l : NodeLinks(n, l)' = NodeLinks(n, l)
    BY <1>2 DEF NodeLinks
  <1>4. \A n \in Nodes : Layers(n)' = Layers(n) /\ Bottom(n)' = Bottom(n)
    BY <1>2, <1>3 DEF Layers, Bottom
  <1>5. ASSUME NEW n \in Nodes, NEW l \in Layers(n) PROVE num_vectors \notin NodeLinks(n, l)
    <2>1. graph[n][l] \in Seq(Nodes)
      BY DEF IndInv, TypeOK, IndexTypeOK, Layers
    <2> QED
      BY <1>1, <2>1 DEF NodeLinks
  <1>6. \A l \in Layers(new)' : graph'[new][l] = << >> /\ NodeLinks(new, l)' = {}
    <2> SUFFICES ASSUME NEW l \in 0 .. lv
                 PROVE  graph'[new][l] = << >> /\ {graph'[new][l][i] : i \in DOMAIN graph'[new][l]} = {}
      BY <1>2 DEF Layers, NodeLinks
    <2>1. graph'[new][l] = << >>
      BY <1>2
    <2> QED
      BY <2>1
  <1>7. 0 \in 0 .. lv
    BY BoundAssumption
  <1>8. 0 \in DOMAIN graph'[new]
    BY <1>2, <1>7
  <1>9. graph'[new][0] = << >> /\ {graph'[new][0][i] : i \in DOMAIN graph'[new][0]} = {}
    <2>1. graph'[new][0] = << >>
      BY <1>2, <1>7
    <2> QED
      BY <2>1
  <1> QED
    BY <1>1, <1>2, <1>3, <1>4, <1>5, <1>6, <1>9 DEF Grows, Bottom, NodeLinks

\* A new slot has not joined, unless it is the first and alone.
LEMMA InsertAllocateGraph ==
    ASSUME IndInv, IndInv', GraphInv, NEW t \in Threads, NEW id \in Ids, NEW v \in Vec,
           NEW lv \in 0 .. MaxLevel, InsertAllocate(t, id, v, lv)
    PROVE  GraphInv' /\ Grows /\ Joined \subseteq Joined'
  <1> SUFFICES ASSUME NEW new, new = num_vectors
               PROVE  GraphInv' /\ Grows /\ Joined \subseteq Joined'
    OBVIOUS
  <1>1. /\ num_vectors \in Nat /\ Nodes' = Nodes \cup {num_vectors} /\ num_vectors \notin Nodes
        /\ Grows
        /\ \A n \in Nodes : graph'[n] = graph[n] /\ Layers(n)' = Layers(n) /\ Bottom(n)' = Bottom(n)
        /\ \A n \in Nodes : \A l : NodeLinks(n, l)' = NodeLinks(n, l)
        /\ \A n \in Nodes : \A l \in Layers(n) : num_vectors \notin NodeLinks(n, l)
        /\ \A l \in Layers(new)' : graph'[new][l] = << >> /\ NodeLinks(new, l)' = {}
        /\ graph'[new][0] = << >> /\ Bottom(new)' = {}
    BY AllocateLinks
  <1>2. NoRepeats'
    <2>1. \A n \in Nodes : n \notin Bottom(n)' /\ graph'[n][0] = graph[n][0]
      BY <1>1 DEF GraphInv, NoRepeats
    <2>2. DOMAIN graph'[new][0] = {}
      BY <1>1
    <2> QED
      BY <1>1, <2>1, <2>2 DEF GraphInv, NoRepeats
  <1>3. \A u \in Threads : Inserting(u) => slot[u] \in Nodes /\ num_vectors > 0
    BY DEF IndInv, WalksStayOnLayer, WalkOK, Inserting, TypeOK, CallTypeOK
  <1>4. CASE num_vectors = 0
    <2>1. UNCHANGED <<pc, op, slot>> /\ Nodes = {} /\ Nodes' = {0}
      BY <1>1, <1>4 DEF InsertAllocate, args, Nodes
    <2>2. \A u \in Threads : ~Inserting(u)'
      BY <1>3, <1>4, <2>1 DEF Inserting
    <2>3. InFlight' = {}
      BY <2>2 DEF InFlight
    <2>4. StronglyLinked'
      BY <2>1 DEF StronglyLinked, Joined
    <2> QED
      BY <1>1, <1>2, <2>1, <2>2, <2>3, <2>4 DEF GraphInv, SlotsApart, Joined
  <1>5. CASE num_vectors > 0
    <2>1. /\ pc'[t] = "entry" /\ op'[t] = "insert" /\ slot'[t] = num_vectors
          /\ UNCHANGED <<entry_point, todo, lc, results>> /\ ~Inserting(t)
      BY <1>5 DEF InsertAllocate, IndInv, TypeOK, CallTypeOK, Inserting, Idle, beam
    <2>2. \A u \in Threads \ {t} :
             /\ pc'[u] = pc[u] /\ op'[u] = op[u] /\ slot'[u] = slot[u] /\ Held(u)' = Held(u)
             /\ Inserting(u)' = Inserting(u)
      BY DEF InsertAllocate, IndInv, TypeOK, CallTypeOK, Inserting, args, beam, Held
    <2>3. InFlight' = InFlight \cup {num_vectors}
      <3>1. Inserting(t)'
        BY <2>1 DEF Inserting
      <3> QED
        BY <2>1, <2>2, <3>1 DEF InFlight
    <2>4. Joined' = Joined
      <3>1. \A n \in Nodes : 0 \in Layers(n)
        BY BottomType
      <3>2. new \notin Joined'
        BY <1>1, <2>3, <3>1 DEF Joined, Bottom
      <3>3. \A n \in Nodes : n \in InFlight' <=> n \in InFlight
        BY <1>1, <2>3
      <3> QED
        BY <1>1, <3>2, <3>3 DEF Joined
    <2>5. StronglyLinked'
      BY <1>1, <2>4, StronglyLinkedKept DEF GraphInv
    <2>6. SlotsApart'
      <3>1. entry_point' \notin InFlight'
        BY <1>1, <1>5, <2>1, <2>3 DEF GraphInv, SlotsApart, IndInv, EntryPointOnTop
      <3>2. ASSUME NEW u \in Threads, NEW w \in Threads, Inserting(u)', Inserting(w)', slot'[u] = slot'[w]
            PROVE  u = w
        BY <1>1, <1>3, <2>1, <2>2, <3>2 DEF GraphInv, SlotsApart
      <3> QED
        BY <3>1, <3>2 DEF SlotsApart
    <2>7. ASSUME NEW u \in Threads, u # t, Inserting(u)' PROVE InsertOK(u)'
      <3>1. Inserting(u) /\ InsertOK(u) /\ slot[u] \in Nodes /\ slot'[u] = slot[u]
        BY <1>3, <2>2, <2>7 DEF GraphInv
      <3>2. /\ Bottom(slot[u])' = Bottom(slot[u])
            /\ \A n \in Nodes' : \A l \in Layers(n)' : slot[u] \in NodeLinks(n, l)' =>
                   n \in Nodes /\ l \in Layers(n) /\ slot[u] \in NodeLinks(n, l)
        BY <1>1, <3>1
      <3>3. \A n \in Joined : slot[u] \in Bottom(n)' => slot[u] \in Bottom(n)
        BY <1>1 DEF Joined
      <3>4. /\ pc'[u] = pc[u] /\ lc'[u] = lc[u] /\ todo'[u] = todo[u]
            /\ results'[u] = results[u] /\ Held(u)' \subseteq Held(u) /\ Joined \subseteq Joined'
        BY <2>1, <2>2, <2>4, <2>7
      <3> QED
        BY <1>1, <3>1, <3>2, <3>3, <3>4, InsertKept
    <2>8. InsertOK(t)'
      BY <1>1, <2>1 DEF InsertOK
    <2> QED
      BY <1>1, <1>2, <2>4, <2>5, <2>6, <2>7, <2>8 DEF GraphInv
  <1> QED
    BY <1>1, <1>4, <1>5

\* A list without repetitions is no longer than the set it draws from.
LEMMA ShortWithoutRepeats ==
    ASSUME NEW S, IsFiniteSet(S), NEW s \in Seq(S), \A i, j \in DOMAIN s : s[i] = s[j] => i = j
    PROVE  Len(s) <= Cardinality(S)
  <1>1. s \in [1 .. Len(s) -> S] /\ DOMAIN s = 1 .. Len(s) /\ Len(s) \in Nat
    OBVIOUS
  <1>2. s \in Injection(1 .. Len(s), S)
    BY <1>1 DEF Injection, IsInjective
  <1>3. Cardinality(1 .. Len(s)) <= Cardinality(S)
    BY <1>2, FS_Injection
  <1>4. Cardinality(1 .. Len(s)) = IF 1 > Len(s) THEN 0 ELSE Len(s) - 1 + 1
    <2>1. 1 \in Int /\ Len(s) \in Int
      BY <1>1
    <2> QED
      BY <2>1, FS_Interval, Zenon
  <1> QED
    BY <1>1, <1>3, <1>4

\* A step makes s the list of slot n on layer l.
Writes(n, l, s) ==
    /\ graph' = [graph EXCEPT ![n] = [graph[n] EXCEPT ![l] = s]]
    /\ UNCHANGED num_vectors

\* What a step that writes list l of slot n leaves as it is.
LEMMA OneListWritten ==
    ASSUME IndInv, NEW n \in Nodes, NEW l \in Layers(n), NEW s, Writes(n, l, s)
    PROVE  /\ Nodes' = Nodes
           /\ \A m \in Nodes : Layers(m)' = Layers(m)
           /\ \A m \in Nodes : \A j \in Layers(m) : (m # n \/ j # l) =>
                 graph'[m][j] = graph[m][j] /\ NodeLinks(m, j)' = NodeLinks(m, j)
           /\ graph'[n][l] = s /\ NodeLinks(n, l)' = {s[i] : i \in DOMAIN s}
           /\ \A m \in Nodes : 0 \in Layers(m) /\ ((m # n \/ l # 0) => Bottom(m)' = Bottom(m) /\ graph'[m][0] = graph[m][0])
           /\ l = 0 => Bottom(n)' = {s[i] : i \in DOMAIN s}
  <1>1. DOMAIN graph = Nodes /\ Nodes' = Nodes
    BY DEF Writes, IndInv, TypeOK, IndexTypeOK, Nodes
  <1>2. /\ graph'[n] = [graph[n] EXCEPT ![l] = s]
        /\ \A m \in Nodes \ {n} : graph'[m] = graph[m]
    BY <1>1 DEF Writes
  <1>3. \A m \in Nodes : Layers(m)' = Layers(m)
    BY <1>2 DEF Layers
  <1>4. graph'[n][l] = s
    BY <1>2 DEF Layers
  <1>5. \A m \in Nodes : \A j \in Layers(m) : (m # n \/ j # l) => graph'[m][j] = graph[m][j]
    BY <1>2 DEF Layers
  <1>6. NodeLinks(n, l)' = {s[i] : i \in DOMAIN s}
    BY <1>4 DEF NodeLinks
  <1>7. \A m \in Nodes : \A j \in Layers(m) : (m # n \/ j # l) => NodeLinks(m, j)' = NodeLinks(m, j)
    BY <1>5 DEF NodeLinks
  <1>8. \A m \in Nodes : 0 \in Layers(m)
    BY BottomType
  <1>9. \A m \in Nodes : (m # n \/ l # 0) => Bottom(m)' = Bottom(m) /\ graph'[m][0] = graph[m][0]
    BY <1>5, <1>7, <1>8 DEF Bottom
  <1>10. l = 0 => Bottom(n)' = {s[i] : i \in DOMAIN s}
    BY <1>6 DEF Bottom
  <1> QED
    BY <1>1, <1>3, <1>4, <1>5, <1>6, <1>7, <1>8, <1>9, <1>10

\* insert's own list replaces an empty one on layer 0 (hnsw.cpp:75).
LEMMA LinkOwnGraph ==
    ASSUME IndInv, IndInv', GraphInv, NEW t \in Threads, LinkOwn(t)
    PROVE  GraphInv' /\ Grows /\ Joined \subseteq Joined'
  <1>1. /\ pc[t] = "search" /\ Inserting(t) /\ lc[t] <= level[t] /\ InsertOK(t)
        /\ pc' = [pc EXCEPT ![t] = "link"]
    BY DEF LinkOwn, LayerDone, Looping, Inserting, GraphInv
  <1>a. PICK found \in Found(t) : \E chosen \in SelectNeighbours(query[t], found, M) :
            /\ graph' = [graph EXCEPT ![slot[t]][lc[t]] = chosen]
            /\ todo' = [todo EXCEPT ![t] = chosen]
            /\ ep' = [ep EXCEPT ![t] = Front(t, found)]
    BY DEF LinkOwn
  <1>2. PICK chosen \in SelectNeighbours(query[t], found, M) :
            /\ graph' = [graph EXCEPT ![slot[t]][lc[t]] = chosen]
            /\ todo' = [todo EXCEPT ![t] = chosen]
            /\ ep' = [ep EXCEPT ![t] = Front(t, found)]
    BY <1>a
  <1>3. results[t] \subseteq Nodes /\ results[t] # {} /\ results[t] \subseteq Joined
    BY <1>1 DEF InsertOK, Held, IndInv, TypeOK, BeamTypeOK
  <1>4. /\ chosen \in Seq(results[t]) /\ Front(t, found) \in Held(t)
        /\ \A i, j \in DOMAIN chosen : chosen[i] = chosen[j] => i = j
        /\ chosen # << >>
    <2>1. IsFiniteSet(results[t])
      BY <1>3, NodesFinite
    <2>2. found \in Seq(results[t]) /\ Front(t, found) \in Held(t)
      BY <1>1, FrontHeld
    <2>3. found # << >> /\ \A i, j \in DOMAIN found : found[i] = found[j] => i = j
      BY <1>3, <2>1, RankedInjective DEF Found, Ranking
    <2> QED
      <3>1. M \in Nat /\ M >= 1
        BY MAssumption
      <3>2. chosen \in Seq(results[t])
        BY <2>2, <3>1, SelectNeighboursType
      <3>3. chosen # << >>
        BY <2>2, <2>3, <3>1, SelectedApart
      <3>4. \A i, j \in DOMAIN chosen : chosen[i] = chosen[j] => i = j
        BY <2>2, <2>3, <3>1, SelectedApart
      <3> QED
        BY <2>2, <3>2, <3>3, <3>4
  <1> SUFFICES ASSUME NEW s, s = slot[t], NEW l, l = lc[t]
               PROVE  GraphInv' /\ Grows /\ Joined \subseteq Joined'
    OBVIOUS
  <1> DEFINE R == {chosen[i] : i \in DOMAIN chosen}
  <1>5. s \in Nodes /\ l \in Layers(s) /\ l \in Nat
    BY <1>1, BoundAssumption
    DEF IndInv, TypeOK, CallTypeOK, BeamTypeOK, WalksStayOnLayer, WalkOK
  <1>6. graph' = [graph EXCEPT ![s] = [graph[s] EXCEPT ![l] = chosen]]
    BY <1>2
  <1>7. /\ pc'[t] = "link" /\ slot' = slot /\ lc' = lc /\ op' = op /\ todo'[t] = chosen
        /\ Held(t)' \subseteq Held(t)
        /\ num_vectors' = num_vectors /\ entry_point' = entry_point
    <2>1. /\ pc'[t] = "link" /\ slot' = slot /\ lc' = lc /\ op' = op /\ todo'[t] = chosen
          /\ num_vectors' = num_vectors /\ entry_point' = entry_point
          /\ ep'[t] = Front(t, found) /\ cands'[t] = {} /\ results'[t] = {} /\ nbs' = nbs
      BY <1>1, <1>2 DEF LinkOwn, args, IndInv, TypeOK, CallTypeOK, BeamTypeOK
    <2>2. R \subseteq Held(t)
      BY <1>4 DEF Held
    <2> QED
      BY <1>4, <2>1, <2>2 DEF Held
  <1>8. \A u \in Threads \ {t} :
           /\ pc'[u] = pc[u] /\ todo'[u] = todo[u] /\ results'[u] = results[u] /\ Held(u)' = Held(u)
    <2> SUFFICES ASSUME NEW u \in Threads \ {t}
                 PROVE  /\ pc'[u] = pc[u] /\ todo'[u] = todo[u] /\ results'[u] = results[u]
                        /\ Held(u)' = Held(u)
      OBVIOUS
    <2>1. /\ pc'[u] = pc[u] /\ todo'[u] = todo[u] /\ results'[u] = results[u]
          /\ ep'[u] = ep[u] /\ cands'[u] = cands[u] /\ nbs'[u] = nbs[u]
      BY <1>1, <1>2 DEF LinkOwn, IndInv, TypeOK, CallTypeOK, BeamTypeOK
    <2> QED
      BY <2>1 DEF Held
  <1>9. \A u \in Threads : Inserting(u)' = Inserting(u)
    BY <1>1, <1>7, <1>8 DEF Inserting
  <1>10. InFlight' = InFlight
    BY <1>7, <1>9 DEF InFlight
  <1>11. /\ Nodes' = Nodes
         /\ \A m \in Nodes : Layers(m)' = Layers(m)
         /\ \A m \in Nodes : \A j \in Layers(m) : (m # s \/ j # l) =>
               graph'[m][j] = graph[m][j] /\ NodeLinks(m, j)' = NodeLinks(m, j)
         /\ graph'[s][l] = chosen /\ NodeLinks(s, l)' = R
         /\ \A m \in Nodes : 0 \in Layers(m) /\ ((m # s \/ l # 0) => Bottom(m)' = Bottom(m) /\ graph'[m][0] = graph[m][0])
         /\ l = 0 => Bottom(s)' = R
    <2>1. Writes(s, l, chosen)
      BY <1>6, <1>7 DEF Writes
    <2> QED
      BY <1>5, <2>1, OneListWritten
  <1>12. R \subseteq Joined /\ R # {} /\ R \subseteq Nodes
    BY <1>3, <1>4
  <1>13. /\ \A n \in Nodes : \A j \in Layers(n) : j <= l => s \notin NodeLinks(n, j)
         /\ Bottom(s) = {} /\ s \notin Joined
    <2>1. Ahead(t, 0) /\ \A j : j <= l => Ahead(t, j)
      BY <1>1, <1>5 DEF Ahead
    <2> QED
      BY <1>1, <2>1, AheadNotJoined DEF InsertOK
  <1> HIDE DEF R
  <1>14. Grows
    BY <1>11, <1>13 DEF Grows
  <1>15. Joined' = Joined
    <2>1. \A n \in Joined' : n \in Joined
      BY <1>10, <1>11, <1>12 DEF Joined
    <2> QED
      BY <1>10, <1>14, <2>1, JoinedGrows
  <1>16. StronglyLinked'
    BY <1>14, <1>15, StronglyLinkedKept DEF GraphInv
  <1>17. NoRepeats'
    <2> SUFFICES ASSUME NEW n \in Nodes
                 PROVE  /\ n \notin Bottom(n)'
                        /\ \A i, j \in DOMAIN graph'[n][0] : graph'[n][0][i] = graph'[n][0][j] => i = j
      BY <1>11 DEF NoRepeats
    <2>1. CASE n = s /\ l = 0
      BY <1>4, <1>11, <1>12, <1>13, <2>1
    <2>2. CASE n # s \/ l # 0
      BY <1>11, <2>2 DEF GraphInv, NoRepeats
    <2> QED
      BY <2>1, <2>2
  <1>18. SlotsApart'
    BY <1>7, <1>9, <1>10 DEF GraphInv, SlotsApart
  <1>19. ASSUME NEW u \in Threads, u # t, Inserting(u) PROVE InsertOK(u)'
    <2>1. InsertOK(u) /\ slot[u] # s /\ slot[u] \in Nodes
      BY <1>1, <1>19 DEF GraphInv, SlotsApart, IndInv, WalksStayOnLayer, WalkOK
    <2>2. ASSUME slot[u] \notin Joined, NEW n \in Nodes', NEW j \in Layers(n)', slot[u] \in NodeLinks(n, j)'
          PROVE  n \in Nodes /\ j \in Layers(n) /\ slot[u] \in NodeLinks(n, j)
      BY <1>11, <1>12, <2>2
    <2>3. \A n \in Joined : slot[u] \in Bottom(n)' => slot[u] \in Bottom(n)
      BY <1>11, <1>13 DEF Joined
    <2>4. Bottom(slot[u])' = Bottom(slot[u])
      <3>1. slot'[u] = slot[u]
        BY <1>7
      <3> QED
        BY <1>11, <2>1, <3>1
    <2>5. /\ pc'[u] = pc[u] /\ slot'[u] = slot[u] /\ lc'[u] = lc[u] /\ todo'[u] = todo[u]
          /\ results'[u] = results[u] /\ Held(u)' \subseteq Held(u) /\ Joined \subseteq Joined'
      BY <1>7, <1>8, <1>15, <1>19
    <2> QED
      BY <1>14, <1>19, <2>1, <2>2, <2>3, <2>4, <2>5, InsertKept
  <1>20. InsertOK(t)'
    <2>1. /\ pc'[t] = "link" /\ slot'[t] = s /\ lc'[t] = l /\ todo'[t] = chosen
          /\ Held(t)' \subseteq Joined'
      BY <1>1, <1>7, <1>15 DEF InsertOK
    <2>2. \A j : Ahead(t, j)' <=> j < l
      BY <2>1 DEF Ahead
    <2>3. ASSUME NEW n \in Nodes', NEW j \in Layers(n)', j < l PROVE s \notin NodeLinks(n, j)'
      <3>1. j \in Layers(n) /\ j \in Int /\ j <= l /\ j # l
        <4>1. j \in Layers(n) /\ n \in Nodes
          BY <1>11
        <4>2. j \in Int
          BY <4>1 DEF IndInv, TypeOK, IndexTypeOK, Layers
        <4> QED
          BY <1>5, <2>3, <4>1, <4>2
      <3> QED
        BY <1>11, <1>13, <3>1
    <2>4. 0 < l => Bottom(s)' = {}
      BY <1>5, <1>11, <1>13
    <2>5. ASSUME l = 0, NEW i \in DOMAIN chosen
          PROVE  s \notin Bottom(chosen[i])' /\ s # chosen[i] /\ chosen[i] \in Bottom(s)'
      <3>1. chosen[i] \in R
        BY DEF R
      <3>2. chosen[i] \in Joined /\ chosen[i] # s /\ chosen[i] \in Nodes
        BY <1>12, <1>13, <3>1
      <3>3. Bottom(chosen[i])' = Bottom(chosen[i])
        <4> DEFINE m == chosen[i]
        <4> HIDE DEF m
        <4>1. Bottom(m)' = Bottom(m)
          BY <1>11, <3>2 DEF m
        <4> QED
          BY <4>1 DEF m
      <3>4. s \notin Bottom(chosen[i])
        BY <1>11, <1>13, <2>5, <3>2 DEF Bottom
      <3> QED
        BY <1>11, <2>5, <3>1, <3>2, <3>3, <3>4
    <2> QED
      BY <1>4, <2>1, <2>2, <2>3, <2>4, <2>5 DEF InsertOK
  <1> QED
    BY <1>9, <1>14, <1>15, <1>16, <1>17, <1>18, <1>19, <1>20 DEF GraphInv

\* A step makes kept the list of slot n on layer l: at most one slot, s, is
\* new in it, and on layer 0 it is appended and no slot removed.
AddsLink(n, l, s, kept) ==
    /\ Writes(n, l, kept)
    /\ {kept[i] : i \in DOMAIN kept} \subseteq NodeLinks(n, l) \cup {s}
    /\ l = 0 => kept = Append(graph[n][0], s)

\* A back-link adds one slot to one list, and on layer 0 of a roomy index it
\* removes none.
LEMMA LinkBackWrites ==
    ASSUME Roomy, IndInv, GraphInv, NEW t \in Threads, LinkBack(t),
           NEW nb, nb = Head(todo[t]), NEW l, l = lc[t], NEW s, s = slot[t]
    PROVE  /\ pc[t] = "link" /\ Inserting(t) /\ InsertOK(t) /\ todo[t] \in Seq(Nodes) /\ todo[t] # << >>
           /\ nb \in Nodes /\ nb \in Joined /\ l \in Layers(nb) /\ s \in Nodes
           /\ \E kept : AddsLink(nb, l, s, kept)
  <1>1. /\ pc[t] = "link" /\ Inserting(t) /\ InsertOK(t) /\ todo[t] \in Seq(Nodes) /\ todo[t] # << >>
        /\ s \in Nodes
    BY DEF LinkBack, IndInv, TypeOK, CallTypeOK, WalksStayOnLayer, WalkOK, Inserting, GraphInv
  <1>2. nb \in Nodes /\ nb \in {todo[t][i] : i \in DOMAIN todo[t]} /\ nb = todo[t][1] /\ 1 \in DOMAIN todo[t]
    BY <1>1
  <1>3. nb \in Held(t)
    BY <1>2 DEF Held
  <1>4. nb \in Joined
    BY <1>1, <1>3 DEF InsertOK
  <1>5. l \in Layers(nb) /\ l \in Nat
    BY <1>1, <1>3, BoundAssumption DEF IndInv, WalksStayOnLayer, WalkOK, TypeOK, BeamTypeOK
  <1>6. PICK lv \in 0 .. MaxLevel : graph[nb] \in [0 .. lv -> Seq(Nodes)]
    BY <1>2 DEF IndInv, TypeOK, IndexTypeOK
  <1>7. l \in 0 .. lv /\ graph[nb][l] \in Seq(Nodes)
    BY <1>5, <1>6 DEF Layers
  <1>8. Resized(graph[nb], l) = graph[nb]
    <2>1. DOMAIN graph[nb] \cup 0 .. l = DOMAIN graph[nb]
      BY <1>6, <1>7
    <2>2. Resized(graph[nb], l) = [i \in DOMAIN graph[nb] |-> graph[nb][i]]
      BY <2>1 DEF Resized
    <2> QED
      BY <1>6, <2>2
  <1> DEFINE links == Append(graph[nb][l], s)
  <1>9. PICK kept \in IF Len(links) > Mmax(l)
                      THEN SelectNeighbours(raw_vectors[nb], links, Mmax(l))
                      ELSE {links} :
            graph' = [graph EXCEPT ![nb] = [graph[nb] EXCEPT ![l] = kept]]
    BY <1>8 DEF LinkBack
  <1>10. Writes(nb, l, kept)
    BY <1>9 DEF Writes, LinkBack
  <1>11. {kept[i] : i \in DOMAIN kept} \subseteq NodeLinks(nb, l) \cup {s}
    <2> DEFINE T == NodeLinks(nb, l) \cup {s}
    <2>1. graph[nb][l] \in Seq(T)
      BY <1>7 DEF NodeLinks
    <2>2. links \in Seq(T)
      BY <2>1
    <2>3. Mmax(l) \in Nat
      BY MAssumption DEF Mmax
    <2> HIDE DEF T, links
    <2>4. kept \in Seq(T)
      BY <1>9, <2>2, <2>3, SelectNeighboursType
    <2>5. {kept[i] : i \in DOMAIN kept} \subseteq T
      BY <2>4
    <2> QED
      BY <2>5 DEF T
  <1>12. ASSUME l = 0 PROVE kept = links
    <2>1. graph[nb][0] \in Seq(Nodes \ {nb})
      BY <1>2, <1>7, <1>12 DEF GraphInv, NoRepeats, Bottom, NodeLinks
    <2>2. s # nb /\ s \notin Bottom(nb)
      BY <1>1, <1>2, <1>12 DEF InsertOK
    <2>3. links \in Seq(Nodes \ {nb})
      BY <1>1, <1>12, <2>1, <2>2
    <2>4. \A i, j \in DOMAIN graph[nb][0] : graph[nb][0][i] = graph[nb][0][j] => i = j
      BY <1>2 DEF GraphInv, NoRepeats
    <2>5. \A i \in DOMAIN graph[nb][0] : graph[nb][0][i] # s
      BY <2>2 DEF Bottom, NodeLinks
    <2>6. \A i, j \in DOMAIN links : links[i] = links[j] => i = j
      <3> DEFINE g == graph[nb][0]
      <3>1. g \in Seq(Nodes) /\ links = Append(g, s)
        BY <1>7, <1>12
      <3> HIDE DEF g, links
      <3>2. /\ DOMAIN links = 1 .. Len(g) + 1 /\ DOMAIN g = 1 .. Len(g) /\ Len(g) \in Nat
            /\ links[Len(g) + 1] = s /\ \A i \in 1 .. Len(g) : links[i] = g[i]
        BY <3>1
      <3>3. \A i, j \in 1 .. Len(g) : g[i] = g[j] => i = j
        BY <2>4, <3>2 DEF g
      <3>4. \A i \in 1 .. Len(g) : g[i] # s
        BY <2>5, <3>2 DEF g
      <3>5. \A i \in 1 .. Len(g) + 1 : i \in 1 .. Len(g) \/ i = Len(g) + 1
        BY <3>2
      <3> QED
        BY <3>2, <3>3, <3>4, <3>5
    <2>7. /\ IsFiniteSet(Nodes) /\ Cardinality(Nodes) = num_vectors /\ num_vectors \in Nat
      BY NodesFinite
    <2>8. IsFiniteSet(Nodes \ {nb}) /\ Cardinality(Nodes \ {nb}) = num_vectors - 1
      BY <1>2, <2>7, FS_RemoveElement
    <2> HIDE DEF links
    <2>9. Len(links) <= num_vectors - 1
      BY <2>3, <2>6, <2>8, ShortWithoutRepeats
    <2>10. num_vectors - 1 <= 2 * M /\ Mmax(l) = M * 2
      BY <1>12, BoundAssumption, MAssumption DEF Roomy, Mmax, IndInv, TypeOK, IndexTypeOK
    <2>11. Len(links) \in Nat
      BY <2>3
    <2>12. ~(Len(links) > Mmax(l))
      BY <2>7, <2>9, <2>10, <2>11, MAssumption
    <2> QED
      BY <1>9, <2>12
  <1>13. AddsLink(nb, l, s, kept)
    BY <1>10, <1>11, <1>12 DEF AddsLink
  <1> QED
    BY <1>1, <1>2, <1>4, <1>5, <1>13

\* The first back-link on layer 0 makes the slot join (hnsw.cpp:80-94).
LEMMA LinkBackGraph ==
    ASSUME Roomy, IndInv, IndInv', GraphInv, NEW t \in Threads, LinkBack(t)
    PROVE  GraphInv' /\ Grows /\ Joined \subseteq Joined'
  <1> SUFFICES ASSUME NEW nb, nb = Head(todo[t]), NEW l, l = lc[t], NEW s, s = slot[t]
               PROVE  GraphInv' /\ Grows /\ Joined \subseteq Joined'
    OBVIOUS
  <1>1. /\ pc[t] = "link" /\ Inserting(t) /\ InsertOK(t) /\ todo[t] \in Seq(Nodes) /\ todo[t] # << >>
        /\ nb \in Nodes /\ nb \in Joined /\ l \in Layers(nb) /\ s \in Nodes
    BY LinkBackWrites
  <1>a. PICK kept : AddsLink(nb, l, s, kept)
    BY LinkBackWrites
  <1>2. /\ Writes(nb, l, kept)
        /\ {kept[i] : i \in DOMAIN kept} \subseteq NodeLinks(nb, l) \cup {s}
        /\ l = 0 => kept = Append(graph[nb][0], s)
    BY <1>a DEF AddsLink
  <1> DEFINE R == {kept[i] : i \in DOMAIN kept}
  <1>3. /\ Nodes' = Nodes
        /\ \A m \in Nodes : Layers(m)' = Layers(m)
        /\ \A m \in Nodes : \A j \in Layers(m) : (m # nb \/ j # l) =>
              graph'[m][j] = graph[m][j] /\ NodeLinks(m, j)' = NodeLinks(m, j)
        /\ graph'[nb][l] = kept /\ NodeLinks(nb, l)' = R
        /\ \A m \in Nodes : 0 \in Layers(m) /\ ((m # nb \/ l # 0) => Bottom(m)' = Bottom(m) /\ graph'[m][0] = graph[m][0])
        /\ l = 0 => Bottom(nb)' = R
    BY <1>1, <1>2, OneListWritten
  <1>4. /\ UNCHANGED <<pc, op, slot, lc, results, ep, cands, nbs, num_vectors, entry_point>>
        /\ todo'[t] = Tail(todo[t]) /\ \A u \in Threads \ {t} : todo'[u] = todo[u]
    BY DEF LinkBack, args, beam, IndInv, TypeOK, CallTypeOK
  <1>5. /\ \A u : Inserting(u)' = Inserting(u)
        /\ \A u \in Threads \ {t} : Held(u)' = Held(u)
        /\ InFlight' = InFlight
    <2>1. \A u : Inserting(u)' = Inserting(u)
      BY <1>4 DEF Inserting
    <2> QED
      BY <1>4, <2>1 DEF Held, InFlight
  <1>6. /\ \A i \in DOMAIN Tail(todo[t]) : i + 1 \in DOMAIN todo[t] /\ Tail(todo[t])[i] = todo[t][i + 1]
        /\ 1 \in DOMAIN todo[t] /\ nb = todo[t][1]
        /\ \A i \in DOMAIN Tail(todo[t]) : i \in Nat /\ i + 1 # 1
    BY <1>1
  <1>7. Held(t)' \subseteq Held(t)
    <2>1. {Tail(todo[t])[i] : i \in DOMAIN Tail(todo[t])} \subseteq {todo[t][i] : i \in DOMAIN todo[t]}
      BY <1>6
    <2> QED
      BY <1>4, <2>1 DEF Held
  <1>8. l \in Nat
    BY <1>1 DEF IndInv, TypeOK, BeamTypeOK
  <1>9. ASSUME l = 0
        PROVE  /\ s # nb /\ s \notin Bottom(nb)
               /\ Bottom(nb)' = Bottom(nb) \cup {s}
               /\ graph'[nb][0] = Append(graph[nb][0], s) /\ graph[nb][0] \in Seq(Nodes)
               /\ \A i, j \in DOMAIN graph'[nb][0] : graph'[nb][0][i] = graph'[nb][0][j] => i = j
    <2>1. s # nb /\ s \notin Bottom(nb)
      BY <1>1, <1>6, <1>9 DEF InsertOK
    <2>2. graph'[nb][0] = Append(graph[nb][0], s) /\ graph[nb][0] \in Seq(Nodes)
      BY <1>1, <1>2, <1>3, <1>9, BottomType
    <2> DEFINE g == graph[nb][0]
    <2>3. kept = Append(g, s) /\ g \in Seq(Nodes) /\ graph'[nb][0] = kept
      BY <1>2, <1>3, <1>9, <2>2
    <2>4. {g[i] : i \in DOMAIN g} = Bottom(nb)
      BY DEF Bottom, NodeLinks
    <2>5. \A i, j \in DOMAIN g : g[i] = g[j] => i = j
      BY <1>1 DEF GraphInv, NoRepeats
    <2> HIDE DEF g
    <2>6. /\ DOMAIN kept = 1 .. Len(g) + 1 /\ DOMAIN g = 1 .. Len(g) /\ Len(g) \in Nat
          /\ kept[Len(g) + 1] = s /\ \A i \in 1 .. Len(g) : kept[i] = g[i]
      BY <2>3
    <2>7. \A i \in 1 .. Len(g) + 1 : i \in 1 .. Len(g) \/ i = Len(g) + 1
      BY <2>6
    <2>8. /\ \A i \in 1 .. Len(g) : i \in 1 .. Len(g) + 1
          /\ Len(g) + 1 \in 1 .. Len(g) + 1
      BY <2>6
    <2>9. R = {g[i] : i \in DOMAIN g} \cup {s}
      BY <2>6, <2>7, <2>8
    <2>10. \A i \in 1 .. Len(g) : g[i] # s
      BY <2>1, <2>4, <2>6
    <2>11. \A i, j \in DOMAIN kept : kept[i] = kept[j] => i = j
      BY <2>5, <2>6, <2>7, <2>10
    <2> QED
      BY <1>3, <1>9, <2>1, <2>2, <2>3, <2>4, <2>9, <2>11
  <1> HIDE DEF R
  <1>10. \A m \in Nodes : /\ Bottom(m) \subseteq Bottom(m)' /\ Bottom(m)' \subseteq Bottom(m) \cup {s}
                          /\ m # nb => Bottom(m)' = Bottom(m)
    BY <1>3, <1>9
  <1>11. Grows
    BY <1>3, <1>10 DEF Grows
  <1>12. Joined \subseteq Joined' /\ Joined' \subseteq Joined \cup {s}
    <2>1. Joined \subseteq Joined'
      BY <1>5, <1>11, JoinedGrows
    <2>2. ASSUME NEW n \in Joined', n # s PROVE n \in Joined
      BY <1>3, <1>5, <1>10, <2>2 DEF Joined
    <2> QED
      BY <2>1, <2>2
  <1>13. s \in Joined' => s \in Joined \/ l = 0
    BY <1>3, <1>5 DEF Joined
  <1>14. StronglyLinked'
    <2>1. ASSUME NEW n \in Joined' \ Joined
          PROVE  (\E m \in Joined : m \in Bottom(n)') /\ \E m \in Joined : n \in Bottom(m)'
      <3>1. n = s /\ l = 0 /\ s \notin Joined
        BY <1>12, <1>13
      <3>2. nb \in Bottom(s)
        BY <1>1, <1>6, <3>1 DEF InsertOK
      <3>3. nb \in Bottom(s)' /\ s \in Bottom(nb)'
        BY <1>1, <1>9, <1>10, <3>1, <3>2
      <3> QED
        BY <1>1, <3>1, <3>3
    <2> QED
      BY <1>11, <2>1, StronglyLinkedKept DEF GraphInv
  <1>15. NoRepeats'
    <2> SUFFICES ASSUME NEW n \in Nodes
                 PROVE  /\ n \notin Bottom(n)'
                        /\ \A i, j \in DOMAIN graph'[n][0] : graph'[n][0][i] = graph'[n][0][j] => i = j
      BY <1>3 DEF NoRepeats
    <2>1. CASE n = nb /\ l = 0
      BY <1>1, <1>9, <2>1 DEF GraphInv, NoRepeats
    <2>2. CASE n # nb \/ l # 0
      BY <1>3, <2>2 DEF GraphInv, NoRepeats
    <2> QED
      BY <2>1, <2>2
  <1>16. SlotsApart'
    BY <1>4, <1>5 DEF GraphInv, SlotsApart
  <1>17. ASSUME NEW u \in Threads, u # t, Inserting(u) PROVE InsertOK(u)'
    <2>1. InsertOK(u) /\ slot[u] # s /\ slot[u] \in Nodes /\ slot'[u] = slot[u]
      BY <1>1, <1>4, <1>17 DEF GraphInv, SlotsApart, IndInv, WalksStayOnLayer, WalkOK
    <2>2. ASSUME NEW n \in Nodes', NEW j \in Layers(n)', slot[u] \in NodeLinks(n, j)'
          PROVE  n \in Nodes /\ j \in Layers(n) /\ slot[u] \in NodeLinks(n, j)
      BY <1>2, <1>3, <2>1, <2>2 DEF R
    <2>3. \A n \in Joined : slot[u] \in Bottom(n)' => slot[u] \in Bottom(n)
      BY <1>10, <2>1 DEF Joined
    <2>4. slot[u] \notin Joined => Bottom(slot[u])' = Bottom(slot[u])
      BY <1>1, <1>10, <2>1
    <2>5. /\ pc'[u] = pc[u] /\ lc'[u] = lc[u] /\ todo'[u] = todo[u]
          /\ results'[u] = results[u] /\ Held(u)' \subseteq Held(u) /\ Joined \subseteq Joined'
      BY <1>4, <1>5, <1>12, <1>17
    <2> QED
      BY <1>11, <1>17, <2>1, <2>2, <2>3, <2>4, <2>5, InsertKept
  <1>18. InsertOK(t)'
    <2>1. /\ pc'[t] = "link" /\ slot'[t] = s /\ lc'[t] = l /\ todo'[t] = Tail(todo[t])
          /\ Held(t)' \subseteq Joined'
      BY <1>1, <1>4, <1>7, <1>12 DEF InsertOK
    <2>2. \A j : (Ahead(t, j)' <=> j < l) /\ (Ahead(t, j) <=> j < l)
      BY <1>1, <2>1 DEF Ahead
    <2>3. ASSUME NEW n \in Nodes', NEW j \in Layers(n)', j < l PROVE s \notin NodeLinks(n, j)'
      <3>1. n \in Nodes /\ j \in Layers(n)
        BY <1>3
      <3>2. j # l
        <4>1. j \in Int
          BY <3>1 DEF IndInv, TypeOK, IndexTypeOK, Layers
        <4> QED
          BY <1>8, <2>3, <4>1
      <3>3. s \notin NodeLinks(n, j)
        BY <1>1, <2>2, <2>3, <3>1 DEF InsertOK
      <3> QED
        BY <1>3, <3>1, <3>2, <3>3
    <2>4. 0 < l => Bottom(s)' = {}
      <3>1. 0 < l => Bottom(s) = {} /\ l # 0
        BY <1>1, <1>8, <2>2 DEF InsertOK
      <3> QED
        BY <1>1, <1>3, <3>1
    <2>5. ASSUME l = 0
          PROVE  /\ \A i, j \in DOMAIN Tail(todo[t]) : Tail(todo[t])[i] = Tail(todo[t])[j] => i = j
                 /\ \A i \in DOMAIN Tail(todo[t]) : Tail(todo[t])[i] # nb /\ Tail(todo[t])[i] \in Nodes
                       /\ s \notin Bottom(Tail(todo[t])[i]) /\ s # Tail(todo[t])[i]
                 /\ s \in Joined'
      <3>1. /\ \A i, j \in DOMAIN todo[t] : todo[t][i] = todo[t][j] => i = j
            /\ \A i \in DOMAIN todo[t] : s \notin Bottom(todo[t][i]) /\ s # todo[t][i] /\ todo[t][i] \in Nodes
        BY <1>1, <2>5 DEF InsertOK
      <3>2. s \in Joined'
        BY <1>1, <1>3, <1>9, <2>5 DEF Joined
      <3>3. \A i, j \in DOMAIN Tail(todo[t]) : Tail(todo[t])[i] = Tail(todo[t])[j] => i = j
        BY <1>6, <3>1
      <3>4. \A i \in DOMAIN Tail(todo[t]) : Tail(todo[t])[i] # nb
        BY <1>6, <3>1
      <3>5. \A i \in DOMAIN Tail(todo[t]) : Tail(todo[t])[i] \in Nodes
                       /\ s \notin Bottom(Tail(todo[t])[i]) /\ s # Tail(todo[t])[i]
        BY <1>6, <3>1
      <3> QED
        BY <3>2, <3>3, <3>4, <3>5
    <2>6. ASSUME l = 0, NEW i, (i \in DOMAIN todo[t])'
          PROVE  (slot[t] \notin Bottom(todo[t][i]) /\ slot[t] # todo[t][i])'
      <3>1. /\ Tail(todo[t])[i] \in Nodes /\ Tail(todo[t])[i] # nb /\ s # Tail(todo[t])[i]
            /\ s \notin Bottom(Tail(todo[t])[i])
        BY <2>1, <2>5, <2>6
      <3> SUFFICES ASSUME NEW x, x = todo'[t][i], x \in Nodes, x # nb, s \notin Bottom(x), s # x
                   PROVE  (slot[t] \notin Bottom(todo[t][i]) /\ slot[t] # todo[t][i])'
        BY <2>1, <3>1
      <3>2. s \notin Bottom(x)'
        BY <1>10
      <3> QED
        BY <2>1, <3>2 DEF Bottom, NodeLinks
    <2>7. l = 0 => /\ \A i, j \in DOMAIN todo'[t] : todo'[t][i] = todo'[t][j] => i = j
                   /\ s \in Joined'
      BY <2>1, <2>5
    <2> QED
      BY <2>1, <2>2, <2>3, <2>4, <2>6, <2>7 DEF InsertOK
  <1> QED
    BY <1>5, <1>11, <1>12, <1>14, <1>15, <1>16, <1>17, <1>18 DEF GraphInv

\* An empty index.
LEMMA InitGraph == Init => GraphInv
  <1> SUFFICES ASSUME Init PROVE GraphInv
    OBVIOUS
  <1>1. num_vectors = 0 /\ Nodes = {} /\ \A t \in Threads : ~Inserting(t)
    BY DEF Init, Nodes, Inserting
  <1>2. Joined = {}
    BY <1>1 DEF Joined
  <1> QED
    BY <1>1, <1>2 DEF GraphInv, StronglyLinked, NoRepeats, SlotsApart

\* Every step keeps the invariant.
LEMMA NextGraph ==
    ASSUME OneLayer \/ OneWriter, OnlyWriters, Roomy, IndInv, IndInv', GraphInv, [Next]_vars
    PROVE  GraphInv'
  <1>1. ASSUME NEW t \in Threads, NEW id \in Ids, NEW v \in Vec, NEW lv \in 0 .. MaxLevel,
               InsertAllocate(t, id, v, lv)
        PROVE  GraphInv'
    BY <1>1, InsertAllocateGraph
  <1>2. ASSUME NEW t \in Threads, NEW id \in Deletable, DeleteVector(t, id)
        PROVE  GraphInv'
    BY <1>2, OtherStepsGraph, IdsAssumption
  <1>3. ASSUME NEW t \in Threads, NEW v \in Vec, NEW kk \in Ks, SearchLoad(t, v, kk)
        PROVE  GraphInv'
    BY <1>3, OtherStepsGraph
  <1>4. ASSUME NEW t \in Threads, InsertStep(t) PROVE GraphInv'
    BY <1>4, InsertReadEntryGraph, LinkOwnGraph, LinkBackGraph, NextLayerGraph, InsertPublishGraph
    DEF InsertStep
  <1>5. ASSUME NEW t \in Threads, LayerStep(t) PROVE GraphInv'
    BY <1>5, ExpandCandidateGraph, EvalNeighbourGraph, DescendGraph DEF LayerStep
  <1>6. ASSUME NEW t \in Threads, SearchStep(t) PROVE GraphInv'
    BY <1>6, OtherStepsGraph
  <1>7. CASE UNCHANGED vars
    BY <1>7, StutterGraph
  <1> QED
    BY <1>1, <1>2, <1>3, <1>4, <1>5, <1>6, <1>7 DEF Next, Step

\* Layer 0 only grows, and no slot that has joined it leaves.
LEMMA NextGrows ==
    ASSUME Roomy, IndInv, IndInv', GraphInv, [Next]_vars
    PROVE  Grows /\ Joined \subseteq Joined'
  <1>1. ASSUME NEW t \in Threads, NEW id \in Ids, NEW v \in Vec, NEW lv \in 0 .. MaxLevel,
               InsertAllocate(t, id, v, lv)
        PROVE  Grows /\ Joined \subseteq Joined'
    BY <1>1, InsertAllocateGraph
  <1>2. ASSUME NEW t \in Threads, LinkOwn(t) \/ LinkBack(t) PROVE Grows /\ Joined \subseteq Joined'
    BY <1>2, LinkOwnGraph, LinkBackGraph
  <1>3. ASSUME UNCHANGED <<num_vectors, graph>>, InFlight' \subseteq InFlight
        PROVE  Grows /\ Joined \subseteq Joined'
    BY <1>3, GraphUntouched, JoinedGrows
  <1>4. ASSUME NEW t \in Threads,
               \/ \E id \in Deletable : DeleteVector(t, id)
               \/ \E v \in Vec, kk \in Ks : SearchLoad(t, v, kk)
               \/ InsertReadEntry(t) \/ NextLayer(t) \/ InsertPublish(t)
               \/ LayerStep(t) \/ SearchStep(t)
        PROVE  UNCHANGED <<num_vectors, graph>> /\ InFlight' \subseteq InFlight
    <2>1. UNCHANGED <<num_vectors, graph>>
      BY <1>4 DEF DeleteVector, SearchLoad, InsertReadEntry, NextLayer, InsertPublish, LayerStep,
                  ExpandCandidate, EvalNeighbour, Descend, SearchStep, SearchEntry, SearchCollect,
                  SearchReturn, index
    <2>2. ASSUME NEW u \in Threads, Inserting(u)' PROVE Inserting(u) /\ slot'[u] = slot[u]
      <3> USE DEF Inserting, IndInv, TypeOK, CallTypeOK
      <3>1. CASE (\E id \in Deletable : DeleteVector(t, id)) \/ LayerStep(t)
        BY <2>2, <3>1 DEF DeleteVector, LayerStep, ExpandCandidate, EvalNeighbour, Descend, args
      <3>2. CASE (\E v \in Vec, kk \in Ks : SearchLoad(t, v, kk)) \/ SearchEntry(t)
        BY <2>2, <3>2 DEF SearchLoad, SearchEntry, args
      <3>3. CASE InsertReadEntry(t) \/ NextLayer(t) \/ SearchCollect(t)
        BY <2>2, <3>3 DEF InsertReadEntry, NextLayer, SearchCollect, LayerDone, Looping, args
      <3>4. CASE InsertPublish(t) \/ SearchReturn(t)
        BY <2>2, <3>4 DEF InsertPublish, SearchReturn, Finish
      <3> QED
        BY <1>4, <3>1, <3>2, <3>3, <3>4 DEF SearchStep
    <2> QED
      BY <2>1, <2>2 DEF InFlight
  <1>5. CASE UNCHANGED vars
    BY <1>3, <1>5 DEF vars, index, args, InFlight, Inserting
  <1> QED
    BY <1>1, <1>2, <1>3, <1>4, <1>5 DEF Next, Step, InsertStep

\* Thread t is in a search.
Searching(t) == pc[t] # "idle" /\ op[t] = "search"

\* The steps of one thread.
ThreadStep(t) ==
    \/ \E id \in Ids, v \in Vec, lv \in 0 .. MaxLevel : InsertAllocate(t, id, v, lv)
    \/ \E id \in Deletable : DeleteVector(t, id)
    \/ \E v \in Vec, kk \in Ks : SearchLoad(t, v, kk)
    \/ Step(t)

\* The call a thread is in and its locals.
Local(u) == <<pc[u], op[u], query[u], slot[u], nv[u], k[u], ret[u], lc[u], cands[u], results[u],
              visited[u], nbs[u], settled[u], ep[u], todo[u]>>

\* A step of one thread leaves the locals of the others alone.
LEMMA OthersUntouched ==
    ASSUME IndInv, NEW t \in Threads, ThreadStep(t), NEW u \in Threads, u # t
    PROVE  UNCHANGED Local(u) /\ Held(u)' = Held(u) /\ Searching(u)' = Searching(u)
  <1> USE DEF Local, IndInv, TypeOK, CallTypeOK, BeamTypeOK
  <1>1. ASSUME NEW id \in Ids, NEW v \in Vec, NEW lv \in 0 .. MaxLevel, InsertAllocate(t, id, v, lv)
        PROVE  UNCHANGED Local(u) /\ Held(u)' = Held(u) /\ Searching(u)' = Searching(u)
    <2>1. /\ pc'[u] = pc[u] /\ op'[u] = op[u] /\ query'[u] = query[u] /\ slot'[u] = slot[u]
          /\ nv'[u] = nv[u] /\ k'[u] = k[u] /\ UNCHANGED <<todo, ret, beam, settled>>
      BY <1>1 DEF InsertAllocate, args
    <2> QED
      BY <2>1 DEF beam, Held, Searching
  <1>2. CASE \E id \in Deletable : DeleteVector(t, id)
    BY <1>2 DEF DeleteVector, args, beam, Held, Searching
  <1>3. CASE \E v \in Vec, kk \in Ks : SearchLoad(t, v, kk)
    BY <1>3 DEF SearchLoad, beam, Held, Searching
  <1>4. ASSUME NEW e, NEW l, StartLayer(t, e, l)
        PROVE  UNCHANGED <<lc[u], cands[u], results[u], visited[u], nbs[u], ep[u]>>
    BY <1>4 DEF StartLayer
  <1>5. CASE InsertReadEntry(t)
    BY <1>4, <1>5 DEF InsertReadEntry, args, history, Held, Searching
  <1>6. CASE NextLayer(t)
    <2>1. UNCHANGED <<args, todo, ret, settled>> /\ pc'[u] = pc[u]
      BY <1>6 DEF NextLayer, history
    <2>2. UNCHANGED <<lc[u], cands[u], results[u], visited[u], nbs[u], ep[u]>>
      BY <1>4, <1>6 DEF NextLayer, beam
    <2> QED
      BY <2>1, <2>2 DEF args, Held, Searching
  <1>7. CASE Descend(t)
    BY <1>4, <1>7 DEF Descend, args, history, Held, Searching
  <1>8. CASE SearchEntry(t)
    <2>1. UNCHANGED <<args, todo, ret, settled>> /\ pc'[u] = pc[u]
      BY <1>8 DEF SearchEntry, history
    <2>2. UNCHANGED <<lc[u], cands[u], results[u], visited[u], nbs[u], ep[u]>>
      BY <1>4, <1>8 DEF SearchEntry, beam
    <2> QED
      BY <2>1, <2>2 DEF args, Held, Searching
  <1>9. CASE LinkOwn(t) \/ LinkBack(t)
    BY <1>9 DEF LinkOwn, LinkBack, args, history, beam, Held, Searching
  <1>10. CASE ExpandCandidate(t)
    BY <1>10 DEF ExpandCandidate, args, history, Held, Searching
  <1>13. CASE SearchCollect(t)
    <2>1. pc'[u] = pc[u] /\ ret'[u] = ret[u] /\ UNCHANGED <<args, todo, beam, settled>>
      BY <1>13 DEF SearchCollect, history
    <2> QED
      BY <2>1 DEF args, beam, Held, Searching
  <1>11. CASE EvalNeighbour(t)
    BY <1>11 DEF EvalNeighbour, args, history, Held, Searching
  <1>12. CASE InsertPublish(t) \/ SearchReturn(t)
    BY <1>12 DEF InsertPublish, SearchReturn, Finish, history, Held, Searching
  <1> QED
    BY <1>1, <1>2, <1>3, <1>5, <1>6, <1>7, <1>8, <1>9, <1>10, <1>11, <1>12, <1>13
    DEF ThreadStep, Step, InsertStep, LayerStep, SearchStep

\* Only insert, which a writer calls, gives a thread an insert to run.
LEMMA InsertsByWriters ==
    IndInv /\ OnlyWriters /\ [Next]_vars => OnlyWriters'
  <1> SUFFICES ASSUME IndInv, OnlyWriters, [Next]_vars, NEW t \in Threads, Inserting(t)'
               PROVE  t \in Writers
    BY DEF OnlyWriters
  <1>1. ASSUME NEW u \in Threads, ThreadStep(u), u # t PROVE Inserting(t)
    BY <1>1, OthersUntouched DEF Local, Inserting
  <1>2. ASSUME NEW id \in Ids, NEW v \in Vec, NEW lv \in 0 .. MaxLevel, InsertAllocate(t, id, v, lv)
        PROVE  t \in Writers
    BY <1>2 DEF InsertAllocate
  <1>3. CASE \E id \in Deletable : DeleteVector(t, id)
    BY <1>3 DEF DeleteVector, args, OnlyWriters, Inserting
  <1>4. ASSUME NEW v \in Vec, NEW kk \in Ks, SearchLoad(t, v, kk) PROVE FALSE
    BY <1>4 DEF SearchLoad, Inserting, IndInv, TypeOK, CallTypeOK
  <1>5. CASE InsertStep(t)
    <2>1. pc[t] # "idle" /\ op[t] = "insert"
      BY <1>5 DEF InsertStep, InsertReadEntry, LinkOwn, LinkBack, NextLayer, InsertPublish,
                  LayerDone, Looping, IndInv, WalksStayOnLayer, WalkOK
    <2> QED
      BY <2>1 DEF OnlyWriters, Inserting
  <1>6. CASE LayerStep(t) \/ SearchStep(t)
    <2>1. ~SearchReturn(t)
      BY DEF SearchReturn, Finish, Inserting, IndInv, TypeOK, CallTypeOK
    <2>2. pc[t] # "idle" /\ op' = op
      BY <1>6, <2>1 DEF LayerStep, ExpandCandidate, EvalNeighbour, Descend, LayerDone, Looping,
                        SearchStep, SearchEntry, SearchCollect, args
    <2> QED
      BY <2>2 DEF OnlyWriters, Inserting
  <1>7. CASE UNCHANGED vars
    BY <1>7 DEF vars, args, OnlyWriters, Inserting
  <1>8. ASSUME NEW u \in Threads, ThreadStep(u) PROVE t \in Writers
    <2>1. CASE u # t
      BY <1>1, <1>8, <2>1 DEF OnlyWriters
    <2>2. CASE u = t
      BY <1>2, <1>3, <1>4, <1>5, <1>6, <1>8, <2>2 DEF ThreadStep, Step
    <2> QED
      BY <2>1, <2>2
  <1> QED
    BY <1>7, <1>8 DEF Next, ThreadStep

\* So it holds at all times.
LEMMA GraphInductive ==
    ASSUME OneLayer \/ OneWriter, Roomy
    PROVE  Spec => [](IndInv /\ GraphInv)
  <1>1. IndInv /\ IndInv' /\ OnlyWriters /\ GraphInv /\ [Next]_vars => GraphInv'
    BY NextGraph
  <1>2. Init => OnlyWriters
    BY DEF Init, OnlyWriters, Inserting
  <1> QED
    BY <1>1, <1>2, InitGraph, InitInd, NextInd, InsertsByWriters, PTL DEF Spec

\* Between two calls every slot can be reached on layer 0 from the entry point,
\* for one inserting caller beside any number of searching ones, and for any
\* number of callers when insert draws level 0 only, as long as layer-0 lists
\* are never pruned: an insert that overwrites
\* its own list (hnsw.cpp:75) removes no link, because nobody links to a
\* slot on a layer its insert has not reached.
THEOREM AlwaysConnected ==
    ASSUME OneLayer \/ OneWriter, Roomy
    PROVE  Spec => []Connected
  <1>1. IndInv /\ GraphInv => Connected
    <2> SUFFICES ASSUME IndInv, GraphInv, \A t \in Threads : Idle(t), NEW S \in SUBSET Nodes,
                        entry_point \in S, \A n \in S : NodeLinks(n, 0) \subseteq S
                 PROVE  S = Nodes
      BY DEF Connected
    <2>1. InFlight = {}
      BY DEF InFlight, Inserting, Idle
    <2>2. Joined = Nodes
      BY <2>1 DEF Joined
    <2>3. Closed(S, {}) /\ S \cap Joined # {}
      BY <2>2 DEF Closed, Bottom
    <2> QED
      BY <2>2, <2>3 DEF GraphInv, StronglyLinked
  <1> QED
    BY <1>1, GraphInductive, PTL

\* Induction over a set of numbers.
LEMMA SetInduction ==
    ASSUME NEW T, 0 \in T, \A n \in Nat : n \in T => n + 1 \in T
    PROVE  \A n \in Nat : n \in T
  <1> DEFINE Lower == OpToRel(<, Nat)
             Rest == Nat \ T
  <1> SUFFICES ASSUME Rest # {} PROVE FALSE
    OBVIOUS
  <1>1. \A x, y \in Nat : <<x, y>> \in Lower <=> x < y
    BY DEF OpToRel
  <1>2. IsWellFoundedOn(Lower, Nat)
    BY NatLessThanWellFounded
  <1> HIDE DEF Lower
  <1>3. PICK x \in Rest : \A y \in Rest : ~(<<y, x>> \in Lower)
    BY <1>2, WFMin
  <1>4. x \in Nat /\ x # 0 /\ x - 1 \in Nat /\ x - 1 < x /\ (x - 1) + 1 = x
    BY <1>3
  <1>5. x - 1 \in T
    BY <1>1, <1>3, <1>4
  <1> QED
    BY <1>3, <1>4, <1>5

\* A set of slots that is not empty has a least element in every total order.
LEMMA LeastExists ==
    ASSUME NEW m \in Nat, NEW R,
           \A a, b \in 0 .. m - 1 : <<a, b>> \in R \/ <<b, a>> \in R,
           \A a, b, c \in 0 .. m - 1 : (<<a, b>> \in R /\ <<b, c>> \in R) => <<a, c>> \in R,
           NEW S \in SUBSET (0 .. m - 1), S # {}
    PROVE  \E w \in S : \A n \in S : <<w, n>> \in R
  <1> DEFINE HasLeast(A) == \E w \in A : \A n \in A : <<w, n>> \in R
             T == {i \in Nat : \A A \in SUBSET (0 .. m - 1) :
                      (A # {} /\ \A x \in A : x < i) => HasLeast(A)}
  <1>1. 0 \in T
    <2> SUFFICES ASSUME NEW A \in SUBSET (0 .. m - 1), NEW x \in A, x < 0 PROVE FALSE
      OBVIOUS
    <2> QED
      OBVIOUS
  <1>2. ASSUME NEW i \in Nat, i \in T PROVE i + 1 \in T
    <2> SUFFICES ASSUME NEW A \in SUBSET (0 .. m - 1), A # {}, \A x \in A : x < i + 1
                 PROVE  HasLeast(A)
      OBVIOUS
    <2>1. CASE i \notin A
      <3>1. \A x \in A : x < i
        BY <2>1
      <3> QED
        BY <1>2, <3>1
    <2>2. CASE A = {i}
      BY <2>2
    <2>3. CASE i \in A /\ A # {i}
      <3> DEFINE B == A \ {i}
      <3>1. B \in SUBSET (0 .. m - 1) /\ B # {} /\ \A x \in B : x < i
        BY <2>3
      <3>2. PICK w \in B : \A n \in B : <<w, n>> \in R
        BY <1>2, <3>1
      <3>3. CASE <<w, i>> \in R
        BY <3>2, <3>3
      <3>4. CASE <<i, w>> \in R
        <4>1. \A n \in B : <<i, n>> \in R
          BY <2>3, <3>1, <3>2, <3>4
        <4>2. <<i, i>> \in R
          BY <2>3
        <4> QED
          BY <2>3, <4>1, <4>2
      <3> QED
        BY <2>3, <3>1, <3>2, <3>3, <3>4
    <2> QED
      BY <2>1, <2>2, <2>3
  <1> HIDE DEF T
  <1>3. \A i \in Nat : i \in T
    BY <1>1, <1>2, SetInduction
  <1>4. m \in T /\ \A x \in S : x < m
    BY <1>3
  <1> QED
    BY <1>4 DEF T

\* The priority queues of search_layer_ have a top as long as they are not empty.
LEMMA TopExists ==
    ASSUME IndInv, NEW t \in Threads, NEW S \in SUBSET Nodes, S # {}
    PROVE  /\ S = cands[t] => \E c \in S : IsNearest(t, c)
           /\ Worst(t, S) \in S /\ \A n \in S : SimTo(t, Worst(t, S)) <= SimTo(t, n)
  <1>1. num_vectors \in Nat /\ \A n \in Nodes : SimTo(t, n) \in Int
    BY SimAssumption DEF IndInv, TypeOK, IndexTypeOK, CallTypeOK, SimTo
  <1>2. S \in SUBSET (0 .. num_vectors - 1) /\ Nodes = 0 .. num_vectors - 1
    BY DEF Nodes
  <1>3. ASSUME S = cands[t] PROVE \E c \in S : IsNearest(t, c)
    <2> DEFINE R == {p \in Nodes \X Nodes : SimTo(t, p[2]) < SimTo(t, p[1])
                                              \/ (SimTo(t, p[2]) = SimTo(t, p[1]) /\ p[1] <= p[2])}
    <2>1. \A a, b \in Nodes : <<a, b>> \in R <=>
              SimTo(t, b) < SimTo(t, a) \/ (SimTo(t, b) = SimTo(t, a) /\ a <= b)
      OBVIOUS
    <2> HIDE DEF R
    <2>2. \A a, b \in 0 .. num_vectors - 1 : <<a, b>> \in R \/ <<b, a>> \in R
      <3> SUFFICES ASSUME NEW a \in Nodes, NEW b \in Nodes PROVE <<a, b>> \in R \/ <<b, a>> \in R
        BY <1>2
      <3>1. SimTo(t, a) \in Int /\ SimTo(t, b) \in Int /\ a \in Int /\ b \in Int
        BY <1>1, <1>2
      <3> QED
        BY <2>1, <3>1
    <2>3. \A a, b, c \in 0 .. num_vectors - 1 : (<<a, b>> \in R /\ <<b, c>> \in R) => <<a, c>> \in R
      BY <1>1, <1>2, <2>1
    <2>4. PICK w \in S : \A n \in S : <<w, n>> \in R
      BY <1>1, <1>2, <2>2, <2>3, LeastExists
    <2>5. IsNearest(t, w)
      BY <1>2, <1>3, <2>1, <2>4 DEF IsNearest
    <2> QED
      BY <2>5
  <1>4. \E w \in S : \A n \in S : SimTo(t, w) < SimTo(t, n) \/ (SimTo(t, w) = SimTo(t, n) /\ n <= w)
    <2> DEFINE R == {p \in Nodes \X Nodes : SimTo(t, p[1]) < SimTo(t, p[2])
                                              \/ (SimTo(t, p[1]) = SimTo(t, p[2]) /\ p[2] <= p[1])}
    <2>1. \A a, b \in Nodes : <<a, b>> \in R <=>
              SimTo(t, a) < SimTo(t, b) \/ (SimTo(t, a) = SimTo(t, b) /\ b <= a)
      OBVIOUS
    <2> HIDE DEF R
    <2>2. \A a, b \in 0 .. num_vectors - 1 : <<a, b>> \in R \/ <<b, a>> \in R
      <3> SUFFICES ASSUME NEW a \in Nodes, NEW b \in Nodes PROVE <<a, b>> \in R \/ <<b, a>> \in R
        BY <1>2
      <3>1. SimTo(t, a) \in Int /\ SimTo(t, b) \in Int /\ a \in Int /\ b \in Int
        BY <1>1, <1>2
      <3> QED
        BY <2>1, <3>1
    <2>3. \A a, b, c \in 0 .. num_vectors - 1 : (<<a, b>> \in R /\ <<b, c>> \in R) => <<a, c>> \in R
      BY <1>1, <1>2, <2>1
    <2>4. PICK w \in S : \A n \in S : <<w, n>> \in R
      BY <1>1, <1>2, <2>2, <2>3, LeastExists
    <2>5. \A n \in S : SimTo(t, w) < SimTo(t, n) \/ (SimTo(t, w) = SimTo(t, n) /\ n <= w)
      BY <1>2, <2>1, <2>4
    <2> QED
      BY <2>5
  <1>5. Worst(t, S) \in S /\ \A n \in S : SimTo(t, Worst(t, S)) < SimTo(t, n)
                                 \/ (SimTo(t, Worst(t, S)) = SimTo(t, n) /\ n <= Worst(t, S))
    BY <1>4 DEF Worst
  <1>6. \A n \in S : SimTo(t, Worst(t, S)) <= SimTo(t, n)
    <2> SUFFICES ASSUME NEW n \in S PROVE SimTo(t, Worst(t, S)) <= SimTo(t, n)
      OBVIOUS
    <2>1. SimTo(t, n) \in Int /\ SimTo(t, Worst(t, S)) \in Int
      BY <1>1, <1>5
    <2> QED
      BY <1>5, <2>1
  <1> QED
    BY <1>3, <1>5, <1>6

-----------------------------------------------------------------------------
(* AnswerWellFormed.  What is collected is what the beam holds and is live. *)

\* No walk keeps more than its beam width, on any layer and in any call.
BeamBounded == \A t \in Threads : pc[t] = "search" => Cardinality(results[t]) <= Ef(t)

\* A layer is started with one slot in the beam.
LEMMA StartBounded ==
    ASSUME NEW t \in Threads, NEW e, NEW l, IndInv, StartLayer(t, e, l)
    PROVE  Cardinality(results'[t]) <= Ef(t)'
  <1>1. results'[t] = {e}
    BY DEF StartLayer, IndInv, TypeOK, BeamTypeOK
  <1>2. Cardinality({e}) = 1
    BY FS_Singleton
  <1>3. Ef(t)' \in Nat /\ Ef(t)' >= 1
    BY EfAssumption, MAssumption DEF Ef
  <1> QED
    BY <1>1, <1>2, <1>3

\* A link is added to a beam that is not full, or in exchange for the worst.
LEMMA EvalBounded ==
    ASSUME IndInv, BeamBounded, NEW t \in Threads, EvalNeighbour(t)
    PROVE  Cardinality(results'[t]) <= Ef(t)
  <1>1. pc[t] = "search" /\ nbs[t] # << >> /\ nbs[t] \in Seq(Nodes)
    BY DEF EvalNeighbour, IndInv, TypeOK, BeamTypeOK
  <1> DEFINE nb == Head(nbs[t])
             grown == results[t] \cup {nb}
  <1>2. nb \in Nodes
    BY <1>1
  <1>3. results[t] \in SUBSET Nodes /\ grown \in SUBSET Nodes /\ grown # {}
    BY <1>2 DEF IndInv, TypeOK, BeamTypeOK
  <1>4. /\ IsFiniteSet(results[t]) /\ Cardinality(results[t]) \in Nat
        /\ IsFiniteSet(grown) /\ Cardinality(grown) \in Nat
    BY <1>3, NodesFinite
  <1>5. Cardinality(results[t]) <= Ef(t) /\ Ef(t) \in Nat /\ Ef(t) >= 1
    BY <1>1, EfPositive DEF BeamBounded
  <1>7. Worst(t, grown) \in grown
    BY <1>3, TopExists
  <1>9. \/ results'[t] = results[t]
        \/ results'[t] = IF Cardinality(grown) > Ef(t) THEN grown \ {Worst(t, grown)} ELSE grown
    BY DEF EvalNeighbour, IndInv, TypeOK, BeamTypeOK
  <1> HIDE DEF nb
  <1>6. Cardinality(grown) = IF nb \in results[t] THEN Cardinality(results[t])
                                                 ELSE Cardinality(results[t]) + 1
    BY <1>4, FS_AddElement, Zenon
  <1> HIDE DEF grown
  <1>8. Cardinality(grown \ {Worst(t, grown)}) = Cardinality(grown) - 1
    BY <1>4, <1>7, FS_RemoveElement
  <1> QED
    BY <1>4, <1>5, <1>6, <1>8, <1>9

\* Every step keeps the beams within their width.
LEMMA BeamStep ==
    ASSUME IndInv, BeamBounded, [Next]_vars
    PROVE  BeamBounded'
  <1> SUFFICES ASSUME NEW u \in Threads, pc'[u] = "search"
               PROVE  Cardinality(results'[u]) <= Ef(u)'
    BY DEF BeamBounded
  <1>1. CASE /\ pc[u] = "search" /\ results'[u] = results[u]
             /\ lc'[u] = lc[u] /\ level'[u] = level[u] /\ op'[u] = op[u]
    <2>1. Ef(u)' = Ef(u)
      BY <1>1 DEF Ef
    <2> QED
      BY <1>1, <2>1 DEF BeamBounded
  <1>2. ASSUME NEW t \in Threads, NEW e, NEW l, StartLayer(t, e, l), UNCHANGED args,
               \A w \in Threads : w # t => pc'[w] = pc[w]
        PROVE  Cardinality(results'[u]) <= Ef(u)'
    <2>1. CASE u = t
      BY <1>2, <2>1, StartBounded
    <2>2. CASE u # t
      BY <1>1, <1>2, <2>2 DEF StartLayer, args
    <2> QED
      BY <2>1, <2>2
  <1>3. CASE UNCHANGED vars
    BY <1>1, <1>3 DEF vars, args, beam
  <1>4. ASSUME NEW t \in Threads, NEW id \in Ids, NEW v \in Vec, NEW lv \in 0 .. MaxLevel,
               InsertAllocate(t, id, v, lv)
        PROVE  Cardinality(results'[u]) <= Ef(u)'
    BY <1>1, <1>4 DEF InsertAllocate, Idle, args, beam, IndInv, TypeOK, CallTypeOK
  <1>5. ASSUME NEW t \in Threads, NEW id \in Deletable, DeleteVector(t, id)
        PROVE  Cardinality(results'[u]) <= Ef(u)'
    BY <1>1, <1>5 DEF DeleteVector, args, beam
  <1>6. ASSUME NEW t \in Threads, NEW v \in Vec, NEW kk \in Ks, SearchLoad(t, v, kk)
        PROVE  Cardinality(results'[u]) <= Ef(u)'
    BY <1>1, <1>6 DEF SearchLoad, Idle, args, beam, IndInv, TypeOK, CallTypeOK
  <1>7. ASSUME NEW t \in Threads, ExpandCandidate(t)
        PROVE  Cardinality(results'[u]) <= Ef(u)'
    BY <1>1, <1>7 DEF ExpandCandidate, args
  <1>8. ASSUME NEW t \in Threads, EvalNeighbour(t)
        PROVE  Cardinality(results'[u]) <= Ef(u)'
    <2>1. pc' = pc /\ lc' = lc /\ UNCHANGED args
      BY <1>8 DEF EvalNeighbour
    <2>2. Ef(u)' = Ef(u)
      BY <2>1 DEF Ef, args
    <2>3. CASE u = t
      BY <1>8, <2>2, <2>3, EvalBounded
    <2>4. CASE u # t
      <3>1. results'[u] = results[u]
        BY <1>8, <2>4 DEF EvalNeighbour, IndInv, TypeOK, BeamTypeOK
      <3> QED
        BY <1>1, <2>1, <3>1 DEF args
    <2> QED
      BY <2>3, <2>4
  <1>9. ASSUME NEW t \in Threads, Descend(t)
        PROVE  Cardinality(results'[u]) <= Ef(u)'
    BY <1>2, <1>9 DEF Descend
  <1>10. ASSUME NEW t \in Threads, InsertReadEntry(t)
        PROVE  Cardinality(results'[u]) <= Ef(u)'
    BY <1>2, <1>10 DEF InsertReadEntry
  <1>11. ASSUME NEW t \in Threads, LinkOwn(t)
        PROVE  Cardinality(results'[u]) <= Ef(u)'
    <2>1. CASE u = t
      BY <1>11, <2>1 DEF LinkOwn, IndInv, TypeOK, CallTypeOK
    <2>2. CASE u # t
      <3>1. pc'[u] = pc[u] /\ results'[u] = results[u] /\ lc' = lc /\ UNCHANGED args
        BY <1>11, <2>2 DEF LinkOwn, IndInv, TypeOK, CallTypeOK, BeamTypeOK
      <3> QED
        BY <1>1, <3>1 DEF args
    <2> QED
      BY <2>1, <2>2
  <1>16. ASSUME NEW t \in Threads, LinkBack(t)
        PROVE  Cardinality(results'[u]) <= Ef(u)'
    <2>1. UNCHANGED <<pc, args, beam>>
      BY <1>16 DEF LinkBack
    <2> QED
      BY <1>1, <2>1 DEF args, beam
  <1>12. ASSUME NEW t \in Threads, NextLayer(t)
        PROVE  Cardinality(results'[u]) <= Ef(u)'
    <2>1. CASE StartLayer(t, ep[t], lc[t] - 1) /\ pc' = [pc EXCEPT ![t] = "search"]
      BY <1>2, <1>12, <2>1 DEF NextLayer
    <2>2. CASE pc' = [pc EXCEPT ![t] = "publish"] /\ UNCHANGED beam
      BY <1>1, <1>12, <2>2 DEF NextLayer, args, beam, IndInv, TypeOK, CallTypeOK
    <2> QED
      BY <1>12, <2>1, <2>2 DEF NextLayer
  <1>13. ASSUME NEW t \in Threads, InsertPublish(t) \/ SearchReturn(t)
        PROVE  Cardinality(results'[u]) <= Ef(u)'
    <2>1. CASE u = t
      BY <1>13, <2>1 DEF InsertPublish, SearchReturn, Finish, IndInv, TypeOK, CallTypeOK
    <2>2. CASE u # t
      BY <1>1, <1>13, <2>2 DEF InsertPublish, SearchReturn, Finish, IndInv, TypeOK, CallTypeOK, BeamTypeOK
    <2> QED
      BY <2>1, <2>2
  <1>14. ASSUME NEW t \in Threads, SearchEntry(t)
        PROVE  Cardinality(results'[u]) <= Ef(u)'
    <2>1. CASE \E e : StartLayer(t, e, max_layer) /\ pc' = [pc EXCEPT ![t] = "search"]
      BY <1>2, <1>14, <2>1 DEF SearchEntry
    <2>2. CASE pc' = [pc EXCEPT ![t] = "return"] /\ UNCHANGED beam
      BY <1>1, <1>14, <2>2 DEF SearchEntry, args, beam, IndInv, TypeOK, CallTypeOK
    <2> QED
      BY <1>14, <2>1, <2>2 DEF SearchEntry
  <1>15. ASSUME NEW t \in Threads, SearchCollect(t)
        PROVE  Cardinality(results'[u]) <= Ef(u)'
    BY <1>1, <1>15 DEF SearchCollect, args, beam, IndInv, TypeOK, CallTypeOK
  <1> QED
    BY <1>3, <1>4, <1>5, <1>6, <1>7, <1>8, <1>9, <1>10, <1>11, <1>12, <1>13, <1>14, <1>15, <1>16
    DEF Next, Step, InsertStep, LayerStep, SearchStep

\* No walk ever keeps more than its beam width.
LEMMA BeamsBounded == Spec => []BeamBounded
  <1>1. Init => BeamBounded
    BY DEF Init, BeamBounded
  <1> QED
    BY <1>1, BeamStep, Inductive, PTL DEF Spec

\* While a search runs it keeps the k it was called with, and it has handed
\* nothing back before its last critical section.
AnswerOK(t) ==
    /\ pc[t] # "return" => ret[t] = << >>
    /\ (pc[t] # "idle" /\ op[t] = "search") => k[t] \in Ks
    /\ pc[t] = "return" =>
          /\ Len(ret[t]) <= EfSearch
          /\ k[t] >= 1 => Len(ret[t]) <= k[t]
          /\ \A i, j \in DOMAIN ret[t] : i < j =>
                /\ ret[t][i] # ret[t][j]
                /\ SimTo(t, ret[t][i]) >= SimTo(t, ret[t][j])

\* An answer nobody touches stays well formed: the vectors it is sorted by
\* never change.
LEMMA AnswerKept ==
    ASSUME IndInv, NEW u \in Threads, AnswerOK(u),
           \A n \in Nodes : raw_vectors'[n] = raw_vectors[n],
           ret'[u] = ret[u], pc'[u] # "idle" => op'[u] = op[u], k'[u] = k[u], query'[u] = query[u],
           (pc'[u] = "return") = (pc[u] = "return"),
           (pc[u] = "idle") => (pc'[u] = "idle" \/ op'[u] = "insert")
    PROVE  AnswerOK(u)'
  <1>1. ret[u] \in Seq(Nodes)
    BY DEF IndInv, TypeOK, CallTypeOK
  <1>2. \A i \in DOMAIN ret[u] : ret[u][i] \in Nodes
    BY <1>1
  <1>3. \A i \in DOMAIN ret[u] : SimTo(u, ret[u][i])' = SimTo(u, ret[u][i])
    BY <1>2 DEF SimTo
  <1> QED
    BY <1>3 DEF AnswerOK, SimTo
LEMMA AnswerStep ==
    ASSUME IndInv, BeamBounded, Next, NEW u \in Threads, AnswerOK(u)
    PROVE  AnswerOK(u)'
  <1> USE DEF IndInv, TypeOK, CallTypeOK
  <1>1. ASSUME NEW t \in Threads, NEW id \in Ids, NEW v \in Vec, NEW lv \in 0 .. MaxLevel,
               InsertAllocate(t, id, v, lv)
        PROVE  AnswerOK(u)'
    <2>1. \A n \in Nodes : raw_vectors'[n] = raw_vectors[n]
      <3>1. num_vectors \in Nat /\ Nodes \subseteq 0 .. num_vectors /\ num_vectors \notin Nodes
        BY BoundAssumption DEF IndexTypeOK, Nodes
      <3>2. raw_vectors' = [i \in 0 .. num_vectors |-> IF i = num_vectors THEN v ELSE raw_vectors[i]]
        BY <1>1 DEF InsertAllocate, PushBack
      <3> QED
        BY <3>1, <3>2
    <2>2. CASE u # t
      BY <1>1, <2>1, <2>2, AnswerKept DEF InsertAllocate, args
    <2>3. CASE u = t /\ UNCHANGED <<pc, args>>
      BY <1>1, <2>1, <2>3, AnswerKept DEF InsertAllocate, args
    <2>4. CASE u = t /\ pc'[t] = "entry" /\ op'[t] = "insert"
      BY <1>1, <2>4 DEF InsertAllocate, Idle, AnswerOK
    <2> QED
      BY <1>1, <2>2, <2>3, <2>4 DEF InsertAllocate
  <1>2. ASSUME NEW t \in Threads, NEW id \in Deletable, DeleteVector(t, id) PROVE AnswerOK(u)'
    BY <1>2, AnswerKept DEF DeleteVector, args
  <1>3. ASSUME NEW t \in Threads, NEW v \in Vec, NEW kk \in Ks, SearchLoad(t, v, kk)
        PROVE  AnswerOK(u)'
    <2>1. CASE u # t
      BY <1>3, <2>1, AnswerKept DEF SearchLoad, index
    <2>2. CASE u = t
      <3>1. ret'[u] = << >> /\ k'[u] = kk /\ kk \in Int
        BY KsAssumption, <1>3, <2>2 DEF SearchLoad, Idle, AnswerOK
      <3>2. Len(ret'[u]) = 0 /\ DOMAIN ret'[u] = {}
        BY <3>1
      <3> QED
        BY <3>1, <3>2, EfAssumption DEF AnswerOK
    <2> QED
      BY <2>1, <2>2
  <1>4. ASSUME NEW t \in Threads, LayerStep(t) PROVE AnswerOK(u)'
    BY <1>4, AnswerKept DEF LayerStep, ExpandCandidate, EvalNeighbour, Descend, index, args
  <1>5. ASSUME NEW t \in Threads, InsertReadEntry(t) \/ LinkOwn(t) \/ LinkBack(t) \/ NextLayer(t)
        PROVE  AnswerOK(u)'
    <2>1. /\ raw_vectors' = raw_vectors /\ UNCHANGED <<ret, args>>
          /\ \A w \in Threads : /\ (pc'[w] = "return") = (pc[w] = "return")
                                /\ (pc[w] = "idle") => (pc'[w] = "idle")
      BY <1>5
      DEF InsertReadEntry, LinkOwn, LinkBack, NextLayer, LayerDone, Looping, index, args
    <2> QED
      BY <2>1, AnswerKept DEF args
  <1>6. ASSUME NEW t \in Threads, InsertPublish(t) PROVE AnswerOK(u)'
    <2>1. CASE u # t
      BY <1>6, <2>1, AnswerKept DEF InsertPublish, Finish
    <2>2. CASE u = t
      BY <1>6, <2>2 DEF InsertPublish, Finish, AnswerOK
    <2> QED
      BY <2>1, <2>2
  <1>7. ASSUME NEW t \in Threads, SearchEntry(t) PROVE AnswerOK(u)'
    <2>1. CASE u # t
      BY <1>7, <2>1, AnswerKept DEF SearchEntry, index, args
    <2>2. CASE u = t
      <3>1. ret'[u] = << >> /\ k'[u] = k[u] /\ k[u] \in Int /\ k[u] \in Ks
        BY KsAssumption, <1>7, <2>2 DEF SearchEntry, AnswerOK, args
      <3>2. Len(ret'[u]) = 0 /\ DOMAIN ret'[u] = {}
        BY <3>1
      <3> QED
        BY <3>1, <3>2, EfAssumption DEF AnswerOK
    <2> QED
      BY <2>1, <2>2
  <1>8. ASSUME NEW t \in Threads, SearchReturn(t) PROVE AnswerOK(u)'
    <2>1. CASE u # t
      BY <1>8, <2>1, AnswerKept DEF SearchReturn, Finish, index
    <2>2. CASE u = t
      BY <1>8, <2>2 DEF SearchReturn, Finish, AnswerOK
    <2> QED
      BY <2>1, <2>2
  <1>9. ASSUME NEW t \in Threads, SearchCollect(t) PROVE AnswerOK(u)'
    <2>1. CASE u # t
      BY <1>9, <2>1, AnswerKept DEF SearchCollect, index, args
    <2>2. CASE u = t
      <3> DEFINE alive == {n \in results[t] : ~tombstone[n]}
                 sim == [n \in alive |-> SimTo(t, n)]
      <3>1. PICK best \in Ranked(alive, sim) : ret' = [ret EXCEPT ![t] = Cut(best, k[t])]
        BY <1>9 DEF SearchCollect, Ranking
      <3>2. alive \subseteq Nodes /\ IsFiniteSet(alive)
        <4>1. alive \subseteq Nodes
          BY DEF BeamTypeOK
        <4>2. 0 \in Int /\ num_vectors - 1 \in Int
          BY DEF IndexTypeOK
        <4>3. IsFiniteSet(Nodes)
          BY <4>2, FS_Interval, Zenon DEF Nodes
        <4> QED
          BY <4>1, <4>3, FS_Subset
      <3>3. \A n \in alive : sim[n] = SimTo(t, n)
        OBVIOUS
      <3> HIDE DEF alive, sim
      <3>4. /\ best \in Seq(alive)
            /\ best \in [1 .. Cardinality(alive) -> alive]
            /\ Cardinality(alive) \in Nat
        BY <3>2, RankedType
      <3>5. \A i, j \in DOMAIN best : i < j =>
                best[i] # best[j] /\ SimTo(t, best[i]) >= SimTo(t, best[j])
        <4> SUFFICES ASSUME NEW i \in DOMAIN best, NEW j \in DOMAIN best, i < j
                     PROVE  best[i] # best[j] /\ SimTo(t, best[i]) >= SimTo(t, best[j])
          OBVIOUS
        <4>1. IsInjective(best) /\ \A a, b \in 1 .. Cardinality(alive) : a < b => sim[best[a]] >= sim[best[b]]
          BY DEF Ranked, Bijection, Injection
        <4>2. i # j /\ i \in 1 .. Cardinality(alive) /\ j \in 1 .. Cardinality(alive)
          BY <3>4
        <4>3. best[i] # best[j]
          BY <4>1, <4>2 DEF IsInjective
        <4> QED
          BY <3>3, <3>4, <4>1, <4>2, <4>3
      <3>6. k[t] \in Ks /\ k[t] \in Int
        <4>1. pc[t] = "search" /\ op[t] = "search"
          BY <1>9 DEF SearchCollect, LayerDone, Looping
        <4>2. k[t] \in Ks
          BY <2>2, <4>1 DEF AnswerOK
        <4> QED
          BY <4>2, KsAssumption
      <3>7. /\ k[t] >= 1 => Len(Cut(best, k[t])) <= k[t]
            /\ Len(Cut(best, k[t])) <= Len(best) /\ Cut(best, k[t]) \in Seq(alive)
            /\ \A i \in DOMAIN Cut(best, k[t]) : i \in DOMAIN best /\ Cut(best, k[t])[i] = best[i]
        BY <3>4, <3>6, CutType
      <3>8. /\ ret'[t] = Cut(best, k[t]) /\ pc'[t] = "return" /\ k'[t] = k[t]
            /\ \A n : SimTo(t, n)' = SimTo(t, n)
        BY <1>9, <3>1 DEF SearchCollect, args, index, SimTo
      <3>9. \A i, j \in DOMAIN ret'[t] : i < j =>
                ret'[t][i] # ret'[t][j] /\ SimTo(t, ret'[t][i]) >= SimTo(t, ret'[t][j])
        BY <3>5, <3>7, <3>8
      <3>11. Len(ret'[t]) <= EfSearch
        <4>1. pc[t] = "search" /\ op[t] = "search" /\ lc[t] = 0 /\ level[t] \in 0 .. MaxLevel
          BY <1>9 DEF SearchCollect, LayerDone, Looping
        <4>2. Cardinality(results[t]) <= EfSearch
          <5>1. ~(lc[t] > level[t]) /\ op[t] # "insert"
            BY <4>1, BoundAssumption
          <5> QED
            BY <4>1, <5>1 DEF BeamBounded, Ef
        <4>3. Cardinality(alive) <= Cardinality(results[t]) /\ Cardinality(results[t]) \in Nat
          <5>1. results[t] \in SUBSET Nodes /\ alive \subseteq results[t]
            BY DEF BeamTypeOK, alive
          <5> QED
            BY <5>1, NodesFinite, FS_Subset
        <4>4. Len(best) = Cardinality(alive) /\ Len(Cut(best, k[t])) \in Nat
          BY <3>4, <3>7
        <4> QED
          BY <3>4, <3>7, <3>8, <4>2, <4>3, <4>4, EfAssumption
      <3>10. query' = query /\ raw_vectors' = raw_vectors
        BY <1>9 DEF SearchCollect, args, index
      <3> QED
        BY <2>2, <3>6, <3>7, <3>8, <3>9, <3>10, <3>11 DEF AnswerOK, SimTo
    <2> QED
      BY <2>1, <2>2
  <1> QED
    BY <1>1, <1>2, <1>3, <1>4, <1>5, <1>6, <1>7, <1>8, <1>9 DEF Next, Step, InsertStep, SearchStep

\* The answers of searches in progress are well formed.
LEMMA AnswersOK == Spec => [](\A t \in Threads : AnswerOK(t))
  <1> DEFINE Inv == \A t \in Threads : AnswerOK(t)
  <1>1. Init => Inv
    BY DEF Init, AnswerOK
  <1>2. Inv /\ UNCHANGED vars => Inv'
    BY DEF AnswerOK, SimTo, vars, index, args
  <1>3. IndInv /\ BeamBounded /\ Inv /\ [Next]_vars => Inv'
    BY <1>2, AnswerStep
  <1> QED
    BY <1>1, <1>3, Inductive, BeamsBounded, PTL DEF Spec

\* An answer has no more slots than the beam is wide, at most k of them for
\* k >= 1, all different and best first, for every k a caller may pass, and
\* inserts and deletes that run beside the search do not disturb that.
THEOREM AnswersWellFormed == Spec => []AnswerWellFormed
  <1>1. (\A t \in Threads : AnswerOK(t)) => AnswerWellFormed
    BY DEF AnswerOK, AnswerWellFormed
  <1> QED
    BY <1>1, AnswersOK, PTL

-----------------------------------------------------------------------------
(* SettledIsFound.  A walk over layer 0 that drops nothing visits whatever can
   be reached from where it started, in a graph that grows while it walks. *)

\* The beam has room for the whole index.
Wide == EfSearch >= MaxVectors

\* No search starts at a slot that is still being linked in, which a deleted
\* entry point can make it do (HnswDeletedEntry.cfg).
Undisturbed == (OneLayer /\ Deletable = {}) \/ OneCaller

\* The links of the candidate that is being expanded.
Pending(t) == {nbs[t][i] : i \in DOMAIN nbs[t]}

\* A set that contains what search t has visited or copied, and that is closed
\* under the links of all but the slots it has expanded, contains every slot
\* it should find.
Covers(t) ==
    \A S \in SUBSET Nodes :
        (visited[t] \cup Pending(t) \subseteq S /\ Closed(S, visited[t] \ cands[t]))
            => settled[t] \subseteq S

\* How far search t is: what it must find, and what it holds, has joined; on
\* layer 0 nothing it has visited is dropped; its answer is complete.
SearchOK(t) ==
    /\ settled[t] \subseteq Joined /\ settled[t] \subseteq 0 .. nv[t] - 1
    /\ pc[t] = "search" => Held(t) \subseteq Joined
    /\ pc[t] = "search" /\ lc[t] = 0 =>
          visited[t] = results[t] /\ cands[t] \subseteq visited[t] /\ Covers(t)
    /\ pc[t] = "return" /\ k[t] >= MaxVectors =>
          Expected(t) \subseteq {ret[t][i] : i \in DOMAIN ret[t]}

\* Where nothing is deleted, no slot is dead.
NoTombstones == Deletable = {} => \A n \in Nodes : ~tombstone[n]

\* The inductive invariant behind SettledIsFound.
SearchInv == NoTombstones /\ \A t \in Threads : Searching(t) => SearchOK(t)

\* No step takes a tombstone away; only delete_vector sets one.
LEMMA TombstonesStay ==
    ASSUME IndInv, NEW t \in Threads, ThreadStep(t)
    PROVE  /\ \A n \in Nodes : tombstone[n] => tombstone'[n]
           /\ pc[t] # "idle" => tombstone' = tombstone /\ num_vectors' = num_vectors
           /\ NoTombstones => NoTombstones'
  <1>1. ASSUME NEW id \in Ids, NEW v \in Vec, NEW lv \in 0 .. MaxLevel, InsertAllocate(t, id, v, lv)
        PROVE  /\ \A n \in Nodes : tombstone[n] => tombstone'[n]
               /\ pc[t] = "idle" /\ (NoTombstones => NoTombstones')
    <2>1. /\ num_vectors \in Nat /\ Nodes' = Nodes \cup {num_vectors} /\ num_vectors \notin Nodes
          /\ Nodes' = 0 .. num_vectors
      BY <1>1 DEF InsertAllocate, IndInv, TypeOK, IndexTypeOK, Nodes
    <2>2. tombstone' = [i \in Nodes' |-> IF i = num_vectors THEN FALSE ELSE tombstone[i]]
      BY <1>1, <2>1 DEF InsertAllocate, PushBack
    <2>3. \A n \in Nodes : tombstone'[n] = tombstone[n]
      BY <2>1, <2>2
    <2>4. ~tombstone'[num_vectors]
      BY <2>1, <2>2
    <2>5. NoTombstones => NoTombstones'
      BY <2>1, <2>3, <2>4 DEF NoTombstones
    <2> QED
      BY <1>1, <2>3, <2>5 DEF InsertAllocate, Idle
  <1>2. ASSUME NEW id \in Deletable, DeleteVector(t, id)
        PROVE  /\ \A n \in Nodes : tombstone[n] => tombstone'[n]
               /\ pc[t] = "idle" /\ (NoTombstones => NoTombstones')
    BY <1>2 DEF DeleteVector, Idle, NoTombstones, IndInv, TypeOK, IndexTypeOK
  <1>3. ASSUME (\E v \in Vec, kk \in Ks : SearchLoad(t, v, kk)) \/ Step(t)
        PROVE  UNCHANGED <<num_vectors, tombstone>>
    BY <1>3 DEF SearchLoad, Step, InsertStep, LayerStep, SearchStep, InsertReadEntry, LinkOwn, LinkBack,
                NextLayer, InsertPublish, ExpandCandidate, EvalNeighbour, Descend, SearchEntry,
                SearchCollect, SearchReturn, index
  <1>4. UNCHANGED <<num_vectors, tombstone>> => NoTombstones' = NoTombstones
    BY DEF NoTombstones, Nodes
  <1> QED
    BY <1>1, <1>2, <1>3, <1>4 DEF ThreadStep

\* What a step by another thread must leave alone for search u.
LEMMA SearchKept ==
    ASSUME IndInv, NEW u \in Threads, SearchOK(u), Grows, Joined \subseteq Joined',
           UNCHANGED Local(u), Held(u)' = Held(u),
           \A n \in Nodes : tombstone[n] => tombstone'[n]
    PROVE  SearchOK(u)'
  <1> USE DEF Local
  <1>1. Pending(u)' = Pending(u) /\ Pending(u) \subseteq Nodes /\ visited[u] \subseteq Nodes
        /\ settled[u] \subseteq Nodes
    BY DEF Pending, IndInv, TypeOK, CallTypeOK, BeamTypeOK
  <1>2. ASSUME Covers(u) PROVE Covers(u)'
    <2> SUFFICES ASSUME NEW S \in SUBSET Nodes', visited[u] \cup Pending(u) \subseteq S,
                        Closed(S, visited[u] \ cands[u])'
                 PROVE  settled[u] \subseteq S
      BY <1>1 DEF Covers
    <2> DEFINE R == S \cap Nodes
    <2>1. visited[u] \cup Pending(u) \subseteq R
      BY <1>1
    <2>2. \A n \in R \ (visited[u] \ cands[u]) : Bottom(n)' \subseteq S
      BY DEF Closed
    <2>3. \A n \in R : Bottom(n) \subseteq Bottom(n)' /\ Bottom(n) \subseteq Nodes
      BY BottomType DEF Grows
    <2>4. Closed(R, visited[u] \ cands[u])
      BY <2>2, <2>3 DEF Closed
    <2> QED
      BY <1>2, <2>1, <2>4 DEF Covers
  <1>3. Expected(u)' \subseteq Expected(u)
    BY <1>1 DEF Expected
  <1> QED
    BY <1>2, <1>3 DEF SearchOK

\* A search leaves the graph alone.
LEMMA SearchQuiet ==
    ASSUME IndInv, NEW t \in Threads, ThreadStep(t), UNCHANGED <<num_vectors, graph>>,
           ~Inserting(t), ~Inserting(t)'
    PROVE  /\ Nodes' = Nodes /\ InFlight' = InFlight /\ Joined' = Joined
           /\ \A n : Bottom(n)' = Bottom(n)
  <1>1. \A u \in Threads \ {t} : Inserting(u)' = Inserting(u) /\ slot'[u] = slot[u]
    BY OthersUntouched DEF Local, Inserting
  <1>2. InFlight' = InFlight
    BY <1>1 DEF InFlight
  <1> QED
    BY <1>2, GraphUntouched

\* What search t does to its own call while it stays in it.
SameCall(t) ==
    /\ UNCHANGED <<num_vectors, graph>>
    /\ Searching(t) /\ Searching(t)'
    /\ settled'[t] = settled[t] /\ nv'[t] = nv[t] /\ todo'[t] = todo[t]

\* A walk that starts on layer 0 has all that has joined before it.
LEMMA SearchStart ==
    ASSUME IndInv, GraphInv, NEW t \in Threads, SearchOK(t), ThreadStep(t), SameCall(t),
           pc[t] # "link", pc'[t] = "search", NEW e \in Joined, NEW l, StartLayer(t, e, l)
    PROVE  SearchOK(t)'
  <1>1. /\ Nodes' = Nodes /\ Joined' = Joined /\ \A n : Bottom(n)' = Bottom(n)
    BY SearchQuiet DEF SameCall, Searching, Inserting
  <1>2. /\ ep'[t] = e /\ cands'[t] = {e} /\ results'[t] = {e} /\ visited'[t] = {e} /\ nbs'[t] = << >>
        /\ todo'[t] = << >>
    BY DEF StartLayer, SameCall, IndInv, TypeOK, BeamTypeOK, WalksStayOnLayer, WalkOK
  <1>3. Held(t)' = {e}
    BY <1>2 DEF Held
  <1>4. Covers(t)'
    <2> SUFFICES ASSUME NEW S \in SUBSET Nodes', e \in S, Closed(S, visited[t] \ cands[t])'
                 PROVE  settled'[t] \subseteq S
      BY <1>2 DEF Covers
    <2>1. Closed(S, {})
      BY <1>1, <1>2 DEF Closed
    <2>2. Joined \subseteq S
      BY <1>1, <2>1 DEF GraphInv, StronglyLinked
    <2> QED
      BY <2>2 DEF SearchOK, SameCall
  <1> QED
    BY <1>1, <1>2, <1>3, <1>4 DEF SearchOK, SameCall

\* A walk starts on a slot that has joined, so that all must be reachable.
LEMMA SearchEntryFinds ==
    ASSUME Undisturbed, IndInv, GraphInv, NoTombstones, NEW t \in Threads, SearchOK(t), SearchEntry(t)
    PROVE  SearchOK(t)'
  <1>1. ThreadStep(t)
    BY DEF ThreadStep, Step, SearchStep
  <1>2. pc[t] = "entry" /\ op[t] = "search" /\ num_vectors > 0 /\ entry_point \in Nodes
    BY DEF SearchEntry, IndInv, WalksStayOnLayer, WalkOK, EntryPointOnTop
  <1>3. SameCall(t) /\ pc'[t] \in {"search", "return"} /\ ret'[t] = ret[t]
    BY <1>2 DEF SearchEntry, SameCall, Searching, args, index, history, IndInv, TypeOK, CallTypeOK
  <1>4. entry_point \in Joined
    BY <1>2 DEF GraphInv, SlotsApart, Joined
  <1>5. CASE StartLayer(t, entry_point, max_layer) /\ pc'[t] = "search"
    BY <1>1, <1>2, <1>3, <1>4, <1>5, SearchStart
  <1>6. CASE tombstone[entry_point]
    <2>1. OneCaller
      BY <1>2, <1>6 DEF NoTombstones, Undisturbed
    <2>2. InFlight = {}
      BY <1>2, <2>1 DEF OneCaller, InFlight, Inserting
    <2>3. Joined = Nodes
      BY <2>2 DEF Joined
    <2>4. 0 .. nv[t] - 1 \subseteq Nodes
      BY DEF IndInv, TypeOK, IndexTypeOK, CallTypeOK, Nodes
    <2>5. CASE \E i \in 0 .. nv[t] - 1 : StartLayer(t, i, max_layer) /\ pc'[t] = "search"
      BY <1>1, <1>2, <1>3, <2>3, <2>4, <2>5, SearchStart
    <2>6. CASE pc'[t] = "return" /\ {i \in 0 .. nv[t] - 1 : ~tombstone[i]} = {}
      <3>1. Expected(t)' = {}
        BY <1>3, <2>6 DEF SearchEntry, index, SearchOK, SameCall, Expected
      <3>2. Joined' = Joined
        BY <1>1, <1>3, SearchQuiet DEF SameCall, Searching, Inserting
      <3> QED
        BY <1>3, <2>6, <3>1, <3>2 DEF SearchOK, SameCall
    <2> QED
      BY <1>3, <1>6, <2>5, <2>6 DEF SearchEntry, IndInv, TypeOK, CallTypeOK
  <1> QED
    BY <1>3, <1>5, <1>6 DEF SearchEntry, IndInv, TypeOK, CallTypeOK

\* What has been inserted when a search is called has joined.
LEMMA SearchLoadFinds ==
    ASSUME IndInv, NEW t \in Threads, NEW v \in Vec, NEW kk \in Ks, SearchLoad(t, v, kk)
    PROVE  SearchOK(t)'
  <1>1. ThreadStep(t)
    BY DEF ThreadStep
  <1>2. /\ op'[t] = "search" /\ nv'[t] = num_vectors /\ settled'[t] = Nodes \ InFlight
        /\ pc'[t] = (IF num_vectors = 0 THEN "return" ELSE "entry")
        /\ UNCHANGED <<num_vectors, graph>> /\ ~Inserting(t) /\ ~Inserting(t)'
    BY DEF SearchLoad, index, Idle, Inserting, IndInv, TypeOK, CallTypeOK
  <1>3. Nodes' = Nodes /\ Joined' = Joined
    BY <1>1, <1>2, SearchQuiet
  <1>4. num_vectors = 0 => Nodes = {}
    BY DEF Nodes
  <1>5. pc'[t] = "return" => Expected(t)' = {}
    BY <1>2, <1>4 DEF Expected
  <1> QED
    BY <1>2, <1>3, <1>5 DEF SearchOK, Joined, Nodes

\* A walk over the next layer starts on a slot that has joined.
LEMMA DescendFinds ==
    ASSUME IndInv, GraphInv, NEW t \in Threads, Searching(t), SearchOK(t), Descend(t)
    PROVE  SearchOK(t)'
  <1>1. ThreadStep(t)
    BY DEF ThreadStep, Step, LayerStep
  <1>2. pc[t] = "search"
    BY DEF Descend, LayerDone, Looping
  <1>3. PICK found \in Found(t) : StartLayer(t, Front(t, found), lc[t] - 1)
    BY DEF Descend
  <1>4. Front(t, found) \in Joined
    BY <1>2, FrontHeld DEF SearchOK
  <1>5. SameCall(t) /\ pc'[t] = "search"
    BY <1>2 DEF Descend, SameCall, Searching, args, index, history
  <1> DEFINE e == Front(t, found)
             l == lc[t] - 1
  <1>6. e \in Joined /\ StartLayer(t, e, l)
    BY <1>3, <1>4
  <1> HIDE DEF e, l
  <1> SUFFICES ASSUME NEW x, x = e, NEW y, y = l, StartLayer(t, x, y) PROVE SearchOK(t)'
    BY <1>6 DEF StartLayer
  <1> QED
    BY <1>1, <1>2, <1>5, <1>6, SearchStart

\* The links of an expanded candidate are visited next.
LEMMA ExpandCandidateFinds ==
    ASSUME OneLayer \/ OneCaller, IndInv, GraphInv, NEW t \in Threads, Searching(t), SearchOK(t),
           ExpandCandidate(t)
    PROVE  SearchOK(t)'
  <1>1. ThreadStep(t)
    BY DEF ThreadStep, Step, LayerStep
  <1>2. pc[t] = "search" /\ nbs[t] = << >>
    BY DEF ExpandCandidate, Looping
  <1>3. /\ SameCall(t) /\ pc'[t] = "search" /\ lc'[t] = lc[t] /\ visited' = visited /\ results' = results
        /\ ep' = ep /\ todo' = todo
    BY <1>2 DEF ExpandCandidate, SameCall, Searching, args, index, history
  <1>4. /\ Nodes' = Nodes /\ Joined' = Joined /\ \A n : Bottom(n)' = Bottom(n)
    BY <1>1, <1>3, SearchQuiet DEF SameCall, Searching, Inserting
  <1>5. PICK c \in cands[t] :
            /\ cands' = [cands EXCEPT ![t] = @ \ {c}]
            /\ nbs' = [nbs EXCEPT ![t] = IF lc[t] \in Layers(c) THEN graph[c][lc[t]] ELSE << >>]
    BY DEF ExpandCandidate
  <1>6. /\ cands'[t] = cands[t] \ {c} /\ c \in Nodes
        /\ nbs'[t] = (IF lc[t] \in Layers(c) THEN graph[c][lc[t]] ELSE << >>)
    BY <1>5 DEF IndInv, TypeOK, BeamTypeOK
  <1>7. Pending(t)' = IF lc[t] \in Layers(c) THEN NodeLinks(c, lc[t]) ELSE {}
    BY <1>6 DEF Pending, NodeLinks
  <1>8. Held(t)' \subseteq Held(t) \cup Pending(t)'
    BY <1>3, <1>6 DEF Held, Pending
  <1>9. Pending(t)' \subseteq Joined
    BY <1>2, <1>6, <1>7, LinksJoined
  <1>10. ASSUME lc[t] = 0, Covers(t) PROVE Covers(t)'
    <2>1. Pending(t)' = Bottom(c)
      BY <1>6, <1>7, <1>10, BottomType DEF Bottom
    <2> SUFFICES ASSUME NEW S \in SUBSET Nodes', (visited[t] \cup Pending(t))' \subseteq S,
                        Closed(S, visited[t] \ cands[t])'
                 PROVE  settled'[t] \subseteq S
      BY DEF Covers
    <2>2. Closed(S, visited[t] \ cands[t])
      BY <1>3, <1>4, <1>6, <2>1 DEF Closed
    <2>3. Pending(t) = {}
      BY <1>2 DEF Pending
    <2> QED
      BY <1>3, <1>4, <1>10, <2>2, <2>3 DEF Covers, SameCall
  <1> QED
    BY <1>2, <1>3, <1>4, <1>6, <1>8, <1>9, <1>10 DEF SearchOK, SameCall

\* While the beam has room for the whole index, every slot that is met is kept.
LEMMA NothingDropped ==
    ASSUME Wide, IndInv, NEW t \in Threads, Searching(t), lc[t] = 0, NEW n \in Nodes, n \notin results[t]
    PROVE  ~Full(t) /\ Cardinality(results[t] \cup {n}) <= Ef(t)
  <1>1. results[t] \in SUBSET Nodes /\ results[t] \cup {n} \in SUBSET Nodes
    BY DEF IndInv, TypeOK, BeamTypeOK
  <1>2. /\ IsFiniteSet(results[t]) /\ Cardinality(results[t]) \in Nat
        /\ Cardinality(results[t] \cup {n}) \in Nat
        /\ Cardinality(results[t] \cup {n}) <= num_vectors /\ num_vectors \in Nat
    BY <1>1, NodesFinite
  <1>3. Cardinality(results[t] \cup {n}) = Cardinality(results[t]) + 1
    BY <1>2, FS_AddElement
  <1>4. Ef(t) = EfSearch
    BY DEF Ef, Searching, IndInv, TypeOK, CallTypeOK
  <1>5. num_vectors <= EfSearch /\ EfSearch \in Nat
    BY BoundAssumption, EfAssumption DEF Wide, IndInv, TypeOK, IndexTypeOK
  <1> QED
    BY <1>2, <1>3, <1>4, <1>5 DEF Full

\* A scored link is among the visited slots, and in a wide beam.
LEMMA EvalNeighbourFinds ==
    ASSUME Wide, IndInv, GraphInv, NEW t \in Threads, Searching(t), SearchOK(t), EvalNeighbour(t)
    PROVE  SearchOK(t)'
  <1>1. ThreadStep(t)
    BY DEF ThreadStep, Step, LayerStep
  <1>2. pc[t] = "search" /\ nbs[t] # << >> /\ nbs[t] \in Seq(Nodes)
    BY DEF EvalNeighbour, IndInv, TypeOK, BeamTypeOK
  <1>3. /\ SameCall(t) /\ pc'[t] = "search" /\ lc'[t] = lc[t] /\ ep' = ep /\ todo' = todo
    BY <1>2 DEF EvalNeighbour, SameCall, Searching, args, index, history
  <1>4. /\ Nodes' = Nodes /\ Joined' = Joined /\ \A n : Bottom(n)' = Bottom(n)
    BY <1>1, <1>3, SearchQuiet DEF SameCall, Searching, Inserting
  <1> SUFFICES ASSUME NEW nb, nb = Head(nbs[t]) PROVE SearchOK(t)'
    OBVIOUS
  <1>5. /\ nbs'[t] = Tail(nbs[t]) /\ visited'[t] = visited[t] \cup {nb}
    BY DEF EvalNeighbour, IndInv, TypeOK, BeamTypeOK
  <1>6. /\ nb \in Nodes /\ Pending(t) = Pending(t)' \cup {nb}
    <2> DEFINE s == nbs[t]
    <2>1. s \in Seq(Nodes) /\ s # << >> /\ nb = Head(s)
      BY <1>2
    <2> HIDE DEF s
    <2>2. /\ DOMAIN s = 1 .. Len(s) /\ Len(s) \in Nat /\ Len(s) >= 1 /\ nb = s[1]
          /\ DOMAIN Tail(s) = 1 .. Len(s) - 1 /\ \A i \in 1 .. Len(s) - 1 : Tail(s)[i] = s[i + 1]
      BY <2>1
    <2>3. \A i \in 1 .. Len(s) : i = 1 \/ (i - 1 \in 1 .. Len(s) - 1 /\ (i - 1) + 1 = i)
      BY <2>2
    <2>4. \A i \in 1 .. Len(s) - 1 : i + 1 \in 1 .. Len(s)
      BY <2>2
    <2>5. {s[i] : i \in DOMAIN s} = {Tail(s)[i] : i \in DOMAIN Tail(s)} \cup {nb}
      <3>1. \A i \in DOMAIN s : s[i] \in {Tail(s)[j] : j \in DOMAIN Tail(s)} \cup {nb}
        BY <2>2, <2>3
      <3>2. \A i \in DOMAIN Tail(s) : Tail(s)[i] \in {s[j] : j \in DOMAIN s}
        BY <2>2, <2>4
      <3>3. nb \in {s[j] : j \in DOMAIN s}
        BY <2>2
      <3> QED
        BY <3>1, <3>2, <3>3
    <2>6. nb \in Nodes
      BY <2>1, <2>2
    <2> QED
      BY <1>5, <2>5, <2>6 DEF Pending, s
  <1> DEFINE grown == results[t] \cup {nb}
  <1>7. \/ /\ nb \notin visited[t]
           /\ cands'[t] = cands[t] \cup {nb}
           /\ results'[t] = IF Cardinality(grown) > Ef(t) THEN grown \ {Worst(t, grown)} ELSE grown
        \/ /\ UNCHANGED <<cands, results>>
           /\ ~Full(t) => nb \in visited[t]
    <2> HIDE DEF grown
    <2>1. CASE /\ nb \notin visited[t]
               /\ cands' = [cands EXCEPT ![t] = @ \cup {nb}]
               /\ results' = [results EXCEPT ![t] =
                     IF Cardinality(grown) > Ef(t) THEN grown \ {Worst(t, grown)} ELSE grown]
      BY <2>1 DEF IndInv, TypeOK, BeamTypeOK
    <2>2. CASE UNCHANGED <<cands, results>> /\ (~Full(t) => nb \in visited[t])
      BY <2>2
    <2> QED
      BY <2>1, <2>2 DEF EvalNeighbour, grown
  <1>8. Held(t)' \subseteq Held(t)
    <2>1. results'[t] \subseteq results[t] \cup {nb} /\ cands'[t] \subseteq cands[t] \cup {nb}
      BY <1>7
    <2>2. nb \in Pending(t) /\ Pending(t)' \subseteq Pending(t)
      BY <1>6
    <2> QED
      BY <1>3, <2>1, <2>2 DEF Held, Pending
  <1>9. ASSUME lc[t] = 0
        PROVE  visited'[t] = results'[t] /\ cands'[t] \subseteq visited'[t] /\ Covers(t)'
    <2>1. visited[t] = results[t] /\ cands[t] \subseteq visited[t] /\ Covers(t)
      BY <1>2, <1>9 DEF SearchOK
    <2>2. \/ /\ nb \notin visited[t]
             /\ cands'[t] = cands[t] \cup {nb} /\ results'[t] = results[t] \cup {nb}
          \/ /\ nb \in visited[t]
             /\ cands'[t] = cands[t] /\ results'[t] = results[t]
      <3>1. CASE nb \in visited[t]
        BY <1>7, <3>1
      <3>2. CASE nb \notin visited[t]
        <4>1. ~Full(t) /\ Cardinality(grown) <= Ef(t) /\ Cardinality(grown) \in Nat /\ Ef(t) \in Nat
          <5>1. grown \in SUBSET Nodes
            BY <1>6 DEF IndInv, TypeOK, BeamTypeOK
          <5> QED
            BY <1>6, <1>9, <2>1, <3>2, <5>1, NothingDropped, NodesFinite, EfPositive
        <4> HIDE DEF grown
        <4>2. ~(Cardinality(grown) > Ef(t))
          BY <4>1
        <4> QED
          BY <1>7, <3>2, <4>1, <4>2 DEF grown
      <3> QED
        BY <3>1, <3>2
    <2>3. Covers(t)'
      <3> SUFFICES ASSUME NEW S \in SUBSET Nodes', (visited[t] \cup Pending(t))' \subseteq S,
                          Closed(S, visited[t] \ cands[t])'
                   PROVE  settled'[t] \subseteq S
        BY DEF Covers
      <3>1. visited'[t] \ cands'[t] \subseteq visited[t] \ cands[t]
        BY <1>5, <2>2
      <3>2. Closed(S, visited[t] \ cands[t])
        BY <1>4, <3>1 DEF Closed
      <3>3. visited[t] \cup Pending(t) \subseteq S
        BY <1>5, <1>6
      <3> QED
        BY <1>3, <1>4, <2>1, <3>2, <3>3 DEF Covers, SameCall
    <2> QED
      BY <1>5, <2>1, <2>2, <2>3
  <1> QED
    BY <1>2, <1>3, <1>4, <1>8, <1>9 DEF SearchOK, SameCall

\* A wide walk that ends on layer 0 has expanded all it visited, and holds
\* every slot it should find.
LEMMA WalkComplete ==
    ASSUME IndInv, NEW t \in Threads, Searching(t), SearchOK(t), LayerDone(t), lc[t] = 0
    PROVE  cands[t] = {} /\ settled[t] \subseteq results[t]
  <1>1. /\ pc[t] = "search" /\ nbs[t] = << >>
        /\ visited[t] = results[t] /\ cands[t] \subseteq results[t] /\ Covers(t)
    BY DEF LayerDone, Looping, SearchOK
  <1>2. results[t] \in SUBSET Nodes /\ cands[t] \in SUBSET Nodes
    BY DEF IndInv, TypeOK, BeamTypeOK
  <1>3. cands[t] = {}
    <2> SUFFICES ASSUME cands[t] # {} PROVE FALSE
      OBVIOUS
    <2>1. PICK c \in cands[t] : IsNearest(t, c)
      BY <1>2, TopExists
    <2>2. results[t] # {} /\ c \in results[t] /\ c \in Nodes
      BY <1>1, <1>2
    <2>3. Worst(t, results[t]) \in results[t] /\ SimTo(t, Worst(t, results[t])) <= SimTo(t, c)
      BY <1>2, <2>2, TopExists
    <2>4. SimTo(t, c) < SimTo(t, Worst(t, results[t]))
      BY <2>1 DEF LayerDone, Hopeless
    <2>5. \A n \in Nodes : SimTo(t, n) \in Int
      BY SimAssumption DEF IndInv, TypeOK, IndexTypeOK, CallTypeOK, SimTo
    <2>6. SimTo(t, c) \in Int /\ SimTo(t, Worst(t, results[t])) \in Int
      BY <1>2, <2>2, <2>3, <2>5
    <2> QED
      BY <2>3, <2>4, <2>6
  <1>4. Pending(t) = {}
    BY <1>1 DEF Pending
  <1>5. Closed(visited[t], visited[t] \ cands[t])
    BY <1>3 DEF Closed
  <1>6. settled[t] \subseteq visited[t]
    BY <1>1, <1>2, <1>4, <1>5 DEF Covers
  <1> QED
    BY <1>1, <1>3, <1>6

\* best ranks the live slots of the beam of search t, each of them once.
Collected(t, best) ==
    /\ best \in Seq(Alive(t)) /\ Len(best) = Cardinality(Alive(t))
    /\ Cardinality(Alive(t)) \in Nat /\ Cardinality(Alive(t)) <= num_vectors
    /\ \A i, j \in DOMAIN best : best[i] = best[j] => i = j
    /\ \A n \in Alive(t) : \E i \in DOMAIN best : best[i] = n
    /\ \A i, j \in DOMAIN best : i < j => SimTo(t, best[i]) >= SimTo(t, best[j])

\* SearchCollect hands back the first k of such a ranking.
LEMMA CollectedAll ==
    ASSUME IndInv, NEW t \in Threads, SearchCollect(t)
    PROVE  \E best : Collected(t, best) /\ ret'[t] = Cut(best, k[t]) /\ k[t] \in Int
  <1> DEFINE A == Alive(t)
  <1>1. PICK best \in Ranking(t, A) : ret' = [ret EXCEPT ![t] = Cut(best, k[t])]
    BY DEF SearchCollect
  <1>2. A \in SUBSET Nodes
    BY DEF IndInv, TypeOK, BeamTypeOK
  <1> HIDE DEF A
  <1>3. IsFiniteSet(A) /\ Cardinality(A) \in Nat /\ Cardinality(A) <= num_vectors
    BY <1>2, NodesFinite
  <1>4. best \in Ranked(A, [n \in A |-> SimTo(t, n)])
    BY <1>1 DEF Ranking
  <1>5. best \in Seq(A) /\ Len(best) = Cardinality(A)
    BY <1>3, <1>4, RankedType
  <1>6. /\ \A i, j \in DOMAIN best : best[i] = best[j] => i = j
        /\ \A n \in A : \E i \in DOMAIN best : best[i] = n
    BY <1>3, <1>4, RankedInjective
  <1>7. ret'[t] = Cut(best, k[t])
    BY <1>1 DEF IndInv, TypeOK, CallTypeOK
  <1>8. \A i, j \in DOMAIN best : i < j => SimTo(t, best[i]) >= SimTo(t, best[j])
    <2> DEFINE sim == [n \in A |-> SimTo(t, n)]
    <2>1. \A i, j \in 1 .. Cardinality(A) : i < j => sim[best[i]] >= sim[best[j]]
      BY <1>4 DEF Ranked
    <2>2. \A n \in A : sim[n] = SimTo(t, n)
      OBVIOUS
    <2> HIDE DEF sim
    <2> QED
      BY <1>3, <1>5, <2>1, <2>2
  <1>9. k[t] \in Int
    <2>1. k[t] \in Ks \cup {0}
      BY DEF IndInv, TypeOK, CallTypeOK
    <2>2. 0 \in Int
      OBVIOUS
    <2> QED
      BY <2>1, <2>2, KsAssumption, Zenon
  <1> QED
    <2>1. Collected(t, best)
      BY <1>3, <1>5, <1>6, <1>8 DEF A, Collected
    <2> QED
      BY <1>7, <1>9, <2>1

\* The answer holds every slot the search should find.
LEMMA SearchCollectFinds ==
    ASSUME IndInv, GraphInv, NEW t \in Threads, Searching(t), SearchOK(t), SearchCollect(t)
    PROVE  SearchOK(t)'
  <1>1. ThreadStep(t)
    BY DEF ThreadStep, Step, SearchStep
  <1>2. LayerDone(t) /\ lc[t] = 0 /\ pc[t] = "search"
    BY DEF SearchCollect, LayerDone, Looping
  <1>3. settled[t] \subseteq results[t]
    BY <1>2, WalkComplete
  <1>4. /\ SameCall(t) /\ pc'[t] = "return" /\ k' = k /\ tombstone' = tombstone
    BY <1>2 DEF SearchCollect, SameCall, Searching, args, index, history, IndInv, TypeOK, CallTypeOK
  <1>5. Joined' = Joined
    BY <1>1, <1>4, SearchQuiet DEF SameCall, Searching, Inserting
  <1>6. Expected(t)' \subseteq Alive(t)
    BY <1>3, <1>4 DEF Expected, SameCall
  <1>7. ASSUME k[t] >= MaxVectors PROVE Alive(t) \subseteq {ret'[t][i] : i \in DOMAIN ret'[t]}
    <2> DEFINE A == Alive(t)
    <2>0. PICK best : Collected(t, best) /\ ret'[t] = Cut(best, k[t]) /\ k[t] \in Int
      BY CollectedAll
    <2>1. /\ best \in Seq(A) /\ Len(best) = Cardinality(A)
          /\ Cardinality(A) \in Nat /\ Cardinality(A) <= num_vectors
          /\ \A n \in A : \E i \in DOMAIN best : best[i] = n
      BY <2>0 DEF Collected
    <2> HIDE DEF A
    <2>2. Len(best) <= k[t] /\ Len(best) \in Nat
      BY <1>7, <2>0, <2>1, BoundAssumption DEF IndInv, TypeOK, IndexTypeOK
    <2>3. MinOf(k[t], Len(best)) = Len(best)
      BY <2>0, <2>2 DEF MinOf
    <2>4. Cut(best, k[t]) = best
      BY <2>1, <2>2, <2>3 DEF Cut
    <2> QED
      BY <2>0, <2>1, <2>4 DEF A
  <1>8. pc'[t] = "return" /\ k'[t] >= MaxVectors =>
            Expected(t)' \subseteq {ret'[t][i] : i \in DOMAIN ret'[t]}
    BY <1>4, <1>6, <1>7
  <1> QED
    BY <1>4, <1>5, <1>8 DEF SearchOK, SameCall

\* Every step, of the search or of another thread, keeps the invariant.
LEMMA NextFinds ==
    ASSUME Undisturbed, Roomy, Wide, IndInv, IndInv', GraphInv, SearchInv, [Next]_vars
    PROVE  SearchInv'
  <1>1. ASSUME NEW t \in Threads, ThreadStep(t) PROVE SearchInv'
    <2>1. Grows /\ Joined \subseteq Joined'
      <3>1. [Next]_vars
        OBVIOUS
      <3> QED
        BY <3>1, NextGrows
    <2>2. NoTombstones' /\ \A n \in Nodes : tombstone[n] => tombstone'[n]
      BY <1>1, TombstonesStay DEF SearchInv
    <2>3. ASSUME NEW u \in Threads, u # t, Searching(u)' PROVE SearchOK(u)'
      <3>1. UNCHANGED Local(u) /\ Held(u)' = Held(u) /\ Searching(u)
        BY <1>1, <2>3, OthersUntouched
      <3>2. SearchOK(u)
        BY <3>1 DEF SearchInv
      <3> QED
        BY <2>1, <2>2, <3>1, <3>2, SearchKept
    <2>4. ASSUME Searching(t)' PROVE SearchOK(t)'
      <3>1. Searching(t) => SearchOK(t)
        BY DEF SearchInv
      <3>2. CASE \E v \in Vec, kk \in Ks : SearchLoad(t, v, kk)
        BY <3>2, SearchLoadFinds
      <3>3. CASE /\ Searching(t)
                 /\ \/ ExpandCandidate(t) \/ EvalNeighbour(t) \/ Descend(t)
                    \/ SearchEntry(t) \/ SearchCollect(t)
        <4>1. OneLayer \/ OneCaller
          BY DEF Undisturbed
        <4> QED
          BY <3>1, <3>3, <4>1, ExpandCandidateFinds, EvalNeighbourFinds, DescendFinds,
             SearchEntryFinds, SearchCollectFinds DEF SearchInv
      <3>4. CASE \E id \in Deletable : DeleteVector(t, id)
        BY <2>4, <3>4 DEF DeleteVector, Idle, Searching
      <3>5. CASE \E id \in Ids, v \in Vec, lv \in 0 .. MaxLevel : InsertAllocate(t, id, v, lv)
        BY <2>4, <3>5 DEF InsertAllocate, Idle, Searching, args, IndInv, TypeOK, CallTypeOK
      <3>6. CASE InsertStep(t)
        <4>1. op[t] = "insert"
          BY <3>6 DEF InsertStep, InsertReadEntry, LinkOwn, LinkBack, NextLayer, InsertPublish,
                      IndInv, WalksStayOnLayer, WalkOK
        <4>2. op'[t] = "insert"
          BY <3>6, <4>1 DEF InsertStep, InsertReadEntry, LinkOwn, LinkBack, NextLayer, InsertPublish,
                            Finish, args, IndInv, TypeOK, CallTypeOK
        <4> QED
          BY <2>4, <4>2 DEF Searching
      <3>7. CASE SearchReturn(t)
        BY <2>4, <3>7 DEF SearchReturn, Finish, Searching, IndInv, TypeOK, CallTypeOK
      <3>8. CASE /\ ~Searching(t)
                 /\ LayerStep(t) \/ SearchEntry(t) \/ SearchCollect(t)
        BY <2>4, <3>8 DEF LayerStep, ExpandCandidate, EvalNeighbour, Descend, LayerDone, Looping,
                          SearchEntry, SearchCollect, Searching, args
      <3> QED
        BY <1>1, <3>2, <3>3, <3>4, <3>5, <3>6, <3>7, <3>8 DEF ThreadStep, Step, LayerStep, SearchStep
    <2> QED
      BY <2>2, <2>3, <2>4 DEF SearchInv
  <1>2. ASSUME UNCHANGED vars PROVE SearchInv'
    <2> USE DEF vars, index, args, beam, history
    <2>1. NoTombstones' = NoTombstones
      BY <1>2 DEF NoTombstones, Nodes
    <2>2. ASSUME NEW u \in Threads, Searching(u)' PROVE SearchOK(u)'
      <3>1. Searching(u) /\ UNCHANGED Local(u) /\ Held(u)' = Held(u)
        BY <1>2, <2>2 DEF Searching, Local, Held
      <3>2. Grows /\ Joined \subseteq Joined'
        BY <1>2, NextGrows
      <3>3. SearchOK(u) /\ tombstone' = tombstone
        BY <1>2, <3>1 DEF SearchInv
      <3> QED
        BY <3>1, <3>2, <3>3, SearchKept
    <2> QED
      BY <2>1, <2>2 DEF SearchInv
  <1> QED
    BY <1>1, <1>2 DEF Next, ThreadStep

\* Nobody searches an empty index yet.
LEMMA InitFinds == Init => SearchInv
  BY DEF Init, SearchInv, NoTombstones, Searching, Nodes

\* A search with a beam and a k as large as the index hands back every live
\* slot whose insert had returned before it was called, while any number of
\* inserts extends layer 0 under its feet; or, for a single caller, on any
\* number of layers and with deletions in between.
THEOREM SettledAlwaysFound ==
    ASSUME Undisturbed, Roomy
    PROVE  Spec => []SettledIsFound
  <1>1. CASE Wide
    <2>1. OneLayer \/ OneWriter
      BY WritersAssumption DEF Undisturbed, OneCaller, OneWriter
    <2>2. Spec => [](IndInv /\ GraphInv)
      BY <2>1, GraphInductive
    <2>3. IndInv /\ IndInv' /\ GraphInv /\ SearchInv /\ [Next]_vars => SearchInv'
      BY <1>1, NextFinds
    <2>4. IndInv /\ SearchInv => SettledIsFound
      <3> SUFFICES ASSUME IndInv, SearchInv, NEW t \in Threads, pc[t] = "return", k[t] >= MaxVectors
                   PROVE  Expected(t) \subseteq {ret[t][i] : i \in DOMAIN ret[t]}
        BY DEF SettledIsFound
      <3>1. Searching(t)
        BY DEF IndInv, WalksStayOnLayer, WalkOK, Inserting, Searching, TypeOK, CallTypeOK
      <3> QED
        BY <3>1 DEF SearchInv, SearchOK
    <2> QED
      BY <2>2, <2>3, <2>4, InitFinds, PTL DEF Spec
  <1>2. CASE ~Wide
    <2>1. SettledIsFound
      BY <1>2 DEF Wide, SettledIsFound
    <2> QED
      BY <2>1, PTL
  <1> QED
    BY <1>1, <1>2

-----------------------------------------------------------------------------
(* SearchExact.  For a single caller the settled slots are all there are. *)
\* The answer of search t is the k best of the slots it should find.
ExactAnswer(t) ==
    LET answer == {ret[t][i] : i \in DOMAIN ret[t]}
    IN  /\ Len(ret[t]) = MinOf(k[t], Cardinality(Expected(t)))
        /\ \A n \in Expected(t) \ answer : \A m \in answer : SimTo(t, m) >= SimTo(t, n)

\* For a single caller, a search should find every slot of the index.
ExactOK(t) == settled[t] = Nodes /\ (pc[t] = "return" => ExactAnswer(t))

\* The inductive invariant behind SearchExact.
ExactInv == \A t \in Threads : Searching(t) => ExactOK(t)

\* An empty answer is exact when no live slot exists.
LEMMA NothingExpected ==
    ASSUME NEW t, k'[t] \in Nat, ret'[t] = << >>, Expected(t)' = {}
    PROVE  ExactAnswer(t)'
  <1>1. Cardinality(Expected(t)') = 0 /\ Len(ret'[t]) = 0
    BY FS_EmptySet
  <1>2. MinOf(k'[t], 0) = 0
    BY DEF MinOf
  <1>3. Len(ret'[t]) = MinOf(k'[t], Cardinality(Expected(t)'))
    BY <1>1, <1>2
  <1> QED
    BY <1>3 DEF ExactAnswer

\* No insert is running when a single caller searches.
LEMMA SearchLoadExact ==
    ASSUME OneCaller, IndInv, NEW t \in Threads, AnswerOK(t), AnswerOK(t)', NEW v \in Vec, NEW kk \in Ks,
           Ks \subseteq Nat \ {0}, SearchLoad(t, v, kk)
    PROVE  ExactOK(t)'
  <1>1. /\ settled'[t] = Nodes \ InFlight /\ num_vectors' = num_vectors /\ ret' = ret /\ k'[t] = kk
        /\ pc'[t] = (IF num_vectors = 0 THEN "return" ELSE "entry") /\ pc[t] = "idle"
    BY DEF SearchLoad, index, Idle, IndInv, TypeOK, CallTypeOK
  <1>2. InFlight = {}
    BY <1>1 DEF OneCaller, InFlight, Inserting
  <1>3. Nodes' = Nodes /\ (num_vectors = 0 => Nodes = {})
    BY <1>1 DEF Nodes
  <1>4. settled'[t] = Nodes'
    BY <1>1, <1>2, <1>3
  <1>5. ASSUME pc'[t] = "return" PROVE ExactAnswer(t)'
    <2>1. Expected(t)' = {}
      BY <1>1, <1>3, <1>4, <1>5 DEF Expected
    <2>2. ret'[t] = << >> /\ k'[t] \in Nat
      BY <1>1 DEF AnswerOK
    <2> QED
      BY <2>1, <2>2, NothingExpected
  <1> QED
    BY <1>4, <1>5 DEF ExactOK

\* A search that ends here has met tombstones only.
LEMMA SearchEntryExact ==
    ASSUME IndInv, NEW t \in Threads, AnswerOK(t), SearchOK(t), ExactOK(t),
           Ks \subseteq Nat \ {0}, SearchEntry(t)
    PROVE  ExactOK(t)'
  <1>1. /\ pc[t] = "entry" /\ op[t] = "search" /\ UNCHANGED <<num_vectors, tombstone, settled, ret, k, nv>>
        /\ pc'[t] \in {"search", "return"}
        /\ pc'[t] = "return" => {i \in 0 .. nv[t] - 1 : ~tombstone[i]} = {}
    BY DEF SearchEntry, index, args, history, IndInv, TypeOK, CallTypeOK
  <1>2. settled'[t] = Nodes'
    BY <1>1 DEF ExactOK, Nodes
  <1>3. ASSUME pc'[t] = "return" PROVE ExactAnswer(t)'
    <2>1. Expected(t)' = {}
      BY <1>1, <1>3 DEF Expected, SearchOK
    <2>2. ret'[t] = << >> /\ k'[t] \in Nat
      BY <1>1 DEF AnswerOK
    <2> QED
      BY <2>1, <2>2, NothingExpected
  <1> QED
    BY <1>2, <1>3 DEF ExactOK

\* The answer is the first k of the sorted live slots.
LEMMA SearchCollectExact ==
    ASSUME IndInv, NEW t \in Threads, Searching(t), AnswerOK(t), SearchOK(t), ExactOK(t),
           Ks \subseteq Nat \ {0}, SearchCollect(t)
    PROVE  ExactOK(t)'
  <1>1. /\ LayerDone(t) /\ lc[t] = 0
        /\ UNCHANGED <<num_vectors, tombstone, settled, k, query, raw_vectors>>
    BY DEF SearchCollect, index, args, history
  <1>2. settled'[t] = Nodes' /\ settled[t] = Nodes
    BY <1>1 DEF ExactOK, Nodes
  <1>3. results[t] = Nodes
    BY <1>1, <1>2, WalkComplete DEF IndInv, TypeOK, BeamTypeOK
  <1> DEFINE A == Alive(t)
  <1>4. Expected(t)' = A
    BY <1>1, <1>2, <1>3 DEF Expected
  <1>5. PICK best : Collected(t, best) /\ ret'[t] = Cut(best, k[t])
    BY CollectedAll
  <1>6. /\ best \in Seq(A) /\ Len(best) = Cardinality(A) /\ Cardinality(A) \in Nat
        /\ \A n \in A : \E i \in DOMAIN best : best[i] = n
        /\ \A i, j \in DOMAIN best : i < j => SimTo(t, best[i]) >= SimTo(t, best[j])
        /\ ret'[t] = Cut(best, k[t])
    BY <1>5 DEF Collected
  <1> HIDE DEF A
  <1>7. k[t] \in Nat /\ k[t] >= 1
    <2>1. k[t] \in Ks
      BY DEF AnswerOK, Searching
    <2>2. k[t] \in Nat \ {0}
      BY <2>1
    <2> QED
      BY <2>2
  <1> DEFINE top == MinOf(k[t], Len(best))
  <1>8. /\ ret'[t] = [i \in 1 .. top |-> best[i]]
        /\ top \in Nat /\ top <= Len(best) /\ Len(best) \in Nat
    BY <1>6, <1>7 DEF Cut, MinOf
  <1> HIDE DEF top
  <1>9. Len(ret'[t]) = top /\ DOMAIN ret'[t] = 1 .. top
    BY <1>8
  <1>10. ASSUME NEW n \in A, n \notin {ret'[t][i] : i \in DOMAIN ret'[t]}, NEW i \in DOMAIN ret'[t]
        PROVE  SimTo(t, ret'[t][i]) >= SimTo(t, n)
    <2>1. PICK j \in DOMAIN best : best[j] = n
      BY <1>6
    <2>2. j \in 1 .. Len(best) /\ i \in 1 .. top /\ ret'[t][i] = best[i] /\ i \in DOMAIN best
      BY <1>6, <1>8, <1>9
    <2>3. ~(j <= top)
      <3> SUFFICES ASSUME j <= top PROVE FALSE
        OBVIOUS
      <3>1. j \in 1 .. top /\ ret'[t][j] = n
        BY <1>8, <2>1, <2>2
      <3> QED
        BY <1>9, <1>10, <3>1
    <2>4. i < j
      BY <1>8, <2>2, <2>3
    <2> QED
      BY <1>6, <2>1, <2>2, <2>4
  <1>11. \A n : SimTo(t, n)' = SimTo(t, n)
    BY <1>1 DEF SimTo
  <1>12. ExactAnswer(t)'
    <2>1. Len(ret'[t]) = MinOf(k'[t], Cardinality(Expected(t)'))
      BY <1>1, <1>4, <1>6, <1>9 DEF top
    <2>2. \A n \in Expected(t)' \ {ret'[t][i] : i \in DOMAIN ret'[t]} :
            \A m \in {ret'[t][i] : i \in DOMAIN ret'[t]} : SimTo(t, m)' >= SimTo(t, n)'
      BY <1>4, <1>10, <1>11
    <2> QED
      BY <2>1, <2>2 DEF ExactAnswer
  <1> QED
    BY <1>2, <1>12 DEF ExactOK

\* Every step keeps the invariant.
LEMMA NextExact ==
    ASSUME OneCaller, Ks \subseteq Nat \ {0}, IndInv, IndInv', SearchInv, ExactInv,
           \A t \in Threads : AnswerOK(t), \A t \in Threads : AnswerOK(t)', [Next]_vars
    PROVE  ExactInv'
  <1>1. ASSUME NEW t \in Threads, ThreadStep(t), Searching(t)' PROVE ExactOK(t)'
    <2>1. Searching(t) => SearchOK(t) /\ ExactOK(t)
      BY DEF SearchInv, ExactInv
    <2>2. CASE \E v \in Vec, kk \in Ks : SearchLoad(t, v, kk)
      BY <2>2, SearchLoadExact
    <2>3. CASE Searching(t) /\ (SearchEntry(t) \/ SearchCollect(t))
      BY <2>1, <2>3, SearchEntryExact, SearchCollectExact
    <2>4. CASE Searching(t) /\ LayerStep(t)
      <3>1. pc'[t] = "search" /\ UNCHANGED <<num_vectors, settled>>
        BY <2>4 DEF LayerStep, ExpandCandidate, EvalNeighbour, Descend, LayerDone, Looping, index, history
      <3> QED
        BY <2>1, <2>4, <3>1 DEF ExactOK, Nodes
    <2>5. CASE \E id \in Deletable : DeleteVector(t, id)
      BY <1>1, <2>5 DEF DeleteVector, Idle, Searching
    <2>6. CASE \E id \in Ids, v \in Vec, lv \in 0 .. MaxLevel : InsertAllocate(t, id, v, lv)
      BY <1>1, <2>6 DEF InsertAllocate, Idle, Searching, args, IndInv, TypeOK, CallTypeOK
    <2>7. CASE InsertStep(t)
      <3>1. op[t] = "insert"
        BY <2>7 DEF InsertStep, InsertReadEntry, LinkOwn, LinkBack, NextLayer, InsertPublish,
                    IndInv, WalksStayOnLayer, WalkOK
      <3>2. op'[t] = "insert"
        BY <2>7, <3>1 DEF InsertStep, InsertReadEntry, LinkOwn, LinkBack, NextLayer, InsertPublish,
                          Finish, args, IndInv, TypeOK, CallTypeOK
      <3> QED
        BY <1>1, <3>2 DEF Searching
    <2>8. CASE SearchReturn(t)
      BY <1>1, <2>8 DEF SearchReturn, Finish, Searching, IndInv, TypeOK, CallTypeOK
    <2>9. CASE ~Searching(t) /\ (LayerStep(t) \/ SearchEntry(t) \/ SearchCollect(t))
      BY <1>1, <2>9 DEF LayerStep, ExpandCandidate, EvalNeighbour, Descend, LayerDone, Looping,
                        SearchEntry, SearchCollect, Searching, args
    <2> QED
      BY <1>1, <2>2, <2>3, <2>4, <2>5, <2>6, <2>7, <2>8, <2>9 DEF ThreadStep, Step, SearchStep
  <1>2. ASSUME NEW t \in Threads, ThreadStep(t) PROVE ExactInv'
    BY <1>1, <1>2 DEF OneCaller, ExactInv
  <1>3. ASSUME UNCHANGED vars PROVE ExactInv'
    <2>1. ASSUME NEW t \in Threads, Searching(t)' PROVE ExactOK(t)'
      <3>5. UNCHANGED <<settled, pc, op, ret, k, num_vectors, tombstone>>
        BY <1>3 DEF vars, index, args, history
      <3>1. Searching(t) /\ Expected(t)' = Expected(t) /\ Nodes' = Nodes
            /\ UNCHANGED <<settled, pc, ret, k>>
        BY <2>1, <3>5 DEF Searching, Expected, Nodes
      <3>2. \A n : SimTo(t, n)' = SimTo(t, n)
        BY <1>3 DEF SimTo, vars, index, args
      <3>3. ExactOK(t)
        BY <3>1 DEF ExactInv
      <3>4. ExactAnswer(t) => ExactAnswer(t)'
        BY <3>1, <3>2 DEF ExactAnswer
      <3> QED
        BY <3>1, <3>3, <3>4 DEF ExactOK
    <2> QED
      BY <2>1 DEF ExactInv
  <1> QED
    BY <1>2, <1>3 DEF Next, ThreadStep

\* For a single caller, a beam as wide as the index and k >= 1, search is
\* exact: it hands back k live slots, or all of them, and none that is nearer
\* to the query is left out, whatever was inserted and deleted before.
THEOREM SearchAlwaysExact ==
    ASSUME OneCaller, Roomy, Wide, Ks \subseteq Nat \ {0}
    PROVE  Spec => []SearchExact
  <1> DEFINE AInv == \A t \in Threads : AnswerOK(t)
  <1>1. Undisturbed /\ OneWriter
    BY WritersAssumption DEF Undisturbed, OneCaller, OneWriter
  <1>2. Spec => [](IndInv /\ GraphInv)
    BY <1>1, GraphInductive
  <1>3. Spec => []AInv
    BY AnswersOK
  <1>4. IndInv /\ IndInv' /\ GraphInv /\ SearchInv /\ [Next]_vars => SearchInv'
    BY <1>1, NextFinds
  <1>5. Init => ExactInv
    BY DEF Init, ExactInv, Searching
  <1>6. IndInv /\ IndInv' /\ SearchInv /\ ExactInv /\ AInv /\ AInv' /\ [Next]_vars => ExactInv'
    BY NextExact
  <1>7. IndInv /\ ExactInv => SearchExact
    <2> SUFFICES ASSUME IndInv, ExactInv, NEW t \in Threads, pc[t] = "return" PROVE ExactAnswer(t)
      BY DEF SearchExact, ExactAnswer
    <2>1. Searching(t)
      BY DEF IndInv, WalksStayOnLayer, WalkOK, Inserting, Searching, TypeOK, CallTypeOK
    <2> QED
      BY <2>1 DEF ExactInv, ExactOK
  <1> HIDE DEF AInv
  <1> QED
    BY <1>2, <1>3, <1>4, <1>5, <1>6, <1>7, InitFinds, PTL DEF Spec
=============================================================================
