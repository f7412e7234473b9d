-------------------------- MODULE FlatIndexProofs ---------------------------
(***************************************************************************)
(* FlatIndex implements VectorStore, for all vectors, metadata, where      *)
(* clauses with guarded upper bounds, values of k and any number of        *)
(* entries, as long as an id is not inserted while an entry has it.        *)
(***************************************************************************)
EXTENDS FlatIndex, FilterProofs

\* The use of the index that the proofs are about.
Usage ==
    /\ ~ReuseIds
    /\ Doubles
    /\ \A w \in Wheres : Rejected(w) \/ Clause(w)
    /\ \A m \in Metas : Metadata(m)

Vector == [id : Ids, vec : Vecs, meta : Metas, deleted : BOOLEAN]

\* Every id has one entry at most, deleted or not.
EntriesSound ==
    /\ vectors \in Seq(Vector)
    /\ \A i, j \in DOMAIN vectors : vectors[i].id = vectors[j].id => i = j

\* The entries that a clause admits.
Matching(w) == {i \in Live : Meaning(vectors[i].meta, w)}
-----------------------------------------------------------------------------
(* The rows of a search. *)

\* The loop over the sorted scores has a place to stop.
LEMMA StopFacts ==
    ASSUME NEW s, NEW N \in Nat, NEW p, Len(p) = N
    PROVE  /\ Stop(s, p) \in 0 .. N
           /\ \A i \in 1 .. Stop(s, p) : s[p[i]] # MinusInfinity
           /\ Stop(s, p) < N => s[p[Stop(s, p) + 1]] = MinusInfinity
<1> DEFINE Free(m) == \A i \in 1 .. m : s[p[i]] # MinusInfinity
           Ends(m) == Free(m) /\ (m < N => s[p[m + 1]] = MinusInfinity)
<1>1. \E e \in 0 .. N : Ends(e)
  <2> SUFFICES ASSUME \A e \in 0 .. N : ~Ends(e) PROVE FALSE
    OBVIOUS
  <2> DEFINE U == {m \in Nat : m <= N => Free(m)}
  <2>1. 0 \in U
    OBVIOUS
  <2>2. ASSUME NEW m \in Nat, m \in U PROVE m + 1 \in U
    <3> SUFFICES ASSUME m + 1 <= N PROVE Free(m + 1)
      BY <2>2
    <3>1. Free(m) /\ m \in 0 .. N /\ m < N
      BY <2>2
    <3>2. s[p[m + 1]] # MinusInfinity
      BY <3>1
    <3>3. \A i \in 1 .. m + 1 : i \in 1 .. m \/ i = m + 1
      OBVIOUS
    <3> QED
      BY <3>1, <3>2, <3>3
  <2> HIDE DEF U
  <2>3. \A m \in Nat : m \in U
    BY <2>1, <2>2, SetInduction
  <2>4. Free(N)
    BY <2>3 DEF U
  <2> QED
    BY <2>4
<1>2. Stop(s, p) = CHOOSE m \in 0 .. N : Ends(m)
  BY DEF Stop
<1> HIDE DEF Ends
<1>3. Stop(s, p) \in 0 .. N /\ Ends(Stop(s, p))
  BY <1>1, <1>2
<1> QED
  BY <1>3 DEF Ends

\* The entries a search returns: the best k of those that have a score.
Hits(s, p) == SubSeq(p, 1, Stop(s, p))

\* Scores of n entries of which those in M have one.
Scored(s, n, M) ==
    /\ s \in [1 .. n -> Int]
    /\ M \subseteq 1 .. n
    /\ \A i \in 1 .. n : s[i] >= MinusInfinity /\ (s[i] # MinusInfinity <=> i \in M)

\* h is a list of the k best of M, best first.
Best(h, s, M, k) ==
    /\ h \in Seq(M)
    /\ Len(h) = IF k < Cardinality(M) THEN k ELSE Cardinality(M)
    /\ \A i, j \in 1 .. Len(h) : i < j => h[i] # h[j] /\ s[h[i]] >= s[h[j]]
    /\ \A x \in M : \/ \E i \in 1 .. Len(h) : h[i] = x
                    \/ \A i \in 1 .. Len(h) : s[h[i]] >= s[x]

LEMMA HitFacts ==
    ASSUME NEW n \in Nat, NEW k \in Nat, NEW s, NEW M, Scored(s, n, M),
           NEW p \in PartialSorts(s, IF k < n THEN k ELSE n)
    PROVE  Best(Hits(s, p), s, M, k)
<1> DEFINE N == IF k < n THEN k ELSE n
           m == Stop(s, p)
           h == SubSeq(p, 1, m)
<1>0. N \in Nat /\ N <= k /\ N <= n /\ (N = k \/ N = n) /\ MinusInfinity \in Int
  BY ScoreAssumption
<1>a. /\ s \in [1 .. n -> Int] /\ M \subseteq 1 .. n
      /\ \A i \in 1 .. n : s[i] >= MinusInfinity /\ (s[i] # MinusInfinity <=> i \in M)
  BY DEF Scored
<1>1. /\ p \in [1 .. N -> 1 .. n]
      /\ \A i, j \in 1 .. N : i < j => p[i] # p[j] /\ s[p[i]] >= s[p[j]]
      /\ \A x \in 1 .. n : (\A i \in 1 .. N : p[i] # x) => \A i \in 1 .. N : s[p[i]] >= s[x]
  BY <1>a DEF PartialSorts
<1> HIDE DEF N
<1>2. p \in Seq(1 .. n) /\ Len(p) = N
  BY <1>0, <1>1
<1>3. /\ m \in 0 .. N
      /\ \A i \in 1 .. m : s[p[i]] # MinusInfinity
      /\ m < N => s[p[m + 1]] = MinusInfinity
  BY <1>0, <1>2, StopFacts, ZenonT(30)
<1> HIDE DEF m
<1>4. h \in Seq(1 .. n) /\ Len(h) = m /\ \A i \in 1 .. m : h[i] = p[i]
  BY <1>0, <1>2, <1>3
<1>5. Hits(s, p) = h
  BY DEF Hits, m
<1> HIDE DEF h
<1>6. \A i \in 1 .. m : i \in 1 .. N /\ p[i] \in 1 .. n
  BY <1>0, <1>1, <1>3
<1>7. \A i \in 1 .. m : h[i] \in M
  BY <1>a, <1>3, <1>4, <1>6
<1>8. h \in Seq(M)
  BY <1>0, <1>3, <1>4, <1>7
<1>9. \A i, j \in 1 .. m : i < j => h[i] # h[j] /\ s[h[i]] >= s[h[j]]
  BY <1>1, <1>4, <1>6
<1>10. ASSUME NEW x \in M
       PROVE  (\E i \in 1 .. m : h[i] = x) \/ (\A i \in 1 .. m : s[h[i]] >= s[x])
  <2>1. CASE \A i \in 1 .. N : p[i] # x
    BY <1>a, <1>1, <1>4, <1>6, <2>1
  <2>2. ASSUME NEW j \in 1 .. N, p[j] = x
        PROVE  (\E i \in 1 .. m : h[i] = x) \/ (\A i \in 1 .. m : s[h[i]] >= s[x])
    <3>1. CASE j \in 1 .. m
      BY <1>4, <2>2, <3>1
    <3>2. CASE j \notin 1 .. m
      <4>1. \A i \in 1 .. m : i < j
        BY <1>0, <1>3, <3>2
      <4> QED
        BY <1>1, <1>4, <1>6, <2>2, <4>1
    <3> QED
      BY <3>1, <3>2
  <2> QED
    BY <2>1, <2>2
<1>11. IsFiniteSet(M) /\ Cardinality(M) \in Nat /\ Cardinality(M) <= n
  <2>1. M \subseteq 1 .. n
    BY <1>a
  <2>2. IsFiniteSet(1 .. n) /\ Cardinality(1 .. n) = n
    <3>1. 1 \in Int /\ n \in Int
      OBVIOUS
    <3>2. IsFiniteSet(1 .. n) /\ Cardinality(1 .. n) = IF 1 > n THEN 0 ELSE n - 1 + 1
      BY <3>1, FS_Interval
    <3> QED
      BY <3>2
  <2>3. IsFiniteSet(M) /\ Cardinality(M) <= Cardinality(1 .. n)
    BY <2>1, <2>2, FS_Subset
  <2> QED
    BY <2>2, <2>3, FS_CardinalityType
<1>12. Elems(h) \subseteq M /\ Cardinality(Elems(h)) = m
  <2>1. Elems(h) \subseteq M
    BY <1>4, <1>7 DEF Elems
  <2>2. \A i, j \in 1 .. Len(h) : i < j => h[i] # h[j]
    BY <1>4, <1>9
  <2>3. Cardinality(Elems(h)) = Len(h)
    BY <1>8, <2>2, DistinctCount
  <2> QED
    BY <1>4, <2>1, <2>3
<1>13. m <= Cardinality(M)
  BY <1>11, <1>12, FS_Subset
<1>14. ASSUME m < N PROVE m = Cardinality(M)
  <2>1. ASSUME NEW x \in M PROVE x \in Elems(h)
    <3>1. m + 1 \in 1 .. N /\ s[p[m + 1]] = MinusInfinity
      BY <1>0, <1>3, <1>14
    <3>2. x \in 1 .. n /\ s[x] \in Int /\ s[x] > MinusInfinity
      BY <1>a, <1>0
    <3>3. ~(s[p[m + 1]] >= s[x])
      BY <1>0, <3>1, <3>2
    <3>4. PICK j \in 1 .. N : p[j] = x
      BY <1>1, <3>1, <3>2, <3>3
    <3>5. ~(m + 1 < j) /\ j # m + 1
      BY <1>1, <3>1, <3>3, <3>4, <3>2
    <3>6. j \in 1 .. m
      BY <1>0, <1>3, <3>4, <3>5
    <3> QED
      BY <1>4, <3>4, <3>6 DEF Elems
  <2>2. Elems(h) = M
    BY <1>12, <2>1
  <2> QED
    BY <1>12, <2>2
<1>15. m = IF k < Cardinality(M) THEN k ELSE Cardinality(M)
  BY <1>0, <1>3, <1>11, <1>13, <1>14
<1> QED
  BY <1>4, <1>5, <1>8, <1>9, <1>10, <1>15 DEF Best

LEMMA EntryFacts ==
    ASSUME EntriesSound
    PROVE  /\ DOMAIN vectors = 1 .. Len(vectors) /\ Len(vectors) \in Nat
           /\ \A i \in DOMAIN vectors :
                 /\ vectors[i] \in Vector
                 /\ vectors[i].id \in Ids /\ vectors[i].vec \in Vecs
                 /\ vectors[i].meta \in Metas /\ vectors[i].deleted \in BOOLEAN
<1>1. \A i \in DOMAIN vectors : vectors[i] \in Vector
  BY DEF EntriesSound
<1>2. \A x \in Vector : x.id \in Ids /\ x.vec \in Vecs /\ x.meta \in Metas /\ x.deleted \in BOOLEAN
  BY DEF Vector
<1> QED
  BY <1>1, <1>2 DEF EntriesSound

LEMMA ScoreFacts ==
    ASSUME Usage, EntriesSound, NEW q \in Queries, NEW w \in Wheres, ~Rejected(w)
    PROVE  /\ Scored(Scores(q, w), Len(vectors), Matching(w))
           /\ \A i \in Matching(w) : Scores(q, w)[i] = Sim(vectors[i].vec, q)
<1> DEFINE s == Scores(q, w)
           In(i) == ~vectors[i].deleted /\ evaluate_filter(vectors[i].meta, parse_where(w))
           N == Len(vectors)
<1>1. DOMAIN vectors = 1 .. N /\ N \in Nat
  BY EntryFacts
<1>2. s = [i \in 1 .. N |-> IF In(i) THEN Sim(vectors[i].vec, q) ELSE MinusInfinity]
  BY <1>1 DEF Scores
<1>3. ASSUME NEW i \in 1 .. N
      PROVE  /\ Sim(vectors[i].vec, q) \in Int /\ Sim(vectors[i].vec, q) > MinusInfinity
             /\ In(i) <=> i \in Matching(w)
  <2>1. vectors[i].vec \in Vecs /\ vectors[i].meta \in Metas
    BY <1>1, EntryFacts
  <2>2. Metadata(vectors[i].meta) /\ Clause(w) /\ Doubles
    BY <2>1 DEF Usage
  <2>3. evaluate_filter(vectors[i].meta, parse_where(w)) <=> Meaning(vectors[i].meta, w)
    BY <2>2, ClauseMeans
  <2>4. i \in Matching(w) <=> ~vectors[i].deleted /\ Meaning(vectors[i].meta, w)
    BY <1>1 DEF Matching, Live
  <2> QED
    BY <2>1, <2>3, <2>4, ScoreAssumption
<1> HIDE DEF In, s
<1>4. MinusInfinity \in Int
  BY ScoreAssumption
<1>5. Matching(w) \subseteq 1 .. N
  BY <1>1 DEF Matching, Live
<1>6. \A i \in 1 .. N : s[i] = IF i \in Matching(w) THEN Sim(vectors[i].vec, q) ELSE MinusInfinity
  BY <1>2, <1>3
<1>7. s \in [1 .. N -> Int]
  BY <1>2, <1>3, <1>4
<1>8. \A i \in 1 .. N : s[i] >= MinusInfinity /\ (s[i] # MinusInfinity <=> i \in Matching(w))
  BY <1>3, <1>4, <1>6
<1> QED
  BY <1>5, <1>6, <1>7, <1>8 DEF s, Scored

LEMMA SameCardinality ==
    ASSUME NEW S
    PROVE  Store!Cardinality(S) = Cardinality(S)
BY DEF Store!Cardinality, Cardinality

\* Ids are unique, so that the entries are as many as their places.
LEMMA EntryCount ==
    ASSUME EntriesSound, NEW w
    PROVE  Cardinality({Entry(i) : i \in Matching(w)}) = Cardinality(Matching(w))
<1> DEFINE M == Matching(w)
           S == {Entry(i) : i \in M}
           f == [i \in M |-> Entry(i)]
<1>1. IsFiniteSet(M) /\ M \subseteq DOMAIN vectors
  <2>1. M \subseteq 1 .. Len(vectors) /\ 1 \in Int /\ Len(vectors) \in Int
    BY EntryFacts DEF Matching, Live
  <2>2. IsFiniteSet(1 .. Len(vectors))
    BY <2>1, FS_Interval
  <2>3. IsFiniteSet(M)
    BY <2>1, <2>2, FS_Subset
  <2> QED
    BY <2>3 DEF Matching, Live
<1>2. \A i \in M : f[i] = Entry(i) /\ Entry(i).id = vectors[i].id /\ Entry(i) \in S
  BY DEF Entry
<1>3. f \in [M -> S] /\ \A x \in S : \E i \in M : f[i] = x
  OBVIOUS
<1> HIDE DEF M, S, f
<1>4. \A i, j \in M : f[i] = f[j] => i = j
  BY <1>1, <1>2 DEF EntriesSound
<1>5. f \in Bijection(M, S)
  BY <1>3, <1>4 DEF Bijection, Injection, Surjection, IsInjective
<1>6. ExistsBijection(M, S)
  BY <1>5 DEF ExistsBijection
<1>7. Cardinality(S) = Cardinality(M)
  BY <1>1, <1>6, FS_Bijection
<1> QED
  BY <1>7 DEF M, S

\* The rows that a search makes of the entries h.
Rows(h, s) ==
    [i \in DOMAIN h |->
        [id |-> vectors[h[i]].id, score |-> s[h[i]], meta |-> vectors[h[i]].meta]]

LEMMA RowsAreExact ==
    ASSUME Usage, EntriesSound, NEW q \in Queries, NEW k \in Ks, NEW w \in Wheres, ~Rejected(w),
           NEW p \in PartialSorts(Scores(q, w), IF k < Len(vectors) THEN k ELSE Len(vectors))
    PROVE  Store!IsTopK(Rows(Hits(Scores(q, w), p), Scores(q, w)),
                        {e \in Entries : Meaning(e.meta, w)}, q, k)
<1> DEFINE s == Scores(q, w)
           n == Len(vectors)
           h == Hits(s, p)
           M == Matching(w)
           S == {Entry(i) : i \in M}
           R == Rows(h, s)
<1>0. n \in Nat /\ k \in Nat /\ M \subseteq DOMAIN vectors
  BY EntryFacts, FlatAssumption DEF Matching, Live
<1>1. Scored(s, n, M) /\ \A i \in M : s[i] = Sim(vectors[i].vec, q)
  BY ScoreFacts
<1>2. Best(h, s, M, k)
  <2> HIDE DEF s, M
  <2>1. p \in PartialSorts(s, IF k < n THEN k ELSE n)
    BY DEF s
  <2> QED
    BY <1>0, <1>1, <2>1, HitFacts
<1> HIDE DEF s, h, M
<1>b. /\ h \in Seq(M)
      /\ Len(h) = IF k < Cardinality(M) THEN k ELSE Cardinality(M)
      /\ \A i, j \in 1 .. Len(h) : i < j => h[i] # h[j] /\ s[h[i]] >= s[h[j]]
      /\ \A x \in M : \/ \E i \in 1 .. Len(h) : h[i] = x
                      \/ \A i \in 1 .. Len(h) : s[h[i]] >= s[x]
  BY <1>2 DEF Best
<1>3. \A i \in M : /\ Entry(i).id = vectors[i].id /\ Entry(i).vec = vectors[i].vec
                   /\ Entry(i).meta = vectors[i].meta
                   /\ Store!Row(Entry(i), q) =
                         [id |-> vectors[i].id, score |-> s[i], meta |-> vectors[i].meta]
  BY <1>1 DEF Entry, Store!Row, AsStored
<1>4. /\ DOMAIN R = 1 .. Len(h) /\ Len(R) = Len(h)
      /\ \A i \in 1 .. Len(h) : /\ h[i] \in M /\ h[i] \in DOMAIN vectors
                                /\ R[i] = Store!Row(Entry(h[i]), q)
                                /\ R[i].id = vectors[h[i]].id /\ R[i].score = s[h[i]]
  <2>1. DOMAIN h = 1 .. Len(h) /\ Len(h) \in Nat /\ \A i \in 1 .. Len(h) : h[i] \in M
    BY <1>b
  <2>2. R = [i \in 1 .. Len(h) |->
               [id |-> vectors[h[i]].id, score |-> s[h[i]], meta |-> vectors[h[i]].meta]]
    BY <2>1 DEF Rows
  <2> HIDE DEF R
  <2> QED
    BY <1>0, <1>3, <2>1, <2>2
<1> HIDE DEF R
<1>5. {e \in Entries : Meaning(e.meta, w)} = S
  <2>1. \A i \in M : i \in Live /\ Meaning(Entry(i).meta, w)
    BY <1>3 DEF M, Matching
  <2>2. \A i \in Live : Entry(i).meta = vectors[i].meta
    BY DEF Entry
  <2>3. \A i \in Live : Meaning(Entry(i).meta, w) => i \in M
    BY <2>2 DEF M, Matching
  <2> QED
    BY <2>1, <2>3 DEF Entries
<1>6. Cardinality(S) = Cardinality(M)
  BY EntryCount DEF M
<1>7. Len(R) = IF k < Cardinality(S) THEN k ELSE Cardinality(S)
  BY <1>b, <1>4, <1>6
<1>8. \A i \in DOMAIN R : \E e \in S : R[i] = Store!Row(e, q)
  BY <1>4
<1>9. \A i, j \in DOMAIN R : i < j => R[i].id # R[j].id /\ R[i].score >= R[j].score
  BY <1>b, <1>4 DEF EntriesSound
<1>10. \A e \in S : \/ \E i \in DOMAIN R : R[i].id = e.id
                    \/ \A i \in DOMAIN R : R[i].score >= Sim(e.vec, q)
  <2> SUFFICES ASSUME NEW x \in M
               PROVE  \/ \E i \in DOMAIN R : R[i].id = Entry(x).id
                      \/ \A i \in DOMAIN R : R[i].score >= Sim(Entry(x).vec, q)
    OBVIOUS
  <2>1. Entry(x).id = vectors[x].id /\ s[x] = Sim(Entry(x).vec, q)
    BY <1>1, <1>3
  <2>2. CASE \E i \in 1 .. Len(h) : h[i] = x
    BY <1>4, <2>1, <2>2
  <2>3. CASE \A i \in 1 .. Len(h) : s[h[i]] >= s[x]
    BY <1>4, <2>1, <2>3
  <2> QED
    BY <1>b, <2>2, <2>3
<1> HIDE DEF S
<1>11. Store!IsTopK(R, S, q, k)
  BY <1>7, <1>8, <1>9, <1>10, SameCardinality DEF Store!IsTopK
<1> QED
  BY <1>5, <1>11 DEF R, h, s
-----------------------------------------------------------------------------
(* The inductive invariant, and the step of the store that each action is. *)

\* What an entry shows of itself in the store.
Shown(x) == [id |-> x.id, vec |-> x.vec, meta |-> x.meta]

\* An id that an insert accepts has no entry yet.
LEMMA InsertStep ==
    ASSUME Usage, EntriesSound, NEW id \in Ids, NEW v \in Vecs, NEW m \in Metas, insert(id, v, m)
    PROVE  EntriesSound' /\ Store!Insert(id, v, m)
<1> DEFINE x == [id |-> id, vec |-> v, meta |-> m, deleted |-> FALSE]
           N == Len(vectors)
<1>1. x \in Vector /\ x.id = id /\ x.vec = v /\ x.meta = m /\ ~x.deleted
  BY DEF Vector
<1>2. vectors' = Append(vectors, x) /\ vectors \in Seq(Vector)
  BY DEF insert, EntriesSound
<1>3. \A i \in DOMAIN vectors : vectors[i].id # id
  BY DEF insert, Usage
<1>4. [id |-> x.id, vec |-> x.vec, meta |-> x.meta] = [id |-> id, vec |-> v, meta |-> m]
  OBVIOUS
<1> HIDE DEF x
<1>5. /\ vectors' \in Seq(Vector) /\ N \in Nat /\ DOMAIN vectors = 1 .. N
      /\ DOMAIN vectors' = 1 .. N + 1 /\ vectors'[N + 1] = x
      /\ \A i \in DOMAIN vectors : vectors'[i] = vectors[i]
  BY <1>1, <1>2
<1> HIDE DEF N
<1>6. \A i \in DOMAIN vectors' : i \in DOMAIN vectors \/ i = N + 1
  BY <1>5
<1>7. N + 1 \in DOMAIN vectors' /\ \A i \in DOMAIN vectors : i \in DOMAIN vectors'
  BY <1>5
<1>8. ASSUME NEW i \in DOMAIN vectors', NEW j \in DOMAIN vectors', vectors'[i].id = vectors'[j].id
      PROVE  i = j
  BY <1>1, <1>3, <1>5, <1>6, <1>8 DEF EntriesSound
<1>9. EntriesSound'
  BY <1>5, <1>8 DEF EntriesSound
<1>10. Live' = Live \cup {N + 1}
  <2>1. \A i \in DOMAIN vectors : i \in Live' <=> i \in Live
    BY <1>5, <1>7 DEF Live
  <2>2. N + 1 \in Live'
    BY <1>1, <1>5, <1>7 DEF Live
  <2>3. \A i \in Live' : i \in DOMAIN vectors \/ i = N + 1
    BY <1>6 DEF Live
  <2>4. \A i \in Live : i \in DOMAIN vectors
    BY DEF Live
  <2> QED
    BY <2>1, <2>2, <2>3, <2>4
<1>11. \A i \in Live : Shown(vectors'[i]) = Shown(vectors[i])
  BY <1>5 DEF Live
<1>12. Shown(vectors'[N + 1]) = [id |-> id, vec |-> v, meta |-> m]
  BY <1>4, <1>5 DEF Shown
<1>13. Entries' = Entries \cup {[id |-> id, vec |-> v, meta |-> m]}
  <2>1. Entries' = {Shown(vectors'[i]) : i \in Live'}
    BY DEF Entries, Entry, Shown
  <2>2. Entries = {Shown(vectors[i]) : i \in Live}
    BY DEF Entries, Entry, Shown
  <2> QED
    BY <1>10, <1>11, <1>12, <2>1, <2>2
<1>14. \A e \in Entries : e.id # id
  BY <1>3 DEF Entries, Entry, Live
<1>15. answer = NoAnswer /\ answer' = answer
  BY DEF insert
<1> QED
  BY <1>9, <1>13, <1>14, <1>15 DEF Store!Insert, Store!NoAnswer, NoAnswer

\* The entry that delete_vector stops at is the only one that has the id.
LEMMA DeleteStep ==
    ASSUME EntriesSound, NEW id \in Ids, delete_vector(id)
    PROVE  EntriesSound' /\ Store!Delete(id)
<1> DEFINE New(i) == IF IsFirst(i, id) THEN [vectors[i] EXCEPT !.deleted = TRUE] ELSE vectors[i]
<1>1. vectors' = [i \in DOMAIN vectors |-> New(i)]
  BY DEF delete_vector
<1>2. DOMAIN vectors = 1 .. Len(vectors) /\ Len(vectors) \in Nat /\ \A i \in DOMAIN vectors : vectors[i] \in Vector
  BY EntryFacts
<1>3. \A i \in DOMAIN vectors : IsFirst(i, id) <=> vectors[i].id = id
  <2> SUFFICES ASSUME NEW i \in DOMAIN vectors, vectors[i].id = id PROVE IsFirst(i, id)
    BY DEF IsFirst
  <2>1. \A j \in 1 .. i - 1 : j \in DOMAIN vectors /\ j # i
    BY <1>2
  <2>2. \A j \in 1 .. i - 1 : vectors[j].id # id
    BY <2>1 DEF EntriesSound
  <2> QED
    BY <2>2 DEF IsFirst
<1>4. \A x \in Vector :
         LET y == [x EXCEPT !.deleted = TRUE]
         IN  y \in Vector /\ y.id = x.id /\ y.vec = x.vec /\ y.meta = x.meta /\ y.deleted
  BY DEF Vector
<1>5. \A i \in DOMAIN vectors :
         /\ New(i) \in Vector
         /\ New(i).id = vectors[i].id /\ New(i).vec = vectors[i].vec /\ New(i).meta = vectors[i].meta
         /\ New(i).deleted <=> vectors[i].deleted \/ vectors[i].id = id
  BY <1>2, <1>3, <1>4
<1> HIDE DEF New
<1>6. /\ vectors' \in Seq(Vector) /\ DOMAIN vectors' = DOMAIN vectors
      /\ \A i \in DOMAIN vectors : vectors'[i] = New(i)
  BY <1>1, <1>2, <1>5
<1>7. EntriesSound'
  BY <1>5, <1>6 DEF EntriesSound
<1>8. Live' = {i \in Live : vectors[i].id # id}
  BY <1>5, <1>6 DEF Live
<1>9. \A i \in Live : Entry(i)' = Entry(i) /\ Entry(i).id = vectors[i].id
  BY <1>5, <1>6 DEF Entry, Live
<1>10. Entries' = {e \in Entries : e.id # id}
  <2>1. Entries' = {Entry(i)' : i \in Live'}
    BY DEF Entries
  <2>2. \A i \in Live' : i \in Live /\ Entry(i)' = Entry(i) /\ Entry(i).id # id
    BY <1>8, <1>9
  <2>3. \A i \in Live : Entry(i).id # id => i \in Live'
    BY <1>8, <1>9
  <2> QED
    BY <2>1, <2>2, <2>3 DEF Entries
<1>11. answer = NoAnswer /\ answer' = Deleted(id)
  BY DEF delete_vector
<1> QED
  BY <1>7, <1>10, <1>11 DEF Store!Delete, Store!NoAnswer, NoAnswer, Store!Deleted, Deleted

\* compact moves entries and takes none from the store.
LEMMA CompactStep ==
    ASSUME EntriesSound, compact
    PROVE  EntriesSound' /\ Entries' = Entries /\ answer' = answer
<1> DEFINE S == {vectors[i] : i \in Live}
           Apart == {pair \in Vector \X Vector : pair[1].id # pair[2].id}
<1>1. vectors' = Picked(vectors, S) /\ answer' = answer
  BY DEF compact
<1>2. DOMAIN vectors = 1 .. Len(vectors) /\ Len(vectors) \in Nat /\ \A i \in DOMAIN vectors : vectors[i] \in Vector
  BY EntryFacts
<1>3. \A a, b \in Vector : <<a, b>> \in Apart <=> a.id # b.id
  OBVIOUS
<1> HIDE DEF Apart
<1>4. Chain(vectors, Apart)
  BY <1>2, <1>3 DEF Chain, EntriesSound
<1>5. Elems(vectors) \cap S = S
  BY <1>2 DEF Elems, Live
<1>6. vectors \in Seq(Vector)
  BY DEF EntriesSound
<1> HIDE DEF S
<1>7. vectors' \in Seq(Vector) /\ Chain(vectors', Apart) /\ Elems(vectors') = S
  BY <1>1, <1>4, <1>5, <1>6, PickedChain
<1>8. DOMAIN vectors' = 1 .. Len(vectors') /\ Len(vectors') \in Nat /\ \A i \in DOMAIN vectors' : vectors'[i] \in Vector
  BY <1>7
<1>9. EntriesSound'
  <2>1. ASSUME NEW i \in DOMAIN vectors', NEW j \in DOMAIN vectors', i < j
        PROVE  vectors'[i].id # vectors'[j].id
    <3>1. <<vectors'[i], vectors'[j]>> \in Apart
      BY <1>7, <1>8, <2>1 DEF Chain
    <3> QED
      BY <1>3, <1>8, <3>1
  <2>2. \A i, j \in DOMAIN vectors' : i < j \/ j < i \/ i = j
    BY <1>8
  <2>3. \A i, j \in DOMAIN vectors' : vectors'[i].id = vectors'[j].id => i = j
    BY <2>1, <2>2
  <2> QED
    BY <1>7, <2>3 DEF EntriesSound
<1>10. Entries = {Shown(x) : x \in S}
  BY DEF Entries, Entry, Shown, S
<1>11. \A x \in S : ~x.deleted
  BY DEF S, Live
<1>12. Live' = DOMAIN vectors'
  <2>1. \A i \in DOMAIN vectors' : vectors'[i] \in S
    BY <1>7, <1>8 DEF Elems
  <2> QED
    BY <1>11, <2>1 DEF Live
<1>13. Entries' = {Shown(x) : x \in S}
  <2>1. Entries' = {Shown(vectors'[i]) : i \in DOMAIN vectors'}
    BY <1>12 DEF Entries, Entry, Shown
  <2>2. S = {vectors'[i] : i \in DOMAIN vectors'}
    BY <1>7, <1>8 DEF Elems
  <2> QED
    BY <2>1, <2>2
<1> QED
  BY <1>1, <1>9, <1>10, <1>13

LEMMA SearchStep ==
    ASSUME Usage, EntriesSound, NEW q \in Queries, NEW k \in Ks, NEW w \in Wheres, search(q, k, w)
    PROVE  EntriesSound' /\ Store!Search(q, k, w)
<1>1. answer = NoAnswer /\ ~Rejected(w) /\ vectors' = vectors
  BY DEF search
<1>2. PICK p \in PartialSorts(Scores(q, w), IF k < Len(vectors) THEN k ELSE Len(vectors)) :
        answer' = [q |-> q, k |-> k, where |-> w,
                   rows |-> Rows(Hits(Scores(q, w), p), Scores(q, w))]
  BY DEF search, Rows, Hits
<1>3. Store!IsTopK(answer'.rows, {e \in Entries : Meaning(e.meta, w)}, q, k)
  <2>1. answer'.rows = Rows(Hits(Scores(q, w), p), Scores(q, w))
    BY <1>2
  <2>2. Store!IsTopK(Rows(Hits(Scores(q, w), p), Scores(q, w)),
                     {e \in Entries : Meaning(e.meta, w)}, q, k)
    BY <1>1, RowsAreExact
  <2> QED
    BY <2>1, <2>2
<1>4. answer' = [q |-> q, k |-> k, where |-> w, rows |-> answer'.rows]
  BY <1>2
<1>5. EntriesSound' /\ Entries' = Entries
  BY <1>1 DEF EntriesSound, Entries, Entry, Live
<1> QED
  BY <1>1, <1>3, <1>4, <1>5 DEF Store!Search, Store!NoAnswer, NoAnswer

LEMMA FlatStep ==
    ASSUME Usage, EntriesSound, [Next]_vars
    PROVE  EntriesSound' /\ [Store!Next]_<<Entries, answer>>
<1>1. ASSUME NEW id \in Ids, delete_vector(id)
      PROVE  EntriesSound' /\ Store!Next
  BY <1>1, DeleteStep DEF Store!Next
<1>2. ASSUME NEW id \in Ids, NEW v \in Vecs, NEW m \in Metas, insert(id, v, m)
      PROVE  EntriesSound' /\ Store!Next
  BY <1>2, InsertStep DEF Store!Next
<1>3. CASE compact
  BY <1>3, CompactStep
<1>4. CASE return
  <2>1. EntriesSound' /\ Entries' = Entries
    BY <1>4 DEF return, EntriesSound, Entries, Entry, Live
  <2> QED
    BY <1>4, <2>1 DEF return, Store!Next, Store!Return, Store!NoAnswer, NoAnswer
<1>5. ASSUME NEW q \in Queries, NEW k \in Ks, NEW w \in Wheres, search(q, k, w)
      PROVE  EntriesSound' /\ Store!Next
  BY <1>5, SearchStep DEF Store!Next
<1>6. CASE UNCHANGED vars
  BY <1>6 DEF vars, EntriesSound, Entries, Entry, Live
<1> QED
  BY <1>1, <1>2, <1>3, <1>4, <1>5, <1>6 DEF Next

\* FlatIndex implements the store it promises to be: every insert, delete and search
\* is one step of it, and compact is none.
THEOREM FlatImplementsStore ==
    ASSUME Usage
    PROVE  Spec => ImplementsStore
<1>1. Init => EntriesSound /\ Store!Init
  BY DEF Init, EntriesSound, Store!Init, Store!NoAnswer, NoAnswer, Entries, Live
<1>2. EntriesSound /\ [Next]_vars => EntriesSound' /\ [Store!Next]_<<Entries, answer>>
  BY FlatStep
<1> QED
  BY <1>1, <1>2, PTL DEF Spec, ImplementsStore, Store!Spec
=============================================================================
