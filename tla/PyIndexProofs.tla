--------------------------- MODULE PyIndexProofs ----------------------------
(***************************************************************************)
(* Proofs about PyIndex.  For all vectors, metadata, clauses whose upper   *)
(* bounds come with a lower one, values of k and of ef_search, and any     *)
(* number of slots: as long as ids are not inserted again, every row a     *)
(* search returns is a live vector that the clause admits, whatever the    *)
(* walk missed; and while it reaches every slot (ReachesAll) the rows are  *)
(* exactly the k best.                                                     *)
(***************************************************************************)
EXTENDS PyIndex, FilterProofs

\* Metadata as the binding takes it: None, or a dict without nested NaN.
PyMetadata(m) ==
    \/ m = Null
    \/ m = Obj(m[2]) /\ \A f \in DOMAIN m[2] : m[2][f] = NaN \/ Plain(m[2][f])

\* The use of the index that the proofs are about.
Usage ==
    /\ ~ReuseIds
    /\ Ks \subseteq Nat
    /\ \A v \in Vecs, q \in Queries : Sim(v, q) \in Int
    /\ Doubles
    /\ \A w \in Wheres : Rejected(w) \/ Clause(w)
    /\ \A m \in Metas : PyMetadata(m)

Slot == [id : Ids, vec : Vecs, meta : {Stored(m) : m \in Metas}, dead : BOOLEAN]

\* Slots with proper metadata; every id has one slot at most, dead or not.
SlotsSound ==
    /\ slots \in Seq(Slot)
    /\ \A i, j \in DOMAIN slots : slots[i].id = slots[j].id => i = j

\* One slot is more similar to q than another, or as similar.
Before(q) ==
    {p \in (DOMAIN slots) \X (DOMAIN slots) :
        p[1] # p[2] /\ Sim(slots[p[1]].vec, q) >= Sim(slots[p[2]].vec, q)}

Matching(w) == {i \in Alive : Meaning(slots[i].meta, w)}
-----------------------------------------------------------------------------
LEMMA StoredMetadata ==
    ASSUME Usage, NEW m \in Metas
    PROVE  Metadata(Stored(m))
<1>1. CASE m = Null
  <2>1. Stored(m) = <<"obj", << >>>>
    BY <1>1 DEF Stored, Obj
  <2> QED
    BY <2>1 DEF Metadata, Plain, Type
<1>2. CASE m # Null
  <2> DEFINE g == [f \in DOMAIN m[2] |-> Dump(m[2][f])]
  <2>1. Stored(m) = <<"obj", g>>
    BY <1>2 DEF Stored, Obj
  <2>2. ASSUME NEW f \in DOMAIN g PROVE Plain(g[f])
    <3>1. m[2][f] = NaN \/ Plain(m[2][f])
      BY <1>2 DEF Usage, PyMetadata
    <3>2. Plain(Null)
      BY DEF Plain, Null
    <3> QED
      BY <3>1, <3>2 DEF Dump
  <2> HIDE DEF g
  <2> QED
    BY <2>1, <2>2 DEF Metadata, Plain, Type
<1> QED
  BY <1>1, <1>2

LEMMA SlotFacts ==
    ASSUME SlotsSound
    PROVE  /\ DOMAIN slots = 1 .. Len(slots) /\ Len(slots) \in Nat
           /\ \A i \in DOMAIN slots :
                 /\ slots[i].id \in Ids /\ slots[i].vec \in Vecs /\ slots[i].dead \in BOOLEAN
                 /\ \E m \in Metas : slots[i].meta = Stored(m)
<1>1. \A i \in DOMAIN slots : slots[i] \in Slot
  BY DEF SlotsSound
<1>2. DOMAIN slots = 1 .. Len(slots) /\ Len(slots) \in Nat
  BY DEF SlotsSound
<1>3. \A x \in Slot : /\ x.id \in Ids /\ x.vec \in Vecs /\ x.dead \in BOOLEAN
                      /\ \E m \in Metas : x.meta = Stored(m)
  BY DEF Slot
<1> QED
  BY <1>1, <1>2, <1>3

\* The detour over the external id leads back to the slot.
LEMMA SlotOfId ==
    ASSUME SlotsSound, NEW i \in DOMAIN slots
    PROVE  SlotOf(slots[i].id) = i
<1> DEFINE Is(j) == /\ slots[j].id = slots[i].id
                    /\ \A n \in 1 .. j - 1 : slots[n].id # slots[i].id
<1>1. \A j \in DOMAIN slots : slots[j].id = slots[i].id => j = i
  BY DEF SlotsSound
<1>2. DOMAIN slots = 1 .. Len(slots) /\ Len(slots) \in Nat
  BY SlotFacts
<1>3. Is(i)
  <2>1. \A n \in 1 .. i - 1 : n \in DOMAIN slots /\ n # i
    BY <1>2
  <2> QED
    BY <1>1, <2>1
<1>4. SlotOf(slots[i].id) = CHOOSE j \in DOMAIN slots : Is(j)
  BY DEF SlotOf
<1>5. \A j \in DOMAIN slots : Is(j) => j = i
  BY <1>1
<1> HIDE DEF Is
<1> QED
  BY <1>3, <1>4, <1>5

\* The filter the binding applies decides what the clause means.
LEMMA AdmittedMeans ==
    ASSUME Usage, SlotsSound, NEW w \in Wheres, ~Rejected(w), NEW i \in DOMAIN slots
    PROVE  i \in Admitted(w) <=> Meaning(slots[i].meta, w)
<1>1. SlotOf(slots[i].id) = i
  BY SlotOfId
<1>2. Clause(w)
  BY DEF Usage
<1>3. PICK m \in Metas : slots[i].meta = Stored(m)
  BY SlotFacts
<1>4. Metadata(slots[i].meta)
  BY <1>3, StoredMetadata
<1>5. evaluate_filter(slots[i].meta, parse_where(w)) <=> Meaning(slots[i].meta, w)
  BY <1>2, <1>4, ClauseMeans DEF Usage
<1>6. CASE w = Null
  <2>1. Meaning(slots[i].meta, w)
    BY <1>6 DEF Meaning, Null, Type
  <2> QED
    BY <1>6, <2>1 DEF Admitted
<1>7. CASE w # Null
  BY <1>1, <1>5, <1>7 DEF Admitted
<1> QED
  BY <1>6, <1>7

LEMMA PrefixFacts ==
    ASSUME NEW A, NEW s \in Seq(A), NEW n \in Nat
    PROVE  /\ Prefix(s, n) \in Seq(A)
           /\ Len(Prefix(s, n)) = IF n < Len(s) THEN n ELSE Len(s)
           /\ \A i \in 1 .. Len(Prefix(s, n)) : Prefix(s, n)[i] = s[i]
           /\ Len(s) <= n => Prefix(s, n) = s
<1> DEFINE m == IF n < Len(s) THEN n ELSE Len(s)
           p == SubSeq(s, 1, m)
<1>1. m \in Nat /\ m <= Len(s) /\ Len(s) \in Nat
  OBVIOUS
<1>2. Prefix(s, n) = p
  BY DEF Prefix
<1>3. Len(s) <= n => m = Len(s)
  BY <1>1
<1> HIDE DEF m
<1>4. p \in Seq(A) /\ Len(p) = m /\ \A i \in 1 .. m : p[i] = s[i]
  BY <1>1
<1> HIDE DEF p
<1>5. m = Len(s) => p = s
  BY <1>4
<1> QED
  BY <1>2, <1>3, <1>4, <1>5 DEF m

LEMMA PrefixChain ==
    ASSUME NEW A, NEW s \in Seq(A), NEW n \in Nat, NEW R, Chain(s, R)
    PROVE  Chain(Prefix(s, n), R) /\ Elems(Prefix(s, n)) \subseteq Elems(s)
<1> DEFINE p == Prefix(s, n)
<1>1. /\ p \in Seq(A) /\ Len(p) = (IF n < Len(s) THEN n ELSE Len(s))
      /\ \A i \in 1 .. Len(p) : p[i] = s[i]
  BY PrefixFacts
<1> HIDE DEF p
<1>2. \A i \in 1 .. Len(p) : i \in 1 .. Len(s)
  BY <1>1
<1>3. Chain(p, R)
  BY <1>1, <1>2 DEF Chain
<1>4. Elems(p) \subseteq Elems(s)
  BY <1>1, <1>2 DEF Elems
<1> QED
  BY <1>3, <1>4 DEF p
-----------------------------------------------------------------------------
(* From the beam to the rows. *)

LEMMA BeforeMember ==
    ASSUME NEW q, NEW a, NEW b
    PROVE  <<a, b>> \in Before(q) <=>
              /\ a \in DOMAIN slots /\ b \in DOMAIN slots /\ a # b
              /\ Sim(slots[a].vec, q) >= Sim(slots[b].vec, q)
<1> DEFINE p == <<a, b>>
<1>1. p[1] = a /\ p[2] = b
  OBVIOUS
<1>2. p \in (DOMAIN slots) \X (DOMAIN slots) <=> a \in DOMAIN slots /\ b \in DOMAIN slots
  <2>1. \A D : <<a, b>> \in D \X D <=> a \in D /\ b \in D
    OBVIOUS
  <2> QED
    BY <2>1
<1> HIDE DEF p
<1>3. p \in Before(q) <=> /\ p \in (DOMAIN slots) \X (DOMAIN slots)
                         /\ p[1] # p[2] /\ Sim(slots[p[1]].vec, q) >= Sim(slots[p[2]].vec, q)
  BY DEF Before
<1> QED
  BY <1>1, <1>2, <1>3 DEF p

\* The beam is a chain of slots, and all of them where the walk reaches all.
LEMMA BeamFacts ==
    ASSUME SlotsSound, ef_search \in Nat, NEW q, NEW b \in Beams(q)
    PROVE  /\ b \in Seq(DOMAIN slots) /\ Chain(b, Before(q))
           /\ ReachesAll => Elems(b) = DOMAIN slots
<1>. DOMAIN slots = 1 .. Len(slots) /\ Len(slots) \in Nat
  BY SlotFacts
<1>a. /\ \A n \in BeamLengths : n \in Nat
      /\ ReachesAll => \A n \in BeamLengths : n = Len(slots)
  <2>1. CASE ReachesAll
    BY <2>1 DEF BeamLengths
  <2>2. CASE ~ReachesAll
    BY <2>2 DEF BeamLengths
  <2> QED
    BY <2>1, <2>2
<1>b. PICK n \in BeamLengths : b \in [1 .. n -> DOMAIN slots]
  BY DEF Beams
<1>0. DOMAIN slots = 1 .. Len(slots) /\ Len(slots) \in Nat /\ n \in Nat
  BY <1>a
<1>1. /\ b \in [1 .. n -> DOMAIN slots]
      /\ \A i, j \in 1 .. n : i < j => b[i] # b[j] /\ Sim(slots[b[i]].vec, q) >= Sim(slots[b[j]].vec, q)
  BY <1>b DEF Beams
<1>2. b \in Seq(DOMAIN slots) /\ Len(b) = n
  BY <1>0, <1>1
<1>3. Chain(b, Before(q))
  BY <1>1, <1>2, BeforeMember DEF Chain
<1>4. ASSUME ReachesAll PROVE Elems(b) = DOMAIN slots
  <2>1. IsFiniteSet(Elems(b)) /\ Cardinality(Elems(b)) = n
    BY <1>1, <1>2, DistinctCount
  <2>2. Elems(b) \subseteq DOMAIN slots
    BY <1>1, <1>2 DEF Elems
  <2>3. IsFiniteSet(1 .. n) /\ Cardinality(1 .. n) = n
    <3>1. 1 \in Int /\ n \in Int
      BY <1>0
    <3>2. /\ IsFiniteSet(1 .. n) /\ Cardinality(1 .. n) = IF 1 > n THEN 0 ELSE n - 1 + 1
      BY <3>1, FS_Interval
    <3> QED
      BY <1>0, <3>2
  <2>4. DOMAIN slots = 1 .. n
    BY <1>0, <1>4, <1>a
  <2> QED
    BY <2>1, <2>2, <2>3, <2>4, FS_Subset
<1> QED
  BY <1>2, <1>3, <1>4

LEMMA WidthNat ==
    ASSUME NEW k \in Nat, NEW w
    PROVE  Width(k, w) \in Nat
BY DEF Width

LEMMA CollectedFacts ==
    ASSUME SlotsSound, NEW q, NEW b \in Seq(DOMAIN slots), Chain(b, Before(q)), NEW width \in Nat
    PROVE  /\ Collected(b, width) \in Seq(DOMAIN slots)
           /\ Chain(Collected(b, width), Before(q))
           /\ Elems(Collected(b, width)) \subseteq Alive
<1> DEFINE a == Picked(b, Alive)
<1>1. a \in Seq(DOMAIN slots) /\ Chain(a, Before(q)) /\ Elems(a) = Elems(b) \cap Alive
  BY PickedChain
<1>2. Collected(b, width) = IF width = 0 THEN a ELSE Prefix(a, width)
  BY DEF Collected
<1> HIDE DEF a
<1>3. /\ Prefix(a, width) \in Seq(DOMAIN slots) /\ Chain(Prefix(a, width), Before(q))
      /\ Elems(Prefix(a, width)) \subseteq Elems(a)
  BY <1>1, PrefixFacts, PrefixChain
<1> QED
  BY <1>1, <1>2, <1>3

\* The slots a search returns rows for.
Kept(b, k, w) == Prefix(Picked(Collected(b, Width(k, w)), Admitted(w)), k)

LEMMA KeptSound ==
    ASSUME Usage, SlotsSound, NEW q, NEW k \in Nat, NEW w \in Wheres, ~Rejected(w),
           NEW b \in Seq(DOMAIN slots), Chain(b, Before(q))
    PROVE  /\ Kept(b, k, w) \in Seq(DOMAIN slots) /\ Len(Kept(b, k, w)) <= k
           /\ Chain(Kept(b, k, w), Before(q))
           /\ Elems(Kept(b, k, w)) \subseteq Matching(w)
<1> DEFINE c == Collected(b, Width(k, w))
           p == Picked(c, Admitted(w))
           t == Prefix(p, k)
<1>1. c \in Seq(DOMAIN slots) /\ Chain(c, Before(q)) /\ Elems(c) \subseteq Alive
  BY WidthNat, CollectedFacts
<1> HIDE DEF c
<1>2. p \in Seq(DOMAIN slots) /\ Chain(p, Before(q)) /\ Elems(p) = Elems(c) \cap Admitted(w)
  BY <1>1, PickedChain
<1> HIDE DEF p
<1>3. /\ t \in Seq(DOMAIN slots) /\ Len(t) = IF k < Len(p) THEN k ELSE Len(p)
  BY <1>2, PrefixFacts
<1>4. Chain(t, Before(q)) /\ Elems(t) \subseteq Elems(p)
  BY <1>2, PrefixChain
<1>5. Kept(b, k, w) = t
  BY DEF Kept, p, c
<1> HIDE DEF t
<1>6. Len(t) <= k
  BY <1>2, <1>3
<1>7. Elems(p) \subseteq Matching(w)
  <2>1. \A i \in Alive : i \in DOMAIN slots
    BY DEF Alive
  <2>2. \A i \in Alive : i \in Admitted(w) => Meaning(slots[i].meta, w)
    BY <2>1, AdmittedMeans
  <2> QED
    BY <1>1, <1>2, <2>2 DEF Matching
<1> QED
  BY <1>3, <1>4, <1>5, <1>6, <1>7

\* With a beam over all slots and room for all candidates, the rows are the first k
\* of a sorted list of everything that matches.
LEMMA KeptExact ==
    ASSUME Usage, SlotsSound, NEW q, NEW k \in Nat, NEW w \in Wheres, ~Rejected(w),
           NEW b \in Seq(DOMAIN slots), Chain(b, Before(q)), Elems(b) = DOMAIN slots,
           w # Null => Cardinality(Alive) <= 4 * k
    PROVE  \E s \in Seq(DOMAIN slots) :
              Chain(s, Before(q)) /\ Elems(s) = Matching(w) /\ Kept(b, k, w) = Prefix(s, k)
<1> DEFINE a == Picked(b, Alive)
           c == Collected(b, Width(k, w))
           p == Picked(c, Admitted(w))
<1>0. Kept(b, k, w) = Prefix(p, k)
  BY DEF Kept
<1>1. a \in Seq(DOMAIN slots) /\ Chain(a, Before(q)) /\ Elems(a) = Alive
  <2>1. a \in Seq(DOMAIN slots) /\ Chain(a, Before(q)) /\ Elems(a) = Elems(b) \cap Alive
    BY PickedChain
  <2>2. Alive \subseteq DOMAIN slots
    BY DEF Alive
  <2> HIDE DEF a
  <2> QED
    BY <2>1, <2>2
<1>2. c = IF Width(k, w) = 0 THEN a ELSE Prefix(a, Width(k, w))
  BY DEF Collected
<1> HIDE DEF a, c
<1>3. \A i, j \in 1 .. Len(a) : i < j => a[i] # a[j]
  BY <1>1, BeforeMember DEF Chain
<1>4. Cardinality(Alive) = Len(a) /\ Len(a) \in Nat
  BY <1>1, <1>3, DistinctCount
<1>5. CASE w # Null
  <2>1. Width(k, w) = k * 4 /\ Len(a) <= k * 4 /\ k * 4 \in Nat
    BY <1>4, <1>5 DEF Width
  <2>2. Prefix(a, k * 4) = a
    BY <1>1, <2>1, PrefixFacts
  <2>3. c = a
    BY <1>2, <2>1, <2>2
  <2>4. p \in Seq(DOMAIN slots) /\ Chain(p, Before(q)) /\ Elems(p) = Elems(c) \cap Admitted(w)
    BY <1>1, <2>3, PickedChain
  <2>5. Alive \cap Admitted(w) = Matching(w)
    <3>1. \A i \in Alive : i \in Admitted(w) <=> Meaning(slots[i].meta, w)
      BY AdmittedMeans DEF Alive
    <3> QED
      BY <3>1 DEF Matching
  <2> HIDE DEF p
  <2> QED
    BY <1>0, <1>1, <2>3, <2>4, <2>5
<1>6. CASE w = Null
  <2>1. Width(k, w) = k
    BY <1>6 DEF Width
  <2>2. Admitted(w) = DOMAIN slots
    BY <1>6 DEF Admitted
  <2>3. Matching(w) = Alive
    BY <1>6 DEF Matching, Meaning, Null, Type
  <2>4. c \in Seq(DOMAIN slots)
    BY <1>1, <1>2, <2>1, PrefixFacts
  <2>5. \A i \in 1 .. Len(c) : c[i] \in Admitted(w)
    BY <2>2, <2>4
  <2>6. p = c
    BY <2>4, <2>5, PickedAll
  <2>7. Prefix(c, k) = Prefix(a, k)
    <3>1. CASE k = 0
      BY <1>2, <2>1, <3>1
    <3>2. CASE k # 0
      <4>1. c = Prefix(a, k)
        BY <1>2, <2>1, <3>2
      <4>2. Len(c) <= k
        BY <1>1, <1>4, <4>1, PrefixFacts
      <4>3. Prefix(c, k) = c
        BY <2>4, <4>2, PrefixFacts
      <4> QED
        BY <4>1, <4>3
    <3> QED
      BY <3>1, <3>2
  <2> HIDE DEF p
  <2> QED
    BY <1>0, <1>1, <2>3, <2>6, <2>7
<1> QED
  BY <1>5, <1>6

\* The rows made of the slots t.
Rows(t, q) ==
    [r \in DOMAIN t |->
        [id |-> slots[t[r]].id, score |-> Sim(slots[t[r]].vec, q),
         meta |-> json_meta_to_dict(slots[SlotOf(slots[t[r]].id)].meta)]]

LEMMA RowFacts ==
    ASSUME SlotsSound, NEW q, NEW t \in Seq(DOMAIN slots)
    PROVE  /\ DOMAIN Rows(t, q) = 1 .. Len(t) /\ Len(Rows(t, q)) = Len(t)
           /\ \A r \in 1 .. Len(t) :
                 /\ Rows(t, q)[r] = Store!Row(Entry(t[r]), q)
                 /\ Rows(t, q)[r].id = slots[t[r]].id
                 /\ Rows(t, q)[r].score = Sim(slots[t[r]].vec, q)
<1>1. DOMAIN t = 1 .. Len(t) /\ Len(t) \in Nat /\ \A r \in 1 .. Len(t) : t[r] \in DOMAIN slots
  OBVIOUS
<1> DEFINE R == Rows(t, q)
<1>2. R = [r \in 1 .. Len(t) |->
             [id |-> slots[t[r]].id, score |-> Sim(slots[t[r]].vec, q),
              meta |-> json_meta_to_dict(slots[SlotOf(slots[t[r]].id)].meta)]]
  BY <1>1 DEF Rows
<1> HIDE DEF R
<1>3. DOMAIN R = 1 .. Len(t) /\ Len(R) = Len(t)
  BY <1>1, <1>2
<1>4. ASSUME NEW r \in 1 .. Len(t)
      PROVE  /\ R[r] = Store!Row(Entry(t[r]), q)
             /\ R[r].id = slots[t[r]].id /\ R[r].score = Sim(slots[t[r]].vec, q)
  <2> DEFINE i == t[r]
  <2>1. i \in DOMAIN slots /\ SlotOf(slots[i].id) = i
    BY <1>1, SlotOfId
  <2>2. R[r] = [id |-> slots[i].id, score |-> Sim(slots[i].vec, q),
                meta |-> json_meta_to_dict(slots[i].meta)]
    BY <1>2, <2>1
  <2> HIDE DEF i
  <2>3. Entry(i).id = slots[i].id /\ Entry(i).vec = slots[i].vec /\ Entry(i).meta = slots[i].meta
    BY DEF Entry
  <2>4. R[r] = Store!Row(Entry(i), q)
    BY <2>2, <2>3 DEF Store!Row
  <2> QED
    BY <2>2, <2>4 DEF i
<1> QED
  BY <1>3, <1>4 DEF R

\* What RowsSound and AnswerExact say about the rows of an answer.
SoundRows(rows, q, k, w) ==
    /\ Len(rows) <= k
    /\ \A r \in DOMAIN rows :
          /\ \E i \in Alive : rows[r] = Store!Row(Entry(i), q) /\ Meaning(slots[i].meta, w)
          /\ \A n \in 1 .. r - 1 : rows[n].id # rows[r].id /\ rows[n].score >= rows[r].score
ExactRows(rows, q, k, w) ==
    Store!IsTopK(rows, {Entry(i) : i \in Matching(w)}, q, k)

LEMMA RowsAreSound ==
    ASSUME SlotsSound, NEW q, NEW k \in Nat, NEW w, NEW t \in Seq(DOMAIN slots),
           Len(t) <= k, Chain(t, Before(q)), Elems(t) \subseteq Matching(w)
    PROVE  SoundRows(Rows(t, q), q, k, w)
<1> DEFINE R == Rows(t, q)
<1>1. /\ DOMAIN R = 1 .. Len(t) /\ Len(R) = Len(t)
      /\ \A r \in 1 .. Len(t) : /\ R[r] = Store!Row(Entry(t[r]), q)
                                /\ R[r].id = slots[t[r]].id
                                /\ R[r].score = Sim(slots[t[r]].vec, q)
  BY RowFacts
<1>2. Len(t) \in Nat /\ \A r \in 1 .. Len(t) : t[r] \in DOMAIN slots
  OBVIOUS
<1> HIDE DEF R
<1>3. ASSUME NEW r \in 1 .. Len(t)
      PROVE  \E i \in Alive : R[r] = Store!Row(Entry(i), q) /\ Meaning(slots[i].meta, w)
  <2>1. t[r] \in Matching(w)
    BY DEF Elems
  <2> QED
    BY <1>1, <2>1 DEF Matching
<1>4. ASSUME NEW r \in 1 .. Len(t), NEW n \in 1 .. r - 1
      PROVE  R[n].id # R[r].id /\ R[n].score >= R[r].score
  <2>1. n \in 1 .. Len(t) /\ n < r
    BY <1>2
  <2>2. <<t[n], t[r]>> \in Before(q)
    BY <2>1 DEF Chain
  <2>3. t[n] # t[r] /\ Sim(slots[t[n]].vec, q) >= Sim(slots[t[r]].vec, q)
    BY <2>2, BeforeMember
  <2>4. slots[t[n]].id # slots[t[r]].id
    BY <1>2, <2>1, <2>3 DEF SlotsSound
  <2> QED
    BY <1>1, <2>1, <2>3, <2>4
<1> QED
  BY <1>1, <1>3, <1>4 DEF SoundRows, R

LEMMA SameCardinality ==
    ASSUME NEW S
    PROVE  Store!Cardinality(S) = Cardinality(S)
BY DEF Store!Cardinality, Cardinality, Store!IsFiniteSet, IsFiniteSet

LEMMA RowsAreExact ==
    ASSUME SlotsSound, NEW q, NEW k \in Nat, NEW w, NEW s \in Seq(DOMAIN slots),
           Chain(s, Before(q)), Elems(s) = Matching(w)
    PROVE  ExactRows(Rows(Prefix(s, k), q), q, k, w)
<1> DEFINE t == Prefix(s, k)
           R == Rows(t, q)
           S == {Entry(i) : i \in Matching(w)}
           N == Len(s)
           e == [i \in 1 .. N |-> Entry(s[i])]
<1>0. N \in Nat /\ \A i \in 1 .. N : s[i] \in DOMAIN slots /\ s[i] \in Matching(w)
  BY DEF Elems
<1>1. /\ t \in Seq(DOMAIN slots) /\ Len(t) = (IF k < N THEN k ELSE N)
      /\ \A i \in 1 .. Len(t) : t[i] = s[i]
  BY PrefixFacts
<1> HIDE DEF t
<1>2. /\ DOMAIN R = 1 .. Len(t) /\ Len(R) = Len(t)
      /\ \A r \in 1 .. Len(t) : /\ R[r] = Store!Row(Entry(t[r]), q)
                                /\ R[r].id = slots[t[r]].id
                                /\ R[r].score = Sim(slots[t[r]].vec, q)
  BY <1>1, RowFacts
<1> HIDE DEF R
<1>3. ASSUME NEW i \in 1 .. N, NEW j \in 1 .. N, i < j
      PROVE  /\ slots[s[i]].id # slots[s[j]].id
             /\ Sim(slots[s[i]].vec, q) >= Sim(slots[s[j]].vec, q)
  <2>1. <<s[i], s[j]>> \in Before(q)
    BY <1>3 DEF Chain
  <2>2. s[i] # s[j] /\ Sim(slots[s[i]].vec, q) >= Sim(slots[s[j]].vec, q)
    BY <2>1, BeforeMember
  <2> QED
    BY <1>0, <2>2 DEF SlotsSound
<1>4. Cardinality(S) = N
  <2>1. \A i \in 1 .. N : e[i] = Entry(s[i]) /\ e[i] \in S /\ Entry(s[i]).id = slots[s[i]].id
    BY <1>0 DEF Entry
  <2>2. e \in Seq(S) /\ Len(e) = N
    BY <1>0, <2>1
  <2> HIDE DEF e
  <2>3. \A i, j \in 1 .. Len(e) : i < j => e[i] # e[j]
    BY <1>3, <2>1, <2>2
  <2>4. Cardinality(Elems(e)) = Len(e)
    BY <2>2, <2>3, DistinctCount
  <2>5. Elems(e) = S
    <3>1. \A x \in Elems(e) : x \in S
      BY <2>1, <2>2 DEF Elems
    <3>2. \A i \in Matching(w) : \E j \in 1 .. N : s[j] = i
      BY DEF Elems
    <3>3. ASSUME NEW x \in S PROVE x \in Elems(e)
      <4>1. PICK i \in Matching(w) : x = Entry(i)
        OBVIOUS
      <4>2. PICK j \in 1 .. N : s[j] = i
        BY <3>2
      <4>3. j \in 1 .. Len(e) /\ e[j] = x
        BY <2>1, <2>2, <4>1, <4>2
      <4> QED
        BY <4>3 DEF Elems
    <3> QED
      BY <3>1, <3>3
  <2> QED
    BY <2>2, <2>4, <2>5
<1>5. \A r \in 1 .. Len(t) : r \in 1 .. N /\ t[r] = s[r] /\ s[r] \in Matching(w)
  BY <1>0, <1>1
<1>6. Len(R) = IF k < Cardinality(S) THEN k ELSE Cardinality(S)
  BY <1>1, <1>2, <1>4
<1>7. \A i \in DOMAIN R : \E x \in S : R[i] = Store!Row(x, q)
  BY <1>2, <1>5
<1>8. \A i, j \in DOMAIN R : i < j => R[i].id # R[j].id /\ R[i].score >= R[j].score
  BY <1>2, <1>3, <1>5
<1>9. ASSUME NEW x \in S
      PROVE  \/ \E i \in DOMAIN R : R[i].id = x.id
             \/ \A i \in DOMAIN R : R[i].score >= Sim(x.vec, q)
  <2>1. PICK m \in Matching(w) : x = Entry(m)
    OBVIOUS
  <2>2. x.id = slots[m].id /\ x.vec = slots[m].vec
    BY <2>1 DEF Entry
  <2>3. PICK j \in 1 .. N : s[j] = m
    BY DEF Elems
  <2>4. CASE j \in 1 .. Len(t)
    BY <1>2, <1>5, <2>2, <2>3, <2>4
  <2>5. CASE j \notin 1 .. Len(t)
    <3>1. \A i \in 1 .. Len(t) : i < j /\ i \in 1 .. N
      BY <1>0, <1>1, <2>3, <2>5
    <3>2. \A i \in 1 .. Len(t) : Sim(slots[s[i]].vec, q) >= Sim(slots[m].vec, q)
      BY <1>3, <2>3, <3>1
    <3> QED
      BY <1>2, <1>5, <2>2, <3>2
  <2> QED
    BY <2>4, <2>5
<1>10. \A x \in S : \/ \E i \in DOMAIN R : R[i].id = x.id
                    \/ \A i \in DOMAIN R : R[i].score >= Sim(x.vec, q)
  BY <1>9
<1> HIDE DEF S
<1>11. Store!IsTopK(R, S, q, k)
  BY <1>6, <1>7, <1>8, <1>10, SameCardinality DEF Store!IsTopK
<1> QED
  BY <1>11 DEF ExactRows, R, t, S
-----------------------------------------------------------------------------
(* The inductive invariant and the theorems. *)

PInv == SlotsSound /\ ef_search \in Efs /\ RowsSound /\ AnswerExact

LEMMA PInvInit ==
    ASSUME Init
    PROVE  PInv
BY DEF Init, PInv, SlotsSound, RowsSound, AnswerExact

\* An id that an insert accepts has no slot yet, live or dead.
LEMMA InsertSound ==
    ASSUME Usage, SlotsSound, NEW id \in Ids, NEW v \in Vecs, NEW m \in Metas, insert(id, v, m)
    PROVE  SlotsSound'
<1> DEFINE x == [id |-> id, vec |-> v, meta |-> Stored(m), dead |-> FALSE]
<1>1. x \in Slot /\ x.id = id
  BY DEF Slot
<1>2. slots' = Append(slots, x) /\ slots \in Seq(Slot)
  BY DEF insert, SlotsSound
<1>3. \A i \in DOMAIN slots : slots[i].id # id
  BY DEF insert, Usage
<1> HIDE DEF x
<1>4. /\ slots' \in Seq(Slot) /\ Len(slots) \in Nat /\ DOMAIN slots = 1 .. Len(slots)
      /\ DOMAIN slots' = 1 .. Len(slots) + 1
      /\ slots'[Len(slots) + 1] = x
      /\ \A i \in DOMAIN slots : slots'[i] = slots[i]
  BY <1>1, <1>2
<1>5. \A i \in DOMAIN slots' : i \in DOMAIN slots \/ i = Len(slots) + 1
  BY <1>4
<1>6. ASSUME NEW i \in DOMAIN slots', NEW j \in DOMAIN slots', slots'[i].id = slots'[j].id
      PROVE  i = j
  BY <1>1, <1>3, <1>4, <1>5, <1>6 DEF SlotsSound
<1> QED
  BY <1>4, <1>6 DEF SlotsSound

\* A tombstone changes neither the ids nor the metadata.
LEMMA DeleteSound ==
    ASSUME SlotsSound, NEW id \in Ids, delete(id)
    PROVE  SlotsSound'
<1> DEFINE Hit(i) == i = SlotOf(id) /\ slots[i].id = id
           New(i) == IF Hit(i) THEN [slots[i] EXCEPT !.dead = TRUE] ELSE slots[i]
<1>1. slots' = [i \in DOMAIN slots |-> New(i)]
  BY DEF delete
<1>2. DOMAIN slots = 1 .. Len(slots) /\ Len(slots) \in Nat /\ \A i \in DOMAIN slots : slots[i] \in Slot
  BY DEF SlotsSound
<1>3. \A x \in Slot : /\ [x EXCEPT !.dead = TRUE] \in Slot
                      /\ [x EXCEPT !.dead = TRUE].id = x.id
  BY DEF Slot
<1>4. \A i \in DOMAIN slots : New(i) \in Slot /\ New(i).id = slots[i].id
  BY <1>2, <1>3
<1> HIDE DEF New
<1>5. /\ slots' \in Seq(Slot) /\ DOMAIN slots' = DOMAIN slots
      /\ \A i \in DOMAIN slots : slots'[i].id = slots[i].id
  BY <1>1, <1>2, <1>4
<1> QED
  BY <1>5 DEF SlotsSound

\* What a search leaves in answer, for one of the beams it may walk.
LEMMA SearchRows ==
    ASSUME Usage, SlotsSound, ef_search \in Efs,
           NEW q \in Queries, NEW k \in Ks, NEW w \in Wheres, search(q, k, w)
    PROVE  /\ UNCHANGED <<slots, ef_search>>
           /\ answer'.q = q /\ answer'.k = k /\ answer'.where = w
           /\ SoundRows(answer'.rows, q, k, w)
           /\ ReachesAll /\ (w # Null => Cardinality(Alive) <= 4 * k) =>
                 ExactRows(answer'.rows, q, k, w)
<1>0. ef_search \in Nat /\ Len(slots) \in Nat /\ k \in Nat /\ ~Rejected(w)
  BY PyAssumption, SlotFacts DEF Usage, search
<1>2. PICK b \in Beams(q) :
        answer' = [q |-> q, k |-> k, where |-> w, rows |-> Rows(Kept(b, k, w), q)]
  BY DEF search, Rows, Kept
<1>3. /\ b \in Seq(DOMAIN slots) /\ Chain(b, Before(q))
      /\ ReachesAll => Elems(b) = DOMAIN slots
  BY <1>0, BeamFacts
<1>4. /\ answer'.q = q /\ answer'.k = k /\ answer'.where = w
      /\ answer'.rows = Rows(Kept(b, k, w), q)
  BY <1>2
<1>5. SoundRows(Rows(Kept(b, k, w), q), q, k, w)
  BY <1>0, <1>3, KeptSound, RowsAreSound
<1>6. ASSUME ReachesAll, w # Null => Cardinality(Alive) <= 4 * k
      PROVE  ExactRows(Rows(Kept(b, k, w), q), q, k, w)
  <2>1. PICK s \in Seq(DOMAIN slots) :
          Chain(s, Before(q)) /\ Elems(s) = Matching(w) /\ Kept(b, k, w) = Prefix(s, k)
    BY <1>0, <1>3, <1>6, KeptExact
  <2>2. ExactRows(Rows(Prefix(s, k), q), q, k, w)
    BY <1>0, <2>1, RowsAreExact
  <2> QED
    BY <2>1, <2>2
<1>7. UNCHANGED <<slots, ef_search>>
  BY DEF search
<1> QED
  BY <1>4, <1>5, <1>6, <1>7

LEMMA SearchKeeps ==
    ASSUME Usage, PInv, NEW q \in Queries, NEW k \in Ks, NEW w \in Wheres, search(q, k, w)
    PROVE  PInv'
<1>1. /\ slots' = slots /\ ef_search' = ef_search
      /\ answer'.q = q /\ answer'.k = k /\ answer'.where = w
      /\ SoundRows(answer'.rows, q, k, w)
      /\ ReachesAll /\ (w # Null => Cardinality(Alive) <= 4 * k) =>
            ExactRows(answer'.rows, q, k, w)
  BY SearchRows DEF PInv
<1>2. SlotsSound' /\ (ef_search \in Efs)'
  BY <1>1 DEF PInv, SlotsSound
<1>3. Alive' = Alive /\ ReachesAll' = ReachesAll /\ \A i : Entry(i)' = Entry(i)
  BY <1>1 DEF Alive, ReachesAll, Entry
<1>4. RowsSound'
  BY <1>1, <1>3 DEF RowsSound, SoundRows
<1>5. AnswerExact'
  BY <1>1, <1>3 DEF AnswerExact, ExactRows, Matching
<1> QED
  BY <1>2, <1>4, <1>5 DEF PInv

LEMMA PInvStep ==
    ASSUME Usage, PInv, [Next]_vars
    PROVE  PInv'
<1>1. ASSUME SlotsSound', (ef_search \in Efs)', answer' = NoAnswer
      PROVE  PInv'
  BY <1>1 DEF PInv, RowsSound, AnswerExact
<1>2. ASSUME NEW id \in Ids, delete(id)
      PROVE  PInv'
  BY <1>1, <1>2, DeleteSound DEF PInv, delete
<1>3. ASSUME NEW id \in Ids, NEW v \in Vecs, NEW m \in Metas, insert(id, v, m)
      PROVE  PInv'
  BY <1>1, <1>3, InsertSound DEF PInv, insert
<1>4. ASSUME NEW ef \in Efs, set_ef_search(ef)
      PROVE  PInv'
  BY <1>1, <1>4 DEF PInv, set_ef_search, SlotsSound
<1>5. CASE return
  BY <1>1, <1>5 DEF PInv, return, SlotsSound
<1>6. ASSUME NEW q \in Queries, NEW k \in Ks, NEW w \in Wheres, search(q, k, w)
      PROVE  PInv'
  BY <1>6, SearchKeeps
<1>7. CASE UNCHANGED vars
  <2>1. slots' = slots /\ ef_search' = ef_search /\ answer' = answer
    BY <1>7 DEF vars
  <2> QED
    BY <2>1 DEF PInv, SlotsSound, RowsSound, AnswerExact, ReachesAll, Alive, Entry
<1> QED
  BY <1>2, <1>3, <1>4, <1>5, <1>6, <1>7 DEF Next

LEMMA PInvAlways ==
    ASSUME Usage
    PROVE  Spec => []PInv
<1>1. Init => PInv
  BY PInvInit
<1>2. PInv /\ [Next]_vars => PInv'
  BY PInvStep
<1> QED
  BY <1>1, <1>2, PTL DEF Spec

(* Whatever the walk missed and whatever was deleted before, each row of an answer
   is a live vector that the where clause admits, with its own score and metadata;
   no row comes twice, the best comes first, and there are at most k. *)
THEOREM RowsAlwaysSound ==
    ASSUME Usage
    PROVE  Spec => []RowsSound
<1>1. PInv => RowsSound
  BY DEF PInv
<1> QED
  BY <1>1, PInvAlways, PTL

(* While no layer-0 list can have been pruned (at most 2M + 1 slots), with
   ef_search at least the number of slots, and at most 4k live vectors if there
   is a clause, Index.search returns the exact k best that satisfy it. *)
THEOREM AnswersAlwaysExact ==
    ASSUME Usage
    PROVE  Spec => []AnswerExact
<1>1. PInv => AnswerExact
  BY DEF PInv
<1> QED
  BY <1>1, PInvAlways, PTL
=============================================================================
