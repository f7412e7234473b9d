-------------------------- MODULE SearchLayerProofs --------------------------
(***************************************************************************)
(* Proofs about what search_layer_ is built on.                            *)
(*                                                                         *)
(* VisitedTags, for every number of threads and indexes, every width of    *)
(* the tag and every margin: the buffer stands for the set of slots that   *)
(* were marked (VisitedExact), and it is long enough until the index has   *)
(* grown under the walk, by more than the margin after a resize            *)
(* (InBounds).                                                             *)
(*                                                                         *)
(* Kernels, for every dimension: a kernel's sum has each term once         *)
(* (TermsOnce), and nothing is read past the end of the vectors            *)
(* (ReadsInBounds).                                                        *)
(***************************************************************************)
EXTENDS VisitedTags, Kernels, FiniteSetTheorems, TLAPS

Buffers == UNION {[0 .. n - 1 -> 0 .. Wrap - 1] : n \in Nat}

\* No entry carries a tag that is still to come.
TagsPast == \A t \in Threads : \A s \in DOMAIN visited_buf[t] : visited_buf[t][s] <= visit_tag[t]

Inv ==
    /\ TypeOK
    /\ TagsPast
    /\ VisitedExact

LEMMA SizeLemma ==
    ASSUME NEW n \in Nat, NEW b, DOMAIN b = 0 .. n - 1
    PROVE  Size(b) = n
<1>1. Cardinality(0 .. n - 1) = IF 0 > n - 1 THEN 0 ELSE (n - 1) - 0 + 1
  BY FS_Interval
<1>. QED
  BY <1>1 DEF Size

\* r is a buffer that is long enough for nv slots, and for Margin more if it is
\* not as long as b; it holds nothing that is not in b, and nothing but zeros
\* when the tag has wrapped around.
Ready(r, b, nv, tag) ==
    /\ r \in Buffers
    /\ 0 .. nv - 1 \subseteq DOMAIN r
    /\ Size(r) # Size(b) => 0 .. (nv + Margin) - 1 \subseteq DOMAIN r
    /\ tag = 0 => \A s \in DOMAIN r : r[s] = 0
    /\ tag # 0 => \A s \in DOMAIN r : r[s] = 0 \/ (s \in DOMAIN b /\ r[s] = b[s])

\* What StartWalk makes of a buffer, before it marks the entry point.
LEMMA ReadyLemma ==
    ASSUME NEW b \in Buffers, NEW nv \in Nat, NEW tag \in 0 .. Wrap - 1,
           NEW r, r = Cleared(Grown(b, nv), tag)
    PROVE  Ready(r, b, nv, tag)
<1>. DEFINE g == Grown(b, nv)
<1>. USE TagAssumption, SizeAssumption
<1>1. PICK n \in Nat : b \in [0 .. n - 1 -> 0 .. Wrap - 1]
  BY DEF Buffers
<1>2. Size(b) = n
  BY <1>1, SizeLemma
<1>3. /\ g \in Buffers
      /\ 0 .. nv - 1 \subseteq DOMAIN g
      /\ g # b => 0 .. (nv + Margin) - 1 \subseteq DOMAIN g
      /\ \A s \in DOMAIN g : g[s] = 0 \/ (s \in DOMAIN b /\ g[s] = b[s])
  <2>1. CASE n < nv
    <3>1. g = [s \in 0 .. (nv + Margin) - 1 |-> IF s \in DOMAIN b THEN b[s] ELSE 0]
      BY <2>1, <1>2 DEF Grown, TooShort
    <3>2. g \in [0 .. (nv + Margin) - 1 -> 0 .. Wrap - 1]
      BY <3>1, <1>1
    <3>3. nv + Margin \in Nat
      OBVIOUS
    <3>4. g \in Buffers
      BY <3>2, <3>3 DEF Buffers
    <3>. QED
      BY <3>1, <3>4
  <2>2. CASE ~(n < nv)
    <3>1. g = b
      BY <2>2, <1>2 DEF Grown, TooShort
    <3>. QED
      BY <3>1, <2>2, <1>1
  <2>. QED
    BY <2>1, <2>2
<1>. HIDE DEF g
<1>4. PICK m \in Nat : g \in [0 .. m - 1 -> 0 .. Wrap - 1]
  BY <1>3 DEF Buffers
<1>5. CASE tag = 0
  <2>1. r = [s \in DOMAIN g |-> 0]
    BY <1>5 DEF Cleared, g
  <2>2. r \in [0 .. m - 1 -> 0 .. Wrap - 1]
    BY <2>1, <1>4
  <2>3. r \in Buffers
    BY <2>2 DEF Buffers
  <2>4. DOMAIN r = DOMAIN g /\ Size(r) = Size(g)
    BY <2>1 DEF Size
  <2>. QED
    BY <1>5, <2>1, <2>3, <2>4, <1>3 DEF Ready
<1>6. CASE tag # 0
  <2>1. r = g
    BY <1>6 DEF Cleared, g
  <2>. QED
    BY <1>6, <2>1, <1>3 DEF Ready
<1>. QED
  BY <1>5, <1>6

LEMMA MarkLemma ==
    ASSUME NEW b \in Buffers, NEW x, NEW e \in 0 .. Wrap - 1
    PROVE  /\ [b EXCEPT ![x] = e] \in Buffers
           /\ DOMAIN [b EXCEPT ![x] = e] = DOMAIN b
<1>1. PICK n \in Nat : b \in [0 .. n - 1 -> 0 .. Wrap - 1]
  BY DEF Buffers
<1>2. [b EXCEPT ![x] = e] \in [0 .. n - 1 -> 0 .. Wrap - 1]
  BY <1>1
<1>. QED
  BY <1>1, <1>2 DEF Buffers

LEMMA TypeBuffers == TypeOK => \A t \in Threads : visited_buf[t] \in Buffers
BY DEF TypeOK, Buffers

\* The conjunct of TypeOK about buffers, from membership in Buffers.
LEMMA BuffersType ==
    ASSUME NEW b \in Buffers
    PROVE  \E n \in Nat : b \in [0 .. n - 1 -> 0 .. Wrap - 1]
BY DEF Buffers

LEMMA InitInv == Init => Inv
<1>. SUFFICES ASSUME Init PROVE Inv
  OBVIOUS
<1>. USE TagAssumption, SizeAssumption, NoneAssumption
<1>1. \A t \in Threads : DOMAIN visited_buf[t] = {}
  BY DEF Init
<1>2. \A t \in Threads : visited_buf[t] \in [0 .. 0 - 1 -> 0 .. Wrap - 1]
  BY DEF Init
<1>3. TypeOK
  BY <1>2 DEF Init, TypeOK
<1>. QED
  BY <1>1, <1>3 DEF Init, Inv, TagsPast, VisitedExact

LEMMA StartWalkInv ==
    ASSUME Inv, NEW t \in Threads, NEW x \in Indexes, NEW e \in Slots(x), StartWalk(t, x, e)
    PROVE  /\ Inv'
           /\ visited_buf'[t] \in Buffers
           /\ 0 .. num_vectors[x] - 1 \subseteq DOMAIN visited_buf'[t]
           /\ resized'[t] => 0 .. (num_vectors[x] + Margin) - 1 \subseteq DOMAIN visited_buf'[t]
<1>. USE TagAssumption, SizeAssumption
<1>. DEFINE tag == (visit_tag[t] + 1) % Wrap
            r   == Cleared(Grown(visited_buf[t], num_vectors[x]), tag)
            new == IF tag = 0 THEN 1 ELSE tag
<1>1. /\ TypeOK /\ TagsPast /\ VisitedExact
      /\ visit_tag[t] \in 0 .. Wrap - 1 /\ num_vectors[x] \in Nat /\ visited_buf[t] \in Buffers
      /\ e \in Nat
  <2>1. TypeOK /\ TagsPast /\ VisitedExact
    BY DEF Inv
  <2>2. visit_tag[t] \in 0 .. Wrap - 1 /\ num_vectors[x] \in Nat
    BY <2>1 DEF TypeOK
  <2>3. visited_buf[t] \in Buffers
    BY <2>1, TypeBuffers
  <2>. QED
    BY <2>1, <2>2, <2>3 DEF Slots
<1>2. tag \in 0 .. Wrap - 1 /\ new \in 0 .. Wrap - 1 /\ new \in 1 .. Wrap - 1 /\ (tag # 0 => new = visit_tag[t] + 1)
  BY <1>1
<1>. HIDE DEF tag, r, new
<1>3. /\ r \in Buffers
      /\ 0 .. num_vectors[x] - 1 \subseteq DOMAIN r
      /\ Size(r) # Size(visited_buf[t]) => 0 .. (num_vectors[x] + Margin) - 1 \subseteq DOMAIN r
      /\ tag = 0 => \A s \in DOMAIN r : r[s] = 0
      /\ tag # 0 => \A s \in DOMAIN r : r[s] = 0 \/ (s \in DOMAIN visited_buf[t] /\ r[s] = visited_buf[t][s])
  <2>1. r = Cleared(Grown(visited_buf[t], num_vectors[x]), tag)
    BY DEF r
  <2>2. tag \in 0 .. Wrap - 1 /\ num_vectors[x] \in Nat /\ visited_buf[t] \in Buffers
    BY <1>1, <1>2
  <2>3. Ready(r, visited_buf[t], num_vectors[x], tag)
    BY <2>1, <2>2, ReadyLemma
  <2>. QED
    BY <2>3 DEF Ready
<1>4. PICK m \in Nat : r \in [0 .. m - 1 -> 0 .. Wrap - 1]
  BY <1>3 DEF Buffers
<1>5. \A s \in DOMAIN r : r[s] < new
  <2>. SUFFICES ASSUME NEW s \in DOMAIN r PROVE r[s] < new
    OBVIOUS
  <2>1. r[s] = 0 => r[s] < new
    BY <1>2
  <2>2. CASE tag # 0 /\ s \in DOMAIN visited_buf[t] /\ r[s] = visited_buf[t][s]
    <3>1. visited_buf[t][s] <= visit_tag[t]
      BY <2>2, <1>1 DEF TagsPast
    <3>2. r[s] \in 0 .. Wrap - 1
      BY <1>4
    <3>. QED
      BY <2>2, <3>1, <3>2, <1>1, <1>2
  <2>. QED
    BY <2>1, <2>2, <1>3
<1>6. /\ visit_tag' = [visit_tag EXCEPT ![t] = new]
      /\ walk' = [walk EXCEPT ![t] = x]
      /\ seen' = [seen EXCEPT ![t] = {e}]
      /\ start' = [start EXCEPT ![t] = num_vectors[x]]
      /\ resized' = [resized EXCEPT ![t] = Size(visited_buf'[t]) # Size(visited_buf[t])]
      /\ UNCHANGED num_vectors
  BY DEF StartWalk, tag, new
<1>7. visit_tag'[t] = new
  BY <1>6, <1>1 DEF TypeOK
<1>8. visited_buf' = [visited_buf EXCEPT ![t] = [r EXCEPT ![e] = new]]
  BY <1>7 DEF StartWalk, r, tag
<1>9. visited_buf'[t] = [r EXCEPT ![e] = new]
  BY <1>8, <1>1 DEF TypeOK
<1>10. visited_buf'[t] \in Buffers /\ DOMAIN visited_buf'[t] = DOMAIN r
  <2>1. [r EXCEPT ![e] = new] \in Buffers /\ DOMAIN [r EXCEPT ![e] = new] = DOMAIN r
    BY <1>2, <1>3, MarkLemma
  <2>. QED
    BY <1>9, <2>1
<1>11. \A s \in DOMAIN r : visited_buf'[t][s] = IF s = e THEN new ELSE r[s]
  BY <1>4, <1>9
<1>12. \A u \in Threads : u # t =>
          /\ visited_buf'[u] = visited_buf[u] /\ visit_tag'[u] = visit_tag[u]
          /\ walk'[u] = walk[u] /\ seen'[u] = seen[u]
  BY <1>6, <1>8, <1>1 DEF TypeOK
<1>13. TypeOK'
  <2>1. \A u \in Threads : visited_buf'[u] \in Buffers
    BY <1>1, <1>10, <1>12, TypeBuffers
  <2>2. \A u \in Threads : \E n \in Nat : visited_buf'[u] \in [0 .. n - 1 -> 0 .. Wrap - 1]
    BY <2>1, BuffersType
  <2>3. DOMAIN visited_buf' = Threads /\ visit_tag' \in [Threads -> 0 .. Wrap - 1]
    BY <1>1, <1>2, <1>6, <1>8 DEF TypeOK
  <2>4. walk' \in [Threads -> Indexes \cup {None}] /\ num_vectors' \in [Indexes -> 0 .. MaxVectors]
    BY <1>1, <1>6 DEF TypeOK
  <2>5. seen' \in [Threads -> SUBSET Nat]
    BY <1>1, <1>6 DEF TypeOK
  <2>6. start' \in [Threads -> 0 .. MaxVectors] /\ resized' \in [Threads -> BOOLEAN]
    <3>1. start' \in [Threads -> 0 .. MaxVectors]
      BY <1>1, <1>6 DEF TypeOK
    <3>. DEFINE grew == Size(visited_buf'[t]) # Size(visited_buf[t])
    <3>2. resized' = [resized EXCEPT ![t] = grew] /\ grew \in BOOLEAN
      BY <1>6
    <3>. HIDE DEF grew
    <3>3. resized' \in [Threads -> BOOLEAN]
      BY <1>1, <3>2 DEF TypeOK
    <3>. QED
      BY <3>1, <3>3
  <2>. QED
    BY <2>2, <2>3, <2>4, <2>5, <2>6 DEF TypeOK
<1>14. TagsPast'
  <2>. SUFFICES ASSUME NEW u \in Threads, NEW s \in DOMAIN visited_buf'[u]
                PROVE  visited_buf'[u][s] <= visit_tag'[u]
    BY DEF TagsPast
  <2>1. CASE u = t
    <3>1. s \in DOMAIN r /\ r[s] \in 0 .. Wrap - 1
      BY <2>1, <1>4, <1>10
    <3>. QED
      BY <2>1, <3>1, <1>2, <1>5, <1>7, <1>11
  <2>2. CASE u # t
    BY <2>2, <1>1, <1>12 DEF TagsPast
  <2>. QED
    BY <2>1, <2>2
<1>15. VisitedExact'
  <2>. SUFFICES ASSUME NEW u \in Threads, walk'[u] # None
                PROVE  {s \in DOMAIN visited_buf'[u] : visited_buf'[u][s] = visit_tag'[u]}
                          = seen'[u] \cap DOMAIN visited_buf'[u]
    BY DEF VisitedExact
  <2>1. CASE u = t
    <3>1. \A s \in DOMAIN r : r[s] # new
      BY <1>4, <1>5, <1>2
    <3>2. seen'[t] = {e}
      BY <1>6, <1>1 DEF TypeOK
    <3>. QED
      BY <2>1, <3>1, <3>2, <1>7, <1>10, <1>11
  <2>2. CASE u # t
    BY <2>2, <1>1, <1>12 DEF VisitedExact
  <2>. QED
    BY <2>1, <2>2
<1>16. resized'[t] => 0 .. (num_vectors[x] + Margin) - 1 \subseteq DOMAIN visited_buf'[t]
  <2>1. resized'[t] = (Size(visited_buf'[t]) # Size(visited_buf[t]))
    BY <1>1, <1>6 DEF TypeOK
  <2>2. Size(visited_buf'[t]) = Size(r)
    BY <1>10 DEF Size
  <2>. QED
    BY <1>3, <1>10, <2>1, <2>2
<1>. QED
  BY <1>3, <1>10, <1>13, <1>14, <1>15, <1>16 DEF Inv

LEMMA VisitInv ==
    ASSUME Inv, NEW t \in Threads, walk[t] # None, NEW n \in Slots(walk[t]), Visit(t, n)
    PROVE  /\ Inv'
           /\ \A u \in Threads : DOMAIN visited_buf'[u] = DOMAIN visited_buf[u]
<1>. USE TagAssumption, SizeAssumption
<1>. DEFINE b == visited_buf[t]
            c == IF n \in DOMAIN b THEN [b EXCEPT ![n] = visit_tag[t]] ELSE b
<1>1. /\ TypeOK /\ TagsPast /\ VisitedExact /\ b \in Buffers
      /\ visit_tag[t] \in 0 .. Wrap - 1 /\ n \in Nat
  <2>1. walk[t] \in Indexes /\ num_vectors[walk[t]] \in Nat
    BY DEF Inv, TypeOK
  <2>. QED
    <3>1. TypeOK /\ TagsPast /\ VisitedExact /\ b \in Buffers
      BY TypeBuffers DEF Inv
    <3>2. visit_tag[t] \in 0 .. Wrap - 1
      BY <3>1 DEF TypeOK
    <3>. QED
      BY <2>1, <3>1, <3>2 DEF Slots
<1>2. visited_buf' = [visited_buf EXCEPT ![t] = c] /\ visited_buf'[t] = c
  BY <1>1 DEF Visit, TypeOK
<1>3. c \in Buffers /\ DOMAIN c = DOMAIN b
  BY <1>1, MarkLemma
<1>4. PICK m \in Nat : b \in [0 .. m - 1 -> 0 .. Wrap - 1]
  BY <1>1 DEF Buffers
<1>5. \A s \in DOMAIN b : c[s] = IF s = n THEN visit_tag[t] ELSE b[s]
  BY <1>4
<1>6. /\ seen' = [seen EXCEPT ![t] = @ \cup {n}]
      /\ UNCHANGED <<num_vectors, visit_tag, walk, start, resized>>
  BY DEF Visit
<1>7. \A u \in Threads : u # t => visited_buf'[u] = visited_buf[u] /\ seen'[u] = seen[u]
  BY <1>1, <1>2, <1>6 DEF TypeOK
<1>. HIDE DEF b, c
<1>8. TypeOK'
  <2>1. \A u \in Threads : visited_buf'[u] \in Buffers
    BY <1>1, <1>2, <1>3, <1>7, TypeBuffers
  <2>2. \A u \in Threads : \E k \in Nat : visited_buf'[u] \in [0 .. k - 1 -> 0 .. Wrap - 1]
    BY <2>1, BuffersType
  <2>3. seen' \in [Threads -> SUBSET Nat]
    BY <1>1, <1>6 DEF TypeOK
  <2>. QED
    BY <1>1, <1>2, <1>6, <2>2, <2>3 DEF TypeOK
<1>9. TagsPast'
  <2>. SUFFICES ASSUME NEW u \in Threads, NEW s \in DOMAIN visited_buf'[u]
                PROVE  visited_buf'[u][s] <= visit_tag[u]
    BY <1>6 DEF TagsPast
  <2>1. CASE u = t
    BY <2>1, <1>1, <1>2, <1>3, <1>5 DEF TagsPast, b
  <2>2. CASE u # t
    BY <2>2, <1>1, <1>7 DEF TagsPast
  <2>. QED
    BY <2>1, <2>2
<1>10. VisitedExact'
  <2>. SUFFICES ASSUME NEW u \in Threads, walk[u] # None
                PROVE  {s \in DOMAIN visited_buf'[u] : visited_buf'[u][s] = visit_tag[u]}
                          = seen'[u] \cap DOMAIN visited_buf'[u]
    BY <1>6 DEF VisitedExact
  <2>1. CASE u = t
    <3>1. {s \in DOMAIN b : b[s] = visit_tag[t]} = seen[t] \cap DOMAIN b
      BY <2>1, <1>1 DEF VisitedExact, b
    <3>2. seen'[t] \cap DOMAIN b = (seen[t] \cup {n}) \cap DOMAIN b
      BY <1>6, <1>1 DEF TypeOK
    <3>. QED
      BY <2>1, <3>1, <3>2, <1>2, <1>3, <1>5
  <2>2. CASE u # t
    BY <2>2, <1>1, <1>7 DEF VisitedExact
  <2>. QED
    BY <2>1, <2>2
<1>11. \A u \in Threads : DOMAIN visited_buf'[u] = DOMAIN visited_buf[u]
  BY <1>2, <1>3, <1>7 DEF b
<1>. QED
  BY <1>8, <1>9, <1>10, <1>11 DEF Inv

LEMMA NextInv == Inv /\ [Next]_vars => Inv'
<1>. SUFFICES ASSUME Inv, [Next]_vars PROVE Inv'
  OBVIOUS
<1>. USE TagAssumption, SizeAssumption
<1>1. ASSUME NEW t \in Threads, NEW x \in Indexes, Allocate(t, x) PROVE Inv'
  <2>1. num_vectors' \in [Indexes -> 0 .. MaxVectors]
    BY <1>1 DEF Inv, TypeOK, Allocate
  <2>2. UNCHANGED <<visited_buf, visit_tag, walk, seen, start, resized>>
    BY <1>1 DEF Allocate
  <2>. QED
    BY <2>1, <2>2 DEF Inv, TypeOK, TagsPast, VisitedExact
<1>2. ASSUME NEW t \in Threads, EndWalk(t) PROVE Inv'
  <2>1. /\ walk' = [walk EXCEPT ![t] = None] /\ seen' = [seen EXCEPT ![t] = {}]
        /\ start' = [start EXCEPT ![t] = 0] /\ resized' = [resized EXCEPT ![t] = FALSE]
        /\ UNCHANGED <<num_vectors, visited_buf, visit_tag>>
    BY <1>2 DEF EndWalk
  <2>2. TypeOK'
    <3>1. resized' \in [Threads -> BOOLEAN]
      BY <2>1 DEF Inv, TypeOK
    <3>2. start' \in [Threads -> 0 .. MaxVectors]
      BY <2>1 DEF Inv, TypeOK
    <3>. QED
      BY <2>1, <3>1, <3>2 DEF Inv, TypeOK
  <2>3. TagsPast'
    BY <2>1 DEF Inv, TagsPast
  <2>4. VisitedExact'
    <3>. SUFFICES ASSUME NEW u \in Threads, walk'[u] # None
                  PROVE  {s \in DOMAIN visited_buf[u] : visited_buf[u][s] = visit_tag[u]}
                            = seen'[u] \cap DOMAIN visited_buf[u]
      BY <2>1 DEF VisitedExact
    <3>1. u # t /\ walk[u] # None /\ seen'[u] = seen[u]
      BY <2>1 DEF Inv, TypeOK
    <3>. QED
      BY <3>1 DEF Inv, VisitedExact
  <2>. QED
    BY <2>2, <2>3, <2>4 DEF Inv
<1>3. CASE UNCHANGED vars
  BY <1>3 DEF vars, Inv, TypeOK, TagsPast, VisitedExact
<1>. QED
  BY <1>1, <1>2, <1>3, StartWalkInv, VisitInv DEF Next

LEMMA AlwaysInv == Spec => []Inv
<1>. QED
  BY InitInv, NextInv, PTL DEF Spec

\* The buffer and tag of search_layer_ stand for the set of slots this traversal
\* has marked, for every tag width of at least one bit and every margin, across
\* indexes, resizes and wrap-arounds, and also while the index grows.
THEOREM BufferIsExact == Spec => []VisitedExact
<1>1. Inv => VisitedExact
  BY DEF Inv
<1>. QED
  BY <1>1, AlwaysInv, PTL

\* The entries a traversal can count on: those of its first load of num_vectors_,
\* and Margin more if the buffer was resized for it.
Covered ==
    \A t \in Threads : walk[t] # None =>
        /\ 0 .. start[t] - 1 \subseteq DOMAIN visited_buf[t]
        /\ resized[t] => 0 .. (start[t] + Margin) - 1 \subseteq DOMAIN visited_buf[t]

LEMMA CoveredNext ==
    ASSUME Inv, Covered, [Next]_vars
    PROVE  Covered'
<1>0. TypeOK
  BY DEF Inv
<1>1. ASSUME NEW t \in Threads, NEW x \in Indexes, Allocate(t, x) PROVE Covered'
  BY <1>1 DEF Allocate, Covered
<1>2. ASSUME NEW t \in Threads, NEW x \in Indexes, NEW e \in Slots(x), StartWalk(t, x, e)
      PROVE  Covered'
  <2>1. /\ 0 .. num_vectors[x] - 1 \subseteq DOMAIN visited_buf'[t]
        /\ resized'[t] => 0 .. (num_vectors[x] + Margin) - 1 \subseteq DOMAIN visited_buf'[t]
    BY <1>2, StartWalkInv
  <2>2. start'[t] = num_vectors[x]
    BY <1>0, <1>2 DEF StartWalk, TypeOK
  <2>3. \A u \in Threads : u # t => /\ walk'[u] = walk[u] /\ visited_buf'[u] = visited_buf[u]
                                    /\ start'[u] = start[u] /\ resized'[u] = resized[u]
    BY <1>0, <1>2 DEF StartWalk, TypeOK
  <2>. QED
    BY <2>1, <2>2, <2>3 DEF Covered
<1>3. ASSUME NEW t \in Threads, walk[t] # None, NEW n \in Slots(walk[t]), Visit(t, n)
      PROVE  Covered'
  <2>1. \A u \in Threads : DOMAIN visited_buf'[u] = DOMAIN visited_buf[u]
    BY <1>3, VisitInv
  <2>2. UNCHANGED <<walk, start, resized>>
    BY <1>3 DEF Visit
  <2>. QED
    BY <2>1, <2>2 DEF Covered
<1>4. ASSUME NEW t \in Threads, EndWalk(t) PROVE Covered'
  <2>1. /\ visited_buf' = visited_buf /\ walk'[t] = None
        /\ \A u \in Threads : u # t => /\ walk'[u] = walk[u]
                                       /\ start'[u] = start[u] /\ resized'[u] = resized[u]
    BY <1>0, <1>4 DEF EndWalk, TypeOK
  <2>. QED
    BY <2>1 DEF Covered
<1>5. CASE UNCHANGED vars
  BY <1>5 DEF vars, Covered
<1>. QED
  BY <1>1, <1>2, <1>3, <1>4, <1>5 DEF Next

LEMMA CoveredInBounds ==
    ASSUME TypeOK, Covered
    PROVE  InBounds
<1>. SUFFICES ASSUME NEW t \in Threads, walk[t] # None,
                     Growth(t) <= (IF resized[t] THEN Margin ELSE 0),
                     NEW n \in Slots(walk[t])
              PROVE  n \in DOMAIN visited_buf[t]
  BY DEF InBounds
<1>1. /\ num_vectors[walk[t]] \in Nat /\ start[t] \in Nat /\ Margin \in Nat
      /\ resized[t] \in BOOLEAN
  BY SizeAssumption DEF TypeOK
<1>2. n \in Nat /\ n < start[t] + (IF resized[t] THEN Margin ELSE 0)
  BY <1>1 DEF Slots, Growth
<1>3. CASE resized[t]
  <2>1. n \in 0 .. (start[t] + Margin) - 1
    BY <1>1, <1>2, <1>3
  <2>. QED
    BY <1>3, <2>1 DEF Covered
<1>4. CASE ~resized[t]
  <2>1. n \in 0 .. start[t] - 1
    BY <1>1, <1>2, <1>4
  <2>. QED
    BY <2>1 DEF Covered
<1>. QED
  BY <1>3, <1>4

\* search_layer_ leaves visited_buf only for a slot that was inserted while it
\* ran, and after a resize only when more than the margin were: for all threads
\* and indexes, however they are walked in turn and whoever inserts meanwhile.
THEOREM WalksInBounds == Spec => []InBounds
<1>1. Init => Covered
  BY DEF Init, Covered
<1>2. Inv /\ Covered /\ [Next]_vars => Covered'
  BY CoveredNext
<1>3. Inv /\ Covered => InBounds
  BY CoveredInBounds DEF Inv
<1>. QED
  BY <1>1, <1>2, <1>3, AlwaysInv, PTL DEF Spec
-----------------------------------------------------------------------------
(* The distance kernels. *)

\* Lane l has added exactly the terms below i that are l modulo the width.
LanesOK ==
    \A l \in Lanes, j \in Terms :
        acc[l][j] = IF l < Width /\ j < i /\ j % Width = l THEN 1 ELSE 0

\* The inductive invariant: while blocks are added, the lanes hold the terms
\* below i; from then on the sum does.
KInv ==
    /\ KernelType
    /\ i <= dim
    /\ pc = "blocks" =>
          /\ kernel # "naive"
          /\ i % Width = 0
          /\ LanesOK
          /\ \A j \in Terms : sum[j] = 0
    /\ pc # "blocks" =>
          /\ \A j \in Terms : sum[j] = IF j < i THEN 1 ELSE 0
          /\ \A l \in Lanes, j \in Terms : j >= dim => acc[l][j] = 0
    /\ pc = "done" => i = dim

\* The reduction of the lanes, term by term.
LEMMA SumLemma ==
    ASSUME NEW v \in [Lanes -> [Terms -> Nat]]
    PROVE  /\ hsum256(v) \in [Terms -> Nat]
           /\ vaddvq(v) \in [Terms -> Nat]
           /\ \A j \in Terms : hsum256(v)[j] =
                 v[0][j] + v[1][j] + v[2][j] + v[3][j] + v[4][j] + v[5][j] + v[6][j] + v[7][j]
           /\ \A j \in Terms : vaddvq(v)[j] = v[0][j] + v[1][j] + v[2][j] + v[3][j]
<1>1. \A l \in Lanes : v[l] \in [Terms -> Nat]
  OBVIOUS
<1>2. {0, 1, 2, 3, 4, 5, 6, 7} \subseteq Lanes
  BY DEF Lanes
<1>3. \A f, g \in [Terms -> Nat] :
         Plus(f, g) \in [Terms -> Nat] /\ \A j \in Terms : Plus(f, g)[j] = f[j] + g[j]
  BY DEF Plus
<1>4. hsum256(v) = Plus(Plus(Plus(v[0], v[4]), Plus(v[1], v[5])), Plus(Plus(v[2], v[6]), Plus(v[3], v[7])))
  BY DEF hsum256, AddPs, MoveHdup, MoveHl
<1>5. vaddvq(v) = Plus(Plus(v[0], v[1]), Plus(v[2], v[3]))
  BY DEF vaddvq
<1>. HIDE DEF hsum256, vaddvq
<1>6. \A l \in Lanes, j \in Terms : v[l][j] \in Nat
  OBVIOUS
<1>7. /\ hsum256(v) \in [Terms -> Nat]
      /\ \A j \in Terms : hsum256(v)[j] =
            ((v[0][j] + v[4][j]) + (v[1][j] + v[5][j])) + ((v[2][j] + v[6][j]) + (v[3][j] + v[7][j]))
  <2>. DEFINE a == Plus(v[0], v[4])
              b == Plus(v[1], v[5])
              c == Plus(v[2], v[6])
              d == Plus(v[3], v[7])
  <2>1. /\ a \in [Terms -> Nat] /\ \A j \in Terms : a[j] = v[0][j] + v[4][j]
        /\ b \in [Terms -> Nat] /\ \A j \in Terms : b[j] = v[1][j] + v[5][j]
        /\ c \in [Terms -> Nat] /\ \A j \in Terms : c[j] = v[2][j] + v[6][j]
        /\ d \in [Terms -> Nat] /\ \A j \in Terms : d[j] = v[3][j] + v[7][j]
    BY <1>1, <1>2, <1>3
  <2>. HIDE DEF a, b, c, d
  <2>2. /\ Plus(a, b) \in [Terms -> Nat] /\ \A j \in Terms : Plus(a, b)[j] = a[j] + b[j]
        /\ Plus(c, d) \in [Terms -> Nat] /\ \A j \in Terms : Plus(c, d)[j] = c[j] + d[j]
    BY <2>1, <1>3
  <2>3. hsum256(v) = Plus(Plus(a, b), Plus(c, d))
    BY <1>4 DEF a, b, c, d
  <2>4. /\ hsum256(v) \in [Terms -> Nat]
        /\ \A j \in Terms : hsum256(v)[j] = Plus(a, b)[j] + Plus(c, d)[j]
    BY <2>2, <2>3, <1>3
  <2>. QED
    BY <2>1, <2>2, <2>4
<1>8. /\ vaddvq(v) \in [Terms -> Nat]
      /\ \A j \in Terms : vaddvq(v)[j] = (v[0][j] + v[1][j]) + (v[2][j] + v[3][j])
  <2>1. /\ Plus(v[0], v[1]) \in [Terms -> Nat] /\ \A j \in Terms : Plus(v[0], v[1])[j] = v[0][j] + v[1][j]
        /\ Plus(v[2], v[3]) \in [Terms -> Nat] /\ \A j \in Terms : Plus(v[2], v[3])[j] = v[2][j] + v[3][j]
    BY <1>1, <1>2, <1>3
  <2>. QED
    BY <2>1, <1>3, <1>5
<1>. QED
  BY <1>2, <1>6, <1>7, <1>8

LEMMA KInit == KernelInit => KInv
<1>. SUFFICES ASSUME KernelInit PROVE KInv
  OBVIOUS
<1>1. kernel \in Kernels
  BY DEF KernelInit, Dispatch, Kernels
<1>2. Width \in {4, 8}
  BY DEF Width
<1>3. KernelType
  BY <1>1, DimAssumption DEF KernelInit, KernelType, Nothing
<1>. QED
  BY <1>1, <1>2, <1>3, DimAssumption DEF KernelInit, KInv, LanesOK, Nothing, Terms, Lanes

LEMMA KNext == KInv /\ [KernelNext]_kernelVars => KInv'
<1>. SUFFICES ASSUME KInv, [KernelNext]_kernelVars PROVE KInv'
  OBVIOUS
<1>. USE DimAssumption
<1>0. KernelType /\ i \in Nat /\ dim \in Nat /\ i <= dim /\ dim <= MaxDim /\ Width \in {4, 8}
  BY DEF KInv, KernelType, Width
<1>1. CASE Block
  <2>1. i + Width <= dim /\ i' = i + Width /\ UNCHANGED <<kernel, dim, sum, pc>> /\ pc = "blocks"
    BY <1>1 DEF Block, Fits
  <2>2. Width' = Width
    BY <2>1 DEF Width
  <2>3. acc' = [l \in Lanes |-> IF l < Width THEN With(acc[l], i + l) ELSE acc[l]]
    BY <1>1 DEF Block
  <2>4. \A l \in Lanes : acc[l] \in [Terms -> Nat]
    BY <1>0 DEF KernelType
  <2>5. \A l \in Lanes : l < Width => i + l \in Terms
    BY <1>0, <2>1 DEF Lanes, Terms
  <2>6. \A l \in Lanes, j \in Terms :
           acc'[l][j] = IF l < Width /\ j = i + l THEN acc[l][j] + 1 ELSE acc[l][j]
    BY <2>3, <2>4, <2>5 DEF With
  <2>7. \A l \in Lanes : acc'[l] \in [Terms -> Nat]
    <3>. SUFFICES ASSUME NEW l \in Lanes PROVE acc'[l] \in [Terms -> Nat]
      OBVIOUS
    <3>1. CASE l < Width
      <4>1. acc'[l] = [acc[l] EXCEPT ![i + l] = acc[l][i + l] + 1]
        BY <3>1, <2>3 DEF With
      <4>2. acc[l][i + l] + 1 \in Nat
        BY <3>1, <2>4, <2>5
      <4>. QED
        BY <4>1, <4>2, <2>4
    <3>2. CASE ~(l < Width)
      BY <3>2, <2>3, <2>4
    <3>. QED
      BY <3>1, <3>2
  <2>8. KernelType'
    <3>1. acc' \in [Lanes -> [Terms -> Nat]]
      BY <2>3, <2>7
    <3>. QED
      BY <3>1, <1>0, <2>1 DEF KernelType
  <2>9. i % Width = 0 /\ LanesOK /\ kernel # "naive" /\ \A j \in Terms : sum[j] = 0
    BY <2>1 DEF KInv
  <2>10. LanesOK'
    <3>. SUFFICES ASSUME NEW l \in Lanes, NEW j \in Terms
                  PROVE  acc'[l][j] = IF l < Width /\ j < i + Width /\ j % Width = l THEN 1 ELSE 0
      BY <2>1, <2>2 DEF LanesOK
    <3>1. acc[l][j] = IF l < Width /\ j < i /\ j % Width = l THEN 1 ELSE 0
      BY <2>9 DEF LanesOK
    <3>2. j \in Nat /\ l \in Nat
      BY DEF Terms, Lanes
    <3>3. l < Width => (j = i + l <=> (i <= j /\ j < i + Width /\ j % Width = l))
      <4>1. CASE Width = 8
        BY <4>1, <3>2, <1>0, <2>9
      <4>2. CASE Width = 4
        BY <4>2, <3>2, <1>0, <2>9
      <4>. QED
        BY <4>1, <4>2, <1>0
    <3>. QED
      BY <3>1, <3>2, <3>3, <2>6, <1>0
  <2>11. i' % Width = 0
    <3>1. CASE Width = 8
      BY <3>1, <1>0, <2>1, <2>9
    <3>2. CASE Width = 4
      BY <3>2, <1>0, <2>1, <2>9
    <3>. QED
      BY <3>1, <3>2, <1>0
  <2>. QED
    BY <1>0, <2>1, <2>2, <2>8, <2>9, <2>10, <2>11 DEF KInv
<1>2. CASE Reduce
  <2>1. /\ pc = "blocks" /\ pc' = "tail" /\ UNCHANGED <<kernel, dim, i, acc>>
        /\ sum' = IF kernel = "avx2" THEN hsum256(acc) ELSE vaddvq(acc)
    BY <1>2 DEF Reduce
  <2>2. LanesOK /\ acc \in [Lanes -> [Terms -> Nat]]
    BY <1>0, <2>1 DEF KInv, KernelType
  <2>3. sum' \in [Terms -> Nat]
    BY <2>1, <2>2, SumLemma
  <2>4. \A j \in Terms : sum'[j] = IF j < i THEN 1 ELSE 0
    <3>. SUFFICES ASSUME NEW j \in Terms PROVE sum'[j] = IF j < i THEN 1 ELSE 0
      OBVIOUS
    <3>1. j \in Nat
      BY DEF Terms
    <3>2. CASE kernel = "avx2"
      <4>1. Width = 8
        BY <3>2 DEF Width
      <4>2. sum'[j] = acc[0][j] + acc[1][j] + acc[2][j] + acc[3][j] + acc[4][j] + acc[5][j] + acc[6][j] + acc[7][j]
        BY <3>2, <2>1, <2>2, SumLemma
      <4>3. \A l \in Lanes : acc[l][j] = IF j < i /\ j % 8 = l THEN 1 ELSE 0
        BY <4>1, <2>2 DEF LanesOK, Lanes
      <4>4. /\ acc[0][j] = IF j < i /\ j % 8 = 0 THEN 1 ELSE 0
            /\ acc[1][j] = IF j < i /\ j % 8 = 1 THEN 1 ELSE 0
            /\ acc[2][j] = IF j < i /\ j % 8 = 2 THEN 1 ELSE 0
            /\ acc[3][j] = IF j < i /\ j % 8 = 3 THEN 1 ELSE 0
            /\ acc[4][j] = IF j < i /\ j % 8 = 4 THEN 1 ELSE 0
            /\ acc[5][j] = IF j < i /\ j % 8 = 5 THEN 1 ELSE 0
            /\ acc[6][j] = IF j < i /\ j % 8 = 6 THEN 1 ELSE 0
            /\ acc[7][j] = IF j < i /\ j % 8 = 7 THEN 1 ELSE 0
        BY <4>3 DEF Lanes
      <4>5. j % 8 \in 0 .. 7
        BY <3>1
      <4>. QED
        BY <4>2, <4>4, <4>5
    <3>3. CASE kernel # "avx2"
      <4>1. Width = 4
        BY <3>3 DEF Width
      <4>2. sum'[j] = acc[0][j] + acc[1][j] + acc[2][j] + acc[3][j]
        BY <3>3, <2>1, <2>2, SumLemma
      <4>3. \A l \in Lanes : l < 4 => acc[l][j] = IF j < i /\ j % 4 = l THEN 1 ELSE 0
        BY <4>1, <2>2 DEF LanesOK, Lanes
      <4>4. /\ acc[0][j] = IF j < i /\ j % 4 = 0 THEN 1 ELSE 0
            /\ acc[1][j] = IF j < i /\ j % 4 = 1 THEN 1 ELSE 0
            /\ acc[2][j] = IF j < i /\ j % 4 = 2 THEN 1 ELSE 0
            /\ acc[3][j] = IF j < i /\ j % 4 = 3 THEN 1 ELSE 0
        BY <4>3 DEF Lanes
      <4>5. j % 4 \in 0 .. 3
        BY <3>1
      <4>. QED
        BY <4>2, <4>4, <4>5
    <3>. QED
      BY <3>2, <3>3
  <2>5. KernelType'
    BY <1>0, <2>1, <2>3 DEF KernelType
  <2>6. \A l \in Lanes, j \in Terms : j >= dim => acc[l][j] = 0
    BY <1>0, <2>2 DEF LanesOK, Terms
  <2>. QED
    BY <1>0, <2>1, <2>4, <2>5, <2>6 DEF KInv
<1>3. CASE Tail
  <2>1. /\ pc = "tail" /\ i < dim /\ i' = i + 1 /\ sum' = With(sum, i)
        /\ UNCHANGED <<kernel, dim, acc, pc>>
    BY <1>3 DEF Tail
  <2>2. i \in Terms /\ sum \in [Terms -> Nat]
    BY <1>0, <2>1 DEF Terms, KernelType
  <2>3. sum' \in [Terms -> Nat] /\ \A j \in Terms : sum'[j] = IF j = i THEN sum[j] + 1 ELSE sum[j]
    BY <2>1, <2>2 DEF With
  <2>4. KernelType'
    BY <1>0, <2>1, <2>3 DEF KernelType
  <2>5. \A j \in Terms : sum'[j] = IF j < i' THEN 1 ELSE 0
    <3>1. \A j \in Terms : j \in Nat /\ sum[j] = IF j < i THEN 1 ELSE 0
      BY <2>1 DEF KInv, Terms
    <3>. QED
      BY <1>0, <2>1, <2>3, <3>1
  <2>. QED
    BY <1>0, <2>1, <2>4, <2>5 DEF KInv
<1>4. CASE Return
  BY <1>0, <1>4 DEF Return, KInv, KernelType
<1>5. CASE UNCHANGED kernelVars
  BY <1>5 DEF kernelVars, KInv, KernelType, LanesOK, Width
<1>. QED
  BY <1>1, <1>2, <1>3, <1>4, <1>5 DEF KernelNext

LEMMA KInvariant == KernelSpec => []KInv
<1>. QED
  BY KInit, KNext, PTL DEF KernelSpec

\* Whatever the dimension, the sum of every kernel (AVX2, NEON, naive) has each
\* term once and no other.
THEOREM EveryTermOnce == KernelSpec => []TermsOnce
<1>1. KInv => TermsOnce
  BY DEF KInv, TermsOnce
<1>. QED
  BY <1>1, KInvariant, PTL

\* No kernel reads past the end of its vectors, whatever the dimension.
THEOREM NothingPastTheEnd == KernelSpec => []ReadsInBounds
<1>1. KInv => ReadsInBounds
  <2>. SUFFICES ASSUME KInv, NEW j \in Terms, j >= dim
                PROVE  sum[j] = 0 /\ \A l \in Lanes : acc[l][j] = 0
    BY DEF ReadsInBounds
  <2>1. i \in Nat /\ dim \in Nat /\ i <= dim /\ j \in Nat
    BY DimAssumption DEF KInv, KernelType, Terms
  <2>2. CASE pc = "blocks"
    BY <2>1, <2>2 DEF KInv, LanesOK
  <2>3. CASE pc # "blocks"
    BY <2>1, <2>3 DEF KInv
  <2>. QED
    BY <2>2, <2>3
<1>. QED
  BY <1>1, KInvariant, PTL
=============================================================================
