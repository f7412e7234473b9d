----------------------------- MODULE WalProofs ------------------------------
(***************************************************************************)
(* Proofs about Wal.  For all ids, vectors, metadata strings and any       *)
(* number of objects open on the path: as long as no object appends beside *)
(* another one that checkpoints, replay returns exactly the records wholly *)
(* written since the last checkpoint until something is appended behind a  *)
(* torn record, and from then on still all those before the torn one.      *)
(*                                                                         *)
(* replay's loop is a recursion on the offset in the file.  That it is     *)
(* well defined, and what it returns, is proved by induction in the form   *)
(* SetInduction: a set of naturals that holds 0 and all its successors.    *)
(***************************************************************************)
EXTENDS Wal, FiniteSetTheorems, TLAPS

LEMMA SetInduction ==
    ASSUME NEW T, 0 \in T, \A n \in Nat : n \in T => n + 1 \in T
    PROVE  \A n \in Nat : n \in T
<1> DEFINE R == OpToRel(<, Nat)
           B == Nat \ T
<1> SUFFICES ASSUME B # {} PROVE FALSE
  OBVIOUS
<1>1. \A x, y \in Nat : <<x, y>> \in R <=> x < y
  BY DEF OpToRel
<1>2. IsWellFoundedOn(R, Nat)
  BY NatLessThanWellFounded
<1>3. B \subseteq Nat
  OBVIOUS
<1> HIDE DEF R
<1>4. PICK x \in B : \A y \in B : ~(<<y, x>> \in R)
  BY <1>2, <1>3, WFMin
<1>5. x \in Nat /\ x # 0 /\ x - 1 \in Nat /\ x - 1 < x /\ (x - 1) + 1 = x
  BY <1>4
<1>6. x - 1 \in T
  BY <1>1, <1>4, <1>5
<1> QED
  BY <1>4, <1>5, <1>6
-----------------------------------------------------------------------------
(* One turn of replay's loop, at offset i of the file f. *)

MetaAt(f, i) == i + 3 + f[i + 2]
NextAt(f, i) == MetaAt(f, i) + 1 + f[MetaAt(f, i)]
Whole(f, i)  == i + 2 <= Len(f) /\ MetaAt(f, i) <= Len(f) /\ NextAt(f, i) <= Len(f) + 1
RecordAt(f, i) ==
    [op |-> f[i], id |-> f[i + 1], vec |-> SubSeq(f, i + 3, MetaAt(f, i) - 1),
     metadata |-> SubSeq(f, MetaAt(f, i) + 1, NextAt(f, i) - 1)]
Turn(f, i, g) ==
    IF ~Whole(f, i) THEN << >>
    ELSE (IF f[i] \in {INSERT, DELETE} THEN <<RecordAt(f, i)>> ELSE << >>) \o g[NextAt(f, i)]

\* g[i] is what replay hands back from offset i on, for the offsets from m.
IsRead(g, f, m) == g = [i \in m .. Len(f) + 1 |-> Turn(f, i, g)]

\* The loop moves forward and stays in the file.
LEMMA NextForward ==
    ASSUME NEW f \in Seq(Nat), NEW i \in Nat \ {0}, Whole(f, i)
    PROVE  NextAt(f, i) \in i + 1 .. Len(f) + 1
<1>1. Len(f) \in Nat /\ \A j \in 1 .. Len(f) : f[j] \in Nat
  OBVIOUS
<1>2. i + 2 \in 1 .. Len(f)
  BY <1>1 DEF Whole
<1> DEFINE m == MetaAt(f, i)
<1>3. m \in Nat /\ m >= i + 3
  BY <1>1, <1>2 DEF MetaAt
<1>4. NextAt(f, i) = m + 1 + f[m] /\ m <= Len(f) /\ NextAt(f, i) <= Len(f) + 1
  BY DEF NextAt, Whole
<1> HIDE DEF m
<1>5. f[m] \in Nat
  BY <1>1, <1>3, <1>4
<1> QED
  BY <1>1, <1>3, <1>4, <1>5

LEMMA ReadExists ==
    ASSUME NEW f \in Seq(Nat)
    PROVE  \A k \in Nat : k <= Len(f) => \E g : IsRead(g, f, Len(f) + 1 - k)
<1> DEFINE N == Len(f)
           T == {k \in Nat : k <= N => \E g : IsRead(g, f, N + 1 - k)}
<1>0. N \in Nat
  OBVIOUS
<1>1. 0 \in T
  <2> DEFINE g == [i \in N + 1 .. N + 1 |-> << >>]
  <2>1. ASSUME NEW i \in N + 1 .. N + 1 PROVE Turn(f, i, g) = << >>
    <3>1. ~(i + 2 <= N)
      BY <1>0
    <3> QED
      BY <3>1 DEF Turn, Whole
  <2>2. IsRead(g, f, N + 1)
    BY <2>1 DEF IsRead
  <2>3. N + 1 - 0 = N + 1
    BY <1>0
  <2> QED
    BY <2>2, <2>3
<1>2. ASSUME NEW k \in Nat, k \in T PROVE k + 1 \in T
  <2> SUFFICES ASSUME k + 1 <= N PROVE \E g : IsRead(g, f, N + 1 - (k + 1))
    OBVIOUS
  <2> DEFINE m == N + 1 - k
             c == N + 1 - (k + 1)
  <2>1. m \in Nat /\ c \in Nat \ {0} /\ m = c + 1 /\ c <= N
    BY <1>0
  <2>2. PICK g : IsRead(g, f, m)
    BY <1>0, <1>2
  <2> HIDE DEF m, c
  <2> DEFINE h == [i \in c .. N + 1 |-> IF i = c THEN Turn(f, c, g) ELSE g[i]]
  <2>3. \A i \in m .. N + 1 : i \in c .. N + 1 /\ h[i] = g[i]
    BY <1>0, <2>1
  <2>4. c \in c .. N + 1 /\ h[c] = Turn(f, c, g)
    BY <1>0, <2>1
  <2> HIDE DEF h
  <2>5. ASSUME NEW i \in c .. N + 1 PROVE Turn(f, i, g) = Turn(f, i, h)
    <3>1. CASE ~Whole(f, i)
      BY <3>1 DEF Turn
    <3>2. CASE Whole(f, i)
      <4>1. i \in Nat \ {0}
        BY <1>0, <2>1
      <4>2. NextAt(f, i) \in i + 1 .. N + 1
        BY <3>2, <4>1, NextForward
      <4>3. NextAt(f, i) \in m .. N + 1
        BY <1>0, <2>1, <4>1, <4>2
      <4> QED
        BY <2>3, <4>3 DEF Turn
    <3> QED
      BY <3>1, <3>2
  <2>6. ASSUME NEW i \in c .. N + 1 PROVE h[i] = Turn(f, i, h)
    <3>1. CASE i = c
      BY <2>4, <2>5, <3>1
    <3>2. CASE i # c
      <4>1. i \in m .. N + 1
        BY <1>0, <2>1, <3>2
      <4>2. g[i] = Turn(f, i, g)
        BY <2>2, <4>1 DEF IsRead
      <4> QED
        BY <2>3, <2>5, <4>1, <4>2
    <3> QED
      BY <3>1, <3>2
  <2>7. h = [i \in c .. N + 1 |-> Turn(f, i, h)]
    <3>1. h = [i \in c .. N + 1 |-> h[i]]
      BY DEF h
    <3> QED
      BY <2>6, <3>1
  <2>8. IsRead(h, f, c)
    BY <2>7 DEF IsRead
  <2> QED
    BY <2>8 DEF c
<1> HIDE DEF T
<1>3. \A k \in Nat : k \in T
  BY <1>1, <1>2, SetInduction
<1> QED
  BY <1>3 DEF T

\* The recursive definition in Replay defines what it says.
LEMMA ReplayDef ==
    ASSUME NEW f \in Seq(Nat)
    PROVE  \E g : IsRead(g, f, 1) /\ Replay(f) = g[1]
<1> DEFINE G == CHOOSE g : g = [i \in 1 .. Len(f) + 1 |-> Turn(f, i, g)]
<1>1. Len(f) \in Nat /\ Len(f) + 1 - Len(f) = 1
  OBVIOUS
<1>2. \E g : IsRead(g, f, 1)
  BY <1>1, ReadExists
<1>3. IsRead(G, f, 1)
  BY <1>2 DEF IsRead
<1>4. Replay(f) = G[1]
  BY DEF Replay, Turn, Whole, RecordAt, NextAt, MetaAt
<1> HIDE DEF G
<1> QED
  BY <1>3, <1>4
-----------------------------------------------------------------------------
(* Records in the file. *)

LEMMA ConcatUnits ==
    ASSUME NEW s \in Seq(Nat), NEW t \in Seq(Nat)
    PROVE  /\ s \o t \in Seq(Nat) /\ Len(s \o t) = Len(s) + Len(t)
           /\ \A j \in 1 .. Len(s) : (s \o t)[j] = s[j]
           /\ \A j \in 1 .. Len(t) : (s \o t)[Len(s) + j] = t[j]
<1>1. Len(s) \in Nat /\ Len(t) \in Nat /\ s \o t \in Seq(Nat) /\ Len(s \o t) = Len(s) + Len(t)
  OBVIOUS
<1>2. \A j \in 1 .. Len(s) : (s \o t)[j] = s[j]
  OBVIOUS
<1>3. ASSUME NEW j \in 1 .. Len(t) PROVE (s \o t)[Len(s) + j] = t[j]
  <2>1. Len(s) + j \in 1 .. Len(s) + Len(t) /\ ~(Len(s) + j <= Len(s)) /\ Len(s) + j - Len(s) = j
    BY <1>1
  <2> QED
    BY <1>1, <2>1
<1> QED
  BY <1>1, <1>2, <1>3

LEMMA Slice ==
    ASSUME NEW f \in Seq(Nat), NEW lo \in Nat, NEW n \in Nat, lo + n <= Len(f)
    PROVE  /\ SubSeq(f, lo + 1, lo + n) \in Seq(Nat)
           /\ Len(SubSeq(f, lo + 1, lo + n)) = n
           /\ \A j \in 1 .. n : SubSeq(f, lo + 1, lo + n)[j] = f[lo + j]
<1>1. lo + 1 \in Int /\ lo + n \in Int /\ lo + n - (lo + 1) + 1 = n /\ Len(f) \in Nat
  OBVIOUS
<1>2. Len(SubSeq(f, lo + 1, lo + n)) = n
  BY <1>1
<1>3. SubSeq(f, lo + 1, lo + n) \in Seq(Nat)
  BY <1>1
<1>4. ASSUME NEW j \in 1 .. n PROVE SubSeq(f, lo + 1, lo + n)[j] = f[lo + j]
  <2>1. lo + 1 + j - 1 = lo + j
    OBVIOUS
  <2> QED
    BY <1>1, <2>1
<1> QED
  BY <1>2, <1>3, <1>4

LEMMA SameSeq ==
    ASSUME NEW a \in Seq(Nat), NEW b \in Seq(Nat), Len(a) = Len(b),
           \A j \in 1 .. Len(a) : a[j] = b[j]
    PROVE  a = b
OBVIOUS

LEMMA EncodeFields ==
    ASSUME NEW r \in Records
    PROVE  /\ r.op \in {INSERT, DELETE} /\ r.op \in Nat /\ r.id \in Nat
           /\ r.vec \in Seq(Nat) /\ r.metadata \in Seq(Nat)
           /\ Len(r.vec) \in Nat /\ Len(r.metadata) \in Nat
           /\ r = [op |-> r.op, id |-> r.id, vec |-> r.vec, metadata |-> r.metadata]
           /\ Encode(r) \in Seq(Nat)
           /\ Len(Encode(r)) = 4 + Len(r.vec) + Len(r.metadata)
           /\ Encode(r)[1] = r.op
           /\ Encode(r)[2] = r.id
           /\ Encode(r)[3] = Len(r.vec)
           /\ \A j \in 1 .. Len(r.vec) : Encode(r)[3 + j] = r.vec[j]
           /\ Encode(r)[4 + Len(r.vec)] = Len(r.metadata)
           /\ \A j \in 1 .. Len(r.metadata) :
                 Encode(r)[4 + Len(r.vec) + j] = r.metadata[j]
<1>1. << >> \in Seq(Nat)
  OBVIOUS
<1>2. /\ r.op \in {INSERT, DELETE} /\ r.id \in Nat
      /\ r.vec \in Seq(Nat) /\ r.metadata \in Seq(Nat)
  BY <1>1, UnitsAssumption DEF Records
<1>3. r = [op |-> r.op, id |-> r.id, vec |-> r.vec, metadata |-> r.metadata]
  BY DEF Records
<1>4. r.op \in Nat
  BY <1>2 DEF INSERT, DELETE
<1> DEFINE v == r.vec
           m == r.metadata
           h == <<r.op, r.id, Len(v)>>
           d == <<Len(m)>>
           a == h \o v
           b == a \o d
           E == Encode(r)
<1>5. v \in Seq(Nat) /\ m \in Seq(Nat) /\ Len(v) \in Nat /\ Len(m) \in Nat
  BY <1>2
<1>6. E = b \o m
  BY DEF Encode
<1>7. /\ h \in Seq(Nat) /\ Len(h) = 3
      /\ h[1] = r.op /\ h[2] = r.id /\ h[3] = Len(v)
  BY <1>2, <1>4
<1>8. d \in Seq(Nat) /\ Len(d) = 1 /\ d[1] = Len(m)
  BY <1>5
<1>9. a = h \o v /\ b = a \o d /\ E = b \o m
  BY <1>6
<1> HIDE DEF v, m, h, d, a, b, E
<1>10. /\ a \in Seq(Nat) /\ Len(a) = Len(h) + Len(v)
       /\ \A j \in 1 .. Len(h) : a[j] = h[j]
       /\ \A j \in 1 .. Len(v) : a[Len(h) + j] = v[j]
  <2>1. /\ h \o v \in Seq(Nat) /\ Len(h \o v) = Len(h) + Len(v)
        /\ \A j \in 1 .. Len(h) : (h \o v)[j] = h[j]
        /\ \A j \in 1 .. Len(v) : (h \o v)[Len(h) + j] = v[j]
    BY <1>5, <1>7, ConcatUnits
  <2> QED
    BY <1>9, <2>1
<1>11. /\ b \in Seq(Nat) /\ Len(b) = Len(a) + Len(d)
       /\ \A j \in 1 .. Len(a) : b[j] = a[j]
       /\ \A j \in 1 .. Len(d) : b[Len(a) + j] = d[j]
  <2>1. /\ a \o d \in Seq(Nat) /\ Len(a \o d) = Len(a) + Len(d)
        /\ \A j \in 1 .. Len(a) : (a \o d)[j] = a[j]
        /\ \A j \in 1 .. Len(d) : (a \o d)[Len(a) + j] = d[j]
    BY <1>8, <1>10, ConcatUnits
  <2> QED
    BY <1>9, <2>1
<1>12. /\ E \in Seq(Nat) /\ Len(E) = Len(b) + Len(m)
       /\ \A j \in 1 .. Len(b) : E[j] = b[j]
       /\ \A j \in 1 .. Len(m) : E[Len(b) + j] = m[j]
  <2>1. /\ b \o m \in Seq(Nat) /\ Len(b \o m) = Len(b) + Len(m)
        /\ \A j \in 1 .. Len(b) : (b \o m)[j] = b[j]
        /\ \A j \in 1 .. Len(m) : (b \o m)[Len(b) + j] = m[j]
    BY <1>5, <1>11, ConcatUnits
  <2> QED
    BY <1>9, <2>1
<1>13. Len(a) = 3 + Len(v) /\ Len(b) = 4 + Len(v)
  BY <1>5, <1>7, <1>8, <1>10, <1>11
<1>14. E[1] = h[1] /\ E[2] = h[2] /\ E[3] = h[3]
  <2>1. \A j \in 1 .. 3 : j \in 1 .. Len(h) /\ j \in 1 .. Len(a) /\ j \in 1 .. Len(b)
    BY <1>5, <1>7, <1>13
  <2>2. \A j \in 1 .. 3 : E[j] = h[j]
    BY <1>10, <1>11, <1>12, <2>1
  <2> QED
    BY <2>2
<1>15. E[4 + Len(v)] = d[1]
  <2>1. 1 \in 1 .. Len(d) /\ Len(a) + 1 = 4 + Len(v) /\ 4 + Len(v) \in 1 .. Len(b)
    BY <1>5, <1>8, <1>13
  <2>2. b[Len(a) + 1] = d[1]
    BY <1>11, <2>1
  <2> QED
    BY <1>12, <2>1, <2>2
<1>16. \A j \in 1 .. Len(v) : E[3 + j] = v[j]
  <2>1. \A j \in 1 .. Len(v) : 3 + j \in 1 .. Len(a) /\ 3 + j \in 1 .. Len(b)
    BY <1>5, <1>13
  <2>2. \A j \in 1 .. Len(v) : E[3 + j] = a[3 + j]
    BY <1>11, <1>12, <2>1
  <2>3. \A j \in 1 .. Len(v) : a[3 + j] = v[j]
    BY <1>7, <1>10
  <2> QED
    BY <2>2, <2>3
<1>17. /\ E \in Seq(Nat) /\ Len(E) = 4 + Len(v) + Len(m)
       /\ \A j \in 1 .. Len(m) : E[4 + Len(v) + j] = m[j]
  BY <1>12, <1>13
<1> QED
  BY <1>2, <1>3, <1>4, <1>5, <1>7, <1>8, <1>14, <1>15, <1>16, <1>17 DEF E, v, m

LEMMA EncodeUnits ==
    ASSUME NEW r \in Records
    PROVE  Encode(r) \in Seq(Nat) /\ Len(Encode(r)) \in Nat
<1>1. Encode(r) \in Seq(Nat)
  BY EncodeFields
<1> QED
  BY <1>1

\* The units of f after offset p are the first n of those of r.
Stands(f, p, r, n) == \A j \in 1 .. n : f[p + j] = Encode(r)[j]

\* A whole record in the file is read as what it is, and up to its end.
LEMMA WholeRecord ==
    ASSUME NEW f \in Seq(Nat), NEW p \in Nat, NEW r \in Records,
           p + Len(Encode(r)) <= Len(f), Stands(f, p, r, Len(Encode(r)))
    PROVE  /\ Whole(f, p + 1)
           /\ NextAt(f, p + 1) = p + Len(Encode(r)) + 1
           /\ RecordAt(f, p + 1) = r
           /\ f[p + 1] \in {INSERT, DELETE}
<1> DEFINE E == Encode(r)
           V == Len(r.vec)
           M == Len(r.metadata)
           i == p + 1
<1>1. /\ V \in Nat /\ M \in Nat /\ Len(E) = 4 + V + M
      /\ E[1] = r.op /\ E[2] = r.id /\ E[3] = V /\ E[4 + V] = M
  BY EncodeFields
<1>2. /\ \A j \in 1 .. V : E[3 + j] = r.vec[j]
      /\ \A j \in 1 .. M : E[4 + V + j] = r.metadata[j]
  BY EncodeFields
<1>3. \A j \in 1 .. Len(E) : f[p + j] = E[j]
  BY DEF Stands
<1>4. p + Len(E) <= Len(f) /\ Len(f) \in Nat
  OBVIOUS
<1> HIDE DEF E, V, M
<1>5. f[p + 1] = r.op /\ f[p + 2] = r.id /\ f[p + 3] = V
  BY <1>1, <1>3
<1>6. f[p + (4 + V)] = M
  BY <1>1, <1>3
<1>7. MetaAt(f, i) = p + (4 + V)
  <2>1. i + 2 = p + 3 /\ i = p + 1
    OBVIOUS
  <2> HIDE DEF i
  <2>2. MetaAt(f, i) = i + 3 + V
    BY <1>5, <2>1 DEF MetaAt
  <2> QED
    BY <1>1, <2>1, <2>2
<1>8. NextAt(f, i) = p + (4 + V + M) + 1
  <2> DEFINE m == p + (4 + V)
  <2>1. m \in Nat /\ f[m] = M /\ MetaAt(f, i) = m
    BY <1>1, <1>6, <1>7
  <2> HIDE DEF m, i
  <2>2. NextAt(f, i) = m + 1 + M
    BY <2>1 DEF NextAt
  <2> QED
    BY <1>1, <2>1, <2>2 DEF m
<1>9. Whole(f, i)
  <2>1. i = p + 1
    OBVIOUS
  <2>2. p + (4 + V + M) <= Len(f)
    BY <1>1, <1>4
  <2> HIDE DEF i
  <2>3. i + 2 <= Len(f)
    BY <1>1, <1>4, <2>1, <2>2
  <2>4. MetaAt(f, i) <= Len(f)
    BY <1>1, <1>4, <1>7, <2>2
  <2>5. NextAt(f, i) <= Len(f) + 1
    BY <1>1, <1>4, <1>8, <2>2
  <2> QED
    BY <2>3, <2>4, <2>5 DEF Whole
<1>10. /\ r.op \in {INSERT, DELETE} /\ r.vec \in Seq(Nat) /\ r.metadata \in Seq(Nat)
       /\ r = [op |-> r.op, id |-> r.id, vec |-> r.vec, metadata |-> r.metadata]
  BY EncodeFields
<1>11. SubSeq(f, i + 3, MetaAt(f, i) - 1) = r.vec
  <2> DEFINE lo == p + 3
             s  == SubSeq(f, lo + 1, lo + V)
  <2>1. lo \in Nat /\ V \in Nat /\ lo + V <= Len(f)
    BY <1>1, <1>4
  <2>2. i + 3 = lo + 1 /\ MetaAt(f, i) - 1 = lo + V
    BY <1>1, <1>7
  <2>3. s \in Seq(Nat) /\ Len(s) = V /\ \A j \in 1 .. V : s[j] = f[lo + j]
    BY <2>1, Slice
  <2> HIDE DEF s
  <2>4. ASSUME NEW j \in 1 .. V PROVE s[j] = r.vec[j]
    <3>1. lo + j = p + (3 + j) /\ 3 + j \in 1 .. Len(E)
      BY <1>1
    <3> QED
      BY <1>2, <1>3, <2>3, <3>1, ZenonT(30)
  <2>5. s = r.vec
    BY <1>10, <2>3, <2>4, SameSeq DEF V
  <2> QED
    BY <2>2, <2>5 DEF s
<1>12. SubSeq(f, MetaAt(f, i) + 1, NextAt(f, i) - 1) = r.metadata
  <2> DEFINE lo == p + 4 + V
             s  == SubSeq(f, lo + 1, lo + M)
  <2>1. lo \in Nat /\ M \in Nat /\ lo + M <= Len(f)
    BY <1>1, <1>4
  <2>2. MetaAt(f, i) + 1 = lo + 1 /\ NextAt(f, i) - 1 = lo + M
    BY <1>1, <1>7, <1>8
  <2>3. s \in Seq(Nat) /\ Len(s) = M /\ \A j \in 1 .. M : s[j] = f[lo + j]
    BY <2>1, Slice
  <2> HIDE DEF s
  <2>4. ASSUME NEW j \in 1 .. M PROVE s[j] = r.metadata[j]
    <3>1. lo + j = p + (4 + V + j) /\ 4 + V + j \in 1 .. Len(E)
      BY <1>1
    <3> QED
      BY <1>2, <1>3, <2>3, <3>1, ZenonT(30)
  <2>5. s = r.metadata
    BY <1>10, <2>3, <2>4, SameSeq DEF M
  <2> QED
    BY <2>2, <2>5 DEF s
<1>13. RecordAt(f, i) = r
  <2>1. i = p + 1 /\ i + 1 = p + 2
    OBVIOUS
  <2> QED
    BY <1>5, <1>10, <1>11, <1>12, <2>1 DEF RecordAt
<1> QED
  BY <1>1, <1>5, <1>8, <1>9, <1>10, <1>13 DEF E

\* A record of which only the first n units are in the file is not read.
LEMMA CutRecord ==
    ASSUME NEW f \in Seq(Nat), NEW p \in Nat, NEW r \in Records,
           NEW n \in Nat, n < Len(Encode(r)), Len(f) = p + n, Stands(f, p, r, n)
    PROVE  ~Whole(f, p + 1)
<1> DEFINE E == Encode(r)
           V == Len(r.vec)
           M == Len(r.metadata)
           i == p + 1
<1>1. /\ V \in Nat /\ M \in Nat /\ Len(E) = 4 + V + M
      /\ E[3] = V /\ E[4 + V] = M
  BY EncodeFields
<1>2. \A j \in 1 .. n : f[p + j] = E[j]
  BY DEF Stands
<1>3. n < Len(E) /\ Len(f) = p + n
  OBVIOUS
<1> HIDE DEF E, V, M
<1> SUFFICES ASSUME Whole(f, i) PROVE FALSE
  OBVIOUS
<1>4. i + 2 = p + 3 /\ 3 \in 1 .. n
  BY <1>3 DEF Whole
<1>5. MetaAt(f, i) = p + (4 + V)
  BY <1>1, <1>2, <1>4 DEF MetaAt
<1>6. 4 + V \in 1 .. n
  BY <1>1, <1>3, <1>5 DEF Whole
<1>7. NextAt(f, i) = p + (4 + V + M) + 1
  <2> DEFINE m == p + (4 + V)
  <2>1. m \in Nat /\ f[m] = M /\ MetaAt(f, i) = m
    BY <1>1, <1>2, <1>5, <1>6
  <2> HIDE DEF m, i
  <2>2. NextAt(f, i) = m + 1 + M
    BY <2>1 DEF NextAt
  <2> QED
    BY <1>1, <2>1, <2>2 DEF m
<1> QED
  BY <1>1, <1>3, <1>7 DEF Whole

\* e[k] is the end of the k-th of the records recs, which fill f from its start.
Framed(f, recs, e) ==
    /\ e \in [0 .. Len(recs) -> Nat] /\ e[0] = 0 /\ e[Len(recs)] <= Len(f)
    /\ \A k \in 1 .. Len(recs) :
          /\ e[k] = e[k - 1] + Len(Encode(recs[k]))
          /\ Stands(f, e[k - 1], recs[k], Len(Encode(recs[k])))

\* From offset p on, f holds less than a record.
CutAt(f, p) ==
    \/ Len(f) = p
    \/ \E r \in Records : \E n \in 1 .. Len(Encode(r)) - 1 : Len(f) = p + n /\ Stands(f, p, r, n)

LEMMA CutIsShort ==
    ASSUME NEW f \in Seq(Nat), NEW p \in Nat, CutAt(f, p)
    PROVE  ~Whole(f, p + 1)
<1>1. CASE Len(f) = p
  <2>1. ~(p + 1 + 2 <= Len(f))
    BY <1>1
  <2> QED
    BY <2>1 DEF Whole
<1>2. CASE Len(f) # p
  <2>1. PICK r \in Records :
           \E n \in 1 .. Len(Encode(r)) - 1 : Len(f) = p + n /\ Stands(f, p, r, n)
    BY <1>2 DEF CutAt
  <2>2. PICK n \in 1 .. Len(Encode(r)) - 1 : Len(f) = p + n /\ Stands(f, p, r, n)
    BY <2>1
  <2>3. Len(Encode(r)) \in Nat
    BY EncodeFields
  <2>4. n \in Nat /\ n < Len(Encode(r))
    BY <2>2, <2>3
  <2> QED
    BY <2>2, <2>4, CutRecord
<1> QED
  BY <1>1, <1>2

\* What replay hands back from any offset on is a sequence.
LEMMA ReadSeq ==
    ASSUME NEW f \in Seq(Nat), NEW g, IsRead(g, f, 1)
    PROVE  \E S : \A i \in 1 .. Len(f) + 1 : g[i] \in Seq(S)
<1> DEFINE N == Len(f)
           S == {RecordAt(f, i) : i \in 1 .. N + 1}
           T == {k \in Nat : k <= N => \A i \in N + 1 - k .. N + 1 : g[i] \in Seq(S)}
<1>0. N \in Nat
  OBVIOUS
<1>1. ASSUME NEW i \in 1 .. N + 1, Whole(f, i) => g[NextAt(f, i)] \in Seq(S) PROVE g[i] \in Seq(S)
  <2>1. g[i] = Turn(f, i, g)
    BY DEF IsRead
  <2>2. RecordAt(f, i) \in S /\ << >> \in Seq(S)
    OBVIOUS
  <2> HIDE DEF S, N
  <2>3. <<RecordAt(f, i)>> \in Seq(S)
    BY <2>2
  <2> QED
    BY <1>1, <2>1, <2>2, <2>3 DEF Turn
<1> HIDE DEF S
<1>2. 0 \in T
  <2>1. N + 1 - 0 .. N + 1 = {N + 1} /\ N + 1 \in 1 .. N + 1
    BY <1>0
  <2>2. ~Whole(f, N + 1)
    BY <1>0 DEF Whole
  <2>3. g[N + 1] \in Seq(S)
    BY <1>1, <2>1, <2>2
  <2> QED
    BY <2>1, <2>3
<1>3. ASSUME NEW k \in Nat, k \in T PROVE k + 1 \in T
  <2> SUFFICES ASSUME k + 1 <= N, NEW i \in N + 1 - (k + 1) .. N + 1 PROVE g[i] \in Seq(S)
    OBVIOUS
  <2>1. i \in 1 .. N + 1 /\ i \in Nat \ {0}
    BY <1>0
  <2>2. ASSUME Whole(f, i) PROVE g[NextAt(f, i)] \in Seq(S)
    <3>1. NextAt(f, i) \in i + 1 .. N + 1
      BY <2>1, <2>2, NextForward
    <3>2. NextAt(f, i) \in N + 1 - k .. N + 1
      BY <1>0, <2>1, <3>1
    <3> QED
      BY <1>0, <1>3, <3>2
  <2> QED
    BY <1>1, <2>1, <2>2
<1> HIDE DEF T
<1>4. N \in T
  BY <1>0, <1>2, <1>3, SetInduction
<1>5. N + 1 - N = 1
  BY <1>0
<1> QED
  BY <1>0, <1>4, <1>5 DEF T

\* replay begins with the records that fill the file from its start; what
\* follows them it reads from where they end.
LEMMA ReplayBegins ==
    ASSUME NEW f \in Seq(Nat), NEW recs \in Seq(Records), NEW e, Framed(f, recs, e)
    PROVE  \E g, S :
              /\ IsRead(g, f, 1)
              /\ Replay(f) \in Seq(S) /\ g[e[Len(recs)] + 1] \in Seq(S)
              /\ Len(Replay(f)) = Len(recs) + Len(g[e[Len(recs)] + 1])
              /\ \A j \in 1 .. Len(recs) : Replay(f)[j] = recs[j]
<1> DEFINE K == Len(recs)
<1>0. K \in Nat /\ Len(f) \in Nat /\ \A k \in 1 .. K : recs[k] \in Records
  OBVIOUS
<1>1. /\ \A k \in 0 .. K : e[k] \in Nat
      /\ e[0] = 0 /\ e[K] <= Len(f)
      /\ \A k \in 1 .. K : /\ e[k] = e[k - 1] + Len(Encode(recs[k]))
                           /\ Stands(f, e[k - 1], recs[k], Len(Encode(recs[k])))
  BY DEF Framed
<1>2. PICK g : IsRead(g, f, 1) /\ Replay(f) = g[1]
  BY ReplayDef
<1>a. PICK S : \A i \in 1 .. Len(f) + 1 : g[i] \in Seq(S)
  BY <1>2, ReadSeq
<1> HIDE DEF K
<1> DEFINE L == Len(g[e[K] + 1])
           Rest(k) == g[e[K - k] + 1]
           Good(k) == /\ e[K - k] <= Len(f)
                      /\ Rest(k) \in Seq(S) /\ Len(Rest(k)) = k + L
                      /\ \A j \in 1 .. k : Rest(k)[j] = recs[(K - k) + j]
           T == {k \in Nat : k <= K => Good(k)}
<1>b. g[e[K] + 1] \in Seq(S) /\ L \in Nat
  <2>1. K \in 0 .. K
    BY <1>0
  <2>2. e[K] + 1 \in 1 .. Len(f) + 1
    BY <1>0, <1>1, <2>1
  <2>3. g[e[K] + 1] \in Seq(S)
    BY <1>a, <2>2
  <2> QED
    BY <2>3
<1>3. 0 \in T
  <2>1. K - 0 = K /\ 0 + L = L /\ 1 .. 0 = {}
    BY <1>0, <1>b
  <2>2. Good(0)
    BY <1>1, <1>b, <2>1
  <2> HIDE DEF Good
  <2> QED
    BY <2>2
<1> HIDE DEF L
<1>4. ASSUME NEW k \in Nat, k \in T PROVE k + 1 \in T
  <2> HIDE DEF Good
  <2> SUFFICES ASSUME k + 1 <= K PROVE Good(k + 1)
    OBVIOUS
  <2> DEFINE c == K - k
             p == e[c - 1]
             r == recs[c]
             t == g[e[c] + 1]
  <2>1. Good(k)
    BY <1>0, <1>4
  <2>2. c \in 1 .. K /\ c \in 0 .. K /\ c - 1 \in 0 .. K /\ K - (k + 1) = c - 1
    BY <1>0
  <2>3. /\ e[c] <= Len(f) /\ t \in Seq(S) /\ Len(t) = k + L
        /\ \A j \in 1 .. k : t[j] = recs[c + j]
    BY <2>1 DEF Good
  <2> HIDE DEF c
  <2>4. /\ p \in Nat /\ r \in Records /\ e[c] = p + Len(Encode(r))
        /\ Stands(f, p, r, Len(Encode(r)))
    BY <1>0, <1>1, <2>2
  <2>5. Len(Encode(r)) \in Nat
    BY <2>4, EncodeFields
  <2> HIDE DEF p, r
  <2>6. /\ Whole(f, p + 1) /\ NextAt(f, p + 1) = e[c] + 1 /\ RecordAt(f, p + 1) = r
        /\ f[p + 1] \in {INSERT, DELETE}
    <3>1. p + Len(Encode(r)) <= Len(f)
      BY <2>3, <2>4
    <3> QED
      BY <2>4, <3>1, WholeRecord
  <2>7. p <= Len(f) /\ p + 1 \in 1 .. Len(f) + 1
    BY <1>0, <2>3, <2>4, <2>5
  <2>8. g[p + 1] = <<r>> \o t
    BY <1>2, <2>6, <2>7 DEF IsRead, Turn
  <2> HIDE DEF t
  <2> DEFINE u == <<r>> \o t
  <2>9. u \in Seq(S) /\ Len(u) = (k + 1) + L /\ u[1] = r
    <3>1. u \in Seq(S)
      BY <1>a, <2>7, <2>8
    <3>2. Len(u) = 1 + Len(t) /\ u[1] = r
      <4> DEFINE Q == S \cup {r}
      <4>1. t \in Seq(Q) /\ r \in Q
        BY <2>3
      <4> HIDE DEF Q
      <4> QED
        BY <4>1
    <3> QED
      BY <1>b, <2>3, <3>1, <3>2
  <2>10. ASSUME NEW j \in 1 .. k + 1 PROVE u[j] = recs[(c - 1) + j]
    <3>1. CASE j = 1
      BY <2>2, <2>9, <3>1 DEF r
    <3>2. CASE j # 1
      <4>1. j - 1 \in 1 .. k /\ c + (j - 1) = (c - 1) + j
        BY <2>2, <3>2
      <4>2. u[j] = t[j - 1]
        <5>1. j - 1 \in 1 .. Len(t) /\ Len(t) \in Nat
          BY <1>b, <2>3, <4>1
        <5> QED
          BY <2>3, <3>2, <5>1
      <4> QED
        BY <2>3, <4>1, <4>2
    <3> QED
      BY <3>1, <3>2
  <2>11. g[e[K - (k + 1)] + 1] = u /\ e[K - (k + 1)] = p /\ K - (k + 1) = c - 1
    BY <2>2, <2>8 DEF p
  <2> HIDE DEF u
  <2> QED
    BY <2>7, <2>9, <2>10, <2>11 DEF Good
<1> HIDE DEF T, Good
<1>5. \A k \in Nat : k \in T
  BY <1>3, <1>4, SetInduction
<1>6. Good(K)
  BY <1>0, <1>5 DEF T
<1>7. K - K = 0 /\ e[K - K] + 1 = 1
  BY <1>0, <1>1
<1> DEFINE w == g[1]
<1>8. w \in Seq(S) /\ Len(w) = K + L /\ \A j \in 1 .. K : w[j] = recs[(K - K) + j]
  BY <1>6, <1>7 DEF Good
<1> HIDE DEF w
<1>9. \A j \in 1 .. K : w[j] = recs[j]
  BY <1>0, <1>7, <1>8
<1>10. Replay(f) = w
  BY <1>2 DEF w
<1> QED
  BY <1>2, <1>8, <1>9, <1>10, <1>b DEF K, L

\* The records that fill the file from its start are the first replay hands back.
LEMMA ReplayPrefix ==
    ASSUME NEW f \in Seq(Nat), NEW recs \in Seq(Records), NEW e, Framed(f, recs, e)
    PROVE  IsPrefix(recs, Replay(f))
<1>1. PICK g, S :
        /\ Replay(f) \in Seq(S) /\ g[e[Len(recs)] + 1] \in Seq(S)
        /\ Len(Replay(f)) = Len(recs) + Len(g[e[Len(recs)] + 1])
        /\ \A j \in 1 .. Len(recs) : Replay(f)[j] = recs[j]
  BY ReplayBegins
<1> DEFINE w == Replay(f)
           rest == g[e[Len(recs)] + 1]
<1>2. /\ w \in Seq(S) /\ rest \in Seq(S) /\ Len(w) = Len(recs) + Len(rest)
      /\ \A j \in 1 .. Len(recs) : w[j] = recs[j]
  BY <1>1
<1> HIDE DEF w, rest
<1>3. Len(recs) \in Nat /\ Len(w) \in Nat /\ Len(rest) \in Nat /\ Len(recs) <= Len(w)
  BY <1>2
<1>4. SubSeq(recs, 1, Len(recs)) = [i \in 1 .. Len(recs) |-> recs[i]]
  BY <1>3
<1>5. SubSeq(w, 1, Len(recs)) = [i \in 1 .. Len(recs) |-> w[i]]
  BY <1>2, <1>3
<1>6. IsPrefix(recs, w)
  BY <1>2, <1>3, <1>4, <1>5 DEF IsPrefix
<1> QED
  BY <1>6 DEF w

\* replay reads the records of a file, and nothing of what a crash cut short.
LEMMA ReplayFramed ==
    ASSUME NEW f \in Seq(Nat), NEW recs \in Seq(Records), NEW e,
           Framed(f, recs, e), CutAt(f, e[Len(recs)])
    PROVE  Replay(f) = recs
<1> DEFINE K == Len(recs)
<1>1. K \in Nat /\ e[K] \in Nat /\ e[K] <= Len(f) /\ Len(f) \in Nat
  <2>1. K \in Nat /\ K \in 0 .. K /\ Len(f) \in Nat
    OBVIOUS
  <2> HIDE DEF K
  <2> QED
    BY <2>1 DEF Framed, K
<1>2. PICK g, S :
        /\ IsRead(g, f, 1)
        /\ Replay(f) \in Seq(S)
        /\ Len(Replay(f)) = Len(recs) + Len(g[e[Len(recs)] + 1])
        /\ \A j \in 1 .. Len(recs) : Replay(f)[j] = recs[j]
  BY ReplayBegins
<1>3. g[e[K] + 1] = << >>
  <2>1. ~Whole(f, e[K] + 1) /\ e[K] + 1 \in 1 .. Len(f) + 1
    BY <1>1, CutIsShort
  <2> QED
    BY <1>2, <2>1 DEF IsRead, Turn
<1> DEFINE w == Replay(f)
<1>4. w \in Seq(S) /\ \A j \in 1 .. Len(recs) : w[j] = recs[j]
  BY <1>2
<1>5. Len(w) = Len(recs)
  BY <1>1, <1>2, <1>3
<1> HIDE DEF w
<1>6. w = recs
  BY <1>4, <1>5
<1> QED
  BY <1>6 DEF w
-----------------------------------------------------------------------------
(* The file grows at its end. *)

LEMMA StandsStill ==
    ASSUME NEW f \in Seq(Nat), NEW s \in Seq(Nat), NEW p \in Nat, NEW r, NEW n \in Nat,
           p + n <= Len(f), Stands(f, p, r, n)
    PROVE  Stands(f \o s, p, r, n)
<1>1. \A j \in 1 .. n : p + j \in 1 .. Len(f)
  OBVIOUS
<1>2. \A i \in 1 .. Len(f) : (f \o s)[i] = f[i]
  BY ConcatUnits
<1> QED
  BY <1>1, <1>2 DEF Stands

LEMMA FramedStill ==
    ASSUME NEW f \in Seq(Nat), NEW s \in Seq(Nat), NEW recs \in Seq(Records), NEW e,
           Framed(f, recs, e)
    PROVE  Framed(f \o s, recs, e)
<1> DEFINE K == Len(recs)
<1>0. K \in Nat /\ Len(f) \in Nat /\ Len(s) \in Nat /\ Len(f \o s) = Len(f) + Len(s)
  BY ConcatUnits
<1>1. /\ e \in [0 .. K -> Nat] /\ e[0] = 0
      /\ \A k \in 1 .. K : /\ e[k] = e[k - 1] + Len(Encode(recs[k]))
                           /\ Stands(f, e[k - 1], recs[k], Len(Encode(recs[k])))
  BY DEF Framed
<1>2. \A k \in 1 .. K : recs[k] \in Records /\ k - 1 \in 0 .. K /\ k \in 0 .. K
  OBVIOUS
<1>3. \A k \in 1 .. K : Len(Encode(recs[k])) \in Nat
  BY <1>2, EncodeFields
<1>4. e[K] <= Len(f) /\ e[K] \in Nat
  <2>1. K \in 0 .. K
    BY <1>0
  <2> QED
    BY <1>1, <2>1 DEF Framed
<1> HIDE DEF K
<1>5. \A k \in 0 .. K : e[k] <= Len(f)
  <2> DEFINE T == {n \in Nat : n <= K => e[K - n] <= Len(f)}
  <2>1. 0 \in T
    BY <1>0, <1>4
  <2>2. ASSUME NEW n \in Nat, n \in T PROVE n + 1 \in T
    <3> SUFFICES ASSUME n + 1 <= K PROVE e[K - (n + 1)] <= Len(f)
      OBVIOUS
    <3> DEFINE k == K - n
    <3>1. k \in 1 .. K /\ K - (n + 1) = k - 1
      BY <1>0
    <3>2. e[k] <= Len(f)
      BY <1>0, <2>2
    <3> HIDE DEF k
    <3>3. e[k] = e[k - 1] + Len(Encode(recs[k])) /\ Len(Encode(recs[k])) \in Nat /\ e[k - 1] \in Nat
      BY <1>1, <1>2, <1>3, <3>1
    <3> QED
      BY <1>0, <3>1, <3>2, <3>3
  <2> HIDE DEF T
  <2>3. \A n \in Nat : n \in T
    BY <2>1, <2>2, SetInduction
  <2>4. ASSUME NEW k \in 0 .. K PROVE e[k] <= Len(f)
    <3>1. K - k \in Nat /\ K - k <= K /\ K - (K - k) = k
      BY <1>0
    <3> QED
      BY <2>3, <3>1 DEF T
  <2> QED
    BY <2>4
<1>6. ASSUME NEW k \in 1 .. K PROVE Stands(f \o s, e[k - 1], recs[k], Len(Encode(recs[k])))
  <2>1. e[k - 1] \in Nat /\ e[k - 1] + Len(Encode(recs[k])) <= Len(f)
    BY <1>1, <1>2, <1>5
  <2> QED
    BY <1>1, <1>3, <2>1, StandsStill
<1>7. e[K] <= Len(f \o s)
  BY <1>0, <1>4
<1> QED
  BY <1>1, <1>6, <1>7 DEF Framed, K

\* The whole of a record is appended.
LEMMA FramedMore ==
    ASSUME NEW f \in Seq(Nat), NEW recs \in Seq(Records), NEW e, NEW r \in Records,
           Framed(f, recs, e), e[Len(recs)] = Len(f)
    PROVE  \E d : /\ Framed(f \o Encode(r), Append(recs, r), d)
                  /\ d[Len(recs) + 1] = Len(f \o Encode(r))
<1> DEFINE K == Len(recs)
           E == Encode(r)
           more == Append(recs, r)
           h == f \o E
           d == [k \in 0 .. K + 1 |-> IF k = K + 1 THEN Len(f) + Len(E) ELSE e[k]]
<1>0. K \in Nat /\ Len(f) \in Nat /\ e[K] = Len(f)
  OBVIOUS
<1>1. /\ Len(more) = K + 1 /\ more[K + 1] = r
      /\ \A k \in 1 .. K : more[k] = recs[k]
  OBVIOUS
<1>2. E \in Seq(Nat) /\ Len(E) \in Nat
  BY EncodeUnits
<1>3. /\ Len(h) = Len(f) + Len(E)
      /\ \A j \in 1 .. Len(E) : h[Len(f) + j] = E[j]
  BY <1>2, ConcatUnits
<1>4. Framed(h, recs, e)
  BY <1>2, FramedStill
<1> HIDE DEF more, h, E
<1>5. /\ e \in [0 .. K -> Nat] /\ e[0] = 0
      /\ \A k \in 1 .. K : /\ e[k] = e[k - 1] + Len(Encode(recs[k]))
                           /\ Stands(h, e[k - 1], recs[k], Len(Encode(recs[k])))
  BY <1>4 DEF Framed
<1> HIDE DEF K
<1>6. /\ d \in [0 .. K + 1 -> Nat] /\ d[K + 1] = Len(f) + Len(E)
      /\ \A k \in 0 .. K : d[k] = e[k]
  BY <1>0, <1>2, <1>5
<1> HIDE DEF d
<1>7. ASSUME NEW k \in 1 .. K + 1
      PROVE  /\ d[k] = d[k - 1] + Len(Encode(more[k]))
             /\ Stands(h, d[k - 1], more[k], Len(Encode(more[k])))
  <2>1. CASE k \in 1 .. K
    <3>1. d[k] = e[k] /\ d[k - 1] = e[k - 1] /\ more[k] = recs[k]
      BY <1>0, <1>1, <1>6, <2>1, SMTT(30)
    <3> QED
      BY <1>5, <2>1, <3>1
  <2>2. CASE k = K + 1
    <3>1. k - 1 = K /\ K \in 0 .. K /\ more[k] = r
      BY <1>0, <1>1, <2>2
    <3>2. d[k - 1] = Len(f) /\ d[k] = Len(f) + Len(E)
      BY <1>0, <1>6, <2>2, <3>1
    <3> QED
      BY <1>3, <3>1, <3>2 DEF Stands, E
  <2> QED
    BY <1>0, <2>1, <2>2
<1>8. d[0] = 0 /\ d[K + 1] <= Len(h) /\ d[K + 1] = Len(h)
  BY <1>0, <1>2, <1>3, <1>5, <1>6
<1>9. Framed(h, more, d)
  BY <1>1, <1>6, <1>7, <1>8 DEF Framed
<1> QED
  BY <1>8, <1>9 DEF h, more, E, K

\* A crash leaves the first n units of a record.
LEMMA FramedCut ==
    ASSUME NEW f \in Seq(Nat), NEW recs \in Seq(Records), NEW e, NEW r \in Records,
           Framed(f, recs, e), e[Len(recs)] = Len(f), NEW n \in 1 .. Len(Encode(r)) - 1
    PROVE  LET g == f \o SubSeq(Encode(r), 1, n)
           IN  Framed(g, recs, e) /\ CutAt(g, e[Len(recs)])
<1> DEFINE E == Encode(r)
           s == SubSeq(E, 1, n)
           g == f \o s
<1>1. E \in Seq(Nat) /\ Len(E) \in Nat /\ Len(f) \in Nat
  BY EncodeUnits
<1> HIDE DEF E
<1>2. n \in Nat /\ n < Len(E) /\ n \in 1 .. Len(E) - 1
  BY <1>1 DEF E
<1>3. s \in Seq(Nat) /\ Len(s) = n /\ \A j \in 1 .. n : s[j] = E[j]
  BY <1>1, <1>2
<1> HIDE DEF s
<1>4. /\ Framed(g, recs, e) /\ Len(g) = Len(f) + n
      /\ \A j \in 1 .. n : g[Len(f) + j] = s[j]
  BY <1>3, FramedStill, ConcatUnits
<1> HIDE DEF g
<1>5. Stands(g, Len(f), r, n)
  BY <1>3, <1>4 DEF Stands, E
<1>6. CutAt(g, Len(f))
  BY <1>2, <1>4, <1>5 DEF CutAt, E
<1> QED
  BY <1>4, <1>6 DEF g, s, E
-----------------------------------------------------------------------------
(* The inductive invariant. *)

\* The use of the log that the proofs are about: an object that appends is not
\* used beside another one that checkpoints.
SoleWriter == \A h \in Appenders : \A g \in Checkpointers : g = h

WalType ==
    /\ file \in Seq(Nat)
    /\ mode \in [Handles -> {"closed", "ab", "wb"}]
    /\ pos \in [Handles -> Nat]
    /\ written \in Seq(Records)
    /\ safe \in Seq(Records)
    /\ tail \in {"whole", "cut", "buried"}
    /\ tail # "buried" => safe = written

\* A "wb" stream stands at the end of the file, like an "ab" stream.
StreamsAtEnd ==
    /\ \A h \in Handles : mode[h] = "wb" => h \in Checkpointers /\ pos[h] = Len(file)
    /\ Appenders = {} => file = << >>

\* The file begins with the records written before any was torn, and part of
\* one more, or that and anything, may follow.
FileFramed ==
    \E e : /\ Framed(file, safe, e)
           /\ tail = "whole" => e[Len(safe)] = Len(file)
           /\ tail = "cut" => CutAt(file, e[Len(safe)])

WInv == WalType /\ StreamsAtEnd /\ FileFramed

LEMMA EmptyFramed ==
    \E e : Framed(<< >>, << >>, e) /\ e[Len(<< >>)] = Len(<< >>)
<1> DEFINE e == [k \in 0 .. 0 |-> 0]
<1>1. Len(<< >>) = 0
  OBVIOUS
<1>2. e \in [0 .. 0 -> Nat] /\ e[0] = 0
  OBVIOUS
<1> HIDE DEF e
<1>3. Framed(<< >>, << >>, e) /\ e[Len(<< >>)] = Len(<< >>)
  BY <1>1, <1>2 DEF Framed
<1> QED
  BY <1>3

LEMMA WInvInit ==
    ASSUME Init
    PROVE  WInv
<1>0. << >> \in Seq(Nat) /\ << >> \in Seq(Records)
  OBVIOUS
<1>1. WalType
  BY <1>0 DEF Init, WalType
<1>2. StreamsAtEnd
  BY DEF Init, StreamsAtEnd
<1>3. FileFramed
  BY EmptyFramed DEF Init, FileFramed
<1> QED
  BY <1>1, <1>2, <1>3 DEF WInv

\* Whatever its mode, an open stream writes at the end of the file.
LEMMA AfterIsAppend ==
    ASSUME WInv, NEW h \in Handles, mode[h] # "closed", NEW s \in Seq(Nat)
    PROVE  After(h, s) = file \o s
<1>1. file \in Seq(Nat) /\ Len(file) \in Nat /\ Len(s) \in Nat
  BY DEF WInv, WalType
<1>2. CASE mode[h] = "ab"
  BY <1>2 DEF After
<1>3. CASE mode[h] = "wb"
  <2> DEFINE n == Len(file)
             end == n + Len(s)
             a == [i \in 1 .. end |-> IF i \in n + 1 .. end THEN s[i - n]
                                      ELSE IF i <= n THEN file[i] ELSE 0]
  <2>1. pos[h] = n
    BY <1>3 DEF WInv, StreamsAtEnd
  <2>2. end >= n /\ end \in Nat
    BY <1>1
  <2>3. After(h, s) = a
    BY <1>3, <2>1, <2>2 DEF After
  <2> DEFINE b == file \o s
  <2>4. /\ b \in Seq(Nat) /\ Len(b) = end
        /\ \A j \in 1 .. n : b[j] = file[j]
        /\ \A j \in 1 .. Len(s) : b[n + j] = s[j]
    BY <1>1, ConcatUnits
  <2> HIDE DEF b
  <2>5. b = [i \in 1 .. end |-> b[i]]
    <3> HIDE DEF end
    <3> QED
      BY <2>4
  <2>6. ASSUME NEW i \in 1 .. end PROVE a[i] = b[i]
    <3>1. CASE i <= n
      BY <1>1, <2>4, <3>1
    <3>2. CASE ~(i <= n)
      <4>1. i \in n + 1 .. end /\ i - n \in 1 .. Len(s) /\ n + (i - n) = i
        BY <1>1, <3>2
      <4>2. a[i] = s[i - n]
        BY <4>1
      <4> HIDE DEF a, n
      <4> QED
        BY <2>4, <4>1, <4>2
    <3> QED
      BY <3>1, <3>2
  <2>7. a = [i \in 1 .. end |-> b[i]]
    BY <2>6
  <2> HIDE DEF a
  <2> QED
    BY <2>3, <2>5, <2>7 DEF b
<1> QED
  BY <1>2, <1>3 DEF WInv, WalType

\* A record is appended whole.
LEMMA GrownByRecord ==
    ASSUME WInv, NEW r \in Records, file' = file \o Encode(r), AddRecord(r)
    PROVE  FileFramed' /\ written' \in Seq(Records) /\ safe' \in Seq(Records)
           /\ tail' \in {"whole", "cut", "buried"} /\ (tail' # "buried" => safe' = written')
<1>1. /\ file \in Seq(Nat) /\ safe \in Seq(Records) /\ written \in Seq(Records)
      /\ tail # "buried" => safe = written
      /\ Encode(r) \in Seq(Nat)
  BY EncodeUnits DEF WInv, WalType
<1>2. PICK e : /\ Framed(file, safe, e)
               /\ tail = "whole" => e[Len(safe)] = Len(file)
  BY DEF WInv, FileFramed
<1>3. CASE tail = "whole"
  <2>1. PICK d : /\ Framed(file \o Encode(r), Append(safe, r), d)
                 /\ d[Len(safe) + 1] = Len(file \o Encode(r))
    BY <1>1, <1>2, <1>3, FramedMore
  <2>2. safe' = Append(safe, r) /\ tail' = "whole" /\ written' = Append(written, r)
    BY <1>3 DEF AddRecord
  <2>3. Len(safe') = Len(safe) + 1
    BY <1>1, <2>2
  <2>4. Framed(file', safe', d) /\ d[Len(safe')] = Len(file')
    BY <2>1, <2>2, <2>3
  <2>5. FileFramed'
    BY <2>2, <2>4 DEF FileFramed
  <2> QED
    BY <1>1, <1>3, <2>2, <2>5
<1>4. CASE tail # "whole"
  <2>1. safe' = safe /\ tail' = "buried" /\ written' = Append(written, r)
    BY <1>4 DEF AddRecord
  <2>2. Framed(file \o Encode(r), safe, e)
    BY <1>1, <1>2, FramedStill
  <2>3. FileFramed'
    BY <2>1, <2>2 DEF FileFramed
  <2> QED
    BY <1>1, <2>1, <2>3
<1> QED
  BY <1>3, <1>4

LEMMA OpenStep ==
    ASSUME WInv, NEW h \in Handles, Open(h)
    PROVE  WInv'
<1>1. UNCHANGED <<file, pos, written, safe, tail>> /\ mode' = [mode EXCEPT ![h] = "ab"]
  BY DEF Open, history
<1>2. FileFramed'
  BY <1>1 DEF WInv, FileFramed
<1>3. WalType'
  BY <1>1 DEF WInv, WalType
<1>4. StreamsAtEnd'
  BY <1>1 DEF WInv, WalType, StreamsAtEnd
<1> QED
  BY <1>2, <1>3, <1>4 DEF WInv

LEMMA CloseStep ==
    ASSUME WInv, NEW h \in Handles, Close(h)
    PROVE  WInv'
<1>1. /\ UNCHANGED <<file, written, safe, tail>>
      /\ mode' = [mode EXCEPT ![h] = "closed"] /\ pos' = [pos EXCEPT ![h] = 0]
  BY DEF Close, history
<1>2. FileFramed'
  BY <1>1 DEF WInv, FileFramed
<1>3. WalType'
  BY <1>1 DEF WInv, WalType
<1>4. StreamsAtEnd'
  BY <1>1 DEF WInv, WalType, StreamsAtEnd
<1> QED
  BY <1>2, <1>3, <1>4 DEF WInv

LEMMA AppendStep ==
    ASSUME SoleWriter, WInv, NEW h \in Appenders, NEW r \in Records, AppendRecord(h, r)
    PROVE  WInv'
<1>1. /\ h \in Handles /\ mode[h] # "closed" /\ file' = After(h, Encode(r))
      /\ pos' = [pos EXCEPT ![h] = IF mode[h] = "ab" THEN 0 ELSE @ + Len(Encode(r))]
      /\ AddRecord(r) /\ mode' = mode
  BY HandlesAssumption DEF AppendRecord, CanAppend
<1>2. Encode(r) \in Seq(Nat) /\ Len(Encode(r)) \in Nat
  BY EncodeUnits
<1>3. file' = file \o Encode(r)
  BY <1>1, <1>2, AfterIsAppend
<1>4. /\ file \in Seq(Nat) /\ mode \in [Handles -> {"closed", "ab", "wb"}]
      /\ pos \in [Handles -> Nat]
  BY DEF WInv, WalType
<1>5. file' \in Seq(Nat) /\ Len(file') = Len(file) + Len(Encode(r))
  BY <1>2, <1>3, <1>4, ConcatUnits
<1>6. FileFramed' /\ written' \in Seq(Records) /\ safe' \in Seq(Records)
      /\ tail' \in {"whole", "cut", "buried"} /\ (tail' # "buried" => safe' = written')
  BY <1>1, <1>3, GrownByRecord
<1>7. pos' \in [Handles -> Nat]
  BY <1>1, <1>2, <1>4
<1>8. WalType'
  BY <1>1, <1>4, <1>5, <1>6, <1>7 DEF WalType
<1>9. ASSUME NEW g \in Handles, mode'[g] = "wb"
      PROVE  g \in Checkpointers /\ pos'[g] = Len(file')
  <2>1. mode[g] = "wb" /\ g \in Checkpointers /\ pos[g] = Len(file)
    BY <1>1, <1>9 DEF WInv, StreamsAtEnd
  <2>2. g = h
    BY <2>1 DEF SoleWriter
  <2>3. pos'[h] = pos[h] + Len(Encode(r))
    BY <1>1, <1>4, <2>1, <2>2
  <2> QED
    BY <1>5, <2>1, <2>2, <2>3
<1>10. StreamsAtEnd'
  BY <1>9 DEF StreamsAtEnd
<1> QED
  BY <1>6, <1>8, <1>10 DEF WInv

\* A crash inside an append leaves the records before it as they are.
LEMMA TearStep ==
    ASSUME WInv, NEW h \in Appenders, NEW r \in Records,
           NEW n \in 1 .. Len(Encode(r)), TearAppend(h, r, n)
    PROVE  WInv'
<1> DEFINE E == Encode(r)
           s == SubSeq(E, 1, n)
<1>1. /\ h \in Handles /\ mode[h] # "closed" /\ file' = After(h, s)
      /\ mode' = [g \in Handles |-> "closed"] /\ pos' = [g \in Handles |-> 0]
      /\ \/ n = Len(E) /\ AddRecord(r)
         \/ /\ n < Len(E)
            /\ tail' = IF tail = "whole" THEN "cut" ELSE "buried"
            /\ UNCHANGED <<written, safe>>
  BY HandlesAssumption DEF TearAppend, CanAppend
<1>2. E \in Seq(Nat) /\ Len(E) \in Nat
  BY EncodeUnits
<1>3. n \in 1 .. Len(E)
  OBVIOUS
<1> HIDE DEF E
<1>4. s \in Seq(Nat) /\ Len(s) = n /\ \A j \in 1 .. n : s[j] = E[j]
  BY <1>2, <1>3
<1> HIDE DEF s
<1>5. file' = file \o s
  BY <1>1, <1>4, AfterIsAppend
<1>6. /\ file \in Seq(Nat) /\ written \in Seq(Records) /\ safe \in Seq(Records)
      /\ tail \in {"whole", "cut", "buried"} /\ (tail # "buried" => safe = written)
  BY DEF WInv, WalType
<1>7. file' \in Seq(Nat)
  BY <1>4, <1>5, <1>6, ConcatUnits
<1>8. StreamsAtEnd'
  BY <1>1 DEF StreamsAtEnd
<1>9. mode' \in [Handles -> {"closed", "ab", "wb"}] /\ pos' \in [Handles -> Nat]
  BY <1>1
<1>10. CASE n = Len(E) /\ AddRecord(r)
  <2>1. s = E
    BY <1>2, <1>4, <1>10, SameSeq
  <2>2. file' = file \o Encode(r)
    BY <1>5, <2>1 DEF E
  <2>3. FileFramed' /\ written' \in Seq(Records) /\ safe' \in Seq(Records)
        /\ tail' \in {"whole", "cut", "buried"} /\ (tail' # "buried" => safe' = written')
    BY <1>10, <2>2, GrownByRecord
  <2> QED
    BY <1>7, <1>8, <1>9, <2>3 DEF WInv, WalType
<1>11. CASE /\ n < Len(E)
            /\ tail' = IF tail = "whole" THEN "cut" ELSE "buried"
            /\ UNCHANGED <<written, safe>>
  <2>1. n \in 1 .. Len(E) - 1
    BY <1>2, <1>3, <1>11
  <2>2. PICK e : Framed(file, safe, e) /\ (tail = "whole" => e[Len(safe)] = Len(file))
    BY DEF WInv, FileFramed
  <2>3. Framed(file', safe', e)
    BY <1>4, <1>5, <1>6, <1>11, <2>2, FramedStill
  <2>4. ASSUME tail' = "cut" PROVE CutAt(file', e[Len(safe')])
    <3>1. tail = "whole" /\ e[Len(safe)] = Len(file)
      BY <1>11, <2>2, <2>4
    <3>2. CutAt(file \o s, e[Len(safe)])
      BY <1>6, <2>1, <2>2, <3>1, FramedCut DEF E, s
    <3> QED
      BY <1>5, <1>11, <3>2
  <2>5. tail' # "whole"
    BY <1>11
  <2>6. FileFramed'
    BY <2>3, <2>4, <2>5 DEF FileFramed
  <2>7. WalType'
    BY <1>6, <1>7, <1>9, <1>11 DEF WalType
  <2> QED
    BY <1>8, <2>6, <2>7 DEF WInv
<1> QED
  BY <1>1, <1>10, <1>11

LEMMA CheckpointStep ==
    ASSUME SoleWriter, WInv, NEW h \in Checkpointers, Checkpoint(h)
    PROVE  WInv'
<1>1. /\ h \in Handles /\ file' = << >> /\ written' = << >> /\ safe' = << >> /\ tail' = "whole"
      /\ mode' = [mode EXCEPT ![h] = "wb"] /\ pos' = [pos EXCEPT ![h] = 0]
  BY HandlesAssumption DEF Checkpoint
<1>2. mode \in [Handles -> {"closed", "ab", "wb"}] /\ pos \in [Handles -> Nat]
  BY DEF WInv, WalType
<1>3. WalType'
  <2>1. << >> \in Seq(Nat) /\ << >> \in Seq(Records)
    OBVIOUS
  <2>2. mode' \in [Handles -> {"closed", "ab", "wb"}] /\ pos' \in [Handles -> Nat]
    BY <1>1, <1>2
  <2> QED
    BY <1>1, <2>1, <2>2 DEF WalType
<1>4. FileFramed'
  BY <1>1, EmptyFramed DEF FileFramed
<1>5. ASSUME NEW g \in Handles, mode'[g] = "wb"
      PROVE  g \in Checkpointers /\ pos'[g] = Len(file')
  <2>0. Len(file') = 0
    BY <1>1
  <2>1. CASE g = h
    BY <1>1, <1>2, <2>0, <2>1
  <2>2. CASE g # h
    <3>1. mode[g] = "wb" /\ g \in Checkpointers /\ pos[g] = Len(file) /\ pos'[g] = pos[g]
      BY <1>1, <1>2, <1>5, <2>2 DEF WInv, StreamsAtEnd
    <3>2. Appenders = {}
      BY <2>2, <3>1 DEF SoleWriter
    <3>3. file = << >>
      BY <3>2 DEF WInv, StreamsAtEnd
    <3> QED
      BY <2>0, <3>1, <3>3
  <2> QED
    BY <2>1, <2>2
<1>6. StreamsAtEnd'
  BY <1>1, <1>5 DEF StreamsAtEnd
<1> QED
  BY <1>3, <1>4, <1>6 DEF WInv

LEMMA WInvNext ==
    ASSUME SoleWriter, WInv, [Next]_vars
    PROVE  WInv'
<1>1. CASE UNCHANGED vars
  BY <1>1 DEF vars, history, WInv, WalType, StreamsAtEnd, FileFramed
<1>2. ASSUME NEW h \in Handles, Open(h) \/ Close(h) PROVE WInv'
  BY <1>2, OpenStep, CloseStep
<1>3. ASSUME NEW h \in Appenders, NEW r \in Records, AppendRecord(h, r) PROVE WInv'
  BY <1>3, AppendStep
<1>4. ASSUME NEW h \in Appenders, NEW r \in Records, NEW n \in 1 .. Len(Encode(r)),
             TearAppend(h, r, n)
      PROVE  WInv'
  BY <1>4, TearStep
<1>5. ASSUME NEW h \in Checkpointers, Checkpoint(h) PROVE WInv'
  BY <1>5, CheckpointStep
<1> QED
  BY <1>1, <1>2, <1>3, <1>4, <1>5 DEF Next

LEMMA WInvImplies ==
    ASSUME WInv
    PROVE  ReplayExact /\ DamageConfined
<1>1. /\ file \in Seq(Nat) /\ safe \in Seq(Records)
      /\ tail \in {"whole", "cut", "buried"} /\ (tail # "buried" => safe = written)
  BY DEF WInv, WalType
<1>2. PICK e : /\ Framed(file, safe, e)
               /\ tail = "whole" => e[Len(safe)] = Len(file)
               /\ tail = "cut" => CutAt(file, e[Len(safe)])
  BY DEF WInv, FileFramed
<1>3. DamageConfined
  BY <1>1, <1>2, ReplayPrefix DEF DamageConfined
<1>4. ASSUME tail # "buried" PROVE Replay(file) = written
  <2>1. CutAt(file, e[Len(safe)])
    BY <1>1, <1>2, <1>4 DEF CutAt
  <2> QED
    BY <1>1, <1>2, <1>4, <2>1, ReplayFramed
<1> QED
  BY <1>3, <1>4 DEF ReplayExact

\* WAL::replay returns exactly the records that were wholly written since the last
\* checkpoint, in order, whatever a crash inside an append left behind them, until
\* something is appended behind what it left.
THEOREM ReplayAlwaysExact ==
    ASSUME SoleWriter
    PROVE  Spec => []ReplayExact
<1>1. Init => WInv
  BY WInvInit
<1>2. WInv /\ [Next]_vars => WInv'
  BY WInvNext
<1>3. WInv => ReplayExact
  BY WInvImplies
<1> QED
  BY <1>1, <1>2, <1>3, PTL DEF Spec

\* However often the process dies inside an append and the log is appended to
\* again, WAL::replay begins with all the records that were wholly written before
\* the first torn one.
THEOREM DamageAlwaysConfined ==
    ASSUME SoleWriter
    PROVE  Spec => []DamageConfined
<1>1. Init => WInv
  BY WInvInit
<1>2. WInv /\ [Next]_vars => WInv'
  BY WInvNext
<1>3. WInv => DamageConfined
  BY WInvImplies
<1> QED
  BY <1>1, <1>2, <1>3, PTL DEF Spec
=============================================================================
