-------------------------- MODULE DurabilityProofs --------------------------
(***************************************************************************)
(* Proofs about Durability and its index file.  For every set of ids and   *)
(* every width of a tombstone word: load reads back what save wrote; and   *)
(* if operations do not run during compact and save, and the process does  *)
(* not die between the opening of the index file and the truncation of the *)
(* log, recovery brings back exactly what was promised.                    *)
(*                                                                         *)
(* What replay and compact compute is defined by recursion on a length.    *)
(* The facts about it are proved by induction in the form SetInduction:    *)
(* a set of naturals that holds 0 and every successor of its elements.     *)
(***************************************************************************)
EXTENDS Durability, FiniteSetTheorems, TLAPS

Slot    == [id : Ids, dead : BOOLEAN]
Records == [op : {"insert", "delete"}, id : Ids]

-----------------------------------------------------------------------------
(* The index file. *)

(* Division with remainder. *)
LEMMA DivMod ==
    ASSUME NEW n \in Nat
    PROVE  /\ n \div WordBits \in Nat
           /\ n % WordBits \in 0 .. WordBits - 1
           /\ n = (n \div WordBits) * WordBits + (n % WordBits)
<1>1. n \div WordBits \in Nat
  BY WordAssumption
<1>2. n % WordBits \in 0 .. WordBits - 1
  BY WordAssumption
<1>3. n = WordBits * (n \div WordBits) + (n % WordBits)
  BY WordAssumption
<1>4. WordBits * (n \div WordBits) = (n \div WordBits) * WordBits
  BY <1>1, WordAssumption
<1> QED
  BY <1>1, <1>2, <1>3, <1>4

(* The multiples of the word width keep their order. *)
LEMMA TimesCancel ==
    ASSUME NEW a \in Nat, NEW b \in Nat, a * WordBits < b * WordBits
    PROVE  a < b
<1>1. ASSUME b <= a PROVE b * WordBits <= a * WordBits
  BY <1>1, WordAssumption
<1> QED
  BY <1>1, WordAssumption

(* Every slot of the index has a bit in a word that save writes. *)
LEMMA WordExists ==
    ASSUME NEW n \in Nat, NEW i \in 0 .. n - 1
    PROVE  i \div WordBits \in 0 .. Words(n) - 1
<1> DEFINE p == i \div WordBits
<1> DEFINE m == n + WordBits - 1
<1> DEFINE q == m \div WordBits
<1>1. p \in Nat /\ i = p * WordBits + (i % WordBits) /\ i % WordBits \in 0 .. WordBits - 1
  BY DivMod
<1>2. m \in Nat
  BY WordAssumption
<1>3. q \in Nat /\ m = q * WordBits + (m % WordBits) /\ m % WordBits \in 0 .. WordBits - 1
  BY <1>2, DivMod
<1>4. p * WordBits \in Nat /\ q * WordBits \in Nat
  BY <1>1, <1>3, WordAssumption
<1> HIDE DEF p, q
<1>5. n <= q * WordBits
  <2> DEFINE r == m % WordBits
             x == q * WordBits
  <2>1. n + WordBits - 1 = x + r /\ r \in 0 .. WordBits - 1 /\ x \in Nat
    BY <1>3, <1>4
  <2> HIDE DEF r, x
  <2>2. n <= x
    BY <2>1, WordAssumption
  <2> QED
    BY <2>2 DEF x
<1>6. p * WordBits <= i
  <2>1. i % WordBits \in Nat
    BY <1>1, WordAssumption
  <2> QED
    BY <1>1, <1>4, <2>1
<1>7. p * WordBits < q * WordBits
  BY <1>4, <1>5, <1>6
<1>8. p < q
  BY <1>1, <1>3, <1>7, TimesCancel
<1> QED
  BY <1>1, <1>3, <1>8 DEF Words, p, q

(* load reads every tombstone as save wrote it, at the edges of words too. *)
LEMMA PackUnpack ==
    ASSUME NEW s \in Seq(Slot), NEW i \in 0 .. Len(s) - 1
    PROVE  Unpacked(Pack(s, Len(s)), i) <=> s[i + 1].dead
<1> DEFINE w == i \div WordBits
<1> DEFINE b == i % WordBits
<1>1. w \in Nat /\ b \in 0 .. WordBits - 1 /\ w * WordBits + b = i
  <2>1. i \in Nat
    OBVIOUS
  <2> QED
    BY <2>1, DivMod
<1>2. w \in 0 .. Words(Len(s)) - 1
  BY WordExists
<1> HIDE DEF w, b
<1>3. w \in DOMAIN Pack(s, Len(s))
  BY <1>2 DEF Pack
<1>4. Pack(s, Len(s))[w] =
        {c \in 0 .. WordBits - 1 : w * WordBits + c < Len(s) /\ s[w * WordBits + c + 1].dead}
  BY <1>2 DEF Pack
<1>5. b \in Pack(s, Len(s))[w] <=> i < Len(s) /\ s[i + 1].dead
  BY <1>1, <1>4
<1>6. i < Len(s)
  OBVIOUS
<1> QED
  BY <1>3, <1>5, <1>6 DEF Unpacked, w, b

(* A finished save followed by a load brings back every slot with its own
   tombstone, whatever the index held before, for every count of vectors and
   every word width. *)
THEOREM SaveLoadExact ==
    ASSUME NEW s \in Seq(Slot), NEW old
    PROVE  Loaded(Saved(Len(s), s), old) = s
<1> DEFINE f == Saved(Len(s), s)
<1>1. f.ver = 2 /\ f.nv = Len(s) /\ f.tomb = Pack(s, Len(s)) /\ f.rows = [i \in DOMAIN s |-> s[i].id]
  BY DEF Saved
<1>2. DOMAIN s = 1 .. Len(s) /\ Len(s) \in Nat
  OBVIOUS
<1>3. ASSUME NEW i \in DOMAIN s PROVE s[i] \in Slot
  BY <1>2
<1>4. Len(f.rows) = f.nv
  BY <1>1, <1>2
<1> HIDE DEF f
<1>5. Loaded(f, old) = [i \in DOMAIN s |-> [id |-> s[i].id, dead |-> Tombstone(f, old, i - 1)]]
  BY <1>1, <1>4 DEF Loaded
<1>6. ASSUME NEW i \in DOMAIN s PROVE Tombstone(f, old, i - 1) = s[i].dead
  <2>1. i - 1 \in 0 .. Len(s) - 1 /\ i - 1 + 1 = i
    BY <1>2
  <2>2. Unpacked(Pack(s, Len(s)), i - 1) <=> s[i].dead
    BY <2>1, PackUnpack
  <2>3. s[i].dead \in BOOLEAN
    BY <1>3 DEF Slot
  <2>4. Tombstone(f, old, i - 1) = Unpacked(Pack(s, Len(s)), i - 1)
    BY <1>1 DEF Tombstone
  <2>5. Unpacked(Pack(s, Len(s)), i - 1) \in BOOLEAN
    BY DEF Unpacked
  <2> QED
    BY <2>2, <2>3, <2>4, <2>5
<1>7. ASSUME NEW i \in DOMAIN s PROVE s[i] = [id |-> s[i].id, dead |-> s[i].dead]
  BY <1>3 DEF Slot
<1>8. s = [i \in DOMAIN s |-> s[i]]
  OBVIOUS
<1> QED
  BY <1>5, <1>6, <1>7, <1>8 DEF f
-----------------------------------------------------------------------------
(* Induction, and what replay and compact compute. *)

LEMMA SetInduction ==
    ASSUME NEW T, 0 \in T, \A n \in Nat : n \in T => n + 1 \in T
    PROVE  \A n \in Nat : n \in T
<1> DEFINE R == OpToRel(<, Nat)
           B == Nat \ T
<1> SUFFICES ASSUME B # {} PROVE FALSE
  OBVIOUS
<1>1. \A x, y \in Nat : <<x, y>> \in R <=> x < y
  BY DEF OpToRel
<1>2. IsWellFoundedOn(R, Nat)
  BY NatLessThanWellFounded
<1>3. B \subseteq Nat
  OBVIOUS
<1> HIDE DEF R
<1>4. PICK x \in B : \A y \in B : ~(<<y, x>> \in R)
  BY <1>2, <1>3, WFMin
<1>5. x \in Nat /\ x # 0 /\ x - 1 \in Nat /\ x - 1 < x /\ (x - 1) + 1 = x
  BY <1>4
<1>6. x - 1 \in T
  BY <1>1, <1>4, <1>5
<1> QED
  BY <1>4, <1>5, <1>6

\* g[n] is the index after the first n of the records.
IsReplay(g, s, recs, m) ==
    g = [n \in 0 .. m |-> IF n = 0 THEN s ELSE Applied(g[n - 1], recs[n])]

LEMMA ReplayExists ==
    ASSUME NEW s, NEW recs
    PROVE  \A m \in Nat : \E g : IsReplay(g, s, recs, m)
<1> DEFINE T == {m \in Nat : \E g : IsReplay(g, s, recs, m)}
<1>1. 0 \in T
  <2>1. IsReplay([n \in 0 .. 0 |-> s], s, recs, 0)
    BY DEF IsReplay
  <2> QED
    BY <2>1
<1>2. ASSUME NEW m \in Nat, m \in T PROVE m + 1 \in T
  <2>1. PICK g : IsReplay(g, s, recs, m)
    BY <1>2
  <2> DEFINE h == [n \in 0 .. m + 1 |-> IF n = m + 1 THEN Applied(g[m], recs[m + 1]) ELSE g[n]]
  <2>2. ASSUME NEW n \in 0 .. m + 1
        PROVE  h[n] = IF n = 0 THEN s ELSE Applied(h[n - 1], recs[n])
    <3>1. CASE n = m + 1
      BY <3>1
    <3>2. CASE n # m + 1
      <4>1. n \in 0 .. m /\ h[n] = g[n] /\ (n # 0 => h[n - 1] = g[n - 1])
        BY <3>2
      <4> HIDE DEF h
      <4>2. g[n] = IF n = 0 THEN s ELSE Applied(g[n - 1], recs[n])
        BY <2>1, <4>1 DEF IsReplay
      <4> QED
        BY <4>1, <4>2
    <3> QED
      BY <3>1, <3>2
  <2>3. IsReplay(h, s, recs, m + 1)
    BY <2>2 DEF IsReplay
  <2> HIDE DEF h
  <2> QED
    BY <2>3
<1> HIDE DEF T
<1>3. \A m \in Nat : m \in T
  BY <1>1, <1>2, SetInduction
<1> QED
  BY <1>3 DEF T

\* The recursive definition of Replayed defines what it says.
LEMMA ReplayedDef ==
    ASSUME NEW s, NEW recs, Len(recs) \in Nat
    PROVE  \E g : IsReplay(g, s, recs, Len(recs)) /\ Replayed(s, recs) = g[Len(recs)]
<1> DEFINE f == CHOOSE g : g = [n \in 0 .. Len(recs) |->
                                    IF n = 0 THEN s ELSE Applied(g[n - 1], recs[n])]
<1>1. IsReplay(f, s, recs, Len(recs))
  BY ReplayExists DEF IsReplay
<1>2. Replayed(s, recs) = f[Len(recs)]
  BY DEF Replayed
<1> HIDE DEF f
<1> QED
  BY <1>1, <1>2

LEMMA ReplayedEmpty ==
    ASSUME NEW s
    PROVE  Replayed(s, << >>) = s
<1>1. PICK g : IsReplay(g, s, << >>, 0) /\ Replayed(s, << >>) = g[0]
  BY ReplayedDef
<1> QED
  BY <1>1 DEF IsReplay

\* One more record in the log is one more step of the replay.
LEMMA ReplayedAppend ==
    ASSUME NEW s, NEW recs \in Seq(Records), NEW r
    PROVE  Replayed(s, Append(recs, r)) = Applied(Replayed(s, recs), r)
<1> DEFINE N == Len(recs)
           more == Append(recs, r)
<1>1. N \in Nat /\ Len(more) = N + 1 /\ more[N + 1] = r /\ \A n \in 1 .. N : more[n] = recs[n]
  OBVIOUS
<1>2. PICK g : IsReplay(g, s, recs, N) /\ Replayed(s, recs) = g[N]
  BY <1>1, ReplayedDef
<1> HIDE DEF more
<1>3. PICK h : IsReplay(h, s, more, N + 1) /\ Replayed(s, more) = h[N + 1]
  BY <1>1, ReplayedDef
<1> HIDE DEF N
<1> DEFINE T == {n \in Nat : n <= N => h[n] = g[n]}
<1>4. 0 \in T
  BY <1>1, <1>2, <1>3 DEF IsReplay
<1>5. ASSUME NEW n \in Nat, n \in T PROVE n + 1 \in T
  <2> SUFFICES ASSUME n + 1 <= N PROVE h[n + 1] = g[n + 1]
    OBVIOUS
  <2>1. h[n] = g[n] /\ more[n + 1] = recs[n + 1]
    BY <1>1, <1>5
  <2>2. n + 1 \in 0 .. N /\ n + 1 \in 0 .. N + 1 /\ n + 1 # 0 /\ (n + 1) - 1 = n
    BY <1>1
  <2>3. h[n + 1] = Applied(h[n], more[n + 1])
    BY <1>3, <2>2 DEF IsReplay
  <2>4. g[n + 1] = Applied(g[n], recs[n + 1])
    BY <1>2, <2>2 DEF IsReplay
  <2> QED
    BY <2>1, <2>3, <2>4
<1> HIDE DEF T
<1>6. \A n \in Nat : n \in T
  BY <1>4, <1>5, SetInduction
<1>7. h[N] = g[N]
  BY <1>1, <1>6 DEF T
<1>8. h[N + 1] = Applied(h[N], more[N + 1])
  <2>1. N + 1 \in 0 .. N + 1 /\ N + 1 # 0 /\ (N + 1) - 1 = N
    BY <1>1
  <2> QED
    BY <1>3, <2>1 DEF IsReplay
<1> QED
  BY <1>1, <1>2, <1>3, <1>7, <1>8 DEF more
-----------------------------------------------------------------------------
(* Slots. *)

SlotIds(s) == {s[i].id : i \in DOMAIN s}
\* Every id has one slot at most, live or not: delete_vector finds the right one.
IdsOnce(s) == \A i, j \in DOMAIN s : s[i].id = s[j].id => i = j

LEMMA SlotFields ==
    ASSUME NEW s \in Seq(Slot)
    PROVE  /\ DOMAIN s = 1 .. Len(s) /\ Len(s) \in Nat
           /\ \A i \in DOMAIN s : s[i] \in Slot /\ s[i].id \in Ids /\ s[i].dead \in BOOLEAN
<1>1. \A i \in DOMAIN s : s[i] \in Slot
  OBVIOUS
<1> QED
  BY <1>1 DEF Slot

LEMMA LiveIdsMember ==
    ASSUME NEW s, NEW x
    PROVE  x \in LiveIds(s) <=> \E i \in DOMAIN s : ~s[i].dead /\ s[i].id = x
BY DEF LiveIds

LEMMA SlotIdsMember ==
    ASSUME NEW s, NEW x
    PROVE  x \in SlotIds(s) <=> \E i \in DOMAIN s : s[i].id = x
BY DEF SlotIds

\* insert under a new id.
LEMMA InsertedSlots ==
    ASSUME NEW s \in Seq(Slot), NEW id \in Ids
    PROVE  /\ Inserted(s, id) \in Seq(Slot)
           /\ Len(Inserted(s, id)) = Len(s) + 1
           /\ \A i \in 1 .. Len(s) : Inserted(s, id)[i] = s[i]
           /\ Inserted(s, id)[Len(s) + 1] = [id |-> id, dead |-> FALSE]
           /\ SlotIds(Inserted(s, id)) = SlotIds(s) \cup {id}
           /\ LiveIds(Inserted(s, id)) = LiveIds(s) \cup {id}
           /\ IdsOnce(s) /\ id \notin SlotIds(s) => IdsOnce(Inserted(s, id))
<1> DEFINE new == [id |-> id, dead |-> FALSE]
           r == Inserted(s, id)
<1>1. new \in Slot
  BY DEF Slot
<1>2. new.id = id /\ new.dead = FALSE
  OBVIOUS
<1> HIDE DEF new
<1>3. r = Append(s, new)
  BY DEF Inserted, new
<1>4. /\ r \in Seq(Slot) /\ Len(r) = Len(s) + 1 /\ Len(s) \in Nat
      /\ DOMAIN s = 1 .. Len(s) /\ DOMAIN r = 1 .. Len(s) + 1
      /\ \A i \in 1 .. Len(s) : r[i] = s[i]
      /\ r[Len(s) + 1] = new
  BY <1>1, <1>3
<1> HIDE DEF r
<1>5. \A i \in DOMAIN r : i \in DOMAIN s \/ i = Len(s) + 1
  BY <1>4
<1>6. DOMAIN s \subseteq DOMAIN r /\ Len(s) + 1 \in DOMAIN r
  BY <1>4
<1>7. SlotIds(r) = SlotIds(s) \cup {id}
  <2>1. ASSUME NEW x \in SlotIds(r) PROVE x \in SlotIds(s) \cup {id}
    BY <1>2, <1>4, <1>5, <2>1, SlotIdsMember
  <2>2. ASSUME NEW x \in SlotIds(s) \cup {id} PROVE x \in SlotIds(r)
    BY <1>2, <1>4, <1>6, <2>2, SlotIdsMember
  <2> QED
    BY <2>1, <2>2
<1>8. LiveIds(r) = LiveIds(s) \cup {id}
  <2>1. ASSUME NEW x \in LiveIds(r) PROVE x \in LiveIds(s) \cup {id}
    BY <1>2, <1>4, <1>5, <2>1, LiveIdsMember
  <2>2. ASSUME NEW x \in LiveIds(s) \cup {id} PROVE x \in LiveIds(r)
    BY <1>2, <1>4, <1>6, <2>2, LiveIdsMember
  <2> QED
    BY <2>1, <2>2
<1>9. ASSUME IdsOnce(s), id \notin SlotIds(s) PROVE IdsOnce(r)
  <2>1. \A i \in DOMAIN s : s[i].id # id
    BY <1>9, SlotIdsMember
  <2> QED
    BY <1>2, <1>4, <1>5, <1>9, <2>1 DEF IdsOnce
<1> QED
  BY <1>4, <1>7, <1>8, <1>9 DEF r, new

\* Slot i is the first one with the id.
FirstWith(s, id, i) == s[i].id = id /\ \A j \in 1 .. i - 1 : s[j].id # id

\* delete_vector, slot by slot.
LEMMA DeletedSlots ==
    ASSUME NEW s \in Seq(Slot), NEW id
    PROVE  /\ Deleted(s, id) \in Seq(Slot)
           /\ Len(Deleted(s, id)) = Len(s)
           /\ DOMAIN Deleted(s, id) = DOMAIN s
           /\ \A i \in DOMAIN s : Deleted(s, id)[i].id = s[i].id
           /\ \A i \in DOMAIN s : Deleted(s, id)[i].dead = (s[i].dead \/ FirstWith(s, id, i))
<1> DEFINE r == Deleted(s, id)
           First(i) == FirstWith(s, id, i)
<1>1. DOMAIN s = 1 .. Len(s) /\ Len(s) \in Nat
  OBVIOUS
<1>2. r = [i \in DOMAIN s |-> IF First(i) THEN [s[i] EXCEPT !.dead = TRUE] ELSE s[i]]
  BY DEF Deleted, FirstWith
<1> HIDE DEF r, First
<1>3. ASSUME NEW i \in DOMAIN s
      PROVE  r[i] \in Slot /\ r[i].id = s[i].id /\ r[i].dead = (s[i].dead \/ First(i))
  <2>1. s[i] \in Slot
    OBVIOUS
  <2>2. CASE First(i)
    <3>1. r[i] = [s[i] EXCEPT !.dead = TRUE]
      BY <1>2, <2>2
    <3> QED
      BY <2>1, <2>2, <3>1 DEF Slot
  <2>3. CASE ~First(i)
    <3>1. r[i] = s[i]
      BY <1>2, <2>3
    <3>2. s[i].dead \in BOOLEAN
      BY <2>1 DEF Slot
    <3> QED
      BY <2>1, <2>3, <3>1, <3>2
  <2> QED
    BY <2>2, <2>3
<1>4. r \in Seq(Slot) /\ Len(r) = Len(s) /\ DOMAIN r = DOMAIN s
  BY <1>1, <1>2, <1>3
<1> QED
  BY <1>3, <1>4 DEF r, First

LEMMA DeletedIds ==
    ASSUME NEW s \in Seq(Slot), NEW id, IdsOnce(s)
    PROVE  /\ IdsOnce(Deleted(s, id))
           /\ SlotIds(Deleted(s, id)) = SlotIds(s)
           /\ LiveIds(Deleted(s, id)) = LiveIds(s) \ {id}
<1> DEFINE r == Deleted(s, id)
<1>1. DOMAIN r = DOMAIN s /\ \A i \in DOMAIN s : r[i].id = s[i].id
  BY DeletedSlots
<1>2. ASSUME NEW i \in DOMAIN s PROVE r[i].dead = (s[i].dead \/ s[i].id = id)
  <2>1. r[i].dead = (s[i].dead \/ FirstWith(s, id, i))
    BY DeletedSlots
  <2>2. \A j \in 1 .. i - 1 : j \in DOMAIN s /\ j # i
    BY SlotFields
  <2>3. s[i].id = id => \A j \in 1 .. i - 1 : s[j].id # id
    BY <2>2 DEF IdsOnce
  <2>4. FirstWith(s, id, i) <=> s[i].id = id
    BY <2>3 DEF FirstWith
  <2> QED
    BY <2>1, <2>4
<1> HIDE DEF r
<1>3. IdsOnce(r)
  BY <1>1 DEF IdsOnce
<1>4. SlotIds(r) = SlotIds(s)
  BY <1>1 DEF SlotIds
<1>5. ASSUME NEW x PROVE x \in LiveIds(r) <=> x \in LiveIds(s) \ {id}
  <2>1. \A i \in DOMAIN s : ~r[i].dead <=> ~s[i].dead /\ s[i].id # id
    BY <1>2
  <2>2. x \in LiveIds(r) <=> \E i \in DOMAIN s : ~r[i].dead /\ s[i].id = x
    BY <1>1, LiveIdsMember
  <2>3. x \in LiveIds(s) <=> \E i \in DOMAIN s : ~s[i].dead /\ s[i].id = x
    BY LiveIdsMember
  <2> QED
    BY <2>1, <2>2, <2>3
<1> QED
  BY <1>3, <1>4, <1>5 DEF r

\* What compact copies: the live slots, each once.
LEMMA LiveSlotsCopies ==
    ASSUME NEW s \in Seq(Slot), IdsOnce(s)
    PROVE  /\ LiveSlots(s) \in Seq(Slot)
           /\ IdsOnce(LiveSlots(s))
           /\ SlotIds(LiveSlots(s)) = LiveIds(s)
           /\ LiveIds(LiveSlots(s)) = LiveIds(s)
<1> DEFINE N == Len(s)
           Step(g, n) == IF n = 0 THEN << >>
                         ELSE IF s[n].dead THEN g[n - 1] ELSE Inserted(g[n - 1], s[n].id)
           IsCopy(g, m) == g = [n \in 0 .. m |-> Step(g, n)]
           E == {m \in Nat : \E g : IsCopy(g, m)}
<1>1. 0 \in E
  <2>1. IsCopy([n \in 0 .. 0 |-> << >>], 0)
    OBVIOUS
  <2> QED
    BY <2>1
<1>2. ASSUME NEW m \in Nat, m \in E PROVE m + 1 \in E
  <2>1. PICK g : IsCopy(g, m)
    BY <1>2
  <2> DEFINE last == IF s[m + 1].dead THEN g[m] ELSE Inserted(g[m], s[m + 1].id)
             h == [n \in 0 .. m + 1 |-> IF n = m + 1 THEN last ELSE g[n]]
  <2>2. ASSUME NEW n \in 0 .. m + 1 PROVE h[n] = Step(h, n)
    <3>1. CASE n = m + 1
      BY <3>1
    <3>2. CASE n # m + 1
      <4>1. n \in 0 .. m /\ h[n] = g[n] /\ (n # 0 => h[n - 1] = g[n - 1])
        BY <3>2
      <4> HIDE DEF h
      <4>2. g[n] = Step(g, n)
        BY <2>1, <4>1
      <4> QED
        BY <4>1, <4>2
    <3> QED
      BY <3>1, <3>2
  <2>3. IsCopy(h, m + 1)
    BY <2>2
  <2> HIDE DEF h, IsCopy
  <2> QED
    BY <2>3
<1> HIDE DEF E
<1>3. \A m \in Nat : m \in E
  BY <1>1, <1>2, SetInduction
<1>4. N \in Nat /\ DOMAIN s = 1 .. N
  OBVIOUS
<1> DEFINE f == CHOOSE g : IsCopy(g, N)
<1>5. IsCopy(f, N)
  BY <1>3, <1>4 DEF E
<1>6. LiveSlots(s) = f[N]
  BY DEF LiveSlots
<1> HIDE DEF f
<1>7. \A n \in 0 .. N : f[n] = Step(f, n)
  BY <1>5
<1> DEFINE Good(n) == /\ f[n] \in Seq(Slot)
                      /\ IdsOnce(f[n])
                      /\ SlotIds(f[n]) = {s[i].id : i \in {j \in 1 .. n : ~s[j].dead}}
                      /\ LiveIds(f[n]) = SlotIds(f[n])
           T == {n \in Nat : n <= N => Good(n)}
<1> HIDE DEF N, IsCopy
<1>8. 0 \in T
  <2>1. f[0] = << >>
    BY <1>4, <1>7
  <2>2. << >> \in Seq(Slot) /\ DOMAIN << >> = {} /\ {j \in 1 .. 0 : ~s[j].dead} = {}
    OBVIOUS
  <2>3. IdsOnce(<< >>) /\ SlotIds(<< >>) = {} /\ LiveIds(<< >>) = {}
    BY <2>2 DEF IdsOnce, SlotIds, LiveIds
  <2>4. {s[i].id : i \in {j \in 1 .. 0 : ~s[j].dead}} = {}
    BY <2>2
  <2>5. Good(0)
    BY <2>1, <2>2, <2>3, <2>4
  <2> HIDE DEF Good
  <2> QED
    BY <2>5
<1>9. ASSUME NEW n \in Nat, n \in T PROVE n + 1 \in T
  <2> SUFFICES ASSUME n + 1 <= N PROVE Good(n + 1)
    OBVIOUS
  <2>1. Good(n)
    BY <1>4, <1>9
  <2>2. n + 1 \in 0 .. N /\ n + 1 # 0 /\ (n + 1) - 1 = n /\ n + 1 \in DOMAIN s
    BY <1>4
  <2>3. f[n + 1] = IF s[n + 1].dead THEN f[n] ELSE Inserted(f[n], s[n + 1].id)
    BY <1>7, <2>2
  <2> DEFINE Before == {s[i].id : i \in {j \in 1 .. n : ~s[j].dead}}
             Now == {s[i].id : i \in {j \in 1 .. n + 1 : ~s[j].dead}}
  <2>4. \A x : x \in Before <=> \E j \in 1 .. n : ~s[j].dead /\ s[j].id = x
    OBVIOUS
  <2>5. \A x : x \in Now <=> \E j \in 1 .. n + 1 : ~s[j].dead /\ s[j].id = x
    OBVIOUS
  <2>6. \A j \in 1 .. n + 1 : j \in 1 .. n \/ j = n + 1
    OBVIOUS
  <2>7. \A j \in 1 .. n : j \in 1 .. n + 1 /\ j # n + 1 /\ j \in DOMAIN s
    BY <1>4
  <2>8. n + 1 \in 1 .. n + 1
    OBVIOUS
  <2> HIDE DEF Before, Now
  <2>9. CASE s[n + 1].dead
    <3>1. Now = Before
      <4>1. \A x \in Now : x \in Before
        BY <2>4, <2>5, <2>6, <2>9
      <4>2. \A x \in Before : x \in Now
        BY <2>4, <2>5, <2>7
      <4> QED
        BY <4>1, <4>2
    <3> QED
      BY <2>1, <2>3, <2>9, <3>1 DEF Before, Now
  <2>10. CASE ~s[n + 1].dead
    <3>1. Now = Before \cup {s[n + 1].id}
      BY <2>4, <2>5, <2>6, <2>7, <2>8, <2>10
    <3>2. s[n + 1].id \notin Before
      BY <2>2, <2>4, <2>7 DEF IdsOnce
    <3>3. s[n + 1].id \in Ids
      BY <2>2, SlotFields
    <3>4. f[n] \in Seq(Slot) /\ IdsOnce(f[n]) /\ SlotIds(f[n]) = Before /\ LiveIds(f[n]) = Before
      BY <2>1 DEF Before
    <3>5. f[n + 1] = Inserted(f[n], s[n + 1].id)
      BY <2>3, <2>10
    <3>6. /\ f[n + 1] \in Seq(Slot) /\ IdsOnce(f[n + 1])
          /\ SlotIds(f[n + 1]) = Now /\ LiveIds(f[n + 1]) = Now
      <4> DEFINE u == f[n]
                 id == s[n + 1].id
      <4>1. u \in Seq(Slot) /\ id \in Ids /\ IdsOnce(u) /\ id \notin SlotIds(u)
        BY <3>2, <3>3, <3>4
      <4> HIDE DEF u, id
      <4>2. /\ Inserted(u, id) \in Seq(Slot) /\ IdsOnce(Inserted(u, id))
            /\ SlotIds(Inserted(u, id)) = SlotIds(u) \cup {id}
            /\ LiveIds(Inserted(u, id)) = LiveIds(u) \cup {id}
        BY <4>1, InsertedSlots
      <4> QED
        BY <3>1, <3>4, <3>5, <4>2 DEF u, id
    <3> QED
      BY <3>6 DEF Now
  <2> QED
    BY <2>9, <2>10
<1> HIDE DEF T
<1>10. \A n \in Nat : n \in T
  BY <1>8, <1>9, SetInduction
<1> HIDE DEF Good
<1>11. Good(N)
  BY <1>4, <1>10 DEF T
<1>12. LiveIds(s) = {s[i].id : i \in {j \in 1 .. N : ~s[j].dead}}
  BY <1>4 DEF LiveIds
<1> QED
  BY <1>6, <1>11, <1>12 DEF Good

\* Two indexes with the same rows, one of them without tombstones: after the same
\* log they have the same rows, and the tombstones of the other are still set.
LEMMA ReplayedOver ==
    ASSUME NEW a \in Seq(Slot), NEW b \in Seq(Slot), NEW recs \in Seq(Records),
           Len(b) = Len(a),
           \A i \in DOMAIN a : b[i].id = a[i].id,
           \A i \in DOMAIN a : ~a[i].dead
    PROVE  /\ Replayed(a, recs) \in Seq(Slot) /\ Replayed(b, recs) \in Seq(Slot)
           /\ Len(Replayed(b, recs)) = Len(Replayed(a, recs))
           /\ Len(a) <= Len(Replayed(a, recs))
           /\ \A i \in 1 .. Len(Replayed(a, recs)) :
                 /\ Replayed(b, recs)[i].id = Replayed(a, recs)[i].id
                 /\ Replayed(b, recs)[i].dead =
                       (Replayed(a, recs)[i].dead \/ (i <= Len(a) /\ b[i].dead))
<1> DEFINE N == Len(recs)
           L == Len(a)
<1>0. N \in Nat /\ L \in Nat /\ DOMAIN a = 1 .. L /\ DOMAIN b = 1 .. L
  OBVIOUS
<1>1. PICK g : IsReplay(g, a, recs, N) /\ Replayed(a, recs) = g[N]
  BY <1>0, ReplayedDef
<1>2. PICK h : IsReplay(h, b, recs, N) /\ Replayed(b, recs) = h[N]
  BY <1>0, ReplayedDef
<1>3. \A n \in 1 .. N : recs[n] \in Records
  OBVIOUS
<1> HIDE DEF N, L
<1> DEFINE Rel(n) == /\ g[n] \in Seq(Slot) /\ h[n] \in Seq(Slot)
                     /\ Len(h[n]) = Len(g[n]) /\ L <= Len(g[n])
                     /\ \A i \in 1 .. Len(g[n]) :
                           /\ h[n][i].id = g[n][i].id
                           /\ h[n][i].dead = (g[n][i].dead \/ (i <= L /\ b[i].dead))
           T == {n \in Nat : n <= N => Rel(n)}
<1>4. 0 \in T
  <2>1. g[0] = a /\ h[0] = b
    BY <1>0, <1>1, <1>2 DEF IsReplay
  <2>2. \A i \in 1 .. L : b[i].dead \in BOOLEAN /\ i <= L
    BY <1>0, SlotFields
  <2>3. Rel(0)
    BY <1>0, <2>1, <2>2 DEF L
  <2> QED
    BY <2>3
<1>5. ASSUME NEW n \in Nat, n \in T PROVE n + 1 \in T
  <2> SUFFICES ASSUME n + 1 <= N PROVE Rel(n + 1)
    OBVIOUS
  <2>1. Rel(n)
    BY <1>0, <1>5
  <2>2. n + 1 \in 0 .. N /\ n + 1 \in 1 .. N /\ n + 1 # 0 /\ (n + 1) - 1 = n
    BY <1>0
  <2> DEFINE r == recs[n + 1]
             x == g[n]
             y == h[n]
  <2>3. g[n + 1] = Applied(x, r) /\ h[n + 1] = Applied(y, r)
    BY <1>1, <1>2, <2>2 DEF IsReplay
  <2>4. r.id \in Ids
    BY <1>3, <2>2 DEF Records
  <2>5. /\ x \in Seq(Slot) /\ y \in Seq(Slot) /\ Len(y) = Len(x) /\ L <= Len(x)
        /\ Len(x) \in Nat
        /\ \A i \in 1 .. Len(x) : /\ y[i].id = x[i].id
                                  /\ y[i].dead = (x[i].dead \/ (i <= L /\ b[i].dead))
    BY <2>1
  <2> HIDE DEF x, y, r
  <2>6. CASE r.op = "insert"
    <3>1. g[n + 1] = Inserted(x, r.id) /\ h[n + 1] = Inserted(y, r.id)
      BY <2>3, <2>6 DEF Applied
    <3> DEFINE u == Inserted(x, r.id)
               v == Inserted(y, r.id)
               new == [id |-> r.id, dead |-> FALSE]
    <3>2. /\ u \in Seq(Slot) /\ v \in Seq(Slot)
          /\ Len(u) = Len(x) + 1 /\ Len(v) = Len(x) + 1
          /\ \A i \in 1 .. Len(x) : u[i] = x[i] /\ v[i] = y[i]
          /\ u[Len(x) + 1] = new /\ v[Len(x) + 1] = new
      <4>1. /\ u \in Seq(Slot) /\ Len(u) = Len(x) + 1 /\ u[Len(x) + 1] = new
            /\ \A i \in 1 .. Len(x) : u[i] = x[i]
        BY <2>4, <2>5, InsertedSlots
      <4>2. /\ v \in Seq(Slot) /\ Len(v) = Len(y) + 1 /\ v[Len(y) + 1] = new
            /\ \A i \in 1 .. Len(y) : v[i] = y[i]
        BY <2>4, <2>5, InsertedSlots
      <4> HIDE DEF u, v, new
      <4> QED
        BY <2>5, <4>1, <4>2
    <3>3. new.id = r.id /\ new.dead = FALSE
      OBVIOUS
    <3> HIDE DEF u, v, new
    <3>4. ASSUME NEW i \in 1 .. Len(u)
          PROVE  v[i].id = u[i].id /\ v[i].dead = (u[i].dead \/ (i <= L /\ b[i].dead))
      <4>1. CASE i \in 1 .. Len(x)
        BY <2>5, <3>2, <4>1
      <4>2. CASE i = Len(x) + 1
        <5>1. ~(i <= L)
          BY <1>0, <2>5, <4>2
        <5> QED
          BY <3>2, <3>3, <4>2, <5>1
      <4> QED
        BY <2>5, <3>2, <4>1, <4>2
    <3>5. Len(v) = Len(u) /\ L <= Len(u)
      BY <1>0, <2>5, <3>2
    <3>6. g[n + 1] = u /\ h[n + 1] = v
      BY <3>1 DEF u, v
    <3> QED
      BY <3>2, <3>4, <3>5, <3>6
  <2>7. CASE r.op # "insert"
    <3> DEFINE u == Deleted(x, r.id)
               v == Deleted(y, r.id)
               Hit(i) == FirstWith(x, r.id, i)
    <3>1. g[n + 1] = u /\ h[n + 1] = v
      BY <2>3, <2>7 DEF Applied
    <3>2. /\ u \in Seq(Slot) /\ v \in Seq(Slot) /\ Len(u) = Len(x) /\ Len(v) = Len(x)
          /\ \A i \in 1 .. Len(x) : u[i].id = x[i].id /\ u[i].dead = (x[i].dead \/ Hit(i))
      <4>0. x \in Seq(Slot) /\ DOMAIN x = 1 .. Len(x)
        BY <2>5
      <4>1. /\ u \in Seq(Slot) /\ Len(u) = Len(x)
            /\ \A i \in DOMAIN x : u[i].id = x[i].id
            /\ \A i \in DOMAIN x : u[i].dead = (x[i].dead \/ Hit(i))
        BY <4>0, DeletedSlots
      <4>2. v \in Seq(Slot) /\ Len(v) = Len(y)
        BY <2>5, DeletedSlots
      <4> HIDE DEF u, v, Hit
      <4> QED
        BY <2>5, <4>0, <4>1, <4>2
    <3>3. \A i \in 1 .. Len(x) :
             /\ v[i].id = y[i].id
             /\ v[i].dead = (y[i].dead \/ FirstWith(y, r.id, i))
      <4> DEFINE HitY(i) == FirstWith(y, r.id, i)
      <4>0. y \in Seq(Slot) /\ DOMAIN y = 1 .. Len(x)
        BY <2>5
      <4>1. /\ \A i \in DOMAIN y : v[i].id = y[i].id
            /\ \A i \in DOMAIN y : v[i].dead = (y[i].dead \/ HitY(i))
        BY <4>0, DeletedSlots
      <4> HIDE DEF v, HitY
      <4>2. \A i \in 1 .. Len(x) : v[i].id = y[i].id /\ v[i].dead = (y[i].dead \/ HitY(i))
        BY <4>0, <4>1
      <4> QED
        BY <4>2 DEF HitY
    <3>4. ASSUME NEW i \in 1 .. Len(x) PROVE v[i].dead = (y[i].dead \/ Hit(i))
      <4>1. \A j \in 1 .. i - 1 : j \in 1 .. Len(x)
        BY <2>5
      <4>2. Hit(i) <=> FirstWith(y, r.id, i)
        BY <2>5, <4>1 DEF FirstWith
      <4> HIDE DEF Hit, v
      <4> QED
        BY <3>3, <4>2
    <3> HIDE DEF u, v, Hit
    <3>5. ASSUME NEW i \in 1 .. Len(u)
          PROVE  v[i].id = u[i].id /\ v[i].dead = (u[i].dead \/ (i <= L /\ b[i].dead))
      <4>1. i \in 1 .. Len(x)
        BY <3>2
      <4>2. v[i].id = u[i].id
        BY <2>5, <3>2, <3>3, <4>1
      <4>3. /\ v[i].dead = (y[i].dead \/ Hit(i)) /\ u[i].dead = (x[i].dead \/ Hit(i))
            /\ y[i].dead = (x[i].dead \/ (i <= L /\ b[i].dead))
        BY <2>5, <3>2, <3>4, <4>1
      <4> QED
        BY <4>2, <4>3
    <3> QED
      BY <2>5, <3>1, <3>2, <3>5
  <2> QED
    BY <2>6, <2>7
<1> HIDE DEF T
<1>6. \A n \in Nat : n \in T
  BY <1>4, <1>5, SetInduction
<1> HIDE DEF Rel
<1>7. Rel(N)
  BY <1>0, <1>6 DEF T
<1> DEFINE u == g[N]
           v == h[N]
<1>8. /\ u \in Seq(Slot) /\ v \in Seq(Slot) /\ Len(v) = Len(u) /\ L <= Len(u)
      /\ \A i \in 1 .. Len(u) : /\ v[i].id = u[i].id
                                /\ v[i].dead = (u[i].dead \/ (i <= L /\ b[i].dead))
  BY <1>7 DEF Rel
<1>9. u = Replayed(a, recs) /\ v = Replayed(b, recs) /\ L = Len(a)
  BY <1>1, <1>2 DEF L
<1> HIDE DEF u, v
<1> QED
  BY <1>8, <1>9

\* The log replayed over an index that holds some of its inserts already, and in
\* which everything the log deletes is dead.  The slots of the index stay as they
\* are; behind them come those that the log alone would make, and none of these
\* is tombstoned whose id the index has, for a delete stops at the first slot.
LEMMA ReplayedOnto ==
    ASSUME NEW s \in Seq(Slot), NEW recs \in Seq(Records),
           \A n \in DOMAIN recs : recs[n].op # "insert" => recs[n].id \notin LiveIds(s)
    PROVE  /\ Replayed(<< >>, recs) \in Seq(Slot) /\ Replayed(s, recs) \in Seq(Slot)
           /\ Len(Replayed(s, recs)) = Len(s) + Len(Replayed(<< >>, recs))
           /\ \A i \in 1 .. Len(s) : Replayed(s, recs)[i] = s[i]
           /\ \A i \in 1 .. Len(Replayed(<< >>, recs)) :
                 /\ Replayed(s, recs)[Len(s) + i].id = Replayed(<< >>, recs)[i].id
                 /\ Replayed(s, recs)[Len(s) + i].dead =
                       (/\ Replayed(<< >>, recs)[i].dead
                        /\ Replayed(<< >>, recs)[i].id \notin SlotIds(s))
<1> DEFINE N == Len(recs)
           L == Len(s)
           Known(x) == x \in SlotIds(s)
<1>0. N \in Nat /\ L \in Nat /\ DOMAIN s = 1 .. L /\ DOMAIN recs = 1 .. N
  OBVIOUS
<1>1. PICK g : IsReplay(g, << >>, recs, N) /\ Replayed(<< >>, recs) = g[N]
  BY <1>0, ReplayedDef
<1>2. PICK h : IsReplay(h, s, recs, N) /\ Replayed(s, recs) = h[N]
  BY <1>0, ReplayedDef
<1>3. \A n \in 1 .. N : recs[n] \in Records
  OBVIOUS
<1> HIDE DEF N, L, Known
<1> DEFINE Onto(t, u) == /\ t \in Seq(Slot) /\ u \in Seq(Slot) /\ Len(u) = L + Len(t)
                         /\ \A i \in 1 .. L : u[i] = s[i]
                         /\ \A i \in 1 .. Len(t) :
                               /\ u[L + i].id = t[i].id
                               /\ u[L + i].dead = (t[i].dead /\ ~Known(t[i].id))
           T == {n \in Nat : n <= N => Onto(g[n], h[n])}
<1>4. 0 \in T
  <2>1. g[0] = << >> /\ h[0] = s
    BY <1>0, <1>1, <1>2 DEF IsReplay
  <2>2. << >> \in Seq(Slot) /\ Len(<< >>) = 0 /\ 1 .. 0 = {}
    OBVIOUS
  <2>3. Onto(<< >>, s)
    BY <1>0, <2>2 DEF L
  <2> QED
    BY <2>1, <2>3
<1>5. ASSUME NEW n \in Nat, n \in T PROVE n + 1 \in T
  <2> SUFFICES ASSUME n + 1 <= N PROVE Onto(g[n + 1], h[n + 1])
    OBVIOUS
  <2>2. n + 1 \in 0 .. N /\ n + 1 \in 1 .. N /\ n + 1 # 0 /\ (n + 1) - 1 = n /\ n <= N
    BY <1>0
  <2> DEFINE r == recs[n + 1]
             t == g[n]
             u == h[n]
  <2>1. Onto(t, u)
    BY <1>5, <2>2
  <2>3. g[n + 1] = Applied(t, r) /\ h[n + 1] = Applied(u, r)
    BY <1>1, <1>2, <2>2 DEF IsReplay
  <2>4. r.id \in Ids /\ (r.op # "insert" => r.id \notin LiveIds(s))
    BY <1>0, <1>3, <2>2 DEF Records
  <2> HIDE DEF T, r, t, u
  <2>5. /\ t \in Seq(Slot) /\ u \in Seq(Slot) /\ Len(u) = L + Len(t) /\ Len(t) \in Nat
        /\ DOMAIN t = 1 .. Len(t) /\ DOMAIN u = 1 .. L + Len(t)
        /\ \A i \in 1 .. L : u[i] = s[i]
        /\ \A i \in 1 .. Len(t) : /\ u[L + i].id = t[i].id
                                  /\ u[L + i].dead = (t[i].dead /\ ~Known(t[i].id))
    BY <1>0, <2>1
  <2>6. CASE r.op = "insert"
    <3> DEFINE a == Inserted(t, r.id)
               b == Inserted(u, r.id)
               new == [id |-> r.id, dead |-> FALSE]
    <3>1. /\ a \in Seq(Slot) /\ Len(a) = Len(t) + 1 /\ a[Len(t) + 1] = new
          /\ \A i \in 1 .. Len(t) : a[i] = t[i]
      BY <2>4, <2>5, InsertedSlots
    <3>2. /\ b \in Seq(Slot) /\ Len(b) = Len(u) + 1 /\ b[Len(u) + 1] = new
          /\ \A i \in 1 .. Len(u) : b[i] = u[i]
      BY <2>4, <2>5, InsertedSlots
    <3>3. g[n + 1] = a /\ h[n + 1] = b
      BY <2>3, <2>6 DEF Applied
    <3>4. new.id = r.id /\ new.dead = FALSE
      OBVIOUS
    <3> HIDE DEF a, b, new
    <3>5. \A i \in 1 .. L : b[i] = s[i]
      BY <1>0, <2>5, <3>2
    <3>6. ASSUME NEW i \in 1 .. Len(a)
          PROVE  b[L + i].id = a[i].id /\ b[L + i].dead = (a[i].dead /\ ~Known(a[i].id))
      <4>1. CASE i \in 1 .. Len(t)
        <5>1. L + i \in 1 .. Len(u)
          BY <1>0, <2>5, <4>1
        <5> QED
          BY <2>5, <3>1, <3>2, <4>1, <5>1
      <4>2. CASE i = Len(t) + 1
        <5>1. L + i = Len(u) + 1
          BY <1>0, <2>5, <4>2
        <5> QED
          BY <3>1, <3>2, <3>4, <4>2, <5>1
      <4> QED
        BY <2>5, <3>1, <4>1, <4>2
    <3>7. Len(b) = L + Len(a)
      BY <1>0, <2>5, <3>1, <3>2
    <3> QED
      BY <3>1, <3>2, <3>3, <3>5, <3>6, <3>7
  <2>7. CASE r.op # "insert"
    <3> DEFINE a == Deleted(t, r.id)
               b == Deleted(u, r.id)
               HitT(i) == FirstWith(t, r.id, i)
               HitU(i) == FirstWith(u, r.id, i)
    <3>1. /\ a \in Seq(Slot) /\ Len(a) = Len(t)
          /\ \A i \in DOMAIN t : a[i].id = t[i].id
          /\ \A i \in DOMAIN t : a[i].dead = (t[i].dead \/ HitT(i))
      BY <2>5, DeletedSlots
    <3>2. /\ b \in Seq(Slot) /\ Len(b) = Len(u)
          /\ \A i \in DOMAIN u : b[i].id = u[i].id
          /\ \A i \in DOMAIN u : b[i].dead = (u[i].dead \/ HitU(i))
      BY <2>5, DeletedSlots
    <3>3. g[n + 1] = a /\ h[n + 1] = b
      BY <2>3, <2>7 DEF Applied
    <3>4. ASSUME NEW i \in 1 .. L PROVE HitU(i) => s[i].dead = TRUE
      <4>1. HitU(i) => s[i].id = r.id
        BY <2>5 DEF FirstWith
      <4>2. s[i].id = r.id /\ ~s[i].dead => r.id \in LiveIds(s)
        BY <1>0, LiveIdsMember
      <4>3. s[i].dead \in BOOLEAN
        BY <1>0, SlotFields
      <4> QED
        BY <2>4, <2>7, <4>1, <4>2, <4>3
    <3>5. ASSUME NEW i \in 1 .. Len(t)
          PROVE  HitU(L + i) <=> HitT(i) /\ ~Known(r.id)
      <4>1. Known(r.id) <=> \E j \in 1 .. L : s[j].id = r.id
        BY <1>0, SlotIdsMember DEF Known
      <4>2. \A j \in 1 .. L : u[j].id = s[j].id /\ j \in 1 .. (L + i) - 1
        BY <1>0, <2>5
      <4>3. \A j \in 1 .. i - 1 : u[L + j].id = t[j].id /\ L + j \in 1 .. (L + i) - 1
        BY <1>0, <2>5
      <4>4. \A j \in 1 .. (L + i) - 1 : j \in 1 .. L \/ (j - L \in 1 .. i - 1 /\ L + (j - L) = j)
        BY <1>0
      <4>5. u[L + i].id = t[i].id
        BY <2>5
      <4>6. ASSUME HitU(L + i) PROVE HitT(i) /\ ~Known(r.id)
        BY <4>1, <4>2, <4>3, <4>5, <4>6 DEF FirstWith
      <4>7. ASSUME HitT(i), ~Known(r.id) PROVE HitU(L + i)
        <5>1. \A j \in 1 .. (L + i) - 1 : u[j].id # r.id
          BY <4>1, <4>2, <4>3, <4>4, <4>7 DEF FirstWith
        <5> QED
          BY <4>5, <4>7, <5>1 DEF FirstWith
      <4> QED
        BY <4>6, <4>7
    <3>6. \A i : HitT(i) => t[i].id = r.id
      BY DEF FirstWith
    <3>8. \A i \in 1 .. L : i \in DOMAIN u
      BY <1>0, <2>5
    <3>9. \A i \in 1 .. Len(t) : i \in DOMAIN t /\ L + i \in DOMAIN u
      BY <1>0, <2>5
    <3>10. \A i \in 1 .. Len(t) : t[i].dead \in BOOLEAN
      BY <2>5, SlotFields
    <3>15. \A i : HitT(i) \in BOOLEAN /\ HitU(i) \in BOOLEAN
      BY DEF FirstWith
    <3> HIDE DEF a, b, HitT, HitU
    <3>11. ASSUME NEW i \in 1 .. L PROVE b[i] = s[i]
      <4>1. b[i].id = s[i].id
        BY <2>5, <3>2, <3>8
      <4>2. s[i] \in Slot /\ b[i] \in Slot
        BY <1>0, <2>5, <3>2, <3>8, SlotFields
      <4>3. s[i].dead \in BOOLEAN
        BY <4>2 DEF Slot
      <4>4. b[i].dead = s[i].dead
        BY <2>5, <3>2, <3>4, <3>8, <3>15, <4>3
      <4> QED
        BY <4>1, <4>2, <4>4 DEF Slot
    <3>12. ASSUME NEW i \in 1 .. Len(t)
           PROVE  b[L + i].id = a[i].id /\ b[L + i].dead = (a[i].dead /\ ~Known(a[i].id))
      <4>1. b[L + i].id = t[i].id /\ a[i].id = t[i].id
        BY <2>5, <3>1, <3>2, <3>9
      <4>2. b[L + i].dead = ((t[i].dead /\ ~Known(t[i].id)) \/ HitU(L + i))
        BY <2>5, <3>2, <3>9
      <4>3. a[i].dead = (t[i].dead \/ HitT(i))
        BY <3>1, <3>9
      <4>4. HitU(L + i) <=> HitT(i) /\ ~Known(t[i].id)
        BY <3>5, <3>6
      <4>5. b[L + i].dead = ((t[i].dead \/ HitT(i)) /\ ~Known(t[i].id))
        <5>1. ((t[i].dead /\ ~Known(t[i].id)) \/ HitU(L + i)) <=> ((t[i].dead \/ HitT(i)) /\ ~Known(t[i].id))
          BY <4>4
        <5> QED
          BY <4>2, <5>1
      <4> QED
        BY <4>1, <4>3, <4>5
    <3>13. Len(b) = L + Len(a)
      BY <2>5, <3>1, <3>2
    <3>14. Len(a) = Len(t)
      BY <3>1
    <3> QED
      BY <3>1, <3>2, <3>3, <3>11, <3>12, <3>13, <3>14
  <2> QED
    BY <2>6, <2>7
<1> HIDE DEF T
<1>6. \A n \in Nat : n \in T
  BY <1>4, <1>5, SetInduction
<1> HIDE DEF Onto
<1>7. Onto(g[N], h[N])
  BY <1>0, <1>6 DEF T
<1> DEFINE t == Replayed(<< >>, recs)
           u == Replayed(s, recs)
<1>8. Onto(t, u)
  BY <1>1, <1>2, <1>7
<1> HIDE DEF t, u
<1>9. /\ t \in Seq(Slot) /\ u \in Seq(Slot) /\ Len(u) = L + Len(t)
      /\ \A i \in 1 .. L : u[i] = s[i]
      /\ \A i \in 1 .. Len(t) : /\ u[L + i].id = t[i].id
                                /\ u[L + i].dead = (t[i].dead /\ t[i].id \notin SlotIds(s))
  BY <1>8 DEF Onto, Known
<1> QED
  BY <1>9 DEF L, t, u

LEMMA SameSeq ==
    ASSUME NEW A, NEW a \in Seq(A), NEW b \in Seq(A), Len(a) = Len(b),
           \A i \in 1 .. Len(b) : a[i] = b[i]
    PROVE  a = b
OBVIOUS

\* A version 1 file has no tombstones: load keeps those of the index it is
\* loaded into.  When these are the ones replay sets anyway, nothing changes.
LEMMA ReloadKeeps ==
    ASSUME NEW a \in Seq(Slot), NEW b \in Seq(Slot), NEW recs \in Seq(Records),
           Len(b) = Len(a),
           \A i \in DOMAIN a : b[i].id = a[i].id,
           \A i \in DOMAIN a : ~a[i].dead,
           \A i \in DOMAIN a : b[i].dead =
                (i \in DOMAIN Replayed(a, recs) /\ Replayed(a, recs)[i].dead)
    PROVE  Replayed(b, recs) = Replayed(a, recs)
<1> DEFINE L == Len(a)
           u == Replayed(a, recs)
           v == Replayed(b, recs)
<1>1. /\ u \in Seq(Slot) /\ v \in Seq(Slot) /\ Len(v) = Len(u) /\ L <= Len(u)
      /\ \A i \in 1 .. Len(u) : /\ v[i].id = u[i].id
                                /\ v[i].dead = (u[i].dead \/ (i <= L /\ b[i].dead))
  BY ReplayedOver, ZenonT(30)
<1>2. L \in Nat /\ DOMAIN a = 1 .. L /\ DOMAIN u = 1 .. Len(u) /\ Len(u) \in Nat
  BY <1>1
<1> HIDE DEF L
<1>3. \A i \in 1 .. L : b[i].dead = (i \in DOMAIN u /\ u[i].dead)
  BY <1>2
<1> HIDE DEF u, v
<1>4. ASSUME NEW i \in 1 .. L PROVE b[i].dead = u[i].dead
  <2>1. i \in 1 .. Len(u)
    BY <1>1, <1>2
  <2>2. u[i].dead \in BOOLEAN
    BY <1>1, <1>2, <2>1, SlotFields
  <2> QED
    BY <1>2, <1>3, <2>1, <2>2
<1>5. ASSUME NEW i \in 1 .. Len(u) PROVE v[i] = u[i]
  <2>1. u[i] \in Slot /\ v[i] \in Slot
    BY <1>1, SlotFields
  <2>2. v[i].dead = u[i].dead
    <3>1. u[i].dead \in BOOLEAN
      BY <2>1 DEF Slot
    <3>2. i <= L => b[i].dead = u[i].dead
      BY <1>2, <1>4
    <3> QED
      BY <1>1, <3>1, <3>2
  <2>3. /\ u[i] = [id |-> u[i].id, dead |-> u[i].dead]
        /\ v[i] = [id |-> v[i].id, dead |-> v[i].dead]
    BY <2>1 DEF Slot
  <2> QED
    BY <1>1, <2>2, <2>3
<1>6. v = u
  BY <1>1, <1>5, SameSeq
<1> QED
  BY <1>6 DEF u, v
-----------------------------------------------------------------------------
(* The inductive invariant. *)

\* Slots of ids that were inserted, each in one slot.
Sound(s) == s \in Seq(Slot) /\ IdsOnce(s) /\ SlotIds(s) \subseteq used

DurabilityType ==
    /\ used \subseteq Ids
    /\ up \in BOOLEAN
    /\ log \in Seq(Records)
    /\ pending \in Records \cup {None}
    /\ cpc \in {"idle", "copied", "saving", "saved"}

\* The operation in flight has its id, and an insert is not yet in the index.
PendingSound ==
    /\ pending # None => pending.id \in used
    /\ pending.op = "insert" => pending.id \notin SlotIds(index)

MemorySound == Sound(index) /\ (up => LiveIds(index) = live)

\* While compact or save runs, nothing is in flight, and what is saved is
\* what is live.
SaveSound ==
    /\ ~up => cpc = "idle"
    /\ cpc # "idle" => pending = None /\ Sound(Saving) /\ LiveIds(Saving) = live
    /\ cpc \in {"saving", "saved"} => nv = Len(Saving)
    /\ cpc = "saved" => file = Saved(Len(Saving), Saving)

\* The file and the log recover what was promised.  A version 1 file was never
\* written over, so that the index in memory is what it recovers.
DiskSound ==
    cpc \in {"idle", "copied"} =>
        /\ Sound(Recovered(<< >>))
        /\ LiveIds(Recovered(<< >>)) = Promised
        /\ \/ file.ver = 2
           \/ /\ file.ver = 1 /\ file.rows \in Seq(Ids) /\ file.nv = Len(file.rows)
              /\ up => Recovered(<< >>) = IF pending = None THEN index ELSE Applied(index, pending)

DInv == DurabilityType /\ PendingSound /\ MemorySound /\ SaveSound /\ DiskSound

\* The operations run one after the other, and the process dies only where
\* the file and the log on disk belong together.
Sequential == ~Concurrent /\ CrashPoints \subseteq {"idle", "copied"}

LEMMA NoneFields == None \notin Records /\ None.op = "none" /\ None.op # "insert" /\ None.op # "delete"
BY DEF None, Records

LEMMA RecordFields ==
    \A r \in Records : r.op \in {"insert", "delete"} /\ r.id \in Ids /\ r # None
BY DEF None, Records

\* The index file of version 1.
LEMMA LoadedOne ==
    ASSUME NEW f, f.ver = 1, f.rows \in Seq(Ids), f.nv = Len(f.rows), NEW old \in Seq(Slot)
    PROVE  /\ Loaded(f, old) \in Seq(Slot)
           /\ Len(Loaded(f, old)) = Len(f.rows)
           /\ DOMAIN Loaded(f, old) = 1 .. Len(f.rows)
           /\ \A i \in 1 .. Len(f.rows) :
                 /\ Loaded(f, old)[i].id = f.rows[i]
                 /\ Loaded(f, old)[i].dead = (i \in DOMAIN old /\ old[i].dead)
<1> DEFINE r == Loaded(f, old)
<1>1. DOMAIN f.rows = 1 .. Len(f.rows) /\ Len(f.rows) \in Nat /\ \A i \in 1 .. Len(f.rows) : f.rows[i] \in Ids
  OBVIOUS
<1>2. r = [i \in 1 .. Len(f.rows) |-> [id |-> f.rows[i], dead |-> Tombstone(f, old, i - 1)]]
  BY <1>1 DEF Loaded
<1>3. ASSUME NEW i \in 1 .. Len(f.rows)
      PROVE  Tombstone(f, old, i - 1) = (i \in DOMAIN old /\ old[i].dead)
  <2>1. (i - 1) + 1 = i
    BY <1>1
  <2> QED
    BY <2>1 DEF Tombstone
<1> HIDE DEF r
<1>4. ASSUME NEW i \in 1 .. Len(f.rows)
      PROVE  r[i] \in Slot /\ r[i].id = f.rows[i] /\ r[i].dead = (i \in DOMAIN old /\ old[i].dead)
  <2> DEFINE d == Tombstone(f, old, i - 1)
  <2>1. d = (i \in DOMAIN old /\ old[i].dead) /\ d \in BOOLEAN
    BY <1>3
  <2> HIDE DEF d
  <2>2. r[i] = [id |-> f.rows[i], dead |-> d]
    BY <1>2 DEF d
  <2> QED
    BY <1>1, <2>1, <2>2 DEF Slot
<1>5. r \in Seq(Slot) /\ Len(r) = Len(f.rows) /\ DOMAIN r = 1 .. Len(f.rows)
  <2> DEFINE n == Len(f.rows)
  <2>1. r = [i \in 1 .. n |-> r[i]]
    BY <1>2
  <2>2. n \in Nat /\ \A i \in 1 .. n : r[i] \in Slot
    BY <1>1, <1>4
  <2> HIDE DEF n
  <2>3. r \in [1 .. n -> Slot]
    BY <2>1, <2>2
  <2> QED
    BY <2>2, <2>3, SMTT(30) DEF n
<1> QED
  BY <1>4, <1>5 DEF r

\* A set read into a list, as the rows of the first file are.
LEMMA ListOfIds ==
    LET rows == SetToSeq(OldIds)
    IN  /\ rows \in Seq(Ids)
        /\ \A i, j \in 1 .. Len(rows) : rows[i] = rows[j] => i = j
        /\ OldIds = {rows[i] : i \in 1 .. Len(rows)}
<1> DEFINE n == Cardinality(OldIds)
           rows == SetToSeq(OldIds)
<1>1. IsFiniteSet(OldIds) /\ OldIds \subseteq Ids
  BY CrashAssumption
<1>2. n \in Nat
  BY <1>1, FS_CardinalityType
<1>3. IsFiniteSet(1 .. n) /\ Cardinality(1 .. n) = n
  BY <1>2, FS_Interval
<1>4. ExistsBijection(1 .. n, OldIds)
  BY <1>1, <1>3, FS_SameCardinalityBij
<1>5. PICK f \in [1 .. n -> OldIds] : \A a, b \in 1 .. n : f[a] = f[b] => a = b
  BY <1>4 DEF ExistsBijection, Bijection, Injection, IsInjective
<1>6. IsInjective(f)
  BY <1>5 DEF IsInjective
<1>7. rows \in [1 .. n -> OldIds] /\ IsInjective(rows)
  BY <1>5, <1>6 DEF SetToSeq
<1> HIDE DEF rows, n
<1>8. \A i, j \in 1 .. n : rows[i] = rows[j] => i = j
  BY <1>7 DEF IsInjective
<1>9. rows \in Seq(Ids) /\ Len(rows) = n
  BY <1>1, <1>2, <1>7
<1>10. rows \in Injection(1 .. n, OldIds)
  BY <1>7, <1>8 DEF Injection
<1>11. rows \in Surjection(1 .. n, OldIds)
  <2>1. Cardinality(1 .. n) = Cardinality(OldIds)
    BY <1>3 DEF n
  <2> QED
    BY <1>1, <1>10, <2>1, FS_Injection
<1>12. \A x \in OldIds : \E i \in 1 .. n : rows[i] = x
  BY <1>11 DEF Surjection
<1>13. OldIds = {rows[i] : i \in 1 .. n}
  <2>1. \A i \in 1 .. n : rows[i] \in OldIds
    BY <1>7
  <2> QED
    BY <1>12, <2>1
<1> QED
  BY <1>8, <1>9, <1>13 DEF rows

LEMMA DInvInit == Init => DInv
<1> SUFFICES ASSUME Init PROVE DInv
  OBVIOUS
<1> DEFINE rows == SetToSeq(OldIds)
<1>1. /\ rows \in Seq(Ids)
      /\ \A i, j \in 1 .. Len(rows) : rows[i] = rows[j] => i = j
      /\ OldIds = {rows[i] : i \in 1 .. Len(rows)}
  BY ListOfIds
<1> HIDE DEF rows
<1>2. file = [ver |-> 1, nv |-> Len(rows), rows |-> rows, tomb |-> << >>]
  BY DEF Init, rows
<1>3. file.ver = 1 /\ file.rows = rows /\ file.nv = Len(file.rows)
  BY <1>2
<1>4. << >> \in Seq(Slot) /\ DOMAIN << >> = {}
  OBVIOUS
<1>5. /\ index \in Seq(Slot) /\ DOMAIN index = 1 .. Len(rows)
      /\ \A i \in 1 .. Len(rows) : index[i].id = rows[i]
      /\ \A i \in 1 .. Len(rows) : index[i].dead = (i \in DOMAIN << >> /\ << >>[i].dead)
  <2>1. index = Loaded(file, << >>)
    BY DEF Init
  <2> QED
    BY <1>1, <1>3, <1>4, <2>1, LoadedOne
<1>6. \A i \in 1 .. Len(rows) : ~index[i].dead
  BY <1>4, <1>5
<1>7. IdsOnce(index) /\ SlotIds(index) = OldIds
  BY <1>1, <1>5 DEF IdsOnce, SlotIds
<1>8. LiveIds(index) = OldIds
  <2>1. \A x : x \in LiveIds(index) <=> x \in SlotIds(index)
    BY <1>5, <1>6, LiveIdsMember, SlotIdsMember
  <2> QED
    BY <1>7, <2>1
<1>9. Recovered(<< >>) = index
  BY ReplayedEmpty DEF Init, Recovered
<1>10. DurabilityType
  BY CrashAssumption DEF Init, DurabilityType
<1>11. PendingSound
  BY NoneFields DEF Init, PendingSound
<1>12. Sound(index)
  BY <1>5, <1>7 DEF Sound, Init
<1>13. MemorySound /\ SaveSound
  BY <1>8, <1>12 DEF Init, MemorySound, SaveSound
<1>14. Promised = OldIds
  BY NoneFields DEF Init, Promised
<1>15. pending = None
  BY DEF Init
<1>16. DiskSound
  BY <1>1, <1>3, <1>8, <1>9, <1>12, <1>14, <1>15 DEF DiskSound
<1> QED
  BY <1>10, <1>11, <1>13, <1>16 DEF DInv

\* An operation keeps the slots sound and does to the live ids what it promises.
LEMMA AppliedSlots ==
    ASSUME NEW s \in Seq(Slot), IdsOnce(s), NEW r \in Records,
           r.op = "insert" => r.id \notin SlotIds(s)
    PROVE  /\ Applied(s, r) \in Seq(Slot)
           /\ IdsOnce(Applied(s, r))
           /\ SlotIds(Applied(s, r)) \subseteq SlotIds(s) \cup {r.id}
           /\ SlotIds(Applied(s, r)) = IF r.op = "insert" THEN SlotIds(s) \cup {r.id}
                                       ELSE SlotIds(s)
           /\ LiveIds(Applied(s, r)) = IF r.op = "insert" THEN LiveIds(s) \cup {r.id}
                                       ELSE LiveIds(s) \ {r.id}
<1>1. CASE r.op = "insert"
  <2>1. Applied(s, r) = Inserted(s, r.id) /\ r.id \in Ids
    BY <1>1, RecordFields DEF Applied
  <2> DEFINE id == r.id
             t == Inserted(s, id)
  <2> HIDE DEF id
  <2>2. id \in Ids /\ id \notin SlotIds(s)
    BY <1>1, <2>1 DEF id
  <2>3. /\ t \in Seq(Slot) /\ IdsOnce(t) /\ SlotIds(t) = SlotIds(s) \cup {id}
        /\ LiveIds(t) = LiveIds(s) \cup {id}
    BY <2>2, InsertedSlots
  <2>4. Applied(s, r) = t
    BY <2>1 DEF id
  <2> HIDE DEF t
  <2> QED
    BY <1>1, <2>3, <2>4 DEF id
<1>2. CASE r.op # "insert"
  <2>1. Applied(s, r) = Deleted(s, r.id)
    BY <1>2 DEF Applied
  <2>2. Deleted(s, r.id) \in Seq(Slot)
    BY DeletedSlots
  <2> QED
    BY <1>2, <2>1, <2>2, DeletedIds
<1> QED
  BY <1>1, <1>2

\* An operation is logged: the log recovers it from now on.
LEMMA LogStep ==
    ASSUME Sequential, DInv, NEW id \in Ids, LogInsert(id) \/ LogDelete(id)
    PROVE  DInv'
<1> DEFINE r == [op |-> IF id \in used THEN "delete" ELSE "insert", id |-> id]
           R == Recovered(<< >>)
<1>0. DurabilityType /\ PendingSound /\ MemorySound /\ SaveSound /\ DiskSound
  BY DEF DInv
<1>1. /\ up /\ pending = None /\ cpc = "idle"
      /\ UNCHANGED <<index, live, file, cpc, whole, fresh, nv, up>>
      /\ log' = Append(log, pending')
  BY DEF Sequential, LogInsert, LogDelete, Ready, compact
<1>2. /\ live = LiveIds(R) /\ R \in Seq(Slot) /\ IdsOnce(R) /\ SlotIds(R) \subseteq used
      /\ index \in Seq(Slot) /\ IdsOnce(index) /\ SlotIds(index) \subseteq used
      /\ LiveIds(index) = live
  BY <1>0, <1>1, NoneFields DEF DiskSound, Promised, Sound, MemorySound
<1>3. live \subseteq used
  BY <1>2, LiveIdsMember, SlotIdsMember
<1>4. /\ pending' \in Records /\ pending'.id = id /\ id \in used' /\ used \subseteq used' /\ used' \subseteq Ids
      /\ pending'.op = "insert" => id \notin used
      /\ pending'.op \in {"insert", "delete"}
  <2>1. CASE LogInsert(id)
    BY <1>0, <2>1 DEF LogInsert, DurabilityType, Records
  <2>2. CASE LogDelete(id)
    BY <1>0, <1>3, <2>2 DEF LogDelete, DurabilityType, Records
  <2> QED
    BY <2>1, <2>2
<1>5. Recovered(<< >>)' = Applied(R, pending')
  <2>1. log \in Seq(Records)
    BY <1>0 DEF DurabilityType
  <2> QED
    BY <1>1, <2>1, ReplayedAppend DEF Recovered
<1>6. pending'.op = "insert" => pending'.id \notin SlotIds(R) /\ pending'.id \notin SlotIds(index)
  BY <1>2, <1>4
<1> HIDE DEF R
<1>7. /\ Applied(R, pending') \in Seq(Slot) /\ IdsOnce(Applied(R, pending'))
      /\ SlotIds(Applied(R, pending')) \subseteq SlotIds(R) \cup {id}
      /\ LiveIds(Applied(R, pending')) = IF pending'.op = "insert" THEN live \cup {id} ELSE live \ {id}
  BY <1>2, <1>4, <1>6, AppliedSlots
<1>8. DurabilityType'
  <2>1. log' \in Seq(Records)
    BY <1>0, <1>1, <1>4 DEF DurabilityType
  <2> QED
    BY <1>0, <1>1, <1>4, <2>1 DEF DurabilityType
<1>9. PendingSound'
  BY <1>1, <1>4, <1>6 DEF PendingSound
<1>10. MemorySound'
  BY <1>1, <1>2, <1>4 DEF MemorySound, Sound
<1>11. SaveSound'
  BY <1>1 DEF SaveSound
<1>12. Promised' = IF pending'.op = "insert" THEN live \cup {id} ELSE live \ {id}
  BY <1>1, <1>4 DEF Promised
<1>13. Sound(Recovered(<< >>))' /\ LiveIds(Recovered(<< >>)') = Promised'
  BY <1>2, <1>4, <1>5, <1>7, <1>12 DEF Sound
<1>14. pending' # None
  BY <1>4, RecordFields
<1>15. \/ file'.ver = 2
       \/ /\ file'.ver = 1 /\ file'.rows \in Seq(Ids) /\ file'.nv = Len(file'.rows)
          /\ Recovered(<< >>)' = Applied(index', pending')
  BY <1>0, <1>1, <1>5 DEF DiskSound, R
<1>16. DiskSound'
  BY <1>1, <1>13, <1>14, <1>15 DEF DiskSound
<1> QED
  BY <1>8, <1>9, <1>10, <1>11, <1>16 DEF DInv

\* The operation in flight takes effect in memory.
LEMMA ApplyStep ==
    ASSUME Sequential, DInv, Apply
    PROVE  DInv'
<1> DEFINE R == Recovered(<< >>)
<1>0. DurabilityType /\ PendingSound /\ MemorySound /\ SaveSound /\ DiskSound
  BY DEF DInv
<1>1. /\ up /\ pending # None /\ pending' = None /\ index' = Applied(index, pending)
      /\ live' = IF pending.op = "insert" THEN live \cup {pending.id} ELSE live \ {pending.id}
      /\ UNCHANGED <<used, file, log, cpc, whole, fresh, nv, up>>
  BY DEF Apply, disk, compact
<1>2. cpc = "idle" /\ pending \in Records /\ pending.id \in used
  BY <1>0, <1>1 DEF SaveSound, DurabilityType, PendingSound
<1>3. Recovered(<< >>)' = R
  BY <1>1 DEF Recovered
<1>4. /\ index \in Seq(Slot) /\ IdsOnce(index) /\ SlotIds(index) \subseteq used /\ LiveIds(index) = live
      /\ pending.op = "insert" => pending.id \notin SlotIds(index)
  BY <1>0, <1>1 DEF MemorySound, Sound, PendingSound
<1>5. /\ index' \in Seq(Slot) /\ IdsOnce(index') /\ SlotIds(index') \subseteq used
      /\ LiveIds(index') = live'
  BY <1>1, <1>2, <1>4, AppliedSlots
<1>6. DurabilityType'
  BY <1>0, <1>1 DEF DurabilityType
<1>7. PendingSound' /\ SaveSound'
  BY <1>1, <1>2, NoneFields DEF PendingSound, SaveSound
<1>8. MemorySound'
  BY <1>1, <1>5 DEF MemorySound, Sound
<1>9. Promised' = live' /\ Promised = live'
  BY <1>1, <1>2, NoneFields, RecordFields DEF Promised
<1>10. DiskSound'
  <2>1. /\ Sound(R) /\ LiveIds(R) = Promised
        /\ \/ file.ver = 2
           \/ /\ file.ver = 1 /\ file.rows \in Seq(Ids) /\ file.nv = Len(file.rows)
              /\ R = Applied(index, pending)
    BY <1>0, <1>1, <1>2 DEF DiskSound
  <2>2. Sound(Recovered(<< >>))'
    BY <1>1, <1>3, <2>1 DEF Sound
  <2> HIDE DEF R
  <2> QED
    BY <1>1, <1>3, <1>9, <2>1, <2>2 DEF DiskSound
<1> QED
  BY <1>6, <1>7, <1>8, <1>10 DEF DInv

\* compact copies the live slots, or the application saves the index as it is.
LEMMA CopyStep ==
    ASSUME Sequential, DInv, CompactCopy \/ AppSave
    PROVE  DInv'
<1>0. DurabilityType /\ PendingSound /\ MemorySound /\ SaveSound /\ DiskSound
  BY DEF DInv
<1>1. /\ up /\ cpc = "idle" /\ cpc' = "copied" /\ pending = None
      /\ UNCHANGED <<index, pending, used, live, file, log, up>>
  BY DEF Sequential, CompactCopy, AppSave, app, disk
<1>2. Recovered(<< >>)' = Recovered(<< >>)
  BY <1>1 DEF Recovered
<1>3. index \in Seq(Slot) /\ IdsOnce(index) /\ SlotIds(index) \subseteq used /\ LiveIds(index) = live
  BY <1>0, <1>1 DEF MemorySound, Sound
<1>4. Saving' \in Seq(Slot) /\ IdsOnce(Saving') /\ SlotIds(Saving') \subseteq used /\ LiveIds(Saving') = live
  <2>1. CASE CompactCopy
    <3>1. Saving' = LiveSlots(index)
      BY <2>1 DEF CompactCopy, Saving
    <3>2. live \subseteq used
      BY <1>3, LiveIdsMember, SlotIdsMember
    <3> QED
      BY <1>3, <3>1, <3>2, LiveSlotsCopies
  <2>2. CASE AppSave
    <3>1. Saving' = index
      BY <2>2 DEF AppSave, Saving, app
    <3> QED
      BY <1>3, <3>1
  <2> QED
    BY <2>1, <2>2
<1>5. DurabilityType' /\ PendingSound' /\ MemorySound'
  BY <1>0, <1>1 DEF DurabilityType, PendingSound, MemorySound, Sound
<1>6. SaveSound'
  BY <1>0, <1>1, <1>4 DEF SaveSound, Sound
<1>7. DiskSound'
  BY <1>0, <1>1, <1>2 DEF DiskSound, Sound, Promised
<1> QED
  BY <1>5, <1>6, <1>7 DEF DInv

LEMMA SaveStep ==
    ASSUME Sequential, DInv, SaveOpen \/ SaveDone
    PROVE  DInv'
<1>0. DurabilityType /\ PendingSound /\ MemorySound /\ SaveSound /\ DiskSound
  BY DEF DInv
<1>1. /\ up /\ cpc' \in {"saving", "saved"} /\ cpc \in {"copied", "saving"}
      /\ UNCHANGED <<index, pending, used, live, log, whole, fresh, up>>
  BY DEF SaveOpen, SaveDone, app
<1>2. Saving' = Saving
  BY <1>1 DEF Saving
<1>3. nv' = Len(Saving) /\ (cpc' = "saved" => file' = Saved(Len(Saving), Saving))
  BY <1>0, <1>1 DEF SaveOpen, SaveDone, SaveSound
<1>4. DurabilityType' /\ PendingSound' /\ MemorySound' /\ DiskSound'
  BY <1>0, <1>1 DEF DurabilityType, PendingSound, MemorySound, Sound, DiskSound
<1>5. SaveSound'
  BY <1>0, <1>1, <1>2, <1>3 DEF SaveSound, Sound
<1> QED
  BY <1>4, <1>5 DEF DInv

\* The log is truncated: the file alone holds what is live.
LEMMA CheckpointStep ==
    ASSUME Sequential, DInv, Checkpoint
    PROVE  DInv'
<1>0. DurabilityType /\ PendingSound /\ MemorySound /\ SaveSound /\ DiskSound
  BY DEF DInv
<1>1. /\ up /\ cpc = "saved" /\ cpc' = "idle" /\ log' = << >>
      /\ UNCHANGED <<index, pending, used, live, file, up>>
  BY DEF Checkpoint, app
<1>2. /\ pending = None /\ file = Saved(Len(Saving), Saving) /\ LiveIds(Saving) = live
      /\ Saving \in Seq(Slot) /\ IdsOnce(Saving) /\ SlotIds(Saving) \subseteq used
  BY <1>0, <1>1 DEF SaveSound, Sound
<1>3. Recovered(<< >>)' = Saving
  <2>1. Loaded(file, << >>) = Saving
    BY <1>2, SaveLoadExact
  <2> QED
    BY <1>1, <2>1, ReplayedEmpty DEF Recovered
<1>4. file.ver = 2
  BY <1>2 DEF Saved
<1>5. DurabilityType'
  <2>1. << >> \in Seq(Records)
    OBVIOUS
  <2> QED
    BY <1>0, <1>1, <2>1 DEF DurabilityType
<1>6. PendingSound' /\ MemorySound' /\ SaveSound'
  BY <1>0, <1>1 DEF PendingSound, MemorySound, Sound, SaveSound
<1>7. Promised' = live
  BY <1>1, <1>2, NoneFields DEF Promised
<1>8. DiskSound'
  BY <1>1, <1>2, <1>3, <1>4, <1>7 DEF DiskSound, Sound
<1> QED
  BY <1>5, <1>6, <1>8 DEF DInv

LEMMA CrashStep ==
    ASSUME Sequential, DInv, Crash
    PROVE  DInv'
<1>0. DurabilityType /\ PendingSound /\ MemorySound /\ SaveSound /\ DiskSound
  BY DEF DInv
<1>1. /\ cpc \in {"idle", "copied"} /\ cpc' = "idle" /\ up' = FALSE
      /\ UNCHANGED <<index, pending, used, live, file, log>>
  BY DEF Sequential, Crash, app, disk
<1>2. Recovered(<< >>)' = Recovered(<< >>)
  BY <1>1 DEF Recovered
<1>3. DurabilityType' /\ PendingSound' /\ MemorySound' /\ SaveSound'
  BY <1>0, <1>1 DEF DurabilityType, PendingSound, MemorySound, Sound, SaveSound
<1>4. DiskSound'
  BY <1>0, <1>1, <1>2 DEF DiskSound, Sound, Promised
<1> QED
  BY <1>3, <1>4 DEF DInv

\* Recovery puts into memory what the file and the log hold.
LEMMA RecoverStep ==
    ASSUME Sequential, DInv, Recover
    PROVE  DInv'
<1> DEFINE R == Recovered(<< >>)
<1>0. DurabilityType /\ PendingSound /\ MemorySound /\ SaveSound /\ DiskSound
  BY DEF DInv
<1>1. /\ ~up /\ up' = TRUE /\ index' = R /\ pending' = None
      /\ live' = Promised
      /\ UNCHANGED <<used, file, log, cpc, whole, fresh, nv>>
  BY DEF Recover, Promised, disk, compact
<1>2. cpc = "idle" /\ Recovered(<< >>)' = R
  BY <1>0, <1>1 DEF SaveSound, Recovered
<1>3. /\ Sound(R) /\ LiveIds(R) = Promised
      /\ \/ file.ver = 2
         \/ file.ver = 1 /\ file.rows \in Seq(Ids) /\ file.nv = Len(file.rows)
  BY <1>0, <1>2 DEF DiskSound
<1> HIDE DEF R
<1>4. DurabilityType' /\ PendingSound' /\ SaveSound'
  BY <1>0, <1>1, <1>2, NoneFields DEF DurabilityType, PendingSound, SaveSound
<1>5. MemorySound'
  BY <1>1, <1>3 DEF MemorySound, Sound
<1>6. Promised' = live'
  BY <1>1, NoneFields DEF Promised
<1>7. Sound(Recovered(<< >>))'
  BY <1>1, <1>2, <1>3 DEF Sound
<1>8. DiskSound'
  BY <1>1, <1>2, <1>3, <1>6, <1>7 DEF DiskSound
<1> QED
  BY <1>4, <1>5, <1>8 DEF DInv

\* Loading the file over the index in use, and replaying, recovers the same.
LEMMA ReloadSame ==
    ASSUME Sequential, DInv, Reload
    PROVE  index' = Recovered(<< >>)
<1> DEFINE R == Recovered(<< >>)
<1>0. DurabilityType /\ PendingSound /\ MemorySound /\ SaveSound /\ DiskSound
  BY DEF DInv
<1>1. /\ up /\ cpc = "idle" /\ pending = None /\ index' = Recovered(index)
      /\ UNCHANGED <<pending, used, live, file, log, cpc, whole, fresh, nv, up>>
  BY DEF Reload, disk, compact
<1>2. /\ Sound(R) /\ LiveIds(R) = live
      /\ \/ file.ver = 2
         \/ file.ver = 1 /\ file.rows \in Seq(Ids) /\ file.nv = Len(file.rows) /\ R = index
  BY <1>0, <1>1, NoneFields DEF DiskSound, Promised
<1>3. Recovered(index) = R
  <2>1. CASE file.ver = 2
    <3>1. Loaded(file, index) = Loaded(file, << >>)
      BY <2>1 DEF Loaded, Tombstone
    <3> QED
      BY <3>1 DEF Recovered
  <2>2. CASE file.ver = 1 /\ file.rows \in Seq(Ids) /\ file.nv = Len(file.rows) /\ R = index
    <3> DEFINE a == Loaded(file, << >>)
               b == Loaded(file, index)
               n == Len(file.rows)
    <3>1. index \in Seq(Slot) /\ << >> \in Seq(Slot) /\ log \in Seq(Records)
      BY <1>0 DEF MemorySound, Sound, DurabilityType
    <3>2. /\ a \in Seq(Slot) /\ Len(a) = n /\ DOMAIN a = 1 .. n
          /\ \A i \in 1 .. n : /\ a[i].id = file.rows[i]
                               /\ a[i].dead = (i \in DOMAIN << >> /\ << >>[i].dead)
      BY <2>2, <3>1, LoadedOne
    <3>3. /\ b \in Seq(Slot) /\ Len(b) = n
          /\ \A i \in 1 .. n : /\ b[i].id = file.rows[i]
                               /\ b[i].dead = (i \in DOMAIN index /\ index[i].dead)
      BY <2>2, <3>1, LoadedOne
    <3>4. Replayed(a, log) = index
      BY <2>2 DEF Recovered
    <3> HIDE DEF a, b, n
    <3>5. \A i \in DOMAIN a : ~a[i].dead
      <4>1. DOMAIN << >> = {}
        OBVIOUS
      <4> QED
        BY <3>2, <4>1
    <3>6. /\ Len(b) = Len(a)
          /\ \A i \in DOMAIN a : b[i].id = a[i].id
      BY <3>2, <3>3
    <3>7. \A i \in DOMAIN a : b[i].dead =
             (i \in DOMAIN Replayed(a, log) /\ Replayed(a, log)[i].dead)
      BY <3>2, <3>3, <3>4
    <3>8. Replayed(b, log) = Replayed(a, log)
      BY <3>1, <3>2, <3>3, <3>5, <3>6, <3>7, ReloadKeeps
    <3> QED
      BY <3>8 DEF Recovered, a, b
  <2> QED
    BY <1>2, <2>1, <2>2
<1> QED
  BY <1>1, <1>3

LEMMA ReloadStep ==
    ASSUME Sequential, DInv, Reload
    PROVE  DInv'
<1> DEFINE R == Recovered(<< >>)
<1>0. DurabilityType /\ PendingSound /\ MemorySound /\ SaveSound /\ DiskSound
  BY DEF DInv
<1>1. /\ up /\ cpc = "idle" /\ pending = None /\ index' = Recovered(index)
      /\ UNCHANGED <<pending, used, live, file, log, cpc, whole, fresh, nv, up>>
  BY DEF Reload, disk, compact
<1>2. /\ Sound(R) /\ LiveIds(R) = live
      /\ \/ file.ver = 2
         \/ file.ver = 1 /\ file.rows \in Seq(Ids) /\ file.nv = Len(file.rows) /\ R = index
  BY <1>0, <1>1, NoneFields DEF DiskSound, Promised
<1>3. Recovered(index) = R
  BY <1>1, ReloadSame
<1>4. Recovered(<< >>)' = R
  BY <1>1 DEF Recovered
<1> HIDE DEF R
<1>5. DurabilityType' /\ SaveSound'
  BY <1>0, <1>1 DEF DurabilityType, SaveSound
<1>6. PendingSound'
  BY <1>1, NoneFields DEF PendingSound
<1>7. MemorySound'
  BY <1>1, <1>2, <1>3 DEF MemorySound, Sound
<1>8. DiskSound'
  <2>1. Sound(Recovered(<< >>))' /\ Promised' = live
    BY <1>1, <1>2, <1>4, NoneFields DEF Sound, Promised
  <2> QED
    BY <1>1, <1>2, <1>3, <1>4, <2>1 DEF DiskSound
<1> QED
  BY <1>5, <1>6, <1>7, <1>8 DEF DInv

LEMMA DInvNext ==
    ASSUME Sequential, DInv, [Next]_vars
    PROVE  DInv'
<1>1. CASE UNCHANGED vars
  <2>1. UNCHANGED <<index, pending, used, live, file, log, cpc, whole, fresh, nv, up>>
    BY <1>1 DEF vars, app, disk, compact
  <2> QED
    BY <2>1 DEF DInv, DurabilityType, PendingSound, MemorySound, SaveSound, DiskSound,
                Sound, Saving, Promised, Recovered
<1> QED
  BY <1>1, LogStep, ApplyStep, CopyStep, SaveStep, CheckpointStep, CrashStep, RecoverStep, ReloadStep
     DEF Next

LEMMA DInvImplies ==
    ASSUME Sequential, DInv
    PROVE  Recoverable /\ MemoryAgrees
<1>1. Recoverable
  BY DEF Sequential, DInv, DiskSound, Recoverable
<1>2. MemoryAgrees
  BY DEF DInv, MemorySound, MemoryAgrees
<1> QED
  BY <1>1, <1>2

LEMMA DInvAlways ==
    ASSUME Sequential
    PROVE  Spec => []DInv
<1>1. DInv /\ [Next]_vars => DInv'
  BY DInvNext
<1> QED
  BY <1>1, DInvInit, PTL DEF Spec

\* For every set of ids and every number of tombstones in a word, loading the
\* index file and replaying the log brings back exactly what was reported done
\* and the operation in flight, over any number of compacts, saves, crashes and
\* recoveries: as long as operations do not run during compact and save, and
\* the process does not die from the opening of the file to the truncation.
THEOREM AlwaysRecoverable ==
    ASSUME Sequential
    PROVE  Spec => []Recoverable
<1>1. DInv => Recoverable
  BY DInvImplies
<1> QED
  BY <1>1, DInvAlways, PTL

\* And the index in memory answers for what was reported done, also after the
\* file was loaded over it, and also when that file is of version 1 and has no
\* tombstones.
THEOREM MemoryAlwaysAgrees ==
    ASSUME Sequential
    PROVE  Spec => []MemoryAgrees
<1>1. DInv => MemoryAgrees
  BY DInvImplies
<1> QED
  BY <1>1, DInvAlways, PTL
-----------------------------------------------------------------------------
(* The window between save and the truncation of the log. *)

LoggedDeletes == {log[n].id : n \in {m \in DOMAIN log : log[m].op # "insert"}}

\* The log without the file: no id twice, nothing live that is not promised.
\* What it deletes is not promised; what it inserts is in the index, or in
\* flight, and in what the file and the log recover.
LogSound ==
    /\ Sound(Replayed(<< >>, log))
    /\ LiveIds(Replayed(<< >>, log)) \subseteq Promised
    /\ SlotIds(Replayed(<< >>, log)) = LoggedInserts
    /\ LoggedDeletes \subseteq used /\ LoggedDeletes \cap Promised = {}
    /\ LoggedInserts \subseteq SlotIds(index) \cup {pending.id}
    /\ pending.op # "insert" => LoggedInserts \subseteq SlotIds(index)
    /\ cpc \in {"idle", "copied"} => LoggedInserts \subseteq SlotIds(Recovered(<< >>))
    /\ cpc # "idle" /\ ~whole => SlotIds(fresh) = live

LEMMA LogSoundInit == Init => LogSound
<1> SUFFICES ASSUME Init PROVE LogSound
  OBVIOUS
<1>1. log = << >> /\ DOMAIN << >> = {} /\ Replayed(<< >>, << >>) = << >> /\ cpc = "idle"
  BY ReplayedEmpty DEF Init
<1>2. << >> \in Seq(Slot) /\ IdsOnce(<< >>) /\ SlotIds(<< >>) = {} /\ LiveIds(<< >>) = {}
  BY <1>1 DEF IdsOnce, SlotIds, LiveIds
<1>3. LoggedInserts = {} /\ LoggedDeletes = {}
  BY <1>1 DEF LoggedInserts, LoggedDeletes
<1> QED
  BY <1>1, <1>2, <1>3 DEF LogSound, Sound

\* One more record in the log.
LEMMA LoggedMore ==
    ASSUME NEW r, log \in Seq(Records), log' = Append(log, r), r \in Records
    PROVE  /\ LoggedInserts' = IF r.op = "insert" THEN LoggedInserts \cup {r.id} ELSE LoggedInserts
           /\ LoggedDeletes' = IF r.op = "insert" THEN LoggedDeletes ELSE LoggedDeletes \cup {r.id}
<1> DEFINE n == Len(log)
<1>1. /\ n \in Nat /\ DOMAIN log = 1 .. n /\ DOMAIN log' = 1 .. n + 1 /\ log'[n + 1] = r
      /\ \A i \in 1 .. n : log'[i] = log[i]
  OBVIOUS
<1> HIDE DEF n
<1>2. \A i \in 1 .. n + 1 : i \in 1 .. n \/ i = n + 1
  BY <1>1
<1>3. \A i \in 1 .. n : i \in 1 .. n + 1
  BY <1>1
<1>4. n + 1 \in 1 .. n + 1
  BY <1>1
<1>5. \A x : x \in LoggedInserts <=> \E i \in 1 .. n : log[i].op = "insert" /\ log[i].id = x
  BY <1>1 DEF LoggedInserts
<1>6. \A x : x \in LoggedInserts' <=> \E i \in 1 .. n + 1 : log'[i].op = "insert" /\ log'[i].id = x
  BY <1>1 DEF LoggedInserts
<1>7. \A x : x \in LoggedDeletes <=> \E i \in 1 .. n : log[i].op # "insert" /\ log[i].id = x
  BY <1>1 DEF LoggedDeletes
<1>8. \A x : x \in LoggedDeletes' <=> \E i \in 1 .. n + 1 : log'[i].op # "insert" /\ log'[i].id = x
  BY <1>1 DEF LoggedDeletes
<1>9. \A x : x \in LoggedInserts' <=> (x \in LoggedInserts \/ (r.op = "insert" /\ x = r.id))
  BY <1>1, <1>2, <1>3, <1>4, <1>5, <1>6
<1>10. \A x : x \in LoggedDeletes' <=> (x \in LoggedDeletes \/ (r.op # "insert" /\ x = r.id))
  BY <1>1, <1>2, <1>3, <1>4, <1>7, <1>8
<1>11. LoggedInserts' = IF r.op = "insert" THEN LoggedInserts \cup {r.id} ELSE LoggedInserts
  BY <1>9
<1>12. LoggedDeletes' = IF r.op = "insert" THEN LoggedDeletes ELSE LoggedDeletes \cup {r.id}
  <2>1. CASE r.op = "insert"
    BY <1>10, <2>1
  <2>2. CASE r.op # "insert"
    BY <1>10, <2>2
  <2> QED
    BY <2>1, <2>2
<1> QED
  BY <1>11, <1>12

LEMMA LogSoundLog ==
    ASSUME Sequential, DInv, LogSound, NEW id \in Ids, LogInsert(id) \/ LogDelete(id)
    PROVE  LogSound'
<1> DEFINE A == Replayed(<< >>, log)
           R == Recovered(<< >>)
<1>0. DurabilityType /\ PendingSound /\ MemorySound /\ SaveSound /\ DiskSound
  BY DEF DInv
<1>1. /\ up /\ pending = None /\ cpc = "idle"
      /\ UNCHANGED <<index, live, file, cpc, whole, fresh, nv, up>>
      /\ log' = Append(log, pending')
  BY DEF Sequential, LogInsert, LogDelete, Ready, compact
<1>2. /\ live = LiveIds(R) /\ R \in Seq(Slot) /\ IdsOnce(R) /\ SlotIds(R) \subseteq used
      /\ Promised = live
  BY <1>0, <1>1, NoneFields DEF DiskSound, Promised, Sound
<1>3. live \subseteq used
  BY <1>2, LiveIdsMember, SlotIdsMember
<1>4. /\ pending' \in Records /\ pending'.id = id /\ id \in used' /\ used \subseteq used'
      /\ pending'.op = "insert" => id \notin used
      /\ pending'.op \in {"insert", "delete"}
  <2>1. CASE LogInsert(id)
    BY <2>1 DEF LogInsert, Records
  <2>2. CASE LogDelete(id)
    BY <1>3, <2>2 DEF LogDelete, Records
  <2> QED
    BY <2>1, <2>2
<1>5. Replayed(<< >>, log)' = Applied(A, pending') /\ Recovered(<< >>)' = Applied(R, pending')
  <2>1. log \in Seq(Records)
    BY <1>0 DEF DurabilityType
  <2> QED
    BY <1>1, <2>1, ReplayedAppend DEF Recovered
<1>6. /\ A \in Seq(Slot) /\ IdsOnce(A) /\ SlotIds(A) \subseteq used /\ LiveIds(A) \subseteq live
      /\ SlotIds(A) = LoggedInserts
      /\ LoggedDeletes \subseteq used /\ LoggedDeletes \cap live = {}
      /\ LoggedInserts \subseteq SlotIds(index) /\ LoggedInserts \subseteq SlotIds(R)
  BY <1>1, <1>2, NoneFields DEF LogSound, Sound
<1> HIDE DEF A, R
<1>7. pending'.op = "insert" => pending'.id \notin SlotIds(A) /\ pending'.id \notin SlotIds(R)
  BY <1>2, <1>4, <1>6
<1>8. /\ Applied(A, pending') \in Seq(Slot) /\ IdsOnce(Applied(A, pending'))
      /\ SlotIds(Applied(A, pending')) = IF pending'.op = "insert" THEN SlotIds(A) \cup {id} ELSE SlotIds(A)
      /\ LiveIds(Applied(A, pending')) = IF pending'.op = "insert" THEN LiveIds(A) \cup {id}
                                         ELSE LiveIds(A) \ {id}
  BY <1>4, <1>6, <1>7, AppliedSlots
<1>9. SlotIds(Applied(R, pending')) = IF pending'.op = "insert" THEN SlotIds(R) \cup {id} ELSE SlotIds(R)
  BY <1>2, <1>4, <1>7, AppliedSlots
<1>10. /\ LoggedInserts' = IF pending'.op = "insert" THEN LoggedInserts \cup {id} ELSE LoggedInserts
       /\ LoggedDeletes' = IF pending'.op = "insert" THEN LoggedDeletes ELSE LoggedDeletes \cup {id}
  BY <1>0, <1>1, <1>4, LoggedMore DEF DurabilityType
<1>11. Promised' = IF pending'.op = "insert" THEN live \cup {id} ELSE live \ {id}
  BY <1>1, <1>4 DEF Promised
<1>12. /\ Sound(Replayed(<< >>, log))'
       /\ LiveIds(Replayed(<< >>, log))' \subseteq Promised'
       /\ SlotIds(Replayed(<< >>, log))' = LoggedInserts'
  <2>1. SlotIds(Applied(A, pending')) \subseteq used'
    BY <1>4, <1>6, <1>8
  <2>2. LiveIds(Applied(A, pending')) \subseteq Promised'
    BY <1>4, <1>6, <1>8, <1>11
  <2>3. SlotIds(Applied(A, pending')) = LoggedInserts'
    BY <1>4, <1>6, <1>8, <1>10
  <2> QED
    BY <1>5, <1>8, <2>1, <2>2, <2>3 DEF Sound
<1>13. LoggedDeletes' \subseteq used' /\ LoggedDeletes' \cap Promised' = {}
  BY <1>4, <1>6, <1>10, <1>11
<1>14. /\ LoggedInserts' \subseteq SlotIds(index)' \cup {pending'.id}
       /\ pending'.op # "insert" => LoggedInserts' \subseteq SlotIds(index)'
       /\ LoggedInserts' \subseteq SlotIds(Recovered(<< >>)')
  BY <1>1, <1>4, <1>5, <1>6, <1>9, <1>10
<1> QED
  BY <1>1, <1>12, <1>13, <1>14 DEF LogSound

LEMMA LogSoundApply ==
    ASSUME Sequential, DInv, LogSound, Apply
    PROVE  LogSound'
<1>0. DurabilityType /\ PendingSound /\ MemorySound /\ SaveSound /\ DiskSound
  BY DEF DInv
<1>1. /\ up /\ pending # None /\ pending' = None /\ index' = Applied(index, pending)
      /\ live' = IF pending.op = "insert" THEN live \cup {pending.id} ELSE live \ {pending.id}
      /\ UNCHANGED <<used, file, log, cpc, whole, fresh, nv, up>>
  BY DEF Apply, disk, compact
<1>2. cpc = "idle" /\ pending \in Records
  BY <1>0, <1>1 DEF SaveSound, DurabilityType
<1>3. /\ index \in Seq(Slot) /\ IdsOnce(index)
      /\ pending.op = "insert" => pending.id \notin SlotIds(index)
  BY <1>0 DEF MemorySound, Sound, PendingSound
<1>4. SlotIds(index') = IF pending.op = "insert" THEN SlotIds(index) \cup {pending.id} ELSE SlotIds(index)
  BY <1>1, <1>2, <1>3, AppliedSlots
<1>5. LoggedInserts' \subseteq SlotIds(index')
  BY <1>1, <1>4 DEF LogSound, LoggedInserts
<1>6. Promised' = Promised
  BY <1>1, <1>2, NoneFields, RecordFields DEF Promised
<1>7. /\ LoggedInserts' = LoggedInserts /\ LoggedDeletes' = LoggedDeletes
      /\ Replayed(<< >>, log)' = Replayed(<< >>, log) /\ Recovered(<< >>)' = Recovered(<< >>)
  BY <1>1 DEF LoggedInserts, LoggedDeletes, Recovered
<1>8. SlotIds(index)' = SlotIds(index')
  OBVIOUS
<1> QED
  BY <1>1, <1>2, <1>5, <1>6, <1>7, <1>8 DEF LogSound, Sound

LEMMA LogSoundCopy ==
    ASSUME Sequential, DInv, LogSound, CompactCopy \/ AppSave
    PROVE  LogSound'
<1>0. MemorySound
  BY DEF DInv
<1>1. /\ up /\ cpc = "idle" /\ cpc' = "copied"
      /\ UNCHANGED <<index, pending, used, live, file, log, up>>
  BY DEF CompactCopy, AppSave, app, disk
<1>2. ~whole' => SlotIds(fresh') = live
  <2>1. CASE CompactCopy
    <3>1. index \in Seq(Slot) /\ IdsOnce(index) /\ LiveIds(index) = live
      BY <1>0, <1>1 DEF MemorySound, Sound
    <3> QED
      BY <2>1, <3>1, LiveSlotsCopies DEF CompactCopy
  <2>2. CASE AppSave
    BY <2>2 DEF AppSave
  <2> QED
    BY <2>1, <2>2
<1>3. /\ LoggedInserts' = LoggedInserts /\ LoggedDeletes' = LoggedDeletes /\ Promised' = Promised
      /\ Replayed(<< >>, log)' = Replayed(<< >>, log) /\ Recovered(<< >>)' = Recovered(<< >>)
      /\ SlotIds(index)' = SlotIds(index) /\ SlotIds(fresh)' = SlotIds(fresh')
  BY <1>1 DEF LoggedInserts, LoggedDeletes, Recovered, Promised
<1> QED
  BY <1>1, <1>2, <1>3 DEF LogSound, Sound

LEMMA LogSoundSave ==
    ASSUME LogSound, SaveOpen \/ SaveDone \/ Crash,
           Sequential
    PROVE  LogSound'
<1>1. /\ \/ cpc' \in {"saving", "saved"}
         \/ cpc' = "idle" /\ cpc \in {"idle", "copied"} /\ file' = file
      /\ cpc' # "idle" => cpc # "idle" /\ fresh' = fresh
      /\ UNCHANGED <<index, pending, used, live, log, whole>>
  <2>1. CASE SaveOpen
    BY <2>1 DEF SaveOpen, app
  <2>2. CASE SaveDone
    BY <2>2 DEF SaveDone, app
  <2>3. CASE Crash
    <3>1. cpc \in {"idle", "copied"}
      BY <2>3 DEF Crash, Sequential
    <3> QED
      BY <2>3, <3>1 DEF Crash, app, disk
  <2> QED
    BY <2>1, <2>2, <2>3
<1>2. /\ LoggedInserts' = LoggedInserts /\ LoggedDeletes' = LoggedDeletes /\ Promised' = Promised
      /\ Replayed(<< >>, log)' = Replayed(<< >>, log)
      /\ file' = file => Recovered(<< >>)' = Recovered(<< >>)
      /\ SlotIds(index)' = SlotIds(index) /\ SlotIds(fresh)' = SlotIds(fresh')
  BY <1>1 DEF LoggedInserts, LoggedDeletes, Recovered, Promised
<1> QED
  BY <1>1, <1>2 DEF LogSound, Sound

LEMMA LogSoundCheckpoint ==
    ASSUME Checkpoint
    PROVE  LogSound'
<1>1. log' = << >> /\ DOMAIN << >> = {} /\ Replayed(<< >>, log)' = << >> /\ cpc' = "idle"
  BY ReplayedEmpty DEF Checkpoint
<1>2. << >> \in Seq(Slot) /\ IdsOnce(<< >>) /\ SlotIds(<< >>) = {} /\ LiveIds(<< >>) = {}
  BY <1>1 DEF IdsOnce, SlotIds, LiveIds
<1>3. LoggedInserts' = {} /\ LoggedDeletes' = {}
  BY <1>1 DEF LoggedInserts, LoggedDeletes
<1> QED
  BY <1>1, <1>2, <1>3 DEF LogSound, Sound

\* The index becomes what the file and the log recover, or stays as it is.
LEMMA LogSoundRecover ==
    ASSUME Sequential, DInv, LogSound, Recover \/ Reload
    PROVE  LogSound'
<1>0. DInv'
  BY RecoverStep, ReloadStep
<1>1. /\ cpc = "idle" /\ cpc' = "idle" /\ pending' = None /\ Promised' = Promised
      /\ UNCHANGED <<used, file, log>>
  <2>1. CASE Recover
    <3>1. cpc = "idle"
      BY <2>1 DEF Recover, DInv, SaveSound
    <3> QED
      BY <2>1, <3>1, NoneFields DEF Recover, disk, compact, Promised
  <2>2. CASE Reload
    BY <2>2 DEF Reload, disk, compact, Promised
  <2> QED
    BY <2>1, <2>2
<1>2. /\ LoggedInserts' = LoggedInserts /\ LoggedDeletes' = LoggedDeletes
      /\ Replayed(<< >>, log)' = Replayed(<< >>, log) /\ Recovered(<< >>)' = Recovered(<< >>)
  BY <1>1 DEF LoggedInserts, LoggedDeletes, Recovered
<1>3. LoggedInserts \subseteq SlotIds(index')
  <2>1. CASE Recover
    BY <1>1, <2>1 DEF Recover, LogSound
  <2>2. CASE Reload
    BY <1>1, <2>2, ReloadSame DEF LogSound
  <2> QED
    BY <2>1, <2>2
<1>4. SlotIds(index)' = SlotIds(index')
  OBVIOUS
<1> QED
  BY <1>1, <1>2, <1>3, <1>4, NoneFields DEF LogSound, Sound

LEMMA LogSoundNext ==
    ASSUME Sequential, DInv, LogSound, [Next]_vars
    PROVE  LogSound'
<1>1. CASE UNCHANGED vars
  <2>1. UNCHANGED <<index, pending, used, live, file, log, cpc, whole, fresh>>
    BY <1>1 DEF vars, app, disk, compact
  <2> QED
    BY <2>1 DEF LogSound, Sound, Promised, Recovered, LoggedInserts, LoggedDeletes
<1> QED
  BY <1>1, LogSoundLog, LogSoundApply, LogSoundCopy, LogSoundSave, LogSoundCheckpoint, LogSoundRecover
     DEF Next

LEMMA WindowSound ==
    ASSUME Sequential, DInv, LogSound
    PROVE  WindowRecovery
<1> SUFFICES ASSUME cpc = "saved"
             PROVE  /\ LiveIds(Recovered(<< >>)) = IF whole THEN live \cup LoggedInserts ELSE live
                    /\ \A i, j \in DOMAIN Recovered(<< >>) :
                         (/\ ~Recovered(<< >>)[i].dead /\ ~Recovered(<< >>)[j].dead
                          /\ Recovered(<< >>)[i].id = Recovered(<< >>)[j].id /\ i # j)
                           => Recovered(<< >>)[i].id \in LoggedInserts
  BY DEF WindowRecovery
<1> DEFINE s == Saving
           t == Replayed(<< >>, log)
           u == Recovered(<< >>)
           L == Len(s)
<1>1. /\ pending = None /\ s \in Seq(Slot) /\ IdsOnce(s) /\ LiveIds(s) = live
      /\ file = Saved(Len(s), s) /\ log \in Seq(Records)
      /\ ~whole => SlotIds(s) = live
      /\ whole => s = index
  BY DEF DInv, SaveSound, Sound, LogSound, DurabilityType, Saving
<1>2. Promised = live
  BY <1>1, NoneFields DEF Promised
<1>3. /\ LiveIds(t) \subseteq live /\ SlotIds(t) = LoggedInserts
      /\ LoggedDeletes \cap live = {} /\ LoggedInserts \subseteq SlotIds(index)
  BY <1>1, <1>2, NoneFields DEF LogSound
<1>4. u = Replayed(s, log)
  BY <1>1, SaveLoadExact DEF Recovered
<1>5. \A n \in DOMAIN log : log[n].op # "insert" => log[n].id \notin LiveIds(s)
  BY <1>1, <1>3 DEF LoggedDeletes
<1> HIDE DEF s, t, u
<1>6. /\ t \in Seq(Slot) /\ u \in Seq(Slot) /\ Len(u) = Len(s) + Len(t)
      /\ \A i \in 1 .. Len(s) : u[i] = s[i]
      /\ \A i \in 1 .. Len(t) : /\ u[Len(s) + i].id = t[i].id
                                /\ u[Len(s) + i].dead = (t[i].dead /\ t[i].id \notin SlotIds(s))
  <2> USE DEF t
  <2> QED
    BY <1>1, <1>4, <1>5, ReplayedOnto
<1>7. /\ L \in Nat /\ Len(t) \in Nat /\ DOMAIN s = 1 .. L /\ DOMAIN t = 1 .. Len(t)
      /\ DOMAIN u = 1 .. L + Len(t)
  BY <1>1, <1>6
<1> HIDE DEF L
<1>8. \A i \in DOMAIN u : i \in 1 .. L \/ \E k \in 1 .. Len(t) : i = L + k
  <2> SUFFICES ASSUME NEW i \in DOMAIN u, i \notin 1 .. L
               PROVE  \E k \in 1 .. Len(t) : i = L + k
    OBVIOUS
  <2>1. i - L \in 1 .. Len(t) /\ i = L + (i - L)
    BY <1>7
  <2> QED
    BY <2>1
<1>9. (\A i \in 1 .. L : i \in DOMAIN u) /\ (\A k \in 1 .. Len(t) : L + k \in DOMAIN u)
  BY <1>7
<1>10. LiveIds(u) = IF whole THEN live \cup LoggedInserts ELSE live
  <2>1. ASSUME NEW x \in LiveIds(u)
        PROVE  x \in live \/ (x \in LoggedInserts /\ x \in SlotIds(s))
    <3>1. PICK i \in DOMAIN u : ~u[i].dead /\ u[i].id = x
      BY LiveIdsMember
    <3>2. CASE i \in 1 .. L
      BY <1>1, <1>6, <1>7, <3>1, <3>2, LiveIdsMember DEF L
    <3>3. CASE \E k \in 1 .. Len(t) : i = L + k
      <4>1. PICK k \in 1 .. Len(t) : i = L + k
        BY <3>3
      <4>2. t[k].id = x /\ (~t[k].dead \/ x \in SlotIds(s))
        BY <1>6, <3>1, <4>1 DEF L
      <4>3. x \in SlotIds(t)
        BY <1>7, <4>2, SlotIdsMember
      <4>4. CASE ~t[k].dead
        <5>1. x \in LiveIds(t)
          BY <1>7, <4>2, <4>4, LiveIdsMember
        <5> QED
          BY <1>3, <5>1
      <4> QED
        BY <1>3, <4>2, <4>3, <4>4
    <3> QED
      BY <1>8, <3>2, <3>3
  <2>2. ASSUME NEW x \in live PROVE x \in LiveIds(u)
    <3>1. PICK i \in 1 .. L : ~s[i].dead /\ s[i].id = x
      BY <1>1, <1>7, LiveIdsMember
    <3>2. i \in DOMAIN u /\ u[i] = s[i]
      BY <1>6, <1>9 DEF L
    <3> QED
      BY <3>1, <3>2, LiveIdsMember
  <2>3. ASSUME whole, NEW x \in LoggedInserts PROVE x \in LiveIds(u)
    <3>1. x \in SlotIds(s)
      BY <1>1, <1>3, <2>3
    <3>2. PICK k \in 1 .. Len(t) : t[k].id = x
      BY <1>3, <1>7, SlotIdsMember
    <3>3. u[L + k].id = x /\ u[L + k].dead = FALSE
      BY <1>6, <3>1, <3>2 DEF L
    <3> QED
      BY <1>9, <3>3, LiveIdsMember
  <2>4. CASE whole
    BY <2>1, <2>2, <2>3, <2>4
  <2>5. CASE ~whole
    BY <1>1, <2>1, <2>2, <2>5
  <2> QED
    BY <2>4, <2>5
<1>11. ASSUME NEW i \in DOMAIN u, NEW j \in DOMAIN u, u[i].id = u[j].id, i # j
       PROVE  u[i].id \in LoggedInserts
  <2>1. \A k \in 1 .. Len(t) : u[L + k].id \in SlotIds(t)
    BY <1>6, <1>7, SlotIdsMember DEF L
  <2>2. CASE i \in 1 .. L /\ j \in 1 .. L
    <3>1. s[i].id = s[j].id
      BY <1>6, <1>11, <2>2 DEF L
    <3> QED
      BY <1>1, <1>7, <1>11, <2>2, <3>1 DEF IdsOnce
  <2> QED
    BY <1>3, <1>8, <1>11, <2>1, <2>2
<1> QED
  BY <1>10, <1>11 DEF u

\* Under the same condition, and in every state between the end of save and the
\* truncation of the log: recovery loses nothing that was reported done, after
\* compact nothing else comes back, and after a save of the live index exactly
\* the vectors whose insert is still in the log do.
THEOREM AlwaysWindowRecovery ==
    ASSUME Sequential
    PROVE  Spec => []WindowRecovery
<1>1. DInv /\ LogSound /\ [Next]_vars => LogSound'
  BY LogSoundNext
<1>2. DInv /\ LogSound => WindowRecovery
  BY WindowSound
<1> QED
  BY <1>1, <1>2, DInvAlways, LogSoundInit, PTL DEF Spec
=============================================================================
