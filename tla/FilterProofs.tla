---------------------------- MODULE FilterProofs ----------------------------
(***************************************************************************)
(* For which where clauses evaluate_filter decides what the clause means,  *)
(* for every metadata and every value without NaN.                         *)
(***************************************************************************)
EXTENDS Filter, FiniteSetTheorems, TLAPS

\* A JSON value other than NaN.
Plain(v) ==
    /\ v = <<v[1], v[2]>>
    /\ v[1] \in {"num", "str", "other", "arr", "obj"}
    /\ v[1] \in {"num", "str"} => v[2] \in Int

\* A value of a clause: a plain one, with plain elements if it is a list.
Operand(g) == Plain(g) /\ (Type(g) = "arr" => \A i \in DOMAIN g[2] : Plain(g[2][i]))

\* Metadata: no JSON, or an object of plain values, or any other plain value.
Metadata(m) ==
    \/ m = Unparseable
    \/ Plain(m) /\ (Type(m) = "obj" => \A f \in DOMAIN m[2] : Plain(m[2][f]))

Ordered(f, g) == Type(f) = Type(g) /\ Type(f) \in {"num", "str"}
Upper == {"$lt", "$lte"}
Lower == {"$gt", "$gte"}

\* Every upper bound of a field comes with a lower bound of its type.
Guarded(spec) ==
    \A op \in Upper \cap DOMAIN spec :
        \E lo \in Lower \cap DOMAIN spec : Ordered(spec[lo], spec[op])

\* A clause that parse_where accepts, whose ranges have two ends.
Clause(w) ==
    /\ Type(w) = "obj" => \A f \in DOMAIN w[2] :
          IF Type(w[2][f]) = "obj"
          THEN /\ \A op \in DOMAIN w[2][f][2] : Operand(w[2][f][2][op])
               /\ Guarded(w[2][f][2])
          ELSE Operand(w[2][f])
    /\ ~Rejected(w)

Doubles == \A i \in Int : ToDouble(i) \in Int
-----------------------------------------------------------------------------
(* json_compare is 0 exactly for values that are the same. *)
LEMMA CompareZero ==
    ASSUME Doubles, NEW f, NEW g, Plain(f), Plain(g)
    PROVE  json_compare(f, g) = 0 <=> Same(f, g)
<1>1. f # NaN /\ g # NaN /\ NaN \notin {f, g}
  BY DEF Plain, NaN
<1>2. CASE Type(f) = "num" /\ Type(g) = "num"
  <2>1. f[2] \in Int /\ g[2] \in Int /\ ToDouble(f[2]) \in Int /\ ToDouble(g[2]) \in Int
    BY <1>2 DEF Plain, Type, Doubles
  <2>2. json_compare(f, g) = Sign(ToDouble(f[2]), ToDouble(g[2]))
    BY <1>1, <1>2 DEF json_compare, IsNum
  <2>3. Same(f, g) <=> ToDouble(f[2]) = ToDouble(g[2])
    BY <1>1, <1>2 DEF Same
  <2> QED
    BY <2>1, <2>2, <2>3 DEF Sign
<1>3. CASE Type(f) = "str" /\ Type(g) = "str"
  <2>1. f[2] \in Int /\ g[2] \in Int
    BY <1>3 DEF Plain, Type
  <2>2. json_compare(f, g) = Sign(f[2], g[2])
    BY <1>3 DEF json_compare, IsNum
  <2>3. Same(f, g) <=> f[2] = g[2]
    BY <1>1, <1>3 DEF Same, Plain, Type
  <2> QED
    BY <2>1, <2>2, <2>3 DEF Sign
<1>4. CASE ~(Type(f) = "num" /\ Type(g) = "num") /\ ~(Type(f) = "str" /\ Type(g) = "str")
  <2>1. json_compare(f, g) = CompareMixed(f, g)
    BY <1>4 DEF json_compare, IsNum, Plain, Type
  <2>2. Same(f, g) <=> f = g
    BY <1>1, <1>4 DEF Same
  <2> QED
    BY <1>1, <2>1, <2>2 DEF CompareMixed, Dump
<1> QED
  BY <1>2, <1>3, <1>4

(* json_compare is positive exactly for a field above the value. *)
LEMMA CompareAbove ==
    ASSUME Doubles, NEW f, NEW g, Plain(f), Plain(g)
    PROVE  /\ json_compare(f, g) \in {-1, 0, 1}
           /\ json_compare(f, g) = 1 <=> Below(g, f)
           /\ Ordered(f, g) => (json_compare(f, g) = -1 <=> Below(f, g))
           /\ Below(f, g) => Ordered(f, g) /\ json_compare(f, g) = -1
<1>1. NaN \notin {f, g}
  BY DEF Plain, NaN
<1>2. CASE Type(f) = "num" /\ Type(g) = "num"
  <2>1. f[2] \in Int /\ g[2] \in Int /\ ToDouble(f[2]) \in Int /\ ToDouble(g[2]) \in Int
    BY <1>2 DEF Plain, Type, Doubles
  <2>2. json_compare(f, g) = Sign(ToDouble(f[2]), ToDouble(g[2]))
    BY <1>1, <1>2 DEF json_compare, IsNum
  <2>3. /\ Below(g, f) <=> ToDouble(g[2]) < ToDouble(f[2])
        /\ Below(f, g) <=> ToDouble(f[2]) < ToDouble(g[2])
        /\ Ordered(f, g)
    BY <1>2 DEF Below, Ordered
  <2> QED
    BY <2>1, <2>2, <2>3 DEF Sign
<1>3. CASE Type(f) = "str" /\ Type(g) = "str"
  <2>1. f[2] \in Int /\ g[2] \in Int
    BY <1>3 DEF Plain, Type
  <2>2. json_compare(f, g) = Sign(f[2], g[2])
    BY <1>3 DEF json_compare, IsNum
  <2>3. /\ Below(g, f) <=> g[2] < f[2]
        /\ Below(f, g) <=> f[2] < g[2]
        /\ Ordered(f, g)
    BY <1>3 DEF Below, Ordered
  <2> QED
    BY <2>1, <2>2, <2>3 DEF Sign
<1>4. CASE ~(Type(f) = "num" /\ Type(g) = "num") /\ ~(Type(f) = "str" /\ Type(g) = "str")
  <2>1. json_compare(f, g) = CompareMixed(f, g)
    BY <1>4 DEF json_compare, IsNum, Plain, Type
  <2>2. ~Below(g, f) /\ ~Below(f, g) /\ ~Ordered(f, g)
    BY <1>4 DEF Below, Ordered
  <2>3. CompareMixed(f, g) \in {-1, 0}
    BY DEF CompareMixed
  <2> QED
    BY <2>1, <2>2, <2>3
<1> QED
  BY <1>2, <1>3, <1>4

(* Every operator of apply_op, given a field and a value of any types, decides
   what it is documented to mean, except that $lt and $lte need values of one
   ordered type. *)
THEOREM OperatorsMean ==
    ASSUME Doubles, NEW op \in FilterOps, NEW f, NEW g, Plain(f), Operand(g),
           op \in Upper => Ordered(f, g)
    PROVE  apply_op(f, op, g) <=> Satisfies(f, op, g)
<1>1. Plain(g)
  BY DEF Operand
<1>2. json_compare(f, g) = 0 <=> Same(f, g)
  BY <1>1, CompareZero
<1>3. /\ json_compare(f, g) \in {-1, 0, 1}
      /\ json_compare(f, g) = 1 <=> Below(g, f)
      /\ Ordered(f, g) => (json_compare(f, g) = -1 <=> Below(f, g))
  BY <1>1, CompareAbove
<1>4. CASE op \in {"$eq", "$ne"}
  BY <1>2, <1>4 DEF apply_op, Satisfies
<1>5. CASE op \in {"$gt", "$gte"}
  <2>1. /\ json_compare(f, g) > 0 <=> json_compare(f, g) = 1
        /\ json_compare(f, g) >= 0 <=> json_compare(f, g) \in {0, 1}
    BY <1>3
  <2> QED
    BY <1>2, <1>3, <1>5, <2>1 DEF apply_op, Satisfies
<1>6. CASE op \in {"$lt", "$lte"}
  <2>1. /\ json_compare(f, g) < 0 <=> json_compare(f, g) = -1
        /\ json_compare(f, g) <= 0 <=> json_compare(f, g) \in {0, -1}
    BY <1>3
  <2> QED
    BY <1>2, <1>3, <1>6, <2>1 DEF apply_op, Satisfies, Upper
<1>7. CASE op \in {"$in", "$nin"}
  <2>1. ASSUME Type(g) = "arr", NEW i \in DOMAIN g[2]
        PROVE  json_compare(f, g[2][i]) = 0 <=> Same(f, g[2][i])
    BY <2>1, CompareZero DEF Operand
  <2> QED
    BY <1>7, <2>1 DEF apply_op, Satisfies
<1> QED
  BY <1>4, <1>5, <1>6, <1>7 DEF FilterOps

(* One field: with every upper bound guarded, all operators hold as code
   exactly if all hold as documented. *)
LEMMA FieldMeans ==
    ASSUME Doubles, NEW f, Plain(f), NEW spec,
           DOMAIN spec \subseteq FilterOps,
           \A op \in DOMAIN spec : Operand(spec[op]),
           Guarded(spec)
    PROVE  (\A op \in DOMAIN spec : apply_op(f, op, spec[op]))
              <=> (\A op \in DOMAIN spec : Satisfies(f, op, spec[op]))
<1>1. ASSUME NEW op \in DOMAIN spec, op \in Upper => Ordered(f, spec[op])
      PROVE  apply_op(f, op, spec[op]) <=> Satisfies(f, op, spec[op])
  BY <1>1, OperatorsMean
<1>2. ASSUME NEW lo \in DOMAIN spec, lo \in Lower,
             Satisfies(f, lo, spec[lo]), Type(spec[lo]) \in {"num", "str"}
      PROVE  Type(f) = Type(spec[lo])
  BY <1>2 DEF Satisfies, Below, Same, Lower
<1>3. ASSUME NEW op \in DOMAIN spec, op \in Upper,
             \A lo \in DOMAIN spec : lo \in Lower => Satisfies(f, lo, spec[lo])
      PROVE  Ordered(f, spec[op])
  <2>1. PICK lo \in Lower \cap DOMAIN spec : Ordered(spec[lo], spec[op])
    BY <1>3 DEF Guarded
  <2>2. Type(f) = Type(spec[lo])
    BY <1>2, <1>3, <2>1 DEF Ordered
  <2> QED
    BY <2>1, <2>2 DEF Ordered
<1>4. Upper \cap Lower = {}
  BY DEF Upper, Lower
<1>5. ASSUME \A op \in DOMAIN spec : apply_op(f, op, spec[op]), NEW op \in DOMAIN spec
      PROVE  Satisfies(f, op, spec[op])
  <2>1. \A lo \in DOMAIN spec : lo \in Lower => Satisfies(f, lo, spec[lo])
    BY <1>1, <1>4, <1>5
  <2> QED
    BY <1>1, <1>3, <1>5, <2>1
<1>6. ASSUME \A op \in DOMAIN spec : Satisfies(f, op, spec[op]), NEW op \in DOMAIN spec
      PROVE  apply_op(f, op, spec[op])
  BY <1>1, <1>3, <1>6
<1> QED
  BY <1>5, <1>6

(* A clause whose ranges have two ends of one type lets exactly the metadata
   through that it is documented to admit: absent fields, text that is no JSON,
   fields of other types and lists of mixed types included. *)
THEOREM ClauseMeans ==
    ASSUME Doubles, NEW meta, NEW w, Metadata(meta), Clause(w)
    PROVE  evaluate_filter(meta, parse_where(w)) <=> Meaning(meta, w)
<1>1. CASE Type(w) # "obj" \/ DOMAIN w[2] = {}
  <2>1. DOMAIN parse_where(w) = {}
    BY <1>1 DEF parse_where
  <2> QED
    BY <1>1, <2>1 DEF evaluate_filter, Meaning
<1>2. CASE Type(w) = "obj" /\ DOMAIN w[2] # {} /\ Type(meta) # "obj"
  <2>1. DOMAIN parse_where(w) = DOMAIN w[2]
    BY <1>2 DEF parse_where
  <2> QED
    BY <1>2, <2>1 DEF evaluate_filter, Meaning
<1>3. CASE Type(w) = "obj" /\ DOMAIN w[2] # {} /\ Type(meta) = "obj"
  <2> DEFINE p == parse_where(w)
  <2>1. DOMAIN p = DOMAIN w[2]
    BY <1>3 DEF parse_where
  <2>2. ASSUME NEW f \in DOMAIN w[2], f \in DOMAIN meta[2]
        PROVE  (\A c \in p[f] : apply_op(meta[2][f], c[1], c[2]))
                  <=> IF Type(w[2][f]) = "obj"
                      THEN \A op \in DOMAIN w[2][f][2] : Satisfies(meta[2][f], op, w[2][f][2][op])
                      ELSE Same(meta[2][f], w[2][f])
    <3>1. Plain(meta[2][f])
      BY <1>3, <2>2 DEF Metadata, Type, Unparseable
    <3>2. CASE Type(w[2][f]) = "obj"
      <4> DEFINE spec == w[2][f][2]
      <4>1. p[f] = {<<op, spec[op]>> : op \in DOMAIN spec}
        BY <1>3, <2>2, <3>2 DEF parse_where
      <4>2. (\A c \in p[f] : apply_op(meta[2][f], c[1], c[2]))
               <=> \A op \in DOMAIN spec : apply_op(meta[2][f], op, spec[op])
        <5> DEFINE ops == DOMAIN spec
        <5> DEFINE q == p[f]
        <5>1. q = {<<op, spec[op]>> : op \in ops}
          BY <4>1
        <5> HIDE DEF q, ops, spec
        <5>2. \A op \in ops : <<op, spec[op]>> \in q
          BY <5>1
        <5>3. \A c \in q : \E op \in ops : c = <<op, spec[op]>>
          BY <5>1
        <5>4. \A op : <<op, spec[op]>>[1] = op /\ <<op, spec[op]>>[2] = spec[op]
          OBVIOUS
        <5>5. (\A c \in q : apply_op(meta[2][f], c[1], c[2]))
                 <=> \A op \in ops : apply_op(meta[2][f], op, spec[op])
          <6>1. ASSUME \A c \in q : apply_op(meta[2][f], c[1], c[2]), NEW op \in ops
                PROVE  apply_op(meta[2][f], op, spec[op])
            <7>1. apply_op(meta[2][f], <<op, spec[op]>>[1], <<op, spec[op]>>[2])
              BY <5>2, <6>1
            <7> QED
              BY <5>4, <7>1
          <6>2. ASSUME \A op \in ops : apply_op(meta[2][f], op, spec[op]), NEW c \in q
                PROVE  apply_op(meta[2][f], c[1], c[2])
            <7>1. PICK op \in ops : c = <<op, spec[op]>>
              BY <5>3, <6>2
            <7>2. c[1] = op /\ c[2] = spec[op]
              BY <5>4, <7>1
            <7> QED
              BY <6>2, <7>2
          <6> QED
            BY <6>1, <6>2
        <5> QED
          BY <5>5 DEF q, ops
      <4>3. DOMAIN spec \subseteq FilterOps
        BY <1>3, <2>2, <3>2 DEF Clause, Rejected
      <4>4. (\A op \in DOMAIN spec : Operand(spec[op])) /\ Guarded(spec)
        BY <1>3, <2>2, <3>2 DEF Clause
      <4> HIDE DEF spec
      <4>5. (\A op \in DOMAIN spec : apply_op(meta[2][f], op, spec[op]))
               <=> \A op \in DOMAIN spec : Satisfies(meta[2][f], op, spec[op])
        BY <3>1, <4>3, <4>4, FieldMeans
      <4> QED
        BY <3>2, <4>2, <4>5 DEF spec
    <3>3. CASE Type(w[2][f]) # "obj"
      <4>1. p[f] = {<<"$eq", w[2][f]>>}
        BY <1>3, <2>2, <3>3 DEF parse_where
      <4>2. (\A c \in p[f] : apply_op(meta[2][f], c[1], c[2])) <=> apply_op(meta[2][f], "$eq", w[2][f])
        BY <4>1
      <4>3. Operand(w[2][f])
        BY <1>3, <2>2, <3>3 DEF Clause
      <4>4. apply_op(meta[2][f], "$eq", w[2][f]) <=> Satisfies(meta[2][f], "$eq", w[2][f])
        BY <3>1, <4>3, OperatorsMean DEF FilterOps, Upper
      <4> QED
        BY <3>3, <4>2, <4>4 DEF Satisfies
    <3> QED
      BY <3>2, <3>3
  <2> HIDE DEF p
  <2>3. evaluate_filter(meta, p) <=>
           \A f \in DOMAIN w[2] :
              f \in DOMAIN meta[2] /\ \A c \in p[f] : apply_op(meta[2][f], c[1], c[2])
    BY <1>3, <2>1 DEF evaluate_filter
  <2>4. evaluate_filter(meta, p) <=> Meaning(meta, w)
    BY <1>3, <2>2, <2>3 DEF Meaning
  <2> QED
    BY <2>4 DEF p
<1> QED
  BY <1>1, <1>2, <1>3
-----------------------------------------------------------------------------
(* What Picked selects.  Chains are sequences in which every element is related to
   all that come after it. *)

LEMMA SetInduction ==
    ASSUME NEW T, 0 \in T, \A n \in Nat : n \in T => n + 1 \in T
    PROVE  \A n \in Nat : n \in T
<1> DEFINE R == OpToRel(<, Nat)
           B == Nat \ T
<1> SUFFICES ASSUME B # {} PROVE FALSE
  OBVIOUS
<1>1. \A x, y \in Nat : <<x, y>> \in R <=> x < y
  BY DEF OpToRel
<1>2. IsWellFoundedOn(R, Nat)
  BY NatLessThanWellFounded
<1>3. B \subseteq Nat
  OBVIOUS
<1> HIDE DEF R
<1>4. PICK x \in B : \A y \in B : ~(<<y, x>> \in R)
  BY <1>2, <1>3, WFMin
<1>5. x \in Nat /\ x # 0 /\ x - 1 \in Nat /\ x - 1 < x /\ (x - 1) + 1 = x
  BY <1>4
<1>6. x - 1 \in T
  BY <1>1, <1>4, <1>5
<1> QED
  BY <1>4, <1>5, <1>6

Elems(s) == {s[i] : i \in 1 .. Len(s)}
Chain(s, R) == \A i, j \in 1 .. Len(s) : i < j => <<s[i], s[j]>> \in R

\* g[n] is what was picked from the first n elements.
PickStep(x, s, S, n) == IF s[n] \in S THEN Append(x, s[n]) ELSE x
IsPick(g, s, S, m) ==
    g = [n \in 0 .. m |-> IF n = 0 THEN << >> ELSE PickStep(g[n - 1], s, S, n)]

LEMMA PickExists ==
    ASSUME NEW s, NEW S
    PROVE  \A m \in Nat : \E g : IsPick(g, s, S, m)
<1> DEFINE T == {m \in Nat : \E g : IsPick(g, s, S, m)}
<1>1. 0 \in T
  <2>1. IsPick([n \in 0 .. 0 |-> << >>], s, S, 0)
    BY DEF IsPick
  <2> QED
    BY <2>1
<1>2. ASSUME NEW m \in Nat, m \in T PROVE m + 1 \in T
  <2>1. PICK g : IsPick(g, s, S, m)
    BY <1>2
  <2>2. \A n \in 0 .. m : g[n] = IF n = 0 THEN << >> ELSE PickStep(g[n - 1], s, S, n)
    BY <2>1 DEF IsPick
  <2> DEFINE h == [n \in 0 .. m + 1 |-> IF n = m + 1 THEN PickStep(g[m], s, S, m + 1) ELSE g[n]]
  <2>3. ASSUME NEW n \in 0 .. m + 1
        PROVE  h[n] = IF n = 0 THEN << >> ELSE PickStep(h[n - 1], s, S, n)
    <3>1. CASE n = m + 1
      BY <3>1
    <3>2. CASE n # m + 1
      <4>1. n \in 0 .. m /\ h[n] = g[n] /\ (n # 0 => h[n - 1] = g[n - 1])
        BY <3>2
      <4> HIDE DEF h
      <4> QED
        BY <2>2, <4>1
    <3> QED
      BY <3>1, <3>2
  <2>4. h = [n \in 0 .. m + 1 |-> IF n = 0 THEN << >> ELSE PickStep(h[n - 1], s, S, n)]
    BY <2>3
  <2> HIDE DEF h
  <2>5. IsPick(h, s, S, m + 1)
    BY <2>4 DEF IsPick
  <2> QED
    BY <2>5
<1> HIDE DEF T
<1>3. \A m \in Nat : m \in T
  BY <1>1, <1>2, SetInduction
<1> QED
  BY <1>3 DEF T

\* The recursive definition of Picked defines what it says.
LEMMA PickedDef ==
    ASSUME NEW s, NEW S, Len(s) \in Nat
    PROVE  \E g : IsPick(g, s, S, Len(s)) /\ Picked(s, S) = g[Len(s)]
<1> DEFINE f == CHOOSE g : g = [n \in 0 .. Len(s) |->
                    IF n = 0 THEN << >> ELSE PickStep(g[n - 1], s, S, n)]
<1>0. \E g : IsPick(g, s, S, Len(s))
  BY PickExists
<1>1. IsPick(f, s, S, Len(s))
  BY <1>0 DEF IsPick
<1>2. Picked(s, S) = f[Len(s)]
  BY DEF Picked, PickStep
<1> HIDE DEF f
<1> QED
  BY <1>1, <1>2

LEMMA PickedChain ==
    ASSUME NEW A, NEW s \in Seq(A), NEW S, NEW R, Chain(s, R)
    PROVE  /\ Picked(s, S) \in Seq(A)
           /\ Chain(Picked(s, S), R)
           /\ Elems(Picked(s, S)) = Elems(s) \cap S
<1> DEFINE N == Len(s)
           E(n) == {s[i] : i \in 1 .. n} \cap S
<1>0. N \in Nat /\ \A n \in 1 .. N : s[n] \in A
  OBVIOUS
<1>1. PICK g : IsPick(g, s, S, N) /\ Picked(s, S) = g[N]
  BY <1>0, PickedDef
<1>2. g[0] = << >> /\ \A n \in 1 .. N : g[n] = PickStep(g[n - 1], s, S, n)
  <2>1. \A n \in 1 .. N : n \in 0 .. N /\ n # 0
    BY <1>0
  <2> QED
    BY <1>0, <1>1, <2>1, SMTT(30) DEF IsPick
<1> DEFINE Good(n) == g[n] \in Seq(A) /\ Chain(g[n], R) /\ Elems(g[n]) = E(n)
           T == {n \in Nat : n <= N => Good(n)}
<1> HIDE DEF N
<1>3. 0 \in T
  <2>1. << >> \in Seq(A) /\ Len(<< >>) = 0 /\ 1 .. 0 = {}
    OBVIOUS
  <2>2. Chain(<< >>, R) /\ Elems(<< >>) = {} /\ E(0) = {}
    BY <2>1 DEF Chain, Elems
  <2>3. Good(0)
    BY <1>2, <2>1, <2>2
  <2> HIDE DEF Good
  <2> QED
    BY <2>3
<1>4. ASSUME NEW n \in Nat, n \in T PROVE n + 1 \in T
  <2> HIDE DEF Good
  <2> SUFFICES ASSUME n + 1 <= N PROVE Good(n + 1)
    OBVIOUS
  <2>1. Good(n)
    BY <1>0, <1>4
  <2> DEFINE x == g[n]
             a == s[n + 1]
             y == Append(x, a)
  <2>2. n + 1 \in 1 .. N /\ (n + 1) - 1 = n
    BY <1>0
  <2>3. x \in Seq(A) /\ Chain(x, R) /\ Elems(x) = E(n) /\ a \in A
    BY <1>0, <2>1, <2>2 DEF Good
  <2>4. g[n + 1] = IF a \in S THEN y ELSE x
    BY <1>2, <2>2 DEF PickStep
  <2>5. E(n + 1) = IF a \in S THEN E(n) \cup {a} ELSE E(n)
    <3>1. \A i : i \in 1 .. n + 1 <=> i \in 1 .. n \/ i = n + 1
      OBVIOUS
    <3> QED
      BY <3>1
  <2>6. \A b \in E(n) : <<b, a>> \in R
    <3>1. \A i \in 1 .. n : i \in 1 .. N /\ i < n + 1
      BY <1>0
    <3>2. \A i \in 1 .. n : <<s[i], a>> \in R
      BY <2>2, <3>1 DEF Chain, N
    <3> QED
      BY <3>2
  <2> HIDE DEF E, x, a
  <2>7. CASE a \in S
    <3>1. /\ y \in Seq(A) /\ Len(y) = Len(x) + 1 /\ y[Len(x) + 1] = a /\ Len(x) \in Nat
          /\ \A i \in 1 .. Len(x) : y[i] = x[i]
      BY <2>3
    <3> HIDE DEF y
    <3>2. \A i : i \in 1 .. Len(y) <=> i \in 1 .. Len(x) \/ i = Len(x) + 1
      BY <3>1
    <3>3. Elems(y) = Elems(x) \cup {a}
      BY <3>1, <3>2 DEF Elems
    <3>4. \A i \in 1 .. Len(x) : <<x[i], a>> \in R
      BY <2>3, <2>6 DEF Elems
    <3>5. ASSUME NEW i \in 1 .. Len(y), NEW j \in 1 .. Len(y), i < j
          PROVE  <<y[i], y[j]>> \in R
      <4>1. i \in 1 .. Len(x) /\ y[i] = x[i]
        BY <3>1, <3>5
      <4>2. CASE j \in 1 .. Len(x)
        BY <2>3, <3>1, <3>5, <4>1, <4>2 DEF Chain
      <4>3. CASE j = Len(x) + 1
        BY <3>1, <3>4, <4>1, <4>3
      <4> QED
        BY <3>2, <4>2, <4>3
    <3>6. Chain(y, R)
      BY <3>5 DEF Chain
    <3> QED
      BY <2>3, <2>4, <2>5, <2>7, <3>1, <3>3, <3>6 DEF Good
  <2>8. CASE a \notin S
    BY <2>3, <2>4, <2>5, <2>8 DEF Good
  <2> QED
    BY <2>7, <2>8
<1> HIDE DEF T, Good
<1>5. \A n \in Nat : n \in T
  BY <1>3, <1>4, SetInduction
<1>6. Good(N)
  BY <1>0, <1>5 DEF T
<1>7. E(N) = Elems(s) \cap S
  BY DEF Elems, N
<1> HIDE DEF E
<1> QED
  BY <1>1, <1>6, <1>7 DEF Good

\* Nothing is passed over when everything is wanted.
LEMMA PickedAll ==
    ASSUME NEW A, NEW s \in Seq(A), NEW S, \A i \in 1 .. Len(s) : s[i] \in S
    PROVE  Picked(s, S) = s
<1> DEFINE N == Len(s)
<1>0. N \in Nat /\ \A n \in 1 .. N : s[n] \in A /\ s[n] \in S
  OBVIOUS
<1>1. PICK g : IsPick(g, s, S, N) /\ Picked(s, S) = g[N]
  BY <1>0, PickedDef
<1>2. g[0] = << >> /\ \A n \in 1 .. N : g[n] = Append(g[n - 1], s[n])
  <2>1. \A n \in 1 .. N : n \in 0 .. N /\ n # 0
    BY <1>0
  <2>2. g[0] = << >> /\ \A n \in 1 .. N : g[n] = PickStep(g[n - 1], s, S, n)
    BY <1>0, <1>1, <2>1 DEF IsPick
  <2> QED
    BY <1>0, <2>2 DEF PickStep
<1> DEFINE Good(n) == g[n] \in Seq(A) /\ Len(g[n]) = n /\ \A i \in 1 .. n : g[n][i] = s[i]
           T == {n \in Nat : n <= N => Good(n)}
<1> HIDE DEF N
<1>3. 0 \in T
  <2>1. << >> \in Seq(A) /\ Len(<< >>) = 0 /\ 1 .. 0 = {}
    OBVIOUS
  <2>2. Good(0)
    BY <1>2, <2>1
  <2> HIDE DEF Good
  <2> QED
    BY <2>2
<1>4. ASSUME NEW n \in Nat, n \in T PROVE n + 1 \in T
  <2> HIDE DEF Good
  <2> SUFFICES ASSUME n + 1 <= N PROVE Good(n + 1)
    OBVIOUS
  <2> DEFINE x == g[n]
             a == s[n + 1]
             y == Append(x, a)
  <2>1. n + 1 \in 1 .. N /\ (n + 1) - 1 = n /\ n <= N
    BY <1>0
  <2>2. x \in Seq(A) /\ Len(x) = n /\ (\A i \in 1 .. n : x[i] = s[i]) /\ a \in A
    BY <1>0, <1>4, <2>1 DEF Good
  <2>3. g[n + 1] = y
    BY <1>2, <2>1
  <2> HIDE DEF x
  <2>4. /\ y \in Seq(A) /\ Len(y) = n + 1 /\ y[n + 1] = s[n + 1]
        /\ \A i \in 1 .. n : y[i] = s[i]
    BY <2>2
  <2> HIDE DEF y
  <2>5. \A i \in 1 .. n + 1 : i \in 1 .. n \/ i = n + 1
    OBVIOUS
  <2> QED
    BY <2>3, <2>4, <2>5 DEF Good
<1> HIDE DEF T, Good
<1>5. \A n \in Nat : n \in T
  BY <1>3, <1>4, SetInduction
<1> DEFINE w == g[N]
<1>6. w \in Seq(A) /\ Len(w) = N /\ \A i \in 1 .. N : w[i] = s[i]
  BY <1>0, <1>5 DEF T, Good
<1> HIDE DEF w
<1>7. w = s
  BY <1>6 DEF N
<1> QED
  BY <1>1, <1>7 DEF w

\* A sequence of distinct elements is as long as the set of its elements.
LEMMA DistinctCount ==
    ASSUME NEW A, NEW s \in Seq(A),
           \A i, j \in 1 .. Len(s) : i < j => s[i] # s[j]
    PROVE  IsFiniteSet(Elems(s)) /\ Cardinality(Elems(s)) = Len(s)
<1> DEFINE N == Len(s)
           f == [i \in 1 .. N |-> s[i]]
<1>0. N \in Nat
  OBVIOUS
<1>1. IsFiniteSet(1 .. N) /\ Cardinality(1 .. N) = N
  <2>1. 1 \in Int /\ N \in Int
    BY <1>0
  <2>2. /\ IsFiniteSet(1 .. N)
        /\ Cardinality(1 .. N) = IF 1 > N THEN 0 ELSE N - 1 + 1
    BY <2>1, FS_Interval
  <2> HIDE DEF N
  <2> QED
    BY <1>0, <2>2
<1>2. \A i, j \in 1 .. N : f[i] = f[j] => i = j
  <2>1. \A i, j \in 1 .. N : i < j \/ j < i \/ i = j
    BY <1>0
  <2>2. \A i \in 1 .. N : f[i] = s[i]
    OBVIOUS
  <2> HIDE DEF f
  <2> QED
    BY <2>1, <2>2
<1>3. f \in [1 .. N -> Elems(s)] /\ \A x \in Elems(s) : \E i \in 1 .. N : f[i] = x
  BY DEF Elems
<1>4. f \in Bijection(1 .. N, Elems(s))
  <2> HIDE DEF f, N
  <2> QED
    BY <1>2, <1>3 DEF Bijection, Injection, Surjection, IsInjective
<1> HIDE DEF f
<1>5. ExistsBijection(1 .. N, Elems(s))
  BY <1>4 DEF ExistsBijection
<1> QED
  BY <1>1, <1>5, FS_Bijection
=============================================================================
