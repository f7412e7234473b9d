------------------------------- MODULE Filter -------------------------------
(***************************************************************************)
(* parse_where and evaluate_filter (src/filter.cpp): which metadata a      *)
(* where clause lets through.                                              *)
(*                                                                         *)
(* A JSON value is a pair of its type and its content: <<"num", i>>,       *)
(* <<"str", r>> with r the rank of the string in lexicographic order,      *)
(* <<"other", x>> for true, false and null, <<"arr", s>> with a sequence   *)
(* and <<"obj", f>> with a function on field names.  NaN is the one number *)
(* that equals nothing; text that is no JSON is Unparseable.               *)
(***************************************************************************)
EXTENDS Integers, Sequences

CONSTANT ToDouble(_)   \* json::get<double>: 64-bit integers lose low bits

Num(i) == <<"num", i>>
Str(r) == <<"str", r>>
Arr(s) == <<"arr", s>>
Obj(f) == <<"obj", f>>
Bool(b) == <<"other", b>>
Null == <<"other", "null">>
NaN == <<"nan", "nan">>
Unparseable == <<"bad", "bad">>

Type(v)  == v[1]
IsNum(v) == Type(v) \in {"num", "nan"}

FilterOps == {"$eq", "$ne", "$gt", "$gte", "$lt", "$lte", "$in", "$nin"}

\* json::dump prints NaN as null, and otherwise tells every two values apart.
Dump(v) == IF v = NaN THEN Null ELSE v
-----------------------------------------------------------------------------
Sign(a, b) == IF a < b THEN -1 ELSE IF a > b THEN 1 ELSE 0

\* The comparison of values that are not both numbers and not both strings.
CompareMixed(f, g) == IF Dump(f) = Dump(g) THEN 0 ELSE -1

\* NaN is neither below nor above a number.
json_compare(f, g) ==
    IF IsNum(f) /\ IsNum(g)
    THEN IF NaN \in {f, g} THEN 0 ELSE Sign(ToDouble(f[2]), ToDouble(g[2]))
    ELSE IF Type(f) = "str" /\ Type(g) = "str" THEN Sign(f[2], g[2])
    ELSE CompareMixed(f, g)

apply_op(f, op, g) ==
    LET listed == \E i \in DOMAIN g[2] : json_compare(f, g[2][i]) = 0
    IN  CASE op = "$eq"  -> json_compare(f, g) = 0
          [] op = "$ne"  -> json_compare(f, g) # 0
          [] op = "$gt"  -> json_compare(f, g) > 0
          [] op = "$gte" -> json_compare(f, g) >= 0
          [] op = "$lt"  -> json_compare(f, g) < 0
          [] op = "$lte" -> json_compare(f, g) <= 0
          [] op = "$in"  -> Type(g) = "arr" /\ listed
          [] op = "$nin" -> Type(g) = "arr" => ~listed

\* parse_where throws: some field is constrained by an unknown operator.
Rejected(w) ==
    Type(w) = "obj" /\ \E f \in DOMAIN w[2] :
        Type(w[2][f]) = "obj" /\ ~ (DOMAIN w[2][f][2] \subseteq FilterOps)

\* The constraints on each field, a set of pairs of an operator and a value.
\* A value that is no object means $eq; a clause that is no object is empty.
parse_where(w) ==
    IF Type(w) # "obj" THEN << >>
    ELSE [f \in DOMAIN w[2] |->
            LET spec == w[2][f]
            IN  IF Type(spec) = "obj" THEN {<<op, spec[2][op]>> : op \in DOMAIN spec[2]}
                ELSE {<<"$eq", spec>>}]

\* Mutant: a constraint on a field the metadata lacks is passed over.
SkipAbsent(meta, where) ==
    DOMAIN where = {} \/
        /\ Type(meta) = "obj"
        /\ \A f \in DOMAIN where \cap DOMAIN meta[2] :
              \A c \in where[f] : apply_op(meta[2][f], c[1], c[2])
evaluate_filter(meta, where) ==
    DOMAIN where = {} \/
        /\ Type(meta) = "obj"
        /\ \A f \in DOMAIN where :
              /\ f \in DOMAIN meta[2]
              /\ \A c \in where[f] : apply_op(meta[2][f], c[1], c[2])

\* The elements of s that are in S, in order: what a loop over s collects when it
\* passes over the others.
Picked(s, S) ==
    LET kept[n \in 0 .. Len(s)] ==
            IF n = 0 THEN << >>
            ELSE IF s[n] \in S THEN Append(kept[n - 1], s[n]) ELSE kept[n - 1]
    IN  kept[Len(s)]
-----------------------------------------------------------------------------
(* What a where clause is documented to mean (include/filter.hpp): every   *)
(* constraint holds, and an order relates values of one type only.         *)

Below(f, g) ==
    \/ Type(f) = "num" /\ Type(g) = "num" /\ ToDouble(f[2]) < ToDouble(g[2])
    \/ Type(f) = "str" /\ Type(g) = "str" /\ f[2] < g[2]

Same(f, g) ==
    \/ f = g /\ f # NaN
    \/ Type(f) = "num" /\ Type(g) = "num" /\ ToDouble(f[2]) = ToDouble(g[2])

Satisfies(f, op, g) ==
    LET listed == Type(g) = "arr" /\ \E i \in DOMAIN g[2] : Same(f, g[2][i])
    IN  \/ op = "$eq"  /\ Same(f, g)
        \/ op = "$ne"  /\ ~Same(f, g)
        \/ op = "$gt"  /\ Below(g, f)
        \/ op = "$gte" /\ (Below(g, f) \/ Same(f, g))
        \/ op = "$lt"  /\ Below(f, g)
        \/ op = "$lte" /\ (Below(f, g) \/ Same(f, g))
        \/ op = "$in"  /\ listed
        \/ op = "$nin" /\ ~listed

Meaning(meta, w) ==
    Type(w) = "obj" /\ DOMAIN w[2] # {} =>
        /\ Type(meta) = "obj"
        /\ \A f \in DOMAIN w[2] :
              /\ f \in DOMAIN meta[2]
              /\ IF Type(w[2][f]) = "obj"
                 THEN \A op \in DOMAIN w[2][f][2] : Satisfies(meta[2][f], op, w[2][f][2][op])
                 ELSE Same(meta[2][f], w[2][f])
=============================================================================
