---------------------------- MODULE MCFlatIndex ----------------------------
EXTENDS FlatIndex, TLC

Symmetry == Permutations(Ids)

\* Integers from 4 on lose their last bit.
Lossy(i) == IF i < 4 THEN i ELSE i - (i % 2)
SimOf(v, q) == IF q = 0 THEN -v ELSE v
Lowest == -3

\* One number, one number that is 4 as a double, a string and null, no JSON.
MixedMetas ==
    {Obj([year |-> Num(3), tag |-> Str(1)]),
     Obj([year |-> Num(5), tag |-> Bool("true")]),
     Obj([year |-> Str(3), tag |-> Null]),
     Unparseable}

Where(field, spec) == Obj([f \in {field} |-> spec])
Spec1(op, v)       == Obj([o \in {op} |-> v])
Spec2(o1, v1, o2, v2) == Obj([o \in {o1, o2} |-> IF o = o1 THEN v1 ELSE v2])

OneTypeWheres ==
    {Null, Obj(<< >>),
     Where("year", Num(4)),
     Where("year", Spec2("$gte", Num(3), "$lte", Num(4))),
     Where("year", Spec2("$gt", Num(2), "$lt", Num(4))),
     Where("tag", Spec2("$ne", Str(1), "$in", Arr(<<Str(1), Null>>))),
     Where("tag", Spec1("$nin", Arr(<<Bool("true"), Num(1)>>))),
     Where("none", Spec1("$ne", Num(1))),
     Where("tag", Spec1("$like", Str(1)))}

\* An upper bound alone.
OpenWheres == {Where("year", Spec1("$lt", Num(9)))}
=============================================================================
