----------------------------- MODULE MCPyIndex -----------------------------
EXTENDS PyIndex, TLC

Symmetry == Permutations(Ids)

SimOf(v, q) == IF q = 0 THEN -v ELSE v
Exact(i)    == i

\* No metadata, a number, NaN beside a nested value.
PyMetas ==
    {Null, Obj([year |-> Num(3)]), Obj([year |-> NaN, tag |-> Arr(<<Num(3)>>)])}

Where(field, spec) == Obj([f \in {field} |-> spec])

PyWheres ==
    {Null, Obj(<< >>), Num(3),
     Where("year", Obj([o \in {"$gte"} |-> Num(2)])),
     Where("year", Obj([o \in {"$nin"} |-> Arr(<<Num(3)>>)])),
     Where("year", Obj([o \in {"$near"} |-> Num(3)]))}
=============================================================================
