\* One caller: layers, deletes, pruning on layer 1.
SPECIFICATION Spec
CONSTANTS
    Threads = {t1}
    Writers = {t1}
    Ids = {i1, i2, i3, i4}
    Deletable = {i1}
    Vec = {0, 1}
    Sim <- MCSim
    M = 2
    EfConstruction = 1
    EfSearch = 4
    Ks = {2}
    MaxLevel = 1
    MaxVectors = 4
    ReuseIds = FALSE
SYMMETRY Symmetry
INVARIANTS SearchExact Connected DegreeBound
\* The callers may stop calling.
CHECK_DEADLOCK FALSE
