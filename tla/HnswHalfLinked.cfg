\* One thread inserts vectors of two layers, the other searches.
SPECIFICATION Spec
CONSTANTS
    Threads = {t1, t2}
    Writers = {t1}
    Ids = {i1, i2, i3}
    Deletable = {}
    Vec = {0, 1}
    Sim <- MCSim
    M = 2
    EfConstruction = 1
    EfSearch = 3
    Ks = {3}
    MaxLevel = 1
    MaxVectors = 3
    ReuseIds = FALSE
SYMMETRY Symmetry
INVARIANTS SettledIsFound
\* The callers may stop calling.
CHECK_DEADLOCK FALSE
