\* The entry point is deleted beside a running insert.
SPECIFICATION Spec
CONSTANTS
    Threads = {t1, t2}
    Writers = {t1, t2}
    Ids = {i1, i2, i3}
    Deletable = {i1}
    Vec = {0, 1}
    Sim <- MCSim
    M = 2
    EfConstruction = 1
    EfSearch = 3
    Ks = {3}
    MaxLevel = 0
    MaxVectors = 3
    ReuseIds = FALSE
SYMMETRY Symmetry
INVARIANTS SettledIsFound
\* The callers may stop calling.
CHECK_DEADLOCK FALSE
