\* Deleted vectors fill the beam of a search.
SPECIFICATION Spec
CONSTANTS
    Threads = {t1}
    Writers = {t1}
    Ids = {i1, i2, i3}
    Deletable = {i1, i2, i3}
    Vec = {0, 1}
    Sim <- MCSim
    M = 2
    EfConstruction = 1
    EfSearch = 1
    Ks = {1}
    MaxLevel = 0
    MaxVectors = 3
    ReuseIds = FALSE
SYMMETRY Symmetry
INVARIANTS LiveAnswered
\* The callers may stop calling.
CHECK_DEADLOCK FALSE
