\* Two threads insert vectors of two layers, and nobody searches.
SPECIFICATION Spec
CONSTANTS
    Threads = {t1, t2}
    Writers = {t1, t2}
    Ids = {i1, i2, i3}
    Deletable = {}
    Vec = {0, 1}
    Sim <- MCSim
    M = 2
    EfConstruction = 1
    EfSearch = 3
    Ks = {}
    MaxLevel = 1
    MaxVectors = 3
    ReuseIds = FALSE
SYMMETRY Symmetry
INVARIANTS Connected
\* The callers may stop calling.
CHECK_DEADLOCK FALSE
