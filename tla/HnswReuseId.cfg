\* An id is deleted, inserted again and deleted again.
SPECIFICATION Spec
CONSTANTS
    Threads = {t1}
    Writers = {t1}
    Ids = {i1}
    Deletable = {i1}
    Vec = {0}
    Sim <- MCSim
    M = 2
    EfConstruction = 1
    EfSearch = 3
    Ks = {1}
    MaxLevel = 0
    MaxVectors = 2
    ReuseIds = TRUE
SYMMETRY Symmetry
PROPERTIES DeletedNeverReturned
\* The callers may stop calling.
CHECK_DEADLOCK FALSE
