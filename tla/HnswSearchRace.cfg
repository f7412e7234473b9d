\* Searches race inserts and deletes.
SPECIFICATION Spec
CONSTANTS
    Threads = {t1, t2}
    Writers = {t1}
    Ids = {i1, i2, i3}
    Deletable = {i1}
    Vec = {0, 1}
    Sim <- MCSim
    M = 2
    EfConstruction = 1
    EfSearch = 3
    Ks = {0, 2}
    MaxLevel = 0
    MaxVectors = 3
    ReuseIds = FALSE
SYMMETRY Symmetry
INVARIANTS AnswerWellFormed
PROPERTIES DeletedNeverReturned
\* The callers may stop calling.
CHECK_DEADLOCK FALSE
