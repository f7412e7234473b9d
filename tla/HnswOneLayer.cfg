\* Two threads insert and search (under one id: it plays no part here) while every node has layer 0 only.
SPECIFICATION FairSpec
CONSTANTS
    Threads = {t1, t2}
    Writers = {t1, t2}
    Ids = {i1}
    Deletable = {}
    Vec = {0, 1}
    Sim <- MCSim
    M = 2
    EfConstruction = 1
    EfSearch = 3
    Ks = {3}
    MaxLevel = 0
    MaxVectors = 3
    ReuseIds = TRUE
INVARIANTS SettledIsFound
PROPERTIES CallsReturn
\* The callers may stop calling.
CHECK_DEADLOCK FALSE
