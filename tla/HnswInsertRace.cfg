\* Two threads insert three vectors of one or two layers (under one id: it plays no part here).
SPECIFICATION FairSpec
CONSTANTS
    Threads = {t1, t2}
    Writers = {t1, t2}
    Ids = {i1}
    Deletable = {}
    Vec = {0, 1}
    Sim <- MCSim
    M = 2
    EfConstruction = 3
    EfSearch = 2
    Ks = {}
    MaxLevel = 1
    MaxVectors = 3
    ReuseIds = TRUE
INVARIANTS TypeOK LinksStayOnLayer WalksStayOnLayer EntryPointOnTop
PROPERTIES CallsReturn
\* The callers may stop calling.
CHECK_DEADLOCK FALSE
