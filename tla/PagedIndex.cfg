\* An inserter and a searcher, a cache smaller than the file, one reopening.
SPECIFICATION IndexSpec
CONSTANTS
    Threads = {p1, r1}
    Pushers = {p1}
    Vecs = {v1, v2}
    VectorsPerPage = 2
    Slack = 1
    MaxCachedPages = 2
    MaxVectors = 5
    MaxReopens = 1
INVARIANTS TypeOK LruAgrees CacheBounded WrittenPagesDropped MappedSeesStored SlotsAgree
SYMMETRY VecSymmetry
