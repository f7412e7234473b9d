\* One thread prunes a link list that spans more pages than the cache.
SPECIFICATION Spec
CONSTANTS
    Threads = {p1}
    Pushers = {p1}
    Vecs = {v1}
    VectorsPerPage = 1
    Slack = 0
    MaxCachedPages = 2
    MaxVectors = 3
    MaxReopens = 0
INVARIANT PointersValid
