\* A push into a page that is cached as zeros.
SPECIFICATION Spec
CONSTANTS
    Threads = {p1}
    Pushers = {p1}
    Vecs = {v1}
    VectorsPerPage = 2
    Slack = 0
    MaxCachedPages = 2
    MaxVectors = 3
    MaxReopens = 0
INVARIANT NothingLeaked
