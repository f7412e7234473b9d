\* Pages with slack at their end.
SPECIFICATION Spec
CONSTANTS
    Threads = {p1}
    Pushers = {p1}
    Vecs = {v1}
    VectorsPerPage = 2
    Slack = 1
    MaxCachedPages = 2
    MaxVectors = 4
    MaxReopens = 0
INVARIANT FreshPages
