\* Two threads insert.
SPECIFICATION IndexSpec
CONSTANTS
    Threads = {p1, p2}
    Pushers = {p1, p2}
    Vecs = {v1, v2}
    VectorsPerPage = 2
    Slack = 0
    MaxCachedPages = 2
    MaxVectors = 3
    MaxReopens = 0
INVARIANT SlotsAgree
