\* Two indexes, a tag of three values, a margin of one slot; inserts run while
\* other threads walk the index.
SPECIFICATION Spec
CONSTANTS
    Threads = {t1, t2}
    Indexes = {x1, x2}
    Wrap = 3
    Margin = 1
    MaxVectors = 3
INVARIANTS VisitedExact InBounds
