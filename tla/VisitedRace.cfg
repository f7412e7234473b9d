\* An index grows while another thread walks it.
SPECIFICATION Spec
CONSTANTS
    Threads = {t1, t2}
    Indexes = {x1, x2}
    Wrap = 3
    Margin = 1
    MaxVectors = 3
INVARIANT AllInBounds
