\* A beam narrower than the index: the filter runs after the beam was cut.
SPECIFICATION Spec
CONSTANTS
    ToDouble <- Exact
    Sim <- SimOf
    Ids = {i1, i2, i3}
    Vecs = {1, 2}
    Metas <- PyMetas
    Queries = {0, 1}
    Ks = {0, 1, 2}
    Wheres <- PyWheres
    Efs = {2, 3}
    M = 2
    MaxVectors = 3
    ReuseIds = FALSE
SYMMETRY Symmetry
INVARIANT FilterKeepsK
