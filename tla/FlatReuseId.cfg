\* An id comes back while its deleted entry is still there.
SPECIFICATION Spec
CONSTANTS
    ToDouble <- Lossy
    Sim <- SimOf
    MinusInfinity <- Lowest
    Ids = {i1, i2, i3}
    Vecs = {1, 2}
    Metas <- MixedMetas
    Queries = {0, 1}
    Ks = {0, 1, 2, 4}
    Wheres <- OneTypeWheres
    MaxVectors = 3
    ReuseIds = TRUE
SYMMETRY Symmetry
PROPERTY ImplementsStore
