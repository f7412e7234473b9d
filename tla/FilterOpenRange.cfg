\* An upper bound alone lets values of other types through.
SPECIFICATION Spec
CONSTANTS
    ToDouble <- Lossy
    Sim <- SimOf
    MinusInfinity <- Lowest
    Ids = {i1, i2, i3}
    Vecs = {1, 2}
    Metas <- MixedMetas
    Queries = {0, 1}
    Ks = {0, 1, 2, 4}
    Wheres <- OpenWheres
    MaxVectors = 3
    ReuseIds = FALSE
SYMMETRY Symmetry
PROPERTY ImplementsStore
