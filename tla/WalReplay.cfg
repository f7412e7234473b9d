\* One object appends, checkpoints, and goes on behind a torn record.
SPECIFICATION Spec
CONSTANTS
    Handles = {app}
    Appenders = {app}
    Checkpointers = {app}
    Ids = {1, 2}
    Vecs <- MCVecs
    Metas <- MCMetas
    MaxUnits = 14
    Tears = TRUE
INVARIANTS ReplayExact DamageConfined
