\* The application has checkpointed the log itself before compact truncates it.
SPECIFICATION Spec
CONSTANTS
    Handles = {app, compactor}
    Appenders = {app}
    Checkpointers = {app, compactor}
    Ids = {1, 2}
    Vecs <- MCVecs
    Metas <- MCMetas
    MaxUnits = 14
    Tears = FALSE
INVARIANT ReplayComplete
