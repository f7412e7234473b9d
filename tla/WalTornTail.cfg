\* The log is reopened and appended to after a crash inside an append.
SPECIFICATION Spec
CONSTANTS
    Handles = {app}
    Appenders = {app}
    Checkpointers = {app}
    Ids = {1, 2}
    Vecs <- MCVecs
    Metas <- MCMetas
    MaxUnits = 14
    Tears = TRUE
INVARIANT ReplayComplete
