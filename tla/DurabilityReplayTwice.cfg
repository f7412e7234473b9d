\* The process dies between save and the truncation of the WAL.
SPECIFICATION Spec
CONSTANTS
    Ids = {i1, i2}
    OldIds = {i1}
    WordBits = 2
    Concurrent = FALSE
    CrashPoints = {"idle", "saved"}
INVARIANT Recoverable
