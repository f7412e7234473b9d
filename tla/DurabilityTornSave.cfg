\* The process dies while save rewrites the index file.
SPECIFICATION Spec
CONSTANTS
    Ids = {i1, i2}
    OldIds = {i1}
    WordBits = 2
    Concurrent = FALSE
    CrashPoints = {"idle", "saving"}
INVARIANT Recoverable
