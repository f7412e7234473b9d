\* Operations, compacts, crashes and recoveries, one after the other.
SPECIFICATION Spec
CONSTANTS
    Ids = {i1, i2, i3, i4}
    OldIds = {i1}
    WordBits = 2
    Concurrent = FALSE
    CrashPoints = {"idle", "copied"}
INVARIANTS Recoverable WindowRecovery MemoryAgrees
