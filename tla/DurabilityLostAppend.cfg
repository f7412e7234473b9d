\* Operations run while compact does.
SPECIFICATION Spec
CONSTANTS
    Ids = {i1, i2}
    OldIds = {i1}
    WordBits = 2
    Concurrent = TRUE
    CrashPoints = {"idle"}
INVARIANT Recoverable
