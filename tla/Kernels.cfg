\* Every dimension up to three AVX2 blocks and a tail.
SPECIFICATION KernelSpec
CONSTANT MaxDim = 31
INVARIANTS TermsOnce ReadsInBounds
\* A kernel returns.
CHECK_DEADLOCK FALSE
