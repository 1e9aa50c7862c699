CONSTANTS
    Threshold = 0
    BatchSize = 16
    IntBound = 4
    KeyBound = 64
    ThreadCounts = {1, 2}
    Inputs <- MaxKeyTable
SPECIFICATION Spec
INVARIANT PanicsOnlyLikeNaive
\* The engine stops once it has returned or panicked.
CHECK_DEADLOCK FALSE
