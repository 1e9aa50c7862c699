CONSTANTS
    Uninit = Uninit
    CAP = 2
    Threshold = 0
    IntBound = 4
    BatchSize = 2
    Calls <- EmptyBatchFirst
    MaxBatches = 2
SPECIFICATION Spec
INVARIANTS
    MatchesNaive
\* The system stops once the caller has returned.
CHECK_DEADLOCK FALSE
