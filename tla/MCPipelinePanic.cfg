CONSTANTS
    Uninit = Uninit
    CAP = 2
    Threshold = 0
    IntBound = 4
    BatchSize = 2
    Calls <- OverflowThenMany
    MaxBatches = 5
SPECIFICATION FairSpec
PROPERTIES
    ConsumerPanicReported
\* The system stops once the caller has returned.
CHECK_DEADLOCK FALSE
