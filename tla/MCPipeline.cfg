CONSTANTS
    Uninit = Uninit
    CAP = 2
    Threshold = 0
    IntBound = 4
    BatchSize = 2
    Calls <- MCCalls
    MaxBatches = 4
SPECIFICATION FairSpec
INVARIANTS
    TypeOK
    PushNeverRefused
    AggregatedPrefix
    AnswerExact
PROPERTIES
    ImplementsQuery
    EveryCallEnds
\* The system stops once the caller has returned.
CHECK_DEADLOCK FALSE
