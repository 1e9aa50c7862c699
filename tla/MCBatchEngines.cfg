CONSTANTS
    Threshold <- MCThreshold
    BatchSize = 3
    IntBound = 4
    MaxPieces = 3
    Inputs <- Tables
SPECIFICATION FairSpec
INVARIANTS
    TypeOK
    MergedIsAnswer
    OneSamplePerBatch
    AnswerExact
PROPERTIES
    ImplementsQuery
    EveryCallEnds
\* An engine stops once it has returned or panicked.
CHECK_DEADLOCK FALSE
