CONSTANTS
    Threshold = 0
    BatchSize = 3
    IntBound = 4
    Key <- MCKey
    EmptyKey = 9
    Requests = {2, 3}
    DebugBuild = FALSE
    Inputs <- Tables
SPECIFICATION FairSpec
INVARIANTS
    TypeOK
    ProbeChains
    LoadBelowThreeQuarters
PROPERTY ImplementsQuery
\* The thread stops once it has returned.
CHECK_DEADLOCK FALSE
