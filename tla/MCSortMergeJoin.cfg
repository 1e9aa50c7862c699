CONSTANTS
    Key <- MCKey
    MaxLen = 3
SPECIFICATION Spec
INVARIANTS
    TypeOK
    EmittedSoFar
    ReturnsJoin
PROPERTY Returns
\* The join stops once it has returned.
CHECK_DEADLOCK FALSE
