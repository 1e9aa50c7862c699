CONSTANTS
    MaxHeight = 3
    IntBound = 4
    U32Bound = 4
    SmallList = 2
    BloomBits <- MCBloomBits
    Float <- MCFloat
    FloatZero = 0
    FloatCompare <- MCFloatCompare
    FloatCompute <- MCFloatCompute
    Exprs <- Hidden
    Batches <- MCBatches
SPECIFICATION ScanSpec
INVARIANT SimplifyPreserves
\* The calls end.
CHECK_DEADLOCK FALSE
