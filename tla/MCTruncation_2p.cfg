CONSTANTS
    K = 5
    N = 2
    Bits = {1, 2, 3}
    FieldWidths = {2, 3, 5}
    None = None
    InputSplit <- MCAllSplits
    RandSplit <- MCRandSplit
SPECIFICATION Spec
INVARIANT TruncANearExact
INVARIANT TruncAPrBound
INVARIANT TruncAPr2Bound
