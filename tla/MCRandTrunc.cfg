CONSTANTS
    K = 5
    N = 2
    Bits = {1, 2, 3}
    None = None
    InputSplit = {0}
    RandSplit = {0, 9}
SPECIFICATION Spec
INVARIANT RandTruncBound
