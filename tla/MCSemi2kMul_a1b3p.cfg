CONSTANTS
    K = 2
    N = 3
    MulTriples <- MCMulTriples
    SquarePairs <- MCSquarePairs
INIT MCInit
NEXT Next
INVARIANT SharingCorrect
