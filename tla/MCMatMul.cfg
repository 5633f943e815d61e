CONSTANTS
    K = 1
    N = 2
    D = 2
    None = None
    Publics <- MCPublics
    InputSplit <- MCSplit
    RandSplit <- MCRandSplit
SPECIFICATION Spec
INVARIANT MatMulCorrect
