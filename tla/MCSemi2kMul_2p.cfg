CONSTANTS
    K = 2
    N = 2
SPECIFICATION Spec
INVARIANT SharingCorrect
