CONSTANTS
    K = 2
    N = 3
    Publics = {1, 3}
    Shifts = {1}
    None = None
SPECIFICATION Spec
INVARIANT SharesConsistent
