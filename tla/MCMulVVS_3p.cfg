CONSTANTS
    K = 2
    N = 3
    Calls = 1
    MaskVals = {1, 2}
    None = None
SPECIFICATION Spec
PROPERTY Terminates
\* One kernel invocation: every rank stops once it returned or threw.
CHECK_DEADLOCK FALSE
