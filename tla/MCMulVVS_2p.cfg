CONSTANTS
    K = 2
    N = 2
    Calls = 2
    MaskVals = {1, 2}
    None = None
SPECIFICATION Spec
INVARIANT MulVVSCorrect
PROPERTY Terminates
PROPERTY RefinesLockStep
\* Calls consecutive invocations: every rank stops once it returned from
\* the last one or threw.
CHECK_DEADLOCK FALSE
