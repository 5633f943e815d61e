CONSTANTS
    b1 = b1
    b2 = b2
    None = None
    Buffer <- MCBuffer
    Views = {FALSE}
    DisableVectorization = FALSE
SPECIFICATION Spec
INVARIANT TypeOK
INVARIANT OpenConsistent
SYMMETRY MCSymmetry
