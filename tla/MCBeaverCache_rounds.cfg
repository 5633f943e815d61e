\* The default configuration: vectorized opening is on, so two misses are
\* opened in one batched round.
CONSTANTS
    b1 = b1
    b2 = b2
    None = None
    Buffer <- MCBuffer
    Views = {FALSE}
    DisableVectorization = FALSE
SPECIFICATION Spec
PROPERTY CacheSavesRound
SYMMETRY MCSymmetry
