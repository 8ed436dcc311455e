\* CORD_chr and CORD_rchr searching for '\0' in cords of up to three
\* characters (no NULs among them) in up to two string leaves or function
\* nodes.
CONSTANTS
    Bytes = {1, 2}
    MaxLen = 3
    MaxLeaves = 2
    LongBytes = 2
    CharSigned = FALSE
    EcBufSz = 2
    ChrTargets = {0}
    FillLens = {1}
SPECIFICATION Spec
INVARIANT ChrFindsNearest
