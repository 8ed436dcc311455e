\* CORD_str with starts up to MaxLen on cords of up to two characters, so
\* that start lies past the end of x for the shorter cords.
CONSTANTS
    Bytes = {1, 2}
    MaxLen = 2
    MaxLeaves = 1
    LongBytes = 2
    CharSigned = FALSE
    EcBufSz = 2
    ChrTargets = {1}
    FillLens = {1}
SPECIFICATION Spec
INVARIANT StrReturnsOccurrence
