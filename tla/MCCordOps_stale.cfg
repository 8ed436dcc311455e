\* CORD_cmp with char unsigned, over cords of up to two characters from 1
\* and 2 in up to two leaves of either kind, so that a function node is
\* entered past position 0 after a string leaf or another function node.
CONSTANTS
    Bytes = {1, 2}
    MaxLen = 2
    MaxLeaves = 2
    LongBytes = 2
    CharSigned = FALSE
    EcBufSz = 2
    ChrTargets = {1}
    FillLens = {1}
SPECIFICATION Spec
INVARIANT CmpOrdersLikeStrcmp
