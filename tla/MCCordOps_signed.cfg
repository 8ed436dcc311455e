\* CORD_cmp with char signed (the x86 and x86-64 ABIs), over one-leaf cords
\* of up to two characters from 1, 2 and 200: a function node compared with
\* a C string, with no second leaf, so no stale cur_leaf is read.
CONSTANTS
    Bytes = {1, 2, 200}
    MaxLen = 2
    MaxLeaves = 1
    LongBytes = 2
    CharSigned = TRUE
    EcBufSz = 2
    ChrTargets = {1}
    FillLens = {1}
SPECIFICATION Spec
INVARIANT CmpOrdersLikeStrcmp
