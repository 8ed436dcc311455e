\* Cord operations with char unsigned (ARM, POWER ABIs), a two-byte
\* unsigned long and a two-character ec buffer: cords of up to three
\* characters from 1, 2 and 200 in up to two leaves of either kind, so that
\* bytes from 128 up, split leaves, patterns shorter than, as long as and
\* longer than the packed window, NUL runs and ec buffer flushes all occur.
\* Lazy file: five bytes, lines of two bytes, a two-line cache (so lines 0
\* and 2 share slot 0 and evict each other, and the last line is short);
\* two threads with two reads each.
CONSTANTS
    Bytes = {1, 2, 200}
    MaxLen = 3
    MaxLeaves = 2
    LongBytes = 2
    CharSigned = FALSE
    EcBufSz = 2
    ChrTargets = {1, 200}
    FillLens = {1, 2, 3}
    t1 = t1
    t2 = t2
    NoThread = NoThread
    FileLen = 5
    LineSz = 2
    CacheLines = 2
    MaxReads = 2
SYMMETRY MCSymmetry
SPECIFICATION Spec
INVARIANT StrFindsFirst
INVARIANT ChrFindsNearest
INVARIANT FillBufFillsExactly
INVARIANT EagerReadsFile
INVARIANT ReadReturnsFileByte
INVARIANT CacheCoherent
INVARIANT PutReportsFailure
