\* A remote that returns short reads (a pipe or socket: Scm_Getz may give
\* any 1..n bytes), bufsiz 3: the client must not see end of file early.
CONSTANTS
    a = a
    k = k
    x = x
    NarrowChars <- MCNarrow
    WideChars <- MCWide
    BadChars <- MCBad
    EscLen = 1
    BufSize = 3
    Owner = TRUE
    RemoteReads = "partial"
    MaxTextLen = 3
SPECIFICATION Spec
INVARIANT EOFMeansComplete
