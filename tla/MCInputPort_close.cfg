\* An owning input port over a remote with whole reads, bufsiz 3; the
\* client may close the port at any point, before or after end of file.
CONSTANTS
    a = a
    k = k
    x = x
    NarrowChars <- MCNarrow
    WideChars <- MCWide
    BadChars <- MCBad
    EscLen = 1
    BufSize = 3
    Owner = TRUE
    RemoteReads = "full"
    MaxTextLen = 2
SPECIFICATION Spec
INVARIANT ClosedPortReleasesRemote
