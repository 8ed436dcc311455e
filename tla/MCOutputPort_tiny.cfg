\* Spec 8.6: a scratch buffer (bufsiz 2) smaller than one converted wide
\* character (escape + two bytes).  The flusher must still return.
CONSTANTS
    a = a
    k = k
    x = x
    NarrowChars <- MCNarrow
    WideChars <- MCWide
    BadChars <- MCBad
    EscLen = 1
    BufSize = 2
    Owner = TRUE
    MaxTextLen = 2
SPECIFICATION Spec
PROPERTY FlusherReturns
