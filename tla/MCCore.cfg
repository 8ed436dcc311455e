\* Process life: up to three cleanup handlers (deletions of the head, of a
\* later handler and of a pointer that was never a handle; Scm_Cleanup any
\* number of times); main's results and exit's arguments of every kind,
\* with integers that are negative, in range, at 255 and past it; a main
\* program built against another libgauche.  Features: two threads making
\* two calls each over two features (every order of an add racing a
\* disable or a delete).  Pattern variable references of levels and
\* indices 0, 1, 255 (and index 128, whose top bit is set).
CONSTANTS
    MaxAdds = 3
    NotAHandle = NotAHandle
    FixnumVals <- MCFixnumVals
    BignumVals <- MCBignumVals
    Signatures = {"GAUCHE_SIGNATURE", "other"}
    t1 = t1
    t2 = t2
    f1 = f1
    f2 = f2
    NoThread = NoThread
    MaxCalls = 2
SYMMETRY MCSymmetry
SPECIFICATION Spec
INVARIANT HandlersRunOnce
INVARIANT DisabledNeverEnabled
INVARIANT ExitStatusAsRequested
INVARIANT PvrefRoundTrip
PROPERTY DeleteUnlinksHandle
