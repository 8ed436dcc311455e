\* Ports: bufsiz 3, so a wide character (two source bytes, escape + two
\* target bytes) straddles two fills of the input port's scratch buffer,
\* overflows the output port's scratch buffer and is split by the port's
\* write buffer; whole reads from the remote; owned remotes; texts of up to
\* three characters.  Guess registry: two threads, three registrations.
\* UCS bridge: two threads, one call each; either context may have failed
\* to open.
CONSTANTS
    a = a
    k = k
    x = x
    EscLen = 1
    BufSize = 3
    Owner = TRUE
    InTextLen = 3
    OutTextLen = 3
    t1 = t1
    t2 = t2
    p1 = p1
    p2 = p2
    NoThread = NoThread
    NoProc = NoProc
    MaxRegs = 3
    MaxCalls = 1
\* Threads and procedures are symmetric; the one liveness property is about
\* the output port, in which no thread or procedure occurs.
SYMMETRY MCSymmetry
SPECIFICATION Spec
INVARIANT TypeOK
INVARIANT DeliveredIsPrefix
INVARIANT EOFMeansComplete
INVARIANT InvalidSequenceDiagnostic
INVARIANT SinkIsPrefix
INVARIANT ClosedSinkComplete
INVARIANT BridgeAnswersRight
PROPERTY FlusherReturns
PROPERTY RefinesGuessMap
