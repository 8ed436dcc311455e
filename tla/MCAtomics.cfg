\* Two threads, one helper call each, on a variable holding 0 or 1: an
\* exchange racing a compare-exchange or another exchange.
CONSTANTS
    t1 = t1
    t2 = t2
    Threads <- MCThreads
    Words = {0, 1}
    MaxOps = 1
SYMMETRY MCSymmetry
SPECIFICATION Spec
INVARIANT ExchangeIsAtomic
