------------------------------ MODULE MCAtomics ------------------------------
(* Model-checking instance of Atomics: two threads and two word values.   *)
EXTENDS Atomics, TLC

CONSTANTS t1, t2

MCThreads == {t1, t2}

\* The threads are interchangeable.
MCSymmetry == Permutations(MCThreads)
=============================================================================
