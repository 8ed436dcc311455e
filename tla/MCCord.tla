-------------------------------- MODULE MCCord --------------------------------
(***************************************************************************)
(* The components of gc/cord/cordxtra.c, in one run:                       *)
(*   "ops"   one call of a cord operation (comparison, search, copying,    *)
(*           eager file reading) on a cord of the bounds;                  *)
(*   "lazy"  two threads reading a lazy file cord through its cache.       *)
(* They share no variable.  A behaviour exercises one of them, chosen in   *)
(* the initial state (part); the other keeps one fixed initial state and   *)
(* never moves.                                                            *)
(***************************************************************************)
EXTENDS TLC

CONSTANTS Bytes, MaxLen, MaxLeaves, LongBytes, CharSigned, EcBufSz,
          ChrTargets, FillLens,
          t1, t2, NoThread, FileLen, LineSz, CacheLines, MaxReads

VARIABLES part,
          x, op, args, out,
          cache, heap, filePos, lfCurrent, lock, aborted, pc, pos, nc, res,
          reads

MCThreads == {t1, t2}

C == INSTANCE CordOps
L == INSTANCE LazyFile WITH Threads <- MCThreads

cvars == <<x, op, args, out>>
lvars == <<cache, heap, filePos, lfCurrent, lock, aborted, pc, pos, nc, res,
           reads>>
vars == <<part, cvars, lvars>>

\* The component that does not run keeps one of its initial states.
Init ==
    /\ part \in {"ops", "lazy"}
    /\ C!Init /\ (part # "ops" => x = <<>>)
    /\ L!Init

Next ==
    \/ part = "ops" /\ C!Next /\ UNCHANGED <<part, lvars>>
    \/ part = "lazy" /\ L!Next /\ UNCHANGED <<part, cvars>>

Spec == Init /\ [][Next]_vars

\* The reading threads are interchangeable.
MCSymmetry == Permutations(MCThreads)

\* The properties of the two components.
CmpOrdersLikeStrcmp == C!CmpOrdersLikeStrcmp
PutReportsFailure == C!PutReportsFailure
StrFindsFirst == C!StrFindsFirst
ChrFindsNearest == C!ChrFindsNearest
FillBufFillsExactly == C!FillBufFillsExactly
EagerReadsFile == C!EagerReadsFile
ReadReturnsFileByte == L!ReadReturnsFileByte
CacheCoherent == L!CacheCoherent
=============================================================================
