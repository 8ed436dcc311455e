------------------------------- MODULE MCCore -------------------------------
(***************************************************************************)
(* The components of src/core.c, in one run:                               *)
(*   "life"      a process's life: Scm_Init, Scm_SimpleMain, the cleanup   *)
(*               handlers the Scheme program registers, Scm_Exit;          *)
(*   "features"  two threads' calls on the cond-expand feature lists;      *)
(*   "pvref"     pattern variable references (gauche/priv/macroP.h).       *)
(* They share no variable.  A behaviour exercises one of them, chosen in   *)
(* the initial state (part); the others keep their initial states.         *)
(***************************************************************************)
EXTENDS Integers, TLC

CONSTANTS MaxAdds, NotAHandle, FixnumVals, BignumVals, Signatures,
          t1, t2, f1, f2, NoThread, MaxCalls

VARIABLES part,
          handlers, dirty, added, cpc, handle, y, ran,
          runtime_state, stage, status, request,
          alist, dlist, lock, fpc, op, feat, calls, inited,
          pvref, made

MCThreads == {t1, t2}
MCFeatureNames == {f1, f2}

\* Integers negative, in range, at 255 and past it.
MCFixnumVals == {-1, 3, 255, 256}
MCBignumVals == {-257}

L == INSTANCE Lifecycle WITH pc <- cpc
\* init_cond_features' table holds f1; f2 is a feature only an extension
\* adds.
F == INSTANCE Features WITH pc <- fpc, Threads <- MCThreads,
                            FeatureNames <- MCFeatureNames,
                            InitFeatures <- <<f1>>

P == INSTANCE PvRef WITH Levels <- {0, 1, 255}, Counts <- {0, 1, 128, 255}

lvars == <<handlers, dirty, added, cpc, handle, y, ran,
           runtime_state, stage, status, request>>
fvars == <<alist, dlist, lock, fpc, op, feat, calls, inited>>
pvars == <<pvref, made>>
vars == <<part, lvars, fvars, pvars>>

Init == part \in {"life", "features", "pvref"} /\ L!LInit /\ F!Init /\ P!PInit

Next ==
    \/ part = "life" /\ L!LNext /\ UNCHANGED <<part, fvars, pvars>>
    \/ part = "features" /\ F!Next /\ UNCHANGED <<part, lvars, pvars>>
    \/ part = "pvref" /\ P!PNext /\ UNCHANGED <<part, lvars, fvars>>

\* Scm_DeleteCleanupHandler runs on its caller's thread until it returns.
Spec == /\ Init /\ [][Next]_vars
        /\ WF_vars(part = "life" /\ L!CleanupCall /\ L!DeleteStep
                   /\ UNCHANGED <<part, fvars, pvars>>)

\* Threads are interchangeable (feature names are not: only f1 is in the
\* initial table).
MCSymmetry == Permutations(MCThreads)

\* The properties of the three components.
HandlersRunOnce == L!HandlersRunOnce
DeleteUnlinksHandle == L!DeleteUnlinksHandle
ExitStatusAsRequested == L!ExitStatusAsRequested
DisabledNeverEnabled == F!DisabledNeverEnabled
PvrefRoundTrip == P!PvrefRoundTrip
=============================================================================
