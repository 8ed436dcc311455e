------------------------------ MODULE Features ------------------------------
(***************************************************************************)
(* The cond-expand feature lists of src/core.c, cond_features:             *)
(*   Scm_AddFeature      add (feature) unless it is in the disabled list   *)
(*   Scm_DisableFeature  add to the disabled list, remove from alist       *)
(*   Scm_DeleteFeature   remove from alist                                 *)
(* all under cond_features.mutex, from any thread (extensions add features *)
(* as they load; gosh -F disables them).  alist is a sequence of features, *)
(* head first (the module name of a cell plays no part here); dlist too.   *)
(* Each statement between the lock and the unlock is a step of its own.    *)
(* Scm_Init calls init_cond_features once, which runs Scm_AddFeature on    *)
(* each entry of its table in order; calls made before it (a main program  *)
(* disabling a feature ahead of Scm_Init) find the statically initialised  *)
(* mutex.                                                                  *)
(***************************************************************************)
EXTENDS Naturals, Sequences, SequencesExt

CONSTANTS
    Threads,
    FeatureNames,  \* symbols the calls intern
    MaxCalls,      \* calls per thread
    NoThread,
    InitFeatures   \* init_features[]: the features, in table order

ASSUME MaxCalls \in Nat /\ NoThread \notin Threads

VARIABLES
    alist,   \* cond_features.alist
    dlist,   \* cond_features.dlist
    lock,    \* holder of cond_features.mutex, or NoThread
    pc,      \* thread -> "idle" | "lock" | "test" | "cons" | "adelete" | "unlock"
    op,      \* thread -> "add" | "disable" | "delete"
    feat,    \* thread -> its feature
    calls,   \* thread -> calls made
    inited   \* init_cond_features has run

vars == <<alist, dlist, lock, pc, op, feat, calls, inited>>

\* cond_features = { SCM_NIL, SCM_NIL, ... }
Init ==
    /\ alist = <<>> /\ dlist = <<>>
    /\ lock = NoThread
    /\ pc = [t \in Threads |-> "idle"]
    /\ op = [t \in Threads |-> "add"]
    /\ feat = [t \in Threads |-> CHOOSE f \in FeatureNames : TRUE]
    /\ calls = [t \in Threads |-> 0]
    /\ inited = FALSE

(* A mutation: a lock that does not exclude. *)
CanLockAlways(t) == TRUE

\* SCM_INTERNAL_MUTEX_LOCK(cond_features.mutex) can return to t.
CanLock(t) == lock = NoThread

\* Scm_AssocDelete(f, alist, SCM_CMP_EQ): every cell of f goes.
AssocDelete(f, l) == SelectSeq(l, LAMBDA g : g # f)

Goto(t, p) == pc' = [pc EXCEPT ![t] = p]

\* f = SCM_INTERN(feature) (and the cell), before the lock.
Call(t) ==
    /\ pc[t] = "idle" /\ calls[t] < MaxCalls
    /\ \E o \in {"add", "disable", "delete"}, f \in FeatureNames :
          /\ op' = [op EXCEPT ![t] = o]
          /\ feat' = [feat EXCEPT ![t] = f]
    /\ Goto(t, "lock")
    /\ UNCHANGED <<alist, dlist, lock, calls, inited>>

Lock(t) ==
    /\ pc[t] = "lock"
    /\ CanLock(t)
    /\ lock' = t
    /\ Goto(t, CASE op[t] = "add" -> "test"
                 [] op[t] = "disable" -> "cons"
                 [] OTHER -> "adelete")
    /\ UNCHANGED <<alist, dlist, op, feat, calls, inited>>

\* Scm_AddFeature: if (SCM_FALSEP(Scm_Memq(f, cond_features.dlist))) ...
AddTest(t) ==
    /\ pc[t] = "test"
    /\ Goto(t, IF \E i \in DOMAIN dlist : dlist[i] = feat[t]
               THEN "unlock" ELSE "cons")
    /\ UNCHANGED <<alist, dlist, lock, op, feat, calls, inited>>

\* Scm_AddFeature: alist = Scm_Cons(cell, alist);
\* Scm_DisableFeature: dlist = Scm_Cons(f, dlist).
ConsCell(t) ==
    /\ pc[t] = "cons"
    /\ IF op[t] = "add"
       THEN /\ alist' = <<feat[t]>> \o alist
            /\ Goto(t, "unlock")
            /\ UNCHANGED dlist
       ELSE /\ dlist' = <<feat[t]>> \o dlist
            /\ Goto(t, "adelete")
            /\ UNCHANGED alist
    /\ UNCHANGED <<lock, op, feat, calls, inited>>

\* alist = Scm_AssocDelete(f, alist, SCM_CMP_EQ), in Scm_DisableFeature
\* and Scm_DeleteFeature.
AlistDelete(t) ==
    /\ pc[t] = "adelete"
    /\ alist' = AssocDelete(feat[t], alist)
    /\ Goto(t, "unlock")
    /\ UNCHANGED <<dlist, lock, op, feat, calls, inited>>

(* A mutation: the table entry added without looking at dlist. *)
AddFeatureIgnoringDisabled(l, d, f) == <<f>> \o l

\* Scm_AddFeature(f) with the lock free: cons f onto alist unless f is in
\* dlist.
AddFeature(l, d, f) == IF \E i \in DOMAIN d : d[i] = f THEN l ELSE <<f>> \o l

\* init_cond_features, from Scm_Init: for (i = 0; init_features[i].feature;
\* i++) Scm_AddFeature(...).  Scm_Init runs it once, while no thread is
\* inside a feature call.
init_cond_features ==
    /\ ~inited
    /\ \A t \in Threads : pc[t] = "idle"
    /\ alist' = FoldLeft(LAMBDA l, f : AddFeature(l, dlist, f), alist, InitFeatures)
    /\ inited' = TRUE
    /\ UNCHANGED <<dlist, lock, pc, op, feat, calls>>

Unlock(t) ==
    /\ pc[t] = "unlock"
    /\ lock' = NoThread
    /\ Goto(t, "idle")
    /\ calls' = [calls EXCEPT ![t] = @ + 1]
    /\ UNCHANGED <<alist, dlist, op, feat, inited>>

\* Every thread has made its calls, after Scm_Init.
AllReturned ==
    /\ inited
    /\ \A t \in Threads : pc[t] = "idle" /\ calls[t] = MaxCalls
    /\ UNCHANGED vars

Next ==
    \/ \E t \in Threads :
          Call(t) \/ Lock(t) \/ AddTest(t) \/ ConsCell(t) \/ AlistDelete(t)
          \/ Unlock(t)
    \/ init_cond_features
    \/ AllReturned

Spec == Init /\ [][Next]_vars

-----------------------------------------------------------------------------
(***************************************************************************)
(* Disabling takes precedence (Scm_DisableFeature's comment): whatever the *)
(* threads' calls and their interleaving, a feature in the disabled list   *)
(* is never in the features alist, outside the critical section that is    *)
(* disabling it.                                                           *)
(***************************************************************************)
DisabledNeverEnabled ==
    \A i \in DOMAIN dlist :
        \/ \E t \in Threads : pc[t] = "adelete" /\ feat[t] = dlist[i]
        \/ \A j \in DOMAIN alist : alist[j] # dlist[i]
=============================================================================
