--------------------------- MODULE GuessRegistry ----------------------------
(***************************************************************************)
(* The registry of code-guessing procedures of ext/charconv/charconv.c:    *)
(*   Scm_RegisterCodeGuessingProc  prepend a record under guess.mutex      *)
(*   findGuessingProc              case-insensitive scan under guess.mutex *)
(* used by Scm_GuessCES and Scm_MakeInputConversionPort, from any thread.  *)
(* The list is a sequence whose first element is guess.procs; a record's   *)
(* next is the rest of the list when it was linked.  Every statement that  *)
(* touches the list or the mutex is a step of its own, so that the mutex   *)
(* is what keeps the threads' steps from interleaving harmfully.           *)
(***************************************************************************)
EXTENDS Naturals, Sequences, SequencesExt

CONSTANTS
    Threads,     \* threads calling into the registry
    Names,       \* scheme names as callers spell them
    CaseFold,    \* Names -> the name in lower case (strcasecmp's view)
    Procs,       \* guessing procedures
    MaxRegs,     \* how many registrations a behaviour makes
    NoThread, NoProc

ASSUME /\ CaseFold \in [Names -> Names]
       /\ MaxRegs \in Nat
       /\ NoThread \notin Threads /\ NoProc \notin Procs

Keys == {CaseFold[n] : n \in Names}

VARIABLES
    procs,   \* guess.procs: the list, most recent first
    lock,    \* holder of guess.mutex, or NoThread
    pc,      \* thread -> where it is in its call
    rec,     \* thread -> the record it is registering, with its next
    fname,   \* thread -> the name it is looking up
    found,   \* thread -> the procedure its last lookup returned, or NoProc
    nregs    \* registrations made so far

vars == <<procs, lock, pc, rec, fname, found, nregs>>

Init ==
    /\ procs = <<>>
    /\ lock = NoThread
    /\ pc = [t \in Threads |-> "idle"]
    /\ rec = [t \in Threads |-> [name |-> CHOOSE n \in Names : TRUE,
                                 proc |-> CHOOSE p \in Procs : TRUE,
                                 next |-> <<>>]]
    /\ fname = [t \in Threads |-> CHOOSE n \in Names : TRUE]
    /\ found = [t \in Threads |-> NoProc]
    /\ nregs = 0

(* A mutation: a lock that does not exclude (a missing LOCK call). *)
CanLockAlways(t) == TRUE

\* SCM_INTERNAL_MUTEX_LOCK(guess.mutex) can return to t.
CanLock(t) == lock = NoThread

(* A mutation: the scan keeps the last match (a FIFO "fix"). *)
findGuessingProcLast(list, code) ==
    LET i == SelectLastInSeq(list, LAMBDA r : CaseFold[r.name] = CaseFold[code])
    IN  IF i = 0 THEN NoProc ELSE list[i].proc

\* The for loop of findGuessingProc: the first record from the head whose
\* name equals code by strcasecmp; NULL (NoProc) if there is none.
findGuessingProc(list, code) ==
    LET i == SelectInSeq(list, LAMBDA r : CaseFold[r.name] = CaseFold[code])
    IN  IF i = 0 THEN NoProc ELSE list[i].proc

-----------------------------------------------------------------------------
(* Scm_RegisterCodeGuessingProc(code, proc, data) *)

\* rec = SCM_NEW(conv_guess), its fields set; then the lock.
RegLock(t) ==
    /\ pc[t] = "idle" /\ nregs < MaxRegs
    /\ CanLock(t)
    /\ \E n \in Names, p \in Procs :
          rec' = [rec EXCEPT ![t] = [name |-> n, proc |-> p, next |-> <<>>]]
    /\ lock' = t
    /\ pc' = [pc EXCEPT ![t] = "reg_link"]
    /\ UNCHANGED <<procs, fname, found, nregs>>

\* rec->next = guess.procs
RegLink(t) ==
    /\ pc[t] = "reg_link"
    /\ rec' = [rec EXCEPT ![t].next = procs]
    /\ pc' = [pc EXCEPT ![t] = "reg_publish"]
    /\ UNCHANGED <<procs, lock, fname, found, nregs>>

\* guess.procs = rec
RegPublish(t) ==
    /\ pc[t] = "reg_publish"
    /\ procs' = <<[name |-> rec[t].name, proc |-> rec[t].proc]>> \o rec[t].next
    /\ nregs' = nregs + 1
    /\ pc' = [pc EXCEPT ![t] = "reg_unlock"]
    /\ UNCHANGED <<lock, rec, fname, found>>

\* SCM_INTERNAL_MUTEX_UNLOCK(guess.mutex)
RegUnlock(t) ==
    /\ pc[t] = "reg_unlock"
    /\ lock' = NoThread
    /\ pc' = [pc EXCEPT ![t] = "idle"]
    /\ UNCHANGED <<procs, rec, fname, found, nregs>>

-----------------------------------------------------------------------------
(* findGuessingProc(code), as Scm_GuessCES and the input port call it *)

FindLock(t) ==
    /\ pc[t] = "idle"
    /\ CanLock(t)
    /\ \E n \in Names : fname' = [fname EXCEPT ![t] = n]
    /\ lock' = t
    /\ pc' = [pc EXCEPT ![t] = "find_scan"]
    /\ UNCHANGED <<procs, rec, found, nregs>>

FindScan(t) ==
    /\ pc[t] = "find_scan"
    /\ found' = [found EXCEPT ![t] = findGuessingProc(procs, fname[t])]
    /\ pc' = [pc EXCEPT ![t] = "find_unlock"]
    /\ UNCHANGED <<procs, lock, rec, fname, nregs>>

FindUnlock(t) ==
    /\ pc[t] = "find_unlock"
    /\ lock' = NoThread
    /\ pc' = [pc EXCEPT ![t] = "idle"]
    /\ UNCHANGED <<procs, rec, fname, found, nregs>>

Next == \E t \in Threads :
            \/ RegLock(t) \/ RegLink(t) \/ RegPublish(t) \/ RegUnlock(t)
            \/ FindLock(t) \/ FindScan(t) \/ FindUnlock(t)

Spec == Init /\ [][Next]_vars

-----------------------------------------------------------------------------
(***************************************************************************)
(* Refinement: with any interleaving of registering and looking-up threads *)
(* the registry behaves as the atomic map of GuessMap, where a lookup      *)
(* answers the procedure registered last under the case-folded name.  A    *)
(* registration is its store to guess.procs, a lookup its scan.  It fails  *)
(* if an update is lost between reading guess.procs and writing it, or if  *)
(* a lookup answers an older registration or misses a differently cased    *)
(* one.                                                                    *)
(***************************************************************************)
LatestRegistered(f) ==
    LET i == SelectInSeq(procs, LAMBDA r : CaseFold[r.name] = f)
    IN  IF i = 0 THEN NoProc ELSE procs[i].proc

Abstract == INSTANCE GuessMap
              WITH Keys <- Keys,
                   latest <- [f \in Keys |-> LatestRegistered(f)],
                   found <- found

RefinesGuessMap == Abstract!Spec
=============================================================================
