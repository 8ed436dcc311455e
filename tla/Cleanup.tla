------------------------------- MODULE Cleanup -------------------------------
(***************************************************************************)
(* Program cleanup of src/core.c:                                          *)
(*   Scm_AddCleanupHandler     push a record on cleanup.handlers           *)
(*   Scm_DeleteCleanupHandler  unlink the record a handle names            *)
(*   Scm_Cleanup               once: run every handler, most recent first  *)
(*   Scm_Exit                  Scm_Cleanup, then exit                      *)
(* The list is a sequence of handles, head first; a handle is the number   *)
(* of the Scm_AddCleanupHandler call that returned it.  One thread makes   *)
(* the calls (nothing in the code locks the list).  Each pass of the       *)
(* deletion loop is a step, so a loop that never ends is a behaviour that  *)
(* stays in it.                                                            *)
(***************************************************************************)
EXTENDS Naturals, Sequences, SequencesExt

CONSTANTS
    MaxAdds,     \* Scm_AddCleanupHandler calls in a behaviour
    NotAHandle   \* a pointer that never came from Scm_AddCleanupHandler

ASSUME MaxAdds \in Nat /\ NotAHandle \notin Nat

VARIABLES
    handlers,  \* cleanup.handlers
    dirty,     \* cleanup.dirty
    added,     \* handles returned so far
    pc,        \* "idle" | "del_loop" | "exited"
    handle,    \* the handle Scm_DeleteCleanupHandler was given
    y,         \* its cursor: a list position (0 = NULL); x stays NULL
    ran        \* the handlers called, in call order

vars == <<handlers, dirty, added, pc, handle, y, ran>>

\* cleanup = { TRUE, NULL }
Init ==
    /\ handlers = <<>>
    /\ dirty = TRUE
    /\ added = 0
    /\ pc = "idle"
    /\ handle = NotAHandle
    /\ y = 0
    /\ ran = <<>>

\* r->next = cleanup.handlers; cleanup.handlers = r; return r
Scm_AddCleanupHandler ==
    /\ pc = "idle" /\ added < MaxAdds
    /\ handlers' = <<added + 1>> \o handlers
    /\ added' = added + 1
    /\ UNCHANGED <<dirty, pc, handle, y, ran>>

\* x = NULL, y = cleanup.handlers; any pointer is accepted.
DeleteEnter ==
    /\ pc = "idle"
    /\ \E h \in (1..added) \cup {NotAHandle} : handle' = h
    /\ y' = IF handlers = <<>> THEN 0 ELSE 1
    /\ pc' = "del_loop"
    /\ UNCHANGED <<handlers, dirty, added, ran>>

(* A mutation: the unlink drops the rest of the list (x->next = NULL). *)
UnlinkTruncate(list, pos) == SubSeq(list, 1, pos - 1)

\* if (x == NULL) cleanup.handlers = y->next; else x->next = y->next;
Unlink(list, pos) == RemoveAt(list, pos)

\* One pass of while (y): unlink y if it is the handle (from the head when
\* x is NULL, else x->next = y->next) and break.  The loop body has no
\* y = y->next, so when y is not the handle the pass changes nothing.
DeleteStep ==
    /\ pc = "del_loop"
    /\ IF y = 0 THEN pc' = "idle" /\ UNCHANGED <<handlers, y>>
       ELSE IF handlers[y] = handle
            THEN /\ handlers' = Unlink(handlers, y)
                 /\ pc' = "idle"
                 /\ UNCHANGED y
            ELSE UNCHANGED <<handlers, pc, y>>
    /\ UNCHANGED <<dirty, added, handle, ran>>

(* A mutation: the dirty flag is tested but never cleared. *)
CleanupKeepsDirty ==
    /\ dirty
    /\ ran' = ran \o handlers
    /\ UNCHANGED dirty

\* if (!cleanup.dirty) return; cleanup.dirty = FALSE; then every handler
\* from the head (Scm_VMFlushDynamicHandlers and Scm_FlushAllPorts around
\* it touch no state of this module).
CleanupOnce ==
    IF dirty
    THEN /\ dirty' = FALSE
         /\ ran' = ran \o handlers
    ELSE UNCHANGED <<dirty, ran>>

Scm_Cleanup ==
    /\ pc = "idle"
    /\ CleanupOnce
    /\ UNCHANGED <<handlers, added, pc, handle, y>>

\* Scm_Exit(code): Scm_Cleanup(), then exit(); the process ends.
Scm_Exit ==
    /\ pc = "idle"
    /\ CleanupOnce
    /\ pc' = "exited"
    /\ UNCHANGED <<handlers, added, handle, y>>

\* After exit() nothing more happens.
Exited ==
    /\ pc = "exited"
    /\ UNCHANGED vars

Next ==
    \/ Scm_AddCleanupHandler
    \/ DeleteEnter
    \/ DeleteStep
    \/ Scm_Cleanup
    \/ Scm_Exit
    \/ Exited

\* Scm_DeleteCleanupHandler runs on its caller's thread until it returns.
Spec == Init /\ [][Next]_vars /\ WF_vars(DeleteStep)

-----------------------------------------------------------------------------
(***************************************************************************)
(* Handlers run exactly once, most recent first (Scm_Cleanup, Scm_Exit):   *)
(* however often Scm_Cleanup is called, directly or through Scm_Exit, the  *)
(* handlers it calls are called once each, in reverse order of            *)
(* registration.                                                           *)
(***************************************************************************)
HandlersRunOnce ==
    \A i, j \in DOMAIN ran : i < j => ran[i] > ran[j]

(***************************************************************************)
(* Deletion unlinks exactly the handle (Scm_DeleteCleanupHandler): when a  *)
(* call returns, every other handler is still registered, in order, and   *)
(* the handle is not.                                                      *)
(***************************************************************************)
DeleteUnlinksHandle ==
    [][pc = "del_loop" /\ pc' = "idle" =>
          handlers' = SelectSeq(handlers, LAMBDA h : h # handle)]_vars

(***************************************************************************)
(* Deletion returns (Scm_DeleteCleanupHandler): every call ends, whatever  *)
(* handle it is given and wherever it is in the list.                      *)
(***************************************************************************)
DeleteReturns == pc = "del_loop" ~> pc # "del_loop"
=============================================================================
