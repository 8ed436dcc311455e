------------------------------ MODULE Lifecycle ------------------------------
(***************************************************************************)
(* The life of a process that embeds libgauche, as src/test-extra.c's      *)
(* main drives it through src/core.c:                                      *)
(*   Scm_Init(GAUCHE_SIGNATURE)  once: panic on an ABI mismatch, else       *)
(*                               initialise and mark the runtime INITIALIZED*)
(*   load paths, libextra, the signal mask (no state of this model)        *)
(*   Scm_SimpleMain              run the Scheme procedure main, if defined, *)
(*                               and Scm_Exit with its result              *)
(* While main runs the Scheme program may register and delete cleanup      *)
(* handlers, call Scm_Cleanup, call Scm_Init again, change the REPL state, *)
(* or leave through exit, which is Scm_Exit(Scm_ObjToExitCode(obj)), or   *)
(* through Scm_Abort.                                                      *)
(* The cleanup handler list and its operations are those of Cleanup.       *)
(* A Scheme object is a record [kind, val]; a bignum stands for a value    *)
(* with the same low 16 bits (the model's integers are TLC's, 32 bits).    *)
(***************************************************************************)
EXTENDS Cleanup, Integers, Bitwise

CONSTANTS
    FixnumVals,   \* fixnums main may return or exit may be given
    BignumVals,   \* bignums, by their low bits
    Signatures    \* signatures a main program may pass to Scm_Init

ASSUME /\ FixnumVals \subseteq Int /\ BignumVals \subseteq Int
       /\ "GAUCHE_SIGNATURE" \in Signatures

\* enum ScmRuntimeState, in its order.
SCM_RUNTIME_INITIALIZING == 0
SCM_RUNTIME_INITIALIZED == 1
SCM_RUNTIME_MINI_REPL == 2
SCM_RUNTIME_FULL_REPL == 3

\* EX_SOFTWARE, the status of a program that failed.
EX_SOFTWARE == 70

Objects ==
    {[kind |-> k, val |-> 0] : k \in {"true", "false", "other"}}
    \cup {[kind |-> "fixnum", val |-> v] : v \in FixnumVals}
    \cup {[kind |-> "bignum", val |-> v] : v \in BignumVals}

VARIABLES
    runtime_state,  \* runtime_state
    stage,          \* the main thread: "start" | "setup" | "simple_main"
                    \*   | "running" | "gone"
    status,         \* the process's exit status, once it has exited
    request         \* how the exit was asked for, and with what

lvars == <<runtime_state, stage, status, request>>
allvars == <<vars, lvars>>

NoRequest == [how |-> "none", obj |-> [kind |-> "other", val |-> 0]]

LInit ==
    /\ Init
    /\ runtime_state = SCM_RUNTIME_INITIALIZING
    /\ stage = "start"
    /\ status = -1
    /\ request = NoRequest

\* The low 16 bits of the two's-complement representation of v: all that
\* a mask with 0xff reads.
LowWord(v) == v % 65536

(* A mutation: exit() is given the code as it is, without the mask. *)
ExitCodeUnmasked(code) == code

\* #define EXIT_CODE(code) ((code)&0xff)
EXIT_CODE(code) == LowWord(code) & 255

\* Scm_ObjToExitCode: #t 0, #f 1, an integer its low byte (a fixnum by
\* SCM_INT_VALUE(obj) & 0xff, a bignum by Scm_LogAnd(obj, 0xff)), else 70.
Scm_ObjToExitCode(obj) ==
    CASE obj.kind = "true" -> 0
      [] obj.kind = "false" -> 1
      [] obj.kind \in {"fixnum", "bignum"} -> LowWord(obj.val) & 255
      [] OTHER -> EX_SOFTWARE

\* Scm_Exit(code): Scm_Cleanup(), then exit(EXIT_CODE(code)); the process
\* is gone.
ExitWith(code, why) ==
    /\ Scm_Exit
    /\ status' = EXIT_CODE(code)
    /\ request' = why
    /\ stage' = "gone"
    /\ UNCHANGED runtime_state

\* Scm_Panic: the message, then _exit(EXIT_CODE(1)): no cleanup, no flush.
Scm_Panic ==
    /\ pc' = "exited"
    /\ status' = EXIT_CODE(1)
    /\ request' = [NoRequest EXCEPT !.how = "panic"]
    /\ stage' = "gone"
    /\ UNCHANGED <<handlers, dirty, added, handle, y, ran, runtime_state>>

\* Scm_Abort(msg) in an emergency: write msg, then _exit(EXIT_CODE(1)).
Scm_Abort ==
    /\ stage = "running" /\ pc = "idle"
    /\ pc' = "exited"
    /\ status' = EXIT_CODE(1)
    /\ request' = [NoRequest EXCEPT !.how = "abort"]
    /\ stage' = "gone"
    /\ UNCHANGED <<handlers, dirty, added, handle, y, ran, runtime_state>>

\* Scm_Init(signature): return at once if the runtime is past
\* INITIALIZING; panic on a signature other than GAUCHE_SIGNATURE; else GC
\* set-up, every component's initialisation, the cond-features and
\* runtime_state = SCM_RUNTIME_INITIALIZED.  Made by main at "start", and
\* by the Scheme program again while it runs.
Scm_Init(sig, next) ==
    IF runtime_state > SCM_RUNTIME_INITIALIZING
    THEN /\ stage' = next
         /\ UNCHANGED <<vars, runtime_state, status, request>>
    ELSE IF sig # "GAUCHE_SIGNATURE"
    THEN Scm_Panic
    ELSE /\ runtime_state' = SCM_RUNTIME_INITIALIZED
         /\ stage' = next
         /\ UNCHANGED <<vars, status, request>>

MainInit ==
    /\ stage = "start"
    /\ \E sig \in Signatures : Scm_Init(sig, "setup")

\* Scm_AddLoadPath x3, Scm_Init_libextra, Scm_SetMasterSigmask.
ExtraSetup ==
    /\ stage = "setup"
    /\ stage' = "simple_main"
    /\ UNCHANGED <<vars, runtime_state, status, request>>

\* Scm_SimpleMain(argc, argv, NULL, 0): no script; look up main in the
\* user module; Scm_Exit(0) when it is not a procedure.
SimpleMainEnter ==
    /\ stage = "simple_main" /\ pc = "idle"
    /\ \/ stage' = "running" /\ UNCHANGED <<vars, runtime_state, status, request>>
       \/ ExitWith(0, [NoRequest EXCEPT !.how = "nomain"])

\* Scm_Apply(run-main, (main args)) returns: Scm_Exit with the result when
\* r >= 0 and it is a fixnum, else Scm_Exit(70).
MainReturns ==
    /\ stage = "running" /\ pc = "idle"
    /\ \E obj \in Objects, failed \in BOOLEAN :
          LET why == [how |-> IF failed THEN "error" ELSE "main", obj |-> obj]
          IN  IF ~failed /\ obj.kind = "fixnum"
              THEN ExitWith(obj.val, why)
              ELSE ExitWith(EX_SOFTWARE, why)

\* (exit obj) in the Scheme program.
SchemeExit ==
    /\ stage = "running" /\ pc = "idle"
    /\ \E obj \in Objects :
          ExitWith(Scm_ObjToExitCode(obj), [how |-> "exit", obj |-> obj])

\* Scm_SetRuntimeReplState(full).
Scm_SetRuntimeReplState ==
    /\ stage = "running" /\ pc = "idle"
    /\ \E full \in BOOLEAN :
          runtime_state' = IF full THEN SCM_RUNTIME_FULL_REPL
                                   ELSE SCM_RUNTIME_MINI_REPL
    /\ UNCHANGED <<vars, stage, status, request>>

SchemeInit ==
    /\ stage = "running" /\ pc = "idle"
    /\ Scm_Init("GAUCHE_SIGNATURE", "running")

\* The cleanup-handler calls of the Scheme program (Cleanup's actions).
CleanupCall ==
    /\ stage = "running"
    /\ \/ Scm_AddCleanupHandler \/ DeleteEnter \/ DeleteStep \/ Scm_Cleanup
    /\ UNCHANGED lvars

Gone ==
    /\ stage = "gone"
    /\ UNCHANGED allvars

LNext ==
    \/ MainInit \/ ExtraSetup \/ SimpleMainEnter \/ MainReturns
    \/ SchemeExit \/ Scm_SetRuntimeReplState \/ SchemeInit \/ CleanupCall
    \/ Scm_Abort \/ Gone

LSpec == LInit /\ [][LNext]_allvars

-----------------------------------------------------------------------------
\* The status a shell sees for each way out: the value's residue mod 256
\* for an integer, whatever its sign or size.
ExpectedStatus(r) ==
    CASE r.how \in {"panic", "abort"} -> 1
      [] r.how = "nomain" -> 0
      [] r.how = "main" /\ r.obj.kind = "fixnum" -> r.obj.val % 256
      [] r.how = "exit" /\ r.obj.kind \in {"fixnum", "bignum"} -> r.obj.val % 256
      [] r.how = "exit" /\ r.obj.kind = "true" -> 0
      [] r.how = "exit" /\ r.obj.kind = "false" -> 1
      [] OTHER -> EX_SOFTWARE

(***************************************************************************)
(* The process leaves with the status it was asked for, and cleans up      *)
(* unless it panics or aborts (Scm_SimpleMain, Scm_Exit,                   *)
(* Scm_ObjToExitCode, Scm_Panic, Scm_Abort): once it is gone, its status   *)
(* is the low byte of main's fixnum result or of the integer given to exit *)
(* (negative ones and ones past 255 included), 0 and 1 for #t and #f, 0    *)
(* without main, 70 for anything else, 1 for an ABI mismatch or an abort;  *)
(* and Scm_Cleanup has run unless it panicked or aborted.                  *)
(***************************************************************************)
ExitStatusAsRequested ==
    stage = "gone" =>
        /\ status = ExpectedStatus(request)
        /\ request.how \notin {"panic", "abort"} => ~dirty
=============================================================================
