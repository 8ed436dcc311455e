------------------------------ MODULE UcsBridge ------------------------------
(***************************************************************************)
(* The UCS4 bridge of ext/charconv/charconv.c, as built for a native       *)
(* encoding other than UTF-8 (EUC-JP, SJIS):                               *)
(*   ucstochar(ucs4)  code point -> native character, via ucsconv.ucs2char *)
(*   chartoucs(ch)    native character -> code point, via ucsconv.char2ucs *)
(* Both contexts are process-wide singletons opened by                     *)
(* Scm_Init_libcharconv and shared by every thread under ucsconv.mutex.    *)
(*                                                                         *)
(* Data abstraction.  A native character is an integer: the character of   *)
(* Unicode code point cp is cp itself, a character of the native encoding  *)
(* that has no Unicode mapping is one of NativeOnly, and SCM_CHAR_INVALID  *)
(* is -1.  UTF-8 is the six-byte form of the original UTF-8 that the       *)
(* engine produces; its bytes are integers 0..255.                         *)
(*                                                                         *)
(* The engine's call on a shared handle is two steps: it takes the input  *)
(* into the handle's state and later produces the output from that state. *)
(* Nothing but the mutex keeps another thread's call out between the two. *)
(***************************************************************************)
EXTENDS Integers, Sequences, Bitwise

CONSTANTS
    Threads,
    Codes,       \* code points the callers pass
    Unmapped,    \* code points the native encoding cannot represent
    NativeOnly,  \* native characters without a Unicode code point
    MaxCalls,    \* calls per thread
    NoThread

ASSUME /\ Codes \subseteq 0..2147483647
       /\ Unmapped \subseteq Codes
       /\ NativeOnly \cap (Codes \cup {-1}) = {}
       /\ MaxCalls \in Nat
       /\ NoThread \notin Threads

SCM_CHAR_INVALID == -1
Contexts == {"ucs2char", "char2ucs"}
NativeChars == (Codes \ Unmapped) \cup NativeOnly \cup {SCM_CHAR_INVALID}

VARIABLES
    opened,   \* context -> jconv_open succeeded (the pointer is not NULL)
    lock,     \* holder of ucsconv.mutex, or NoThread
    handle,   \* context -> the input the shared handle holds
    pc,       \* thread -> "idle" | "lock" | "jconv_in" | "jconv_out" | "unlock"
    op,       \* thread -> which routine it is in
    arg,      \* thread -> its argument
    out,      \* thread -> jconv's result into its outbuf
    res,      \* thread -> what its last call returned
    calls     \* thread -> calls made

vars == <<opened, lock, handle, pc, op, arg, out, res, calls>>

(***************************************************************************)
(* The engine (spec_modelled): what jconv writes for one character.  The   *)
(* UTF-8 encoding is the reference definition: lead byte, then six bits    *)
(* per continuation byte, by length.                                       *)
(***************************************************************************)
Utf8Len(cp) ==
    CASE cp < 2^7  -> 1 [] cp < 2^11 -> 2 [] cp < 2^16 -> 3
      [] cp < 2^21 -> 4 [] cp < 2^26 -> 5 [] OTHER     -> 6

Utf8Encode(cp) ==
    LET n == Utf8Len(cp)
        lead == <<0, 192, 224, 240, 248, 252>>[n]
    IN  [i \in 1..n |-> IF i = 1 THEN lead + cp \div 2^(6 * (n - 1))
                        ELSE 128 + ((cp \div 2^(6 * (n - i))) % 64)]

\* jconv(ctx, ...) on the input it holds: "illegal" or the output.
EngineOut(ctx, in) ==
    IF ctx = "ucs2char"
    THEN IF in \in Unmapped THEN [res |-> "illegal", out |-> <<>>]
         ELSE [res |-> "ok", out |-> <<in>>]
    ELSE IF in \in NativeOnly THEN [res |-> "illegal", out |-> <<>>]
         ELSE [res |-> "ok", out |-> Utf8Encode(in)]

-----------------------------------------------------------------------------
(* A mutation: the three-byte test of the lead byte off by one. *)
Utf8DecodeLeadOffByOne(u) ==
    LET c(i) == u[i] & 63
    IN  CASE u[1] < 128 -> u[1]
          [] u[1] <= 224 -> (u[1] & 31) * 2^6 + c(2)
          [] u[1] < 240 -> (u[1] & 15) * 2^12 + c(2) * 2^6 + c(3)
          [] u[1] < 248 -> (u[1] & 7) * 2^18 + c(2) * 2^12 + c(3) * 2^6 + c(4)
          [] u[1] < 252 -> (u[1] & 3) * 2^24 + c(2) * 2^18 + c(3) * 2^12
                            + c(4) * 2^6 + c(5)
          [] u[1] < 254 -> (u[1] & 1) * 2^30 + c(2) * 2^24 + c(3) * 2^18
                            + c(4) * 2^12 + c(5) * 2^6 + c(6)
          [] OTHER -> -1

\* chartoucs's unpacking of the engine's UTF-8 output by its lead byte.
Utf8Decode(u) ==
    LET c(i) == u[i] & 63
    IN  CASE u[1] < 128 -> u[1]
          [] u[1] < 224 -> (u[1] & 31) * 2^6 + c(2)
          [] u[1] < 240 -> (u[1] & 15) * 2^12 + c(2) * 2^6 + c(3)
          [] u[1] < 248 -> (u[1] & 7) * 2^18 + c(2) * 2^12 + c(3) * 2^6 + c(4)
          [] u[1] < 252 -> (u[1] & 3) * 2^24 + c(2) * 2^18 + c(3) * 2^12
                            + c(4) * 2^6 + c(5)
          [] u[1] < 254 -> (u[1] & 1) * 2^30 + c(2) * 2^24 + c(3) * 2^18
                            + c(4) * 2^12 + c(5) * 2^6 + c(6)
          [] OTHER -> -1

(* A mutation: a lock that does not exclude. *)
CanLockAlways(t) == TRUE

\* SCM_INTERNAL_MUTEX_LOCK(ucsconv.mutex) can return to t.
CanLock(t) == lock = NoThread

-----------------------------------------------------------------------------
\* Scm_Init_libcharconv: both contexts opened (each may fail), the mutex
\* initialised, before any thread calls the hooks.
Init ==
    /\ opened \in [Contexts -> BOOLEAN]
    /\ lock = NoThread
    /\ handle = [c \in Contexts |-> 0]
    /\ pc = [t \in Threads |-> "idle"]
    /\ op = [t \in Threads |-> "ucs2char"]
    /\ arg = [t \in Threads |-> 0]
    /\ out = [t \in Threads |-> [res |-> "ok", out |-> <<>>]]
    /\ res = [t \in Threads |-> 0]
    /\ calls = [t \in Threads |-> 0]

\* Entry of ucstochar(ucs4) or chartoucs(ch), up to the lock: the early
\* returns for a NULL context and, in chartoucs, for SCM_CHAR_INVALID.
Call(t) ==
    /\ pc[t] = "idle" /\ calls[t] < MaxCalls
    /\ \E o \in Contexts, x \in Codes \cup NativeChars :
          /\ x \in (IF o = "ucs2char" THEN Codes ELSE NativeChars)
          /\ op' = [op EXCEPT ![t] = o]
          /\ arg' = [arg EXCEPT ![t] = x]
          /\ IF (o = "char2ucs" /\ x = SCM_CHAR_INVALID) \/ ~opened[o]
             THEN /\ res' = [res EXCEPT ![t] = IF o = "ucs2char"
                                               THEN SCM_CHAR_INVALID ELSE -1]
                  /\ calls' = [calls EXCEPT ![t] = @ + 1]
                  /\ UNCHANGED pc
             ELSE /\ pc' = [pc EXCEPT ![t] = "lock"]
                  /\ UNCHANGED <<res, calls>>
    /\ UNCHANGED <<opened, lock, handle, out>>

Lock(t) ==
    /\ pc[t] = "lock"
    /\ CanLock(t)
    /\ lock' = t
    /\ pc' = [pc EXCEPT ![t] = "jconv_in"]
    /\ UNCHANGED <<opened, handle, op, arg, out, res, calls>>

\* r = jconv(ctx, &inb, &inroom, &outb, &outroom), taking its input ...
JconvIn(t) ==
    /\ pc[t] = "jconv_in"
    /\ handle' = [handle EXCEPT ![op[t]] = arg[t]]
    /\ pc' = [pc EXCEPT ![t] = "jconv_out"]
    /\ UNCHANGED <<opened, lock, op, arg, out, res, calls>>

\* ... and writing its output.
JconvOut(t) ==
    /\ pc[t] = "jconv_out"
    /\ out' = [out EXCEPT ![t] = EngineOut(op[t], handle[op[t]])]
    /\ pc' = [pc EXCEPT ![t] = "unlock"]
    /\ UNCHANGED <<opened, lock, handle, op, arg, res, calls>>

\* Unlock, then: ILLEGAL_SEQUENCE gives SCM_CHAR_INVALID or -1; otherwise
\* SCM_CHAR_GET of the output, or its UTF-8 unpacked to a code point.
Unlock(t) ==
    /\ pc[t] = "unlock"
    /\ lock' = NoThread
    /\ res' = [res EXCEPT ![t] =
                 CASE out[t].res = "illegal" /\ op[t] = "ucs2char" -> SCM_CHAR_INVALID
                   [] out[t].res = "illegal"                       -> -1
                   [] op[t] = "ucs2char"                           -> out[t].out[1]
                   [] OTHER                                  -> Utf8Decode(out[t].out)]
    /\ calls' = [calls EXCEPT ![t] = @ + 1]
    /\ pc' = [pc EXCEPT ![t] = "idle"]
    /\ UNCHANGED <<opened, handle, op, arg, out>>

\* Every thread has made its calls: the behaviour ends.
AllReturned ==
    /\ \A t \in Threads : pc[t] = "idle" /\ calls[t] = MaxCalls
    /\ UNCHANGED vars

Next == \/ \E t \in Threads :
            Call(t) \/ Lock(t) \/ JconvIn(t) \/ JconvOut(t) \/ Unlock(t)
        \/ AllReturned

Spec == Init /\ [][Next]_vars

-----------------------------------------------------------------------------
\* The character of code point cp, and the code point of character c, as
\* the spec defines the bridge (spec 4.4).
ExpectedChar(cp) ==
    IF ~opened["ucs2char"] \/ cp \in Unmapped THEN SCM_CHAR_INVALID ELSE cp
ExpectedUcs(c) ==
    IF c = SCM_CHAR_INVALID \/ ~opened["char2ucs"] \/ c \in NativeOnly
    THEN -1 ELSE c

(***************************************************************************)
(* The bridge answers right under any interleaving of threads (spec 4.4,  *)
(* 5): every finished ucstochar returns the character of its code point,  *)
(* or SCM_CHAR_INVALID, and every finished chartoucs the code point of its *)
(* character, or -1.  It fails if two threads' jconv calls on a shared     *)
(* context interleave, or if chartoucs unpacks some length of UTF-8 wrong. *)
(***************************************************************************)
BridgeAnswersRight ==
    \A t \in Threads :
        pc[t] = "idle" /\ calls[t] > 0 =>
            res[t] = IF op[t] = "ucs2char" THEN ExpectedChar(arg[t])
                     ELSE ExpectedUcs(arg[t])
=============================================================================
