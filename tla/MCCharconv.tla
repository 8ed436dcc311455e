----------------------------- MODULE MCCharconv -----------------------------
(***************************************************************************)
(* The components of ext/charconv/charconv.c, in one run:                  *)
(*   "input"   an input conversion port over a remote giving whole reads;  *)
(*   "output"  an output conversion port;                                  *)
(*   "guess"   the encoding-guess registry, two threads;                   *)
(*   "ucs"     the UCS4 bridge, two threads.                               *)
(* They share no variable.  A behaviour exercises one of them, chosen in   *)
(* the initial state (part); the others keep one fixed initial state and   *)
(* never move, so the run's states are the sum of the components' states,  *)
(* not their product, and each property is that of its component.         *)
(***************************************************************************)
EXTENDS Integers, TLC

CONSTANTS a, k, x, EscLen, BufSize, Owner, InTextLen, OutTextLen,
          t1, t2, p1, p2, NoThread, NoProc, MaxRegs, MaxCalls

VARIABLES part,
          itext, iphase, remote, iremoteOpen, buf, imode, delivered,
          seenEOF, ierr, diag,
          otext, ophase, toWrite, pbuf, flushing, fin, flen, obuf, omode,
          sink, oremoteOpen, oerr,
          procs, glock, gpc, rec, fname, found, nregs,
          opened, ulock, handle, upc, op, arg, out, res, calls

MCThreads == {t1, t2}

In == INSTANCE InputPort
        WITH NarrowChars <- {a}, WideChars <- {k}, BadChars <- {x},
             RemoteReads <- "full", MaxTextLen <- InTextLen,
             text <- itext, phase <- iphase, remoteOpen <- iremoteOpen,
             mode <- imode, err <- ierr

Out == INSTANCE OutputPort
        WITH NarrowChars <- {a}, WideChars <- {k}, BadChars <- {x},
             MaxTextLen <- OutTextLen,
             text <- otext, phase <- ophase, remoteOpen <- oremoteOpen,
             mode <- omode, err <- oerr

\* Two scheme names that strcasecmp identifies, and a third.
G == INSTANCE GuessRegistry
        WITH Threads <- MCThreads, Procs <- {p1, p2},
             Names <- {"jp", "JP", "kr"},
             CaseFold <- "jp" :> "jp" @@ "JP" :> "jp" @@ "kr" :> "kr",
             lock <- glock, pc <- gpc

\* The first and last code point of every UTF-8 length, 1 to 6 bytes; one
\* three-byte code point EUC-JP has no character for; one user-defined
\* EUC-JP character without a code point.
U == INSTANCE UcsBridge
        WITH Threads <- MCThreads,
             Codes <- {0, 127, 128, 2047, 2048, 65535, 65536, 2097151,
                       2097152, 67108863, 67108864, 2147483647},
             Unmapped <- {65535}, NativeOnly <- {-2},
             lock <- ulock, pc <- upc

ivars == <<itext, iphase, remote, iremoteOpen, buf, imode, delivered,
           seenEOF, ierr, diag>>
ovars == <<otext, ophase, toWrite, pbuf, flushing, fin, flen, obuf, omode,
           sink, oremoteOpen, oerr>>
gvars == <<procs, glock, gpc, rec, fname, found, nregs>>
uvars == <<opened, ulock, handle, upc, op, arg, out, res, calls>>
vars == <<part, ivars, ovars, gvars, uvars>>

Parts == {"input", "output", "guess", "ucs"}

\* The components that do not run keep one of their initial states.
Init ==
    /\ part \in Parts
    /\ In!Init /\ (part # "input" => itext = <<>>)
    /\ Out!Init /\ (part # "output" => otext = <<>>)
    /\ G!Init
    /\ U!Init /\ (part # "ucs" => opened = [c \in U!Contexts |-> TRUE])

Next ==
    \/ part = "input" /\ In!Next /\ UNCHANGED <<part, ovars, gvars, uvars>>
    \/ part = "output" /\ Out!Next /\ UNCHANGED <<part, ivars, gvars, uvars>>
    \/ part = "guess" /\ G!Next /\ UNCHANGED <<part, ivars, ovars, uvars>>
    \/ part = "ucs" /\ U!Next /\ UNCHANGED <<part, ivars, ovars, gvars>>

\* The flusher's loop runs on the writing thread until it returns.
Spec == /\ Init /\ [][Next]_vars
        /\ WF_vars(Out!conv_output_flusher
                   /\ UNCHANGED <<part, ivars, gvars, uvars>>)

\* Threads and guessing procedures are interchangeable model values.
MCSymmetry == Permutations(MCThreads) \cup Permutations({p1, p2})

\* The properties of the four components, each about its own behaviours
\* (in the others its variables keep their initial values, where each of
\* these holds).
TypeOK == In!TypeOK
DeliveredIsPrefix == In!DeliveredIsPrefix
EOFMeansComplete == In!EOFMeansComplete
InvalidSequenceDiagnostic == In!InvalidSequenceDiagnostic
SinkIsPrefix == Out!SinkIsPrefix
ClosedSinkComplete == Out!ClosedSinkComplete
FlusherReturns == Out!FlusherReturns
RefinesGuessMap == G!RefinesGuessMap
BridgeAnswersRight == U!BridgeAnswersRight
=============================================================================
