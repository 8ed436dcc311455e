----------------------------- MODULE InputPort ------------------------------
(***************************************************************************)
(* The input conversion port of ext/charconv/charconv.c:                   *)
(*   Scm_MakeInputConversionPort  (constructor, with the guessing path)    *)
(*   conv_input_filler            (the decode step, "filler")              *)
(*   conv_input_closer            (close)                                  *)
(* and, as its environment, the remote port it reads with Scm_Getz and the *)
(* client that reads the conversion port through the buffered port.        *)
(*                                                                         *)
(*   <-- buffered port <--- filler <--(info->buf)--- Scm_Getz(remote)      *)
(*                                                                         *)
(* The source text is chosen in Init and never changes: it is what the     *)
(* remote port holds.  delivered is what the client has read so far.       *)
(***************************************************************************)
EXTENDS ConvEngine

CONSTANTS
    BufSize,      \* bufsiz: the scratch buffer and the port buffer size
    Owner,        \* ownerp: closing the conversion closes the remote
    RemoteReads,  \* "full": Scm_Getz returns all it is asked for up to EOF
                  \* "partial": it may return any 1..n bytes (pipes, sockets)
    MaxTextLen    \* the longest source text

ASSUME /\ BufSize \in Nat \ {0}
       /\ Owner \in BOOLEAN
       /\ RemoteReads \in {"full", "partial"}
       /\ MaxTextLen \in Nat

\* How many bytes of a diagnostic snippet Scm_Error shows (charconv.c:187).
DiagLen == 6

VARIABLES
    text,        \* the characters of the remote's content (constant)
    phase,       \* "unopened" | "open" | "dummy" (empty string port) |
                 \* "closed" | "failed" (constructor raised an error)
    remote,      \* bytes of the remote not read yet
    remoteOpen,  \* the remote port is not closed
    buf,         \* info->buf[0 .. info->ptr): bytes left from the last call
    mode,        \* the engine's shift state
    delivered,   \* bytes the client has received from the port
    seenEOF,     \* the client has been given end of file
    err,         \* "none" or the error a call raised
    diag         \* the bytes shown with an invalid-sequence error

vars == <<text, phase, remote, remoteOpen, buf, mode, delivered, seenEOF,
          err, diag>>

Errors == {"none", "invalid", "detect_failed", "unsupported", "closed_remote"}

(***************************************************************************)
(* Scm_Getz(ptr, n, remote): the counts a read of n bytes may return.  A   *)
(* closed remote reads as EOF here; Getz raising an error on it instead is *)
(* the first disjunct of the filler.                                       *)
(***************************************************************************)
GetzCounts(n) ==
    LET m == IF n < Len(remote) THEN n ELSE Len(remote)
    IN  CASE ~remoteOpen \/ m = 0   -> {0}
          [] RemoteReads = "full"   -> {m}
          [] OTHER                  -> 1..m

Drop(s, n) == SubSeq(s, n + 1, Len(s))

(* Mutations of the filler's decisions, each a plausible slip in the C    *)
(* code; the runs show the properties tell them from the code.            *)
ReadRequestWhole == BufSize
AtEndOfInputIgnoringPending(n) == n = 0
LeftoverLost(in, r) == <<>>
SnippetFromBufStart(in, used) ==
    SubSeq(in, 1, IF Len(in) >= DiagLen THEN DiagLen ELSE Len(in))

\* insize = info->ptr - info->buf: the filler asks the remote for the rest
\* of the scratch buffer.
ReadRequest == BufSize - Len(buf)

\* nread <= 0 with nothing pending: the input has really ended.
AtEndOfInput(n) == n = 0 /\ buf = <<>>

\* memmove(info->buf, info->buf+insize-inroom, inroom): the bytes the engine
\* did not consume move to the front of the scratch buffer.
Leftover(in, r) == Drop(in, r.used)

\* The invalid-sequence snippet: at most DiagLen bytes from the offending one.
Snippet(in, used) ==
    SubSeq(in, used + 1,
           used + (IF Len(in) - used >= DiagLen THEN DiagLen ELSE Len(in) - used))

\* The port buffer is empty when the buffered port calls the filler, so the
\* room it offers is its whole size, which is bufsiz (charconv.c:264).
PortRoom == BufSize

-----------------------------------------------------------------------------
Init ==
    /\ text \in BoundedSeq(Chars, MaxTextLen)
    /\ phase = "unopened"
    /\ remote = SrcBytes(text)
    /\ remoteOpen = TRUE
    /\ buf = <<>>
    /\ mode = InitialMode
    /\ delivered = <<>>
    /\ seenEOF = FALSE
    /\ err = "none"
    /\ diag = <<>>

(***************************************************************************)
(* Scm_MakeInputConversionPort.  With a guessing scheme as fromCode it     *)
(* first reads up to bufsiz bytes; none means an empty string port is      *)
(* returned; otherwise the detection procedure names the code or the call  *)
(* fails.  Then jconv_open, which fails for an unsupported pair; the       *)
(* pre-read bytes become the pending contents of info->buf.                *)
(***************************************************************************)
EngineOpen(pending) ==
    \/ /\ phase' = "open"
       /\ buf' = pending
       /\ UNCHANGED err
    \/ /\ phase' = "failed"
       /\ err' = "unsupported"
       /\ UNCHANGED buf

MakeInputConversionPort ==
    /\ phase = "unopened"
    /\ \/ /\ EngineOpen(<<>>)
          /\ UNCHANGED remote
       \/ \E n \in GetzCounts(BufSize) :
            /\ remote' = Drop(remote, n)
            /\ IF n = 0
               THEN /\ phase' = "dummy"
                    /\ UNCHANGED <<buf, err>>
               ELSE \/ EngineOpen(SubSeq(remote, 1, n))
                    \/ /\ phase' = "failed"
                       /\ err' = "detect_failed"
                       /\ UNCHANGED buf
    /\ UNCHANGED <<text, remoteOpen, mode, delivered, seenEOF, diag>>

(***************************************************************************)
(* conv_input_filler, called by the buffered port when the client needs    *)
(* more bytes.  It returns bufsiz - outroom; the buffered port appends     *)
(* that many bytes and takes a result <= 0 as end of file.                 *)
(***************************************************************************)
FillerReturns(outroom) == BufSize - outroom

Deliver(bytes, ret) ==
    /\ delivered' = delivered \o bytes
    /\ seenEOF' = (seenEOF \/ ret <= 0)

conv_input_filler ==
    /\ phase = "open"
    /\ err = "none"
    /\ \/ \* Scm_Getz on the closed remote raises an error
          /\ ~remoteOpen
          /\ err' = "closed_remote"
          /\ UNCHANGED <<remote, remoteOpen, buf, mode, delivered, seenEOF, diag>>
       \/ \E n \in GetzCounts(ReadRequest) :
          LET in == buf \o SubSeq(remote, 1, n) IN
          /\ remote' = Drop(remote, n)
          /\ IF AtEndOfInput(n)
             THEN \* end of input: emit the reset sequence, close if owned;
                  \* the size_t result makes "result < 0" never true
                  LET r == JconvReset(mode, PortRoom)
                      ret == IF r.res = "ok" THEN Len(r.out) ELSE -1
                  IN  /\ mode' = r.mode
                      /\ Deliver(r.out, ret)
                      /\ remoteOpen' = (remoteOpen /\ ~Owner)
                      /\ UNCHANGED <<buf, err, diag>>
             ELSE LET r == Jconv(in, PortRoom, mode)
                      outroom == PortRoom - Len(r.out)
                  IN  /\ mode' = r.mode
                      /\ IF r.res = "illegal"
                         THEN /\ err' = "invalid"
                              /\ diag' = Snippet(in, r.used)
                              /\ UNCHANGED <<buf, delivered, seenEOF>>
                         ELSE \* shift the unconverted bytes to the front
                              /\ buf' = Leftover(in, r)
                              /\ Deliver(r.out, FillerReturns(outroom))
                              /\ UNCHANGED <<err, diag>>
                      /\ UNCHANGED remoteOpen
    /\ UNCHANGED <<text, phase>>

\* Reading the empty string port returned for an empty guessed input.
ReadDummy ==
    /\ phase = "dummy"
    /\ seenEOF' = TRUE
    /\ UNCHANGED <<text, phase, remote, remoteOpen, buf, mode, delivered,
                   err, diag>>

\* conv_input_closer: jconv_close(info), nothing else.
conv_input_closer ==
    /\ phase = "open"
    /\ phase' = "closed"
    /\ UNCHANGED <<text, remote, remoteOpen, buf, mode, delivered, seenEOF,
                   err, diag>>

\* A closed, failed or errored port takes no more steps.
Finished ==
    /\ \/ phase \in {"closed", "failed"}
       \/ err # "none"
    /\ UNCHANGED vars

Next ==
    \/ MakeInputConversionPort
    \/ conv_input_filler
    \/ ReadDummy
    \/ conv_input_closer
    \/ Finished

Spec == Init /\ [][Next]_vars

-----------------------------------------------------------------------------
TypeOK ==
    /\ text \in Seq(Chars)
    /\ phase \in {"unopened", "open", "dummy", "closed", "failed"}
    /\ remote \in Seq(SrcByte)
    /\ remoteOpen \in BOOLEAN
    /\ buf \in Seq(SrcByte) /\ Len(buf) <= BufSize
    /\ mode \in Modes
    /\ delivered \in Seq(TgtByte)
    /\ seenEOF \in BOOLEAN
    /\ err \in Errors
    /\ diag \in Seq(SrcByte)

(***************************************************************************)
(* Chunking invariance, safety half (spec 8.1, 8.4): whatever sizes the    *)
(* remote's reads come in and wherever they split a character, and however *)
(* often the client reads past EOF, what the client has received is a      *)
(* prefix of the whole text converted in one go and then reset.  It fails  *)
(* if the filler loses, repeats or reorders the leftover bytes it shifts   *)
(* to the front of info->buf, or emits the reset sequence twice.           *)
(***************************************************************************)
DeliveredIsPrefix == IsPrefix(delivered, WholeConversion(text))

(***************************************************************************)
(* No early EOF (spec 8.1, 8.5): when the client is told end of file, it   *)
(* has received the whole converted text including the final reset, and   *)
(* the text was well formed.  The filler's return value of 0 is the EOF    *)
(* signal, so this fails if it returns 0 while input is still pending.     *)
(***************************************************************************)
EOFMeansComplete ==
    seenEOF => WellFormed(text) /\ delivered = WholeConversion(text)

(***************************************************************************)
(* Illegal-sequence diagnostics (spec 8.3): an InvalidSequence error is    *)
(* raised only for an ill-formed text, and its snippet starts at the       *)
(* offending byte and has at most 6 bytes.                                 *)
(***************************************************************************)
InvalidSequenceDiagnostic ==
    err = "invalid" =>
        /\ ~WellFormed(text)
        /\ diag # <<>>
        /\ diag[1].ch \in BadChars
        /\ Len(diag) <= DiagLen

(***************************************************************************)
(* Closing releases an owned remote (spec, ConversionContext lifecycle:    *)
(* port-close must close the engine handle and, if owned, the remote       *)
(* stream): once an owning port is closed, its remote is closed, whether   *)
(* or not the client read up to end of file (conv_input_closer,            *)
(* conv_input_filler's EOF branch).                                        *)
(***************************************************************************)
ClosedPortReleasesRemote == phase = "closed" /\ Owner => ~remoteOpen
=============================================================================
