----------------------------- MODULE OutputPort -----------------------------
(***************************************************************************)
(* The output conversion port of ext/charconv/charconv.c:                  *)
(*   Scm_MakeOutputConversionPort (constructor)                            *)
(*   conv_output_flusher          (the encode loop, "flusher")             *)
(*   conv_output_closer           (close: flush, reset sequence, close)    *)
(* and, as its environment, the client writing bytes through the buffered  *)
(* port, which calls the flusher when its buffer fills, on an explicit     *)
(* flush and at close.                                                     *)
(*                                                                         *)
(*   buffered port ----> flusher -->(info->buf)--> Scm_Putz(remote)        *)
(*                                                                         *)
(* GLIBC_2_1_ICONV_BUG is defined (charconv.c:297), so the flusher always  *)
(* hands what it converted to the remote before it returns.                *)
(* Each pass of the flusher's for(;;) loop is one step, so that a loop     *)
(* that never returns shows as a behaviour that never leaves it.           *)
(***************************************************************************)
EXTENDS ConvEngine

CONSTANTS
    BufSize,     \* bufsiz: the scratch buffer and the port buffer size
    Owner,       \* ownerp
    MaxTextLen   \* the longest text the client writes

ASSUME /\ BufSize \in Nat \ {0}
       /\ Owner \in BOOLEAN
       /\ MaxTextLen \in Nat

VARIABLES
    text,        \* the characters the client writes (constant); a bad one
                 \* is a byte sequence illegal in the native encoding, as
                 \* write-byte or an incomplete string can produce
    phase,       \* "unopened" | "open" | "closing" | "closed" | "failed"
    toWrite,     \* source bytes the client has not written yet
    pbuf,        \* the buffered port's write buffer
    flushing,    \* the flusher is running
    fin,         \* the flusher's inbuf .. inbuf+inroom
    flen,        \* the flusher's len: the bytes it was given
    obuf,        \* info->buf[0 .. info->ptr): converted, not yet written
    mode,        \* the engine's shift state
    sink,        \* bytes written to the remote
    remoteOpen,
    err          \* "none" | "unsupported" | "invalid" | "reset_failed"

vars == <<text, phase, toWrite, pbuf, flushing, fin, flen, obuf, mode, sink,
          remoteOpen, err>>

Drop(s, n) == SubSeq(s, n + 1, Len(s))

Init ==
    /\ text \in BoundedSeq(Chars, MaxTextLen)
    /\ phase = "unopened"
    /\ toWrite = SrcBytes(text)
    /\ pbuf = <<>>
    /\ flushing = FALSE
    /\ fin = <<>>
    /\ flen = 0
    /\ obuf = <<>>
    /\ mode = InitialMode
    /\ sink = <<>>
    /\ remoteOpen = TRUE
    /\ err = "none"

\* Scm_MakeOutputConversionPort: jconv_open succeeds, or the pair is not
\* supported; info->ptr starts at info->buf.
MakeOutputConversionPort ==
    /\ phase = "unopened"
    /\ \/ /\ phase' = "open"
          /\ UNCHANGED err
       \/ /\ phase' = "failed"
          /\ err' = "unsupported"
    /\ UNCHANGED <<text, toWrite, pbuf, flushing, fin, flen, obuf, mode, sink,
                   remoteOpen>>

-----------------------------------------------------------------------------
(* The buffered port (environment, spec section 6). *)

\* The client writes the next n bytes; the buffered port copies what fits.
WriteBytes ==
    /\ phase = "open" /\ ~flushing
    /\ \E n \in 1..(BufSize - Len(pbuf)) :
          /\ n <= Len(toWrite)
          /\ pbuf' = pbuf \o SubSeq(toWrite, 1, n)
          /\ toWrite' = Drop(toWrite, n)
    /\ UNCHANGED <<text, phase, flushing, fin, flen, obuf, mode, sink,
                   remoteOpen, err>>

\* The buffer is full, the client flushes, or the port is closing: the
\* buffered port calls conv_output_flusher with its buffered bytes.
CallFlusher ==
    /\ phase \in {"open", "closing"} /\ ~flushing /\ err = "none"
    /\ pbuf # <<>>
    /\ flushing' = TRUE
    /\ fin' = pbuf
    /\ flen' = Len(pbuf)
    /\ UNCHANGED <<text, phase, toWrite, pbuf, obuf, mode, sink, remoteOpen,
                   err>>

\* The client closes the port once it has written its whole text.
ClosePort ==
    /\ phase = "open" /\ ~flushing
    /\ toWrite = <<>>
    /\ phase' = "closing"
    /\ UNCHANGED <<text, toWrite, pbuf, flushing, fin, flen, obuf, mode, sink,
                   remoteOpen, err>>

-----------------------------------------------------------------------------
(***************************************************************************)
(* One pass of the flusher's loop: convert fin into info->buf from         *)
(* info->ptr.  On OUTPUT_NOT_ENOUGH write the scratch buffer out, rewind   *)
(* info->ptr and loop; on INPUT_NOT_ENOUGH and on completion write it out, *)
(* rewind and return len - inroom, which the buffered port drops from the  *)
(* front of its buffer.                                                    *)
(***************************************************************************)
Putz(bytes) == sink' = sink \o bytes

(* Mutations of the flusher's and closer's decisions, each a plausible    *)
(* slip in the C code; the runs show the properties tell them apart.      *)
ScratchRoomReservingOne == BufSize - Len(obuf) - 1
FlushScratchNoRewind(produced) ==
    /\ sink' = sink \o produced
    /\ obuf' = produced
ResetOutputOnlyIfLong(r) == IF Len(r.out) > 1 THEN r.out ELSE <<>>

\* outsize = info->bufsiz - (info->ptr - info->buf)
ScratchRoom == BufSize - Len(obuf)

\* Scm_Putz(info->buf, outbuf - info->buf, remote); info->ptr = info->buf
FlushScratch(produced) ==
    /\ Putz(produced)
    /\ obuf' = <<>>

\* return len - inroom: the bytes of the port buffer that were converted
FlusherResult(inroom) == flen - inroom

conv_output_flusher ==
    /\ flushing
    /\ LET r == Jconv(fin, ScratchRoom, mode)
           produced == obuf \o r.out
           inroom == Len(fin) - r.used
       IN  /\ mode' = r.mode
           /\ CASE r.res = "output_not_enough" ->
                     /\ FlushScratch(produced)
                     /\ fin' = Drop(fin, r.used)
                     /\ UNCHANGED <<pbuf, flushing, err>>
                [] r.res = "illegal" ->
                     /\ err' = "invalid"
                     /\ flushing' = FALSE
                     /\ UNCHANGED <<pbuf, fin, obuf, sink>>
                [] OTHER ->  \* "input_not_enough" or "ok"
                     /\ FlushScratch(produced)
                     /\ fin' = <<>>
                     /\ flushing' = FALSE
                     /\ pbuf' = Drop(pbuf, FlusherResult(inroom))
                     /\ UNCHANGED err
    /\ UNCHANGED <<text, phase, toWrite, flen, remoteOpen>>

\* if (r > 0) Scm_Putz(info->buf, r, remote): the reset sequence, if any
ResetOutput(r) == IF Len(r.out) > 0 THEN r.out ELSE <<>>

(***************************************************************************)
(* conv_output_closer, called once the buffer is flushed: write what is   *)
(* left in info->buf, then the reset sequence if any (an error if it does *)
(* not fit in bufsiz), flush the remote, close it if owned, jconv_close.  *)
(***************************************************************************)
conv_output_closer ==
    /\ phase = "closing" /\ ~flushing /\ err = "none"
    /\ pbuf = <<>>
    /\ LET r == JconvReset(mode, BufSize)
       IN  IF r.res = "noroom"
           THEN /\ err' = "reset_failed"
                /\ Putz(obuf)
                /\ UNCHANGED <<phase, mode, remoteOpen>>
           ELSE /\ Putz(obuf \o ResetOutput(r))
                /\ mode' = r.mode
                /\ remoteOpen' = (remoteOpen /\ ~Owner)
                /\ phase' = "closed"
                /\ UNCHANGED err
    /\ obuf' = <<>>
    /\ UNCHANGED <<text, toWrite, pbuf, flushing, fin, flen>>

\* A closed, failed or errored port takes no more steps.
Finished ==
    /\ phase \in {"closed", "failed"} \/ err # "none"
    /\ UNCHANGED vars

Next ==
    \/ MakeOutputConversionPort
    \/ WriteBytes
    \/ CallFlusher
    \/ ClosePort
    \/ conv_output_flusher
    \/ conv_output_closer
    \/ Finished

\* The flusher runs on the caller's thread until it returns: a pass of its
\* loop that is enabled is taken.  The client is not assumed to go on.
Spec == Init /\ [][Next]_vars /\ WF_vars(conv_output_flusher)

-----------------------------------------------------------------------------
(***************************************************************************)
(* Whatever byte chunks the client writes, wherever the port buffer splits *)
(* a character, and however often the scratch buffer overflows, the bytes *)
(* written to the remote are a prefix of the whole text converted in one   *)
(* go and reset (spec 8.2, 8.6): nothing lost, repeated or reordered       *)
(* between the flusher's passes, its returns and the closer.               *)
(***************************************************************************)
SinkIsPrefix == IsPrefix(sink, WholeConversion(text))

(***************************************************************************)
(* Close completes the output (spec 8.6, 4.3 close): once the port is      *)
(* closed the remote holds exactly the converted text and one reset.       *)
(***************************************************************************)
ClosedSinkComplete ==
    phase = "closed" => sink = WholeConversion(text)

(***************************************************************************)
(* The flusher returns (spec 4.3 step 2, 8.6): every call of               *)
(* conv_output_flusher eventually returns to the buffered port.            *)
(***************************************************************************)
FlusherReturns == flushing ~> ~flushing
=============================================================================
